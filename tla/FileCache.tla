------------------------------ MODULE FileCache ------------------------------
(****************************************************************************)
(* The cache in Redis (storage/cache.py) with a reader, GET /file           *)
(* (api/rest.py), which answers from the cache alone.                       *)
(*                                                                          *)
(* Every session (`with FileCache()`) has a connection and a cipher of its  *)
(* own: with the configured key or, if there is none, with a key that no    *)
(* other session has.  Each Redis command is a step, and may fail before or *)
(* after it took effect.  Entries expire or are evicted at any time.        *)
(****************************************************************************)
EXTENDS Naturals, FiniteSets

CONSTANTS
    Sessions,
    Keys,           \* of all namespaces
    Patterns,       \* sets of keys: what a pattern in a namespace matches
    Full, Empty,    \* values: a text, and the empty string
    MaxEntries,     \* bound: how many entries are ever written
    NoEntry

ASSUME CacheAssumption ==
    /\ Patterns \subseteq SUBSET Keys /\ MaxEntries \in Nat /\ Full # Empty
    /\ "request" \notin Sessions   \* a session that only reads

VARIABLES
    configured,     \* settings.encryption_key is set
    entry,          \* [Keys -> entry or NoEntry]
    session,        \* [Sessions -> what it is doing]
    served,         \* the status of the last answer of GET /file
    \* history
    entries,        \* how many were written; the number of the last one
    dropped         \* numbers of entries that invalidations claim to have removed

cacheVars == <<configured, entry, session, served, entries, dropped>>

Unused == [at |-> "idle", keys |-> {}, found |-> {}]

CacheInit ==
    /\ configured \in BOOLEAN
    /\ entry = [k \in Keys |-> NoEntry]
    /\ session = [s \in Sessions |-> Unused]
    /\ served = 0
    /\ entries = 0 /\ dropped = {}

\* _init_encryption
CipherOf(s) == IF configured THEN "configured" ELSE s

Free(s) == session[s].at = "idle"

(****************************************************************************)
(* set, set_json, prewarm                                                   *)
(****************************************************************************)
Write(s, k, v) ==
    /\ entries < MaxEntries
    /\ entries' = entries + 1
    /\ entry' = [entry EXCEPT ![k] = [value |-> v, cipher |-> CipherOf(s), number |-> entries + 1]]

\* setex takes effect, and succeeds (TRUE) or fails (FALSE); or it has none, as
\* for what is not a string or has no JSON form.
CacheSet(s, k, v) ==
    /\ Free(s)
    /\ Write(s, k, v)
    /\ UNCHANGED <<configured, session, served, dropped>>

\* prewarm sets the files one by one, or fails to.
Prewarm(s, ks) ==
    /\ Free(s) /\ ks # {}
    /\ session' = [session EXCEPT ![s] = [Unused EXCEPT !.at = "prewarm", !.keys = ks]]
    /\ UNCHANGED <<configured, entry, served, entries, dropped>>

PrewarmFile(s) ==
    /\ session[s].at = "prewarm"
    /\ \E k \in session[s].keys, v \in {Full, Empty} :
        /\ Write(s, k, v) \/ UNCHANGED <<entry, entries>>
        /\ session' = [session EXCEPT ![s].keys = @ \ {k},
                                      ![s].at = IF session[s].keys = {k} THEN "idle" ELSE "prewarm"]
    /\ UNCHANGED <<configured, served, dropped>>

(****************************************************************************)
(* invalidate, invalidate_pattern, flush_namespace, flush_all               *)
(****************************************************************************)
Numbers(ks) == {entry[k].number : k \in {l \in ks : entry[l] # NoEntry}}
Deleted(ks) == [k \in Keys |-> IF k \in ks THEN NoEntry ELSE entry[k]]

\* One DEL, or a flush of the whole database; an error may hide that it took effect.
Invalidate(s, ks) ==
    /\ Free(s)
    /\ entry' = Deleted(ks)
    /\ dropped' \in {dropped, dropped \cup Numbers(ks)}
    /\ UNCHANGED <<configured, session, served, entries>>

\* A slip: only one of the keys is found.
Listed_One(pattern) ==
    {k \in pattern : /\ entry[k] # NoEntry
                     /\ \A l \in pattern : entry[l] # NoEntry => entry[l].number <= entry[k].number}
\* KEYS
Listed(pattern) == {k \in pattern : entry[k] # NoEntry}

ListPattern(s, pattern) ==
    /\ Free(s) /\ Listed(pattern) # {}
    /\ session' = [session EXCEPT ![s] = [Unused EXCEPT !.at = "delete",
                            !.keys = Listed(pattern), !.found = Numbers(pattern)]]
    /\ UNCHANGED <<configured, entry, served, entries, dropped>>

\* DEL of the keys that were found, whatever they hold now.  An error is reported
\* like a pattern that matches nothing.
DeleteListed(s) ==
    /\ session[s].at = "delete"
    /\ \/ /\ entry' = Deleted(session[s].keys)
          /\ dropped' \in {dropped, dropped \cup session[s].found}
       \/ UNCHANGED <<entry, dropped>>
    /\ session' = [session EXCEPT ![s] = Unused]
    /\ UNCHANGED <<configured, served, entries>>

Vanish(k) ==
    /\ entry[k] # NoEntry
    /\ entry' = [entry EXCEPT ![k] = NoEntry]
    /\ UNCHANGED <<configured, session, served, entries, dropped>>

(****************************************************************************)
(* get and its callers                                                      *)
(****************************************************************************)
\* A request reads in a session of its own, which wrote nothing.
Readable(k) == entry[k] # NoEntry /\ entry[k].cipher = CipherOf("request")

\* `if cached_content:`: an empty file is not found, like one that is missing, that
\* another cipher wrote, or that Redis fails to return (get returns None).
\* Without Redis there is no session (500).
GetFile(k) ==
    /\ \/ served' \in {404, 500}
       \/ Readable(k) /\ entry[k].value # Empty /\ served' = 200
    /\ UNCHANGED <<configured, entry, session, entries, dropped>>

CacheNext ==
    \/ \E s \in Sessions, k \in Keys :
        \/ \E v \in {Full, Empty} : CacheSet(s, k, v)
        \/ Invalidate(s, {k})
    \/ \E s \in Sessions :
        \/ \E ks \in SUBSET Keys : Prewarm(s, ks)
        \/ PrewarmFile(s)
        \/ Invalidate(s, Keys)
        \/ \E p \in Patterns : ListPattern(s, p)
        \/ DeleteListed(s)
    \/ \E k \in Keys : Vanish(k) \/ GetFile(k)

CacheSpec == CacheInit /\ [][CacheNext]_cacheVars

------------------------------------------------------------------------------
\* An invalidation that reports success leaves no entry behind that was there when
\* it began, although keys are listed and then deleted (invalidate_pattern).  And
\* without a configured key nothing that was cached is ever served, because the
\* temporary keys of two sessions differ (_init_encryption, GET /file).
ServedIsCurrent ==
    /\ \A k \in Keys : entry[k] # NoEntry => entry[k].number \notin dropped
    /\ ~configured => served # 200
==============================================================================
