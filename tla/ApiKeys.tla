------------------------------ MODULE ApiKeys ------------------------------
(****************************************************************************)
(* APIKeyManager (security/auth.py): the table api_keys.  A rotation        *)
(* selects a key, revokes it and stores its successor, in three statements  *)
(* of which the last two are committed one by one; a verification looks a   *)
(* key up and then notes its use.  The keys that rotations made of one key  *)
(* have its root and its date of expiry.                                    *)
(****************************************************************************)
EXTENDS Naturals, Sequences, FiniteSets

CONSTANTS
    Rotators, KeyUsers,     \* callers of rotate_api_key, and requests
    MaxKeys,                \* bound: how many keys are ever stored
    MaxUses                 \* bound: of usage_count

ASSUME ApiKeyAssumption == MaxKeys \in Nat \ {0} /\ MaxUses \in Nat

VARIABLES
    apiKey,         \* the rows, by number: [root, revoked, used]
    outdated,       \* roots of keys past their date of expiry
    rotator,        \* [Rotators -> [at, key]]
    keyUser,        \* [KeyUsers -> the key whose use is to be noted, or 0]
    \* history
    disturbed       \* roots with a key revoked by itself, or with a rotation that
                    \*   broke off, overlapped, or began with a revoked key

keyVars == <<apiKey, outdated, rotator, keyUser, disturbed>>

ApiKeyIds == DOMAIN apiKey
RotatorAtRest == [at |-> "idle", key |-> 0]

KeysInit ==
    /\ apiKey = <<>> /\ outdated = {}
    /\ rotator = [r \in Rotators |-> RotatorAtRest]
    /\ keyUser = [u \in KeyUsers |-> 0]
    /\ disturbed = {}

RootOf(k) == apiKey[k].root
RotationsOf(root) == {r \in Rotators : rotator[r].at # "idle" /\ RootOf(rotator[r].key) = root}

\* _store_api_key
StoredKey(root) == Append(apiKey, [root |-> root, revoked |-> FALSE, used |-> 0])

\* generate_api_key; the date of expiry is some time ahead.
GenerateKey ==
    /\ Len(apiKey) < MaxKeys
    /\ apiKey' = StoredKey(Len(apiKey) + 1)
    /\ UNCHANGED <<outdated, rotator, keyUser, disturbed>>

ExpireKeys(root) ==
    /\ root \in ApiKeyIds /\ RootOf(root) = root /\ outdated' = outdated \cup {root}
    /\ UNCHANGED <<apiKey, rotator, keyUser, disturbed>>

Withdrawn(k) == [apiKey EXCEPT ![k].revoked = TRUE]

\* revoke_api_key
RevokeKey(k) ==
    /\ k \in ApiKeyIds
    /\ apiKey' = Withdrawn(k)
    /\ disturbed' = disturbed \cup {RootOf(k)}
    /\ UNCHANGED <<outdated, rotator, keyUser>>

(****************************************************************************)
(* rotate_api_key                                                           *)
(****************************************************************************)
\* SELECT, whether or not the key is revoked.
SelectKey(r, k) ==
    /\ rotator[r].at = "idle" /\ k \in ApiKeyIds
    /\ rotator' = [rotator EXCEPT ![r] = [at |-> "revoke", key |-> k]]
    /\ disturbed' = IF apiKey[k].revoked \/ RotationsOf(RootOf(k)) # {}
                    THEN disturbed \cup {RootOf(k)} ELSE disturbed
    /\ UNCHANGED <<apiKey, outdated, keyUser>>

\* A slip: the old key is kept.
Replaced_Keep(k) == apiKey
Replaced(k) == Withdrawn(k)

RevokeOld(r) ==
    /\ rotator[r].at = "revoke"
    /\ apiKey' = Replaced(rotator[r].key)
    /\ rotator' = [rotator EXCEPT ![r].at = "store"]
    /\ UNCHANGED <<outdated, keyUser, disturbed>>

StoreNew(r) ==
    /\ rotator[r].at = "store" /\ Len(apiKey) < MaxKeys
    /\ apiKey' = StoredKey(RootOf(rotator[r].key))
    /\ rotator' = [rotator EXCEPT ![r] = RotatorAtRest]
    /\ UNCHANGED <<outdated, keyUser, disturbed>>

\* An error, or the end of the process.
BreakOff(r) ==
    /\ rotator[r].at # "idle"
    /\ disturbed' = disturbed \cup {RootOf(rotator[r].key)}
    /\ rotator' = [rotator EXCEPT ![r] = RotatorAtRest]
    /\ UNCHANGED <<apiKey, outdated, keyUser>>

(****************************************************************************)
(* verify_api_key                                                           *)
(****************************************************************************)
\* Of a key that is revoked or has expired nothing is noted (AuthenticationError).
LookUpKey(u, k) ==
    /\ keyUser[u] = 0
    /\ k \in ApiKeyIds /\ ~apiKey[k].revoked /\ RootOf(k) \notin outdated
    /\ apiKey[k].used < MaxUses
    /\ keyUser' = [keyUser EXCEPT ![u] = k]
    /\ UNCHANGED <<apiKey, outdated, rotator, disturbed>>

\* usage_count + 1 is computed by the UPDATE; it may fail, and the request with it.
UpdateLastUsed(u) ==
    /\ keyUser[u] # 0
    /\ apiKey' \in {apiKey, [apiKey EXCEPT ![keyUser[u]].used = @ + 1]}
    /\ keyUser' = [keyUser EXCEPT ![u] = 0]
    /\ UNCHANGED <<outdated, rotator, disturbed>>

KeysNext ==
    \/ GenerateKey
    \/ \E k \in ApiKeyIds :
        \/ ExpireKeys(k) \/ RevokeKey(k)
        \/ \E r \in Rotators : SelectKey(r, k)
        \/ \E u \in KeyUsers : LookUpKey(u, k)
    \/ \E r \in Rotators : RevokeOld(r) \/ StoreNew(r) \/ BreakOff(r)
    \/ \E u \in KeyUsers : UpdateLastUsed(u)

KeysSpec == KeysInit /\ [][KeysNext]_keyVars

-----------------------------------------------------------------------------
Valid(root) == {k \in ApiKeyIds : RootOf(k) = root /\ ~apiKey[k].revoked}

\* However often a key is rotated, exactly one of its successors is valid, and at
\* most one during a rotation, as long as rotations neither overlap nor break off
\* nor begin with a revoked key, and nobody revokes a key (rotate_api_key).
OneValidKey ==
    \A k \in ApiKeyIds : RootOf(k) \notin disturbed =>
        LET valid == Cardinality(Valid(RootOf(k))) IN
        valid <= 1 /\ (RotationsOf(RootOf(k)) = {} => valid = 1)
=============================================================================
