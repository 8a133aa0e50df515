------------------------------- MODULE Tokens -------------------------------
(****************************************************************************)
(* JWTManager (security/auth.py): tokens that expire, and a blacklist of    *)
(* revoked ones in Redis, whose entries expire too.  The clock counts half  *)
(* seconds, while the dates in a token are whole ones, so that it matters   *)
(* which way a time to live is rounded.                                     *)
(*                                                                          *)
(* A request verifies a token in two steps, as AuthenticationMiddleware     *)
(* does: it decodes the token, and then asks Redis.                         *)
(****************************************************************************)
EXTENDS Naturals, FiniteSets

CONSTANTS
    TokenIds,       \* jti
    Verifiers,      \* requests
    Lifetime,       \* [kind of token -> half seconds]
    LastTick        \* bound: of the clock

TokenKinds == {"access", "refresh"}

ASSUME TokenAssumption == Lifetime \in [TokenKinds -> Nat] /\ LastTick \in Nat

VARIABLES
    tick,
    blacklisting,   \* whether the manager has a Redis client
    token,          \* [TokenIds -> [kind, exp]], exp = 0 for one not yet made
    blacklist,      \* [TokenIds -> when the entry expires, 0 without one]
    revoking,       \* a revocation: its token, and the time to live it will store
    verifier,       \* [Verifiers -> where the request is, and with which token]
    \* history
    revoked,        \* tokens whose revocation was confirmed
    evicted         \* tokens whose entry Redis gave up before it expired

tokenVars == <<tick, blacklisting, token, blacklist, revoking, verifier, revoked, evicted>>

NotMade == [kind |-> "access", exp |-> 0]
NotRevoking == [on |-> FALSE, token |-> CHOOSE t \in TokenIds : TRUE, ttl |-> 0]
AtRest == [at |-> "idle", token |-> CHOOSE t \in TokenIds : TRUE,
           refresh |-> FALSE, known |-> FALSE]

TokensInit ==
    /\ tick = 2 /\ blacklisting \in BOOLEAN
    /\ token = [t \in TokenIds |-> NotMade]
    /\ blacklist = [t \in TokenIds |-> 0]
    /\ revoking = NotRevoking
    /\ verifier = [v \in Verifiers |-> AtRest]
    /\ revoked = {} /\ evicted = {}

TickPasses ==
    /\ tick < LastTick /\ tick' = tick + 1
    /\ UNCHANGED <<blacklisting, token, blacklist, revoking, verifier, revoked, evicted>>

Made(t) == token[t].exp # 0
\* `exp <= now` is too late; now has fractions of a second.
ExpiredToken(t) == 2 * token[t].exp <= tick
OnBlacklist(t) == tick < blacklist[t]

\* create_access_token, create_refresh_token: the whole second of the expiry.
NewToken(t, kind) ==
    /\ ~Made(t)
    /\ token' = [token EXCEPT ![t] = [kind |-> kind, exp |-> (tick + Lifetime[kind]) \div 2]]

CreateToken(t, kind) ==
    /\ NewToken(t, kind)
    /\ UNCHANGED <<tick, blacklisting, blacklist, revoking, verifier, revoked, evicted>>

(****************************************************************************)
(* verify_token, and refresh_access_token with a refresh token              *)
(****************************************************************************)
MoveVerifier(v, at) == verifier' = [verifier EXCEPT ![v].at = at]

Decode(v) ==
    /\ verifier[v].at = "idle"
    /\ \E t \in TokenIds, refresh \in BOOLEAN :
        /\ Made(t) /\ ~ExpiredToken(t)
        /\ verifier' = [verifier EXCEPT ![v] =
                [at |-> IF blacklisting THEN "ask" ELSE "verified",
                 token |-> t, refresh |-> refresh, known |-> t \in revoked]]
    /\ UNCHANGED <<tick, blacklisting, token, blacklist, revoking, revoked, evicted>>

\* EXISTS; when Redis fails, so does the request.
AskBlacklist(v) ==
    /\ verifier[v].at = "ask"
    /\ \/ ~OnBlacklist(verifier[v].token) /\ MoveVerifier(v, "verified")
       \/ verifier' = [verifier EXCEPT ![v] = AtRest]
    /\ UNCHANGED <<tick, blacklisting, token, blacklist, revoking, revoked, evicted>>

\* A refresh goes on with a refresh token only, and makes an access token.
UseToken(v) ==
    /\ verifier[v].at = "verified"
    /\ verifier' = [verifier EXCEPT ![v] = AtRest]
    /\ IF verifier[v].refresh /\ token[verifier[v].token].kind = "refresh"
       THEN \E t \in TokenIds : NewToken(t, "access")
       ELSE UNCHANGED token
    /\ UNCHANGED <<tick, blacklisting, blacklist, revoking, revoked, evicted>>

(****************************************************************************)
(* revoke_token                                                             *)
(****************************************************************************)
\* A slip: the whole seconds that remain.
TimeToLive_Whole(t) == IF ExpiredToken(t) THEN 0 ELSE (2 * token[t].exp - tick) \div 2
\* max(0, exp - int(time.time()))
TimeToLive(t) ==
    IF token[t].exp > tick \div 2 THEN token[t].exp - tick \div 2 ELSE 0

\* Without a Redis client, RuntimeError.
BeginRevocation(t) ==
    /\ blacklisting /\ Made(t) /\ ~revoking.on
    /\ revoking' = [on |-> TRUE, token |-> t, ttl |-> TimeToLive(t)]
    /\ UNCHANGED <<tick, blacklisting, token, blacklist, verifier, revoked, evicted>>

\* setex, which refuses a time of 0, as for an expired token; when it fails, it
\* may still have taken effect.
StoreRevocation ==
    /\ revoking.on /\ revoking' = NotRevoking
    /\ \/ /\ revoking.ttl > 0
          /\ blacklist' = [blacklist EXCEPT ![revoking.token] = tick + 2 * revoking.ttl]
          /\ revoked' \in {revoked, revoked \cup {revoking.token}}
       \/ UNCHANGED <<blacklist, revoked>>
    /\ UNCHANGED <<tick, blacklisting, token, verifier, evicted>>

\* Redis is configured to give up any key when memory runs out.
EvictEntry(t) ==
    /\ OnBlacklist(t)
    /\ blacklist' = [blacklist EXCEPT ![t] = 0]
    /\ evicted' = evicted \cup {t}
    /\ UNCHANGED <<tick, blacklisting, token, revoking, verifier, revoked>>

TokensNext ==
    \/ TickPasses
    \/ \E t \in TokenIds :
        \/ \E kind \in TokenKinds : CreateToken(t, kind)
        \/ BeginRevocation(t) \/ EvictEntry(t)
    \/ StoreRevocation
    \/ \E v \in Verifiers : Decode(v) \/ AskBlacklist(v) \/ UseToken(v)

TokensSpec == TokensInit /\ [][TokensNext]_tokenVars

-----------------------------------------------------------------------------
\* The entry of a revoked token outlives the token: a request that begins after
\* the revocation is refused, unless Redis gave the entry up, or the token expired
\* between the two steps of the request (verify_token, revoke_token).
RevokedStaysOut ==
    \A v \in Verifiers :
        LET t == verifier[v].token IN
        verifier[v].at = "verified" /\ verifier[v].known =>
            t \in evicted \/ ExpiredToken(t)
=============================================================================
