--------------------------- MODULE AccessProofs ----------------------------
(****************************************************************************)
(* Theorems about who is let in, for any number of tokens, keys, secrets    *)
(* and requests: about Tokens, ApiKeys, SecretRotation and Permissions.     *)
(****************************************************************************)
EXTENDS Tokens, ApiKeys, SecretRotation, Permissions, TLAPS, FiniteSetTheorems

------------------------------------------------------------------------------
(* Tokens                                                                   *)

AnyToken == TokenIds \cup {NotRevoking.token, AtRest.token}

TokensTypeOK ==
    /\ tick \in Nat
    /\ blacklisting \in BOOLEAN
    /\ token \in [TokenIds -> [kind : TokenKinds, exp : Nat]]
    /\ blacklist \in [TokenIds -> Nat]
    /\ revoking \in [on : BOOLEAN, token : AnyToken, ttl : Nat]
    /\ verifier \in [Verifiers -> [at : {"idle", "ask", "verified"}, token : AnyToken,
                                   refresh : BOOLEAN, known : BOOLEAN]]
    /\ revoked \subseteq TokenIds /\ evicted \subseteq TokenIds
    /\ revoking.on => revoking.token \in TokenIds
    /\ \A v \in Verifiers : verifier[v].at # "idle" => verifier[v].token \in TokenIds

\* The entry that a revocation is about to store outlives the token, however late
\* it is stored.
StoresLongEnough ==
    revoking.on =>
        /\ blacklisting /\ Made(revoking.token)
        /\ revoking.ttl > 0 => tick + 2 * revoking.ttl >= 2 * token[revoking.token].exp

\* The entry of a revoked token is there at least as long as the token is valid.
EntryOutlives ==
    \A t \in revoked :
        /\ blacklisting /\ Made(t)
        /\ t \in evicted \/ blacklist[t] >= 2 * token[t].exp

KnowsRevoked ==
    \A v \in Verifiers : verifier[v].at # "idle" /\ verifier[v].known =>
        verifier[v].token \in revoked

TokensInv ==
    /\ TokensTypeOK
    /\ StoresLongEnough
    /\ EntryOutlives
    /\ KnowsRevoked
    /\ RevokedStaysOut

\* int(time.time()) is at most what it stands for, so that rounding only makes the
\* time to live longer.
LEMMA TimeToLiveLasts ==
  ASSUME tick \in Nat, NEW t \in TokenIds, token[t].exp \in Nat
  PROVE  /\ TimeToLive(t) \in Nat
         /\ TimeToLive(t) > 0 => tick + 2 * TimeToLive(t) >= 2 * token[t].exp
  <1>1. tick \div 2 \in Nat /\ 2 * (tick \div 2) <= tick
    OBVIOUS
  <1> QED BY <1>1 DEF TimeToLive

LEMMA InitTokens == TokensInit => TokensInv
  BY DEF TokensInit, TokensInv, TokensTypeOK, StoresLongEnough, EntryOutlives,
         KnowsRevoked, RevokedStaysOut, NotMade, NotRevoking, AtRest, AnyToken, TokenKinds

\* A new token leaves those that were made before alone.
LEMMA NewTokenKeeps ==
  ASSUME TokenAssumption, TokensTypeOK, NEW n \in TokenIds, NEW kind \in TokenKinds,
         NewToken(n, kind)
  PROVE  /\ token' \in [TokenIds -> [kind : TokenKinds, exp : Nat]]
         /\ \A t \in TokenIds : Made(t) => token'[t] = token[t]
  <1>1. (tick + Lifetime[kind]) \div 2 \in Nat
    BY DEF TokenAssumption, TokensTypeOK
  <1> QED BY <1>1 DEF NewToken, TokensTypeOK, Made

LEMMA TokensStep == TokensInv /\ [TokensNext]_tokenVars => TokensInv'
  <1> SUFFICES ASSUME TokensInv, [TokensNext]_tokenVars PROVE TokensInv'
    OBVIOUS
  <1> USE DEF TokensInv
  <1>a. TokenAssumption
    BY TokenAssumption
  <1>1. CASE TickPasses
    <2>1. tick' = tick + 1 /\ tick \in Nat
      BY <1>1 DEF TickPasses, TokensTypeOK
    <2>2. TokensTypeOK'
      BY <1>1, <2>1 DEF TickPasses, TokensTypeOK, AnyToken
    <2>3. StoresLongEnough'
      BY <1>1, <2>1 DEF TickPasses, TokensTypeOK, StoresLongEnough, Made
    <2>4. EntryOutlives' /\ KnowsRevoked'
      BY <1>1 DEF TickPasses, EntryOutlives, KnowsRevoked, Made
    <2>5. RevokedStaysOut'
      BY <1>1, <2>1 DEF TickPasses, TokensTypeOK, RevokedStaysOut, ExpiredToken
    <2> QED BY <2>2, <2>3, <2>4, <2>5
  <1>2. ASSUME NEW t \in TokenIds, NEW kind \in TokenKinds, CreateToken(t, kind)
        PROVE  TokensInv'
    <2>1. /\ token' \in [TokenIds -> [kind : TokenKinds, exp : Nat]]
          /\ \A u \in TokenIds : Made(u) => token'[u] = token[u]
      BY <1>a, <1>2, NewTokenKeeps DEF CreateToken
    <2>2. TokensTypeOK'
      BY <1>2, <2>1 DEF CreateToken, TokensTypeOK, AnyToken
    <2>3. StoresLongEnough'
      BY <1>2, <2>1 DEF CreateToken, TokensTypeOK, StoresLongEnough, Made
    <2>4. EntryOutlives' /\ KnowsRevoked'
      BY <1>2, <2>1 DEF CreateToken, TokensTypeOK, EntryOutlives, KnowsRevoked, Made
    <2>5. RevokedStaysOut'
      BY <1>2, <2>1 DEF CreateToken, TokensTypeOK, RevokedStaysOut, ExpiredToken,
         KnowsRevoked, EntryOutlives
    <2> QED BY <2>2, <2>3, <2>4, <2>5
  <1>3. ASSUME NEW t \in TokenIds, BeginRevocation(t)
        PROVE  TokensInv'
    <2>1. /\ TimeToLive(t) \in Nat
          /\ TimeToLive(t) > 0 => tick + 2 * TimeToLive(t) >= 2 * token[t].exp
      BY TimeToLiveLasts DEF TokensTypeOK
    <2>2. TokensTypeOK'
      BY <1>3, <2>1 DEF BeginRevocation, TokensTypeOK, AnyToken
    <2>3. StoresLongEnough'
      BY <1>3, <2>1 DEF BeginRevocation, TokensTypeOK, StoresLongEnough, Made
    <2>4. EntryOutlives' /\ KnowsRevoked' /\ RevokedStaysOut'
      BY <1>3 DEF BeginRevocation, EntryOutlives, KnowsRevoked, RevokedStaysOut,
         ExpiredToken, Made
    <2> QED BY <2>2, <2>3, <2>4
  <1>4. CASE StoreRevocation
    <2>1. CASE UNCHANGED <<blacklist, revoked>>
      BY <1>4, <2>1 DEF StoreRevocation, TokensTypeOK, AnyToken, NotRevoking, StoresLongEnough,
         EntryOutlives, KnowsRevoked, RevokedStaysOut, ExpiredToken, Made
    <2>2. CASE /\ revoking.ttl > 0
               /\ blacklist' = [blacklist EXCEPT ![revoking.token] = tick + 2 * revoking.ttl]
               /\ revoked' \in {revoked, revoked \cup {revoking.token}}
      <3>1. TokensTypeOK' /\ StoresLongEnough'
        BY <1>4, <2>2 DEF StoreRevocation, TokensTypeOK, AnyToken, NotRevoking, StoresLongEnough
      <3>2. EntryOutlives'
        BY <1>4, <2>2 DEF StoreRevocation, TokensTypeOK, StoresLongEnough, EntryOutlives, Made
      <3>3. KnowsRevoked' /\ RevokedStaysOut'
        BY <1>4, <2>2 DEF StoreRevocation, KnowsRevoked, RevokedStaysOut, ExpiredToken
      <3> QED BY <3>1, <3>2, <3>3
    <2> QED BY <1>4, <2>1, <2>2 DEF StoreRevocation
  <1>5. ASSUME NEW t \in TokenIds, EvictEntry(t)
        PROVE  TokensInv'
    <2>1. TokensTypeOK' /\ StoresLongEnough' /\ KnowsRevoked'
      BY <1>5 DEF EvictEntry, TokensTypeOK, AnyToken, StoresLongEnough, KnowsRevoked, Made
    <2>2. EntryOutlives' /\ RevokedStaysOut'
      BY <1>5 DEF EvictEntry, TokensTypeOK, EntryOutlives, RevokedStaysOut, ExpiredToken, Made
    <2> QED BY <2>1, <2>2
  <1>6. ASSUME NEW v \in Verifiers, Decode(v)
        PROVE  TokensInv'
    <2>1. PICK t \in TokenIds, refresh \in BOOLEAN :
            verifier' = [verifier EXCEPT ![v] =
                [at |-> IF blacklisting THEN "ask" ELSE "verified",
                 token |-> t, refresh |-> refresh, known |-> t \in revoked]]
      BY <1>6 DEF Decode
    <2>2. TokensTypeOK'
      BY <1>6, <2>1 DEF Decode, TokensTypeOK, AnyToken
    <2>3. StoresLongEnough' /\ EntryOutlives'
      BY <1>6 DEF Decode, StoresLongEnough, EntryOutlives, Made
    <2>4. KnowsRevoked'
      BY <1>6, <2>1 DEF Decode, TokensTypeOK, KnowsRevoked
    <2>5. RevokedStaysOut'
      BY <1>6, <2>1 DEF Decode, TokensTypeOK, EntryOutlives, RevokedStaysOut, ExpiredToken
    <2> QED BY <2>2, <2>3, <2>4, <2>5
  <1>7. ASSUME NEW v \in Verifiers, AskBlacklist(v)
        PROVE  TokensInv'
    <2>1. TokensTypeOK'
      <3>1. \/ verifier' = [verifier EXCEPT ![v] = AtRest]
            \/ verifier' = [verifier EXCEPT ![v].at = "verified"]
        BY <1>7 DEF AskBlacklist, MoveVerifier
      <3>2. verifier[v].token \in TokenIds
        BY <1>7 DEF AskBlacklist, TokensTypeOK
      <3>3. verifier' \in [Verifiers -> [at : {"idle", "ask", "verified"}, token : AnyToken,
                                        refresh : BOOLEAN, known : BOOLEAN]]
        <4>1. AtRest \in [at : {"idle", "ask", "verified"}, token : AnyToken,
                          refresh : BOOLEAN, known : BOOLEAN]
          BY DEF AtRest, AnyToken
        <4>2. CASE verifier' = [verifier EXCEPT ![v] = AtRest]
          BY <4>1, <4>2 DEF TokensTypeOK
        <4>3. CASE verifier' = [verifier EXCEPT ![v].at = "verified"]
          BY <4>3 DEF TokensTypeOK
        <4> QED BY <3>1, <4>2, <4>3
      <3>4. \A u \in Verifiers : verifier'[u].at # "idle" => verifier'[u].token \in TokenIds
        BY <3>1, <3>2, SMTT(30) DEF TokensTypeOK, AtRest
      <3> QED BY <1>7, <3>3, <3>4 DEF AskBlacklist, TokensTypeOK, AnyToken
    <2>2. StoresLongEnough' /\ EntryOutlives' /\ KnowsRevoked'
      BY <1>7 DEF AskBlacklist, MoveVerifier, TokensTypeOK, AtRest, StoresLongEnough,
         EntryOutlives, KnowsRevoked, Made
    <2>3. RevokedStaysOut'
      BY <1>7 DEF AskBlacklist, MoveVerifier, TokensTypeOK, AtRest, EntryOutlives, KnowsRevoked,
         RevokedStaysOut, ExpiredToken, OnBlacklist
    <2> QED BY <2>1, <2>2, <2>3
  <1>8. ASSUME NEW v \in Verifiers, UseToken(v)
        PROVE  TokensInv'
    <2>1. /\ token' \in [TokenIds -> [kind : TokenKinds, exp : Nat]]
          /\ \A u \in TokenIds : Made(u) => token'[u] = token[u]
      <3>1. CASE UNCHANGED token
        BY <3>1 DEF TokensTypeOK
      <3>2. CASE \E t \in TokenIds : NewToken(t, "access")
        BY <1>a, <3>2, NewTokenKeeps DEF TokenKinds
      <3> QED BY <1>8, <3>1, <3>2 DEF UseToken
    <2>2. TokensTypeOK'
      BY <1>8, <2>1 DEF UseToken, TokensTypeOK, AnyToken, AtRest
    <2>3. StoresLongEnough' /\ EntryOutlives' /\ KnowsRevoked'
      BY <1>8, <2>1 DEF UseToken, TokensTypeOK, StoresLongEnough, EntryOutlives, KnowsRevoked,
         AtRest, Made
    <2>4. RevokedStaysOut'
      BY <1>8, <2>1 DEF UseToken, TokensTypeOK, EntryOutlives, KnowsRevoked, RevokedStaysOut,
         ExpiredToken, AtRest, Made
    <2> QED BY <2>2, <2>3, <2>4
  <1>9. CASE UNCHANGED tokenVars
    BY <1>9 DEF tokenVars, TokensTypeOK, AnyToken, StoresLongEnough, EntryOutlives, KnowsRevoked,
       RevokedStaysOut, ExpiredToken, Made
  <1> QED BY <1>1, <1>2, <1>3, <1>4, <1>5, <1>6, <1>7, <1>8, <1>9 DEF TokensNext

\* A revoked token stays out for as long as it would be valid, for any lifetimes of
\* tokens and any number of requests and revocations: the time to live that
\* revoke_token computes is never too short.
THEOREM RevocationHolds == TokensSpec => []RevokedStaysOut
  <1>1. TokensInv => RevokedStaysOut
    BY DEF TokensInv
  <1> QED BY <1>1, InitTokens, TokensStep, PTL DEF TokensSpec

------------------------------------------------------------------------------
(* ApiKeys                                                                  *)

KeysTypeOK ==
    /\ apiKey \in Seq([root : Nat, revoked : BOOLEAN, used : Nat])
    /\ outdated \subseteq Nat /\ disturbed \subseteq Nat
    /\ rotator \in [Rotators -> [at : {"idle", "revoke", "store"}, key : Nat]]
    /\ \A r \in Rotators : rotator[r].at # "idle" => rotator[r].key \in ApiKeyIds
    /\ keyUser \in [KeyUsers -> Nat]
    /\ \A u \in KeyUsers : keyUser[u] # 0 => keyUser[u] \in ApiKeyIds

\* A key is named after one that was there before it, or after itself.
RootsExist == \A k \in ApiKeyIds : RootOf(k) \in ApiKeyIds

\* The keys of a root that nothing has disturbed: one is valid, or a rotation is
\* about to withdraw the one that is, or has withdrawn it.
Orderly(root) ==
    \/ /\ RotationsOf(root) = {}
       /\ \E k \in ApiKeyIds : Valid(root) = {k}
    \/ \E r \in Rotators :
        /\ RotationsOf(root) = {r}
        /\ \/ rotator[r].at = "revoke" /\ Valid(root) = {rotator[r].key}
           \/ rotator[r].at = "store" /\ Valid(root) = {}

Roots == {RootOf(k) : k \in ApiKeyIds}

InOrder == \A root \in Roots \ disturbed : Orderly(root)

KeysInv == KeysTypeOK /\ RootsExist /\ InOrder

LEMMA OrderlyIsOneValid ==
  ASSUME KeysInv
  PROVE  OneValidKey
  <1> SUFFICES ASSUME NEW k \in ApiKeyIds, RootOf(k) \notin disturbed
               PROVE  LET valid == Cardinality(Valid(RootOf(k))) IN
                      valid <= 1 /\ (RotationsOf(RootOf(k)) = {} => valid = 1)
    BY DEF OneValidKey
  <1>1. Orderly(RootOf(k))
    BY DEF KeysInv, InOrder, Roots
  <1>2. \/ Valid(RootOf(k)) = {} /\ RotationsOf(RootOf(k)) # {}
        \/ \E x : Valid(RootOf(k)) = {x}
    BY <1>1 DEF Orderly
  <1>3. Cardinality({}) = 0 /\ \A x : Cardinality({x}) = 1
    BY FS_EmptySet, FS_Singleton
  <1> QED BY <1>2, <1>3

ApiRow == [root : Nat, revoked : BOOLEAN, used : Nat]

LEMMA RowIsRow ==
  ASSUME KeysTypeOK, NEW k \in ApiKeyIds
  PROVE  apiKey[k] \in ApiRow
  <1>1. apiKey \in Seq(ApiRow)
    BY DEF KeysTypeOK, ApiRow
  <1> QED BY <1>1 DEF ApiKeyIds

\* _store_api_key adds one row and changes none.
LEMMA StoredKeyAdds ==
  ASSUME KeysTypeOK, NEW root \in Nat, apiKey' = StoredKey(root),
         NEW new \in Nat, new = Len(apiKey) + 1
  PROVE  /\ apiKey' \in Seq(ApiRow)
         /\ ApiKeyIds' = ApiKeyIds \cup {new} /\ new \notin ApiKeyIds
         /\ \A k \in ApiKeyIds : apiKey'[k] = apiKey[k] /\ RootOf(k)' = RootOf(k)
         /\ RootOf(new)' = root /\ ~apiKey'[new].revoked
  <1>1. apiKey \in Seq(ApiRow) /\ ApiKeyIds = 1 .. Len(apiKey) /\ Len(apiKey) \in Nat
    BY DEF KeysTypeOK, ApiKeyIds, ApiRow
  <1> DEFINE row == [root |-> root, revoked |-> FALSE, used |-> 0]
  <1>2. row \in ApiRow /\ row.root = root /\ ~row.revoked
    BY DEF ApiRow
  <1>3. apiKey' = Append(apiKey, row)
    BY DEF StoredKey
  <1> HIDE DEF row, ApiRow
  <1>4. /\ apiKey' \in Seq(ApiRow) /\ DOMAIN apiKey' = 1 .. new
        /\ apiKey'[new] = row /\ \A k \in 1 .. Len(apiKey) : apiKey'[k] = apiKey[k]
    BY <1>1, <1>2, <1>3
  <1>5. ApiKeyIds' = 1 .. new
    BY <1>4 DEF ApiKeyIds
  <1> QED BY <1>1, <1>2, <1>4, <1>5 DEF RootOf

\* Setting one field of a row leaves the set of rows and their roots as they are.
LEMMA RowChanged ==
  ASSUME KeysTypeOK, NEW k \in ApiKeyIds, NEW new \in ApiRow,
         new.root = RootOf(k), apiKey' = [apiKey EXCEPT ![k] = new]
  PROVE  /\ apiKey' \in Seq(ApiRow)
         /\ ApiKeyIds' = ApiKeyIds
         /\ \A n \in ApiKeyIds : RootOf(n)' = RootOf(n)
         /\ \A n \in ApiKeyIds \ {k} : apiKey'[n] = apiKey[n]
         /\ apiKey'[k] = new
  <1>1. apiKey \in Seq(ApiRow)
    BY DEF KeysTypeOK, ApiRow
  <1> QED BY <1>1 DEF ApiKeyIds, RootOf

\* revoke_api_key, alone or in a rotation: one key is no longer valid.
LEMMA WithdrawnOnly ==
  ASSUME KeysTypeOK, NEW k \in ApiKeyIds, apiKey' = Withdrawn(k)
  PROVE  /\ apiKey' \in Seq(ApiRow) /\ ApiKeyIds' = ApiKeyIds
         /\ \A n \in ApiKeyIds : RootOf(n)' = RootOf(n)
         /\ \A root : Valid(root)' = Valid(root) \ {k}
  <1>1. apiKey[k] \in ApiRow
    BY RowIsRow
  <1>2. PICK new \in ApiRow : new = [apiKey[k] EXCEPT !.revoked = TRUE]
    BY <1>1 DEF ApiRow
  <1>3. new.root = RootOf(k) /\ new.revoked
    BY <1>1, <1>2 DEF ApiRow, RootOf
  <1>4. apiKey' = [apiKey EXCEPT ![k] = new]
    BY <1>2 DEF Withdrawn
  <1>5. /\ apiKey' \in Seq(ApiRow) /\ ApiKeyIds' = ApiKeyIds
        /\ \A n \in ApiKeyIds : RootOf(n)' = RootOf(n)
        /\ \A n \in ApiKeyIds \ {k} : apiKey'[n] = apiKey[n]
        /\ apiKey'[k] = new
    BY <1>3, <1>4, RowChanged
  <1> QED BY <1>3, <1>5 DEF Valid

\* Whatever leaves the valid keys of a root and its rotations alone keeps its order.
LEMMA OrderlyKept ==
  ASSUME NEW root, Orderly(root), Valid(root)' = Valid(root), ApiKeyIds \subseteq ApiKeyIds',
         RotationsOf(root)' = RotationsOf(root),
         \A r \in RotationsOf(root) : rotator'[r] = rotator[r]
  PROVE  Orderly(root)'
  BY DEF Orderly

LEMMA InitKeys == KeysInit => KeysInv
  BY DEF KeysInit, KeysInv, KeysTypeOK, ApiKeyIds, RootsExist, InOrder, Roots, RotatorAtRest

\* With the same rows, or more of them, and the same rotations of the roots that
\* keep their valid keys, only the other roots are left to look at.
LEMMA InOrderKept ==
  ASSUME KeysInv, NEW Touched, ApiKeyIds \subseteq ApiKeyIds', Roots' \subseteq Roots \cup Touched,
         disturbed \subseteq disturbed',
         \A root \in Touched \ disturbed' : Orderly(root)',
         \A root \in Roots \ (Touched \cup disturbed') :
            /\ Valid(root)' = Valid(root) /\ RotationsOf(root)' = RotationsOf(root)
            /\ \A r \in RotationsOf(root) : rotator'[r] = rotator[r]
  PROVE  InOrder'
  <1> SUFFICES ASSUME NEW root \in Roots \ (Touched \cup disturbed') PROVE Orderly(root)'
    BY DEF InOrder
  <1>1. Orderly(root)
    BY DEF KeysInv, InOrder
  <1> QED BY <1>1, OrderlyKept

LEMMA KeysStep == KeysInv /\ [KeysNext]_keyVars => KeysInv'
  <1> SUFFICES ASSUME KeysInv, [KeysNext]_keyVars PROVE KeysInv'
    OBVIOUS
  <1>i. KeysTypeOK /\ RootsExist /\ InOrder
    BY DEF KeysInv
  <1>0. ApiKeyIds = 1 .. Len(apiKey) /\ Len(apiKey) \in Nat
    BY <1>i DEF KeysTypeOK, ApiKeyIds
  <1>r. Roots \subseteq ApiKeyIds /\ ApiKeyIds \subseteq Nat /\ \A k \in ApiKeyIds : RootOf(k) \in Roots
    BY <1>0, <1>i DEF Roots, RootsExist
  \* what a step that keeps the rows' roots leaves alone
  <1>b. ASSUME ApiKeyIds' = ApiKeyIds, \A n \in ApiKeyIds : RootOf(n)' = RootOf(n)
        PROVE  RootsExist' /\ Roots' = Roots
    BY <1>b, <1>i DEF RootsExist, Roots
  <1>c. ASSUME ApiKeyIds \subseteq ApiKeyIds', \A n \in ApiKeyIds : RootOf(n)' = RootOf(n),
               NEW root, NEW r \in Rotators, rotator'[r] = rotator[r]
        PROVE  r \in RotationsOf(root)' <=> r \in RotationsOf(root)
    BY <1>c, <1>i DEF RotationsOf, KeysTypeOK, RootOf
  <1>1. CASE GenerateKey
    <2>0. PICK new \in Nat : new = Len(apiKey) + 1
      BY <1>0
    <2>1. /\ apiKey' \in Seq(ApiRow)
          /\ ApiKeyIds' = ApiKeyIds \cup {new} /\ new \notin ApiKeyIds
          /\ \A k \in ApiKeyIds : apiKey'[k] = apiKey[k] /\ RootOf(k)' = RootOf(k)
          /\ RootOf(new)' = new /\ ~apiKey'[new].revoked
      BY <1>1, <1>i, <2>0, StoredKeyAdds DEF GenerateKey
    <2>2. KeysTypeOK'
      BY <1>1, <1>i, <2>1 DEF GenerateKey, KeysTypeOK, ApiRow
    <2>3. RootsExist'
      BY <1>i, <2>1 DEF RootsExist
    <2>4. \A root \in Nat \ {new} : Valid(root)' = Valid(root)
      BY <2>1 DEF Valid
    <2>5. \A root \in Nat : RotationsOf(root)' = RotationsOf(root)
      BY <1>1, <1>c, <2>1 DEF RotationsOf, GenerateKey
    <2>6. Valid(new)' = {new}
      BY <1>i, <2>1 DEF Valid, RootsExist
    <2>7. RotationsOf(new) = {}
      BY <1>i, <2>1 DEF RotationsOf, RootsExist, KeysTypeOK
    <2>8. Orderly(new)'
      BY <2>1, <2>5, <2>6, <2>7 DEF Orderly
    <2>9. Roots' \subseteq Roots \cup {new}
      BY <2>1 DEF Roots
    <2>10. InOrder'
      <3>1. \A root \in Roots \ ({new} \cup disturbed') :
              /\ Valid(root)' = Valid(root) /\ RotationsOf(root)' = RotationsOf(root)
              /\ \A r \in RotationsOf(root) : rotator'[r] = rotator[r]
        BY <1>1, <1>r, <2>4, <2>5 DEF GenerateKey
      <3>2. PICK Touched : Touched = {new}
        OBVIOUS
      <3>3. Roots' \subseteq Roots \cup Touched /\ disturbed \subseteq disturbed' /\ ApiKeyIds \subseteq ApiKeyIds'
        BY <1>1, <2>1, <2>9, <3>2 DEF GenerateKey
      <3>4. \A root \in Touched \ disturbed' : Orderly(root)'
        BY <2>8, <3>2
      <3> QED BY <3>1, <3>2, <3>3, <3>4, InOrderKept
    <2> QED BY <2>2, <2>3, <2>10 DEF KeysInv
  <1>2. ASSUME NEW k \in ApiKeyIds, ExpireKeys(k)
        PROVE  KeysInv'
    <2>1. KeysTypeOK'
      <3>1. k \in Nat /\ ApiKeyIds' = ApiKeyIds
        BY <1>2, <1>r DEF ExpireKeys, ApiKeyIds
      <3> QED BY <1>2, <1>i, <3>1 DEF ExpireKeys, KeysTypeOK
    <2>2. RootsExist' /\ InOrder'
      BY <1>2, <1>i DEF ExpireKeys, RootsExist, InOrder, Roots, RootOf, Orderly, Valid, RotationsOf, ApiKeyIds
    <2> QED BY <2>1, <2>2 DEF KeysInv
  <1>3. ASSUME NEW k \in ApiKeyIds, RevokeKey(k)
        PROVE  KeysInv'
    <2>1. /\ apiKey' \in Seq(ApiRow) /\ ApiKeyIds' = ApiKeyIds
          /\ \A n \in ApiKeyIds : RootOf(n)' = RootOf(n)
          /\ \A root : Valid(root)' = Valid(root) \ {k}
      BY <1>3, <1>i, WithdrawnOnly DEF RevokeKey
    <2>2. KeysTypeOK'
      BY <1>3, <1>r, <1>i, <2>1 DEF RevokeKey, KeysTypeOK, ApiRow
    <2>3. \A root : root # RootOf(k) => k \notin Valid(root)
      BY DEF Valid
    <2>4. \A root : RotationsOf(root)' = RotationsOf(root)
      BY <1>3, <1>c, <2>1 DEF RotationsOf, RevokeKey
    <2>5. InOrder'
      <3>1. \A root \in Roots \ disturbed' :
              /\ Valid(root)' = Valid(root) /\ RotationsOf(root)' = RotationsOf(root)
              /\ \A r \in RotationsOf(root) : rotator'[r] = rotator[r]
        BY <1>3, <2>1, <2>3, <2>4 DEF RevokeKey
      <3>2. Roots' \subseteq Roots /\ disturbed \subseteq disturbed' /\ ApiKeyIds \subseteq ApiKeyIds'
        BY <1>3, <1>b, <2>1 DEF RevokeKey
      <3> QED BY <3>1, <3>2, InOrderKept
    <2> QED BY <1>b, <2>1, <2>2, <2>5 DEF KeysInv
  <1>4. ASSUME NEW k \in ApiKeyIds, NEW r \in Rotators, SelectKey(r, k)
        PROVE  KeysInv'
    <2>1. apiKey' = apiKey /\ ApiKeyIds' = ApiKeyIds /\ \A n : RootOf(n)' = RootOf(n)
      BY <1>4 DEF SelectKey, ApiKeyIds, RootOf
    <2>2. rotator'[r] = [at |-> "revoke", key |-> k] /\ \A s \in Rotators \ {r} : rotator'[s] = rotator[s]
      BY <1>4, <1>i DEF SelectKey, KeysTypeOK
    <2>3. KeysTypeOK'
      BY <1>4, <1>r, <1>i, <2>1, <2>2 DEF SelectKey, KeysTypeOK
    <2>4. \A root : Valid(root)' = Valid(root)
      BY <2>1 DEF Valid
    <2>5. ASSUME NEW root PROVE RotationsOf(root)' = IF root = RootOf(k) THEN RotationsOf(root) \cup {r} ELSE RotationsOf(root)
      <3>1. \A s \in Rotators \ {r} : s \in RotationsOf(root)' <=> s \in RotationsOf(root)
        BY <1>c, <2>1, <2>2
      <3>2. r \notin RotationsOf(root) /\ (r \in RotationsOf(root)' <=> root = RootOf(k))
        BY <1>4, <2>1, <2>2 DEF RotationsOf, SelectKey
      <3>3. RotationsOf(root)' \subseteq Rotators /\ RotationsOf(root) \subseteq Rotators
        BY DEF RotationsOf
      <3> QED BY <3>1, <3>2, <3>3
    <2>6. ASSUME RootOf(k) \notin disturbed'
          PROVE  Orderly(RootOf(k))'
      <3>1. ~apiKey[k].revoked /\ RotationsOf(RootOf(k)) = {} /\ RootOf(k) \notin disturbed
        BY <1>4, <2>6 DEF SelectKey
      <3>2. PICK n \in ApiKeyIds : Valid(RootOf(k)) = {n}
        BY <1>i, <1>r, <3>1 DEF InOrder, Orderly
      <3>3. k \in Valid(RootOf(k))
        BY <3>1 DEF Valid
      <3>4. PICK root : root = RootOf(k)
        OBVIOUS
      <3>5. Orderly(root)'
        BY <2>2, <2>4, <2>5, <3>1, <3>2, <3>3, <3>4 DEF Orderly
      <3> QED BY <2>1, <3>4, <3>5
    <2>7. InOrder'
      <3>1. \A root \in Roots \ ({RootOf(k)} \cup disturbed') :
              /\ Valid(root)' = Valid(root) /\ RotationsOf(root)' = RotationsOf(root)
              /\ \A s \in RotationsOf(root) : rotator'[s] = rotator[s]
        <4>1. \A root : \A s \in RotationsOf(root) : s \in Rotators \ {r}
          BY <1>4 DEF RotationsOf, SelectKey
        <4> QED BY <2>2, <2>4, <2>5, <4>1
      <3>2. Roots' \subseteq Roots /\ disturbed \subseteq disturbed' /\ ApiKeyIds \subseteq ApiKeyIds'
        BY <1>4, <1>b, <2>1 DEF SelectKey
      <3>3. PICK Touched : Touched = {RootOf(k)}
        OBVIOUS
      <3>4. \A root \in Touched \ disturbed' : Orderly(root)'
        <4> SUFFICES ASSUME NEW root \in Touched \ disturbed' PROVE Orderly(root)'
          OBVIOUS
        <4>1. root = RootOf(k) /\ RootOf(k)' = root
          BY <2>1, <3>3
        <4> QED BY <2>6, <4>1
      <3> QED BY <3>1, <3>2, <3>3, <3>4, InOrderKept
    <2> QED BY <1>b, <2>1, <2>3, <2>7 DEF KeysInv
  \* what the steps of a rotation r of a key with the given root leave alone
  <1>d. ASSUME NEW r \in Rotators, rotator[r].at # "idle", NEW new, rotator' = [rotator EXCEPT ![r] = new],
               ApiKeyIds \subseteq ApiKeyIds', \A n \in ApiKeyIds : RootOf(n)' = RootOf(n),
               NEW mine, mine = RootOf(rotator[r].key)
        PROVE  /\ rotator'[r] = new /\ \A s \in Rotators \ {r} : rotator'[s] = rotator[s]
               /\ mine \in Roots /\ r \in RotationsOf(mine)
               /\ \A root : RotationsOf(root)' \ {r} = RotationsOf(root) \ {r}
               /\ \A root : root # mine => r \notin RotationsOf(root)
               /\ new.at = "idle" => \A root : r \notin RotationsOf(root)'
               /\ new.at # "idle" /\ new.key = rotator[r].key => \A root : RotationsOf(root)' = RotationsOf(root)
               /\ new.at = "idle" => \A root : root # mine => RotationsOf(root)' = RotationsOf(root)
    <2>1. rotator'[r] = new /\ \A s \in Rotators \ {r} : rotator'[s] = rotator[s]
      BY <1>d, <1>i DEF KeysTypeOK
    <2>2. mine \in Roots /\ r \in RotationsOf(mine) /\ rotator[r].key \in ApiKeyIds
      BY <1>d, <1>i, <1>r DEF KeysTypeOK, RotationsOf
    <2>3. \A root : root # mine => r \notin RotationsOf(root)
      BY <1>d DEF RotationsOf
    <2>4. \A root : RotationsOf(root)' \subseteq Rotators /\ RotationsOf(root) \subseteq Rotators
      BY DEF RotationsOf
    <2>5. \A root : \A s \in Rotators \ {r} : s \in RotationsOf(root)' <=> s \in RotationsOf(root)
      BY <1>c, <1>d, <2>1
    <2>6. new.at = "idle" => \A root : r \notin RotationsOf(root)'
      BY <2>1 DEF RotationsOf
    <2>7. new.at # "idle" /\ new.key = rotator[r].key => \A root : r \in RotationsOf(root)' <=> r \in RotationsOf(root)
      BY <1>d, <2>1, <2>2 DEF RotationsOf
    <2> QED BY <2>1, <2>2, <2>3, <2>4, <2>5, <2>6, <2>7
  \* with the rotation of mine undisturbed, r is the one rotation of it
  <1>e. ASSUME NEW r \in Rotators, rotator[r].at # "idle", NEW mine, mine = RootOf(rotator[r].key), mine \notin disturbed
        PROVE  /\ RotationsOf(mine) = {r}
               /\ rotator[r].at = "revoke" => Valid(mine) = {rotator[r].key}
               /\ rotator[r].at = "store" => Valid(mine) = {}
    <2>1. Orderly(mine) /\ r \in RotationsOf(mine)
      BY <1>e, <1>i, <1>r DEF InOrder, KeysTypeOK, RotationsOf
    <2> QED BY <2>1 DEF Orderly
  <1>5. ASSUME NEW r \in Rotators, RevokeOld(r)
        PROVE  KeysInv'
    <2>1. PICK k \in ApiKeyIds : k = rotator[r].key
      BY <1>5, <1>i DEF RevokeOld, KeysTypeOK
    <2>2. PICK mine : mine = RootOf(k)
      OBVIOUS
    <2>3. PICK new \in [at : {"idle", "revoke", "store"}, key : Nat] : new = [at |-> "store", key |-> k]
      BY <1>r
    <2>4. rotator[r] \in [at : {"idle", "revoke", "store"}, key : Nat] /\ rotator[r].at = "revoke"
      BY <1>5, <1>i DEF RevokeOld, KeysTypeOK
    <2>5. rotator' = [rotator EXCEPT ![r] = new]
      <3>1. [rotator[r] EXCEPT !.at = "store"] = new
        BY <2>1, <2>3, <2>4
      <3> QED BY <1>5, <3>1 DEF RevokeOld
    <2>6. /\ apiKey' \in Seq(ApiRow) /\ ApiKeyIds' = ApiKeyIds
          /\ \A n \in ApiKeyIds : RootOf(n)' = RootOf(n)
          /\ \A root : Valid(root)' = Valid(root) \ {k}
      BY <1>5, <1>i, <2>1, WithdrawnOnly DEF RevokeOld, Replaced
    <2>7. new.at = "store" /\ new.key = k
      BY <2>3
    <2>8. /\ rotator'[r] = new /\ \A s \in Rotators \ {r} : rotator'[s] = rotator[s]
          /\ mine \in Roots /\ \A root : RotationsOf(root)' = RotationsOf(root)
          /\ \A root : root # mine => r \notin RotationsOf(root)
      BY <1>d, <2>1, <2>2, <2>4, <2>5, <2>6, <2>7
    <2>9. KeysTypeOK'
      BY <1>5, <1>i, <2>1, <2>6, <2>7, <2>8 DEF RevokeOld, KeysTypeOK, ApiRow
    <2>10. \A root : root # mine => k \notin Valid(root)
      BY <2>2 DEF Valid
    <2>11. ASSUME mine \notin disturbed
           PROVE  Orderly(mine)'
      <3>1. RotationsOf(mine) = {r} /\ Valid(mine) = {k}
        BY <1>e, <2>1, <2>2, <2>4, <2>11
      <3> QED BY <2>6, <2>7, <2>8, <3>1 DEF Orderly
    <2>12. InOrder'
      <3>1. PICK Touched : Touched = {mine}
        OBVIOUS
      <3>2. \A root \in Roots \ (Touched \cup disturbed') :
              /\ Valid(root)' = Valid(root) /\ RotationsOf(root)' = RotationsOf(root)
              /\ \A s \in RotationsOf(root) : rotator'[s] = rotator[s]
        <4>1. \A root : RotationsOf(root) \subseteq Rotators
          BY DEF RotationsOf
        <4>2. \A root \in Roots \ (Touched \cup disturbed') : Valid(root)' = Valid(root)
          BY <2>6, <2>10, <3>1
        <4> QED BY <2>8, <3>1, <4>1, <4>2
      <3>3. Roots' \subseteq Roots /\ disturbed' = disturbed /\ ApiKeyIds \subseteq ApiKeyIds'
        BY <1>5, <1>b, <2>6 DEF RevokeOld
      <3>4. \A root \in Touched \ disturbed' : Orderly(root)'
        BY <2>11, <3>1, <3>3
      <3> QED BY <3>2, <3>3, <3>4, InOrderKept
    <2> QED BY <1>b, <2>6, <2>9, <2>12 DEF KeysInv
  <1>6. ASSUME NEW r \in Rotators, StoreNew(r)
        PROVE  KeysInv'
    <2>1. PICK k \in ApiKeyIds : k = rotator[r].key
      BY <1>6, <1>i DEF StoreNew, KeysTypeOK
    <2>2. PICK mine : mine = RootOf(k)
      OBVIOUS
    <2>3. PICK n \in Nat : n = Len(apiKey) + 1
      BY <1>0
    <2>4. RotatorAtRest \in [at : {"idle", "revoke", "store"}, key : Nat] /\ RotatorAtRest.at = "idle"
      BY DEF RotatorAtRest
    <2>5. rotator' = [rotator EXCEPT ![r] = RotatorAtRest] /\ rotator[r].at = "store"
      BY <1>6 DEF StoreNew
    <2>6. mine \in Nat /\ mine \in ApiKeyIds
      BY <1>r, <2>2
    <2>7. /\ apiKey' \in Seq(ApiRow)
          /\ ApiKeyIds' = ApiKeyIds \cup {n} /\ n \notin ApiKeyIds
          /\ \A m \in ApiKeyIds : apiKey'[m] = apiKey[m] /\ RootOf(m)' = RootOf(m)
          /\ RootOf(n)' = mine /\ ~apiKey'[n].revoked
      BY <1>6, <1>i, <2>1, <2>2, <2>3, <2>6, StoredKeyAdds DEF StoreNew
    <2>8. /\ rotator'[r] = RotatorAtRest /\ \A s \in Rotators \ {r} : rotator'[s] = rotator[s]
          /\ mine \in Roots /\ r \in RotationsOf(mine)
          /\ \A root : RotationsOf(root)' \ {r} = RotationsOf(root) \ {r}
          /\ \A root : r \notin RotationsOf(root)'
          /\ \A root : root # mine => r \notin RotationsOf(root)
          /\ \A root : root # mine => RotationsOf(root)' = RotationsOf(root)
      <3> HIDE DEF RotatorAtRest
      <3> QED BY <1>d, <2>1, <2>2, <2>4, <2>5, <2>7, ZenonT(30)
    <2>9. KeysTypeOK'
      BY <1>6, <1>i, <2>4, <2>7, <2>8 DEF StoreNew, KeysTypeOK, ApiRow
    <2>10. \A root : root # mine => Valid(root)' = Valid(root)
      BY <2>7 DEF Valid
    <2>11. ASSUME mine \notin disturbed
           PROVE  Orderly(mine)'
      <3>1. RotationsOf(mine) = {r} /\ Valid(mine) = {}
        BY <1>e, <2>1, <2>2, <2>5, <2>11
      <3>2. Valid(mine)' = {n}
        BY <2>7, <3>1 DEF Valid
      <3>3. RotationsOf(mine)' = {}
        BY <2>8, <3>1
      <3> QED BY <2>7, <3>2, <3>3 DEF Orderly
    <2>12. InOrder'
      <3>1. PICK Touched : Touched = {mine}
        OBVIOUS
      <3>2. \A root \in Roots \ (Touched \cup disturbed') :
              /\ Valid(root)' = Valid(root) /\ RotationsOf(root)' = RotationsOf(root)
              /\ \A s \in RotationsOf(root) : rotator'[s] = rotator[s]
        <4>1. \A root : RotationsOf(root) \subseteq Rotators
          BY DEF RotationsOf
        <4> QED BY <2>8, <2>10, <3>1, <4>1
      <3>3. Roots' \subseteq Roots \cup Touched
        BY <2>7, <2>8, <3>1 DEF Roots
      <3>4. \A root \in Touched \ disturbed' : Orderly(root)'
        BY <1>6, <2>11, <3>1 DEF StoreNew
      <3>5. disturbed' = disturbed /\ ApiKeyIds \subseteq ApiKeyIds'
        BY <1>6, <2>7 DEF StoreNew
      <3> QED BY <3>2, <3>3, <3>4, <3>5, InOrderKept
    <2>13. RootsExist'
      BY <1>i, <2>6, <2>7 DEF RootsExist
    <2> QED BY <2>9, <2>12, <2>13 DEF KeysInv
  <1>7. ASSUME NEW r \in Rotators, BreakOff(r)
        PROVE  KeysInv'
    <2>0. PICK k \in ApiKeyIds : k = rotator[r].key
      BY <1>7, <1>i DEF BreakOff, KeysTypeOK
    <2>1. PICK mine : mine = RootOf(k)
      OBVIOUS
    <2>2. RotatorAtRest \in [at : {"idle", "revoke", "store"}, key : Nat] /\ RotatorAtRest.at = "idle"
      BY DEF RotatorAtRest
    <2>3. /\ rotator[r].at # "idle" /\ rotator' = [rotator EXCEPT ![r] = RotatorAtRest]
          /\ disturbed' = disturbed \cup {mine} /\ apiKey' = apiKey
      BY <1>7, <2>0, <2>1 DEF BreakOff
    <2>4. ApiKeyIds' = ApiKeyIds /\ \A n : RootOf(n)' = RootOf(n)
      BY <2>3 DEF ApiKeyIds, RootOf
    <2>5. /\ rotator'[r] = RotatorAtRest /\ \A s \in Rotators \ {r} : rotator'[s] = rotator[s]
          /\ mine \in Roots /\ r \in RotationsOf(mine)
          /\ \A root : RotationsOf(root)' \ {r} = RotationsOf(root) \ {r}
          /\ \A root : r \notin RotationsOf(root)'
          /\ \A root : root # mine => r \notin RotationsOf(root)
          /\ \A root : root # mine => RotationsOf(root)' = RotationsOf(root)
      <3>1. ApiKeyIds \subseteq ApiKeyIds' /\ \A n \in ApiKeyIds : RootOf(n)' = RootOf(n)
        BY <2>4
      <3>2. rotator' = [rotator EXCEPT ![r] = RotatorAtRest]
        BY <2>3
      <3>3. CASE rotator[r].at = "store"
        BY <1>d, <2>0, <2>1, <2>2, <3>1, <3>2, <3>3, ZenonT(30)
      <3>4. CASE rotator[r].at = "revoke"
        BY <1>d, <2>0, <2>1, <2>2, <3>1, <3>2, <3>4, ZenonT(30)
      <3> QED BY <1>7, <1>i, <3>3, <3>4 DEF BreakOff, KeysTypeOK
    <2>6. KeysTypeOK'
      BY <1>7, <1>i, <1>r, <2>2, <2>3, <2>4, <2>5 DEF BreakOff, KeysTypeOK
    <2>7. \A root : Valid(root)' = Valid(root)
      BY <2>3, <2>4 DEF Valid
    <2>8. InOrder'
      <3>1. \A root \in Roots \ disturbed' :
              /\ Valid(root)' = Valid(root) /\ RotationsOf(root)' = RotationsOf(root)
              /\ \A s \in RotationsOf(root) : rotator'[s] = rotator[s]
        <4>1. \A root : RotationsOf(root) \subseteq Rotators
          BY DEF RotationsOf
        <4> QED BY <2>3, <2>5, <2>7, <4>1
      <3>2. Roots' \subseteq Roots /\ disturbed \subseteq disturbed' /\ ApiKeyIds \subseteq ApiKeyIds'
        BY <1>b, <2>3, <2>4
      <3> QED BY <3>1, <3>2, InOrderKept
    <2> QED BY <1>b, <2>4, <2>6, <2>8 DEF KeysInv
  <1>8. ASSUME NEW k \in ApiKeyIds, NEW u \in KeyUsers, LookUpKey(u, k)
        PROVE  KeysInv'
    <2>1. KeysTypeOK'
      <3>1. k \in Nat /\ ApiKeyIds' = ApiKeyIds
        BY <1>8, <1>r DEF LookUpKey, ApiKeyIds
      <3> QED BY <1>8, <1>i, <3>1 DEF LookUpKey, KeysTypeOK
    <2>2. RootsExist' /\ InOrder'
      BY <1>8, <1>i DEF LookUpKey, RootsExist, InOrder, Roots, RootOf, Orderly, Valid, RotationsOf, ApiKeyIds
    <2> QED BY <2>1, <2>2 DEF KeysInv
  <1>9. ASSUME NEW u \in KeyUsers, UpdateLastUsed(u)
        PROVE  KeysInv'
    <2>1. PICK k \in ApiKeyIds : k = keyUser[u]
      BY <1>9, <1>i DEF UpdateLastUsed, KeysTypeOK
    <2>2. /\ apiKey' \in Seq(ApiRow) /\ ApiKeyIds' = ApiKeyIds
          /\ \A n \in ApiKeyIds : RootOf(n)' = RootOf(n) /\ apiKey'[n].revoked = apiKey[n].revoked
      <3>1. CASE apiKey' = apiKey
        BY <1>i, <3>1 DEF KeysTypeOK, ApiRow, ApiKeyIds, RootOf
      <3>2. CASE apiKey' = [apiKey EXCEPT ![k].used = @ + 1]
        <4>1. apiKey[k] \in ApiRow
          BY <1>i, RowIsRow
        <4>2. PICK new \in ApiRow : new = [apiKey[k] EXCEPT !.used = @ + 1]
          <5>1. PICK row \in ApiRow : row = apiKey[k]
            BY <4>1
          <5>2. row.used + 1 \in Nat
            BY DEF ApiRow
          <5>3. [row EXCEPT !.used = row.used + 1] \in ApiRow
            BY <5>2 DEF ApiRow
          <5> QED BY <5>1, <5>3
        <4>3. new.root = RootOf(k) /\ new.revoked = apiKey[k].revoked
          BY <4>1, <4>2 DEF ApiRow, RootOf
        <4>4. apiKey' = [apiKey EXCEPT ![k] = new]
          BY <3>2, <4>2
        <4> QED BY <1>i, <4>3, <4>4, RowChanged, ZenonT(30)
      <3> QED BY <1>9, <2>1, <3>1, <3>2 DEF UpdateLastUsed
    <2>3. KeysTypeOK'
      BY <1>9, <1>i, <2>2 DEF UpdateLastUsed, KeysTypeOK, ApiRow
    <2>4. InOrder'
      <3>1. \A root : Valid(root)' = Valid(root)
        BY <2>2 DEF Valid
      <3>2. \A root : RotationsOf(root)' = RotationsOf(root)
        BY <1>9, <1>c, <2>2 DEF RotationsOf, UpdateLastUsed
      <3>3. Roots' \subseteq Roots /\ disturbed' = disturbed /\ rotator' = rotator /\ ApiKeyIds \subseteq ApiKeyIds'
        BY <1>9, <1>b, <2>2 DEF UpdateLastUsed
      <3> QED BY <3>1, <3>2, <3>3, InOrderKept
    <2> QED BY <1>b, <2>2, <2>3, <2>4 DEF KeysInv
  <1>10. CASE UNCHANGED keyVars
    <2>1. KeysTypeOK' /\ RootsExist'
      BY <1>10, <1>i DEF keyVars, KeysTypeOK, RootsExist, RootOf, ApiKeyIds
    <2>2. InOrder'
      BY <1>10, <1>i DEF keyVars, InOrder, Roots, RootOf, Orderly, Valid, RotationsOf, ApiKeyIds
    <2> QED BY <2>1, <2>2 DEF KeysInv
  <1> QED BY <1>1, <1>2, <1>3, <1>4, <1>5, <1>6, <1>7, <1>8, <1>9, <1>10 DEF KeysNext

\* However often a key is rotated, exactly one of its successors is valid, and at
\* most one during a rotation (rotate_api_key), for any number of concurrent
\* rotations of any number of keys.
THEOREM OneKeyAtATime == KeysSpec => []OneValidKey
  <1>1. KeysSpec => []KeysInv
    BY InitKeys, KeysStep, PTL DEF KeysSpec
  <1>2. KeysInv => OneValidKey
    BY OrderlyIsOneValid
  <1> QED BY <1>1, <1>2, PTL

------------------------------------------------------------------------------
(* SecretRotation                                                           *)

Transaction ==
    [on : BOOLEAN, new : CipherKeys, todo : SUBSET SecretRows,
     seen : [SecretRows -> CipherKeys \cup {Hash}], locked : SUBSET SecretRows, aborted : BOOLEAN]

SecretsTypeOK ==
    /\ secret \in [SecretRows -> CipherKeys \cup {Hash}]
    /\ fernet \in [Managers -> CipherKeys]
    /\ rotating \in [Managers -> Transaction]
    /\ readable \in [Managers -> SUBSET SecretRows]

\* A row is locked by one transaction, and by none that was aborted or has ended.
LocksExclude ==
    /\ \A m, n \in Managers : m # n => rotating[m].locked \cap rotating[n].locked = {}
    /\ \A m \in Managers : ~rotating[m].on \/ rotating[m].aborted => rotating[m].locked = {}
    /\ \A m \in Managers : ~rotating[m].on => rotating[m].todo = {}

\* What a manager must be able to decrypt is encrypted with its key, also while it
\* rotates; it was when the rotation selected it, and the rotation has yet to write
\* it or has written it, unless a statement failed.
ReadableThroughout ==
    \A m \in Managers : \A r \in readable[m] :
        /\ secret[r] = fernet[m]
        /\ rotating[m].on => rotating[m].seen[r] = fernet[m]
        /\ rotating[m].on /\ ~rotating[m].aborted => r \in rotating[m].todo \cup rotating[m].locked

SecretsInv == SecretsTypeOK /\ LocksExclude /\ ReadableThroughout

LEMMA NotRotatingIsTransaction ==
    /\ NotRotating \in Transaction /\ ~NotRotating.on
    /\ NotRotating.locked = {} /\ NotRotating.todo = {}
  <1>1. [r \in SecretRows |-> Hash] \in [SecretRows -> CipherKeys \cup {Hash}]
    OBVIOUS
  <1>2. FirstKey \in CipherKeys
    BY SecretAssumption
  <1> QED BY <1>1, <1>2 DEF NotRotating, Transaction

LEMMA InitSecrets == SecretsInit => SecretsInv
  <1> SUFFICES ASSUME SecretsInit PROVE SecretsInv
    OBVIOUS
  <1>1. FirstKey \in CipherKeys
    BY SecretAssumption
  <1>2. \A m \in Managers : rotating[m] = NotRotating
    BY DEF SecretsInit
  <1>3. SecretsTypeOK
    BY <1>1, NotRotatingIsTransaction DEF SecretsInit, SecretsTypeOK
  <1>4. LocksExclude
    BY <1>2, NotRotatingIsTransaction DEF LocksExclude
  <1>5. ReadableThroughout
    BY <1>2, NotRotatingIsTransaction DEF SecretsInit, ReadableThroughout
  <1> QED BY <1>3, <1>4, <1>5 DEF SecretsInv

\* A transaction that ends: its manager is at rest, whatever happens to the key.
LEMMA TransactionEnds ==
  ASSUME SecretsInv, NEW m \in Managers, rotating' = [rotating EXCEPT ![m] = NotRotating]
  PROVE  /\ rotating' \in [Managers -> Transaction] /\ LocksExclude'
         /\ rotating'[m] = NotRotating
         /\ \A n \in Managers \ {m} : rotating'[n] = rotating[n]
  <1>1. /\ rotating' \in [Managers -> Transaction] /\ rotating'[m] = NotRotating
        /\ \A n \in Managers \ {m} : rotating'[n] = rotating[n]
    BY NotRotatingIsTransaction DEF SecretsInv, SecretsTypeOK
  <1>2. LocksExclude'
    BY <1>1, NotRotatingIsTransaction DEF SecretsInv, LocksExclude
  <1> QED BY <1>1, <1>2

\* A step of a transaction on one row, which writes nothing yet.
LEMMA TransactionGoesOn ==
  ASSUME SecretsInv, NEW m \in Managers, NEW new \in Transaction, rotating[m].on,
         rotating' = [rotating EXCEPT ![m] = new], UNCHANGED <<secret, fernet, readable>>,
         new.on, new.seen = rotating[m].seen,
         new.aborted => new.locked = {},
         rotating[m].aborted => new.aborted,
         \A n \in Managers \ {m} : new.locked \cap rotating[n].locked = {},
         ~new.aborted => \A r \in (rotating[m].todo \cup rotating[m].locked) \ (new.todo \cup new.locked) :
            rotating[m].seen[r] # fernet[m]
  PROVE  SecretsInv'
  <1>1. /\ rotating' \in [Managers -> Transaction] /\ rotating'[m] = new
        /\ \A n \in Managers \ {m} : rotating'[n] = rotating[n]
    BY DEF SecretsInv, SecretsTypeOK
  <1>2. SecretsTypeOK'
    BY <1>1 DEF SecretsInv, SecretsTypeOK
  <1>3. LocksExclude'
    BY <1>1 DEF SecretsInv, LocksExclude
  <1>4. ReadableThroughout'
    BY <1>1 DEF SecretsInv, ReadableThroughout
  <1> QED BY <1>2, <1>3, <1>4 DEF SecretsInv

LEMMA SecretsStep == SecretsInv /\ [SecretsNext]_secretVars => SecretsInv'
  <1> SUFFICES ASSUME SecretsInv, [SecretsNext]_secretVars PROVE SecretsInv'
    OBVIOUS
  <1>i. SecretsTypeOK /\ LocksExclude /\ ReadableThroughout
    BY DEF SecretsInv
  <1>1. ASSUME NEW m \in Managers, NEW new \in CipherKeys, SelectSecrets(m, new)
        PROVE  SecretsInv'
    <2>1. PICK t \in Transaction : t = [on |-> TRUE, new |-> new, todo |-> SecretRows, seen |-> secret,
                                        locked |-> {}, aborted |-> FALSE]
      BY <1>i DEF SecretsTypeOK, Transaction
    <2>2. t.on /\ t.todo = SecretRows /\ t.seen = secret /\ t.locked = {}
      BY <2>1
    <2>3. rotating' = [rotating EXCEPT ![m] = t]
      BY <1>1, <2>1 DEF SelectSecrets
    <2>4. /\ rotating' \in [Managers -> Transaction] /\ rotating'[m] = t
          /\ \A n \in Managers \ {m} : rotating'[n] = rotating[n]
      BY <1>i, <2>3 DEF SecretsTypeOK
    <2>5. SecretsTypeOK'
      BY <1>1, <1>i, <2>4 DEF SelectSecrets, SecretsTypeOK
    <2>6. LocksExclude'
      BY <1>i, <2>2, <2>4 DEF LocksExclude
    <2>7. ReadableThroughout'
      BY <1>1, <1>i, <2>2, <2>4 DEF SelectSecrets, SecretsTypeOK, ReadableThroughout
    <2> QED BY <2>5, <2>6, <2>7 DEF SecretsInv
  <1>2. ASSUME NEW m \in Managers, NEW r \in SecretRows, StoreSecret(m, r)
        PROVE  SecretsInv'
    <2>1. rotating' = rotating /\ fernet' = fernet /\ secret' = [secret EXCEPT ![r] = fernet[m]]
      BY <1>2 DEF StoreSecret
    <2>2. readable' \in [Managers -> SUBSET SecretRows]
      BY <1>2, <1>i DEF StoreSecret, ReadableBy, SecretsTypeOK
    <2>3. SecretsTypeOK'
      BY <1>i, <2>1, <2>2 DEF SecretsTypeOK
    <2>4. LocksExclude'
      BY <1>i, <2>1 DEF LocksExclude
    <2>5. \A n \in Managers : \A s \in readable'[n] :
            \/ s # r /\ s \in readable[n]
            \/ n = m /\ ~rotating[m].on /\ s \in readable[n] \cup {r}
      BY <1>2 DEF StoreSecret, ReadableBy
    <2>6. /\ secret'[r] = fernet[m] /\ r \in SecretRows
          /\ \A s \in SecretRows : s # r => secret'[s] = secret[s]
      BY <1>i, <2>1 DEF SecretsTypeOK
    <2>7. \A n \in Managers : \A s \in readable[n] : s \in SecretRows
      BY <1>i DEF SecretsTypeOK
    <2>8. ReadableThroughout'
      BY <1>i, <2>1, <2>5, <2>6, <2>7 DEF ReadableThroughout
    <2> QED BY <2>3, <2>4, <2>8 DEF SecretsInv
  <1>t. ASSUME NEW m \in Managers
        PROVE  rotating[m] \in Transaction /\ (\A r \in rotating[m].todo : rotating[m].on)
    BY <1>i DEF SecretsTypeOK, LocksExclude
  <1>3. ASSUME NEW m \in Managers, NEW r \in SecretRows, SkipSecret(m, r)
        PROVE  SecretsInv'
    <2>1. PICK t \in Transaction : t = [rotating[m] EXCEPT !.todo = @ \ {r}]
      BY <1>t DEF Transaction
    <2>2. /\ t.todo = rotating[m].todo \ {r} /\ t.locked = rotating[m].locked
          /\ t.on = rotating[m].on /\ t.seen = rotating[m].seen /\ t.aborted = rotating[m].aborted
      BY <1>t, <2>1 DEF Transaction
    <2>3. rotating' = [rotating EXCEPT ![m] = t] /\ rotating[m].on /\ UNCHANGED <<secret, fernet, readable>>
      BY <1>3, <1>t, <2>1 DEF SkipSecret
    <2>4. \A n \in Managers \ {m} : t.locked \cap rotating[n].locked = {}
      BY <1>i, <2>2 DEF LocksExclude
    <2>5. /\ t.aborted => t.locked = {}
          /\ \A s \in (rotating[m].todo \cup rotating[m].locked) \ (t.todo \cup t.locked) : s = r
      BY <1>i, <2>2 DEF LocksExclude
    <2>6. rotating[m].seen[r] # fernet[m]
      BY <1>3 DEF SkipSecret, Decrypts
    <2> QED BY <2>2, <2>3, <2>4, <2>5, <2>6, TransactionGoesOn
  <1>4. ASSUME NEW m \in Managers, NEW r \in SecretRows, UpdateSecret(m, r)
        PROVE  SecretsInv'
    <2>1. PICK t \in Transaction : t = [rotating[m] EXCEPT !.todo = @ \ {r}, !.locked = @ \cup {r}]
      BY <1>t DEF Transaction
    <2>2. /\ t.todo = rotating[m].todo \ {r} /\ t.locked = rotating[m].locked \cup {r}
          /\ t.on = rotating[m].on /\ t.seen = rotating[m].seen /\ t.aborted = rotating[m].aborted
      BY <1>t, <2>1 DEF Transaction
    <2>3. rotating' = [rotating EXCEPT ![m] = t] /\ rotating[m].on /\ UNCHANGED <<secret, fernet, readable>>
      BY <1>4, <1>t, <2>1 DEF UpdateSecret
    <2>4. \A n \in Managers \ {m} : t.locked \cap rotating[n].locked = {}
      BY <1>4, <1>i, <2>2 DEF LocksExclude, UpdateSecret, Locked
    <2>5. ~t.aborted
      BY <1>4, <2>2 DEF UpdateSecret
    <2>6. (rotating[m].todo \cup rotating[m].locked) \ (t.todo \cup t.locked) = {}
      BY <2>2
    <2> QED BY <2>2, <2>3, <2>4, <2>5, <2>6, TransactionGoesOn
  <1>5. ASSUME NEW m \in Managers, NEW r \in SecretRows, UpdateFails(m, r)
        PROVE  SecretsInv'
    <2>1. PICK t \in Transaction : t = [rotating[m] EXCEPT !.todo = @ \ {r}, !.locked = {}, !.aborted = TRUE]
      BY <1>t DEF Transaction
    <2>2. /\ t.locked = {} /\ t.on = rotating[m].on /\ t.seen = rotating[m].seen /\ t.aborted
      BY <1>t, <2>1 DEF Transaction
    <2>3. rotating' = [rotating EXCEPT ![m] = t] /\ rotating[m].on /\ UNCHANGED <<secret, fernet, readable>>
      BY <1>5, <1>t, <2>1 DEF UpdateFails
    <2>4. \A n \in Managers \ {m} : t.locked \cap rotating[n].locked = {}
      BY <2>2
    <2> QED BY <2>2, <2>3, <2>4, TransactionGoesOn
  \* what the rows hold after a commit
  <1>c. ASSUME NEW m \in Managers, secret' = Rewritten(m)
        PROVE  /\ secret' \in [SecretRows -> CipherKeys \cup {Hash}]
               /\ \A r \in rotating[m].locked : secret'[r] = rotating[m].new
               /\ \A r \in SecretRows \ rotating[m].locked : secret'[r] = secret[r]
    <2>1. rotating[m].locked \subseteq SecretRows /\ rotating[m].new \in CipherKeys
      BY <1>t DEF Transaction
    <2> QED BY <1>c, <1>i, <2>1 DEF Rewritten, SecretsTypeOK
  <1>6. ASSUME NEW m \in Managers, CommitRotation(m)
        PROVE  SecretsInv'
    <2>1. /\ rotating' \in [Managers -> Transaction] /\ LocksExclude' /\ rotating'[m] = NotRotating
          /\ \A n \in Managers \ {m} : rotating'[n] = rotating[n]
      BY <1>6, TransactionEnds DEF CommitRotation
    <2>2. /\ secret' \in [SecretRows -> CipherKeys \cup {Hash}]
          /\ \A r \in rotating[m].locked : secret'[r] = rotating[m].new
          /\ \A r \in SecretRows \ rotating[m].locked : secret'[r] = secret[r]
      BY <1>6, <1>c DEF CommitRotation
    <2>3. /\ fernet' \in [Managers -> CipherKeys] /\ fernet'[m] = rotating[m].new
          /\ \A n \in Managers \ {m} : fernet'[n] = fernet[n]
      <3>1. rotating[m].new \in CipherKeys
        BY <1>t DEF Transaction
      <3> QED BY <1>6, <1>i, <3>1 DEF CommitRotation, SecretsTypeOK
    <2>4. /\ readable' \in [Managers -> SUBSET SecretRows]
          /\ \A r \in readable'[m] : r \in readable[m] /\ ~rotating[m].aborted
          /\ \A n \in Managers \ {m} : readable'[n] = readable[n] \ rotating[m].locked
      BY <1>6, <1>i DEF CommitRotation, ReadableBy, SecretsTypeOK
    <2>5. \A n \in Managers : \A r \in readable[n] : r \in SecretRows
      BY <1>i DEF SecretsTypeOK
    <2>6. \A r \in readable'[m] : secret'[r] = fernet'[m]
      <3>1. \A r \in readable'[m] : r \in rotating[m].locked
        BY <1>6, <1>i, <2>4 DEF CommitRotation, ReadableThroughout
      <3> QED BY <2>2, <2>3, <3>1
    <2>7. ~rotating'[m].on
      BY <2>1, NotRotatingIsTransaction
    <2>8. ReadableThroughout'
      <3>1. ASSUME NEW n \in Managers \ {m}, NEW r \in readable'[n]
            PROVE  r \in readable[n] /\ secret'[r] = secret[r] /\ fernet'[n] = fernet[n] /\ rotating'[n] = rotating[n]
        BY <2>1, <2>2, <2>3, <2>4, <2>5
      <3> QED BY <1>i, <2>6, <2>7, <3>1 DEF ReadableThroughout
    <2> QED BY <2>1, <2>2, <2>3, <2>4, <2>8 DEF SecretsInv, SecretsTypeOK
  <1>7. ASSUME NEW m \in Managers, RotationFails(m)
        PROVE  SecretsInv'
    <2>1. /\ rotating' \in [Managers -> Transaction] /\ LocksExclude' /\ rotating'[m] = NotRotating
          /\ \A n \in Managers \ {m} : rotating'[n] = rotating[n]
      BY <1>7, TransactionEnds DEF RotationFails
    <2>2. fernet' = fernet
      BY <1>7 DEF RotationFails
    <2>3. ~rotating'[m].on
      BY <2>1, NotRotatingIsTransaction
    <2>4. CASE UNCHANGED <<secret, readable>>
      <3>1. SecretsTypeOK'
        BY <1>i, <2>1, <2>2, <2>4 DEF SecretsTypeOK
      <3>2. ReadableThroughout'
        BY <1>i, <2>1, <2>2, <2>3, <2>4 DEF ReadableThroughout
      <3> QED BY <2>1, <3>1, <3>2 DEF SecretsInv
    <2>5. CASE /\ secret' = Rewritten(m)
               /\ readable' = ReadableBy(m, rotating[m].locked, readable[m] \ rotating[m].locked)
      <3>1. /\ secret' \in [SecretRows -> CipherKeys \cup {Hash}]
            /\ \A r \in SecretRows \ rotating[m].locked : secret'[r] = secret[r]
        BY <1>c, <2>5
      <3>2. /\ readable' \in [Managers -> SUBSET SecretRows]
            /\ \A n \in Managers : readable'[n] = readable[n] \ rotating[m].locked
        BY <1>i, <2>5 DEF ReadableBy, SecretsTypeOK
      <3>3. \A n \in Managers : \A r \in readable'[n] :
                r \in readable[n] /\ secret'[r] = secret[r]
        BY <1>i, <3>1, <3>2 DEF SecretsTypeOK
      <3>4. ReadableThroughout'
        BY <1>i, <2>1, <2>2, <2>3, <3>3 DEF ReadableThroughout
      <3> QED BY <1>i, <2>1, <2>2, <3>1, <3>2, <3>4 DEF SecretsInv, SecretsTypeOK
    <2> QED BY <1>7, <2>4, <2>5 DEF RotationFails
  <1>8. CASE UNCHANGED secretVars
    BY <1>8, <1>i DEF secretVars, SecretsInv, SecretsTypeOK, LocksExclude, ReadableThroughout
  <1> QED BY <1>1, <1>2, <1>3, <1>4, <1>5, <1>6, <1>7, <1>8 DEF SecretsNext

\* A secret that an instance could decrypt it can decrypt with its new key after a
\* rotation (rotate_encryption_key), for any number of instances and rows.
THEOREM SecretsStayReadable == SecretsSpec => []ReadableAfterRotation
  <1>1. SecretsSpec => []SecretsInv
    BY InitSecrets, SecretsStep, PTL DEF SecretsSpec
  <1>2. SecretsInv => ReadableAfterRotation
    BY DEF SecretsInv, ReadableThroughout, ReadableAfterRotation
  <1> QED BY <1>1, <1>2, PTL

------------------------------------------------------------------------------
(* Permissions                                                              *)

Tasks == Actions \cup {"list"}

CheckRecord ==
    [at : {"idle", "asking", "granted", "refused"}, task : Tasks, asked : 0 .. 3,
     found : BOOLEAN, ever : BOOLEAN, always : BOOLEAN, gained : BOOLEAN]

RightsTypeOK ==
    /\ isPublic \in BOOLEAN /\ isMember \in BOOLEAN /\ acl \subseteq Actions
    /\ check \in CheckRecord

AclGives(list, task) == IF task = "list" THEN list # {} ELSE task \in list
AccessNow == isPublic \/ isMember \/ AclGives(acl, check.task)

\* The history of a check follows who has access, and a source that was asked in
\* vain does not give the right now, unless it has gained it since.
CheckFollows ==
    check.at = "asking" =>
        /\ check.asked < 3
        /\ AccessNow => check.ever
        /\ check.always => AccessNow
        /\ check.found => check.ever /\ check.task = "list"
        /\ ~check.found /\ ~check.gained =>
            /\ check.asked >= 1 => ~isPublic
            /\ check.asked >= 2 => ~isMember

RightsInv == RightsTypeOK /\ CheckFollows /\ CheckMeansAccess

LEMMA NoCheckIsCheck == NoCheck \in CheckRecord /\ NoCheck.at = "idle"
  BY DEF NoCheck, CheckRecord, Tasks, Actions

LEMMA InitRights == RightsInit => RightsInv
  BY NoCheckIsCheck DEF RightsInit, RightsInv, RightsTypeOK, CheckFollows, CheckMeansAccess

LEMMA HeldIs ==
  ASSUME NEW public \in BOOLEAN, NEW member \in BOOLEAN, NEW list
  PROVE  /\ HasAccess(Held(public, member, list)) <=> public \/ member \/ AclGives(list, check.task)
         /\ Held(public, member, list)[Sources[1]] = public
         /\ Held(public, member, list)[Sources[2]] = member
  <1>1. Sources[1] = "public" /\ Sources[2] = "member"
    BY DEF Sources
  <1> DEFINE held == Held(public, member, list)
  <1>2. held = [public |-> public, member |-> member, acl |-> AclGives(list, check.task)]
    BY DEF Held, AclGives
  <1>3. held.public = public /\ held.member = member /\ held.acl = AclGives(list, check.task)
    BY <1>2
  <1> HIDE DEF held
  <1>4. HasAccess(held) <=> public \/ member \/ AclGives(list, check.task)
    BY <1>3 DEF HasAccess
  <1>5. held[Sources[1]] = public /\ held[Sources[2]] = member
    BY <1>1, <1>3
  <1> QED BY <1>4, <1>5 DEF held

\* Whatever changes: the check notes what it missed.
LEMMA ChangeNoted ==
  ASSUME RightsInv, NEW public \in BOOLEAN, NEW member \in BOOLEAN, NEW list \in SUBSET Actions,
         Change(public, member, list)
  PROVE  RightsInv'
  <1>i. RightsTypeOK /\ CheckFollows /\ CheckMeansAccess
    BY DEF RightsInv
  <1>1. isPublic' = public /\ isMember' = member /\ acl' = list
    BY DEF Change
  <1>2. CASE check.at # "asking"
    <2>1. check' = check
      BY <1>2 DEF Change
    <2> QED BY <1>1, <1>2, <1>i, <2>1 DEF RightsInv, RightsTypeOK, CheckFollows, CheckMeansAccess
  <1>3. CASE check.at = "asking"
    <2> DEFINE now == public \/ member \/ AclGives(list, check.task)
               missed == \E n \in 1 .. check.asked :
                    Held(public, member, list)[Sources[n]] /\ ~Held(isPublic, isMember, acl)[Sources[n]]
    <2>1. check' = [check EXCEPT !.ever = @ \/ HasAccess(Held(public, member, list)),
                                 !.always = @ /\ HasAccess(Held(public, member, list)),
                                 !.gained = @ \/ missed]
      BY <1>3, <1>i DEF Change, RightsTypeOK, CheckRecord
    <2>2. /\ check'.at = "asking" /\ check'.task = check.task /\ check'.asked = check.asked
          /\ check'.found = check.found
          /\ check'.ever <=> check.ever \/ now
          /\ check'.always <=> check.always /\ now
          /\ check'.gained <=> check.gained \/ missed
          /\ check' \in CheckRecord
      <3>1. HasAccess(Held(public, member, list)) <=> now
        BY HeldIs
      <3> HIDE DEF missed, now
      <3>2. PICK e \in BOOLEAN, a \in BOOLEAN, g \in BOOLEAN :
                /\ e = (check.ever \/ HasAccess(Held(public, member, list)))
                /\ a = (check.always /\ HasAccess(Held(public, member, list)))
                /\ g = (check.gained \/ missed)
        OBVIOUS
      <3>3. check' = [check EXCEPT !.ever = e, !.always = a, !.gained = g]
        BY <2>1, <3>2
      <3>4. /\ check'.at = check.at /\ check'.task = check.task /\ check'.asked = check.asked
            /\ check'.found = check.found /\ check'.ever = e /\ check'.always = a /\ check'.gained = g
            /\ check' \in CheckRecord
        BY <1>i, <3>3 DEF RightsTypeOK, CheckRecord
      <3> QED BY <1>3, <3>1, <3>2, <3>4
    <2>3. check.asked \in 0 .. 2
      BY <1>3, <1>i DEF RightsTypeOK, CheckRecord, CheckFollows
    <2>4. ~missed => /\ check.asked >= 1 /\ public => isPublic
                     /\ check.asked >= 2 /\ member => isMember
      <3>1. check.asked >= 1 /\ public /\ ~isPublic => missed
        <4> SUFFICES ASSUME check.asked >= 1, public, ~isPublic PROVE missed
          OBVIOUS
        <4>1. 1 \in 1 .. check.asked
          BY <2>3
        <4>2. Held(public, member, list)[Sources[1]] /\ ~Held(isPublic, isMember, acl)[Sources[1]]
          BY HeldIs, <1>i DEF RightsTypeOK
        <4> QED BY <4>1, <4>2
      <3>2. check.asked >= 2 /\ member /\ ~isMember => missed
        <4> SUFFICES ASSUME check.asked >= 2, member, ~isMember PROVE missed
          OBVIOUS
        <4>1. 2 \in 1 .. check.asked
          BY <2>3
        <4>2. Held(public, member, list)[Sources[2]] /\ ~Held(isPublic, isMember, acl)[Sources[2]]
          BY HeldIs, <1>i DEF RightsTypeOK
        <4> QED BY <4>1, <4>2
      <3> QED BY <3>1, <3>2
    <2> HIDE DEF missed
    <2>5. RightsTypeOK'
      BY <1>1, <2>2 DEF RightsTypeOK
    <2>6. CheckFollows'
      <3>1. AccessNow' <=> now
        BY <1>1, <2>2 DEF AccessNow
      <3> HIDE DEF now
      <3> QED BY <1>1, <1>3, <1>i, <2>2, <2>3, <2>4, <3>1 DEF CheckFollows
    <2>7. CheckMeansAccess'
      BY <2>2 DEF CheckMeansAccess
    <2> QED BY <2>5, <2>6, <2>7 DEF RightsInv
  <1> QED BY <1>2, <1>3

LEMMA RightsStep == RightsInv /\ [RightsNext]_rightVars => RightsInv'
  <1> SUFFICES ASSUME RightsInv, [RightsNext]_rightVars PROVE RightsInv'
    OBVIOUS
  <1>i. RightsTypeOK /\ CheckFollows /\ CheckMeansAccess
    BY DEF RightsInv
  <1>1. ASSUME NEW a \in Actions, Grant(a) \/ Revoke({a})
        PROVE  RightsInv'
    <2>1. acl \cup {a} \in SUBSET Actions /\ acl \ {a} \in SUBSET Actions
      BY <1>i DEF RightsTypeOK
    <2> QED BY <1>1, <1>i, <2>1, ChangeNoted DEF Grant, Revoke, RightsTypeOK
  <1>2. CASE Revoke(Actions)
    <2>1. acl \ Actions \in SUBSET Actions
      BY <1>i DEF RightsTypeOK
    <2> QED BY <1>2, <1>i, <2>1, ChangeNoted DEF Revoke, RightsTypeOK
  <1>3. CASE Publish \/ JoinOrLeave
    <2>1. (~isPublic) \in BOOLEAN /\ (~isMember) \in BOOLEAN
      OBVIOUS
    <2>2. acl \in SUBSET Actions
      BY <1>i DEF RightsTypeOK
    <2> QED BY <1>3, <1>i, <2>1, <2>2, ChangeNoted DEF Publish, JoinOrLeave, RightsTypeOK
  <1>4. ASSUME UNCHANGED <<isPublic, isMember, acl, check>>
        PROVE  RightsInv'
    BY <1>4, <1>i DEF RightsInv, RightsTypeOK, CheckFollows, AccessNow, CheckMeansAccess
  <1>5. ASSUME NEW e \in DOMAIN EndpointScopes, NEW task \in Tasks, BeginCheck(e, task)
        PROVE  RightsInv'
    <2>1. UNCHANGED <<isPublic, isMember, acl>>
      BY <1>5 DEF BeginCheck
    <2>2. CASE ~CheckEndpoint(e)
      <3>1. check' = NoCheck
        BY <1>5, <2>2 DEF BeginCheck
      <3> QED BY <1>i, <2>1, <3>1, NoCheckIsCheck DEF RightsInv, RightsTypeOK, CheckFollows, CheckMeansAccess
    <2>3. CASE CheckEndpoint(e)
      <3>1. PICK held \in BOOLEAN : held = (isPublic \/ isMember \/ AclGives(acl, task))
        OBVIOUS
      <3>2. check' = [at |-> "asking", task |-> task, asked |-> 0, found |-> FALSE,
                      ever |-> held, always |-> held, gained |-> FALSE]
        BY <1>5, <2>3, <3>1 DEF BeginCheck, AclGives
      <3>3. /\ check'.at = "asking" /\ check'.task = task /\ check'.asked = 0 /\ ~check'.found
            /\ check'.ever = held /\ check'.always = held /\ check' \in CheckRecord
        BY <3>2 DEF CheckRecord
      <3>4. RightsTypeOK'
        BY <1>i, <2>1, <3>3 DEF RightsTypeOK
      <3>5. CheckFollows'
        <4>1. AccessNow' <=> held
          BY <2>1, <3>1, <3>3 DEF AccessNow
        <4> QED BY <3>3, <4>1 DEF CheckFollows
      <3>6. CheckMeansAccess'
        BY <3>3 DEF CheckMeansAccess
      <3> QED BY <3>4, <3>5, <3>6 DEF RightsInv
    <2> QED BY <2>2, <2>3
  <1>6. CASE AskSource
    <2>1. UNCHANGED <<isPublic, isMember, acl>> /\ check.at = "asking"
      BY <1>6 DEF AskSource
    <2>2. check \in CheckRecord /\ check.asked \in {0, 1, 2}
      BY <1>i, <2>1 DEF RightsTypeOK, CheckRecord, CheckFollows
    <2>3. PICK yes \in BOOLEAN : yes = (check.found \/ Right(Sources[check.asked + 1], check.task))
      OBVIOUS
    <2>4. PICK at \in {"asking", "granted", "refused"} :
            /\ check' = [check EXCEPT !.asked = check.asked + 1, !.found = yes, !.at = at]
            /\ yes /\ check.task # "list" => at = "granted"
            /\ ~(yes /\ check.task # "list") /\ check.asked = 2 => at = IF yes THEN "granted" ELSE "refused"
            /\ ~(yes /\ check.task # "list") /\ check.asked # 2 => at = "asking"
      <3>1. Len(Sources) = 3
        BY DEF Sources
      <3>2. check.asked + 1 = Len(Sources) <=> check.asked = 2
        BY <2>2, <3>1
      <3>3. PICK at : at = CASE yes /\ check.task # "list" -> "granted"
                             [] check.asked + 1 = Len(Sources) -> IF yes THEN "granted" ELSE "refused"
                             [] OTHER -> "asking"
        OBVIOUS
      <3>4. check' = [check EXCEPT !.asked = check.asked + 1, !.found = yes, !.at = at]
        BY <1>6, <2>3, <3>3 DEF AskSource
      <3> QED BY <3>2, <3>3, <3>4
    <2>5. /\ check'.at = at /\ check'.task = check.task /\ check'.asked = check.asked + 1 /\ check'.found = yes
          /\ check'.ever = check.ever /\ check'.always = check.always /\ check'.gained = check.gained
          /\ check' \in CheckRecord
      <3>1. check.asked + 1 \in 0 .. 3
        BY <2>2
      <3>2. PICK n \in 0 .. 3 : n = check.asked + 1
        BY <3>1
      <3>3. check' = [check EXCEPT !.asked = n, !.found = yes, !.at = at]
        BY <2>4, <3>2
      <3> QED BY <2>2, <3>2, <3>3 DEF CheckRecord
    <2>6. /\ check.asked = 0 => (Right(Sources[check.asked + 1], check.task) <=> isPublic)
          /\ check.asked = 1 => (Right(Sources[check.asked + 1], check.task) <=> isMember)
          /\ check.asked = 2 => (Right(Sources[check.asked + 1], check.task) <=> AclGives(acl, check.task))
      <3>1. Sources[0 + 1] = "public" /\ Sources[1 + 1] = "member" /\ Sources[2 + 1] = "acl"
        BY DEF Sources
      <3>2. \A t : /\ Right("public", t) <=> isPublic
                   /\ Right("member", t) <=> isMember
                   /\ Right("acl", t) <=> AclGives(acl, t)
        BY DEF Right, InAcl, AclGives
      <3> QED BY <3>1, <3>2
    <2>7. AccessNow' <=> AccessNow
      BY <2>1, <2>5 DEF AccessNow
    <2>8. yes => check.ever
      <3>1. check.found => check.ever
        BY <1>i, <2>1 DEF CheckFollows
      <3>2. AccessNow => check.ever
        BY <1>i, <2>1 DEF CheckFollows
      <3> QED BY <2>2, <2>3, <2>6, <3>1, <3>2 DEF AccessNow
    <2>9. ~yes /\ ~check.gained => /\ ~isPublic
                                   /\ check.asked >= 1 => ~isMember
                                   /\ check.asked = 2 => ~AclGives(acl, check.task)
      <3>1. ~check.found /\ ~check.gained =>
                (check.asked >= 1 => ~isPublic) /\ (check.asked >= 2 => ~isMember)
        BY <1>i, <2>1 DEF CheckFollows
      <3> SUFFICES ASSUME ~yes, ~check.gained
                   PROVE  /\ ~isPublic
                          /\ check.asked >= 1 => ~isMember
                          /\ check.asked = 2 => ~AclGives(acl, check.task)
        OBVIOUS
      <3>2. ~check.found /\ ~Right(Sources[check.asked + 1], check.task)
        BY <2>3
      <3>3. CASE check.asked = 0
        BY <2>6, <3>2, <3>3
      <3>4. CASE check.asked = 1
        BY <2>6, <3>1, <3>2, <3>4
      <3>5. CASE check.asked = 2
        BY <2>6, <3>1, <3>2, <3>5
      <3> QED BY <2>2, <3>3, <3>4, <3>5
    <2>10. CheckFollows'
      <3> SUFFICES ASSUME at = "asking" PROVE CheckFollows'
        BY <2>5 DEF CheckFollows
      <3>1. check.asked \in {0, 1} /\ (yes => check.task = "list")
        BY <2>2, <2>4
      <3>2. /\ AccessNow => check.ever
            /\ check.always => AccessNow
        BY <1>i, <2>1 DEF CheckFollows
      <3> QED BY <2>1, <2>5, <2>7, <2>8, <2>9, <3>1, <3>2 DEF CheckFollows
    <2>11. CheckMeansAccess'
      <3>1. at = "granted" => yes
        BY <2>2, <2>4
      <3>2. at = "refused" => ~yes /\ check.asked = 2
        BY <2>2, <2>4
      <3>3. check.always => AccessNow
        BY <1>i, <2>1 DEF CheckFollows
      <3> QED BY <2>5, <2>8, <2>9, <3>1, <3>2, <3>3 DEF CheckMeansAccess, AccessNow
    <2> QED BY <1>i, <2>1, <2>5, <2>10, <2>11 DEF RightsInv, RightsTypeOK
  <1>7. CASE UNCHANGED rightVars
    BY <1>4, <1>7 DEF rightVars
  <1>8. ASSUME LogIn \/ \E r \in Roles : AssignRole(r)
        PROVE  RightsInv'
    BY <1>4, <1>8 DEF LogIn, AssignRole
  <1> QED BY <1>1, <1>2, <1>3, <1>5, <1>6, <1>7, <1>8 DEF RightsNext, Tasks

\* Access is granted only to who had it at some moment of the check, and refused to
\* who had it all the time only if a source gave it after it had been asked
\* (check_repository_access, get_accessible_repositories), however often rights
\* change between the queries.
THEOREM ChecksMeanAccess == RightsSpec => []CheckMeansAccess
  <1>1. RightsSpec => []RightsInv
    BY InitRights, RightsStep, PTL DEF RightsSpec
  <1>2. RightsInv => CheckMeansAccess
    BY DEF RightsInv
  <1> QED BY <1>1, <1>2, PTL
==============================================================================
