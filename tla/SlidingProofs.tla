---------------------------- MODULE SlidingProofs ----------------------------
(****************************************************************************)
(* Theorems about SlidingWindow, for any number of workers, requests and    *)
(* windows, any lengths and limits, and any horizon of time.                *)
(****************************************************************************)
EXTENDS SlidingWindow, FiniteSetTheorems, WellFoundedInduction, TLAPS

\* A set of times has a first one.
LEMMA MinExists ==
  ASSUME NEW S, S \subseteq Nat, S # {}
  PROVE  \E m \in S : \A n \in S : m <= n
  <1> DEFINE R == OpToRel(<, Nat)
  <1>1. IsWellFoundedOn(R, Nat)
    BY NatLessThanWellFounded
  <1>2. \A a, b \in Nat : a < b => <<a, b>> \in R
    BY DEF OpToRel
  <1> HIDE DEF R
  <1>3. PICK m \in S : \A n \in S : ~ (<<n, m>> \in R)
    BY <1>1, WFMin
  <1>4. \A n \in S : ~ (n < m)
    BY <1>2, <1>3, Zenon
  <1> QED BY <1>4

------------------------------------------------------------------------------
(* The Redis commands, key by key.                                          *)

LEMMA ScopeType ==
  ASSUME NEW r \in Requests, NEW k \in Windows
  PROVE  Scope(r, k) \in Scopes
  BY SlidingAssumption DEF Scope, Scopes

LEMMA TrimEffect ==
  ASSUME TypeOK, NEW k \in Windows, NEW s \in Scopes, NEW t, Trimmed(k, s, t)
  PROVE  /\ entries' \in [Windows -> [Scopes -> SUBSET Requests]]
         /\ deadline' \in [Windows -> [Scopes -> Nat]]
         /\ entries'[k][s] = Recent(k, s, t)
         /\ \A l \in Windows, u \in Scopes :
              /\ deadline'[l][u] # Never => deadline'[l][u] = deadline[l][u]
              /\ entries'[l][u] \subseteq entries[l][u]
              /\ <<l, u>> # <<k, s>> => entries'[l][u] = entries[l][u]
         /\ UNCHANGED <<added, late, unlucky>>
  <1> USE DEF TypeOK
  <1>1. /\ entries' = [entries EXCEPT ![k][s] = Recent(k, s, t)]
        /\ deadline' = [deadline EXCEPT ![k][s] =
                          IF Recent(k, s, t) = {} THEN Never ELSE deadline[k][s]]
        /\ UNCHANGED <<added, late, unlucky>>
    BY DEF Trimmed, history
  <1>2. Recent(k, s, t) \subseteq entries[k][s] /\ entries[k][s] \subseteq Requests
    BY DEF Recent
  <1>3. entries' \in [Windows -> [Scopes -> SUBSET Requests]]
    BY <1>1, <1>2
  <1>4. entries'[k][s] = Recent(k, s, t)
    BY <1>1
  <1>5. ASSUME NEW l \in Windows, NEW u \in Scopes, <<l, u>> # <<k, s>>
        PROVE  entries'[l][u] = entries[l][u] /\ deadline'[l][u] = deadline[l][u]
    BY <1>1, <1>5
  <1>6. deadline' \in [Windows -> [Scopes -> Nat]]
    BY <1>1 DEF Never
  <1>7. deadline'[k][s] # Never => deadline'[k][s] = deadline[k][s]
    BY <1>1
  <1> QED BY <1>1, <1>2, <1>3, <1>4, <1>5, <1>6, <1>7

LEMMA AddEffect ==
  ASSUME TypeOK, NEW k \in Windows, NEW s \in Scopes, NEW r \in Requests,
         Added(k, s, r)
  PROVE  /\ entries' \in [Windows -> [Scopes -> SUBSET Requests]]
         /\ r \in entries'[k][s]
         /\ \A l \in Windows, u \in Scopes :
              /\ entries[l][u] \subseteq entries'[l][u]
              /\ entries'[l][u] \subseteq entries[l][u] \cup {r}
              /\ <<l, u>> # <<k, s>> => entries'[l][u] = entries[l][u]
         /\ added' \in [Requests -> SUBSET Windows]
         /\ late' \in [Requests -> SUBSET Windows]
         /\ UNCHANGED <<deadline, unlucky>>
  <1> USE DEF TypeOK
  <1>1. /\ entries' = [entries EXCEPT ![k][s] = entries[k][s] \cup {r}]
        /\ added' = [added EXCEPT ![r] = added[r] \cup {k}]
        /\ late' = [late EXCEPT ![r] = IF stamp[r] > now - Length[k]
                                       THEN late[r] ELSE late[r] \cup {k}]
        /\ UNCHANGED <<deadline, unlucky>>
    BY DEF Added
  <1>2. entries' \in [Windows -> [Scopes -> SUBSET Requests]]
    BY <1>1
  <1>3. added' \in [Requests -> SUBSET Windows]
    BY <1>1
  <1>4. (IF stamp[r] > now - Length[k] THEN late[r] ELSE late[r] \cup {k})
          \in SUBSET Windows
    OBVIOUS
  <1>5. late' \in [Requests -> SUBSET Windows]
    BY <1>1, <1>4
  <1>6. entries'[k][s] = entries[k][s] \cup {r}
    BY <1>1
  <1>7. ASSUME NEW l \in Windows, NEW u \in Scopes, <<l, u>> # <<k, s>>
        PROVE  entries'[l][u] = entries[l][u]
    BY <1>1, <1>7
  <1> QED BY <1>1, <1>2, <1>3, <1>5, <1>6, <1>7

LEMMA ExtendEffect ==
  ASSUME TypeOK, NEW k \in Windows, NEW s \in Scopes, Extended(k, s)
  PROVE  /\ deadline' \in [Windows -> [Scopes -> Nat]]
         /\ entries[k][s] # {} => deadline'[k][s] = now + Length[k] + Buffer
         /\ \A l \in Windows, u \in Scopes :
              <<l, u>> # <<k, s>> => deadline'[l][u] = deadline[l][u]
         /\ UNCHANGED <<entries, added, late, unlucky>>
  <1> USE DEF TypeOK
  <1> DEFINE d == IF entries[k][s] = {} THEN deadline[k][s]
                                       ELSE now + Length[k] + Buffer
  <1>1. /\ deadline' = [deadline EXCEPT ![k][s] = d]
        /\ UNCHANGED <<entries, added, late, unlucky>>
    BY DEF Extended, history
  <1>2. d \in Nat
    BY SlidingAssumption DEF Time
  <1>3. entries[k][s] # {} => d = now + Length[k] + Buffer
    OBVIOUS
  <1> HIDE DEF d
  <1>4. deadline' \in [Windows -> [Scopes -> Nat]]
    BY <1>1, <1>2
  <1>5. deadline'[k][s] = d
    BY <1>1
  <1>6. ASSUME NEW l \in Windows, NEW u \in Scopes, <<l, u>> # <<k, s>>
        PROVE  deadline'[l][u] = deadline[l][u]
    BY <1>1, <1>6
  <1> QED BY <1>1, <1>3, <1>4, <1>5, <1>6

------------------------------------------------------------------------------
(* Type correctness.                                                        *)

LEMMA NextWindowType ==
  ASSUME TypeOK, NEW r \in Requests, NEW p \in Place, NEW last \in Place,
         NextWindow(r, p, last)
  PROVE  /\ at' \in [Requests -> Place] /\ window' \in [Requests -> Windows]
         /\ \A q \in Requests \ {r} : at'[q] = at[q] /\ window'[q] = window[q]
         /\ window[r] = Depth => at'[r] = last /\ window'[r] = 1
         /\ window[r] # Depth => at'[r] = p /\ window'[r] = window[r] + 1
  <1> USE DEF TypeOK
  <1> DEFINE v == IF window[r] = Depth THEN 1 ELSE window[r] + 1
  <1>1. /\ at' = [at EXCEPT ![r] = IF window[r] = Depth THEN last ELSE p]
        /\ window' = [window EXCEPT ![r] = v]
    BY DEF NextWindow, Goto
  <1>2. v \in Windows
    BY SlidingAssumption DEF Windows
  <1>3. window' \in [Requests -> Windows]
    BY <1>1, <1>2
  <1> QED BY <1>1, <1>3

LEMMA TypeStep == TypeOK /\ [Next]_vars => TypeOK'
  <1> SUFFICES ASSUME TypeOK, [Next]_vars PROVE TypeOK'
    OBVIOUS
  <1> USE DEF Goto, Place, InWorker, Checking, Recording, Answered
  <1>1. ASSUME NEW r \in Requests, Enter(r) PROVE TypeOK'
    BY <1>1 DEF Enter, TypeOK, redis, history
  <1>2. ASSUME NEW r \in Requests, Trim(r) PROVE TypeOK'
    <2>1. window[r] \in Windows /\ Scope(r, window[r]) \in Scopes
      BY ScopeType DEF TypeOK
    <2>2. Trimmed(window[r], Scope(r, window[r]), read[r])
      BY <1>2 DEF Trim
    <2>3. /\ entries' \in [Windows -> [Scopes -> SUBSET Requests]]
          /\ deadline' \in [Windows -> [Scopes -> Nat]]
          /\ UNCHANGED <<added, late, unlucky>>
      BY <2>1, <2>2, TrimEffect
    <2> QED BY <1>2, <2>3 DEF Trim, TypeOK
  <1>3. ASSUME NEW r \in Requests, Count(r) PROVE TypeOK'
    <2>1. at' \in [Requests -> Place] /\ window' \in [Requests -> Windows]
      <3>1. CASE Goto(r, "oldest") /\ UNCHANGED window
        BY <3>1 DEF TypeOK
      <3>2. CASE NextWindow(r, "trim", "record")
        BY <3>2, NextWindowType
      <3> QED BY <1>3, <3>1, <3>2 DEF Count
    <2> QED BY <1>3, <2>1 DEF Count, TypeOK, redis, history
  <1>4. ASSUME NEW r \in Requests, Refuse(r) PROVE TypeOK'
    <2>1. ResetAt(r) - read[r] \in Int
      <3> DEFINE k == window[r]
                 stamps == {stamp[q] : q \in entries[k][Scope(r, k)]}
      <3>1. k \in Windows /\ entries[k][Scope(r, k)] \subseteq Requests
        BY ScopeType DEF TypeOK
      <3>2. Length[k] \in Int /\ read[r] \in Int /\ stamps \subseteq Nat
        BY <3>1, SlidingAssumption DEF TypeOK, Time
      <3>3. CASE stamps = {}
        <4>1. ResetAt(r) = read[r] + Length[k]
          BY <3>3 DEF ResetAt
        <4> QED BY <3>2, <4>1
      <3>4. CASE stamps # {}
        <4> DEFINE first == CHOOSE t \in stamps : \A u \in stamps : t <= u
        <4>1. ResetAt(r) = first + Length[k]
          BY <3>4 DEF ResetAt
        <4> HIDE DEF stamps, k
        <4>2. first \in stamps
          BY <3>2, <3>4, MinExists
        <4> HIDE DEF first
        <4> QED BY <3>2, <4>1, <4>2
      <3> QED BY <3>3, <3>4
    <2> QED BY <1>4, <2>1 DEF Refuse, TypeOK, redis, history
  <1>5. ASSUME NEW r \in Requests, Record(r) PROVE TypeOK'
    BY <1>5 DEF Record, TypeOK, redis, history
  <1>6. ASSUME NEW r \in Requests, Add(r) PROVE TypeOK'
    <2>1. window[r] \in Windows /\ Scope(r, window[r]) \in Scopes
      BY ScopeType DEF TypeOK
    <2>2. /\ entries' \in [Windows -> [Scopes -> SUBSET Requests]]
          /\ added' \in [Requests -> SUBSET Windows]
          /\ late' \in [Requests -> SUBSET Windows]
          /\ UNCHANGED <<deadline, unlucky>>
      BY <1>6, <2>1, AddEffect DEF Add
    <2> QED BY <1>6, <2>2 DEF Add, TypeOK
  <1>7. ASSUME NEW r \in Requests, Expire(r) PROVE TypeOK'
    <2>1. window[r] \in Windows /\ Scope(r, window[r]) \in Scopes
      BY ScopeType DEF TypeOK
    <2>2. /\ deadline' \in [Windows -> [Scopes -> Nat]]
          /\ UNCHANGED <<entries, added, late, unlucky>>
      BY <1>7, <2>1, ExtendEffect DEF Expire
    <2>3. at' \in [Requests -> Place] /\ window' \in [Requests -> Windows]
      BY <1>7, NextWindowType DEF Expire
    <2> QED BY <1>7, <2>2, <2>3 DEF Expire, TypeOK
  <1>8. ASSUME NEW r \in Requests, CommandFails(r) PROVE TypeOK'
    <2>1. window[r] \in Windows /\ Scope(r, window[r]) \in Scopes
      BY ScopeType DEF TypeOK
    <2>2. /\ entries' \in [Windows -> [Scopes -> SUBSET Requests]]
          /\ deadline' \in [Windows -> [Scopes -> Nat]]
          /\ added' \in [Requests -> SUBSET Windows]
          /\ late' \in [Requests -> SUBSET Windows]
          /\ UNCHANGED unlucky
      <3>1. CASE UNCHANGED <<redis, history>>
        BY <3>1 DEF TypeOK, redis, history
      <3>2. CASE Trimmed(window[r], Scope(r, window[r]), read[r])
        BY <2>1, <3>2, TrimEffect DEF TypeOK
      <3>3. CASE Added(window[r], Scope(r, window[r]), r)
        BY <2>1, <3>3, AddEffect DEF TypeOK
      <3>4. CASE Extended(window[r], Scope(r, window[r]))
        BY <2>1, <3>4, ExtendEffect DEF TypeOK
      <3> QED BY <1>8, <3>1, <3>2, <3>3, <3>4 DEF CommandFails, Effect
    <2> QED BY <1>8, <2>2 DEF CommandFails, TypeOK
  <1>9. ASSUME NEW r \in Requests, WorkerDies(r) PROVE TypeOK'
    BY <1>9 DEF WorkerDies, TypeOK, redis, history
  <1>10. ASSUME NEW k \in PerEndpoint, NEW s \in Endpoints, NEW t \in Time,
                Observe(k, s, t)
         PROVE  TypeOK'
    <2>1. k \in Windows /\ s \in Scopes
      BY SlidingAssumption DEF Scopes
    <2>2. /\ entries' \in [Windows -> [Scopes -> SUBSET Requests]]
          /\ deadline' \in [Windows -> [Scopes -> Nat]]
          /\ UNCHANGED <<added, late, unlucky>>
      BY <1>10, <2>1, TrimEffect DEF Observe
    <2> QED BY <1>10, <2>2 DEF Observe, TypeOK, request
  <1>11. CASE Tick
    <2>1. now' \in Time
      BY <1>11, SlidingAssumption DEF Tick, TypeOK, Time
    <2>2. /\ entries' \in [Windows -> [Scopes -> SUBSET Requests]]
          /\ deadline' \in [Windows -> [Scopes -> Nat]]
      BY <1>11 DEF Tick, TypeOK, Never
    <2>3. unlucky' \in [Requests -> SUBSET Windows]
      BY <1>11 DEF Tick, TypeOK
    <2> QED BY <1>11, <2>1, <2>2, <2>3 DEF Tick, TypeOK, request
  <1>12. CASE UNCHANGED vars
    BY <1>12 DEF vars, TypeOK, request, redis, history
  <1> QED
    BY <1>1, <1>2, <1>3, <1>4, <1>5, <1>6, <1>7, <1>8, <1>9, <1>10, <1>11, <1>12
       DEF Next

LEMMA TypeInit == Init => TypeOK
  BY SlidingAssumption DEF Init, TypeOK, Place, Time, Windows, Never

\* Every variable keeps its type.
THEOREM TypeCorrect == Spec => []TypeOK
  BY TypeInit, TypeStep, PTL DEF Spec

------------------------------------------------------------------------------
(* Times, and workers.                                                      *)

LEMMA TimesStep ==
  TypeOK /\ TimesPast /\ FirstWindow /\ [Next]_vars => TimesPast' /\ FirstWindow'
  <1> SUFFICES ASSUME TypeOK, TimesPast, FirstWindow, [Next]_vars
               PROVE  TimesPast' /\ FirstWindow'
    OBVIOUS
  <1> USE DEF Goto, TimesPast, FirstWindow, TypeOK, Time, InWorker, Checking, Recording
  <1>0. now \in Nat
    OBVIOUS
  <1>1. ASSUME NEW r \in Requests, Enter(r) PROVE TimesPast' /\ FirstWindow'
    BY <1>0, <1>1 DEF Enter
  <1>2. ASSUME NEW r \in Requests, Trim(r) PROVE TimesPast' /\ FirstWindow'
    BY <1>2 DEF Trim
  <1>3. ASSUME NEW r \in Requests, Count(r) PROVE TimesPast' /\ FirstWindow'
    <2>1. TimesPast'
      BY <1>3 DEF Count
    <2>2. CASE Goto(r, "oldest") /\ UNCHANGED window
      BY <2>1, <2>2
    <2>3. CASE NextWindow(r, "trim", "record")
      BY <2>1, <2>3, NextWindowType, ZenonT(30) DEF Place
    <2> QED BY <1>3, <2>2, <2>3 DEF Count
  <1>4. ASSUME NEW r \in Requests, Refuse(r) PROVE TimesPast' /\ FirstWindow'
    BY <1>4 DEF Refuse
  <1>5. ASSUME NEW r \in Requests, Record(r) PROVE TimesPast' /\ FirstWindow'
    BY <1>0, <1>5 DEF Record
  <1>6. ASSUME NEW r \in Requests, Add(r) PROVE TimesPast' /\ FirstWindow'
    BY <1>6 DEF Add
  <1>7. ASSUME NEW r \in Requests, Expire(r) PROVE TimesPast' /\ FirstWindow'
    <2>1. NextWindow(r, "add", "admitted") /\ TimesPast'
      BY <1>7 DEF Expire
    <2> QED BY <2>1, NextWindowType, ZenonT(30) DEF Place, Answered
  <1>8. ASSUME NEW r \in Requests, CommandFails(r) PROVE TimesPast' /\ FirstWindow'
    BY <1>8 DEF CommandFails
  <1>9. ASSUME NEW r \in Requests, WorkerDies(r) PROVE TimesPast' /\ FirstWindow'
    BY <1>9 DEF WorkerDies
  <1>10. ASSUME NEW k \in PerEndpoint, NEW s \in Endpoints, NEW t \in Time,
                Observe(k, s, t)
         PROVE  TimesPast' /\ FirstWindow'
    BY <1>10 DEF Observe, request
  <1>11. CASE Tick
    BY <1>0, <1>11 DEF Tick, request
  <1>12. CASE UNCHANGED vars
    BY <1>12 DEF vars, request
  <1> QED
    BY <1>1, <1>2, <1>3, <1>4, <1>5, <1>6, <1>7, <1>8, <1>9, <1>10, <1>11, <1>12
       DEF Next

\* Who is busy after a step was busy before it, but for one who enters.
LEMMA BusyChange ==
  ASSUME TypeOK, [Next]_vars
  PROVE  \/ Busy' \subseteq Busy
         \/ \E r \in Requests : Busy' \subseteq Busy \cup {r} /\ Cardinality(Busy) < Workers
  <1> USE DEF Goto, TypeOK, Busy, InWorker, Checking, Recording
  <1>1. ASSUME NEW r \in Requests, Enter(r)
        PROVE  Busy' \subseteq Busy \cup {r} /\ Cardinality(Busy) < Workers
    BY <1>1 DEF Enter
  <1>2. ASSUME NEW r \in Requests,
               \/ Trim(r) \/ Count(r) \/ Refuse(r) \/ Record(r) \/ Add(r) \/ Expire(r)
               \/ CommandFails(r) \/ WorkerDies(r)
        PROVE  Busy' \subseteq Busy
    <2>1. at[r] \in InWorker
      BY <1>2 DEF Trim, Count, Refuse, Record, Add, Expire, CommandFails, WorkerDies
    <2>2. \A q \in Requests \ {r} : at'[q] = at[q]
      BY <1>2 DEF Trim, Count, Refuse, Record, Add, Expire, CommandFails, WorkerDies,
                  NextWindow
    <2> QED BY <2>1, <2>2
  <1>3. CASE \/ \E k \in PerEndpoint, s \in Endpoints, t \in Time : Observe(k, s, t)
             \/ Tick \/ UNCHANGED vars
    BY <1>3 DEF Observe, Tick, vars, request
  <1> QED BY <1>1, <1>2, <1>3 DEF Next

LEMMA BusyFinite == IsFiniteSet(Busy) /\ Cardinality(Busy) \in Nat
  BY SlidingAssumption, FS_Subset, FS_CardinalityType DEF Busy

LEMMA BusyStep == TypeOK /\ BusyBound /\ [Next]_vars => BusyBound'
  <1> SUFFICES ASSUME TypeOK, BusyBound, [Next]_vars PROVE BusyBound'
    OBVIOUS
  <1>1. Workers \in Nat /\ IsFiniteSet(Busy) /\ Cardinality(Busy) \in Nat
    BY SlidingAssumption, BusyFinite
  <1>2. CASE Busy' \subseteq Busy
    <2>1. Cardinality(Busy') <= Cardinality(Busy) /\ IsFiniteSet(Busy')
      BY <1>1, <1>2, FS_Subset
    <2>2. Cardinality(Busy') \in Nat
      BY <2>1, FS_CardinalityType
    <2> QED BY <1>1, <2>1, <2>2 DEF BusyBound
  <1>3. ASSUME NEW r \in Requests, Busy' \subseteq Busy \cup {r},
               Cardinality(Busy) < Workers
        PROVE  BusyBound'
    <2>1. /\ IsFiniteSet(Busy \cup {r})
          /\ Cardinality(Busy \cup {r}) <= Cardinality(Busy) + 1
      BY <1>1, FS_AddElement
    <2>2. /\ IsFiniteSet(Busy')
          /\ Cardinality(Busy') <= Cardinality(Busy \cup {r})
      BY <1>3, <2>1, FS_Subset
    <2>3. Cardinality(Busy') \in Nat /\ Cardinality(Busy \cup {r}) \in Nat
      BY <2>1, <2>2, FS_CardinalityType
    <2> QED BY <1>1, <1>3, <2>1, <2>2, <2>3 DEF BusyBound
  <1> QED BY <1>2, <1>3, BusyChange

------------------------------------------------------------------------------
(* Entries stay in their sets while they are in the window.                 *)

EntryInv == EntriesKept /\ KeysOutlive

\* What a step does to entries that it does not add, nor its request extends.
LEMMA EntryFrame ==
  ASSUME TypeOK, TypeOK', EntryInv, UNCHANGED <<now, unlucky>>,
         \A q \in Requests, l \in Windows :
            /\ HasEntry(q, l)' => HasEntry(q, l) /\ stamp'[q] = stamp[q]
            /\ HasExpire(q, l)' => HasExpire(q, l) /\ stamp'[q] = stamp[q],
         \A l \in Windows, u \in Scopes :
            /\ entries'[l][u] \subseteq entries[l][u]
            /\ deadline'[l][u] # Never => deadline'[l][u] = deadline[l][u],
         \A q \in Requests, l \in Windows :
            q \in entries[l][Scope(q, l)] /\ stamp[q] > now - Length[l]
              => q \in entries'[l][Scope(q, l)]
  PROVE  EntryInv'
  <1>1. EntriesKept'
    <2> SUFFICES ASSUME NEW q \in Requests, NEW l \in Windows, HasEntry(q, l)',
                        l \notin unlucky'[q], stamp'[q] > now' - Length[l]
                 PROVE  q \in entries'[l][Scope(q, l)]
      BY DEF EntriesKept, Scope
    <2>1. HasEntry(q, l) /\ stamp[q] > now - Length[l] /\ l \notin unlucky[q]
      OBVIOUS
    <2>2. q \in entries[l][Scope(q, l)]
      BY <2>1 DEF EntryInv, EntriesKept
    <2> QED BY <2>1, <2>2
  <1>2. KeysOutlive'
    <2> SUFFICES ASSUME NEW q \in Requests, NEW l \in Windows, HasExpire(q, l)',
                        q \in entries'[l][Scope(q, l)],
                        deadline'[l][Scope(q, l)] # Never
                 PROVE  deadline'[l][Scope(q, l)] >= stamp'[q] + Length[l]
      BY DEF KeysOutlive, Scope
    <2>1. Scope(q, l) \in Scopes
      BY ScopeType
    <2>2. /\ q \in entries[l][Scope(q, l)] /\ HasExpire(q, l) /\ stamp'[q] = stamp[q]
          /\ deadline'[l][Scope(q, l)] = deadline[l][Scope(q, l)]
      BY <2>1
    <2>3. deadline[l][Scope(q, l)] >= stamp[q] + Length[l]
      BY <2>2 DEF EntryInv, KeysOutlive
    <2> QED BY <2>2, <2>3
  <1> QED BY <1>1, <1>2 DEF EntryInv

\* A check at an earlier time removes nothing that is in the window now.
LEMMA TrimKeeps ==
  ASSUME TypeOK, NEW k \in Windows, NEW s \in Scopes, NEW t \in Time, t <= now,
         Trimmed(k, s, t)
  PROVE  \A q \in Requests, l \in Windows :
            q \in entries[l][Scope(q, l)] /\ stamp[q] > now - Length[l]
              => q \in entries'[l][Scope(q, l)]
  <1> SUFFICES ASSUME NEW q \in Requests, NEW l \in Windows,
                      q \in entries[l][Scope(q, l)], stamp[q] > now - Length[l]
               PROVE  q \in entries'[l][Scope(q, l)]
    OBVIOUS
  <1>1. Scope(q, l) \in Scopes
    BY ScopeType
  <1>2. CASE <<l, Scope(q, l)>> # <<k, s>>
    BY <1>1, <1>2, TrimEffect
  <1>3. CASE l = k /\ Scope(q, l) = s
    <2>1. Length[k] \in Nat /\ stamp[q] \in Nat /\ now \in Nat /\ t \in Nat
      BY SlidingAssumption DEF TypeOK, Time
    <2>2. q \in Recent(k, s, t)
      BY <1>3, <2>1 DEF Recent
    <2> QED BY <1>3, <2>2, TrimEffect
  <1> QED BY <1>2, <1>3

\* A step that leaves the sets alone.
LEMMA SameEntries ==
  ASSUME TypeOK, UNCHANGED <<entries, deadline>>
  PROVE  /\ \A l \in Windows, u \in Scopes :
              /\ entries'[l][u] \subseteq entries[l][u]
              /\ deadline'[l][u] # Never => deadline'[l][u] = deadline[l][u]
         /\ \A q \in Requests, l \in Windows :
              q \in entries[l][Scope(q, l)] /\ stamp[q] > now - Length[l]
                => q \in entries'[l][Scope(q, l)]
  OBVIOUS

LEMMA AddKeeps ==
  ASSUME TypeOK, TypeOK', EntryInv, NEW r \in Requests, Add(r)
  PROVE  EntryInv'
  <1> DEFINE k == window[r]  s == Scope(r, k)
  <1>1. k \in Windows /\ s \in Scopes
    BY ScopeType DEF TypeOK
  <1>2. /\ UNCHANGED <<now, window, stamp, deadline, unlucky>>
        /\ at[r] = "add" /\ at' = [at EXCEPT ![r] = "expire"]
        /\ Added(k, s, r)
    BY DEF Add, Goto, Added
  <1>3. /\ r \in entries'[k][s]
        /\ \A l \in Windows, u \in Scopes :
              /\ entries[l][u] \subseteq entries'[l][u]
              /\ entries'[l][u] \subseteq entries[l][u] \cup {r}
              /\ <<l, u>> # <<k, s>> => entries'[l][u] = entries[l][u]
    BY <1>1, <1>2, AddEffect
  <1> HIDE DEF k, s
  <1>4. EntriesKept'
    <2> SUFFICES ASSUME NEW q \in Requests, NEW l \in Windows, HasEntry(q, l)',
                        l \notin unlucky'[q], stamp'[q] > now' - Length[l]
                 PROVE  q \in entries'[l][Scope(q, l)]
      BY DEF EntriesKept, Scope
    <2>1. CASE q = r /\ l = k
      BY <1>3, <2>1 DEF s
    <2>2. CASE ~(q = r /\ l = k)
      <3>1. HasEntry(q, l)
        BY <1>2, <2>2 DEF HasEntry, HasExpire, TypeOK, k
      <3>2. q \in entries[l][Scope(q, l)] /\ Scope(q, l) \in Scopes
        BY <1>2, <3>1, ScopeType DEF EntryInv, EntriesKept
      <3> QED BY <1>3, <3>2
    <2> QED BY <2>1, <2>2
  <1>5. KeysOutlive'
    <2> SUFFICES ASSUME NEW q \in Requests, NEW l \in Windows, HasExpire(q, l)',
                        q \in entries'[l][Scope(q, l)],
                        deadline'[l][Scope(q, l)] # Never
                 PROVE  deadline'[l][Scope(q, l)] >= stamp'[q] + Length[l]
      BY DEF KeysOutlive, Scope
    <2>1. HasExpire(q, l) /\ ~(q = r /\ l = k)
      BY <1>1, <1>2 DEF HasExpire, TypeOK, k, Windows
    <2>2. Scope(q, l) \in Scopes
      BY ScopeType
    <2>3. q \in entries[l][Scope(q, l)]
      <3>1. CASE q # r
        BY <1>3, <2>2, <3>1
      <3>2. CASE l # k
        BY <1>3, <2>2, <3>2
      <3> QED BY <2>1, <3>1, <3>2
    <2> QED BY <1>2, <2>1, <2>3 DEF EntryInv, KeysOutlive
  <1> QED BY <1>4, <1>5 DEF EntryInv

LEMMA ExtendKeeps ==
  ASSUME TypeOK, TypeOK', TimesPast, EntryInv, NEW r \in Requests, Expire(r)
  PROVE  EntryInv'
  <1> DEFINE k == window[r]  s == Scope(r, k)
  <1>1. k \in Windows /\ s \in Scopes
    BY ScopeType DEF TypeOK
  <1>2. /\ at[r] = "expire" /\ Extended(k, s) /\ NextWindow(r, "add", "admitted")
        /\ UNCHANGED <<now, stamp>>
    BY DEF Expire
  <1>3. /\ entries[k][s] # {} => deadline'[k][s] = now + Length[k] + Buffer
        /\ \A l \in Windows, u \in Scopes :
              <<l, u>> # <<k, s>> => deadline'[l][u] = deadline[l][u]
        /\ UNCHANGED <<entries, unlucky>>
    BY <1>1, <1>2, ExtendEffect
  <1>4. /\ \A q \in Requests \ {r} : at'[q] = at[q] /\ window'[q] = window[q]
        /\ k = Depth => at'[r] = "admitted" /\ window'[r] = 1
        /\ k # Depth => at'[r] = "add" /\ window'[r] = k + 1
    BY <1>2, NextWindowType DEF Place, InWorker, Recording, Answered
  <1>5. /\ Length \in [Windows -> Nat] /\ Buffer \in Nat /\ now \in Nat
        /\ Depth \in Nat
    BY SlidingAssumption DEF TypeOK, Time
  <1>6. ASSUME NEW q \in Requests, NEW l \in Windows, HasExpire(q, l)'
        PROVE  HasExpire(q, l) \/ (q = r /\ l = k)
    <2>1. CASE q # r
      BY <1>4, <1>6, <2>1 DEF HasExpire
    <2>2. CASE q = r
      BY <1>1, <1>2, <1>4, <1>5, <1>6, <2>2 DEF HasExpire, Windows
    <2> QED BY <2>1, <2>2
  <1>7. ASSUME NEW q \in Requests, NEW l \in Windows, HasEntry(q, l)'
        PROVE  HasEntry(q, l)
    <2>1. CASE q # r
      BY <1>4, <1>7, <2>1 DEF HasEntry, HasExpire
    <2>2. CASE q = r
      BY <1>1, <1>2, <1>4, <1>5, <1>7, <2>2 DEF HasEntry, HasExpire, Windows
    <2> QED BY <2>1, <2>2
  <1>8. EntriesKept'
    <2> SUFFICES ASSUME NEW q \in Requests, NEW l \in Windows, HasEntry(q, l)',
                        l \notin unlucky'[q], stamp'[q] > now' - Length[l]
                 PROVE  q \in entries'[l][Scope(q, l)]
      BY DEF EntriesKept, Scope
    <2> QED BY <1>2, <1>3, <1>7 DEF EntryInv, EntriesKept
  <1>9. KeysOutlive'
    <2> SUFFICES ASSUME NEW q \in Requests, NEW l \in Windows, HasExpire(q, l)',
                        q \in entries'[l][Scope(q, l)],
                        deadline'[l][Scope(q, l)] # Never
                 PROVE  deadline'[l][Scope(q, l)] >= stamp'[q] + Length[l]
      BY DEF KeysOutlive, Scope
    <2>1. Scope(q, l) \in Scopes /\ stamp[q] <= now /\ stamp[q] \in Nat
      BY ScopeType DEF TimesPast, TypeOK, Time
    <2>2. CASE l = k /\ Scope(q, l) = s
      BY <1>2, <1>3, <1>5, <2>1, <2>2
    <2>3. CASE <<l, Scope(q, l)>> # <<k, s>>
      <3>1. HasExpire(q, l) /\ deadline'[l][Scope(q, l)] = deadline[l][Scope(q, l)]
        BY <1>3, <1>6, <2>1, <2>3
      <3> QED BY <1>2, <1>3, <3>1 DEF EntryInv, KeysOutlive
    <2> QED BY <2>2, <2>3
  <1> QED BY <1>8, <1>9 DEF EntryInv

LEMMA TickKeeps ==
  ASSUME TypeOK, TypeOK', EntryInv, Tick
  PROVE  EntryInv'
  <1>1. /\ UNCHANGED <<at, window, stamp>> /\ now' = now + 1
        /\ \A l \in Windows, u \in Scopes :
              /\ ~ Over(l, u) => /\ entries'[l][u] = entries[l][u]
                                /\ deadline'[l][u] = deadline[l][u]
              /\ Over(l, u) => entries'[l][u] = {}
        /\ \A q \in Requests :
              /\ unlucky[q] \subseteq unlucky'[q]
              /\ /\ at[q] = "expire" /\ q \in entries[window[q]][Scope(q, window[q])]
                 /\ Over(window[q], Scope(q, window[q]))
                 => window[q] \in unlucky'[q]
    <2> HIDE DEF Over
    <2> QED BY DEF Tick, request, TypeOK
  <1>2. now \in Nat /\ stamp \in [Requests -> Nat] /\ Length \in [Windows -> Nat]
    BY SlidingAssumption DEF TypeOK, Time
  <1>3. EntriesKept'
    <2> SUFFICES ASSUME NEW q \in Requests, NEW l \in Windows, HasEntry(q, l)',
                        l \notin unlucky'[q], stamp'[q] > now' - Length[l]
                 PROVE  q \in entries'[l][Scope(q, l)]
      BY DEF EntriesKept, Scope
    <2>1. /\ HasEntry(q, l) /\ l \notin unlucky[q]
          /\ stamp[q] > now + 1 - Length[l] /\ stamp[q] > now - Length[l]
      BY <1>1, <1>2 DEF HasEntry, HasExpire
    <2>2. q \in entries[l][Scope(q, l)] /\ Scope(q, l) \in Scopes
      BY <2>1, ScopeType DEF EntryInv, EntriesKept
    <2>3. ~ Over(l, Scope(q, l))
      <3>1. CASE HasExpire(q, l)
        <4>1. /\ deadline[l][Scope(q, l)] # Never
                   => deadline[l][Scope(q, l)] >= stamp[q] + Length[l]
              /\ deadline[l][Scope(q, l)] \in Nat
          BY <2>2, <3>1 DEF EntryInv, KeysOutlive, TypeOK
        <4> QED BY <1>2, <2>1, <4>1 DEF Over
      <3>2. CASE at[q] = "expire" /\ window[q] = l
        BY <1>1, <2>2, <3>2
      <3> QED BY <2>1, <3>1, <3>2 DEF HasEntry
    <2> QED BY <1>1, <2>2, <2>3
  <1>4. KeysOutlive'
    <2> SUFFICES ASSUME NEW q \in Requests, NEW l \in Windows, HasExpire(q, l)',
                        q \in entries'[l][Scope(q, l)],
                        deadline'[l][Scope(q, l)] # Never
                 PROVE  deadline'[l][Scope(q, l)] >= stamp'[q] + Length[l]
      BY DEF KeysOutlive, Scope
    <2>1. Scope(q, l) \in Scopes /\ HasExpire(q, l)
      BY <1>1, ScopeType DEF HasExpire
    <2>2. ~ Over(l, Scope(q, l))
      BY <1>1, <2>1
    <2>3. /\ q \in entries[l][Scope(q, l)]
          /\ deadline'[l][Scope(q, l)] = deadline[l][Scope(q, l)]
      BY <1>1, <2>1, <2>2
    <2> QED BY <1>1, <2>1, <2>3 DEF EntryInv, KeysOutlive
  <1> QED BY <1>3, <1>4 DEF EntryInv

LEMMA EntryStep ==
  ASSUME TypeOK, TypeOK', TimesPast, FirstWindow, EntryInv, [Next]_vars
  PROVE  EntryInv'
  <1> USE DEF Goto
  <1>a. /\ window \in [Requests -> Windows] /\ at \in [Requests -> Place]
        /\ \A l \in Windows : l \in Nat /\ l >= 1
    BY SlidingAssumption DEF TypeOK, Windows
  <1>1. ASSUME NEW r \in Requests, Enter(r) PROVE EntryInv'
    <2>1. \A q \in Requests, l \in Windows :
            /\ HasEntry(q, l)' => HasEntry(q, l)
            /\ HasExpire(q, l)' => HasExpire(q, l)
      BY <1>1, <1>a DEF Enter, HasEntry, HasExpire
    <2> QED BY <1>1, <2>1, EntryFrame, SameEntries DEF Enter, redis, history
  <1>2. ASSUME NEW r \in Requests, Trim(r) PROVE EntryInv'
    <2>1. \A q \in Requests, l \in Windows :
            /\ HasEntry(q, l)' => HasEntry(q, l)
            /\ HasExpire(q, l)' => HasExpire(q, l)
      BY <1>2, <1>a DEF Trim, HasEntry, HasExpire
    <2>2. /\ window[r] \in Windows /\ Scope(r, window[r]) \in Scopes
          /\ read[r] \in Time /\ read[r] <= now
      BY ScopeType DEF TypeOK, TimesPast
    <2>3. Trimmed(window[r], Scope(r, window[r]), read[r]) /\ UNCHANGED <<now, stamp>>
      BY <1>2 DEF Trim
    <2> QED BY <2>1, <2>2, <2>3, TrimEffect, TrimKeeps, EntryFrame
  <1>3. ASSUME NEW r \in Requests, Count(r) PROVE EntryInv'
    <2>1. at[r] = "count" /\ at'[r] \in {"oldest", "trim", "record"}
      <3>1. CASE Goto(r, "oldest")
        BY <1>3, <3>1 DEF Count, TypeOK
      <3>2. CASE NextWindow(r, "trim", "record")
        BY <1>3, <3>2, <1>a DEF NextWindow, Count
      <3> QED BY <1>3, <3>1, <3>2 DEF Count
    <2>2. \A q \in Requests \ {r} : at'[q] = at[q] /\ window'[q] = window[q]
      BY <1>3, <1>a DEF Count, NextWindow
    <2>3. \A q \in Requests, l \in Windows :
            /\ HasEntry(q, l)' => HasEntry(q, l)
            /\ HasExpire(q, l)' => HasExpire(q, l)
      BY <2>1, <2>2 DEF HasEntry, HasExpire
    <2> QED BY <1>3, <2>3, EntryFrame, SameEntries DEF Count, redis, history
  <1>4. ASSUME NEW r \in Requests, Refuse(r) PROVE EntryInv'
    <2>1. \A q \in Requests, l \in Windows :
            /\ HasEntry(q, l)' => HasEntry(q, l)
            /\ HasExpire(q, l)' => HasExpire(q, l)
      BY <1>4, <1>a DEF Refuse, HasEntry, HasExpire
    <2> QED BY <1>4, <2>1, EntryFrame, SameEntries DEF Refuse, redis, history
  <1>5. ASSUME NEW r \in Requests, Record(r) PROVE EntryInv'
    <2>1. window[r] = 1
      BY <1>5 DEF Record, FirstWindow
    <2>2. \A q \in Requests, l \in Windows :
            /\ HasEntry(q, l)' => q # r /\ HasEntry(q, l)
            /\ HasExpire(q, l)' => q # r /\ HasExpire(q, l)
      BY <1>5, <1>a, <2>1 DEF Record, HasEntry, HasExpire
    <2>3. \A q \in Requests \ {r} : stamp'[q] = stamp[q]
      BY <1>5 DEF Record, TypeOK
    <2> QED BY <1>5, <2>2, <2>3, EntryFrame, SameEntries DEF Record, redis, history
  <1>6. ASSUME NEW r \in Requests, Add(r) PROVE EntryInv'
    BY <1>6, AddKeeps
  <1>7. ASSUME NEW r \in Requests, Expire(r) PROVE EntryInv'
    BY <1>7, ExtendKeeps
  <1>8. ASSUME NEW r \in Requests, at' = [at EXCEPT ![r] = "unchecked"],
               UNCHANGED <<now, window, read, stamp>>,
               Effect(r) \/ UNCHANGED <<redis, history>>
        PROVE  EntryInv'
    <2>1. \A q \in Requests, l \in Windows :
            /\ HasEntry(q, l)' => q # r /\ HasEntry(q, l)
            /\ HasExpire(q, l)' => q # r /\ HasExpire(q, l)
      BY <1>8, <1>a DEF HasEntry, HasExpire
    <2>2. /\ window[r] \in Windows /\ Scope(r, window[r]) \in Scopes
          /\ read[r] \in Time /\ read[r] <= now
      BY ScopeType DEF TypeOK, TimesPast
    <2>3. CASE UNCHANGED <<redis, history>>
      BY <1>8, <2>1, <2>3, EntryFrame, SameEntries DEF redis, history
    <2>4. CASE Trimmed(window[r], Scope(r, window[r]), read[r])
      BY <1>8, <2>1, <2>2, <2>4, TrimEffect, TrimKeeps, EntryFrame
    <2>5. CASE Added(window[r], Scope(r, window[r]), r)
      <3>1. /\ \A l \in Windows, u \in Scopes :
                 /\ entries[l][u] \subseteq entries'[l][u]
                 /\ entries'[l][u] \subseteq entries[l][u] \cup {r}
            /\ UNCHANGED <<deadline, unlucky>>
        BY <2>2, <2>5, AddEffect
      <3>2. EntriesKept'
        <4> SUFFICES ASSUME NEW q \in Requests, NEW l \in Windows, HasEntry(q, l)',
                            l \notin unlucky'[q], stamp'[q] > now' - Length[l]
                     PROVE  q \in entries'[l][Scope(q, l)]
          BY DEF EntriesKept, Scope
        <4>1. q \in entries[l][Scope(q, l)] /\ Scope(q, l) \in Scopes
          BY <1>8, <2>1, <3>1, ScopeType DEF EntryInv, EntriesKept
        <4> QED BY <3>1, <4>1
      <3>3. KeysOutlive'
        <4> SUFFICES ASSUME NEW q \in Requests, NEW l \in Windows, HasExpire(q, l)',
                            q \in entries'[l][Scope(q, l)],
                            deadline'[l][Scope(q, l)] # Never
                     PROVE  deadline'[l][Scope(q, l)] >= stamp'[q] + Length[l]
          BY DEF KeysOutlive, Scope
        <4>1. /\ q \in entries[l][Scope(q, l)] /\ Scope(q, l) \in Scopes
              /\ HasExpire(q, l)
          BY <2>1, <3>1, ScopeType
        <4> QED BY <1>8, <3>1, <4>1 DEF EntryInv, KeysOutlive
      <3> QED BY <3>2, <3>3 DEF EntryInv
    <2>6. CASE Extended(window[r], Scope(r, window[r]))
      <3> DEFINE k == window[r]  s == Scope(r, k)
      <3>1. /\ entries[k][s] # {} => deadline'[k][s] = now + Length[k] + Buffer
            /\ \A l \in Windows, u \in Scopes :
                 <<l, u>> # <<k, s>> => deadline'[l][u] = deadline[l][u]
            /\ UNCHANGED <<entries, unlucky>>
        BY <2>2, <2>6, ExtendEffect
      <3>2. EntriesKept'
        <4> SUFFICES ASSUME NEW q \in Requests, NEW l \in Windows, HasEntry(q, l)',
                            l \notin unlucky'[q], stamp'[q] > now' - Length[l]
                     PROVE  q \in entries'[l][Scope(q, l)]
          BY DEF EntriesKept, Scope
        <4> QED BY <1>8, <2>1, <3>1 DEF EntryInv, EntriesKept
      <3> HIDE DEF k, s
      <3>3. KeysOutlive'
        <4> SUFFICES ASSUME NEW q \in Requests, NEW l \in Windows, HasExpire(q, l)',
                            q \in entries'[l][Scope(q, l)],
                            deadline'[l][Scope(q, l)] # Never
                     PROVE  deadline'[l][Scope(q, l)] >= stamp'[q] + Length[l]
          BY DEF KeysOutlive, Scope
        <4>1. /\ Scope(q, l) \in Scopes /\ HasExpire(q, l)
              /\ q \in entries[l][Scope(q, l)]
              /\ stamp[q] <= now /\ stamp[q] \in Nat /\ now \in Nat
              /\ Length[l] \in Nat /\ Buffer \in Nat
          BY <2>1, <3>1, ScopeType, SlidingAssumption DEF TimesPast, TypeOK, Time
        <4>2. CASE l = k /\ Scope(q, l) = s
          BY <1>8, <3>1, <4>1, <4>2
        <4>3. CASE <<l, Scope(q, l)>> # <<k, s>>
          BY <1>8, <3>1, <4>1, <4>3 DEF EntryInv, KeysOutlive
        <4> QED BY <4>2, <4>3
      <3> QED BY <3>2, <3>3 DEF EntryInv
    <2> QED BY <1>8, <2>3, <2>4, <2>5, <2>6 DEF Effect
  <1>9. ASSUME NEW r \in Requests, WorkerDies(r) PROVE EntryInv'
    <2>1. \A q \in Requests, l \in Windows :
            /\ HasEntry(q, l)' => HasEntry(q, l)
            /\ HasExpire(q, l)' => HasExpire(q, l)
      BY <1>9, <1>a DEF WorkerDies, HasEntry, HasExpire
    <2> QED BY <1>9, <2>1, EntryFrame, SameEntries DEF WorkerDies, redis, history
  <1>10. ASSUME NEW k \in PerEndpoint, NEW s \in Endpoints, NEW t \in Time,
                Observe(k, s, t)
         PROVE  EntryInv'
    <2>1. k \in Windows /\ s \in Scopes /\ t <= now /\ Trimmed(k, s, t)
      BY <1>10, SlidingAssumption DEF Scopes, Observe
    <2>2. UNCHANGED <<now, at, window, stamp>>
      BY <1>10 DEF Observe, request
    <2>3. \A q \in Requests, l \in Windows :
            /\ HasEntry(q, l)' => HasEntry(q, l)
            /\ HasExpire(q, l)' => HasExpire(q, l)
      BY <2>2 DEF HasEntry, HasExpire
    <2> QED BY <2>1, <2>2, <2>3, TrimEffect, TrimKeeps, EntryFrame
  <1>11. CASE Tick
    BY <1>11, TickKeeps
  <1>12. CASE UNCHANGED vars
    BY <1>12 DEF vars, request, redis, history, EntryInv, EntriesKept, KeysOutlive,
                 HasEntry, HasExpire, Scope
  <1>13. ASSUME NEW r \in Requests, CommandFails(r) PROVE EntryInv'
    BY <1>8, <1>13 DEF CommandFails
  <1> QED
    BY <1>1, <1>2, <1>3, <1>4, <1>5, <1>6, <1>7, <1>9, <1>10, <1>11, <1>12, <1>13
       DEF Next

------------------------------------------------------------------------------
(* The bound on a window.                                                   *)

LEMMA ClaimsFinite ==
  ASSUME NEW k, NEW s, NEW t
  PROVE  IsFiniteSet(Claims(k, s, t)) /\ Cardinality(Claims(k, s, t)) \in Nat
  <1>1. Claims(k, s, t) \subseteq Requests
    BY DEF Claims
  <1> QED BY <1>1, SlidingAssumption, FS_Subset, FS_CardinalityType

\* Who has a claim while its window has not ended is in the set, or is busy.
LEMMA ClaimsHeld ==
  ASSUME TypeOK, EntryInv, NEW k \in Windows, NEW s \in Limited(k),
         NEW t \in Time, t >= now, NEW r \in Claims(k, s, t)
  PROVE  r \in entries[k][s] \/ (r \in Busy /\ ~(at[r] \in Checking /\ window[r] = k))
  <1>1. /\ r \in Requests /\ Concerns(r, s) /\ InWindow(r, k, t)
        /\ Scope(r, k) = s
    BY SlidingAssumption DEF Claims, Concerns, Limited, Scope
  <1>2. /\ k \in Nat /\ window[r] \in Nat /\ Length[k] \in Nat /\ stamp[r] \in Nat
        /\ now \in Nat /\ t \in Nat
    BY <1>1, SlidingAssumption DEF TypeOK, Windows, Time
  <1>3. CASE HasEntry(r, k)
    <2>1. HasStamp(r) /\ k \notin unlucky[r]
      BY <1>1, <1>3 DEF HasEntry, HasExpire, HasStamp, InWindow
    <2>2. stamp[r] > now - Length[k]
      BY <1>1, <1>2, <2>1 DEF InWindow
    <2> QED BY <1>1, <1>3, <2>1, <2>2 DEF EntryInv, EntriesKept
  <1>4. CASE ~ HasEntry(r, k)
    <2>1. HasPassed(r, k)
      BY <1>1 DEF InWindow
    <2> QED
      BY <1>1, <1>2, <1>4, <2>1 DEF HasPassed, HasEntry, HasExpire, Busy, InWorker,
                                    Checking, Recording
  <1> QED BY <1>3, <1>4

\* A request that passes the check of a window adds at most its own claim.
LEMMA CountBound ==
  ASSUME TypeOK, EntryInv, BusyBound, ClaimBound, NEW r \in Requests, Count(r),
         NEW k \in Windows, NEW s \in Limited(k), NEW t \in Time
  PROVE  Cardinality(Claims(k, s, t)') <= Limit[k][s] + Workers - 1
  <1>0. /\ Workers \in Nat /\ Limit[k][s] \in Nat /\ now \in Nat /\ t \in Nat
        /\ s \in Scopes
    BY SlidingAssumption DEF TypeOK, Time, Limited, Scopes
  <1>1. /\ at[r] = "count" /\ UNCHANGED <<now, stamp, unlucky>>
        /\ \A q \in Requests \ {r} : at'[q] = at[q] /\ window'[q] = window[q]
    <2>1. CASE NextWindow(r, "trim", "record")
      BY <2>1, NextWindowType DEF Count, history, Place, InWorker, Checking, Recording
    <2>2. CASE Goto(r, "oldest") /\ UNCHANGED window
      BY <2>2 DEF Count, history, TypeOK, Goto
    <2> QED BY <2>1, <2>2 DEF Count
  <1>2. \A q \in Requests \ {r}, l \in Windows : InWindow(q, l, t)' = InWindow(q, l, t)
    BY <1>1 DEF InWindow, HasPassed, HasStamp
  <1>3. ASSUME r \in Claims(k, s, t)', r \notin Claims(k, s, t)
        PROVE  /\ t >= now /\ window[r] = k /\ Scope(r, k) = s
               /\ Cardinality(entries[k][s]) < Limit[k][s]
    <2>1. Concerns(r, s) /\ InWindow(r, k, t)' /\ ~ InWindow(r, k, t)
      BY <1>3 DEF Claims, Concerns
    <2>2. CASE Goto(r, "oldest") /\ UNCHANGED window
      <3>1. at'[r] = "oldest"
        BY <2>2 DEF Goto, TypeOK
      <3> QED BY <1>1, <2>1, <2>2, <3>1 DEF InWindow, HasPassed, HasStamp, Checking,
                                            Recording
    <2>3. CASE ~(Entries(r) >= LimitOf(r)) /\ NextWindow(r, "trim", "record")
      <3>1. /\ window[r] = Depth => at'[r] = "record" /\ window'[r] = 1
            /\ window[r] # Depth => at'[r] = "trim" /\ window'[r] = window[r] + 1
        BY <2>3, NextWindowType DEF Place, InWorker, Checking, Recording
      <3>2. ~ HasStamp(r)' /\ ~ HasStamp(r)
        BY <1>1, <3>1 DEF HasStamp
      <3>3. t >= now /\ k \notin unlucky[r]
        BY <1>1, <2>1, <3>2 DEF InWindow
      <3>4. ~ HasPassed(r, k)
        BY <2>1, <3>2, <3>3 DEF InWindow
      <3>5. HasPassed(r, k)'
        BY <2>1 DEF InWindow
      <3>6. window[r] \in Windows /\ Depth \in Nat
        BY SlidingAssumption DEF TypeOK
      <3>7. window[r] = k
        <4>1. ~(window[r] > k)
          BY <1>1, <3>4 DEF HasPassed, Checking
        <4>2. CASE window[r] = Depth
          BY <3>6, <4>1, <4>2 DEF Windows
        <4>3. CASE window[r] # Depth
          <5>1. window'[r] > k
            BY <3>1, <3>5, <4>3 DEF HasPassed, Recording
          <5> QED BY <3>1, <3>6, <4>1, <4>3, <5>1 DEF Windows
        <4> QED BY <4>2, <4>3
      <3>8. Scope(r, k) = s
        BY <2>1, SlidingAssumption DEF Concerns, Limited, Scope
      <3>9. ~(Cardinality(entries[k][s]) >= Limit[k][s])
        BY <2>3, <3>7, <3>8 DEF Entries, LimitOf
      <3>10. Cardinality(entries[k][s]) \in Nat
        <4>1. entries[k][s] \subseteq Requests
          BY <1>0 DEF TypeOK
        <4> QED BY <4>1, SlidingAssumption, FS_Subset, FS_CardinalityType
      <3> QED BY <1>0, <3>3, <3>7, <3>8, <3>9, <3>10
    <2> QED BY <2>2, <2>3 DEF Count
  <1>4. Claims(k, s, t)' \subseteq Claims(k, s, t) \cup {r}
    BY <1>2 DEF Claims, Concerns
  <1>5. CASE ~(r \in Claims(k, s, t)' /\ r \notin Claims(k, s, t))
    <2>1. Claims(k, s, t)' \subseteq Claims(k, s, t)
      BY <1>4, <1>5
    <2>2. Cardinality(Claims(k, s, t)') <= Cardinality(Claims(k, s, t))
      BY <2>1, ClaimsFinite, FS_Subset
    <2>3. Cardinality(Claims(k, s, t)) <= Limit[k][s] + Workers - 1
      BY DEF ClaimBound
    <2>4. Cardinality(Claims(k, s, t)') \in Nat
      BY <2>1, ClaimsFinite, FS_Subset, FS_CardinalityType
    <2> QED BY <1>0, <2>2, <2>3, <2>4, ClaimsFinite
  <1>6. CASE r \in Claims(k, s, t)' /\ r \notin Claims(k, s, t)
    <2>1. /\ t >= now /\ window[r] = k
          /\ Cardinality(entries[k][s]) < Limit[k][s]
      BY <1>3, <1>6
    <2>2. r \in Busy
      BY <1>1 DEF Busy, InWorker, Checking
    <2>3. Claims(k, s, t)' \subseteq entries[k][s] \cup Busy
      <3>1. \A q \in Claims(k, s, t) : q \in entries[k][s] \/ q \in Busy
        BY <2>1, ClaimsHeld
      <3> QED BY <1>4, <2>2, <3>1
    <2>4. /\ IsFiniteSet(entries[k][s]) /\ IsFiniteSet(Busy)
          /\ Cardinality(entries[k][s]) \in Nat /\ Cardinality(Busy) \in Nat
      <3>1. entries[k][s] \subseteq Requests
        BY <1>0 DEF TypeOK
      <3> QED BY <3>1, BusyFinite, SlidingAssumption, FS_Subset, FS_CardinalityType
    <2>5. /\ IsFiniteSet(entries[k][s] \cup Busy)
          /\ Cardinality(entries[k][s] \cup Busy)
               <= Cardinality(entries[k][s]) + Cardinality(Busy)
      <3>1. /\ IsFiniteSet(entries[k][s] \cup Busy)
            /\ Cardinality(entries[k][s] \cup Busy) =
                 Cardinality(entries[k][s]) + Cardinality(Busy)
                   - Cardinality(entries[k][s] \cap Busy)
        BY <2>4, FS_Union
      <3>2. Cardinality(entries[k][s] \cap Busy) \in Nat
        BY <2>4, FS_Intersection, FS_CardinalityType
      <3> QED BY <2>4, <3>1, <3>2
    <2>6. /\ Cardinality(Claims(k, s, t)') <= Cardinality(entries[k][s] \cup Busy)
          /\ Cardinality(Claims(k, s, t)') \in Nat
          /\ Cardinality(entries[k][s] \cup Busy) \in Nat
      BY <2>3, <2>5, FS_Subset, FS_CardinalityType
    <2> QED BY <1>0, <2>1, <2>4, <2>5, <2>6 DEF BusyBound
  <1> QED BY <1>5, <1>6

\* No other step adds a claim.
LEMMA ClaimsShrink ==
  ASSUME TypeOK, FirstWindow, [Next]_vars, \A r \in Requests : ~ Count(r),
         NEW q \in Requests, NEW k \in Windows, NEW t \in Time, InWindow(q, k, t)'
  PROVE  InWindow(q, k, t)
  <1> USE DEF Goto
  <1>0. /\ window \in [Requests -> Windows] /\ at \in [Requests -> Place]
        /\ k \in Nat /\ k >= 1 /\ t \in Nat /\ now \in Nat
        /\ \A r \in Requests : stamp[r] \in Nat /\ window[r] \in Nat
        /\ Length[k] \in Nat
    BY SlidingAssumption DEF TypeOK, Windows, Time
  <1> USE DEF InWindow, HasPassed, HasStamp, Checking, Recording
  <1>1. ASSUME NEW r \in Requests, Enter(r) PROVE InWindow(q, k, t)
    <2>1. window[r] = 1
      BY <1>1 DEF Enter, FirstWindow
    <2> QED BY <1>0, <1>1, <2>1 DEF Enter, history
  <1>2. ASSUME NEW r \in Requests, Trim(r) PROVE InWindow(q, k, t)
    BY <1>0, <1>2 DEF Trim, Trimmed, history
  <1>3. ASSUME NEW r \in Requests, Refuse(r) PROVE InWindow(q, k, t)
    BY <1>0, <1>3 DEF Refuse, history
  <1>4. ASSUME NEW r \in Requests, Record(r) PROVE InWindow(q, k, t)
    <2>1. CASE q = r
      BY <1>0, <1>4, <2>1 DEF Record, history, TypeOK
    <2>2. CASE q # r
      BY <1>0, <1>4, <2>2 DEF Record, history, TypeOK
    <2> QED BY <2>1, <2>2
  <1>5. ASSUME NEW r \in Requests, Add(r) PROVE InWindow(q, k, t)
    BY <1>0, <1>5 DEF Add, Added
  <1>6. ASSUME NEW r \in Requests, Expire(r) PROVE InWindow(q, k, t)
    <2>1. /\ at[r] = "expire" /\ at'[r] \in {"add", "admitted"}
          /\ UNCHANGED <<now, stamp, unlucky>>
          /\ \A p \in Requests \ {r} : at'[p] = at[p] /\ window'[p] = window[p]
      BY <1>0, <1>6 DEF Expire, Extended, NextWindow, history
    <2> QED BY <1>0, <2>1
  <1>7. ASSUME NEW r \in Requests, CommandFails(r) PROVE InWindow(q, k, t)
    <2>1. UNCHANGED <<now, window, stamp, unlucky>> /\ at' = [at EXCEPT ![r] = "unchecked"]
      BY <1>7 DEF CommandFails, Effect, Trimmed, Added, Extended, history
    <2> QED BY <1>0, <2>1
  <1>8. ASSUME NEW r \in Requests, WorkerDies(r) PROVE InWindow(q, k, t)
    BY <1>0, <1>8 DEF WorkerDies, history
  <1>9. ASSUME NEW l \in PerEndpoint, NEW s \in Endpoints, NEW u \in Time,
               Observe(l, s, u)
        PROVE  InWindow(q, k, t)
    BY <1>9 DEF Observe, Trimmed, request, history
  <1>10. CASE Tick
    <2>1. UNCHANGED <<at, window, stamp>> /\ now' = now + 1
      BY <1>10 DEF Tick, request
    <2>2. unlucky[q] \subseteq unlucky'[q]
      BY <1>10 DEF Tick, TypeOK
    <2> QED BY <1>0, <2>1, <2>2
  <1>11. CASE UNCHANGED vars
    BY <1>11 DEF vars, request, history
  <1> QED
    BY <1>1, <1>2, <1>3, <1>4, <1>5, <1>6, <1>7, <1>8, <1>9, <1>10, <1>11 DEF Next

LEMMA ClaimStep ==
  ASSUME TypeOK, FirstWindow, EntryInv, BusyBound, ClaimBound, [Next]_vars
  PROVE  ClaimBound'
  <1> SUFFICES ASSUME NEW k \in Windows, NEW t \in Time, NEW s \in Limited(k)
               PROVE  Cardinality(Claims(k, s, t)') <= Limit[k][s] + Workers - 1
    BY DEF ClaimBound, Limited, Claims
  <1>1. CASE \E r \in Requests : Count(r)
    BY <1>1, CountBound
  <1>2. CASE \A r \in Requests : ~ Count(r)
    <2>1. Claims(k, s, t)' \subseteq Claims(k, s, t)
      BY <1>2, ClaimsShrink DEF Claims, Concerns
    <2>2. /\ Cardinality(Claims(k, s, t)') <= Cardinality(Claims(k, s, t))
          /\ Cardinality(Claims(k, s, t)') \in Nat
      BY <2>1, ClaimsFinite, FS_Subset, FS_CardinalityType
    <2>3. Cardinality(Claims(k, s, t)) <= Limit[k][s] + Workers - 1
      BY DEF ClaimBound
    <2>4. Limit[k][s] \in Nat /\ Workers \in Nat
      BY SlidingAssumption DEF Limited, Scopes
    <2> QED BY <2>2, <2>3, <2>4, ClaimsFinite
  <1> QED BY <1>1, <1>2

------------------------------------------------------------------------------
(* The theorem.                                                             *)

LEMMA SlidingInit == Init => SlidingInv
  <1> SUFFICES ASSUME Init PROVE SlidingInv
    OBVIOUS
  <1>1. TypeOK
    BY TypeInit
  <1>2. TimesPast /\ FirstWindow
    BY DEF Init, TimesPast, FirstWindow
  <1>3. BusyBound
    <2>1. Busy = {}
      BY DEF Init, Busy, InWorker, Checking, Recording
    <2> QED BY <2>1, FS_EmptySet, SlidingAssumption DEF BusyBound
  <1>4. EntriesKept /\ KeysOutlive
    BY DEF Init, EntriesKept, KeysOutlive, HasEntry, HasExpire
  <1>5. ClaimBound
    <2> SUFFICES ASSUME NEW k \in Windows, NEW t \in Time, NEW s \in Limited(k)
                 PROVE  Cardinality(Claims(k, s, t)) <= Limit[k][s] + Workers - 1
      BY DEF ClaimBound
    <2>1. Claims(k, s, t) = {}
      BY DEF Init, Claims, InWindow, HasPassed, Checking, Recording
    <2>2. Limit[k][s] \in Nat /\ Workers \in Nat \ {0}
      BY SlidingAssumption DEF Limited, Scopes
    <2> QED BY <2>1, <2>2, FS_EmptySet
  <1> QED BY <1>1, <1>2, <1>3, <1>4, <1>5 DEF SlidingInv

LEMMA SlidingStep == SlidingInv /\ [Next]_vars => SlidingInv'
  <1> SUFFICES ASSUME SlidingInv, [Next]_vars PROVE SlidingInv'
    OBVIOUS
  <1>1. TypeOK /\ TimesPast /\ FirstWindow /\ BusyBound /\ EntryInv /\ ClaimBound
    BY DEF SlidingInv, EntryInv
  <1>2. TypeOK'
    BY <1>1, TypeStep
  <1>3. TimesPast' /\ FirstWindow' /\ BusyBound'
    BY <1>1, TimesStep, BusyStep
  <1>4. EntryInv' /\ ClaimBound'
    BY <1>1, <1>2, EntryStep, ClaimStep
  <1> QED BY <1>2, <1>3, <1>4 DEF SlidingInv, EntryInv

LEMMA ClaimsCoverAdmitted == SlidingInv => WindowBound
  <1> SUFFICES ASSUME SlidingInv, NEW k \in Windows, NEW t \in Time,
                      NEW s \in Limited(k)
               PROVE  Cardinality(AdmittedIn(k, s, t)) <= Limit[k][s] + Workers - 1
    BY DEF WindowBound
  <1>1. AdmittedIn(k, s, t) \subseteq Claims(k, s, t)
    <2> SUFFICES ASSUME NEW r \in AdmittedIn(k, s, t) PROVE r \in Claims(k, s, t)
      OBVIOUS
    <2>1. /\ r \in Requests /\ at[r] = "admitted" /\ Concerns(r, s)
          /\ stamp[r] \in (t - Length[k] + 1)..t /\ k \notin unlucky[r]
      BY DEF AdmittedIn
    <2>2. t \in Nat /\ Length[k] \in Nat /\ stamp[r] \in Nat
      BY <2>1, SlidingAssumption DEF SlidingInv, TypeOK, Time
    <2> QED BY <2>1, <2>2 DEF Claims, InWindow, HasPassed, HasStamp
  <1>2. /\ Cardinality(AdmittedIn(k, s, t)) <= Cardinality(Claims(k, s, t))
        /\ Cardinality(AdmittedIn(k, s, t)) \in Nat
    BY <1>1, ClaimsFinite, FS_Subset, FS_CardinalityType
  <1>3. Cardinality(Claims(k, s, t)) <= Limit[k][s] + Workers - 1
    BY DEF SlidingInv, ClaimBound
  <1>4. Limit[k][s] \in Nat /\ Workers \in Nat
    BY SlidingAssumption DEF Limited, Scopes
  <1> QED BY <1>2, <1>3, <1>4, ClaimsFinite

\* No window admits more requests than its limit and one for each further
\* worker process, whatever the interleaving, the faults and the delays.
THEOREM WindowsBounded == Spec => []WindowBound
  <1>1. Spec => []SlidingInv
    BY SlidingInit, SlidingStep, PTL DEF Spec
  <1> QED BY <1>1, ClaimsCoverAdmitted, PTL

------------------------------------------------------------------------------
(* Why a refusal has a reason.                                              *)

\* What is in a set was added to it.
EntriesAdded ==
    \A k \in Windows, s \in Scopes : \A q \in entries[k][s] :
        k \in added[q] /\ Scope(q, k) = s

\* A request is added to no set before it has read its time, nor when refused.
AddedStamped ==
    \A r \in Requests : at[r] \in Checking \cup {"new", "record", "refused"} => added[r] = {}

\* What a request finds in a set is in its window, or was added since its check
\* removed the rest, or came too late.
RecentOrLate(r, q) ==
    stamp[q] > read[r] - Length[window[r]] \/ window[r] \in late[q]

FindsRecent ==
    \A r \in Requests : at[r] \in {"count", "oldest"} =>
        \A q \in entries[window[r]][Scope(r, window[r])] : RecentOrLate(r, q)

Recorded(r) ==
    RecordedSince(window[r], Scope(r, window[r]), read[r] - Length[window[r]])

LimitReached ==
    \A r \in Requests : at[r] \in {"oldest", "refused"} =>
        Cardinality(Recorded(r)) >= LimitOf(r)

ToldToWait ==
    \A r \in Requests : at[r] = "refused" =>
        \/ retry[r] > 0
        \/ \E q \in Requests : Scope(q, window[r]) = Scope(r, window[r])
                               /\ window[r] \in late[q]

RefusalInv ==
    /\ TypeOK /\ TimesPast /\ FirstWindow
    /\ EntriesAdded /\ AddedStamped /\ FindsRecent /\ LimitReached /\ ToldToWait

\* What a step does to the sets and to the record of what was added: entries are
\* removed, or one is added, that is in its window or late; nothing is forgotten,
\* and the time of what was added stays.
OnlyAdds ==
    /\ \A k \in Windows, s \in Scopes : \A q \in entries'[k][s] :
         \/ q \in entries[k][s]
         \/ /\ k \in added'[q] /\ Scope(q, k) = s
            /\ stamp'[q] > now - Length[k] \/ k \in late'[q]
    /\ \A q \in Requests :
         /\ added[q] \subseteq added'[q] /\ late[q] \subseteq late'[q]
         /\ added[q] # {} => stamp'[q] = stamp[q]

LEMMA TrimOnlyAdds ==
  ASSUME TypeOK, NEW k \in Windows, NEW s \in Scopes, NEW t, Trimmed(k, s, t),
         UNCHANGED stamp
  PROVE  OnlyAdds
  BY TrimEffect DEF OnlyAdds

LEMMA AddOnlyAdds ==
  ASSUME TypeOK, NEW k \in Windows, NEW r \in Requests, Added(k, Scope(r, k), r),
         UNCHANGED stamp
  PROVE  OnlyAdds
  <1>1. Scope(r, k) \in Scopes
    BY ScopeType
  <1>2. \A l \in Windows, u \in Scopes :
          /\ entries'[l][u] \subseteq entries[l][u] \cup {r}
          /\ <<l, u>> # <<k, Scope(r, k)>> => entries'[l][u] = entries[l][u]
    BY <1>1, AddEffect
  <1>3. /\ added' = [added EXCEPT ![r] = added[r] \cup {k}]
        /\ late' = [late EXCEPT ![r] = IF stamp[r] > now - Length[k]
                                       THEN late[r] ELSE late[r] \cup {k}]
    BY DEF Added
  <1>4. k \in added'[r] /\ (stamp'[r] > now - Length[k] \/ k \in late'[r])
    BY <1>3 DEF TypeOK
  <1>5. \A q \in Requests : added[q] \subseteq added'[q] /\ late[q] \subseteq late'[q]
    BY <1>3 DEF TypeOK
  <1>6. ASSUME NEW l \in Windows, NEW u \in Scopes, NEW q \in entries'[l][u],
               q \notin entries[l][u]
        PROVE  q = r /\ l = k /\ u = Scope(r, k)
    BY <1>2, <1>6
  <1> QED BY <1>4, <1>5, <1>6 DEF OnlyAdds

LEMMA StepOnlyAdds ==
  ASSUME TypeOK, AddedStamped, [Next]_vars
  PROVE  OnlyAdds
  <1>1. ASSUME UNCHANGED <<entries, added, late, stamp>> PROVE OnlyAdds
    BY <1>1 DEF OnlyAdds
  <1>2. ASSUME NEW r \in Requests PROVE window[r] \in Windows /\ Scope(r, window[r]) \in Scopes
    BY ScopeType DEF TypeOK
  <1>3. ASSUME NEW r \in Requests, Enter(r) \/ Count(r) \/ Refuse(r) \/ WorkerDies(r)
        PROVE  OnlyAdds
    BY <1>1, <1>3 DEF Enter, Count, Refuse, WorkerDies, redis, history
  <1>4. ASSUME NEW r \in Requests, Trim(r) PROVE OnlyAdds
    BY <1>2, <1>4, TrimOnlyAdds DEF Trim
  <1>5. ASSUME NEW r \in Requests, Record(r) PROVE OnlyAdds
    <2>1. added[r] = {} /\ \A q \in Requests \ {r} : stamp'[q] = stamp[q]
      BY <1>5 DEF Record, AddedStamped, TypeOK
    <2> QED BY <1>5, <2>1 DEF OnlyAdds, Record, redis, history
  <1>6. ASSUME NEW r \in Requests, Add(r) PROVE OnlyAdds
    BY <1>2, <1>6, AddOnlyAdds DEF Add
  <1>7. ASSUME NEW r \in Requests, Expire(r) PROVE OnlyAdds
    BY <1>1, <1>7 DEF Expire, Extended, history
  <1>8. ASSUME NEW r \in Requests, CommandFails(r) PROVE OnlyAdds
    <2>1. UNCHANGED stamp
      BY <1>8 DEF CommandFails
    <2>2. CASE UNCHANGED <<redis, history>>
      BY <1>1, <2>1, <2>2 DEF redis, history
    <2>3. CASE Trimmed(window[r], Scope(r, window[r]), read[r])
      BY <1>2, <2>1, <2>3, TrimOnlyAdds
    <2>4. CASE Added(window[r], Scope(r, window[r]), r)
      BY <1>2, <2>1, <2>4, AddOnlyAdds
    <2>5. CASE Extended(window[r], Scope(r, window[r]))
      BY <1>1, <2>1, <2>5 DEF Extended, history
    <2> QED BY <1>8, <2>2, <2>3, <2>4, <2>5 DEF CommandFails, Effect
  <1>9. ASSUME NEW k \in PerEndpoint, NEW s \in Endpoints, NEW t \in Time,
               Observe(k, s, t)
        PROVE  OnlyAdds
    <2>1. k \in Windows /\ s \in Scopes
      BY SlidingAssumption DEF Scopes
    <2> QED BY <1>9, <2>1, TrimOnlyAdds DEF Observe, request
  <1>10. CASE Tick
    <2>1. \A k \in Windows, s \in Scopes : entries'[k][s] \subseteq entries[k][s]
      BY <1>10 DEF Tick, TypeOK
    <2> QED BY <1>10, <2>1 DEF OnlyAdds, Tick, request
  <1>11. CASE UNCHANGED vars
    BY <1>1, <1>11 DEF vars, request, redis, history
  <1> QED BY <1>3, <1>4, <1>5, <1>6, <1>7, <1>8, <1>9, <1>10, <1>11 DEF Next

\* How a request comes to count, to look for the oldest entry, to be refused.
LEMMA PlaceChange ==
  ASSUME TypeOK, [Next]_vars, NEW r \in Requests, at'[r] \in {"count", "oldest", "refused"}
  PROVE  \/ UNCHANGED <<at[r], window[r], read[r], retry[r]>>
         \/ Trim(r) /\ at'[r] = "count"
         \/ Count(r) /\ at'[r] = "oldest" /\ Entries(r) >= LimitOf(r)
         \/ Refuse(r) /\ at'[r] = "refused"
  <1> USE DEF Goto, TypeOK
  <1>1. ASSUME NEW q \in Requests, q # r,
               \/ Enter(q) \/ Trim(q) \/ Count(q) \/ Refuse(q) \/ Record(q) \/ Add(q)
               \/ Expire(q) \/ CommandFails(q) \/ WorkerDies(q)
        PROVE  UNCHANGED <<at[r], window[r], read[r], retry[r]>>
    BY <1>1 DEF Enter, Trim, Count, Refuse, Record, Add, Expire, CommandFails, WorkerDies,
                NextWindow
  <1>2. CASE Enter(r) \/ Record(r) \/ Add(r) \/ CommandFails(r) \/ WorkerDies(r)
    BY <1>2 DEF Enter, Record, Add, CommandFails, WorkerDies
  <1>3. CASE Expire(r)
    BY <1>3 DEF Expire, NextWindow
  <1>4. CASE Trim(r)
    BY <1>4 DEF Trim
  <1>5. CASE Count(r)
    <2>1. CASE Entries(r) >= LimitOf(r)
      BY <1>5, <2>1 DEF Count
    <2>2. CASE ~(Entries(r) >= LimitOf(r))
      BY <1>5, <2>2 DEF Count, NextWindow
    <2> QED BY <2>1, <2>2
  <1>6. CASE Refuse(r)
    BY <1>6 DEF Refuse
  <1>7. CASE \/ \E k \in PerEndpoint, s \in Endpoints, t \in Time : Observe(k, s, t)
             \/ Tick \/ UNCHANGED vars
    BY <1>7 DEF Observe, Tick, vars, request
  <1> QED BY <1>1, <1>2, <1>3, <1>4, <1>5, <1>6, <1>7 DEF Next

\* What was recorded remains so.
LEMMA RecordedGrows ==
  ASSUME TypeOK, OnlyAdds, NEW k \in Windows, NEW s, NEW t
  PROVE  /\ RecordedSince(k, s, t) \subseteq RecordedSince(k, s, t)'
         /\ IsFiniteSet(RecordedSince(k, s, t)) /\ IsFiniteSet(RecordedSince(k, s, t)')
         /\ Cardinality(RecordedSince(k, s, t)) <= Cardinality(RecordedSince(k, s, t)')
         /\ Cardinality(RecordedSince(k, s, t)) \in Nat
         /\ Cardinality(RecordedSince(k, s, t)') \in Nat
  <1>1. /\ RecordedSince(k, s, t) \subseteq Requests
        /\ RecordedSince(k, s, t)' \subseteq Requests
    BY DEF RecordedSince
  <1>2. RecordedSince(k, s, t) \subseteq RecordedSince(k, s, t)'
    <2> SUFFICES ASSUME NEW q \in RecordedSince(k, s, t) PROVE q \in RecordedSince(k, s, t)'
      OBVIOUS
    <2>1. /\ q \in Requests /\ k \in added[q] /\ Scope(q, k) = s
          /\ stamp[q] > t \/ k \in late[q]
      BY DEF RecordedSince
    <2>2. /\ k \in added'[q] /\ stamp'[q] = stamp[q]
          /\ k \in late[q] => k \in late'[q]
      BY <2>1 DEF OnlyAdds
    <2> QED BY <2>1, <2>2 DEF RecordedSince, Scope
  <1> QED BY <1>1, <1>2, SlidingAssumption, FS_Subset, FS_CardinalityType

LEMMA AddedStep ==
  ASSUME TypeOK, AddedStamped, [Next]_vars
  PROVE  AddedStamped'
  <1> USE DEF Goto, TypeOK, AddedStamped, Checking
  <1>1. ASSUME NEW r \in Requests, Add(r) PROVE AddedStamped'
    <2>1. at' = [at EXCEPT ![r] = "expire"] /\ \A q \in Requests \ {r} : added'[q] = added[q]
      BY <1>1 DEF Add, Added
    <2> QED BY <2>1
  <1>2. ASSUME NEW r \in Requests, CommandFails(r) PROVE AddedStamped'
    <2>1. at' = [at EXCEPT ![r] = "unchecked"] /\ \A q \in Requests \ {r} : added'[q] = added[q]
      BY <1>2 DEF CommandFails, Effect, Trimmed, Added, Extended, history
    <2> QED BY <2>1
  <1>3. ASSUME NEW r \in Requests,
               \/ Enter(r) \/ Trim(r) \/ Refuse(r) \/ Record(r) \/ WorkerDies(r)
        PROVE  AddedStamped'
    BY <1>3 DEF Enter, Trim, Trimmed, Refuse, Record, WorkerDies, history
  <1>4. ASSUME NEW r \in Requests, Count(r) PROVE AddedStamped'
    BY <1>4 DEF Count, NextWindow, history
  <1>5. ASSUME NEW r \in Requests, Expire(r) PROVE AddedStamped'
    BY <1>5 DEF Expire, Extended, NextWindow, history
  <1>6. CASE \/ \E k \in PerEndpoint, s \in Endpoints, t \in Time : Observe(k, s, t)
             \/ Tick \/ UNCHANGED vars
    BY <1>6 DEF Observe, Trimmed, Tick, vars, request, history
  <1> QED BY <1>1, <1>2, <1>3, <1>4, <1>5, <1>6 DEF Next

\* The time to wait is positive, unless an entry came too late.
LEMMA WaitPositive ==
  ASSUME TypeOK, EntriesAdded, FindsRecent, NEW r \in Requests, Refuse(r)
  PROVE  \/ retry'[r] > 0
         \/ \E q \in Requests : Scope(q, window[r]) = Scope(r, window[r])
                                /\ window[r] \in late[q]
  <1> DEFINE k == window[r]
             s == Scope(r, k)
             stamps == {stamp[q] : q \in entries[k][s]}
  <1>1. /\ k \in Windows /\ s \in Scopes /\ entries[k][s] \subseteq Requests
        /\ retry'[r] = ResetAt(r) - read[r]
    BY ScopeType DEF TypeOK, Refuse
  <1>2. /\ Length[k] \in Nat /\ Length[k] > 0 /\ read[r] \in Nat /\ stamps \subseteq Nat
    BY <1>1, SlidingAssumption DEF TypeOK, Time
  <1>3. CASE stamps = {}
    <2>1. ResetAt(r) = read[r] + Length[k]
      BY <1>3 DEF ResetAt
    <2> QED BY <1>1, <1>2, <2>1
  <1>4. CASE stamps # {}
    <2> DEFINE first == CHOOSE t \in stamps : \A u \in stamps : t <= u
    <2>1. ResetAt(r) = first + Length[k]
      BY <1>4 DEF ResetAt
    <2>2. first \in stamps
      <3> HIDE DEF stamps, k
      <3> QED BY <1>2, <1>4, MinExists
    <2> HIDE DEF first
    <2>3. PICK q \in entries[k][s] : first = stamp[q]
      BY <2>2
    <2>4. RecentOrLate(r, q) /\ q \in Requests /\ Scope(q, k) = s
      BY <1>1, <2>3 DEF FindsRecent, EntriesAdded, Refuse
    <2>5. CASE stamp[q] > read[r] - Length[k]
      <3>1. stamp[q] \in Nat
        BY <2>4 DEF TypeOK, Time
      <3> HIDE DEF k
      <3>2. first + Length[k] - read[r] > 0
        BY <1>2, <2>3, <2>5, <3>1
      <3> QED BY <1>1, <1>2, <2>1, <2>3, <3>1, <3>2
    <2> QED BY <2>4, <2>5 DEF RecentOrLate
  <1> QED BY <1>3, <1>4

\* The limit is reached by requests recorded in the window, or since.
LEMMA CountsRecorded ==
  ASSUME TypeOK, EntriesAdded, FindsRecent, NEW r \in Requests, Count(r),
         Entries(r) >= LimitOf(r)
  PROVE  Cardinality(Recorded(r)) >= LimitOf(r)
  <1> DEFINE k == window[r]
             s == Scope(r, k)
  <1>1. /\ k \in Windows /\ s \in Scopes /\ entries[k][s] \subseteq Requests
        /\ LimitOf(r) \in Nat
    BY ScopeType, SlidingAssumption DEF TypeOK, LimitOf
  <1>2. entries[k][s] \subseteq Recorded(r)
    <2> SUFFICES ASSUME NEW q \in entries[k][s] PROVE q \in Recorded(r)
      OBVIOUS
    <2>1. RecentOrLate(r, q) /\ q \in Requests /\ Scope(q, k) = s /\ k \in added[q]
      BY <1>1 DEF FindsRecent, EntriesAdded, Count
    <2> QED BY <2>1 DEF Recorded, RecordedSince, RecentOrLate
  <1>3. Recorded(r) \subseteq Requests
    BY DEF Recorded, RecordedSince
  <1>4. /\ Cardinality(entries[k][s]) <= Cardinality(Recorded(r))
        /\ Cardinality(entries[k][s]) \in Nat /\ Cardinality(Recorded(r)) \in Nat
    BY <1>1, <1>2, <1>3, SlidingAssumption, FS_Subset, FS_CardinalityType
  <1> QED BY <1>1, <1>4 DEF Entries

LEMMA RefusalStep ==
  ASSUME RefusalInv, [Next]_vars
  PROVE  RefusalInv'
  <1>1. /\ TypeOK /\ TimesPast /\ FirstWindow /\ EntriesAdded /\ AddedStamped
        /\ FindsRecent /\ LimitReached /\ ToldToWait
    BY DEF RefusalInv
  <1>2. TypeOK' /\ TimesPast' /\ FirstWindow' /\ AddedStamped' /\ OnlyAdds
    BY <1>1, TypeStep, TimesStep, AddedStep, StepOnlyAdds
  <1>3. EntriesAdded'
    <2> SUFFICES ASSUME NEW k \in Windows, NEW s \in Scopes, NEW q \in entries'[k][s]
                 PROVE  k \in added'[q] /\ Scope(q, k) = s
      BY DEF EntriesAdded, Scope
    <2>1. q \in Requests
      BY <1>2 DEF TypeOK
    <2> QED BY <1>1, <1>2, <2>1 DEF OnlyAdds, EntriesAdded
  <1>4. ASSUME NEW r \in Requests PROVE window[r] \in Windows /\ Scope(r, window[r]) \in Scopes
    BY <1>1, ScopeType DEF TypeOK
  <1>5. FindsRecent'
    <2> SUFFICES ASSUME NEW r \in Requests, at'[r] \in {"count", "oldest"},
                        NEW k \in Windows, k = window'[r],
                        NEW q \in entries'[k][Scope(r, k)]
                 PROVE  stamp'[q] > read'[r] - Length[k] \/ k \in late'[q]
      BY <1>2 DEF FindsRecent, RecentOrLate, Scope, TypeOK
    <2>0. q \in Requests /\ Scope(r, k) \in Scopes
      BY <1>2, ScopeType DEF TypeOK
    <2>1. CASE at[r] \in {"count", "oldest"} /\ window[r] = k /\ read'[r] = read[r]
      <3>1. CASE q \in entries[k][Scope(r, k)]
        <4>1. stamp[q] > read[r] - Length[k] \/ k \in late[q]
          BY <1>1, <2>1, <3>1 DEF FindsRecent, RecentOrLate
        <4>2. stamp'[q] = stamp[q] /\ late[q] \subseteq late'[q]
          BY <1>1, <1>2, <2>0, <3>1 DEF OnlyAdds, EntriesAdded
        <4> QED BY <2>1, <4>1, <4>2
      <3>2. CASE q \notin entries[k][Scope(r, k)]
        <4>1. stamp'[q] > now - Length[k] \/ k \in late'[q]
          BY <1>2, <2>0, <3>2 DEF OnlyAdds
        <4>2. /\ read[r] <= now /\ read[r] \in Nat /\ now \in Nat /\ Length[k] \in Nat
              /\ stamp'[q] \in Nat
          BY <1>1, <1>2, <2>0, SlidingAssumption DEF TimesPast, TypeOK, Time
        <4> QED BY <2>1, <4>1, <4>2
      <3> QED BY <3>1, <3>2
    <2>2. CASE Trim(r)
      <3>1. /\ window[r] = k /\ read'[r] = read[r] /\ stamp' = stamp
            /\ Trimmed(k, Scope(r, k), read[r])
        BY <2>2 DEF Trim
      <3>2. q \in Recent(k, Scope(r, k), read[r])
        BY <1>1, <2>0, <3>1, TrimEffect
      <3> QED BY <3>1, <3>2 DEF Recent
    <2>3. CASE Count(r) /\ at'[r] = "oldest"
      <3>1. at[r] = "count" /\ read' = read /\ window'[r] = window[r]
        BY <1>1, <2>3 DEF Count, NextWindow, Goto, TypeOK
      <3> QED BY <2>1, <3>1
    <2> QED BY <1>1, <2>1, <2>2, <2>3, PlaceChange
  <1>6. ASSUME NEW r \in Requests, NEW k \in Windows, k = window[r],
               Cardinality(Recorded(r)) >= LimitOf(r),
               UNCHANGED <<window[r], read[r]>>
        PROVE  Cardinality(Recorded(r)') >= LimitOf(r)'
    <2>0. PICK t, s : t = read[r] - Length[k] /\ s = Scope(r, k)
      OBVIOUS
    <2>1. /\ Recorded(r) = RecordedSince(k, s, t) /\ Recorded(r)' = RecordedSince(k, s, t)'
          /\ LimitOf(r)' = LimitOf(r)
      BY <1>6, <2>0 DEF Recorded, LimitOf, Scope
    <2>2. /\ Cardinality(RecordedSince(k, s, t)) <= Cardinality(RecordedSince(k, s, t)')
          /\ Cardinality(RecordedSince(k, s, t)) \in Nat
          /\ Cardinality(RecordedSince(k, s, t)') \in Nat
      BY <1>1, <1>2, RecordedGrows
    <2>3. LimitOf(r) \in Nat
      BY <1>4, SlidingAssumption DEF LimitOf
    <2> QED BY <1>6, <2>1, <2>2, <2>3
  <1>7. LimitReached'
    <2> SUFFICES ASSUME NEW r \in Requests, at'[r] \in {"oldest", "refused"}
                 PROVE  Cardinality(Recorded(r)') >= LimitOf(r)'
      BY DEF LimitReached
    <2>1. /\ Cardinality(Recorded(r)) >= LimitOf(r)
          /\ UNCHANGED <<window[r], read[r]>>
      <3>1. CASE UNCHANGED <<at[r], window[r], read[r]>>
        BY <1>1, <3>1 DEF LimitReached
      <3>2. CASE Count(r) /\ at'[r] = "oldest" /\ Entries(r) >= LimitOf(r)
        BY <1>1, <3>2, CountsRecorded DEF Count
      <3>3. CASE Refuse(r)
        BY <1>1, <3>3 DEF LimitReached, Refuse
      <3> QED BY <1>1, <3>1, <3>2, <3>3, PlaceChange
    <2> QED BY <1>4, <1>6, <2>1
  <1>8. ToldToWait'
    <2> SUFFICES ASSUME NEW r \in Requests, at'[r] = "refused",
                        NEW k \in Windows, k = window'[r]
                 PROVE  \/ retry'[r] > 0
                        \/ \E q \in Requests : Scope(q, k) = Scope(r, k) /\ k \in late'[q]
      BY <1>2 DEF ToldToWait, Scope, TypeOK
    <2>1. /\ window[r] = k
          /\ \/ retry'[r] > 0
             \/ \E q \in Requests : Scope(q, k) = Scope(r, k) /\ k \in late[q]
      <3>1. CASE UNCHANGED <<at[r], window[r], retry[r]>>
        BY <1>1, <3>1 DEF ToldToWait
      <3>2. CASE Refuse(r)
        <4>1. window[r] = k
          BY <3>2 DEF Refuse
        <4> QED BY <1>1, <3>2, <4>1, WaitPositive
      <3> QED BY <1>1, <3>1, <3>2, PlaceChange
    <2> QED BY <1>2, <2>1 DEF OnlyAdds
  <1> QED BY <1>2, <1>3, <1>5, <1>7, <1>8 DEF RefusalInv

LEMMA RefusalInit == Init => RefusalInv
  <1> SUFFICES ASSUME Init PROVE RefusalInv
    OBVIOUS
  <1>1. TypeOK /\ TimesPast /\ FirstWindow
    BY SlidingInit DEF SlidingInv
  <1> QED BY <1>1 DEF Init, RefusalInv, EntriesAdded, AddedStamped, FindsRecent, LimitReached,
                      ToldToWait

\* A request is refused only for as many requests as the limit, recorded in its
\* window or since, and told to wait for some time, whatever the interleaving of
\* the workers, the other readers, the faults and the delays; but for what slow
\* workers recorded too late.
THEOREM RefusalsHaveCause == Spec => []NoEarlyRefusal
  <1>1. RefusalInv /\ [Next]_vars => RefusalInv'
    BY RefusalStep
  <1>2. RefusalInv => NoEarlyRefusal
    BY DEF RefusalInv, NoEarlyRefusal, LimitReached, ToldToWait, Recorded, LimitOf
  <1> QED BY <1>1, <1>2, RefusalInit, PTL DEF Spec

==============================================================================
