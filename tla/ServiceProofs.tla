--------------------------- MODULE ServiceProofs ---------------------------
(****************************************************************************)
(* Theorems about what the services keep and report, for any number of      *)
(* sessions, rows, requests, probes and indexers: about Registry,           *)
(* AuditTrail, ServiceHealth and SemanticIndex, with the chunks and the     *)
(* results it uses.                                                         *)
(****************************************************************************)
EXTENDS Registry, AuditTrail, ServiceHealth, SemanticIndex, FiniteSetTheorems,
    SequenceTheorems, WellFoundedInduction, TLAPS

------------------------------------------------------------------------------
(* Registry                                                                 *)

RowColumns == {"status", "errors", "full", "incremental", "started", "completed"}

LEMMA CallsAre ==
  /\ \A c \in RepositoryCalls :
        \/ c.method = "status" /\ c.status \in Statuses /\ c.message \in BOOLEAN
        \/ c.method = "metrics" /\ c.errors \in Found /\ c.errors \in Nat
        \/ c.method \in {"full", "incremental"}
  /\ \A c \in JobCalls : c.method = "job" /\ c.status \in JobStatuses
  BY RegistryAssumption DEF RepositoryCalls, JobCalls

\* What the methods do to the count of errors.
LEMMA RowAssigned ==
  ASSUME NEW old \in RepositoryRows, NEW c \in RepositoryCalls
  PROVE  /\ Assigned(c, old) \in RepositoryRows
         /\ Counted(c) => Assigned(c, old).errors = old.errors + 1
         /\ c.method = "metrics" => Assigned(c, old).errors = c.errors
         /\ ~Counted(c) /\ c.method # "metrics" => Assigned(c, old).errors = old.errors
  <1>1. CASE c.method = "status" /\ c.status \in Statuses /\ c.message \in BOOLEAN
    <2>1. PICK n \in Nat : n = IF c.status = "error" /\ c.message THEN old.errors + 1 ELSE old.errors
      BY DEF RepositoryRows
    <2>2. Assigned(c, old) = [old EXCEPT !.status = c.status, !.errors = n]
      BY <1>1, <2>1 DEF Assigned, StatusUpdated
    <2>3. Assigned(c, old) \in RepositoryRows /\ Assigned(c, old).errors = n
      BY <1>1, <2>2 DEF RepositoryRows
    <2> QED BY <1>1, <2>1, <2>3 DEF Counted
  <1>2. CASE c.method = "metrics" /\ c.errors \in Found /\ c.errors \in Nat
    <2>1. Assigned(c, old) = [old EXCEPT !.errors = c.errors]
      BY <1>2 DEF Assigned, MetricsUpdated
    <2> QED BY <1>2, <2>1 DEF RepositoryRows, Counted
  <1>3. CASE c.method \in {"full", "incremental"}
    <2>1. \/ Assigned(c, old) = [old EXCEPT !.full = TRUE, !.status = "idle"]
          \/ Assigned(c, old) = [old EXCEPT !.incremental = TRUE, !.status = "idle"]
      BY <1>3 DEF Assigned, FullIndexComplete, IncrementalComplete
    <2> QED BY <1>3, <2>1 DEF RepositoryRows, Counted, Statuses
  <1> QED BY <1>1, <1>2, <1>3, CallsAre

LEMMA JobAssigned ==
  ASSUME NEW old \in JobRows, NEW c \in JobCalls
  PROVE  Assigned(c, old) \in JobRows
  <1>1. c.method = "job" /\ c.status \in JobStatuses
    BY CallsAre
  <1>2. PICK s \in BOOLEAN, d \in BOOLEAN : /\ s = (old.started \/ c.status = "running")
                                            /\ d = (old.completed \/ c.status \in Finished)
    OBVIOUS
  <1>3. Assigned(c, old) = [old EXCEPT !.status = c.status, !.started = s, !.completed = d]
    BY <1>1, <1>2 DEF Assigned, JobUpdated
  <1> QED BY <1>1, <1>3 DEF JobRows

\* Writing the columns that changed makes of a row what was assigned to it.
LEMMA RowOverwritten ==
  ASSUME NEW old \in RepositoryRows, NEW new \in RepositoryRows, NEW columns
  PROVE  /\ Overwritten(old, new, columns) \in RepositoryRows
         /\ Overwritten(old, new, columns).errors = IF "errors" \in columns THEN new.errors ELSE old.errors
         /\ Overwritten(old, new, Dirty(new, old)) = new
         /\ "errors" \in Dirty(new, old) <=> new.errors # old.errors
         /\ Dirty(new, old) \subseteq RowColumns
  <1>1. DOMAIN old = {"status", "errors", "full", "incremental"} /\ DOMAIN new = DOMAIN old
    BY DEF RepositoryRows
  <1>2. \A c \in DOMAIN old : c \notin Dirty(new, old) => new[c] = old[c]
    BY DEF Dirty
  <1>3. Overwritten(old, new, Dirty(new, old)) = [c \in DOMAIN old |-> new[c]]
    BY <1>2 DEF Overwritten
  <1>4. [c \in DOMAIN old |-> new[c]] = new
    BY <1>1 DEF RepositoryRows
  <1>5. Overwritten(old, new, columns) \in RepositoryRows
    BY <1>1 DEF RepositoryRows, Overwritten
  <1>6. Overwritten(old, new, columns).errors = IF "errors" \in columns THEN new.errors ELSE old.errors
    BY <1>1 DEF Overwritten
  <1>7. ("errors" \in Dirty(new, old) <=> new.errors # old.errors) /\ Dirty(new, old) \subseteq RowColumns
    BY <1>1 DEF Dirty, RowColumns
  <1> QED BY <1>3, <1>4, <1>5, <1>6, <1>7

LEMMA JobOverwritten ==
  ASSUME NEW old \in JobRows, NEW new \in JobRows, NEW columns
  PROVE  /\ Overwritten(old, new, columns) \in JobRows
         /\ Overwritten(old, new, Dirty(new, old)) = new
         /\ Dirty(new, old) \subseteq RowColumns
  <1>1. DOMAIN old = {"status", "started", "completed"} /\ DOMAIN new = DOMAIN old
    BY DEF JobRows
  <1>2. \A c \in DOMAIN old : c \notin Dirty(new, old) => new[c] = old[c]
    BY DEF Dirty
  <1>3. Overwritten(old, new, Dirty(new, old)) = [c \in DOMAIN old |-> new[c]]
    BY <1>2 DEF Overwritten
  <1>4. [c \in DOMAIN old |-> new[c]] = new
    BY <1>1 DEF JobRows
  <1>5. Overwritten(old, new, columns) \in JobRows
    BY <1>1 DEF JobRows, Overwritten
  <1>7. Dirty(new, old) \subseteq RowColumns
    BY <1>1 DEF Dirty, RowColumns
  <1> QED BY <1>3, <1>4, <1>5, <1>7

Deletion == [method |-> "delete"]
WorkRecord ==
    [key : Keys, call : RepositoryCalls \cup JobCalls \cup {Deletion}, alone : BOOLEAN,
     new : RepositoryRows \cup JobRows, columns : SUBSET RowColumns]

\* What a session is about to commit is for a row that was there.
Fits(w) ==
    /\ w.key \in born
    /\ w.key \in Ids => w.new \in RepositoryRows /\ w.call \in RepositoryCalls \cup {Deletion}
    /\ w.key \in JobIds => w.new \in JobRows /\ w.call \in JobCalls

\* As long as nobody else has written the row, it is what the session loaded.
UpToDate(w) ==
    w.alone /\ w.call.method # "delete" =>
        /\ Exists(w.key) /\ w.new = Assigned(w.call, row[w.key])
        /\ w.columns = Dirty(w.new, row[w.key])

\* However old the row is by now, only reports and metrics write the count of errors.
CountsKept(w) ==
    w.key \in Ids /\ w.call.method # "delete" =>
        /\ Counted(w.call) =>
            /\ "errors" \in w.columns /\ w.new.errors >= 1
            /\ \E n \in Found \cup {0} : w.new.errors <= n + reported[w.key] + 1
        /\ ~Counted(w.call) /\ "errors" \in w.columns =>
            w.call.method = "metrics" /\ w.new.errors \in Found

WorkOK ==
    /\ DOMAIN work = Sessions
    /\ \A s \in Sessions : work[s] = NoWork \/
        \E w \in WorkRecord : work[s] = w /\ Fits(w) /\ UpToDate(w) /\ CountsKept(w)

RegistryTypeOK ==
    /\ DOMAIN row = Keys /\ DOMAIN ideal = Keys
    /\ \A i \in Ids : Exists(i) => row[i] \in RepositoryRows
    /\ \A j \in JobIds : Exists(j) => row[j] \in JobRows
    /\ reported \in [Ids -> Nat]
    /\ \A k \in Keys : Exists(k) => k \in born
    /\ owed \subseteq born

RegistryInv == RegistryTypeOK /\ WorkOK /\ SerialUnlessMixed /\ ErrorsRemembered

LEMMA KeysAre == Keys = Ids \cup JobIds /\ Ids \cap JobIds = {} /\ Found \subseteq Nat
  BY RegistryAssumption DEF Keys

LEMMA NewRowIs ==
  /\ \A s \in Statuses : NewRow(s) \in RepositoryRows /\ NewRow(s).errors = 0
  /\ NewJob \in JobRows
  BY DEF NewRow, NewJob, RepositoryRows, JobRows, JobStatuses

LEMMA InitRegistry == RegistryInit => RegistryInv
  <1> SUFFICES ASSUME RegistryInit PROVE RegistryInv
    OBVIOUS
  <1>1. /\ row = [k \in Keys |-> IF k \notin Given THEN NoRow ELSE IF k \in Ids THEN NewRow("idle") ELSE NewJob]
        /\ ideal = row /\ born = Given /\ work = [s \in Sessions |-> NoWork]
        /\ reported = [i \in Ids |-> 0] /\ owed = {}
    BY DEF RegistryInit
  <1>2. /\ \A k \in Keys : Exists(k) => k \in born
        /\ \A i \in Ids : Exists(i) => row[i] = NewRow("idle")
        /\ \A j \in JobIds : Exists(j) => row[j] = NewJob
    BY <1>1, KeysAre DEF Exists
  <1>3. "idle" \in Statuses
    BY DEF Statuses
  <1>4. RegistryTypeOK
    BY <1>1, <1>2, <1>3, NewRowIs DEF RegistryTypeOK
  <1>5. WorkOK /\ SerialUnlessMixed
    BY <1>1 DEF WorkOK, SerialUnlessMixed
  <1>6. ErrorsRemembered
    <2>1. \A i \in Ids : Exists(i) => row[i].errors = 0 /\ reported[i] = 0
      BY <1>1, <1>2, <1>3, NewRowIs
    <2> QED BY <1>1, <2>1 DEF ErrorsRemembered
  <1> QED BY <1>4, <1>5, <1>6 DEF RegistryInv

\* What remains true of the sessions when one of them commits to some rows.
LEMMA OthersBehind ==
  ASSUME RegistryInv, NEW s \in Sessions, NEW keys,
         work' = [Behind(keys, s) EXCEPT ![s] = NoWork], born' = born,
         \A k \in Keys \ keys : row'[k] = row[k],
         reported' \in [Ids -> Nat], \A i \in Ids : reported'[i] >= reported[i]
  PROVE  WorkOK'
  <1>1. DOMAIN work = Sessions /\ reported \in [Ids -> Nat]
    BY DEF RegistryInv, WorkOK, RegistryTypeOK
  <1>2. /\ DOMAIN work' = Sessions /\ work'[s] = NoWork
        /\ \A x \in Sessions \ {s} :
            work'[x] = IF work[x] # NoWork /\ work[x].key \in keys
                       THEN [work[x] EXCEPT !.alone = FALSE] ELSE work[x]
    BY DEF Behind
  <1>3. ASSUME NEW x \in Sessions \ {s}, work[x] # NoWork
        PROVE  work'[x] = NoWork \/
                \E w \in WorkRecord : work'[x] = w /\ Fits(w)' /\ UpToDate(w)' /\ CountsKept(w)'
    <2>1. PICK w \in WorkRecord : work[x] = w /\ Fits(w) /\ UpToDate(w) /\ CountsKept(w)
      BY <1>3 DEF RegistryInv, WorkOK
    <2>2. w.key \in Keys
      BY DEF WorkRecord
    <2>3. CASE w.key \in keys
      <3>1. PICK v \in WorkRecord : v = [w EXCEPT !.alone = FALSE]
        BY DEF WorkRecord
      <3>2. /\ v.alone = FALSE /\ v.key = w.key /\ v.call = w.call /\ v.new = w.new /\ v.columns = w.columns
        BY <3>1 DEF WorkRecord
      <3>3. Fits(v)' /\ UpToDate(v)'
        BY <2>1, <3>2 DEF Fits, UpToDate
      <3>4. CountsKept(v)'
        <4>1. ASSUME NEW n \in Found \cup {0}, w.key \in Ids, w.new \in RepositoryRows, w.new.errors <= n + reported[w.key] + 1
              PROVE  w.new.errors <= n + reported'[w.key] + 1
          <5>1. w.new.errors \in Nat /\ n \in Nat /\ reported[w.key] \in Nat /\ reported'[w.key] \in Nat
            BY <1>1, <4>1, KeysAre DEF RepositoryRows
          <5> QED BY <4>1, <5>1
        <4> QED BY <2>1, <3>2, <4>1 DEF CountsKept, Fits
      <3>5. work'[x] = v
        BY <1>2, <1>3, <2>1, <2>3, <3>1
      <3> QED BY <3>1, <3>3, <3>4, <3>5
    <2>4. CASE w.key \notin keys
      <3>1. work'[x] = w /\ row'[w.key] = row[w.key]
        BY <1>2, <1>3, <2>1, <2>2, <2>4
      <3>2. Fits(w)' /\ UpToDate(w)'
        BY <2>1, <3>1 DEF Fits, UpToDate, Exists
      <3>3. CountsKept(w)'
        <4>1. ASSUME NEW n \in Found \cup {0}, w.key \in Ids, w.new \in RepositoryRows, w.new.errors <= n + reported[w.key] + 1
              PROVE  w.new.errors <= n + reported'[w.key] + 1
          <5>1. w.new.errors \in Nat /\ n \in Nat /\ reported[w.key] \in Nat /\ reported'[w.key] \in Nat
            BY <1>1, <4>1, KeysAre DEF RepositoryRows
          <5> QED BY <4>1, <5>1
        <4> QED BY <2>1, <4>1 DEF CountsKept, Fits
      <3> QED BY <3>1, <3>2, <3>3
    <2> QED BY <2>3, <2>4
  <1>4. \A x \in Sessions \ {s} : work[x] = NoWork => work'[x] = NoWork
    BY <1>2
  <1> QED BY <1>2, <1>3, <1>4 DEF WorkOK

LEMMA InsertStep ==
  ASSUME RegistryInv, NEW k \in Keys, NEW new, Inserted(k, new),
         k \in Ids => new \in RepositoryRows /\ new.errors = 0,
         k \in JobIds => new \in JobRows
  PROVE  RegistryInv'
  <1>i. RegistryTypeOK /\ WorkOK /\ SerialUnlessMixed /\ ErrorsRemembered
    BY DEF RegistryInv
  <1>1. /\ k \notin born /\ born' = born \cup {k}
        /\ row' = [row EXCEPT ![k] = new] /\ ideal' = [ideal EXCEPT ![k] = new]
        /\ UNCHANGED <<work, mixed, reported, owed>>
    BY DEF Inserted
  <1>2. /\ DOMAIN row' = Keys /\ DOMAIN ideal' = Keys /\ row'[k] = new /\ ideal'[k] = new
        /\ \A x \in Keys \ {k} : row'[x] = row[x] /\ ideal'[x] = ideal[x]
    BY <1>1, <1>i DEF RegistryTypeOK
  <1>3. \A x \in Keys \ {k} : Exists(x)' <=> Exists(x)
    BY <1>2 DEF Exists
  <1>4. RegistryTypeOK'
    <2>1. \A i \in Ids : Exists(i)' => row'[i] \in RepositoryRows
      BY <1>2, <1>3, <1>i, KeysAre DEF RegistryTypeOK
    <2>2. \A j \in JobIds : Exists(j)' => row'[j] \in JobRows
      BY <1>2, <1>3, <1>i, KeysAre DEF RegistryTypeOK
    <2>3. \A x \in Keys : Exists(x)' => x \in born'
      BY <1>1, <1>3, <1>i DEF RegistryTypeOK
    <2> QED BY <1>1, <1>2, <1>i, <2>1, <2>2, <2>3 DEF RegistryTypeOK
  <1>5. WorkOK'
    <2>1. ASSUME NEW w \in WorkRecord, Fits(w), UpToDate(w), CountsKept(w)
          PROVE  Fits(w)' /\ UpToDate(w)' /\ CountsKept(w)'
      <3>1. w.key \in Keys /\ w.key # k
        BY <1>1, <2>1 DEF WorkRecord, Fits
      <3>2. row'[w.key] = row[w.key]
        BY <1>2, <3>1
      <3> QED BY <1>1, <2>1, <3>2 DEF Fits, UpToDate, CountsKept, Exists
    <2> QED BY <1>1, <1>i, <2>1 DEF WorkOK
  <1>6. SerialUnlessMixed'
    BY <1>1, <1>2, <1>i DEF SerialUnlessMixed
  <1>7. ErrorsRemembered'
    <2>1. ASSUME NEW i \in Ids, Exists(i)'
          PROVE  (i \in owed => row'[i].errors >= 1) /\ \E n \in Found \cup {0} : row'[i].errors <= n + reported[i]
      <3>1. CASE i = k
        <4>1. row'[i].errors = 0 /\ i \notin owed /\ reported[i] \in Nat
          BY <1>1, <1>2, <1>i, <3>1 DEF RegistryTypeOK
        <4> QED BY <4>1
      <3>2. CASE i # k
        BY <1>2, <1>3, <1>i, <2>1, <3>2, KeysAre DEF ErrorsRemembered
      <3> QED BY <3>1, <3>2
    <2> QED BY <1>1, <2>1 DEF ErrorsRemembered
  <1> QED BY <1>4, <1>5, <1>6, <1>7 DEF RegistryInv

LEMMA LoadStep ==
  ASSUME RegistryInv, NEW s \in Sessions, NEW k \in Keys, Load(s, k)
  PROVE  RegistryInv'
  <1>i. RegistryTypeOK /\ WorkOK /\ SerialUnlessMixed /\ ErrorsRemembered
    BY DEF RegistryInv
  <1>1. Exists(k) /\ UNCHANGED <<row, born, ideal, mixed, reported, owed>>
    BY DEF Load, tables
  <1>2. PICK c \in IF k \in Ids THEN RepositoryCalls \cup {Deletion} ELSE JobCalls :
          work' = [work EXCEPT ![s] =
            [key |-> k, call |-> c, alone |-> TRUE,
             new |-> IF c.method = "delete" THEN row[k] ELSE Assigned(c, row[k]),
             columns |-> IF c.method = "delete" THEN {} ELSE Dirty(Assigned(c, row[k]), row[k])]]
    BY DEF Load, Deletion
  <1>3. PICK new, columns : /\ new = IF c.method = "delete" THEN row[k] ELSE Assigned(c, row[k])
                            /\ columns = IF c.method = "delete" THEN {} ELSE Dirty(Assigned(c, row[k]), row[k])
    OBVIOUS
  <1>4. Deletion.method = "delete" /\ \A d \in RepositoryCalls \cup JobCalls : d.method # "delete"
    BY CallsAre DEF Deletion
  <1>5. k \in Ids => c \in RepositoryCalls \cup {Deletion} /\ row[k] \in RepositoryRows
    BY <1>1, <1>2, <1>i DEF RegistryTypeOK
  <1>6. k \in JobIds => c \in JobCalls /\ row[k] \in JobRows /\ k \notin Ids
    BY <1>1, <1>2, <1>i, KeysAre DEF RegistryTypeOK
  <1>7. (k \in Ids => new \in RepositoryRows) /\ columns \subseteq RowColumns
    BY <1>3, <1>4, <1>5, <1>6, KeysAre, RowAssigned, RowOverwritten, JobAssigned, JobOverwritten
  <1>8. k \in JobIds => new \in JobRows
    BY <1>3, <1>4, <1>6, JobAssigned
  <1>9. PICK w \in WorkRecord : w = [key |-> k, call |-> c, alone |-> TRUE, new |-> new, columns |-> columns]
    BY <1>5, <1>6, <1>7, <1>8, KeysAre DEF WorkRecord
  <1>10. w.key = k /\ w.call = c /\ w.new = new /\ w.columns = columns
    BY <1>9
  <1>11. work' = [work EXCEPT ![s] = w]
    BY <1>2, <1>3, <1>9
  <1>12. Fits(w) /\ UpToDate(w)
    <2>1. k \in born
      BY <1>1, <1>i DEF RegistryTypeOK
    <2> QED BY <1>1, <1>3, <1>5, <1>6, <1>7, <1>8, <1>10, <2>1 DEF Fits, UpToDate
  <1>13. CountsKept(w)
    <2> SUFFICES ASSUME k \in Ids, c.method # "delete"
                 PROVE  /\ Counted(c) =>
                            /\ "errors" \in columns /\ new.errors >= 1
                            /\ \E n \in Found \cup {0} : new.errors <= n + reported[k] + 1
                        /\ ~Counted(c) /\ "errors" \in columns => c.method = "metrics" /\ new.errors \in Found
      BY <1>10 DEF CountsKept
    <2>1. c \in RepositoryCalls /\ new = Assigned(c, row[k]) /\ columns = Dirty(new, row[k])
      BY <1>3, <1>4, <1>5
    <2>2. /\ "errors" \in columns <=> new.errors # row[k].errors
          /\ Counted(c) => new.errors = row[k].errors + 1
          /\ c.method = "metrics" => new.errors = c.errors
          /\ ~Counted(c) /\ c.method # "metrics" => new.errors = row[k].errors
      <3>1. row[k] \in RepositoryRows /\ new \in RepositoryRows
        BY <1>5, <1>7
      <3>2. "errors" \in Dirty(new, row[k]) <=> new.errors # row[k].errors
        BY <3>1, RowOverwritten
      <3> QED BY <2>1, <3>1, <3>2, RowAssigned
    <2>3. PICK n \in Found \cup {0} : row[k].errors <= n + reported[k]
      BY <1>1, <1>i DEF ErrorsRemembered
    <2>4. row[k].errors \in Nat /\ n \in Nat /\ reported[k] \in Nat
      <3>1. row[k] \in RepositoryRows /\ reported \in [Ids -> Nat]
        BY <1>5, <1>i DEF RegistryTypeOK
      <3>2. n \in Nat
        BY <2>3, KeysAre
      <3>3. row[k].errors \in Nat
        BY <3>1 DEF RepositoryRows
      <3> QED BY <3>1, <3>2, <3>3
    <2>5. Counted(c) => /\ "errors" \in columns /\ new.errors >= 1 /\ new.errors <= n + reported[k] + 1
      BY <2>2, <2>3, <2>4
    <2>6. c.method = "metrics" => c.errors \in Found
      BY <2>1, CallsAre
    <2> QED BY <2>2, <2>5, <2>6
  <1>14. WorkOK'
    <2>1. \A v \in WorkRecord : /\ Fits(v) => Fits(v)'
                                /\ UpToDate(v) => UpToDate(v)'
                                /\ CountsKept(v) => CountsKept(v)'
      BY <1>1 DEF Fits, UpToDate, CountsKept, Exists
    <2>2. DOMAIN work' = Sessions /\ work'[s] = w /\ \A x \in Sessions \ {s} : work'[x] = work[x]
      BY <1>11, <1>i DEF WorkOK
    <2> QED BY <1>9, <1>12, <1>13, <1>i, <2>1, <2>2 DEF WorkOK
  <1>15. RegistryTypeOK' /\ SerialUnlessMixed' /\ ErrorsRemembered'
    BY <1>1, <1>i DEF RegistryTypeOK, SerialUnlessMixed, ErrorsRemembered, Exists
  <1> QED BY <1>14, <1>15 DEF RegistryInv

LEMMA UpdateStep ==
  ASSUME RegistryInv, NEW s \in Sessions, CommitUpdate(s)
  PROVE  RegistryInv'
  <1>i. RegistryTypeOK /\ WorkOK /\ SerialUnlessMixed /\ ErrorsRemembered
    BY DEF RegistryInv
  <1>1. PICK w \in WorkRecord : work[s] = w /\ Fits(w) /\ UpToDate(w) /\ CountsKept(w)
    BY <1>i DEF CommitUpdate, WorkOK
  <1>2. PICK k \in Keys : k = w.key
    BY DEF WorkRecord
  <1>3. /\ w.call.method # "delete" /\ row' = Written(w) /\ Remembered(w) /\ born' = born
        /\ work' = [Behind({k}, s) EXCEPT ![s] = NoWork]
    BY <1>1, <1>2 DEF CommitUpdate
  <1>4. CASE ~Exists(k)
    <2>1. UNCHANGED <<row, ideal, mixed, reported, owed>>
      BY <1>2, <1>3, <1>4 DEF Written, Remembered
    <2>2. reported' \in [Ids -> Nat] /\ \A i \in Ids : reported'[i] >= reported[i]
      BY <1>i, <2>1 DEF RegistryTypeOK
    <2>3. WorkOK'
      BY <1>3, <2>1, <2>2, OthersBehind
    <2>4. RegistryTypeOK' /\ SerialUnlessMixed' /\ ErrorsRemembered'
      BY <1>3, <1>i, <2>1 DEF RegistryTypeOK, SerialUnlessMixed, ErrorsRemembered, Exists
    <2> QED BY <2>3, <2>4 DEF RegistryInv
  <1>5. CASE Exists(k)
    <2>1. PICK old : old = row[k]
      OBVIOUS
    <2>2. PICK made : made = Overwritten(old, w.new, w.columns)
      OBVIOUS
    <2>3. row' = [row EXCEPT ![k] = made]
      BY <1>2, <1>3, <1>5, <2>1, <2>2 DEF Written
    <2>4. /\ ideal' = [ideal EXCEPT ![k] = Assigned(w.call, ideal[k])]
          /\ mixed' = IF w.alone THEN mixed ELSE mixed \cup {k}
          /\ reported' = IF Counted(w.call) THEN [reported EXCEPT ![k] = @ + 1] ELSE reported
          /\ owed' = CASE Counted(w.call) -> owed \cup {k}
                       [] w.call.method = "metrics" -> owed \ {k}
                       [] OTHER -> owed
      BY <1>2, <1>3, <1>5 DEF Remembered
    <2>5. /\ DOMAIN row' = Keys /\ row'[k] = made /\ \A x \in Keys \ {k} : row'[x] = row[x]
          /\ DOMAIN ideal' = Keys /\ ideal'[k] = Assigned(w.call, ideal[k])
          /\ \A x \in Keys \ {k} : ideal'[x] = ideal[x]
      BY <1>i, <2>3, <2>4 DEF RegistryTypeOK
    <2>6. /\ k \in Ids => old \in RepositoryRows /\ w.new \in RepositoryRows /\ w.call \in RepositoryCalls
          /\ k \in JobIds => old \in JobRows /\ w.new \in JobRows /\ w.call \in JobCalls
          /\ k \in born
      <3>1. Deletion.method = "delete"
        BY DEF Deletion
      <3> QED BY <1>1, <1>2, <1>3, <1>5, <1>i, <2>1, <3>1 DEF Fits, RegistryTypeOK
    <2>7. /\ k \in Ids => made \in RepositoryRows /\ made.errors = IF "errors" \in w.columns THEN w.new.errors ELSE old.errors
          /\ k \in JobIds => made \in JobRows
      BY <2>2, <2>6, RowOverwritten, JobOverwritten
    <2>8. k \in JobIds => ~Counted(w.call)
      BY <2>6, CallsAre DEF Counted
    <2>9. reported' \in [Ids -> Nat] /\ \A i \in Ids : reported'[i] >= reported[i]
      <3>1. CASE Counted(w.call)
        <4>1. k \in Ids /\ reported[k] + 1 \in Nat
          BY <1>i, <2>8, <3>1, KeysAre DEF RegistryTypeOK
        <4> QED BY <1>i, <2>4, <3>1, <4>1 DEF RegistryTypeOK
      <3>2. CASE ~Counted(w.call)
        BY <1>i, <2>4, <3>2 DEF RegistryTypeOK
      <3> QED BY <3>1, <3>2
    <2>10. WorkOK'
      BY <1>3, <2>5, <2>9, OthersBehind
    <2>11. \A x \in Keys \ {k} : Exists(x)' <=> Exists(x)
      BY <2>5 DEF Exists
    <2>12. owed' \subseteq owed \cup {k} /\ \A x \in owed : x # k => x \in owed'
      BY <2>4
    <2>13. RegistryTypeOK'
      <3>1. \A i \in Ids : Exists(i)' => row'[i] \in RepositoryRows
        BY <1>i, <2>5, <2>7, <2>11, KeysAre DEF RegistryTypeOK
      <3>2. \A j \in JobIds : Exists(j)' => row'[j] \in JobRows
        BY <1>i, <2>5, <2>7, <2>11, KeysAre DEF RegistryTypeOK
      <3>3. \A x \in Keys : Exists(x)' => x \in born'
        BY <1>3, <1>i, <2>6, <2>11 DEF RegistryTypeOK
      <3>4. owed' \subseteq born'
        BY <1>3, <1>i, <2>6, <2>12 DEF RegistryTypeOK
      <3> QED BY <2>5, <2>9, <3>1, <3>2, <3>3, <3>4 DEF RegistryTypeOK
    <2>14. SerialUnlessMixed'
      <3> SUFFICES ASSUME NEW x \in Keys, x \notin mixed' PROVE row'[x] = ideal'[x]
        BY DEF SerialUnlessMixed
      <3>1. x \notin mixed /\ (x = k => w.alone)
        BY <2>4
      <3>2. row[x] = ideal[x]
        BY <1>i, <3>1 DEF SerialUnlessMixed
      <3>3. CASE x # k
        BY <2>5, <3>2, <3>3
      <3>4. CASE x = k
        <4>1. w.new = Assigned(w.call, old) /\ w.columns = Dirty(w.new, old)
          BY <1>1, <1>2, <1>3, <2>1, <3>1, <3>4 DEF UpToDate
        <4>2. Overwritten(old, w.new, Dirty(w.new, old)) = w.new
          BY <2>6, KeysAre, RowOverwritten, JobOverwritten
        <4> QED BY <2>1, <2>2, <2>5, <3>2, <3>4, <4>1, <4>2
      <3> QED BY <3>3, <3>4
    <2>15. ErrorsRemembered'
      <3> SUFFICES ASSUME NEW i \in Ids, Exists(i)'
                   PROVE  /\ i \in owed' => row'[i].errors >= 1
                          /\ \E n \in Found \cup {0} : row'[i].errors <= n + reported'[i]
        BY DEF ErrorsRemembered
      <3>1. CASE i # k
        <4>1. row'[i] = row[i] /\ Exists(i) /\ (i \in owed' => i \in owed) /\ reported'[i] = reported[i]
          BY <1>i, <2>4, <2>5, <2>11, <2>12, <3>1, KeysAre DEF RegistryTypeOK
        <4> QED BY <1>i, <4>1 DEF ErrorsRemembered
      <3>2. CASE i = k
        <4>1. PICK n \in Found \cup {0} : /\ old.errors <= n + reported[k]
                                          /\ k \in owed => old.errors >= 1
          BY <1>5, <1>i, <2>1, <3>2 DEF ErrorsRemembered
        <4>2. /\ old.errors \in Nat /\ w.new.errors \in Nat /\ n \in Nat
              /\ reported[k] \in Nat /\ reported'[k] \in Nat /\ reported'[k] >= reported[k]
          BY <1>i, <2>6, <2>9, <3>2, <4>1, KeysAre DEF RegistryTypeOK, RepositoryRows
        <4>3. row'[i] = made /\ made.errors = IF "errors" \in w.columns THEN w.new.errors ELSE old.errors
          BY <2>5, <2>7, <3>2
        <4>4. /\ Counted(w.call) =>
                 /\ "errors" \in w.columns /\ w.new.errors >= 1
                 /\ \E m \in Found \cup {0} : w.new.errors <= m + reported[k] + 1
              /\ ~Counted(w.call) /\ "errors" \in w.columns =>
                 w.call.method = "metrics" /\ w.new.errors \in Found
          BY <1>1, <1>2, <1>3, <3>2 DEF CountsKept
        <4>5. CASE Counted(w.call)
          <5>1. PICK m \in Found \cup {0} : w.new.errors <= m + reported[k] + 1
            BY <4>4, <4>5
          <5>2. reported'[k] = reported[k] + 1
            BY <1>i, <2>4, <3>2, <4>5 DEF RegistryTypeOK
          <5>n. m \in Nat
            BY <5>1, KeysAre
          <5>3. w.new.errors <= m + reported'[k]
            BY <4>2, <5>1, <5>2, <5>n
          <5> QED BY <3>2, <4>3, <4>4, <4>5, <5>1, <5>3
        <4>6. CASE ~Counted(w.call) /\ "errors" \in w.columns
          <5>1. w.call.method = "metrics" /\ w.new.errors \in Found /\ made.errors = w.new.errors
            BY <4>3, <4>4, <4>6
          <5>2. k \notin owed'
            BY <2>4, <4>6, <5>1
          <5>3. w.new.errors <= w.new.errors + reported'[k]
            BY <4>2
          <5> QED BY <3>2, <4>3, <5>1, <5>2, <5>3
        <4>7. CASE ~Counted(w.call) /\ "errors" \notin w.columns
          <5>1. made.errors = old.errors /\ (k \in owed' => k \in owed)
            BY <2>4, <4>3, <4>7
          <5>2. old.errors <= n + reported'[k]
            BY <4>1, <4>2
          <5> QED BY <3>2, <4>1, <4>3, <5>1, <5>2
        <4> QED BY <4>5, <4>6, <4>7
      <3> QED BY <3>1, <3>2
    <2> QED BY <2>10, <2>13, <2>14, <2>15 DEF RegistryInv
  <1> QED BY <1>4, <1>5

LEMMA DeleteStep ==
  ASSUME RegistryInv, NEW s \in Sessions, CommitDelete(s)
  PROVE  RegistryInv'
  <1>i. RegistryTypeOK /\ WorkOK /\ SerialUnlessMixed /\ ErrorsRemembered
    BY DEF RegistryInv
  <1>1. PICK gone : gone = Gone(work[s].key)
    OBVIOUS
  <1>2. /\ row' = [k \in Keys |-> IF k \in gone THEN NoRow ELSE row[k]]
        /\ ideal' = [k \in Keys |-> IF k \in gone THEN NoRow ELSE ideal[k]]
        /\ work' = [Behind(gone, s) EXCEPT ![s] = NoWork]
        /\ UNCHANGED <<born, mixed, reported, owed>>
    BY <1>1 DEF CommitDelete
  <1>3. /\ DOMAIN row' = Keys /\ DOMAIN ideal' = Keys
        /\ \A k \in Keys \ gone : row'[k] = row[k] /\ ideal'[k] = ideal[k]
        /\ \A k \in Keys \cap gone : row'[k] = NoRow /\ ideal'[k] = NoRow
    BY <1>2
  <1>4. \A k \in Keys : Exists(k)' => Exists(k) /\ row'[k] = row[k]
    BY <1>3 DEF Exists
  <1>5. reported' \in [Ids -> Nat] /\ \A i \in Ids : reported'[i] >= reported[i]
    BY <1>2, <1>i DEF RegistryTypeOK
  <1>6. WorkOK'
    BY <1>2, <1>3, <1>5, OthersBehind
  <1>7. RegistryTypeOK'
    BY <1>2, <1>3, <1>4, <1>i, KeysAre DEF RegistryTypeOK
  <1>8. SerialUnlessMixed'
    BY <1>2, <1>3, <1>i DEF SerialUnlessMixed
  <1>9. ErrorsRemembered'
    BY <1>2, <1>4, <1>i, KeysAre DEF ErrorsRemembered
  <1> QED BY <1>6, <1>7, <1>8, <1>9 DEF RegistryInv

\* A rollback, and whoever only reads, leaves the tables alone.
LEMMA TablesUntouched ==
  ASSUME RegistryInv, UNCHANGED <<row, born, ideal, mixed, reported, owed>>,
         \/ work' = work \/ \E s \in Sessions : work' = [work EXCEPT ![s] = NoWork]
  PROVE  RegistryInv'
  <1>i. RegistryTypeOK /\ WorkOK /\ SerialUnlessMixed /\ ErrorsRemembered
    BY DEF RegistryInv
  <1>1. DOMAIN work' = Sessions /\ \A x \in Sessions : work'[x] = work[x] \/ work'[x] = NoWork
    BY <1>i DEF WorkOK
  <1>2. \A v \in WorkRecord : /\ Fits(v) => Fits(v)'
                              /\ UpToDate(v) => UpToDate(v)'
                              /\ CountsKept(v) => CountsKept(v)'
    BY DEF Fits, UpToDate, CountsKept, Exists
  <1>3. WorkOK'
    BY <1>1, <1>2, <1>i DEF WorkOK
  <1>4. RegistryTypeOK' /\ SerialUnlessMixed' /\ ErrorsRemembered'
    BY <1>i DEF RegistryTypeOK, SerialUnlessMixed, ErrorsRemembered, Exists
  <1> QED BY <1>3, <1>4 DEF RegistryInv

LEMMA RegistryStep == RegistryInv /\ [RegistryNext]_registryVars => RegistryInv'
  <1> SUFFICES ASSUME RegistryInv, [RegistryNext]_registryVars PROVE RegistryInv'
    OBVIOUS
  <1>1. ASSUME NEW i \in Ids, NEW s \in Asked \cup {"idle"}, create_repository(i, s)
        PROVE  RegistryInv'
    <2>1. s \in Statuses
      BY RegistryAssumption DEF Statuses
    <2>2. PICK new \in RepositoryRows : new = NewRow(s) /\ new.errors = 0
      BY <2>1, NewRowIs
    <2>3. Inserted(i, new) /\ i \in Keys /\ i \notin JobIds
      BY <1>1, <2>2, KeysAre DEF create_repository
    <2> QED BY <2>2, <2>3, InsertStep
  <1>2. ASSUME NEW j \in JobIds, create_index_job(j)
        PROVE  RegistryInv'
    <2>1. PICK new \in JobRows : new = NewJob
      BY NewRowIs
    <2>2. Inserted(j, new) /\ j \in Keys /\ j \notin Ids
      BY <1>2, <2>1, KeysAre DEF create_index_job
    <2> QED BY <2>1, <2>2, InsertStep
  <1>3. ASSUME NEW s \in Sessions, Rollback(s) PROVE RegistryInv'
    BY <1>3, TablesUntouched DEF Rollback, tables
  <1>4. CASE CountAll \/ CountStatus \/ FirstPage \/ NextPage \/ Close
    BY <1>4, TablesUntouched DEF CountAll, CountStatus, FirstPage, NextPage, Close, Start, tables
  <1>5. CASE UNCHANGED registryVars
    BY <1>5, TablesUntouched DEF registryVars, tables
  <1> QED BY <1>1, <1>2, <1>3, <1>4, <1>5, LoadStep, UpdateStep, DeleteStep DEF RegistryNext

\* Writing only the changed columns of a row is as good as serialising the calls,
\* as long as nobody commits between another session's load and commit; and no late
\* commit brings back what was deleted (update_repository_status, delete_repository).
THEOREM RowsAreSerial == RegistrySpec => []SerialUnlessMixed
  <1>1. RegistryInv => SerialUnlessMixed
    BY DEF RegistryInv
  <1> QED BY InitRegistry, RegistryStep, <1>1, PTL DEF RegistrySpec

\* Whatever the interleaving, one of the errors reported survives until metrics are
\* set, and no more are counted than there were (update_repository_status).
THEOREM ErrorsAreRemembered == RegistrySpec => []ErrorsRemembered
  <1>1. RegistryInv => ErrorsRemembered
    BY DEF RegistryInv
  <1> QED BY InitRegistry, RegistryStep, <1>1, PTL DEF RegistrySpec

------------------------------------------------------------------------------
(* Registry: the readers, which need several statements for an answer       *)

\* A scan finds a row once.
Distinct(h) == \A i, j \in 1..Len(h) : h[i] = h[j] => i = j

\* The rows among the first n of a scan.
FirstRows(h, n) == {h[i] : i \in {j \in 1..Len(h) : j <= n}}

LEMMA FirstRowsOf ==
  ASSUME NEW S, NEW h \in Seq(S), NEW n \in Nat
  PROVE  /\ FirstRows(h, n) \subseteq ToSet(h) /\ ToSet(h) \subseteq S
         /\ Len(h) <= n => FirstRows(h, n) = ToSet(h)
         /\ \A i \in 1..Len(h) : h[i] \in ToSet(h) /\ (i <= n => h[i] \in FirstRows(h, n))
         /\ \A x \in ToSet(h) : \E i \in 1..Len(h) : x = h[i]
         /\ \A x \in FirstRows(h, n) : \E i \in 1..Len(h) : i <= n /\ x = h[i]
         /\ ToSet(h) = {h[i] : i \in 1..Len(h)}
<1>1. DOMAIN h = 1..Len(h) /\ Len(h) \in Nat /\ \A i \in 1..Len(h) : h[i] \in S
  OBVIOUS
<1> QED
  BY <1>1 DEF FirstRows, ToSet

RowsAt(h, n) ==
    /\ \A i \in 1..Len(h) : h[i] \in ToSet(h) /\ (i <= n => h[i] \in FirstRows(h, n))
    /\ \A x \in ToSet(h) : \E i \in 1..Len(h) : x = h[i]
    /\ \A x \in FirstRows(h, n) : \E i \in 1..Len(h) : i <= n /\ x = h[i]

LEMMA RowsAreAt ==
  ASSUME NEW S, NEW h \in Seq(S), NEW n \in Nat
  PROVE  RowsAt(h, n)
  BY FirstRowsOf DEF RowsAt

\* A row is taken out: those behind it move up by one place.
LEMMA WithoutMoves ==
  ASSUME NEW S, NEW h \in Seq(S), NEW k, Distinct(h)
  PROVE  \/ k \notin ToSet(h) /\ Without(h, k) = h
         \/ \E q \in 1..Len(h) :
              /\ h[q] = k /\ Without(h, k) \in Seq(S) /\ Len(Without(h, k)) = Len(h) - 1
              /\ \A i \in 1..(Len(h) - 1) :
                    Without(h, k)[i] = IF i < q THEN h[i] ELSE h[i + 1]
<1>0. DOMAIN h = 1..Len(h) /\ Len(h) \in Nat /\ \A i \in 1..Len(h) : h[i] \in S
  BY SMTT(30)
<1>1. CASE ~(\E i \in 1..Len(h) : h[i] = k)
  BY <1>0, <1>1 DEF Without, ToSet
<1>2. CASE \E i \in 1..Len(h) : h[i] = k
  <2>1. PICK q \in 1..Len(h) : h[q] = k
    BY <1>2
  <2>2. \A p \in 1..Len(h) : h[p] = k <=> p = q
    BY <2>1 DEF Distinct
  <2>3. Without(h, k) = RemoveAt(h, q)
    <3>1. k \in ToSet(h)
      BY <1>0, <2>1 DEF ToSet
    <3>2. (CHOOSE p \in DOMAIN h : h[p] = k) = q
      BY <1>0, <2>2
    <3> QED
      BY <3>1, <3>2 DEF Without
  <2>4. PICK a, b : a = SubSeq(h, 1, q - 1) /\ b = SubSeq(h, q + 1, Len(h))
    OBVIOUS
  <2>5. a \in Seq(S) /\ Len(a) = q - 1 /\ \A i \in 1..(q - 1) : a[i] = h[i]
    <3>1. 1 \in Int /\ q - 1 \in Int /\ \A i \in 1..(q - 1) : h[i] \in S
      BY <1>0
    <3>2. /\ a \in Seq(S) /\ Len(a) = IF 1 <= q - 1 THEN q - 1 - 1 + 1 ELSE 0
          /\ \A i \in 1..(q - 1 - 1 + 1) : a[i] = h[1 + i - 1]
      BY <2>4, <3>1, SubSeqProperties
    <3>3. q - 1 - 1 + 1 = q - 1 /\ (~(1 <= q - 1) => q - 1 = 0) /\ \A i \in 1..(q - 1) : 1 + i - 1 = i
      OBVIOUS
    <3> QED
      BY <3>2, <3>3
  <2>6. b \in Seq(S) /\ Len(b) = Len(h) - q /\ \A i \in 1..(Len(h) - q) : b[i] = h[q + i]
    <3>1. q + 1 \in Int /\ Len(h) \in Int /\ \A i \in (q + 1)..Len(h) : h[i] \in S
      BY <1>0
    <3>2. /\ b \in Seq(S) /\ Len(b) = IF q + 1 <= Len(h) THEN Len(h) - (q + 1) + 1 ELSE 0
          /\ \A i \in 1..(Len(h) - (q + 1) + 1) : b[i] = h[(q + 1) + i - 1]
      BY <2>4, <3>1, SubSeqProperties
    <3>3. /\ Len(h) - (q + 1) + 1 = Len(h) - q /\ (~(q + 1 <= Len(h)) => Len(h) - q = 0)
          /\ \A i \in 1..(Len(h) - q) : (q + 1) + i - 1 = q + i
      <4>1. PICK l \in Nat : l = Len(h) /\ q \in 1..l
        BY <1>0
      <4>2. /\ l - (q + 1) + 1 = l - q /\ (~(q + 1 <= l) => l - q = 0)
            /\ \A i \in 1..(l - q) : (q + 1) + i - 1 = q + i
        BY <4>1
      <4> QED
        BY <4>1, <4>2
    <3> QED
      BY <3>2, <3>3
  <2>7. PICK g : g = a \o b
    OBVIOUS
  <2>8. /\ g \in Seq(S) /\ Len(g) = Len(h) - 1
        /\ \A i \in 1..(Len(h) - 1) : g[i] = IF i < q THEN h[i] ELSE h[i + 1]
    <3>1. g \in Seq(S) /\ Len(g) = Len(h) - 1
      <4>1. a \in Seq(S) /\ b \in Seq(S)
        BY <2>5, <2>6
      <4>2. g \in Seq(S) /\ Len(g) = Len(a) + Len(b)
        BY <2>7, <4>1
      <4>3. (q - 1) + (Len(h) - q) = Len(h) - 1
        BY <1>0
      <4> QED
        BY <2>5, <2>6, <4>2, <4>3
    <3>2. \A i \in 1..(q - 1) : g[i] = a[i]
      BY <2>5, <2>6, <2>7
    <3>3. \A i \in q..(Len(h) - 1) : g[i] = b[i - (q - 1)]
      BY <1>0, <2>5, <2>6, <2>7
    <3>4. \A i \in q..(Len(h) - 1) : i - (q - 1) \in 1..(Len(h) - q) /\ q + (i - (q - 1)) = i + 1
      BY <1>0
    <3>5. \A i \in q..(Len(h) - 1) : g[i] = h[i + 1]
      BY <2>6, <3>3, <3>4
    <3>6. \A i \in 1..(Len(h) - 1) : (i < q => i \in 1..(q - 1)) /\ (~(i < q) => i \in q..(Len(h) - 1))
      BY <1>0
    <3> QED
      BY <1>0, <2>5, <3>1, <3>2, <3>5, <3>6
  <2> QED
    BY <2>1, <2>3, <2>4, <2>7, <2>8 DEF RemoveAt
<1> QED
  BY <1>1, <1>2

\* w is h without k, and among the first n there is at most one row more.
TakenOut(S, h, w, k, n) ==
    /\ w \in Seq(S) /\ Distinct(w) /\ ToSet(w) = ToSet(h) \ {k}
    /\ FirstRows(h, n) \ {k} \subseteq FirstRows(w, n)
    /\ \E x : FirstRows(w, n) \subseteq FirstRows(h, n) \cup {x}

LEMMA WithoutKeepsOrder ==
  ASSUME NEW S, NEW h \in Seq(S), NEW k, Distinct(h), NEW n \in Nat,
         NEW w, w = Without(h, k)
  PROVE  TakenOut(S, h, w, k, n)
<1>1. CASE k \notin ToSet(h) /\ w = h
  BY <1>1 DEF TakenOut
<1>2. ASSUME NEW q \in 1..Len(h), h[q] = k, w \in Seq(S), Len(w) = Len(h) - 1,
             \A i \in 1..(Len(h) - 1) : w[i] = IF i < q THEN h[i] ELSE h[i + 1]
      PROVE  TakenOut(S, h, w, k, n)
  <2>0. PICK l \in Nat : l = Len(h) /\ q \in 1..l /\ Len(w) = l - 1
    BY <1>2
  <2>f. /\ \A i \in 1..l : h[i] \in ToSet(h) /\ (i <= n => h[i] \in FirstRows(h, n))
        /\ \A x \in ToSet(h) : \E i \in 1..l : x = h[i]
        /\ \A x \in FirstRows(h, n) : \E i \in 1..l : i <= n /\ x = h[i]
    <3>1. RowsAt(h, n)
      BY RowsAreAt
    <3> QED
      BY <2>0, <3>1 DEF RowsAt
  <2>g. /\ \A i \in 1..(l - 1) : w[i] \in ToSet(w) /\ (i <= n => w[i] \in FirstRows(w, n))
        /\ \A x \in ToSet(w) : \E i \in 1..(l - 1) : x = w[i]
        /\ \A x \in FirstRows(w, n) : \E i \in 1..(l - 1) : i <= n /\ x = w[i]
    <3>1. w \in Seq(S)
      BY <1>2
    <3>2. RowsAt(w, n)
      BY <3>1, RowsAreAt
    <3>3. Len(w) = l - 1
      BY <1>2, <2>0
    <3> QED
      BY <3>2, <3>3 DEF RowsAt
  <2>1. \A i \in 1..(l - 1) : i \in 1..l /\ i + 1 \in 1..l /\ (i < q => i # q) /\ (~(i < q) => i + 1 # q)
    BY <2>0
  <2>2. \A i, j \in 1..l : h[i] = h[j] => i = j
    BY <2>0 DEF Distinct
  <2>3. Distinct(w)
    <3> SUFFICES ASSUME NEW i \in 1..(l - 1), NEW j \in 1..(l - 1), w[i] = w[j]
                 PROVE  i = j
      BY <2>0 DEF Distinct
    <3>1. (IF i < q THEN i ELSE i + 1) = (IF j < q THEN j ELSE j + 1)
      BY <1>2, <2>0, <2>1, <2>2
    <3> QED
      BY <3>1, <2>0
  <2>4. \A i \in 1..(l - 1) : w[i] \in ToSet(h) \ {k}
    <3> TAKE i \in 1..(l - 1)
    <3>1. PICK j \in 1..l : w[i] = h[j] /\ j # q
      BY <1>2, <2>0, <2>1
    <3> QED
      BY <1>2, <2>0, <2>2, <3>1, FirstRowsOf
  <2>5. \A j \in 1..l : j # q => \E i \in 1..(l - 1) : i <= j /\ w[i] = h[j]
    <3> TAKE j \in 1..l
    <3>1. CASE j < q
      <4>1. j \in 1..(l - 1)
        BY <2>0, <3>1
      <4> QED
        BY <1>2, <2>0, <3>1, <4>1
    <3>2. CASE j > q
      <4>1. j - 1 \in 1..(l - 1) /\ ~(j - 1 < q) /\ (j - 1) + 1 = j /\ j - 1 <= j
        BY <2>0, <3>2
      <4>2. w[j - 1] = h[(j - 1) + 1]
        BY <1>2, <2>0, <4>1
      <4>3. w[j - 1] = h[j]
        BY <4>1, <4>2
      <4> QED
        BY <4>1, <4>3
    <3> QED
      BY <3>1, <3>2, <2>0
  <2>6. ToSet(w) = ToSet(h) \ {k}
    <3>1. ToSet(w) \subseteq ToSet(h) \ {k}
      BY <2>4, <2>g
    <3>2. ToSet(h) \ {k} \subseteq ToSet(w)
      <4> SUFFICES ASSUME NEW x \in ToSet(h), x # k
                   PROVE  x \in ToSet(w)
        OBVIOUS
      <4>1. PICK j \in 1..l : x = h[j]
        BY <2>f
      <4>2. PICK i \in 1..(l - 1) : w[i] = h[j]
        BY <1>2, <2>5, <4>1
      <4> QED
        BY <2>g, <4>1, <4>2
    <3> QED
      BY <3>1, <3>2
  <2>7. FirstRows(h, n) \ {k} \subseteq FirstRows(w, n)
    <3> SUFFICES ASSUME NEW x \in FirstRows(h, n), x # k
                 PROVE  x \in FirstRows(w, n)
      OBVIOUS
    <3>1. PICK j \in 1..l : j <= n /\ x = h[j]
      BY <2>f
    <3>2. PICK i \in 1..(l - 1) : i <= j /\ w[i] = h[j]
      BY <1>2, <2>5, <3>1
    <3>3. i <= n
      BY <3>1, <3>2
    <3> QED
      BY <2>g, <3>1, <3>2, <3>3
  <2>8. FirstRows(w, n) \subseteq FirstRows(h, n) \cup {h[n + 1]}
    <3> SUFFICES ASSUME NEW x \in FirstRows(w, n)
                 PROVE  x \in FirstRows(h, n) \cup {h[n + 1]}
      OBVIOUS
    <3>1. PICK i \in 1..(l - 1) : i <= n /\ x = w[i]
      BY <2>g
    <3>2. PICK j : j = IF i < q THEN i ELSE i + 1
      OBVIOUS
    <3>3. j \in 1..l /\ (j <= n \/ j = n + 1)
      BY <2>0, <3>1, <3>2
    <3>4. x = h[j]
      BY <1>2, <2>0, <3>1, <3>2
    <3> QED
      BY <2>f, <3>3, <3>4
  <2> QED
    BY <1>2, <2>3, <2>6, <2>7, <2>8 DEF TakenOut
<1>3. \/ k \notin ToSet(h) /\ w = h
      \/ \E q \in 1..Len(h) :
              /\ h[q] = k /\ w \in Seq(S) /\ Len(w) = Len(h) - 1
              /\ \A i \in 1..(Len(h) - 1) : w[i] = IF i < q THEN h[i] ELSE h[i + 1]
  BY WithoutMoves
<1> QED
  BY <1>1, <1>2, <1>3

\* A row is put in: those behind it move down by one place.
LEMMA InsertedMoves ==
  ASSUME NEW S, NEW w \in Seq(S), NEW k \in S, NEW p \in Positions(w), NEW g, g = InsertAt(w, p, k)
  PROVE  /\ g \in Seq(S) /\ Len(g) = Len(w) + 1 /\ p \in 1..(Len(w) + 1)
         /\ \A i \in 1..(Len(w) + 1) : g[i] = IF i < p THEN w[i] ELSE IF i = p THEN k ELSE w[i - 1]
<1>0. PICK l \in Nat : l = Len(w) /\ p \in 1..(l + 1) /\ \A i \in 1..l : w[i] \in S
  BY DEF Positions
<1>1. PICK a, b, c : a = SubSeq(w, 1, p - 1) /\ b = SubSeq(w, p, l) /\ c = a \o <<k>>
  OBVIOUS
<1>2. a \in Seq(S) /\ Len(a) = p - 1 /\ \A i \in 1..(p - 1) : a[i] = w[i]
  <2>1. 1 \in Int /\ p - 1 \in Int /\ \A i \in 1..(p - 1) : w[i] \in S
    BY <1>0
  <2>2. /\ a \in Seq(S) /\ Len(a) = IF 1 <= p - 1 THEN p - 1 - 1 + 1 ELSE 0
        /\ \A i \in 1..(p - 1 - 1 + 1) : a[i] = w[1 + i - 1]
    BY <1>1, <2>1, SubSeqProperties
  <2>3. p - 1 - 1 + 1 = p - 1 /\ (~(1 <= p - 1) => p - 1 = 0) /\ \A i \in 1..(p - 1) : 1 + i - 1 = i
    BY <1>0
  <2> QED
    BY <2>2, <2>3
<1>3. b \in Seq(S) /\ Len(b) = l - p + 1 /\ \A i \in 1..(l - p + 1) : b[i] = w[p + i - 1]
  <2>1. p \in Int /\ l \in Int /\ \A i \in p..l : w[i] \in S
    BY <1>0
  <2>2. /\ b \in Seq(S) /\ Len(b) = IF p <= l THEN l - p + 1 ELSE 0
        /\ \A i \in 1..(l - p + 1) : b[i] = w[p + i - 1]
    BY <1>1, <2>1, SubSeqProperties
  <2>3. ~(p <= l) => l - p + 1 = 0
    BY <1>0
  <2> QED
    BY <2>2, <2>3
<1>4. c \in Seq(S) /\ Len(c) = p /\ (\A i \in 1..(p - 1) : c[i] = w[i]) /\ c[p] = k
  <2>0. <<k>> \in Seq(S) /\ Len(<<k>>) = 1 /\ <<k>>[1] = k
    OBVIOUS
  <2>1. PICK d : d = <<k>> /\ d \in Seq(S) /\ Len(d) = 1 /\ d[1] = k
    BY <2>0
  <2>2. c \in Seq(S) /\ Len(c) = Len(a) + 1
    BY <1>1, <1>2, <2>1
  <2>3. \A i \in 1..(p - 1) : c[i] = a[i]
    BY <1>1, <1>2, <2>1
  <2>4. c[p] = k
    BY <1>0, <1>1, <1>2, <2>1
  <2> QED
    BY <1>0, <1>2, <2>2, <2>3, <2>4
<1>5. g = c \o b
  <2>1. g = (a \o <<k>>) \o b
    BY <1>0, <1>1 DEF InsertAt
  <2> QED
    BY <1>1, <2>1
<1>6. g \in Seq(S) /\ Len(g) = l + 1
  <2>1. g \in Seq(S) /\ Len(g) = Len(c) + Len(b)
    BY <1>3, <1>4, <1>5
  <2>2. p + (l - p + 1) = l + 1
    BY <1>0
  <2> QED
    BY <1>3, <1>4, <2>1, <2>2
<1>7. \A i \in 1..p : g[i] = c[i]
  BY <1>3, <1>4, <1>5
<1>8. \A i \in (p + 1)..(l + 1) : g[i] = w[i - 1]
  <2> TAKE i \in (p + 1)..(l + 1)
  <2>1. i - p \in 1..(l - p + 1) /\ p + (i - p) - 1 = i - 1
    BY <1>0
  <2>2. g[i] = b[i - p]
    BY <1>0, <1>3, <1>4, <1>5
  <2> QED
    BY <1>3, <2>1, <2>2
<1>9. ASSUME NEW i \in 1..(l + 1)
      PROVE  g[i] = IF i < p THEN w[i] ELSE IF i = p THEN k ELSE w[i - 1]
  <2>1. CASE i < p
    <3>1. i \in 1..p /\ i \in 1..(p - 1)
      BY <1>0, <2>1
    <3> QED
      BY <1>4, <1>7, <2>1, <3>1
  <2>2. CASE i = p
    <3>1. p \in 1..p /\ ~(p < p)
      BY <1>0
    <3> QED
      BY <1>4, <1>7, <2>2, <3>1
  <2>3. CASE i > p
    <3>1. i \in (p + 1)..(l + 1) /\ ~(i < p) /\ i # p
      BY <1>0, <2>3
    <3> QED
      BY <1>8, <3>1
  <2> QED
    BY <1>0, <2>1, <2>2, <2>3
<1> QED
  BY <1>0, <1>6, <1>9

\* g is w with k, and of the rows among the first n of w at most one is no longer,
\* and then because k is.
PutIn(S, w, g, k, n) ==
    /\ g \in Seq(S) /\ Distinct(g) /\ ToSet(g) = ToSet(w) \cup {k}
    /\ FirstRows(g, n) \subseteq FirstRows(w, n) \cup {k}
    /\ \/ FirstRows(w, n) \subseteq FirstRows(g, n)
       \/ k \in FirstRows(g, n) /\ \E z : FirstRows(w, n) \subseteq FirstRows(g, n) \cup {z}

LEMMA InsertedKeepsOrder ==
  ASSUME NEW S, NEW w \in Seq(S), NEW k \in S, Distinct(w), k \notin ToSet(w),
         NEW p \in Positions(w), NEW n \in Nat,
         NEW g, g = InsertAt(w, p, k)
  PROVE  PutIn(S, w, g, k, n)
<1>0. PICK l \in Nat : l = Len(w) /\ p \in 1..(l + 1)
  BY DEF Positions
<1>1. /\ g \in Seq(S) /\ Len(g) = l + 1
      /\ \A i \in 1..(l + 1) : g[i] = IF i < p THEN w[i] ELSE IF i = p THEN k ELSE w[i - 1]
  BY <1>0, InsertedMoves
<1>2. /\ \A i \in 1..l : w[i] \in ToSet(w) /\ (i <= n => w[i] \in FirstRows(w, n))
      /\ \A x \in ToSet(w) : \E i \in 1..l : x = w[i]
      /\ \A x \in FirstRows(w, n) : \E i \in 1..l : i <= n /\ x = w[i]
  <2>1. RowsAt(w, n)
    BY RowsAreAt
  <2> QED
    BY <1>0, <2>1 DEF RowsAt
<1>3. /\ \A i \in 1..(l + 1) : g[i] \in ToSet(g) /\ (i <= n => g[i] \in FirstRows(g, n))
      /\ \A x \in ToSet(g) : \E i \in 1..(l + 1) : x = g[i]
      /\ \A x \in FirstRows(g, n) : \E i \in 1..(l + 1) : i <= n /\ x = g[i]
  <2>1. g \in Seq(S)
    BY <1>1
  <2>2. RowsAt(g, n)
    BY <2>1, RowsAreAt
  <2>3. Len(g) = l + 1
    BY <1>1
  <2> QED
    BY <2>2, <2>3 DEF RowsAt
<1>4. \A i \in 1..l : w[i] # k
  BY <1>2
<1>5. \A i, j \in 1..l : w[i] = w[j] => i = j
  BY <1>0 DEF Distinct
<1>6. \A i \in 1..(l + 1) :
        /\ i < p => i \in 1..l /\ g[i] = w[i]
        /\ i = p => g[i] = k
        /\ i > p => i - 1 \in 1..l /\ g[i] = w[i - 1]
  <2> TAKE i \in 1..(l + 1)
  <2>1. /\ i < p => i \in 1..l
        /\ i = p => ~(i < p)
        /\ i > p => i - 1 \in 1..l /\ ~(i < p) /\ i # p
    BY <1>0
  <2> QED
    BY <1>1, <2>1
<1>7. Distinct(g)
  <2> SUFFICES ASSUME NEW i \in 1..(l + 1), NEW j \in 1..(l + 1), g[i] = g[j]
               PROVE  i = j
    BY <1>1 DEF Distinct
  <2>1. i \in Nat /\ j \in Nat /\ p \in Nat
    BY <1>0
  <2>2. CASE i = p \/ j = p
    <3>1. g[p] = k
      BY <1>0, <1>6
    <3>2. \A o \in 1..(l + 1) : o # p => g[o] # k
      <4> TAKE o \in 1..(l + 1)
      <4>1. o < p \/ o = p \/ o > p
        BY <1>0
      <4> QED
        BY <1>4, <1>6, <4>1
    <3> QED
      BY <2>2, <3>1, <3>2
  <2>3. CASE i # p /\ j # p
    <3>1. (IF i < p THEN i ELSE i - 1) = (IF j < p THEN j ELSE j - 1)
      <4>1. (i < p \/ i > p) /\ (j < p \/ j > p)
        BY <2>1, <2>3
      <4> QED
        BY <1>5, <1>6, <2>1, <4>1
    <3> QED
      BY <2>1, <2>3, <3>1
  <2> QED
    BY <2>2, <2>3
<1>8. \A i \in 1..(l + 1) : g[i] = k \/ \E j \in 1..l : j <= i /\ g[i] = w[j]
  <2> TAKE i \in 1..(l + 1)
  <2>1. i < p \/ i = p \/ i > p
    BY <1>0
  <2>2. i <= i /\ i - 1 <= i
    OBVIOUS
  <2> QED
    BY <1>6, <2>1, <2>2
<1>9. \A j \in 1..l :
        /\ j < p => j \in 1..(l + 1) /\ g[j] = w[j]
        /\ ~(j < p) => j + 1 \in 1..(l + 1) /\ g[j + 1] = w[j]
  <2> TAKE j \in 1..l
  <2>1. j \in 1..(l + 1) /\ j + 1 \in 1..(l + 1) /\ (~(j < p) => j + 1 > p) /\ j + 1 - 1 = j
    BY <1>0
  <2> QED
    BY <1>6, <2>1
<1>10. ToSet(g) = ToSet(w) \cup {k}
  <2>1. ASSUME NEW x \in ToSet(g)
        PROVE  x \in ToSet(w) \cup {k}
    BY <1>2, <1>3, <1>8
  <2>2. ASSUME NEW x \in ToSet(w)
        PROVE  x \in ToSet(g)
    BY <1>2, <1>3, <1>9
  <2>3. k \in ToSet(g)
    BY <1>0, <1>3, <1>6
  <2> QED
    BY <2>1, <2>2, <2>3
<1>11. FirstRows(g, n) \subseteq FirstRows(w, n) \cup {k}
  <2> SUFFICES ASSUME NEW x \in FirstRows(g, n), x # k
               PROVE  x \in FirstRows(w, n)
    OBVIOUS
  <2>1. PICK i \in 1..(l + 1) : i <= n /\ x = g[i]
    BY <1>3
  <2>2. PICK j \in 1..l : j <= i /\ g[i] = w[j]
    BY <1>8, <2>1
  <2>3. j <= n
    BY <2>1, <2>2
  <2> QED
    BY <1>2, <2>1, <2>2, <2>3
<1>12. CASE p > n
  <2>1. FirstRows(w, n) \subseteq FirstRows(g, n)
    <3> SUFFICES ASSUME NEW x \in FirstRows(w, n)
                 PROVE  x \in FirstRows(g, n)
      OBVIOUS
    <3>1. PICK j \in 1..l : j <= n /\ x = w[j]
      BY <1>2
    <3>2. j < p
      BY <1>0, <1>12, <3>1
    <3> QED
      BY <1>3, <1>9, <3>1, <3>2
  <2> QED
    BY <1>1, <1>7, <1>10, <1>11, <2>1 DEF PutIn
<1>13. CASE ~(p > n)
  <2>1. k \in FirstRows(g, n)
    <3>1. p <= n /\ p \in 1..(l + 1)
      BY <1>0, <1>13
    <3> QED
      BY <1>3, <1>6, <3>1
  <2>2. FirstRows(w, n) \subseteq FirstRows(g, n) \cup {w[n]}
    <3> SUFFICES ASSUME NEW x \in FirstRows(w, n), x # w[n]
                 PROVE  x \in FirstRows(g, n)
      OBVIOUS
    <3>1. PICK j \in 1..l : j <= n /\ x = w[j]
      BY <1>2
    <3>2. j + 1 <= n
      BY <3>1
    <3> QED
      BY <1>3, <1>9, <3>1, <3>2
  <2> QED
    BY <1>1, <1>7, <1>10, <1>11, <2>1, <2>2 DEF PutIn
<1> QED
  BY <1>12, <1>13

\* A moved or new row, as every commit places it.
LEMMA PlacedKeepsOrder ==
  ASSUME heap \in Seq(Ids), Distinct(heap), NEW k \in Ids, Placed(k)
  PROVE  /\ heap' \in Seq(Ids) /\ Distinct(heap') /\ ToSet(heap') = ToSet(heap) \cup {k}
         /\ \A n \in Nat : \E x : FirstRows(heap', n) \subseteq FirstRows(heap, n) \cup {x, k}
         /\ \A n \in Nat : \E z : FirstRows(heap, n) \subseteq FirstRows(heap', n) \cup {z}
<1>1. PICK w : w = Without(heap, k)
  OBVIOUS
<1>2. PICK p \in Positions(w) : heap' = InsertAt(w, p, k)
  BY <1>1 DEF Placed
<1>t. \A n \in Nat : TakenOut(Ids, heap, w, k, n)
  BY <1>1, WithoutKeepsOrder
<1>3. w \in Seq(Ids) /\ Distinct(w) /\ ToSet(w) = ToSet(heap) \ {k}
  <2>1. TakenOut(Ids, heap, w, k, 0)
    BY <1>t
  <2> QED
    BY <2>1 DEF TakenOut
<1>4. ASSUME NEW n \in Nat
      PROVE  /\ heap' \in Seq(Ids) /\ Distinct(heap') /\ ToSet(heap') = ToSet(heap) \cup {k}
             /\ \E x : FirstRows(heap', n) \subseteq FirstRows(heap, n) \cup {x, k}
             /\ \E z : FirstRows(heap, n) \subseteq FirstRows(heap', n) \cup {z}
  <2>1. PICK g : g = heap' /\ g = InsertAt(w, p, k)
    BY <1>2
  <2>2. /\ FirstRows(heap, n) \ {k} \subseteq FirstRows(w, n)
        /\ \E x : FirstRows(w, n) \subseteq FirstRows(heap, n) \cup {x}
    BY <1>t DEF TakenOut
  <2>3. /\ g \in Seq(Ids) /\ Distinct(g) /\ ToSet(g) = ToSet(w) \cup {k}
        /\ FirstRows(g, n) \subseteq FirstRows(w, n) \cup {k}
        /\ \/ FirstRows(w, n) \subseteq FirstRows(g, n)
           \/ k \in FirstRows(g, n) /\ \E z : FirstRows(w, n) \subseteq FirstRows(g, n) \cup {z}
    <3>1. k \notin ToSet(w)
      BY <1>3
    <3>2. PutIn(Ids, w, g, k, n)
      BY <1>3, <2>1, <3>1, InsertedKeepsOrder
    <3> QED
      BY <1>2, <1>3, <2>1, <3>2 DEF PutIn
  <2>4. \E x : FirstRows(g, n) \subseteq FirstRows(heap, n) \cup {x, k}
    BY <2>2, <2>3
  <2>5. \E z : FirstRows(heap, n) \subseteq FirstRows(g, n) \cup {z}
    <3>1. CASE FirstRows(w, n) \subseteq FirstRows(g, n)
      BY <2>2, <3>1
    <3>2. CASE k \in FirstRows(g, n) /\ \E z : FirstRows(w, n) \subseteq FirstRows(g, n) \cup {z}
      BY <2>2, <3>2
    <3> QED
      BY <2>3, <3>1, <3>2
  <2> QED
    BY <1>3, <2>1, <2>3, <2>4, <2>5
<1>5. heap' \in Seq(Ids) /\ Distinct(heap') /\ ToSet(heap') = ToSet(heap) \cup {k}
  <2>1. 0 \in Nat
    OBVIOUS
  <2> QED
    BY <1>4, <2>1
<1>6. /\ \A n \in Nat : \E x : FirstRows(heap', n) \subseteq FirstRows(heap, n) \cup {x, k}
      /\ \A n \in Nat : \E z : FirstRows(heap, n) \subseteq FirstRows(heap', n) \cup {z}
  BY <1>4
<1> QED
  BY <1>5, <1>6

\* A scan has as many rows as places.
LEMMA SeqOfRows ==
  ASSUME NEW S, NEW s \in Seq(S)
  PROVE  /\ IsFiniteSet(ToSet(s)) /\ Cardinality(ToSet(s)) \in Nat /\ Len(s) \in Nat
         /\ Cardinality(ToSet(s)) <= Len(s)
         /\ Distinct(s) => Cardinality(ToSet(s)) = Len(s)
<1>1. PICK n \in Nat : n = Len(s)
  OBVIOUS
<1>2. DOMAIN s = 1..n
  BY <1>1
<1>3. IsFiniteSet(1..n) /\ Cardinality(1..n) = n
  BY FS_Interval
<1>4. PICK T : T = ToSet(s)
  OBVIOUS
<1>5. s \in [1..n -> T] /\ \A t \in T : \E i \in 1..n : s[i] = t
  BY <1>2, <1>4 DEF ToSet
<1>6. s \in Surjection(1..n, T)
  BY <1>5 DEF Surjection
<1>7. /\ IsFiniteSet(T) /\ Cardinality(T) <= n
      /\ Cardinality(T) = n <=> s \in Injection(1..n, T)
  BY <1>3, <1>6, FS_Surjection
<1>8. Distinct(s) => s \in Injection(1..n, T)
  BY <1>1, <1>2, <1>5 DEF Distinct, Injection, IsInjective
<1> QED
  BY <1>1, <1>4, <1>7, <1>8, FS_CardinalityType

LEMMA AtMostOneMore ==
  ASSUME NEW A, IsFiniteSet(A), NEW x, NEW B, B \subseteq A \cup {x}
  PROVE  IsFiniteSet(B) /\ Cardinality(B) \in Nat /\ Cardinality(B) <= Cardinality(A) + 1
<1>1. IsFiniteSet(A \cup {x}) /\ Cardinality(A \cup {x}) <= Cardinality(A) + 1
  <2>1. Cardinality(A) \in Nat
    BY FS_CardinalityType
  <2>2. CASE x \in A
    BY <2>1, <2>2, FS_AddElement
  <2>3. CASE x \notin A
    <3>1. PICK C : C = A \cup {x}
      OBVIOUS
    <3>2. IsFiniteSet(C) /\ Cardinality(C) = IF x \in A THEN Cardinality(A) ELSE Cardinality(A) + 1
      BY <3>1, FS_AddElement
    <3>3. Cardinality(C) = Cardinality(A) + 1
      BY <2>3, <3>2
    <3> QED
      BY <2>1, <3>1, <3>2, <3>3
  <2> QED
    BY <2>2, <2>3
<1>2. IsFiniteSet(B) /\ Cardinality(B) <= Cardinality(A \cup {x})
  BY <1>1, FS_Subset
<1>3. Cardinality(B) \in Nat /\ Cardinality(A) \in Nat /\ Cardinality(A \cup {x}) \in Nat
  BY <1>1, <1>2, FS_CardinalityType
<1> QED
  BY <1>1, <1>2, <1>3

\* The rows of a page, and what it says that there are fewer.
LEMMA PageRows ==
  ASSUME heap \in Seq(Ids), Distinct(heap), NEW o \in Nat, NEW p, p = Page(o)
  PROVE  /\ p \in Seq(Ids) /\ Distinct(p)
         /\ ToSet(p) = FirstRows(heap, o + PageSize) \ FirstRows(heap, o)
         /\ FirstRows(heap, o) \subseteq FirstRows(heap, o + PageSize)
         /\ Len(p) < PageSize => FirstRows(heap, o + PageSize) = ToSet(heap)
         /\ Len(heap) < PageSize => FirstRows(heap, PageSize) = ToSet(heap)
         /\ FirstRows(heap, 0) = {}
<1>1. PICK l \in Nat : l = Len(heap) /\ \A i \in 1..l : heap[i] \in Ids
  OBVIOUS
<1>2. PageSize \in Nat \ {0}
  BY RegistryAssumption
<1>3. PICK e \in Nat : e = IF o + PageSize < l THEN o + PageSize ELSE l
  BY <1>2
<1>4. PICK m \in Nat : m = IF o + 1 <= e THEN e - o ELSE 0
  <2>1. (IF o + 1 <= e THEN e - o ELSE 0) \in Nat
    OBVIOUS
  <2> QED
    BY <2>1
<1>5. p \in Seq(Ids) /\ Len(p) = m /\ \A i \in 1..m : o + i \in 1..l /\ p[i] = heap[o + i]
  <2>1. p = SubSeq(heap, o + 1, e)
    BY <1>1, <1>3 DEF Page
  <2>2. o + 1 \in Int /\ e \in Int /\ \A i \in (o + 1)..e : heap[i] \in Ids
    BY <1>1, <1>2, <1>3
  <2>3. /\ p \in Seq(Ids) /\ Len(p) = IF o + 1 <= e THEN e - (o + 1) + 1 ELSE 0
        /\ \A i \in 1..(e - (o + 1) + 1) : p[i] = heap[(o + 1) + i - 1]
    BY <2>1, <2>2, SubSeqProperties
  <2>4. /\ e - (o + 1) + 1 = e - o
        /\ \A i \in 1..m : i \in 1..(e - (o + 1) + 1) /\ (o + 1) + i - 1 = o + i /\ o + i \in 1..l
    BY <1>2, <1>3, <1>4
  <2> QED
    BY <1>4, <2>3, <2>4
<1>6. \A i, j \in 1..l : heap[i] = heap[j] => i = j
  BY <1>1 DEF Distinct
<1>7. Distinct(p)
  <2> SUFFICES ASSUME NEW i \in 1..m, NEW j \in 1..m, p[i] = p[j]
               PROVE  i = j
    BY <1>5 DEF Distinct
  <2>1. o + i = o + j
    BY <1>5, <1>6
  <2> QED
    BY <2>1
<1>8. \A n \in Nat : RowsAt(heap, n)
  BY RowsAreAt
<1>9. /\ \A n \in Nat : \A i \in 1..l : heap[i] \in ToSet(heap) /\ (i <= n => heap[i] \in FirstRows(heap, n))
      /\ \A x \in ToSet(heap) : \E i \in 1..l : x = heap[i]
      /\ \A n \in Nat : \A x \in FirstRows(heap, n) : \E i \in 1..l : i <= n /\ x = heap[i]
  <2>1. 0 \in Nat
    OBVIOUS
  <2> QED
    BY <1>1, <1>8, <2>1 DEF RowsAt
<1>10. o + PageSize \in Nat /\ PageSize \in Nat
  BY <1>2
<1>11. RowsAt(p, 0)
  BY <1>5, RowsAreAt
<1>12. (\A i \in 1..m : p[i] \in ToSet(p)) /\ \A x \in ToSet(p) : \E i \in 1..m : x = p[i]
  BY <1>5, <1>11 DEF RowsAt
<1>13. ToSet(p) = FirstRows(heap, o + PageSize) \ FirstRows(heap, o)
  <2>1. ASSUME NEW x \in ToSet(p)
        PROVE  x \in FirstRows(heap, o + PageSize) \ FirstRows(heap, o)
    <3>1. PICK i \in 1..m : x = heap[o + i] /\ o + i \in 1..l
      BY <1>5, <1>12
    <3>2. o + i <= o + PageSize /\ ~(o + i <= o)
      BY <1>2, <1>3, <1>4
    <3>3. x \in FirstRows(heap, o + PageSize)
      BY <1>9, <1>10, <3>1, <3>2
    <3>4. x \notin FirstRows(heap, o)
      <4> SUFFICES ASSUME x \in FirstRows(heap, o)
                   PROVE  FALSE
        OBVIOUS
      <4>1. PICK j \in 1..l : j <= o /\ x = heap[j]
        BY <1>9
      <4>2. j = o + i
        BY <1>6, <3>1, <4>1
      <4> QED
        BY <3>2, <4>1, <4>2
    <3> QED
      BY <3>3, <3>4
  <2>2. ASSUME NEW x \in FirstRows(heap, o + PageSize), x \notin FirstRows(heap, o)
        PROVE  x \in ToSet(p)
    <3>1. PICK j \in 1..l : j <= o + PageSize /\ x = heap[j]
      BY <1>9, <1>10
    <3>2. ~(j <= o)
      BY <1>9, <2>2, <3>1
    <3>3. PICK i \in Nat : i = j - o /\ i \in 1..m /\ o + i = j
      <4>1. j - o \in Nat /\ j - o \in 1..m /\ o + (j - o) = j
        BY <1>2, <1>3, <1>4, <3>1, <3>2
      <4> QED
        BY <4>1
    <3>4. p[i] = x
      BY <1>5, <3>1, <3>3
    <3> QED
      BY <1>12, <3>3, <3>4
  <2> QED
    BY <2>1, <2>2
<1>14. FirstRows(heap, o) \subseteq FirstRows(heap, o + PageSize)
  <2> SUFFICES ASSUME NEW x \in FirstRows(heap, o)
               PROVE  x \in FirstRows(heap, o + PageSize)
    OBVIOUS
  <2>1. PICK j \in 1..l : j <= o /\ x = heap[j]
    BY <1>9
  <2>2. j <= o + PageSize
    BY <1>2, <2>1
  <2> QED
    BY <1>9, <1>10, <2>1, <2>2
<1>15. \A n \in Nat : l <= n => FirstRows(heap, n) = ToSet(heap)
  BY <1>1, FirstRowsOf
<1>16. Len(p) < PageSize => l <= o + PageSize
  BY <1>2, <1>3, <1>4, <1>5
<1>17. FirstRows(heap, 0) = {}
  <2>1. \A i \in 1..l : ~(i <= 0)
    OBVIOUS
  <2>2. 0 \in Nat
    OBVIOUS
  <2> QED
    BY <1>9, <2>1, <2>2
<1>18. Len(heap) < PageSize => l <= PageSize
  BY <1>1, <1>2
<1> QED
  BY <1>5, <1>7, <1>10, <1>13, <1>14, <1>15, <1>16, <1>17, <1>18

\* What the counts still to come would add, if they were taken now.
CountAt(c, n) == IF n <= Len(c) THEN c[n] ELSE 0
SumOf(c) == CountAt(c, 1) + CountAt(c, 2) + CountAt(c, 3) + CountAt(c, 4)
Later(n) == {i \in Present : \E m \in 1..4 : m > n /\ row[i].status = StatusOrder[m]}

HealthAnswers == [task : {"health"}, total : Nat, counts : Seq(Nat)]
ListAnswers == [task : {"list"}, got : Seq(Ids), offset : Nat, last : BOOLEAN]

\* Total and counts differ by no more than there were commits.
HealthOK(r) ==
    /\ r \in HealthAnswers /\ Len(r.counts) <= 4
    /\ SumOf(r.counts) + Cardinality(Later(Len(r.counts))) <= r.total + drift
    /\ r.total <= SumOf(r.counts) + Cardinality(Later(Len(r.counts))) + drift

\* What the pages were to have shown and did not, and what they have shown and
\* will again.
Missed(r) == (IF r.last THEN Present ELSE FirstRows(heap, r.offset)) \ (touched \cup ToSet(r.got))
Again(r) == (Present \ FirstRows(heap, r.offset)) \cap ToSet(r.got)

ListOK(r) ==
    /\ r \in ListAnswers /\ ToSet(r.got) \subseteq born
    /\ Cardinality(Missed(r)) <= drift
    /\ Cardinality(Again(r)) + Len(r.got) <= Cardinality(ToSet(r.got)) + drift

DriftInv ==
    /\ heap \in Seq(Ids) /\ Distinct(heap) /\ ToSet(heap) = Present
    /\ drift \in Nat
    /\ report # NoReport => HealthOK(report) \/ ListOK(report)

\* Every row has one of the statuses that are counted.
LEMMA PresentRows ==
  ASSUME RegistryInv, DriftInv
  PROVE  /\ IsFiniteSet(Present) /\ Cardinality(Present) \in Nat /\ Present \subseteq Ids
         /\ \A i \in Present : i \in Keys /\ i \in born /\ row[i] \in RepositoryRows
         /\ \A n : Later(n) \subseteq Present
         /\ Later(0) = Present
<1>1. IsFiniteSet(ToSet(heap)) /\ Cardinality(ToSet(heap)) \in Nat /\ ToSet(heap) = Present
  BY SeqOfRows DEF DriftInv
<1>2. \A i \in Present : i \in Ids /\ Exists(i) /\ i \in Keys
  BY KeysAre DEF Present
<1>3. \A i \in Present : i \in born /\ row[i] \in RepositoryRows
  BY <1>2 DEF RegistryInv, RegistryTypeOK
<1>4. \A s \in Statuses : \E m \in 1..4 : m > 0 /\ s = StatusOrder[m]
  <2>1. 1 \in 1..4 /\ 2 \in 1..4 /\ 3 \in 1..4 /\ 4 \in 1..4 /\ 1 > 0 /\ 2 > 0 /\ 3 > 0 /\ 4 > 0
    OBVIOUS
  <2>2. /\ StatusOrder[1] = "idle" /\ StatusOrder[2] = "indexing"
        /\ StatusOrder[3] = "error" /\ StatusOrder[4] = "stale"
    BY DEF StatusOrder
  <2> QED
    BY <2>1, <2>2 DEF Statuses
<1>5. \A i \in Present : row[i].status \in Statuses
  BY <1>3 DEF RepositoryRows
<1>6. \A n : Later(n) \subseteq Present
  BY DEF Later
<1>7. Later(0) = Present
  BY <1>4, <1>5, <1>6 DEF Later
<1> QED
  BY <1>1, <1>2, <1>3, <1>6, <1>7

\* One count is taken of those that were to come.
LEMMA LaterIsCounted ==
  ASSUME RegistryInv, DriftInv, NEW n \in 0..3, NEW m, m = n + 1
  PROVE  /\ Cardinality(WithStatus(StatusOrder[m])) \in Nat /\ Cardinality(Later(m)) \in Nat
         /\ Cardinality(Later(n)) = Cardinality(WithStatus(StatusOrder[m])) + Cardinality(Later(m))
<1>1. PICK A, B, C : A = WithStatus(StatusOrder[m]) /\ B = Later(m) /\ C = Later(n)
  OBVIOUS
<1>2. A \subseteq Present /\ B \subseteq Present
  BY <1>1, PresentRows DEF WithStatus
<1>3. IsFiniteSet(A) /\ IsFiniteSet(B)
  BY <1>2, PresentRows, FS_Subset
<1>4. \A k \in 1..4 : k > n <=> k = m \/ k > m
  OBVIOUS
<1>5. m \in 1..4 /\ ~(m > m)
  OBVIOUS
<1>6. C = A \cup B
  BY <1>1, <1>4, <1>5 DEF Later, WithStatus
<1>7. \A k, l \in 1..4 : StatusOrder[k] = StatusOrder[l] => k = l
  BY DEF StatusOrder
<1>8. A \cap B = {}
  BY <1>1, <1>5, <1>7 DEF Later, WithStatus
<1>9. Cardinality(C) = Cardinality(A) + Cardinality(B) - Cardinality(A \cap B)
  BY <1>3, <1>6, FS_Union
<1>10. Cardinality(A \cap B) = 0
  BY <1>8, FS_EmptySet
<1>11. Cardinality(A) \in Nat /\ Cardinality(B) \in Nat
  BY <1>3, FS_CardinalityType
<1> QED
  BY <1>1, <1>9, <1>10, <1>11

LEMMA SumGrows ==
  ASSUME NEW c \in Seq(Nat), Len(c) < 4, NEW x \in Nat
  PROVE  SumOf(Append(c, x)) = SumOf(c) + x /\ SumOf(c) \in Nat
<1>1. PICK n \in Nat : n = Len(c)
  OBVIOUS
<1>2. PICK d : d = Append(c, x)
  OBVIOUS
<1>3. Len(d) = n + 1 /\ d[n + 1] = x /\ \A i \in 1..n : d[i] = c[i] /\ c[i] \in Nat
  BY <1>1, <1>2
<1>4. n = 0 \/ n = 1 \/ n = 2 \/ n = 3
  BY <1>1
<1> DEFINE at(q) == CountAt(c, q)
           to(q) == CountAt(d, q)
<1>5. \A q \in 1..4 : /\ at(q) \in Nat
                      /\ to(q) = IF q = n + 1 THEN x ELSE at(q)
                      /\ q >= n + 1 => at(q) = 0
  BY <1>1, <1>3, <1>4 DEF CountAt
<1>6. PICK a1 \in Nat, a2 \in Nat, a3 \in Nat, a4 \in Nat : a1 = at(1) /\ a2 = at(2) /\ a3 = at(3) /\ a4 = at(4)
  BY <1>5
<1>7. PICK b1 \in Nat, b2 \in Nat, b3 \in Nat, b4 \in Nat : b1 = to(1) /\ b2 = to(2) /\ b3 = to(3) /\ b4 = to(4)
  BY <1>5
<1>8. SumOf(c) = a1 + a2 + a3 + a4 /\ SumOf(d) = b1 + b2 + b3 + b4
  BY <1>6, <1>7 DEF SumOf
<1>9. /\ b1 = IF 1 = n + 1 THEN x ELSE a1
      /\ b2 = IF 2 = n + 1 THEN x ELSE a2
      /\ b3 = IF 3 = n + 1 THEN x ELSE a3
      /\ b4 = IF 4 = n + 1 THEN x ELSE a4
      /\ 1 >= n + 1 => a1 = 0
      /\ 2 >= n + 1 => a2 = 0
      /\ 3 >= n + 1 => a3 = 0
      /\ 4 >= n + 1 => a4 = 0
  BY <1>5, <1>6, <1>7
<1>10. b1 + b2 + b3 + b4 = (a1 + a2 + a3 + a4) + x
  BY <1>4, <1>9
<1> QED
  BY <1>2, <1>8, <1>10

LEMMA SumIs ==
  ASSUME NEW c \in Seq(Nat)
  PROVE  SumOf(c) \in Nat
<1>1. PICK n \in Nat : n = Len(c)
  OBVIOUS
<1>2. \A i \in 1..n : c[i] \in Nat
  BY <1>1
<1>3. \A q \in 1..4 : CountAt(c, q) \in Nat
  BY <1>1, <1>2 DEF CountAt
<1> QED
  BY <1>3 DEF SumOf

LEMMA TwoPages ==
  ASSUME NEW S, NEW a \in Seq(S), NEW b \in Seq(S)
  PROVE  ToSet(a \o b) = ToSet(a) \cup ToSet(b) /\ a \o b \in Seq(S) /\ Len(a \o b) = Len(a) + Len(b)
<1>1. PICK n \in Nat, m \in Nat : n = Len(a) /\ m = Len(b)
  OBVIOUS
<1>2. PICK c : c = a \o b
  OBVIOUS
<1>3. /\ c \in Seq(S) /\ Len(c) = n + m /\ DOMAIN c = 1..(n + m) /\ DOMAIN a = 1..n /\ DOMAIN b = 1..m
  BY <1>1, <1>2
<1>4. \A i \in 1..n : c[i] = a[i] /\ i \in 1..(n + m)
  BY <1>1, <1>2
<1>5. \A i \in 1..m : c[n + i] = b[i] /\ n + i \in 1..(n + m)
  BY <1>1, <1>2
<1>6. \A i \in 1..(n + m) : i \in 1..n \/ \E j \in 1..m : i = n + j
  <2> SUFFICES ASSUME NEW i \in 1..(n + m), i \notin 1..n PROVE \E j \in 1..m : i = n + j
    OBVIOUS
  <2>1. i - n \in 1..m /\ i = n + (i - n)
    OBVIOUS
  <2> QED
    BY <2>1
<1>7. ASSUME NEW x \in ToSet(c)
      PROVE  x \in ToSet(a) \cup ToSet(b)
  <2>1. PICK i \in 1..(n + m) : x = c[i]
    BY <1>3 DEF ToSet
  <2>2. CASE i \in 1..n
    BY <1>3, <1>4, <2>1, <2>2 DEF ToSet
  <2>3. CASE \E j \in 1..m : i = n + j
    <3>1. PICK j \in 1..m : i = n + j
      BY <2>3
    <3>2. x = b[j]
      BY <1>5, <2>1, <3>1
    <3> QED
      BY <1>3, <3>1, <3>2 DEF ToSet
  <2> QED
    BY <1>6, <2>2, <2>3
<1>8. ToSet(a) \subseteq ToSet(c) /\ ToSet(b) \subseteq ToSet(c)
  BY <1>3, <1>4, <1>5 DEF ToSet
<1> QED
  BY <1>1, <1>2, <1>3, <1>7, <1>8

\* A commit, as the readers see it: one repository k is written, if any, and where
\* the others are may change by one place.
OneWritten(k, keys) ==
    /\ k \in keys
    /\ heap' \in Seq(Ids) /\ Distinct(heap') /\ ToSet(heap') = Present'
    /\ Present \ {k} \subseteq Present' /\ Present' \subseteq Present \cup {k}
    /\ k \in Present' => k \in Present \/ k \notin born
    /\ \A i \in Ids \ {k} : row'[i] = row[i]
    /\ born \subseteq born'
    /\ \A n \in Nat : \E x : FirstRows(heap', n) \subseteq FirstRows(heap, n) \cup {x, k}
    /\ \A n \in Nat : \E z : FirstRows(heap, n) \subseteq FirstRows(heap', n) \cup {z}

LEMMA HealthKept ==
  ASSUME RegistryInv, DriftInv, NEW k, NEW keys, OneWritten(k, keys), RegistryInv',
         NEW r, HealthOK(r), drift' = drift + 1
  PROVE  HealthOK(r)'
<1>1. PICK n \in Nat : n = Len(r.counts) /\ n <= 4
  BY DEF HealthOK, HealthAnswers
<1>2. PICK A, B : A = Later(n) /\ B = Later(n)'
  OBVIOUS
<1>3. A \subseteq Present
  BY <1>2, PresentRows
<1>4. B \subseteq A \cup {k} /\ A \subseteq B \cup {k}
  BY <1>2 DEF OneWritten, Later, Present
<1>5. IsFiniteSet(A)
  BY <1>3, PresentRows, FS_Subset
<1>6. IsFiniteSet(B) /\ Cardinality(B) \in Nat /\ Cardinality(B) <= Cardinality(A) + 1
  BY <1>4, <1>5, AtMostOneMore
<1>7. Cardinality(A) <= Cardinality(B) + 1 /\ Cardinality(A) \in Nat
  BY <1>4, <1>6, AtMostOneMore
<1>8. PICK a \in Nat, b \in Nat, d \in Nat : a = Cardinality(A) /\ b = Cardinality(B) /\ d = drift
  BY <1>6, <1>7 DEF DriftInv
<1>9. PICK c, t : c = SumOf(r.counts) /\ t = r.total
  OBVIOUS
<1>10. t \in Nat /\ c \in Nat
  <2>1. r.total \in Nat /\ r.counts \in Seq(Nat)
    BY DEF HealthOK, HealthAnswers
  <2> QED
    BY <1>9, <2>1, SumIs
<1>11. c + a <= t + d /\ t <= c + a + d
  BY <1>1, <1>2, <1>8, <1>9 DEF HealthOK
<1>12. c + b <= t + (d + 1) /\ t <= c + b + (d + 1)
  BY <1>6, <1>7, <1>8, <1>10, <1>11
<1>13. SumOf(r.counts) + Cardinality(Later(Len(r.counts))') <= r.total + drift'
  BY <1>1, <1>2, <1>8, <1>9, <1>12
<1>14. r.total <= SumOf(r.counts) + Cardinality(Later(Len(r.counts))') + drift'
  BY <1>1, <1>2, <1>8, <1>9, <1>12
<1> QED
  BY <1>13, <1>14 DEF HealthOK

LEMMA ListKept ==
  ASSUME RegistryInv, DriftInv, NEW k, NEW keys, OneWritten(k, keys), RegistryInv',
         NEW r, ListOK(r), drift' = drift + 1, touched' = touched \cup keys
  PROVE  ListOK(r)'
<1>1. PICK o \in Nat : o = r.offset
  BY DEF ListOK, ListAnswers
<1>2. PICK g : g = ToSet(r.got)
  OBVIOUS
<1>3. PICK F, G : F = FirstRows(heap, o) /\ G = FirstRows(heap', o)
  OBVIOUS
<1>4. PICK x, z : G \subseteq F \cup {x, k} /\ F \subseteq G \cup {z}
  BY <1>3 DEF OneWritten
<1>5. k \in Present' => k \in Present \/ k \notin g
  BY <1>2 DEF OneWritten, ListOK
<1>p. PICK P, Q : P = Present /\ Q = Present'
  OBVIOUS
<1>6. k \in keys /\ P \ {k} \subseteq Q /\ Q \subseteq P \cup {k}
  BY <1>p DEF OneWritten
<1>7. PICK M, N : M = Missed(r) /\ N = (IF r.last THEN Q ELSE G) \ ((touched \cup keys) \cup g)
  OBVIOUS
<1>8. M = (IF r.last THEN P ELSE F) \ (touched \cup g)
  BY <1>1, <1>2, <1>3, <1>7, <1>p DEF Missed
<1>9. N \subseteq M \cup {x}
  BY <1>4, <1>6, <1>7, <1>8
<1>10. PICK C, D : C = (P \ F) \cap g /\ D = (Q \ G) \cap g
  OBVIOUS
<1>11. D \subseteq C \cup {z}
  BY <1>4, <1>5, <1>6, <1>10, <1>p
<1>12. IsFiniteSet(P) /\ F \subseteq P
  <2>1. F \subseteq ToSet(heap)
    BY <1>3, FirstRowsOf DEF DriftInv
  <2> QED
    BY <1>p, <2>1, PresentRows DEF DriftInv
<1>13. IsFiniteSet(M) /\ IsFiniteSet(C)
  <2>1. M \subseteq P /\ C \subseteq P
    BY <1>8, <1>10, <1>12
  <2> QED
    BY <1>12, <2>1, FS_Subset
<1>14. Cardinality(N) \in Nat /\ Cardinality(N) <= Cardinality(M) + 1
  BY <1>9, <1>13, AtMostOneMore
<1>15. Cardinality(D) \in Nat /\ Cardinality(D) <= Cardinality(C) + 1
  BY <1>11, <1>13, AtMostOneMore
<1>16. Cardinality(M) \in Nat /\ Cardinality(C) \in Nat /\ drift \in Nat
  BY <1>13, FS_CardinalityType DEF DriftInv
<1>17. /\ r \in ListAnswers /\ r.got \in Seq(Ids)
       /\ Cardinality(M) <= drift /\ Cardinality(C) + Len(r.got) <= Cardinality(g) + drift
  BY <1>1, <1>2, <1>3, <1>7, <1>10, <1>p DEF ListOK, ListAnswers, Again
<1>18. Len(r.got) \in Nat /\ Cardinality(g) \in Nat
  BY <1>2, <1>17, SeqOfRows
<1>19. Cardinality(N) <= drift' /\ Cardinality(D) + Len(r.got) <= Cardinality(g) + drift'
  BY <1>14, <1>15, <1>16, <1>17, <1>18
<1>20. N = Missed(r)' /\ D = Again(r)'
  BY <1>1, <1>2, <1>3, <1>7, <1>10, <1>p DEF Missed, Again
<1>21. ToSet(r.got) \subseteq born'
  BY DEF ListOK, OneWritten
<1> QED
  BY <1>2, <1>17, <1>19, <1>20, <1>21 DEF ListOK

LEMMA DriftKept ==
  ASSUME RegistryInv, DriftInv, NEW k, NEW keys, OneWritten(k, keys), RegistryInv',
         Noted(keys), report' = report
  PROVE  DriftInv'
<1>1. drift' \in Nat
  BY DEF Noted, DriftInv
<1>2. ASSUME report # NoReport
      PROVE  HealthOK(report)' \/ ListOK(report)'
  <2>1. drift' = drift + 1 /\ touched' = touched \cup keys
    BY <1>2 DEF Noted
  <2>2. PICK r : r = report
    OBVIOUS
  <2>3. CASE HealthOK(r)
    <3>1. HealthOK(r)'
      BY <2>1, <2>3, HealthKept
    <3> QED
      BY <2>2, <3>1 DEF HealthOK
  <2>4. CASE ListOK(r)
    <3>1. ListOK(r)'
      BY <2>1, <2>4, ListKept
    <3> QED
      BY <2>2, <3>1 DEF ListOK, Missed, Again
  <2> QED
    BY <1>2, <2>2, <2>3, <2>4 DEF DriftInv
<1> QED
  BY <1>1, <1>2 DEF DriftInv, OneWritten

LEMMA DriftUnread ==
  ASSUME DriftInv, UNCHANGED <<row, heap, born, report, drift, touched>>
  PROVE  DriftInv'
<1>1. Present' = Present
  BY DEF Present, Exists
<1>2. HealthOK(report) => HealthOK(report)'
  BY <1>1 DEF HealthOK, Later
<1>3. ListOK(report) => ListOK(report)'
  BY <1>1 DEF ListOK, Missed, Again
<1> QED
  BY <1>1, <1>2, <1>3 DEF DriftInv

LEMMA DriftCreate ==
  ASSUME RegistryInv, DriftInv, NEW k \in Keys, NEW new, Inserted(k, new),
         RegistryInv', k \in Ids => new \in RepositoryRows
  PROVE  DriftInv'
<1>1. /\ k \notin born /\ born' = born \cup {k} /\ row' = [row EXCEPT ![k] = new]
      /\ Placed(k) /\ Noted({k}) /\ report' = report
  BY DEF Inserted
<1>2. DOMAIN row = Keys /\ row'[k] = new /\ \A i \in Ids \ {k} : row'[i] = row[i]
  BY <1>1, KeysAre DEF RegistryInv, RegistryTypeOK
<1>3. heap \in Seq(Ids) /\ Distinct(heap) /\ ToSet(heap) = Present
  BY DEF DriftInv
<1>4. k \notin Present
  BY <1>1, PresentRows
<1>5. CASE k \in Ids
  <2>1. new # NoRow
    BY <1>5, RegistryAssumption
  <2>2. Present' = Present \cup {k}
    BY <1>2, <1>5, <2>1 DEF Present, Exists
  <2>3. OneWritten(k, {k})
    BY <1>1, <1>2, <1>3, <1>5, <2>2, PlacedKeepsOrder DEF OneWritten
  <2> QED
    BY <1>1, <2>3, DriftKept
<1>6. CASE k \notin Ids
  <2>1. heap' = heap
    BY <1>1, <1>6 DEF Placed
  <2>2. Present' = Present
    BY <1>2, <1>6 DEF Present, Exists
  <2>3. OneWritten(k, {k})
    BY <1>1, <1>2, <1>3, <1>4, <2>1, <2>2 DEF OneWritten
  <2> QED
    BY <1>1, <2>3, DriftKept
<1> QED
  BY <1>5, <1>6

LEMMA DriftUpdate ==
  ASSUME RegistryInv, DriftInv, NEW s \in Sessions, CommitUpdate(s), RegistryInv'
  PROVE  DriftInv'
<1>1. PICK w \in WorkRecord : work[s] = w /\ Fits(w)
  BY DEF CommitUpdate, RegistryInv, WorkOK
<1>2. PICK k \in Keys : k = w.key
  BY DEF WorkRecord
<1>3. /\ w.call.method # "delete" /\ row' = Written(w) /\ Remembered(w) /\ born' = born /\ report' = report
      /\ IF row'[k] # NoRow /\ Moves(w) THEN Placed(k) ELSE UNCHANGED heap
  BY <1>1, <1>2 DEF CommitUpdate
<1>4. DOMAIN row = Keys
  BY DEF RegistryInv, RegistryTypeOK
<1>5. CASE ~Exists(k)
  <2>1. row' = row /\ UNCHANGED <<drift, touched>>
    BY <1>2, <1>3, <1>5 DEF Written, Remembered
  <2>2. heap' = heap
    BY <1>3, <1>5, <2>1 DEF Exists
  <2> QED
    BY <1>3, <2>1, <2>2, DriftUnread
<1>6. CASE Exists(k)
  <2>1. PICK made : made = Overwritten(row[k], w.new, w.columns)
    OBVIOUS
  <2>2. row' = [row EXCEPT ![k] = made] /\ Noted({k})
    BY <1>2, <1>3, <1>6, <2>1 DEF Written, Remembered
  <2>3. row'[k] = made /\ \A i \in Ids \ {k} : row'[i] = row[i]
    BY <1>4, <2>2, KeysAre
  <2>4. heap \in Seq(Ids) /\ Distinct(heap) /\ ToSet(heap) = Present
    BY DEF DriftInv
  <2>5. CASE k \in Ids
    <3>1. row[k] \in RepositoryRows /\ w.new \in RepositoryRows
      BY <1>1, <1>2, <1>6, <2>5 DEF Fits, RegistryInv, RegistryTypeOK
    <3>2. made \in RepositoryRows
      BY <2>1, <3>1, RowOverwritten
    <3>3. made # NoRow
      BY <3>2, RegistryAssumption
    <3>4. Present' = Present /\ k \in Present
      BY <1>6, <2>3, <2>5, <3>3 DEF Present, Exists
    <3>5. CASE Placed(k)
      <4>1. OneWritten(k, {k})
        BY <1>3, <2>3, <2>4, <2>5, <3>4, <3>5, PlacedKeepsOrder DEF OneWritten
      <4> QED
        BY <1>3, <2>2, <4>1, DriftKept
    <3>6. CASE heap' = heap
      <4>1. OneWritten(k, {k})
        BY <1>3, <2>3, <2>4, <3>4, <3>6 DEF OneWritten
      <4> QED
        BY <1>3, <2>2, <4>1, DriftKept
    <3> QED
      BY <1>3, <3>5, <3>6
  <2>6. CASE k \notin Ids
    <3>1. heap' = heap
      BY <1>3, <2>6 DEF Placed
    <3>2. Present' = Present /\ k \notin Present
      BY <2>3, <2>6 DEF Present, Exists
    <3>3. OneWritten(k, {k})
      BY <1>3, <2>3, <2>4, <3>1, <3>2 DEF OneWritten
    <3> QED
      BY <1>3, <2>2, <3>3, DriftKept
  <2> QED
    BY <2>5, <2>6
<1> QED
  BY <1>5, <1>6

LEMMA DriftDelete ==
  ASSUME RegistryInv, DriftInv, NEW s \in Sessions, CommitDelete(s), RegistryInv'
  PROVE  DriftInv'
<1>1. PICK w \in WorkRecord : work[s] = w /\ Fits(w)
  BY DEF CommitDelete, RegistryInv, WorkOK
<1>2. PICK k \in Keys : k = w.key
  BY DEF WorkRecord
<1>3. /\ w.call.method = "delete" /\ heap' = Without(heap, k) /\ Noted(Gone(k)) /\ UNCHANGED <<born, report>>
      /\ row' = [x \in Keys |-> IF x \in Gone(k) THEN NoRow ELSE row[x]]
  BY <1>1, <1>2 DEF CommitDelete
<1>4. k \in Ids
  <2>1. k \in JobIds => w.call \in JobCalls
    BY <1>1, <1>2 DEF Fits
  <2> QED
    BY <1>2, <1>3, <2>1, KeysAre, CallsAre
<1>5. k \in Gone(k) /\ \A i \in Ids \ {k} : i \notin Gone(k)
  BY KeysAre DEF Gone
<1>6. row'[k] = NoRow /\ \A i \in Ids \ {k} : row'[i] = row[i]
  BY <1>3, <1>4, <1>5, KeysAre
<1>7. Present' = Present \ {k}
  BY <1>6 DEF Present, Exists
<1>8. heap \in Seq(Ids) /\ Distinct(heap) /\ ToSet(heap) = Present
  BY DEF DriftInv
<1>9. \A n \in Nat : TakenOut(Ids, heap, heap', k, n)
  BY <1>3, <1>8, WithoutKeepsOrder
<1>10. heap' \in Seq(Ids) /\ Distinct(heap') /\ ToSet(heap') = Present'
  <2>1. 0 \in Nat
    OBVIOUS
  <2> QED
    BY <1>7, <1>8, <1>9, <2>1 DEF TakenOut
<1>11. \A n \in Nat : \E x : FirstRows(heap', n) \subseteq FirstRows(heap, n) \cup {x, k}
  <2> TAKE n \in Nat
  <2>1. PICK x : FirstRows(heap', n) \subseteq FirstRows(heap, n) \cup {x}
    BY <1>9 DEF TakenOut
  <2> QED
    BY <2>1
<1>12. \A n \in Nat : \E z : FirstRows(heap, n) \subseteq FirstRows(heap', n) \cup {z}
  <2> TAKE n \in Nat
  <2>1. FirstRows(heap, n) \ {k} \subseteq FirstRows(heap', n)
    BY <1>9 DEF TakenOut
  <2>2. FirstRows(heap, n) \subseteq FirstRows(heap', n) \cup {k}
    BY <2>1
  <2> QED
    BY <2>2
<1>13. OneWritten(k, Gone(k))
  BY <1>3, <1>5, <1>6, <1>7, <1>10, <1>11, <1>12 DEF OneWritten
<1> QED
  BY <1>3, <1>13, DriftKept

\* The first scan finds the rows that were given.
LEMMA InitDrift == RegistryInit => DriftInv
<1> SUFFICES ASSUME RegistryInit
             PROVE  DriftInv
  OBVIOUS
<1>1. PICK S : S = Given \cap Ids
  OBVIOUS
<1>2. IsFiniteSet(S)
  <2>1. S \subseteq Given
    BY <1>1
  <2> QED
    BY <2>1, RegistryAssumption, FS_Subset
<1>3. PICK n \in Nat : n = Cardinality(S)
  BY <1>2, FS_CardinalityType
<1>4. heap \in [1..n -> S] /\ \A i, j \in 1..n : i # j => heap[i] # heap[j]
  BY <1>1, <1>3 DEF RegistryInit, SetToSeqs
<1>5. heap \in Injection(1..n, S)
  BY <1>4 DEF Injection, IsInjective
<1>6. IsFiniteSet(1..n) /\ Cardinality(1..n) = n
  BY FS_Interval
<1>7. heap \in Surjection(1..n, S)
  BY <1>2, <1>3, <1>5, <1>6, FS_Injection
<1>8. heap \in Seq(Ids) /\ Len(heap) = n /\ DOMAIN heap = 1..n
  <2>1. heap \in [1..n -> Ids]
    BY <1>1, <1>4
  <2> QED
    BY <2>1
<1>9. Distinct(heap)
  BY <1>4, <1>8 DEF Distinct
<1>10. ToSet(heap) = S
  BY <1>4, <1>7, <1>8 DEF ToSet, Surjection
<1>11. Present = S
  <2>1. row = [k \in Keys |-> IF k \notin Given THEN NoRow
                             ELSE IF k \in Ids THEN NewRow("idle") ELSE NewJob]
    BY DEF RegistryInit
  <2>2. NewRow("idle") # NoRow
    <3>1. NewRow("idle") \in RepositoryRows
      BY NewRowIs DEF Statuses
    <3> QED
      BY <3>1, RegistryAssumption
  <2>3. \A i \in Ids : row[i] = IF i \in Given THEN NewRow("idle") ELSE NoRow
    BY <2>1, KeysAre
  <2> QED
    BY <1>1, <2>2, <2>3 DEF Present, Exists
<1>12. drift \in Nat /\ report = NoReport
  BY DEF RegistryInit
<1> QED
  BY <1>8, <1>9, <1>10, <1>11, <1>12 DEF DriftInv

\* Where the readers look, nothing changes.
Looks == UNCHANGED <<row, heap, born>>

\* What a reader does.
LEMMA DriftRead ==
  ASSUME DriftInv, Looks, drift' \in Nat,
         report' # NoReport => HealthOK(report)' \/ ListOK(report)'
  PROVE  DriftInv'
<1>1. Present' = Present
  BY DEF Present, Exists, Looks
<1> QED
  BY <1>1 DEF DriftInv, Looks

LEMMA DriftCountAll ==
  ASSUME RegistryInv, DriftInv, CountAll
  PROVE  DriftInv'
<1>1. /\ report' = [task |-> "health", total |-> Cardinality(Present), counts |-> <<>>]
      /\ drift' = 0 /\ Looks
  BY DEF CountAll, Start, Looks
<1>2. PICK t \in Nat : t = Cardinality(Present) /\ t = Cardinality(Later(0))
  BY PresentRows
<1>3. PICK c : c = <<>>
  OBVIOUS
<1>4. c \in Seq(Nat) /\ Len(c) = 0
  BY <1>3
<1>5. SumOf(c) = 0
  BY <1>4 DEF SumOf, CountAt
<1>6. report' = [task |-> "health", total |-> t, counts |-> c]
  BY <1>1, <1>2, <1>3
<1>7. report' \in HealthAnswers /\ report'.total = t /\ report'.counts = c
  BY <1>4, <1>6 DEF HealthAnswers
<1>8. Later(0)' = Later(0)
  BY <1>1 DEF Looks, Later, Present, Exists
<1>9. PICK l : l = Cardinality(Later(Len(report.counts))')
  OBVIOUS
<1>10. l = t
  BY <1>2, <1>4, <1>7, <1>8, <1>9
<1>11. SumOf(report'.counts) + l <= report'.total + drift' /\ report'.total <= SumOf(report'.counts) + l + drift'
  BY <1>1, <1>5, <1>7, <1>10
<1>12. HealthOK(report)'
  BY <1>4, <1>7, <1>9, <1>11 DEF HealthOK
<1> QED
  BY <1>1, <1>12, DriftRead

LEMMA DriftCountStatus ==
  ASSUME RegistryInv, DriftInv, CountStatus
  PROVE  DriftInv'
<1>1. /\ report # NoReport /\ report.task = "health" /\ Len(report.counts) < 4
      /\ Looks /\ drift' = drift
      /\ report' = [report EXCEPT !.counts =
           Append(@, Cardinality(WithStatus(StatusOrder[Len(@) + 1])))]
  <2>1. Len(StatusOrder) = 4
    BY DEF StatusOrder
  <2> QED
    BY <2>1 DEF CountStatus, tables, Looks
<1>2. HealthOK(report)
  BY <1>1 DEF DriftInv, ListOK, ListAnswers
<1>3. PICK r : r = report
  OBVIOUS
<1>4. r \in HealthAnswers
  BY <1>2, <1>3 DEF HealthOK
<1>5. PICK n \in 0..3 : n = Len(r.counts)
  <2>1. r.counts \in Seq(Nat)
    BY <1>4 DEF HealthAnswers
  <2>2. PICK n \in Nat : n = Len(r.counts) /\ n < 4
    BY <1>1, <1>3, <2>1
  <2>3. n \in 0..3
    <3>1. n < 4
      BY <2>2
    <3>2. 0 <= n /\ n <= 3
      BY <3>1
    <3> QED
      BY <3>2
  <2> QED
    BY <2>2, <2>3
<1>6. PICK m : m = n + 1
  OBVIOUS
<1>7. /\ Cardinality(WithStatus(StatusOrder[m])) \in Nat /\ Cardinality(Later(m)) \in Nat
      /\ Cardinality(Later(n)) = Cardinality(WithStatus(StatusOrder[m])) + Cardinality(Later(m))
  BY <1>6, LaterIsCounted
<1>8. PICK x \in Nat, l \in Nat : x = Cardinality(WithStatus(StatusOrder[m])) /\ l = Cardinality(Later(m))
  BY <1>7
<1>9. PICK c : c = Append(r.counts, x)
  OBVIOUS
<1>10. c \in Seq(Nat) /\ Len(c) = m /\ r.counts \in Seq(Nat) /\ Len(r.counts) < 4
  BY <1>4, <1>5, <1>6, <1>9 DEF HealthAnswers
<1>11. SumOf(c) = SumOf(r.counts) + x /\ SumOf(r.counts) \in Nat
  BY <1>9, <1>10, SumGrows
<1>12. report' = [r EXCEPT !.counts = c]
  BY <1>1, <1>3, <1>5, <1>6, <1>8, <1>9
<1>13. report' \in HealthAnswers /\ report'.counts = c /\ report'.total = r.total /\ r.total \in Nat
  BY <1>4, <1>10, <1>12 DEF HealthAnswers
<1>14. Later(m)' = Later(m)
  BY <1>1 DEF Looks, Later, Present, Exists
<1>15. Cardinality(Later(Len(report.counts))') = l
  BY <1>8, <1>10, <1>13, <1>14
<1>16. PICK q \in Nat, t \in Nat, d \in Nat : q = SumOf(r.counts) /\ t = r.total /\ d = drift
  BY <1>11, <1>13 DEF DriftInv
<1>17. q + (x + l) <= t + d /\ t <= q + (x + l) + d
  <2>1. /\ SumOf(r.counts) + Cardinality(Later(n)) <= r.total + drift
        /\ r.total <= SumOf(r.counts) + Cardinality(Later(n)) + drift
    BY <1>2, <1>3, <1>5 DEF HealthOK
  <2>2. Cardinality(Later(n)) = x + l
    BY <1>7, <1>8
  <2> QED
    BY <1>16, <2>1, <2>2
<1>18. (q + x) + l <= t + d /\ t <= (q + x) + l + d
  BY <1>17
<1>19. /\ SumOf(report'.counts) + Cardinality(Later(Len(report.counts))') <= report'.total + drift'
       /\ report'.total <= SumOf(report'.counts) + Cardinality(Later(Len(report.counts))') + drift'
  BY <1>1, <1>11, <1>13, <1>15, <1>16, <1>18
<1>20. Len(report'.counts) <= 4
  BY <1>6, <1>10, <1>13
<1>21. HealthOK(report)'
  BY <1>13, <1>19, <1>20 DEF HealthOK
<1> QED
  BY <1>1, <1>21, DriftRead DEF DriftInv

LEMMA DriftFirstPage ==
  ASSUME RegistryInv, DriftInv, FirstPage
  PROVE  DriftInv'
<1>1. /\ report' = [task |-> "list", got |-> Page(0), offset |-> PageSize, last |-> Len(heap) < PageSize]
      /\ drift' = 0 /\ touched' = {} /\ Looks
  BY DEF FirstPage, Start, Looks
<1>2. heap \in Seq(Ids) /\ Distinct(heap) /\ ToSet(heap) = Present
  BY DEF DriftInv
<1>3. PICK p : p = Page(0)
  OBVIOUS
<1>4. PICK F : F = FirstRows(heap, PageSize)
  OBVIOUS
<1>5. PageSize \in Nat /\ 0 + PageSize = PageSize /\ 0 \in Nat
  BY RegistryAssumption
<1>6. /\ p \in Seq(Ids) /\ Distinct(p) /\ ToSet(p) = F
      /\ Len(heap) < PageSize => F = Present
  <2>1. /\ p \in Seq(Ids) /\ Distinct(p)
        /\ ToSet(p) = FirstRows(heap, 0 + PageSize) \ FirstRows(heap, 0)
        /\ FirstRows(heap, 0) = {}
        /\ Len(heap) < PageSize => FirstRows(heap, PageSize) = ToSet(heap)
    BY <1>2, <1>3, <1>5, PageRows
  <2> QED
    BY <1>2, <1>4, <1>5, <2>1
<1>7. PICK z \in BOOLEAN : z = (Len(heap) < PageSize)
  <2>1. (Len(heap) < PageSize) \in BOOLEAN
    BY <1>2, <1>5
  <2> QED
    BY <2>1, Zenon
<1>8. report' = [task |-> "list", got |-> p, offset |-> PageSize, last |-> z]
  BY <1>1, <1>3, <1>7
<1>9. /\ report' \in ListAnswers /\ report'.got = p /\ report'.offset = PageSize
      /\ report'.last = z
  BY <1>5, <1>6, <1>8 DEF ListAnswers
<1>10. Present' = Present /\ heap' = heap /\ born' = born
  BY <1>1 DEF Looks, Present, Exists
<1>11. F \subseteq Present
  BY <1>2, <1>4, <1>5, FirstRowsOf
<1>12. Missed(report)' = {}
  <2>1. (IF z THEN Present ELSE F) \ ({} \cup F) = {}
    BY <1>6, <1>7
  <2> QED
    BY <1>1, <1>4, <1>6, <1>9, <1>10, <2>1 DEF Missed
<1>13. Again(report)' = {}
  BY <1>4, <1>6, <1>9, <1>10 DEF Again
<1>14. Len(p) = Cardinality(ToSet(p)) /\ Len(p) \in Nat
  BY <1>6, SeqOfRows
<1>15. Cardinality(Missed(report)') = 0 /\ Cardinality(Again(report)') = 0
  BY <1>12, <1>13, FS_EmptySet
<1>16. Cardinality(Again(report)') + Len(report'.got) <= Cardinality(ToSet(report'.got)) + drift'
  BY <1>1, <1>9, <1>14, <1>15
<1>17. ToSet(report'.got) \subseteq born'
  BY <1>6, <1>9, <1>10, <1>11, PresentRows
<1>18. ListOK(report)'
  BY <1>1, <1>9, <1>15, <1>16, <1>17 DEF ListOK
<1> QED
  BY <1>1, <1>18, DriftRead

LEMMA DriftNextPage ==
  ASSUME RegistryInv, DriftInv, NextPage
  PROVE  DriftInv'
<1>1. /\ report # NoReport /\ report.task = "list" /\ ~report.last
      /\ report' = [report EXCEPT !.got = @ \o Page(report.offset), !.offset = @ + PageSize,
                                  !.last = Len(Page(report.offset)) < PageSize]
      /\ Looks /\ drift' = drift /\ touched' = touched
  BY DEF NextPage, tables, Looks
<1>2. ListOK(report)
  BY <1>1 DEF DriftInv, HealthOK, HealthAnswers
<1>3. PICK r : r = report
  OBVIOUS
<1>4. r \in ListAnswers
  BY <1>2, <1>3 DEF ListOK
<1>5. PICK o \in Nat, u \in Nat : o = r.offset /\ u = o + PageSize
  <2>1. r.offset \in Nat /\ PageSize \in Nat
    BY <1>4, RegistryAssumption DEF ListAnswers
  <2>2. r.offset + PageSize \in Nat
    BY <2>1
  <2> QED
    BY <2>1, <2>2
<1>6. PICK p : p = Page(o)
  OBVIOUS
<1>7. PICK F, G : F = FirstRows(heap, o) /\ G = FirstRows(heap, u)
  OBVIOUS
<1>8. heap \in Seq(Ids) /\ Distinct(heap) /\ ToSet(heap) = Present /\ drift \in Nat
  BY DEF DriftInv
<1>9. /\ p \in Seq(Ids) /\ Distinct(p) /\ ToSet(p) = G \ F /\ F \subseteq G
      /\ Len(p) < PageSize => G = Present
  BY <1>5, <1>6, <1>7, <1>8, PageRows
<1>10. r.got \in Seq(Ids)
  BY <1>4 DEF ListAnswers
<1>11. PICK g, h, c : g = ToSet(r.got) /\ h = ToSet(p) /\ c = r.got \o p
  OBVIOUS
<1>12. c \in Seq(Ids) /\ ToSet(c) = g \cup h /\ Len(c) = Len(r.got) + Len(p)
  BY <1>9, <1>10, <1>11, TwoPages
<1>13. PICK z \in BOOLEAN : z = (Len(p) < PageSize)
  <2>1. Len(p) \in Nat /\ PageSize \in Nat
    BY <1>9, RegistryAssumption
  <2>2. (Len(p) < PageSize) \in BOOLEAN
    BY <2>1
  <2> QED
    BY <2>2, Zenon
<1>14. report' = [r EXCEPT !.got = c, !.offset = u, !.last = z]
  BY <1>1, <1>3, <1>5, <1>6, <1>11, <1>13
<1>15. /\ report' \in ListAnswers /\ report'.got = c /\ report'.offset = u /\ report'.last = z
  BY <1>4, <1>12, <1>14 DEF ListAnswers
<1>16. Present' = Present /\ heap' = heap /\ born' = born
  BY <1>1 DEF Looks, Present, Exists
<1>17. PICK P : P = Present
  OBVIOUS
<1>18. IsFiniteSet(P) /\ F \subseteq P /\ G \subseteq P
  BY <1>5, <1>7, <1>8, <1>17, FirstRowsOf, PresentRows
<1>19. PICK M, N : M = Missed(r) /\ N = Missed(report)'
  OBVIOUS
<1>20. M = F \ (touched \cup g)
  BY <1>1, <1>3, <1>5, <1>7, <1>11, <1>19 DEF Missed
<1>21. N = (IF z THEN P ELSE G) \ (touched \cup (g \cup h))
  BY <1>1, <1>7, <1>12, <1>15, <1>16, <1>17, <1>19 DEF Missed
<1>22. N \subseteq M
  <2>1. (IF z THEN P ELSE G) = G
    BY <1>9, <1>13, <1>17
  <2> QED
    BY <1>9, <1>11, <1>20, <1>21, <2>1
<1>23. PICK C, D, E : C = Again(r) /\ D = Again(report)' /\ E = g \cap h
  OBVIOUS
<1>24. C = (P \ F) \cap g
  BY <1>3, <1>5, <1>7, <1>11, <1>17, <1>23 DEF Again
<1>25. D = (P \ G) \cap (g \cup h)
  BY <1>7, <1>12, <1>15, <1>16, <1>17, <1>23 DEF Again
<1>26. D \cup E \subseteq C /\ D \cap E = {}
  BY <1>9, <1>11, <1>18, <1>23, <1>24, <1>25
<1>27. IsFiniteSet(M) /\ IsFiniteSet(C)
  <2>1. M \subseteq P /\ C \subseteq P
    BY <1>18, <1>20, <1>24
  <2> QED
    BY <1>18, <2>1, FS_Subset
<1>28. Cardinality(N) <= Cardinality(M) /\ Cardinality(M) \in Nat /\ Cardinality(N) \in Nat
  <2>1. IsFiniteSet(N) /\ Cardinality(N) <= Cardinality(M)
    BY <1>22, <1>27, FS_Subset
  <2> QED
    BY <1>27, <2>1, FS_CardinalityType
<1>29. /\ Cardinality(D) + Cardinality(E) <= Cardinality(C)
       /\ Cardinality(D) \in Nat /\ Cardinality(E) \in Nat /\ Cardinality(C) \in Nat
  <2>1. IsFiniteSet(D) /\ IsFiniteSet(E)
    <3>1. D \subseteq C /\ E \subseteq C
      BY <1>26
    <3> QED
      BY <1>27, <3>1, FS_Subset
  <2>2. PICK U : U = D \cup E
    OBVIOUS
  <2>3. Cardinality(U) = Cardinality(D) + Cardinality(E) - Cardinality(D \cap E)
    BY <2>1, <2>2, FS_Union
  <2>4. Cardinality(D \cap E) = 0
    BY <1>26, FS_EmptySet
  <2>5. Cardinality(U) <= Cardinality(C)
    BY <1>26, <1>27, <2>2, FS_Subset
  <2>6. Cardinality(D) \in Nat /\ Cardinality(E) \in Nat /\ Cardinality(C) \in Nat
    BY <1>27, <2>1, FS_CardinalityType
  <2> QED
    BY <2>3, <2>4, <2>5, <2>6
<1>30. /\ IsFiniteSet(g) /\ Cardinality(g) \in Nat /\ Len(r.got) \in Nat
       /\ IsFiniteSet(h) /\ Cardinality(h) = Len(p) /\ Len(p) \in Nat
  BY <1>9, <1>10, <1>11, SeqOfRows
<1>31. Cardinality(g \cup h) = Cardinality(g) + Cardinality(h) - Cardinality(E)
  BY <1>23, <1>30, FS_Union
<1>32. Cardinality(M) <= drift /\ Cardinality(C) + Len(r.got) <= Cardinality(g) + drift
  BY <1>2, <1>3, <1>11, <1>19, <1>23 DEF ListOK
<1>33. Cardinality(N) <= drift
  BY <1>8, <1>28, <1>32
<1>34. Cardinality(D) + (Len(r.got) + Len(p)) <= (Cardinality(g) + Cardinality(h) - Cardinality(E)) + drift
  <2>1. PICK e \in Nat, d \in Nat, a \in Nat, b \in Nat, l \in Nat, q \in Nat, f \in Nat :
          /\ e = Cardinality(E) /\ d = Cardinality(D) /\ a = Cardinality(C)
          /\ b = Cardinality(g) /\ l = Len(r.got) /\ q = Len(p) /\ f = drift
    BY <1>8, <1>29, <1>30
  <2>2. d + e <= a /\ a + l <= b + f
    BY <1>29, <1>32, <2>1
  <2>3. d + (l + q) <= (b + q - e) + f
    BY <2>2
  <2> QED
    BY <1>30, <2>1, <2>3
<1>35. Cardinality(Again(report)') + Len(report'.got) <= Cardinality(ToSet(report'.got)) + drift'
  BY <1>1, <1>12, <1>15, <1>23, <1>31, <1>34
<1>36. ToSet(report'.got) \subseteq born'
  <2>1. g \subseteq born
    BY <1>2, <1>3, <1>11 DEF ListOK
  <2>2. h \subseteq born
    BY <1>9, <1>11, <1>17, <1>18, PresentRows
  <2> QED
    BY <1>12, <1>15, <1>16, <2>1, <2>2
<1>37. Cardinality(Missed(report)') <= drift'
  BY <1>1, <1>19, <1>33
<1>38. ListOK(report)'
  BY <1>15, <1>35, <1>36, <1>37 DEF ListOK
<1> QED
  BY <1>1, <1>8, <1>38, DriftRead

LEMMA DriftStep == RegistryInv /\ DriftInv /\ RegistryInv' /\ [RegistryNext]_registryVars => DriftInv'
<1> SUFFICES ASSUME RegistryInv, DriftInv, RegistryInv', [RegistryNext]_registryVars
             PROVE  DriftInv'
  OBVIOUS
<1>1. ASSUME NEW i \in Ids, NEW s \in Asked \cup {"idle"}, create_repository(i, s)
      PROVE  DriftInv'
  <2>1. NewRow(s) \in RepositoryRows /\ i \in Keys
    BY NewRowIs, KeysAre, RegistryAssumption DEF Statuses
  <2>2. Inserted(i, NewRow(s))
    BY <1>1 DEF create_repository
  <2> QED
    BY <2>1, <2>2, DriftCreate
<1>2. ASSUME NEW j \in JobIds, create_index_job(j)
      PROVE  DriftInv'
  <2>1. j \in Keys /\ j \notin Ids
    BY KeysAre
  <2>2. Inserted(j, NewJob)
    BY <1>2 DEF create_index_job
  <2> QED
    BY <2>1, <2>2, DriftCreate
<1>3. ASSUME NEW s \in Sessions, NEW k \in Keys, Load(s, k)
      PROVE  DriftInv'
  BY <1>3, DriftUnread DEF Load, tables
<1>4. ASSUME NEW s \in Sessions, CommitUpdate(s)
      PROVE  DriftInv'
  BY <1>4, DriftUpdate
<1>5. ASSUME NEW s \in Sessions, CommitDelete(s)
      PROVE  DriftInv'
  BY <1>5, DriftDelete
<1>6. ASSUME NEW s \in Sessions, Rollback(s)
      PROVE  DriftInv'
  BY <1>6, DriftUnread DEF Rollback, tables
<1>7. CASE CountAll
  BY <1>7, DriftCountAll
<1>8. CASE CountStatus
  BY <1>8, DriftCountStatus
<1>9. CASE FirstPage
  BY <1>9, DriftFirstPage
<1>10. CASE NextPage
  BY <1>10, DriftNextPage
<1>11. CASE Close
  <2>1. report' = NoReport /\ drift' = 0 /\ Looks
    BY <1>11 DEF Close, Looks
  <2> QED
    BY <2>1, DriftRead
<1>12. CASE UNCHANGED registryVars
  BY <1>12, DriftUnread DEF registryVars, tables
<1> QED
  BY <1>1, <1>2, <1>3, <1>4, <1>5, <1>6, <1>7, <1>8, <1>9, <1>10, <1>11, <1>12 DEF RegistryNext

LEMMA DriftWithin == RegistryInv /\ DriftInv => WithinDrift
<1> SUFFICES ASSUME RegistryInv, DriftInv, Answered
             PROVE  IF report.task = "health"
                    THEN LET of == report.counts
                             sum == of[1] + of[2] + of[3] + of[4]
                         IN sum <= report.total + drift /\ report.total <= sum + drift
                    ELSE /\ Cardinality((Present \ touched) \ ToSet(report.got)) <= drift
                         /\ Len(report.got) - Cardinality(ToSet(report.got)) <= drift
  BY DEF WithinDrift
<1>1. report # NoReport
  BY DEF Answered
<1>2. CASE HealthOK(report)
  <2>1. PICK c : c = report.counts
    OBVIOUS
  <2>2. c \in Seq(Nat) /\ report.total \in Nat /\ report.task = "health"
    BY <1>2, <2>1 DEF HealthOK, HealthAnswers
  <2>3. Len(c) = 4
    BY <2>1, <2>2 DEF Answered, StatusOrder
  <2>4. SumOf(c) = c[1] + c[2] + c[3] + c[4]
    BY <2>3 DEF SumOf, CountAt
  <2>5. Later(4) = {}
    <3>1. \A m \in 1..4 : ~(m > 4)
      OBVIOUS
    <3> QED
      BY <3>1 DEF Later
  <2>6. Cardinality(Later(4)) = 0
    BY <2>5, FS_EmptySet
  <2>7. SumOf(c) \in Nat /\ drift \in Nat
    BY <2>2, SumIs DEF DriftInv
  <2>8. SumOf(c) + 0 <= report.total + drift /\ report.total <= SumOf(c) + 0 + drift
    BY <1>2, <2>1, <2>3, <2>6 DEF HealthOK
  <2>9. SumOf(c) <= report.total + drift /\ report.total <= SumOf(c) + drift
    BY <2>2, <2>7, <2>8
  <2> QED
    BY <2>1, <2>2, <2>4, <2>9
<1>3. CASE ListOK(report)
  <2>1. /\ report \in ListAnswers /\ report.task = "list" /\ report.got \in Seq(Ids)
        /\ Cardinality(Missed(report)) <= drift
        /\ Cardinality(Again(report)) + Len(report.got) <= Cardinality(ToSet(report.got)) + drift
    BY <1>3 DEF ListOK, ListAnswers
  <2>2. report.last
    BY <2>1 DEF Answered
  <2>3. Missed(report) = (Present \ touched) \ ToSet(report.got)
    BY <2>2 DEF Missed
  <2>4. Cardinality(Again(report)) \in Nat
    <3>1. Again(report) \subseteq Present
      BY DEF Again
    <3>2. IsFiniteSet(Again(report))
      BY <3>1, PresentRows, FS_Subset
    <3> QED
      BY <3>2, FS_CardinalityType
  <2>5. Len(report.got) \in Nat /\ Cardinality(ToSet(report.got)) \in Nat /\ drift \in Nat
    BY <2>1, SeqOfRows DEF DriftInv
  <2>6. Len(report.got) - Cardinality(ToSet(report.got)) <= drift
    BY <2>1, <2>4, <2>5
  <2> QED
    BY <2>1, <2>3, <2>6
<1> QED
  BY <1>1, <1>2, <1>3 DEF DriftInv

\* Per commit between the statements of get_health_metrics, total and counts move
\* apart by at most one; per commit between two pages, a client of list_repositories
\* misses at most one repository and gets at most one twice.
THEOREM ReadersStayWithinDrift == RegistrySpec => []WithinDrift
<1>1. RegistryInit => RegistryInv /\ DriftInv
  BY InitRegistry, InitDrift
<1>2. (RegistryInv /\ DriftInv) /\ [RegistryNext]_registryVars => (RegistryInv /\ DriftInv)'
  BY RegistryStep, DriftStep
<1>3. RegistryInv /\ DriftInv => WithinDrift
  BY DriftWithin
<1> QED
  BY <1>1, <1>2, <1>3, PTL DEF RegistrySpec

------------------------------------------------------------------------------
(* AuditTrail                                                               *)

Known == entries \cup swept
Logging(w) == web[w].at \in {"success", "failure"} /\ web[w].entry # 0

EntryRecord == [day : Nat, result : {"success", "failure", "other"}, request : WebRequests \cup {"none"}]
WebRecord ==
    [at : {"new", "success", "failure", "answered", "raised"},
     outcome : {"none", "ok", "health", "4xx", "raise"}, entry : Nat]
ReaderRecord == [on : BOOLEAN, done : BOOLEAN, got : SUBSET Nat, offset : Nat, atStart : SUBSET Nat]

AuditTypeOK ==
    /\ day \in Nat /\ about \in Seq(EntryRecord) /\ event \in Nat /\ aborted \in BOOLEAN
    /\ Known \subseteq DOMAIN about
    /\ web \in [WebRequests -> WebRecord]
    /\ reader \in ReaderRecord

\* The number of an entry stands for its time.
DaysInOrder ==
    /\ \A n \in DOMAIN about : about[n].day <= day
    /\ \A m, n \in DOMAIN about : m < n => about[m].day <= about[n].day

\* What is being logged was never in the table, and has the number of its own event.
LoggedOnce ==
    /\ event # 0 => event \in DOMAIN about \ Known /\ about[event].result = "other"
    /\ \A w \in WebRequests : Logging(w) =>
        /\ web[w].entry \in DOMAIN about \ Known
        /\ about[web[w].entry].request = w /\ about[web[w].entry].result = web[w].at

\* Once an entry could not be written, nothing will be.
RequestKnown(w) ==
    /\ web[w].at = "new" => web[w].outcome = "none"
    /\ web[w].at = "success" => web[w].outcome = "ok"
    /\ web[w].at \in {"failure", "raised"} => web[w].outcome = "raise" \/ (web[w].outcome = "ok" /\ aborted)
    /\ web[w].at = "answered" /\ web[w].outcome = "ok" =>
        \E n \in Known : about[n].request = w /\ about[n].result = "success"
    /\ \A n \in DOMAIN about : about[n].request = w =>
        /\ about[n].result = "success" => web[w].outcome = "ok"
        /\ about[n].result = "failure" =>
            web[w].outcome = "raise" \/ (web[w].outcome = "ok" /\ aborted /\ n \notin Known)

OutcomesKnown == \A w \in WebRequests : RequestKnown(w)

\* The pages so far hold what their rows were made of, whatever came or went since.
PagesKept ==
    /\ ~reader.on => reader.offset = 0 /\ ~reader.done
    /\ reader.on => reader.atStart \subseteq Known
    /\ reader.on => \A n \in reader.atStart \cap entries : Rank(n) < reader.offset => n \in reader.got
    /\ PagesMissNone

AuditInv == AuditTypeOK /\ DaysInOrder /\ LoggedOnce /\ OutcomesKnown /\ PagesKept

EntriesFinite ==
    /\ entries \subseteq Nat /\ IsFiniteSet(entries)
    /\ DOMAIN about = 1 .. Len(about) /\ Len(about) \in Nat
    /\ \A n : Rank(n) \in Nat

LEMMA EntriesAreFinite == AuditTypeOK => EntriesFinite
  <1> SUFFICES ASSUME AuditTypeOK PROVE EntriesFinite
    OBVIOUS
  <1>1. DOMAIN about = 1 .. Len(about) /\ Len(about) \in Nat
    BY DEF AuditTypeOK
  <1>2. entries \in SUBSET (1 .. Len(about))
    BY <1>1 DEF AuditTypeOK, Known
  <1>3. IsFiniteSet(1 .. Len(about))
    BY <1>1, FS_Interval
  <1>4. IsFiniteSet(entries)
    BY <1>2, <1>3, FS_Subset
  <1>5. \A n : {m \in entries : m > n} \in SUBSET entries
    OBVIOUS
  <1>6. \A n : Rank(n) \in Nat
    BY <1>4, <1>5, FS_Subset, FS_CardinalityType DEF Rank
  <1> QED BY <1>1, <1>2, <1>4, <1>6 DEF EntriesFinite

\* ORDER BY timestamp DESC numbers the entries without gaps: a page is full if there
\* is an entry behind it.
LEMMA PagesAreFull ==
  ASSUME AuditTypeOK, NEW offset \in Nat, NEW n \in entries, Rank(n) >= offset + AuditPage
  PROVE  Cardinality({k \in entries : offset <= Rank(k) /\ Rank(k) < offset + AuditPage}) >= AuditPage
  <1> DEFINE page == {k \in entries : offset <= Rank(k) /\ Rank(k) < offset + AuditPage}
             total == Cardinality(entries)
             places == 0 .. (total - 1)
             rank == [k \in entries |-> Rank(k)]
  <1>0. AuditPage \in Nat /\ AuditPage > 0
    BY AuditAssumption
  <1>1. entries \subseteq Nat /\ IsFiniteSet(entries) /\ \A k : Rank(k) \in Nat
    BY EntriesAreFinite DEF EntriesFinite
  <1>2. total \in Nat
    BY <1>1, FS_CardinalityType
  <1>3. ASSUME NEW k \in entries
        PROVE  Rank(k) \in places
    <2>1. {m \in entries : m > k} \in SUBSET (entries \ {k})
      BY <1>1
    <2>2. IsFiniteSet(entries \ {k}) /\ Cardinality(entries \ {k}) = total - 1
      BY <1>1, FS_RemoveElement
    <2>3. Rank(k) <= total - 1
      BY <2>1, <2>2, FS_Subset DEF Rank
    <2> QED BY <1>1, <1>2, <2>3
  <1>4. ASSUME NEW k \in entries, NEW l \in entries, k < l
        PROVE  Rank(l) < Rank(k)
    <2> DEFINE after == {m \in entries : m > l}
               before == {m \in entries : m > k}
    <2>1. after \cup {l} \in SUBSET before /\ l \notin after
      <3>1. k \in Nat /\ l \in Nat /\ \A m \in entries : m \in Nat
        BY <1>1
      <3>2. \A m \in entries : m > l => m > k
        BY <1>4, <3>1
      <3>3. l > k /\ ~(l > l)
        BY <1>4, <3>1
      <3> QED BY <3>2, <3>3
    <2>2. IsFiniteSet(before)
      BY <1>1, FS_Subset
    <2>3. IsFiniteSet(after)
      BY <1>1, FS_Subset
    <2>4. Cardinality(after \cup {l}) = Cardinality(after) + 1
      BY <2>1, <2>3, FS_AddElement
    <2>5. Cardinality(after \cup {l}) <= Cardinality(before)
      BY <2>1, <2>2, FS_Subset
    <2>6. Rank(l) = Cardinality(after) /\ Rank(k) = Cardinality(before)
      BY DEF Rank
    <2> QED BY <1>1, <2>4, <2>5, <2>6
  <1> HIDE DEF total
  <1>5. rank \in Injection(entries, places)
    <2>1. rank \in [entries -> places]
      BY <1>3
    <2>2. \A k, l \in entries : rank[k] = rank[l] => k = l
      <3> SUFFICES ASSUME NEW k \in entries, NEW l \in entries, Rank(k) = Rank(l) PROVE k = l
        OBVIOUS
      <3>1. k \in Nat /\ l \in Nat /\ Rank(k) \in Nat
        BY <1>1
      <3>2. ~(k < l) /\ ~(l < k)
        BY <1>4, <3>1
      <3> QED BY <3>1, <3>2
    <2> QED BY <2>1, <2>2 DEF Injection, IsInjective
  <1>6. IsFiniteSet(places) /\ Cardinality(places) = total
    BY <1>2, FS_Interval
  <1>7. rank \in Surjection(entries, places)
    BY <1>1, <1>5, <1>6, FS_Injection DEF total
  <1> DEFINE slots == offset .. (offset + AuditPage - 1)
             slot == [k \in page |-> Rank(k)]
  <1>8. slot \in Surjection(page, slots)
    <2>1. slot \in [page -> slots]
      BY <1>0, <1>1
    <2>2. ASSUME NEW s \in slots
          PROVE  \E k \in page : slot[k] = s
      <3>1. s \in places
        BY <1>0, <1>2, <1>3
      <3>2. PICK k \in entries : rank[k] = s
        BY <1>7, <3>1 DEF Surjection
      <3>3. k \in page /\ slot[k] = s
        BY <1>0, <1>1, <3>2
      <3> QED BY <3>3
    <2> QED BY <2>1, <2>2 DEF Surjection
  <1>9. IsFiniteSet(page) /\ Cardinality(page) \in Nat
    <2>1. page \in SUBSET entries
      OBVIOUS
    <2> QED BY <1>1, <2>1, FS_Subset, FS_CardinalityType
  <1>10. Cardinality(slots) = AuditPage
    BY <1>0, FS_Interval
  <1> HIDE DEF page, slots, slot
  <1>11. Cardinality(slots) <= Cardinality(page)
    BY <1>8, <1>9, FS_Surjection
  <1> QED BY <1>0, <1>9, <1>10, <1>11 DEF page

LEMMA InitAudit == AuditInit => AuditInv
  <1> SUFFICES ASSUME AuditInit PROVE AuditInv
    OBVIOUS
  <1>1. NewRequest \in WebRecord /\ NewRequest.at = "new" /\ NewRequest.outcome = "none"
    BY DEF NewRequest, WebRecord
  <1>2. /\ NotReading \in ReaderRecord /\ ~NotReading.on /\ ~NotReading.done /\ NotReading.offset = 0
    BY DEF NotReading, ReaderRecord
  <1>3. about = <<>> /\ DOMAIN about = {} /\ Known = {}
    BY DEF AuditInit, Known
  <1>4. AuditTypeOK
    <2>1. about \in Seq(EntryRecord) /\ Known \subseteq DOMAIN about
      BY <1>3
    <2>2. web \in [WebRequests -> WebRecord] /\ reader \in ReaderRecord
      BY <1>1, <1>2 DEF AuditInit
    <2> QED BY <2>1, <2>2 DEF AuditInit, AuditTypeOK
  <1>5. DaysInOrder /\ LoggedOnce /\ OutcomesKnown
    BY <1>1, <1>3 DEF AuditInit, DaysInOrder, LoggedOnce, Logging, OutcomesKnown, RequestKnown
  <1>6. PagesKept
    BY <1>2 DEF AuditInit, PagesKept, PagesMissNone
  <1> QED BY <1>4, <1>5, <1>6 DEF AuditInv

\* What a reader has is not touched by entries that it did not begin with.
LEMMA PagesKeptByInsert ==
  ASSUME AuditTypeOK, AuditTypeOK', PagesKept, reader' = reader,
         entries \subseteq entries', Known \subseteq Known', entries' \cap Known \subseteq entries
  PROVE  PagesKept'
  <1>0. EntriesFinite /\ EntriesFinite'
    BY EntriesAreFinite, PTL
  <1>1. ASSUME NEW n PROVE Rank(n)' >= Rank(n)
    <2>1. {m \in entries : m > n} \in SUBSET {m \in entries' : m > n}
      OBVIOUS
    <2>2. IsFiniteSet(entries')
      BY <1>0 DEF EntriesFinite
    <2>3. IsFiniteSet({m \in entries' : m > n})
      BY <2>2, FS_Subset
    <2>4. Cardinality({m \in entries : m > n}) <= Cardinality({m \in entries' : m > n})
      BY <2>1, <2>3, FS_Subset
    <2> QED BY <2>4 DEF Rank
  <1>2. \A n : Rank(n) \in Nat /\ Rank(n)' \in Nat
    BY <1>0 DEF EntriesFinite
  <1>3. reader.offset \in Nat
    BY DEF AuditTypeOK, ReaderRecord
  <1>4. reader.on => \A n \in reader.atStart \cap entries' : n \in entries
    BY DEF PagesKept
  <1>5. reader.done => reader.on
    BY DEF PagesKept
  <1>6. PagesMissNone'
    BY <1>4, <1>5 DEF PagesKept, PagesMissNone
  <1>7. reader.on => \A n \in reader.atStart \cap entries' : Rank(n)' < reader.offset => n \in reader.got
    BY <1>1, <1>2, <1>3, <1>4 DEF PagesKept
  <1> QED BY <1>6, <1>7 DEF PagesKept

\* The step of an event or a request that may end up in the table.
Inserting(n) == Inserts(n) \/ InsertFails(n)

LEMMA InsertingAdds ==
  ASSUME AuditTypeOK, NEW n \in Nat, Inserting(n)
  PROVE  /\ aborted' \in BOOLEAN /\ (aborted => aborted')
         /\ entries' \in {entries, entries \cup {n}} /\ (aborted => entries' = entries)
         /\ Inserts(n) => n \in entries' /\ ~aborted
         /\ InsertFails(n) => aborted'
  BY DEF Inserting, Inserts, InsertFails, AuditTypeOK

\* A time is taken.
LEMMA StampedAdds ==
  ASSUME AuditInv, NEW result \in {"success", "failure", "other"}, NEW w \in WebRequests \cup {"none"},
         about' = Stamped(result, w), UNCHANGED <<day, entries, swept, reader>>,
         NEW n \in Nat, n = Len(about) + 1
  PROVE  /\ about' \in Seq(EntryRecord) /\ DaysInOrder' /\ PagesKept'
         /\ DOMAIN about' = DOMAIN about \cup {n} /\ n \notin DOMAIN about /\ n # 0
         /\ \A m \in DOMAIN about : about'[m] = about[m]
         /\ about'[n].result = result /\ about'[n].request = w
         /\ Known' = Known /\ n \notin Known
  <1>0. DOMAIN about = 1 .. Len(about) /\ Len(about) \in Nat
    BY EntriesAreFinite DEF AuditInv, EntriesFinite
  <1> DEFINE new == [day |-> day, result |-> result, request |-> w]
  <1>1. new \in EntryRecord /\ new.result = result /\ new.request = w /\ new.day = day
    BY DEF AuditInv, AuditTypeOK, EntryRecord
  <1>2. about' = Append(about, new)
    BY DEF Stamped
  <1> HIDE DEF new
  <1>3. about' \in Seq(EntryRecord) /\ DOMAIN about' = 1 .. n /\ about'[n] = new
    BY <1>0, <1>1, <1>2 DEF AuditInv, AuditTypeOK
  <1>4. \A m \in DOMAIN about : about'[m] = about[m]
    BY <1>0, <1>2 DEF AuditInv, AuditTypeOK
  <1>5. DOMAIN about' = DOMAIN about \cup {n} /\ n \notin DOMAIN about /\ n # 0
    BY <1>0, <1>3
  <1>6. DaysInOrder'
    <2>1. \A m \in DOMAIN about' : about'[m].day <= day
      BY <1>1, <1>3, <1>4, <1>5 DEF AuditInv, DaysInOrder, AuditTypeOK
    <2>2. ASSUME NEW k \in DOMAIN about', NEW m \in DOMAIN about', k < m
          PROVE  about'[k].day <= about'[m].day
      <3>1. CASE m = n
        BY <1>1, <1>3, <2>1, <3>1
      <3>2. CASE m # n
        <4>1. m \in DOMAIN about /\ k \in DOMAIN about
          BY <1>0, <1>3, <2>2, <3>2
        <4> QED BY <1>4, <2>2, <4>1 DEF AuditInv, DaysInOrder
      <3> QED BY <3>1, <3>2
    <2> QED BY <2>1, <2>2 DEF DaysInOrder
  <1>7. Known' = Known /\ n \notin Known
    BY <1>5 DEF AuditInv, AuditTypeOK, Known
  <1>8. PagesKept'
    BY DEF AuditInv, PagesKept, PagesMissNone, Rank, Known
  <1> QED BY <1>1, <1>3, <1>4, <1>5, <1>6, <1>7, <1>8

\* A request does not notice what is inserted for others.
LEMMA RequestKept ==
  ASSUME NEW w, RequestKnown(w), web'[w] = web[w], about' = about, NEW n, Known' \in {Known, Known \cup {n}},
         aborted => aborted', about[n].result = "other" \/ about[n].request # w
  PROVE  RequestKnown(w)'
  BY DEF RequestKnown

\* The effect of an insertion on all but the event or the request it is made for.
LEMMA InsertedForOne ==
  ASSUME AuditInv, NEW n \in DOMAIN about \ Known, Inserting(n), UNCHANGED <<day, about, swept, reader>>
  PROVE  /\ Known' \in {Known, Known \cup {n}} /\ (aborted => Known' = Known) /\ DaysInOrder'
         /\ Known' \subseteq DOMAIN about'
         /\ AuditTypeOK' => PagesKept'
  <1>1. n \in Nat /\ AuditTypeOK /\ DaysInOrder /\ PagesKept
    BY EntriesAreFinite DEF AuditInv, EntriesFinite
  <1>2. entries' \in {entries, entries \cup {n}} /\ (aborted => entries' = entries)
    BY <1>1, InsertingAdds
  <1>3. Known' \in {Known, Known \cup {n}} /\ (aborted => Known' = Known) /\ Known' \subseteq DOMAIN about'
    BY <1>1, <1>2 DEF Known, AuditTypeOK
  <1>4. entries \subseteq entries' /\ entries' \cap Known \subseteq entries /\ Known \subseteq Known'
    BY <1>2, <1>3
  <1>5. DaysInOrder'
    BY <1>1 DEF DaysInOrder
  <1> QED BY <1>1, <1>3, <1>4, <1>5, PagesKeptByInsert

LEMMA AuditStep == AuditInv /\ [AuditNext]_auditVars => AuditInv'
  <1> SUFFICES ASSUME AuditInv, [AuditNext]_auditVars PROVE AuditInv'
    OBVIOUS
  <1>i. AuditTypeOK /\ DaysInOrder /\ LoggedOnce /\ OutcomesKnown /\ PagesKept
    BY DEF AuditInv
  <1>0. DOMAIN about = 1 .. Len(about) /\ Len(about) \in Nat
    BY <1>i, EntriesAreFinite DEF EntriesFinite
  <1>w. \A w \in WebRequests : web[w] \in WebRecord
    BY <1>i DEF AuditTypeOK
  <1>1. CASE LogEvent
    <2>1. PICK n \in Nat : n = Len(about) + 1
      BY <1>0
    <2>2. UNCHANGED <<day, entries, aborted, web, reader, swept>> /\ about' = Stamped("other", "none") /\ event' = n
      BY <1>1, <2>1 DEF LogEvent
    <2>3. /\ about' \in Seq(EntryRecord) /\ DaysInOrder' /\ PagesKept'
          /\ DOMAIN about' = DOMAIN about \cup {n} /\ n \notin DOMAIN about /\ n # 0
          /\ \A m \in DOMAIN about : about'[m] = about[m]
          /\ about'[n].result = "other" /\ about'[n].request = "none"
          /\ Known' = Known /\ n \notin Known
      BY <2>1, <2>2, StampedAdds
    <2>4. AuditTypeOK'
      BY <1>i, <2>2, <2>3 DEF AuditTypeOK
    <2>5. LoggedOnce'
      BY <1>i, <2>2, <2>3 DEF LoggedOnce, Logging
    <2>6. ASSUME NEW w \in WebRequests PROVE RequestKnown(w)'
      BY <1>i, <2>2, <2>3 DEF OutcomesKnown, RequestKnown, AuditTypeOK
    <2> QED BY <2>3, <2>4, <2>5, <2>6 DEF AuditInv, OutcomesKnown
  <1>2. CASE StoreEvent
    <2>1. /\ event \in DOMAIN about \ Known /\ about[event].result = "other" /\ event' = 0
          /\ Inserting(event) /\ UNCHANGED <<day, about, web, reader, swept>>
      BY <1>2, <1>i DEF StoreEvent, LoggedOnce, Inserting
    <2>2. /\ Known' \in {Known, Known \cup {event}} /\ DaysInOrder' /\ Known' \subseteq DOMAIN about'
          /\ AuditTypeOK' => PagesKept'
      BY <2>1, InsertedForOne
    <2>3. aborted' \in BOOLEAN /\ (aborted => aborted')
      BY <1>0, <1>i, <2>1, InsertingAdds
    <2>4. AuditTypeOK'
      BY <1>i, <2>1, <2>2, <2>3 DEF AuditTypeOK
    <2>5. LoggedOnce'
      BY <1>i, <2>1, <2>2 DEF LoggedOnce, Logging
    <2>6. OutcomesKnown'
      BY <1>i, <2>1, <2>2, <2>3, RequestKept DEF OutcomesKnown
    <2> QED BY <2>2, <2>4, <2>5, <2>6 DEF AuditInv
  <1>3. ASSUME NEW w \in WebRequests, Handle(w)
        PROVE  AuditInv'
    <2>1. PICK outcome \in {"ok", "health", "4xx", "raise"}, at \in {"success", "failure", "answered"} :
            /\ web' = [web EXCEPT ![w] = [at |-> at, outcome |-> outcome, entry |-> 0]]
            /\ outcome = "ok" <=> at = "success"
            /\ outcome = "raise" <=> at = "failure"
      <3>1. PICK outcome \in {"ok", "health", "4xx", "raise"} :
                web' = [web EXCEPT ![w] = [at |-> CASE outcome = "ok" -> "success"
                                               [] outcome = "raise" -> "failure"
                                               [] OTHER -> "answered",
                                      outcome |-> outcome, entry |-> 0]]
        BY <1>3 DEF Handle
      <3>2. PICK at : at = CASE outcome = "ok" -> "success"
                             [] outcome = "raise" -> "failure"
                             [] OTHER -> "answered"
        OBVIOUS
      <3> QED BY <3>1, <3>2
    <2>2. UNCHANGED <<day, entries, about, aborted, event, reader, swept>> /\ Known' = Known /\ web[w].at = "new"
      BY <1>3 DEF Handle, Known
    <2>3. /\ web' \in [WebRequests -> WebRecord]
          /\ web'[w].at = at /\ web'[w].outcome = outcome /\ web'[w].entry = 0
          /\ \A v \in WebRequests \ {w} : web'[v] = web[v]
      BY <1>i, <2>1 DEF AuditTypeOK, WebRecord
    <2>4. AuditTypeOK'
      BY <1>i, <2>2, <2>3 DEF AuditTypeOK
    <2>5. LoggedOnce'
      BY <1>i, <2>2, <2>3 DEF LoggedOnce, Logging
    <2>6. RequestKnown(w)'
      BY <1>i, <2>1, <2>2, <2>3 DEF OutcomesKnown, RequestKnown
    <2>7. \A v \in WebRequests \ {w} : RequestKnown(v)'
      BY <1>i, <2>2, <2>3 DEF OutcomesKnown, RequestKnown
    <2>8. DaysInOrder' /\ PagesKept'
      BY <1>i, <2>2 DEF DaysInOrder, PagesKept, PagesMissNone, Rank
    <2> QED BY <2>4, <2>5, <2>6, <2>7, <2>8 DEF AuditInv, OutcomesKnown
  <1>4. ASSUME NEW w \in WebRequests, StampRequest(w)
        PROVE  AuditInv'
    <2>1. PICK n \in Nat : n = Len(about) + 1
      BY <1>0
    <2>2. /\ UNCHANGED <<day, entries, aborted, event, reader, swept>> /\ about' = Stamped(web[w].at, w)
          /\ web[w].at \in {"success", "failure"} /\ web' = [web EXCEPT ![w].entry = n]
      BY <1>4, <2>1 DEF StampRequest
    <2>3. /\ about' \in Seq(EntryRecord) /\ DaysInOrder' /\ PagesKept'
          /\ DOMAIN about' = DOMAIN about \cup {n} /\ n \notin DOMAIN about /\ n # 0
          /\ \A m \in DOMAIN about : about'[m] = about[m]
          /\ about'[n].result = web[w].at /\ about'[n].request = w
          /\ Known' = Known /\ n \notin Known
      BY <2>1, <2>2, StampedAdds
    <2>4. /\ web' \in [WebRequests -> WebRecord]
          /\ web'[w].at = web[w].at /\ web'[w].outcome = web[w].outcome /\ web'[w].entry = n
          /\ \A v \in WebRequests \ {w} : web'[v] = web[v]
      BY <1>i, <2>2 DEF AuditTypeOK, WebRecord
    <2>5. AuditTypeOK'
      BY <1>i, <2>2, <2>3, <2>4 DEF AuditTypeOK
    <2>6. LoggedOnce'
      BY <1>i, <2>2, <2>3, <2>4 DEF LoggedOnce, Logging
    <2>7. RequestKnown(w)'
      BY <1>i, <2>2, <2>3, <2>4 DEF OutcomesKnown, RequestKnown, AuditTypeOK
    <2>8. \A v \in WebRequests \ {w} : RequestKnown(v)'
      BY <1>i, <2>2, <2>3, <2>4 DEF OutcomesKnown, RequestKnown, AuditTypeOK
    <2> QED BY <2>3, <2>5, <2>6, <2>7, <2>8 DEF AuditInv, OutcomesKnown
  <1>5. ASSUME NEW w \in WebRequests, LogSuccess(w) \/ LogFailure(w)
        PROVE  AuditInv'
    <2>1. PICK n \in DOMAIN about \ Known : n = web[w].entry /\ about[n].request = w /\ about[n].result = web[w].at
      BY <1>5, <1>i DEF LogSuccess, LogFailure, LoggedOnce, Logging
    <2>2. Inserting(n) /\ UNCHANGED <<day, about, event, swept, reader>>
      BY <1>5, <2>1 DEF LogSuccess, LogFailure, Inserting
    <2>3. /\ Known' \in {Known, Known \cup {n}} /\ (aborted => Known' = Known) /\ DaysInOrder'
          /\ Known' \subseteq DOMAIN about' /\ (AuditTypeOK' => PagesKept')
      BY <2>2, InsertedForOne
    <2>4. /\ aborted' \in BOOLEAN /\ (aborted => aborted')
          /\ Inserts(n) => n \in entries' /\ ~aborted
          /\ InsertFails(n) => aborted'
      BY <1>0, <1>i, <2>2, InsertingAdds
    <2>5. PICK new \in WebRecord :
            /\ web' = [web EXCEPT ![w] = new] /\ new.outcome = web[w].outcome
            /\ \/ web[w].at = "success" /\ new.at = "answered" /\ Inserts(n)
               \/ web[w].at = "success" /\ new.at = "failure" /\ new.entry = 0 /\ InsertFails(n)
               \/ web[w].at = "failure" /\ new.at = "raised"
      <3>1. CASE LogSuccess(w) /\ Inserts(n) /\ MoveRequest(w, "answered")
        <4>1. PICK new \in WebRecord : new = [web[w] EXCEPT !.at = "answered"]
          BY <1>w DEF WebRecord
        <4>2. new.at = "answered" /\ new.outcome = web[w].outcome
          BY <1>w, <4>1 DEF WebRecord
        <4> QED BY <3>1, <4>1, <4>2 DEF MoveRequest, LogSuccess
      <3>2. CASE LogSuccess(w) /\ InsertFails(n) /\ web' = [web EXCEPT ![w] = AfterFailedLog(w)]
        <4>1. PICK new \in WebRecord : new = [web[w] EXCEPT !.at = "failure", !.entry = 0]
          BY <1>w DEF WebRecord
        <4>2. new.at = "failure" /\ new.outcome = web[w].outcome /\ new.entry = 0
          BY <1>w, <4>1 DEF WebRecord
        <4> QED BY <3>2, <4>1, <4>2 DEF AfterFailedLog, LogSuccess
      <3>3. CASE LogFailure(w)
        <4>1. PICK new \in WebRecord : new = [web[w] EXCEPT !.at = "raised"]
          BY <1>w DEF WebRecord
        <4>2. new.at = "raised" /\ new.outcome = web[w].outcome
          BY <1>w, <4>1 DEF WebRecord
        <4> QED BY <3>3, <4>1, <4>2 DEF MoveRequest, LogFailure
      <3> QED BY <1>5, <2>1, <3>1, <3>2, <3>3 DEF LogSuccess
    <2>6. /\ web' \in [WebRequests -> WebRecord] /\ web'[w] = new
          /\ \A v \in WebRequests \ {w} : web'[v] = web[v]
      BY <1>i, <2>5 DEF AuditTypeOK
    <2>7. AuditTypeOK'
      BY <1>i, <2>2, <2>3, <2>4, <2>6 DEF AuditTypeOK
    <2>8. LoggedOnce'
      <3>1. event # 0 => event # n
        BY <1>i, <2>1, <2>5 DEF LoggedOnce
      <3>2. \A v \in WebRequests \ {w} : Logging(v) => web[v].entry # n
        BY <1>i, <2>1 DEF LoggedOnce
      <3>3. ~Logging(w)'
        BY <2>5, <2>6 DEF Logging
      <3> QED BY <1>i, <2>2, <2>3, <2>6, <3>1, <3>2, <3>3 DEF LoggedOnce, Logging
    <2>9. \A v \in WebRequests \ {w} : RequestKnown(v)'
      BY <1>i, <2>1, <2>2, <2>3, <2>4, <2>6, RequestKept DEF OutcomesKnown
    <2>10. RequestKnown(w)'
      <3>i. RequestKnown(w)
        BY <1>i DEF OutcomesKnown
      <3>1. CASE web[w].at = "success" /\ new.at = "answered" /\ Inserts(n)
        <4>1. n \in Known' /\ ~aborted /\ about' = about
          BY <2>2, <2>4, <3>1 DEF Known
        <4> QED BY <2>1, <2>3, <2>5, <2>6, <3>i, <3>1, <4>1 DEF RequestKnown
      <3>2. CASE web[w].at = "success" /\ new.at = "failure" /\ InsertFails(n)
        BY <2>1, <2>2, <2>3, <2>4, <2>5, <2>6, <3>i, <3>2 DEF RequestKnown
      <3>3. CASE web[w].at = "failure" /\ new.at = "raised"
        BY <2>1, <2>2, <2>3, <2>4, <2>5, <2>6, <3>i, <3>3 DEF RequestKnown
      <3> QED BY <2>5, <3>1, <3>2, <3>3
    <2> QED BY <2>3, <2>7, <2>8, <2>9, <2>10 DEF AuditInv, OutcomesKnown
  <1>6. CASE ReadPage
    <2> DEFINE page == {n \in entries : reader.offset <= Rank(n) /\ Rank(n) < reader.offset + AuditPage}
               start == IF reader.on THEN reader.atStart ELSE entries
    <2>1. /\ reader' = [on |-> TRUE, done |-> Cardinality(page) < AuditPage, got |-> reader.got \cup page,
                        offset |-> reader.offset + AuditPage, atStart |-> start]
          /\ UNCHANGED <<day, entries, about, aborted, web, event, swept>> /\ ~reader.done
      BY <1>6 DEF ReadPage
    <2>2. /\ reader.got \subseteq Nat /\ reader.offset \in Nat /\ reader.atStart \subseteq Nat
          /\ AuditPage \in Nat /\ AuditPage > 0 /\ entries \subseteq Nat /\ \A n : Rank(n) \in Nat
      BY <1>i, AuditAssumption, EntriesAreFinite DEF AuditTypeOK, ReaderRecord, EntriesFinite
    <2>3. /\ reader'.on /\ (reader'.done <=> Cardinality(page) < AuditPage) /\ reader'.got = reader.got \cup page
          /\ reader'.offset = reader.offset + AuditPage /\ reader'.atStart = start
      BY <2>1
    <2>4. reader' \in ReaderRecord
      <3>1. (Cardinality(page) < AuditPage) \in BOOLEAN
        OBVIOUS
      <3>2. reader.got \cup page \in SUBSET Nat /\ start \in SUBSET Nat /\ reader.offset + AuditPage \in Nat
        <4>1. page \subseteq entries /\ start \in {reader.atStart, entries}
          OBVIOUS
        <4> HIDE DEF page, start
        <4>2. reader.got \cup page \in SUBSET Nat
          BY <2>2, <4>1
        <4>3. start \in SUBSET Nat
          BY <2>2, <4>1
        <4>4. reader.offset + AuditPage \in Nat
          BY <2>2
        <4> QED BY <4>2, <4>3, <4>4
      <3> HIDE DEF page, start
      <3> QED BY <2>1, <3>1, <3>2 DEF ReaderRecord
    <2>5. Known' = Known /\ \A n : Rank(n)' = Rank(n)
      BY <2>1 DEF Known, Rank
    <2>6. AuditTypeOK'
      BY <1>i, <2>1, <2>4, <2>5 DEF AuditTypeOK
    <2>7. DaysInOrder' /\ LoggedOnce' /\ OutcomesKnown'
      BY <1>i, <2>1, <2>5 DEF DaysInOrder, LoggedOnce, Logging, OutcomesKnown, RequestKnown
    <2>8. start \subseteq Known
      BY <1>i DEF PagesKept, Known
    <2>9. \A n \in start \cap entries : Rank(n) < reader.offset + AuditPage => n \in reader.got \cup page
      <3> SUFFICES ASSUME NEW n \in start \cap entries, Rank(n) < reader.offset + AuditPage
                   PROVE  n \in reader.got \cup page
        OBVIOUS
      <3>1. CASE Rank(n) >= reader.offset
        BY <2>2, <3>1
      <3>2. CASE Rank(n) < reader.offset
        <4>1. reader.on
          BY <1>i, <2>2, <3>2 DEF PagesKept
        <4> QED BY <1>i, <3>2, <4>1 DEF PagesKept
      <3> QED BY <2>2, <3>1, <3>2
    <2>10. Cardinality(page) < AuditPage => \A n \in entries : Rank(n) < reader.offset + AuditPage
      <3> SUFFICES ASSUME NEW n \in entries, Rank(n) >= reader.offset + AuditPage
                   PROVE  ~(Cardinality(page) < AuditPage)
        BY <2>2
      <3>1. Cardinality(page) >= AuditPage
        BY <1>i, <2>2, PagesAreFull
      <3>2. Cardinality(page) \in Nat
        <4>1. page \in SUBSET entries /\ IsFiniteSet(entries)
          BY <1>i, EntriesAreFinite DEF EntriesFinite
        <4> QED BY <4>1, FS_Subset, FS_CardinalityType
      <3> QED BY <2>2, <3>1, <3>2
    <2> HIDE DEF page, start
    <2>11. PagesKept'
      BY <2>1, <2>3, <2>5, <2>8, <2>9, <2>10 DEF PagesKept, PagesMissNone
    <2> QED BY <2>6, <2>7, <2>11 DEF AuditInv
  <1>7. CASE CloseReader
    <2>1. /\ reader' \in ReaderRecord /\ ~reader'.on /\ ~reader'.done /\ reader'.offset = 0
          /\ UNCHANGED <<day, entries, about, aborted, web, event, swept>> /\ Known' = Known
      BY <1>7 DEF CloseReader, NotReading, ReaderRecord, Known
    <2> QED BY <1>i, <2>1 DEF AuditInv, AuditTypeOK, DaysInOrder, LoggedOnce, Logging, OutcomesKnown, RequestKnown,
                              PagesKept, PagesMissNone
  <1>8. ASSUME NEW retention \in Retentions, Cleanup(retention)
        PROVE  AuditInv'
    <2> DEFINE old == {n \in entries : about[n].day < day - retention}
    <2>1. /\ entries' = entries \ old /\ swept' = swept \cup old
          /\ UNCHANGED <<day, about, aborted, web, event, reader>>
      BY <1>8 DEF Cleanup
    <2>2. Known' = Known
      BY <2>1 DEF Known
    <2>3. AuditTypeOK' /\ DaysInOrder' /\ LoggedOnce' /\ OutcomesKnown'
      <3> HIDE DEF old
      <3> QED BY <1>i, <2>1, <2>2 DEF AuditTypeOK, DaysInOrder, LoggedOnce, Logging, OutcomesKnown, RequestKnown
    <2>4. ASSUME NEW n \in entries', NEW m \in entries, m > n
          PROVE  m \in entries'
      <3>1. n \in DOMAIN about /\ m \in DOMAIN about /\ n \in Nat /\ m \in Nat
        BY <1>0, <1>i, <2>1 DEF AuditTypeOK, Known
      <3>2. about[n].day <= about[m].day
        BY <1>i, <2>4, <3>1 DEF DaysInOrder
      <3>3. about[n].day \in Nat /\ about[m].day \in Nat /\ day \in Nat /\ retention \in Nat
        <4>1. about[n] \in EntryRecord /\ about[m] \in EntryRecord
          BY <1>0, <1>i, <3>1 DEF AuditTypeOK
        <4> QED BY <1>i, <4>1, AuditAssumption DEF AuditTypeOK, EntryRecord
      <3>4. ~(about[n].day < day - retention)
        BY <2>1, <2>4
      <3> QED BY <2>1, <3>2, <3>3, <3>4
    <2>5. \A n \in entries' : Rank(n)' = Rank(n)
      <3> HIDE DEF old
      <3>1. \A n \in entries' : {m \in entries' : m > n} = {m \in entries : m > n}
        BY <2>1, <2>4
      <3> QED BY <3>1 DEF Rank
    <2>6. PagesKept'
      <3> HIDE DEF old
      <3> QED BY <1>i, <2>1, <2>2, <2>5 DEF PagesKept, PagesMissNone
    <2> QED BY <2>3, <2>6 DEF AuditInv
  <1>9. CASE StatementFails
    <2>1. ~aborted /\ aborted' = TRUE /\ UNCHANGED <<day, entries, about, web, event, reader, swept>> /\ Known' = Known
      BY <1>9 DEF StatementFails, Known
    <2>2. AuditTypeOK' /\ DaysInOrder' /\ LoggedOnce' /\ OutcomesKnown'
      BY <1>i, <2>1 DEF AuditTypeOK, DaysInOrder, LoggedOnce, Logging, OutcomesKnown, RequestKnown
    <2>3. PagesKept'
      BY <1>i, <2>1 DEF PagesKept, PagesMissNone, Rank
    <2> QED BY <2>2, <2>3 DEF AuditInv
  <1>10. CASE NextDay
    <2>1. day \in Nat /\ day' = day + 1 /\ UNCHANGED <<entries, about, aborted, web, event, reader, swept>> /\ Known' = Known
      BY <1>10, <1>i DEF NextDay, Known, AuditTypeOK
    <2>2. AuditTypeOK' /\ LoggedOnce' /\ OutcomesKnown'
      BY <1>i, <2>1 DEF AuditTypeOK, LoggedOnce, Logging, OutcomesKnown, RequestKnown
    <2>3. DaysInOrder'
      <3>1. \A n \in DOMAIN about : about[n].day \in Nat
        <4>1. \A n \in DOMAIN about : about[n] \in EntryRecord
          BY <1>0, <1>i DEF AuditTypeOK
        <4> QED BY <4>1 DEF EntryRecord
      <3> QED BY <1>i, <2>1, <3>1 DEF DaysInOrder
    <2>4. PagesKept'
      BY <1>i, <2>1 DEF PagesKept, PagesMissNone, Rank
    <2> QED BY <2>2, <2>3, <2>4 DEF AuditInv
  <1>11. CASE UNCHANGED auditVars
    <2>1. UNCHANGED auditVars /\ Known' = Known
      BY <1>11 DEF auditVars, Known
    <2> QED BY <1>i, <2>1 DEF auditVars, AuditInv, AuditTypeOK, DaysInOrder, LoggedOnce, Logging, OutcomesKnown,
                              RequestKnown, PagesKept, PagesMissNone, Rank
  <1> QED BY <1>1, <1>2, <1>3, <1>4, <1>5, <1>6, <1>7, <1>8, <1>9, <1>10, <1>11 DEF AuditNext

\* Every answer with success is in the log, and what ended with an exception had a
\* reason, for any number of requests (AuditLoggingMiddleware.dispatch).
THEOREM AnswersAreLogged == AuditSpec => []AnsweredIsLogged
  <1>1. AuditSpec => []AuditInv
    BY InitAudit, AuditStep, PTL DEF AuditSpec
  <1>2. AuditInv => AnsweredIsLogged
    BY DEF AuditInv, OutcomesKnown, RequestKnown, AnsweredIsLogged, EntriesOf, Known, AuditTypeOK
  <1> QED BY <1>1, <1>2, PTL

\* A reader of the log misses no entry that was there when it began and still is
\* (query_audit_log), whatever is logged or deleted between its pages, for pages of
\* any length.
THEOREM PagesMissNothing == AuditSpec => []PagesMissNone
  <1>1. AuditSpec => []AuditInv
    BY InitAudit, AuditStep, PTL DEF AuditSpec
  <1>2. AuditInv => PagesMissNone
    BY DEF AuditInv, PagesKept
  <1> QED BY <1>1, <1>2, PTL

------------------------------------------------------------------------------
(* ServiceHealth                                                            *)

ProbeRecord ==
    [at : {"idle", "running", "answered"}, todo : SUBSET Dependencies, worst : {"healthy", "unhealthy"}]

HealthTypeOK ==
    /\ checks \subseteq Dependencies /\ up \subseteq Dependencies
    /\ probe \in [Probes -> ProbeRecord]
    /\ seenUp \in [Probes -> SUBSET Dependencies]
    /\ seenDown \in [Probes -> SUBSET Dependencies]
    /\ spoilt \in [Probes -> SUBSET Dependencies]

\* Checks are registered before the first request, and are the same ever after.
ChecksSettled == phase = "observability" => \A q \in Probes : probe[q].at = "idle"

\* A request under way has seen the services as they are now, and its worst result
\* stands for the checks it has run.
ProbesTell ==
    \A q \in Probes :
        /\ Running(q) => up \subseteq seenUp[q] /\ Dependencies \ up \subseteq seenDown[q]
        /\ probe[q].at = "answered" => probe[q].todo = {}
        /\ probe[q].at # "idle" => probe[q].todo \subseteq checks
        /\ probe[q].at # "idle" /\ probe[q].worst = "healthy" =>
            checks \ probe[q].todo \subseteq seenUp[q] \cap Importable
        /\ probe[q].at # "idle" /\ probe[q].worst = "unhealthy" =>
            checks \cap (seenDown[q] \cup spoilt[q]) # {}

HealthInv == HealthTypeOK /\ ChecksSettled /\ ProbesTell

LEMMA NoProbeIsProbe == NoProbe \in ProbeRecord /\ NoProbe.at = "idle"
  BY DEF NoProbe, ProbeRecord

LEMMA InitHealth == HealthInit => HealthInv
  BY NoProbeIsProbe DEF HealthInit, HealthInv, HealthTypeOK, ChecksSettled, ProbesTell, Running

\* A step of one request, of whose history only the failed checks may grow.
LEMMA ProbeGoesOn ==
  ASSUME HealthInv, NEW q \in Probes, NEW new \in ProbeRecord, probe[q].at # "idle",
         probe' = [probe EXCEPT ![q] = new], UNCHANGED <<phase, checks, up, seenUp, seenDown>>,
         NEW failed \in SUBSET Dependencies, spoilt[q] \subseteq failed,
         spoilt' = [spoilt EXCEPT ![q] = failed],
         new.at = "running" => Running(q), new.at = "answered" => new.todo = {},
         new.todo \subseteq checks,
         new.worst = "healthy" => checks \ new.todo \subseteq seenUp[q] \cap Importable,
         new.worst = "unhealthy" => checks \cap (seenDown[q] \cup failed) # {}
  PROVE  HealthInv'
  <1>1. /\ probe' \in [Probes -> ProbeRecord] /\ probe'[q] = new
        /\ spoilt' \in [Probes -> SUBSET Dependencies] /\ spoilt'[q] = failed
        /\ \A p \in Probes \ {q} : probe'[p] = probe[p] /\ spoilt'[p] = spoilt[p]
    BY DEF HealthInv, HealthTypeOK
  <1>2. HealthTypeOK'
    BY <1>1 DEF HealthInv, HealthTypeOK
  <1>3. ChecksSettled'
    BY DEF HealthInv, ChecksSettled
  <1>4. ProbesTell'
    BY <1>1 DEF HealthInv, ProbesTell, Running
  <1> QED BY <1>2, <1>3, <1>4 DEF HealthInv

LEMMA HealthStep == HealthInv /\ [HealthNext]_healthVars => HealthInv'
  <1> SUFFICES ASSUME HealthInv, [HealthNext]_healthVars PROVE HealthInv'
    OBVIOUS
  <1>i. HealthTypeOK /\ ChecksSettled /\ ProbesTell
    BY DEF HealthInv
  <1>1. CASE InitObservability
    <2>1. /\ \A q \in Probes : probe[q].at = "idle"
          /\ checks' \subseteq Dependencies /\ UNCHANGED <<up, probe, seenUp, seenDown, spoilt>> /\ phase' = "gateway"
      BY <1>1, <1>i DEF InitObservability, probing, ChecksSettled
    <2> QED BY <1>i, <2>1 DEF HealthInv, HealthTypeOK, ChecksSettled, ProbesTell, Running
  <1>2. ASSUME UNCHANGED <<checks, up, probe, seenUp, seenDown, spoilt>>, phase' # "observability" \/ phase' = phase
        PROVE  HealthInv'
    BY <1>2, <1>i DEF HealthInv, HealthTypeOK, ChecksSettled, ProbesTell, Running
  <1>3. CASE InitGateway \/ StartGrpc \/ MarkStartupComplete \/ Shutdown \/ StopGrpc \/ CloseGateway
    BY <1>2, <1>3 DEF InitGateway, StartGrpc, MarkStartupComplete, Shutdown, StopGrpc, CloseGateway, probing
  <1>4. ASSUME NEW q \in Probes, BeginProbe(q)
        PROVE  HealthInv'
    <2>1. PICK new \in ProbeRecord : new = [at |-> "running", todo |-> checks, worst |-> "healthy"]
      BY <1>i DEF HealthTypeOK, ProbeRecord
    <2>2. new.at = "running" /\ new.todo = checks /\ new.worst = "healthy"
      BY <2>1
    <2>3. /\ probe' = [probe EXCEPT ![q] = new] /\ seenUp' = [seenUp EXCEPT ![q] = up]
          /\ seenDown' = [seenDown EXCEPT ![q] = Dependencies \ up]
          /\ spoilt' = [spoilt EXCEPT ![q] = {}]
          /\ UNCHANGED <<phase, checks, up>> /\ phase = "serving"
      BY <1>4, <2>1 DEF BeginProbe
    <2>4. HealthTypeOK'
      BY <1>i, <2>3 DEF HealthTypeOK
    <2>5. /\ probe'[q] = new /\ seenUp'[q] = up /\ seenDown'[q] = Dependencies \ up
          /\ \A p \in Probes \ {q} : /\ probe'[p] = probe[p] /\ spoilt'[p] = spoilt[p]
                                    /\ seenUp'[p] = seenUp[p] /\ seenDown'[p] = seenDown[p]
      BY <1>i, <2>3 DEF HealthTypeOK
    <2>6. ProbesTell'
      BY <1>i, <2>2, <2>3, <2>5 DEF ProbesTell, Running
    <2> QED BY <2>3, <2>4, <2>6 DEF HealthInv, ChecksSettled
  <1>5. ASSUME NEW q \in Probes, RunCheck(q)
        PROVE  HealthInv'
    <2>1. PICK d \in probe[q].todo, passes \in BOOLEAN :
            /\ passes => CheckPasses(d)
            /\ probe' = [probe EXCEPT ![q].todo = @ \ {d}, ![q].worst = Overall(q, passes)]
            /\ spoilt' = IF passes \/ d \notin up THEN spoilt
                                                  ELSE [spoilt EXCEPT ![q] = @ \cup {d}]
      BY <1>5 DEF RunCheck
    <2>2. Running(q) /\ probe[q] \in ProbeRecord /\ UNCHANGED <<phase, checks, up, seenUp, seenDown>>
      BY <1>5, <1>i DEF RunCheck, HealthTypeOK
    <2>3. PICK worst \in {"healthy", "unhealthy"} : worst = Overall(q, passes)
      BY <2>2 DEF Overall, ProbeRecord
    <2>4. PICK new \in ProbeRecord : new = [probe[q] EXCEPT !.todo = @ \ {d}, !.worst = worst]
      BY <2>2 DEF ProbeRecord
    <2>5. /\ new.at = probe[q].at /\ new.todo = probe[q].todo \ {d} /\ new.worst = worst
      BY <2>2, <2>4 DEF ProbeRecord
    <2>6. probe' = [probe EXCEPT ![q] = new]
      BY <2>1, <2>3, <2>4
    <2>7. d \in checks /\ d \in Dependencies /\ probe[q].at = "running"
      BY <1>i, <2>2 DEF ProbesTell, Running, HealthTypeOK
    <2>8. worst = "healthy" => d \in seenUp[q] \cap Importable /\ probe[q].worst = "healthy"
      BY <1>i, <2>1, <2>2, <2>3 DEF Overall, CheckPasses, ProbesTell
    <2>9. PICK failed \in SUBSET Dependencies :
            /\ spoilt[q] \subseteq failed /\ spoilt' = [spoilt EXCEPT ![q] = failed]
            /\ ~passes /\ d \in up => d \in failed
      <3>1. CASE passes \/ d \notin up
        BY <1>i, <2>1, <3>1 DEF HealthTypeOK
      <3>2. CASE ~(passes \/ d \notin up)
        BY <1>i, <2>1, <2>7, <3>2 DEF HealthTypeOK
      <3> QED BY <3>1, <3>2
    <2>10. worst = "unhealthy" => d \in seenDown[q] \cup failed \/ probe[q].worst = "unhealthy"
      BY <1>i, <2>2, <2>3, <2>7, <2>9 DEF Overall, ProbesTell
    <2>11. /\ worst = "healthy" => checks \ new.todo \subseteq seenUp[q] \cap Importable
           /\ worst = "unhealthy" => checks \cap (seenDown[q] \cup failed) # {}
           /\ new.todo \subseteq checks
      BY <1>i, <2>5, <2>7, <2>8, <2>9, <2>10 DEF ProbesTell
    <2> QED BY <2>2, <2>5, <2>6, <2>7, <2>9, <2>11, ProbeGoesOn
  <1>6. ASSUME NEW q \in Probes, Answer(q)
        PROVE  HealthInv'
    <2>1. Running(q) /\ probe[q].todo = {} /\ probe[q] \in ProbeRecord /\ UNCHANGED <<phase, checks, up, seenUp, seenDown>>
      BY <1>6, <1>i DEF Answer, HealthTypeOK
    <2>2. PICK new \in ProbeRecord : new = [probe[q] EXCEPT !.at = "answered"]
      BY <2>1 DEF ProbeRecord
    <2>3. new.at = "answered" /\ new.todo = probe[q].todo /\ new.worst = probe[q].worst
      BY <2>1, <2>2 DEF ProbeRecord
    <2>4. probe' = [probe EXCEPT ![q] = new]
      BY <1>6, <2>2 DEF Answer
    <2>5. probe[q].at = "running"
      BY <2>1 DEF Running
    <2>6. /\ new.worst = "healthy" => checks \ new.todo \subseteq seenUp[q] \cap Importable
          /\ new.worst = "unhealthy" => checks \cap (seenDown[q] \cup spoilt[q]) # {}
      BY <1>i, <2>3, <2>5 DEF ProbesTell
    <2>7. spoilt' = [spoilt EXCEPT ![q] = spoilt[q]] /\ spoilt[q] \in SUBSET Dependencies
      BY <1>6, <1>i DEF Answer, HealthTypeOK
    <2> QED BY <2>1, <2>3, <2>4, <2>5, <2>6, <2>7, ProbeGoesOn
  <1>7. ASSUME NEW d \in Dependencies, GoDownOrComeBack(d)
        PROVE  HealthInv'
    <2>1. UNCHANGED <<phase, checks, probe, spoilt>> /\ up' \subseteq Dependencies
      BY <1>7, <1>i DEF GoDownOrComeBack, HealthTypeOK
    <2>2. /\ seenUp' \in [Probes -> SUBSET Dependencies]
          /\ \A q \in Probes : seenUp'[q] = IF Running(q) THEN seenUp[q] \cup up' ELSE seenUp[q]
      BY <1>7, <1>i, <2>1 DEF GoDownOrComeBack, HealthTypeOK
    <2>3. /\ seenDown' \in [Probes -> SUBSET Dependencies]
          /\ \A q \in Probes : seenDown'[q] = IF Running(q) THEN seenDown[q] \cup (Dependencies \ up') ELSE seenDown[q]
      BY <1>7, <1>i, <2>1 DEF GoDownOrComeBack, HealthTypeOK
    <2>4. ProbesTell'
      BY <1>i, <2>1, <2>2, <2>3 DEF ProbesTell, Running
    <2> QED BY <1>i, <2>1, <2>2, <2>3, <2>4 DEF HealthInv, HealthTypeOK, ChecksSettled
  <1>8. CASE UNCHANGED healthVars
    BY <1>2, <1>8 DEF healthVars
  <1> QED BY <1>1, <1>3, <1>4, <1>5, <1>6, <1>7, <1>8 DEF HealthNext

\* Each service that an answer calls healthy has a client and was up at some moment
\* of the request, and an answer is unhealthy only if one was down or a check failed
\* by itself (run_checks, register_default_checks), for any number of services and
\* requests and whatever libraries are installed.
THEOREM ReadinessIsHonest == HealthSpec => []ReadinessHonest
  <1>1. HealthSpec => []HealthInv
    BY InitHealth, HealthStep, PTL DEF HealthSpec
  <1>2. HealthInv => ReadinessHonest
    BY DEF HealthInv, HealthTypeOK, ProbeRecord, ProbesTell, ReadinessHonest
  <1> QED BY <1>1, <1>2, PTL

------------------------------------------------------------------------------
(* SemanticIndex: the chunks of a body                                        *)

\* Every set of numbers has a least one: what is defined or holds step by step,
\* does so for every number (what follows looks for the first exception).
LEMMA LeastNumber ==
    ASSUME NEW T, T \subseteq Nat, T # {}
    PROVE  \E m \in T : \A k \in T : m <= k
<1> DEFINE below == OpToRel(<, Nat)
<1>1. \E m \in T : \A k \in T : ~(<<k, m>> \in below)
  BY NatLessThanWellFounded, WFMin
<1>2. \A k, m \in Nat : <<k, m>> \in below <=> k < m
  BY DEF OpToRel
<1> HIDE DEF below
<1>3. PICK m \in T : \A k \in T : ~(<<k, m>> \in below)
  BY <1>1
<1>4. ASSUME NEW k \in T
      PROVE  m <= k
  <2>1. m \in Nat /\ k \in Nat
    OBVIOUS
  <2>2. ~(k < m)
    BY <1>2, <1>3, <2>1
  <2> QED
    BY <2>1, <2>2
<1> QED
  BY <1>4

\* g does n steps from base.
Steps(g, n, V, base, next) ==
    /\ g \in [0..n -> V]
    /\ g[0] = base
    /\ \A i \in 1..n : g[i] = next[<<g[i - 1], i>>]

\* A function that takes each value from the one before exists.
LEMMA StepsExist ==
    ASSUME NEW n \in Nat, NEW V, NEW base \in V, NEW next \in [V \X (1..n) -> V]
    PROVE  \E g : Steps(g, n, V, base, next)
<1> DEFINE fails == {m \in 0..n : ~\E g : Steps(g, m, V, base, next)}
<1>0. fails \subseteq Nat
  OBVIOUS
<1> SUFFICES ASSUME fails # {}
             PROVE  FALSE
  OBVIOUS
<1>1. PICK m \in fails : \A k \in fails : m <= k
  <2> HIDE DEF fails
  <2> QED
    BY <1>0, LeastNumber
<1>2. 0 \notin fails
  <2> DEFINE g == [i \in 0..0 |-> base]
  <2>1. Steps(g, 0, V, base, next)
    BY DEF Steps
  <2> QED
    BY <2>1
<1>3. m \in 1..n /\ m - 1 \in 0..n /\ m - 1 \notin fails
  <2>1. m \in 0..n /\ m # 0
    BY <1>2
  <2>2. m \in 1..n /\ m - 1 \in 0..n /\ m - 1 < m
    BY <2>1
  <2> HIDE DEF fails
  <2> QED
    BY <1>0, <1>1, <2>2
<1>4. PICK g : Steps(g, m - 1, V, base, next)
  BY <1>3
<1> HIDE DEF fails
<1> DEFINE h == [i \in 0..m |-> IF i = m THEN next[<<g[m - 1], m>>] ELSE g[i]]
<1>5. /\ g \in [0..(m - 1) -> V] /\ g[0] = base
      /\ \A i \in 1..(m - 1) : g[i] = next[<<g[i - 1], i>>]
  BY <1>4 DEF Steps
<1>6. next[<<g[m - 1], m>>] \in V
  <2>1. <<g[m - 1], m>> \in V \X (1..n)
    BY <1>3, <1>5
  <2> QED
    BY <2>1
<1>7. h \in [0..m -> V]
  BY <1>3, <1>5, <1>6
<1>8. h[0] = base
  BY <1>3, <1>5
<1>9. ASSUME NEW i \in 1..m
      PROVE  h[i] = next[<<h[i - 1], i>>]
  <2>1. i - 1 \in 0..m /\ i - 1 # m /\ h[i - 1] = g[i - 1]
    BY <1>3
  <2>2. CASE i = m
    BY <2>1, <2>2, <1>3
  <2>3. CASE i # m
    <3>1. i \in 1..(m - 1) /\ h[i] = g[i]
      BY <1>3, <2>3
    <3> QED
      BY <1>5, <2>1, <3>1
  <2> QED
    BY <2>2, <2>3
<1> HIDE DEF h
<1>10. Steps(h, m, V, base, next)
  BY <1>7, <1>8, <1>9 DEF Steps
<1> QED
  BY <1>1, <1>10 DEF fails

\* CharsOf adds line after line.
LEMMA CharsSum ==
    ASSUME NEW body \in Seq(Nat), NEW i \in Nat \ {0}, NEW j \in 0..Len(body)
    PROVE  /\ CharsOf(body, i, j) \in Nat
           /\ j < i => CharsOf(body, i, j) = 0
           /\ j >= i => CharsOf(body, i, j) = CharsOf(body, i, j - 1) + body[j]
<1>0. PICK n \in Nat : n = Len(body) /\ \A k \in 1..n : body[k] \in Nat
  OBVIOUS
<1> DEFINE Sums(g) == g = [k \in 0..n |-> IF k < i THEN 0 ELSE g[k - 1] + body[k]]
<1>1. PICK next \in [Nat \X (1..n) -> Nat] :
        \A x \in Nat \X (1..n) : next[x] = IF x[2] < i THEN 0 ELSE x[1] + body[x[2]]
  <2> DEFINE next == [x \in Nat \X (1..n) |-> IF x[2] < i THEN 0 ELSE x[1] + body[x[2]]]
  <2>1. next \in [Nat \X (1..n) -> Nat]
    BY <1>0
  <2> QED
    BY <2>1
<1>s. PICK g : Steps(g, n, Nat, 0, next)
  BY StepsExist
<1>2. g \in [0..n -> Nat] /\ g[0] = 0 /\ \A k \in 1..n : g[k] = next[<<g[k - 1], k>>]
  BY <1>s DEF Steps
<1>3. Sums(g)
  <2>1. ASSUME NEW k \in 0..n
        PROVE  g[k] = IF k < i THEN 0 ELSE g[k - 1] + body[k]
    <3>1. CASE k = 0
      BY <1>2, <3>1
    <3>2. CASE k # 0
      <4>1. k \in 1..n /\ k - 1 \in 0..n
        BY <3>2, <1>0
      <4>2. g[k] = next[<<g[k - 1], k>>] /\ g[k - 1] \in Nat
        BY <1>2, <4>1
      <4> QED
        BY <1>1, <4>1, <4>2
    <3> QED
      BY <3>1, <3>2
  <2> QED
    BY <1>2, <2>1
<1> DEFINE sum == CHOOSE h : Sums(h)
<1>4. Sums(sum)
  BY <1>3
<1>5. \A k : CharsOf(body, i, k) = sum[k]
  BY <1>0 DEF CharsOf
<1> HIDE DEF sum
<1>6. sum[0] = 0 /\ \A k \in 1..n : sum[k] = IF k < i THEN 0 ELSE sum[k - 1] + body[k]
  BY <1>4
<1> DEFINE bad == {k \in 0..n : sum[k] \notin Nat}
<1>7. bad = {}
  <2> SUFFICES ASSUME bad # {}
               PROVE  FALSE
    OBVIOUS
  <2>0. bad \subseteq Nat
    OBVIOUS
  <2>1. PICK k \in bad : \A l \in bad : k <= l
    <3> HIDE DEF bad
    <3> QED
      BY <2>0, LeastNumber
  <2>2. k \in 1..n /\ k - 1 \in 0..n /\ k - 1 < k /\ sum[k] \notin Nat
    BY <1>6
  <2>3. k - 1 \notin bad
    <3> HIDE DEF bad
    <3> QED
      BY <2>0, <2>1, <2>2
  <2>4. sum[k - 1] \in Nat
    BY <2>2, <2>3
  <2>5. body[k] \in Nat
    BY <1>0, <2>2
  <2> HIDE DEF bad
  <2>6. sum[k] \in {0, sum[k - 1] + body[k]}
    BY <1>6, <2>2
  <2>7. sum[k] \in Nat
    BY <2>4, <2>5, <2>6
  <2> QED
    BY <2>2, <2>7
<1>8. \A k \in 0..n : sum[k] \in Nat
  BY <1>7
<1>9. j \in 0..n /\ (j >= i => j \in 1..n)
  BY <1>0
<1> QED
  BY <1>5, <1>6, <1>8, <1>9

LoopStart == [chunks |-> <<>>, from |-> 1, chars |-> 0]

\* The loop of _split_into_chunks, of which h tells the state after each line.
IsLoop(body, h, n) ==
    h = [i \in 0..n |-> IF i = 0 THEN LoopStart ELSE AddLine(body, h[i - 1], i)]

\* Such a function exists, so that Loop is one.
LEMMA LoopExists ==
    ASSUME NEW body, NEW n \in Nat
    PROVE  \E h : IsLoop(body, h, n)
<1> DEFINE fails == {m \in 0..n : ~\E h : IsLoop(body, h, m)}
<1>0. fails \subseteq Nat
  OBVIOUS
<1> SUFFICES ASSUME fails # {}
             PROVE  FALSE
  OBVIOUS
<1>1. PICK m \in fails : \A k \in fails : m <= k
  <2> HIDE DEF fails
  <2> QED
    BY <1>0, LeastNumber
<1>2. 0 \notin fails
  <2> DEFINE g == [i \in 0..0 |-> LoopStart]
  <2>1. IsLoop(body, g, 0)
    BY DEF IsLoop
  <2> QED
    BY <2>1
<1>3. m \in 1..n /\ m - 1 \in 0..n /\ m - 1 \notin fails
  <2>1. m \in 0..n /\ m # 0
    BY <1>2
  <2>2. m \in 1..n /\ m - 1 \in 0..n /\ m - 1 < m
    BY <2>1
  <2> HIDE DEF fails
  <2> QED
    BY <1>0, <1>1, <2>2
<1>4. PICK g : IsLoop(body, g, m - 1)
  BY <1>3
<1> HIDE DEF fails
<1> DEFINE h == [i \in 0..m |-> IF i = m THEN AddLine(body, g[m - 1], m) ELSE g[i]]
<1>5. \A i \in 0..(m - 1) : g[i] = IF i = 0 THEN LoopStart ELSE AddLine(body, g[i - 1], i)
  BY <1>4 DEF IsLoop
<1>6. ASSUME NEW i \in 0..m
      PROVE  h[i] = IF i = 0 THEN LoopStart ELSE AddLine(body, h[i - 1], i)
  <2>1. CASE i = m
    <3>1. h[i - 1] = g[m - 1]
      BY <1>3, <2>1
    <3> QED
      BY <1>3, <2>1, <3>1
  <2>2. CASE i # m
    <3>1. i \in 0..(m - 1) /\ h[i] = g[i]
      BY <1>3, <2>2
    <3>2. i # 0 => h[i - 1] = g[i - 1]
      BY <1>3, <2>2
    <3> QED
      BY <1>5, <3>1, <3>2
  <2> QED
    BY <2>1, <2>2
<1>7. h = [i \in 0..m |-> IF i = 0 THEN LoopStart ELSE AddLine(body, h[i - 1], i)]
  BY <1>6
<1> HIDE DEF h
<1>8. IsLoop(body, h, m)
  BY <1>7 DEF IsLoop
<1> QED
  BY <1>1, <1>8 DEF fails

\* The loop starts with no chunk and adds line after line.
LEMMA LoopSteps ==
    ASSUME NEW body \in Seq(Nat)
    PROVE  /\ Loop(body)[0] = LoopStart
           /\ \A i \in 1..Len(body) : Loop(body)[i] = AddLine(body, Loop(body)[i - 1], i)
<1>0. PICK n \in Nat : n = Len(body)
  OBVIOUS
<1>1. \E h : IsLoop(body, h, n)
  BY LoopExists
<1> DEFINE loop == CHOOSE h : IsLoop(body, h, n)
<1>2. IsLoop(body, loop, n)
  BY <1>1
<1>3. Loop(body) = loop
  BY <1>0 DEF Loop, IsLoop, LoopStart
<1> HIDE DEF loop
<1>4. \A i \in 0..n : loop[i] = IF i = 0 THEN LoopStart ELSE AddLine(body, loop[i - 1], i)
  BY <1>2 DEF IsLoop
<1>5. loop[0] = LoopStart
  BY <1>4
<1>6. \A i \in 1..n : loop[i] = AddLine(body, loop[i - 1], i)
  BY <1>4
<1> QED
  BY <1>0, <1>3, <1>5, <1>6

\* The overlap begins within the chunk, or after it, and keeps to its limit.
LEMMA OverlapBegins ==
    ASSUME NEW body \in Seq(Nat), NEW i \in 1..Len(body), NEW from \in 1..(i - 1)
    PROVE  /\ OverlapFrom(body, from, i) \in from..i
           /\ CharsOf(body, OverlapFrom(body, from, i), i - 1) <= OverlapChars
<1>0. i \in Nat /\ from \in Nat /\ i - 1 \in 0..Len(body) /\ i \in Nat \ {0} /\ OverlapChars \in Nat
  BY ChunkingAssumption
<1> DEFINE fit == {k \in from..i : CharsOf(body, k, i - 1) <= OverlapChars}
<1>1. i \in fit
  <2>1. CharsOf(body, i, i - 1) = 0
    BY <1>0, CharsSum
  <2> QED
    BY <1>0, <2>1
<1>2. fit \subseteq Nat /\ fit # {}
  BY <1>0, <1>1
<1>3. PICK k \in fit : \A l \in fit : k <= l
  <2> HIDE DEF fit
  <2> QED
    BY <1>2, LeastNumber
<1>4. ASSUME NEW l \in from..(k - 1)
      PROVE  CharsOf(body, l, i - 1) > OverlapChars
  <2>1. l \in from..i /\ l < k /\ l \in Nat \ {0}
    BY <1>0
  <2>2. CharsOf(body, l, i - 1) \in Nat
    BY <1>0, <2>1, CharsSum
  <2>3. l \notin fit
    <3> HIDE DEF fit
    <3> QED
      BY <1>2, <1>3, <2>1
  <2> QED
    BY <1>0, <2>1, <2>2, <2>3
<1>5. \E l \in from..i : /\ CharsOf(body, l, i - 1) <= OverlapChars
                         /\ \A o \in from..(l - 1) : CharsOf(body, o, i - 1) > OverlapChars
  BY <1>3, <1>4
<1> QED
  BY <1>5 DEF OverlapFrom

Pairs == Nat \X Nat

\* What the loop has after i lines: its chunks are bounded, follow each other and
\* cover the lines before the current chunk, which covers the rest.
LoopOK(body, s, i) ==
    /\ s.chunks \in Seq(Pairs)
    /\ s.from \in Nat /\ 1 <= s.from /\ (i = 0 => s.from = 1) /\ (i > 0 => s.from <= i)
    /\ s.chars = CharsOf(body, s.from, i)
    /\ i > 0 => Bounded(body, <<s.from, i>>)
    /\ \A m \in 1..Len(s.chunks) :
        LET c == s.chunks[m] IN
        /\ 1 <= c[1] /\ c[1] <= c[2] /\ c[2] < i /\ c[1] <= s.from
        /\ Bounded(body, c)
    /\ \A m, l \in 1..Len(s.chunks) :
        m < l => s.chunks[m][1] <= s.chunks[l][1] /\ s.chunks[m][2] < s.chunks[l][2]
    /\ \A l \in 1..i : l < s.from =>
        \E m \in 1..Len(s.chunks) : s.chunks[m][1] <= l /\ l <= s.chunks[m][2]

\* Another line keeps what LoopOK says, whether it begins a chunk or not.
LEMMA LoopKeeps ==
    ASSUME NEW body \in Seq(Nat), NEW i \in 1..Len(body), NEW s, LoopOK(body, s, i - 1)
    PROVE  LoopOK(body, AddLine(body, s, i), i)
<1>0. /\ i \in Nat /\ i >= 1 /\ i - 1 \in 0..Len(body) /\ i \in 0..Len(body) /\ i - 1 \in Nat
      /\ MaxChars \in Nat /\ OverlapChars \in Nat /\ body[i] \in Nat
  BY ChunkingAssumption
<1> DEFINE n == Len(s.chunks)
<1>1. /\ s.chunks \in Seq(Pairs) /\ n \in Nat
      /\ s.from \in Nat /\ 1 <= s.from /\ s.from <= i /\ s.from \in Nat \ {0}
      /\ (i - 1 > 0 => s.from <= i - 1) /\ (i - 1 = 0 => s.from = 1)
      /\ s.chars = CharsOf(body, s.from, i - 1)
  BY <1>0 DEF LoopOK
<1>2. \A m \in 1..n :
        /\ s.chunks[m] \in Pairs
        /\ 1 <= s.chunks[m][1] /\ s.chunks[m][1] <= s.chunks[m][2] /\ s.chunks[m][2] < i - 1
        /\ s.chunks[m][1] <= s.from /\ Bounded(body, s.chunks[m])
  BY <1>1 DEF LoopOK
<1>3. \A m, l \in 1..n :
        m < l => s.chunks[m][1] <= s.chunks[l][1] /\ s.chunks[m][2] < s.chunks[l][2]
  BY DEF LoopOK
<1>4. \A l \in 1..(i - 1) : l < s.from =>
        \E m \in 1..n : s.chunks[m][1] <= l /\ l <= s.chunks[m][2]
  BY DEF LoopOK
<1>5. \A k \in Nat \ {0} : k <= i => CharsOf(body, k, i) = CharsOf(body, k, i - 1) + body[i]
  BY <1>0, CharsSum
<1>6. \A k \in Nat \ {0} : CharsOf(body, k, i - 1) \in Nat /\ CharsOf(body, k, i) \in Nat
  BY <1>0, CharsSum
<1>7. CASE s.chars + body[i] > MaxChars /\ s.from < i
  <2>1. PICK k : k = OverlapFrom(body, s.from, i)
    OBVIOUS
  <2>2. s.from \in 1..(i - 1)
    BY <1>0, <1>1, <1>7
  <2>3. k \in s.from..i /\ CharsOf(body, k, i - 1) <= OverlapChars /\ k \in Nat \ {0}
    BY <2>1, <2>2, OverlapBegins
  <2>4. PICK t : t = AddLine(body, s, i)
    OBVIOUS
  <2>5. t = [chunks |-> Append(s.chunks, <<s.from, i - 1>>), from |-> k, chars |-> CharsOf(body, k, i)]
    BY <1>7, <2>1, <2>4 DEF AddLine
  <2>6. <<s.from, i - 1>> \in Pairs
    BY <1>0, <1>1 DEF Pairs
  <2>7. /\ t.chunks \in Seq(Pairs) /\ Len(t.chunks) = n + 1
        /\ \A m \in 1..n : t.chunks[m] = s.chunks[m]
        /\ t.chunks[n + 1] = <<s.from, i - 1>>
    <3> HIDE DEF Pairs
    <3> QED
      BY <1>1, <2>5, <2>6
  <2>8. t.from = k /\ t.chars = CharsOf(body, k, i)
    BY <2>5
  <2>9. Bounded(body, <<k, i>>)
    BY <2>3 DEF Bounded
  <2>10. Bounded(body, <<s.from, i - 1>>)
    <3>1. i - 1 > 0
      BY <1>0, <2>2
    <3> QED
      BY <3>1 DEF LoopOK
  <2>11. ASSUME NEW m \in 1..(n + 1)
         PROVE  /\ 1 <= t.chunks[m][1] /\ t.chunks[m][1] <= t.chunks[m][2]
                /\ t.chunks[m][2] < i /\ t.chunks[m][1] <= k /\ Bounded(body, t.chunks[m])
    <3>1. CASE m = n + 1
      <4>1. /\ t.chunks[m] = <<s.from, i - 1>> /\ t.chunks[m][1] = s.from
            /\ t.chunks[m][2] = i - 1
        BY <2>7, <3>1
      <4>2. s.from <= k /\ s.from <= i - 1 /\ i - 1 < i
        BY <1>0, <1>1, <2>2, <2>3
      <4> QED
        BY <1>1, <2>10, <4>1, <4>2
    <3>2. CASE m # n + 1
      <4>1. m \in 1..n /\ t.chunks[m] = s.chunks[m]
        BY <1>1, <2>7, <3>2
      <4>2. PICK c \in Nat \X Nat : c = s.chunks[m]
        BY <1>2, <4>1 DEF Pairs
      <4>3. /\ 1 <= c[1] /\ c[1] <= c[2] /\ c[2] < i - 1 /\ c[1] <= s.from
            /\ Bounded(body, c)
        BY <1>2, <4>1, <4>2
      <4>4. c[1] \in Nat /\ c[2] \in Nat
        OBVIOUS
      <4>5. c[2] < i /\ c[1] <= k
        <5>1. s.from \in Nat /\ k \in Nat /\ s.from <= k
          BY <1>0, <1>1, <2>3
        <5>2. c[2] < i
          BY <1>0, <4>3, <4>4
        <5>3. c[1] <= k
          BY <4>3, <4>4, <5>1
        <5> QED
          BY <5>2, <5>3
      <4> QED
        BY <4>1, <4>2, <4>3, <4>5
    <3> QED
      BY <3>1, <3>2
  <2>12. ASSUME NEW m \in 1..(n + 1), NEW l \in 1..(n + 1), m < l
         PROVE  t.chunks[m][1] <= t.chunks[l][1] /\ t.chunks[m][2] < t.chunks[l][2]
    <3>1. m \in 1..n /\ t.chunks[m] = s.chunks[m]
      BY <1>1, <2>7, <2>12
    <3>2. CASE l = n + 1
      BY <1>2, <2>7, <3>1, <3>2
    <3>3. CASE l # n + 1
      <4>0. l \in Nat /\ 1 <= l /\ l <= n + 1
        BY <1>1
      <4>1. l \in 1..n
        <5>1. n \in Nat
          BY <1>1
        <5> HIDE DEF n
        <5> QED
          BY <3>3, <4>0, <5>1
      <4>2. t.chunks[l] = s.chunks[l]
        BY <2>7, <4>1
      <4> QED
        BY <4>2, <1>3, <2>12, <3>1, <4>1
    <3> QED
      BY <3>2, <3>3
  <2>13. ASSUME NEW l \in 1..i, l < k
         PROVE  \E m \in 1..(n + 1) : t.chunks[m][1] <= l /\ l <= t.chunks[m][2]
    <3>1. l \in 1..(i - 1) /\ l \in Nat
      BY <1>0, <2>3, <2>13
    <3>2. CASE l < s.from
      <4>1. PICK m \in 1..n : s.chunks[m][1] <= l /\ l <= s.chunks[m][2]
        BY <1>4, <3>1, <3>2
      <4>2. m \in 1..(n + 1) /\ t.chunks[m] = s.chunks[m]
        BY <1>1, <2>7
      <4> QED
        BY <4>1, <4>2
    <3>3. CASE ~(l < s.from)
      <4>1. n + 1 \in 1..(n + 1) /\ t.chunks[n + 1][1] = s.from /\ t.chunks[n + 1][2] = i - 1
        BY <1>1, <2>7
      <4>2. s.from <= l /\ l <= i - 1
        BY <1>0, <1>1, <3>1, <3>3
      <4> QED
        BY <4>1, <4>2
    <3> QED
      BY <3>2, <3>3
  <2>14. k \in Nat /\ 1 <= k /\ k <= i /\ (i = 0 => k = 1)
    BY <1>0, <1>1, <2>3
  <2> HIDE DEF n
  <2>15. LoopOK(body, t, i)
    BY <2>7, <2>8, <2>9, <2>11, <2>12, <2>13, <2>14 DEF LoopOK
  <2> QED
    BY <2>4, <2>15
<1>8. CASE ~(s.chars + body[i] > MaxChars /\ s.from < i)
  <2>1. PICK t : t = AddLine(body, s, i)
    OBVIOUS
  <2>2. /\ t.chunks = s.chunks /\ t.from = s.from /\ t.chars = s.chars + body[i]
    BY <1>8, <2>1 DEF AddLine
  <2>3. t.chars = CharsOf(body, s.from, i)
    BY <1>1, <1>5, <2>2
  <2>4. Bounded(body, <<s.from, i>>)
    <3>1. CASE s.from < i
      <4>1. CharsOf(body, s.from, i) \in Nat /\ CharsOf(body, s.from, i) = s.chars + body[i]
        BY <1>1, <1>6, <2>2, <2>3
      <4>2. ~(s.chars + body[i] > MaxChars)
        BY <1>8, <3>1
      <4>3. CharsOf(body, s.from, i) <= MaxChars
        BY <1>0, <4>1, <4>2
      <4> QED
        BY <4>3 DEF Bounded
    <3>2. CASE ~(s.from < i)
      <4>1. i - 1 < s.from
        BY <1>0, <1>1, <3>2
      <4>2. CharsOf(body, s.from, i - 1) = 0
        BY <1>0, <1>1, <4>1, CharsSum
      <4>3. CharsOf(body, s.from, i - 1) <= OverlapChars
        BY <1>0, <4>2
      <4> QED
        BY <4>3 DEF Bounded
    <3> QED
      BY <3>1, <3>2
  <2>5. ASSUME NEW m \in 1..n
        PROVE  s.chunks[m][2] < i
    <3>1. PICK c \in Nat \X Nat : c = s.chunks[m]
      BY <1>2 DEF Pairs
    <3>2. c[2] \in Nat /\ c[2] < i - 1
      BY <1>2, <3>1
    <3> QED
      BY <1>0, <3>1, <3>2
  <2>6. ASSUME NEW l \in 1..i, l < s.from
        PROVE  \E m \in 1..n : s.chunks[m][1] <= l /\ l <= s.chunks[m][2]
    <3>1. l \in 1..(i - 1)
      BY <1>0, <1>1, <2>6
    <3> QED
      BY <1>4, <2>6, <3>1
  <2>7. s.from \in Nat /\ 1 <= s.from /\ s.from <= i /\ (i = 0 => s.from = 1)
    BY <1>0, <1>1
  <2>8. LoopOK(body, t, i)
    BY <1>1, <1>2, <1>3, <2>2, <2>3, <2>4, <2>5, <2>6, <2>7 DEF LoopOK
  <2> QED
    BY <2>1, <2>8
<1> QED
  BY <1>7, <1>8

\* At the end of the body it holds as well.
LEMMA LoopHolds ==
    ASSUME NEW body \in Seq(Nat)
    PROVE  LoopOK(body, Loop(body)[Len(body)], Len(body))
<1>0. PICK n \in Nat : n = Len(body)
  OBVIOUS
<1> DEFINE bad == {i \in 0..n : ~LoopOK(body, Loop(body)[i], i)}
<1>1. bad = {}
  <2> SUFFICES ASSUME bad # {}
               PROVE  FALSE
    OBVIOUS
  <2>0. bad \subseteq Nat
    OBVIOUS
  <2>1. PICK i \in bad : \A k \in bad : i <= k
    <3> HIDE DEF bad
    <3> QED
      BY <2>0, LeastNumber
  <2>2. LoopOK(body, LoopStart, 0)
    <3>1. CharsOf(body, 1, 0) = 0
      BY <1>0, CharsSum
    <3>2. LoopStart.chunks = <<>> /\ LoopStart.from = 1 /\ LoopStart.chars = 0
      BY DEF LoopStart
    <3>3. <<>> \in Seq(Pairs) /\ Len(<<>>) = 0
      OBVIOUS
    <3>4. 1..0 = {}
      OBVIOUS
    <3> QED
      BY <3>1, <3>2, <3>3, <3>4 DEF LoopOK
  <2>3. i # 0
    BY <2>2, LoopSteps
  <2>4. i \in 1..n /\ i - 1 \in 0..n /\ i - 1 < i
    BY <2>3
  <2>5. i - 1 \notin bad
    <3> HIDE DEF bad
    <3> QED
      BY <2>0, <2>1, <2>4
  <2>6. LoopOK(body, Loop(body)[i - 1], i - 1)
    BY <2>4, <2>5
  <2>7. PICK s : s = Loop(body)[i - 1]
    OBVIOUS
  <2>8. LoopOK(body, AddLine(body, s, i), i)
    BY <1>0, <2>4, <2>6, <2>7, LoopKeeps
  <2>9. Loop(body)[i] = AddLine(body, s, i)
    BY <1>0, <2>4, <2>7, LoopSteps
  <2> QED
    BY <2>8, <2>9
<1> QED
  BY <1>0, <1>1

\* The chunks of a body: they cover it, in order, each within its limits; an empty
\* one has none.
ChunksOK(body, cs) ==
    /\ cs \in Seq(Pairs) /\ Len(cs) \in Nat
    /\ \A m \in 1..Len(cs) :
        /\ 1 <= cs[m][1] /\ cs[m][2] <= Len(body)
        /\ Len(body) # 0 => cs[m][1] <= cs[m][2]
        /\ BodyLength(body) > WholeChars => Bounded(body, cs[m])
    /\ \A m, l \in 1..Len(cs) : m < l => cs[m][1] <= cs[l][1] /\ cs[m][2] < cs[l][2]
    /\ BodyLength(body) # 0 =>
        \A l \in 1..Len(body) : \E m \in 1..Len(cs) : cs[m][1] <= l /\ l <= cs[m][2]

\* The chunks that _extract_chunks makes of a body are so.
LEMMA ChunksCover ==
    ASSUME NEW body \in Seq(Nat)
    PROVE  ChunksOK(body, ExtractChunks(body))
<1>0. PICK n \in Nat : n = Len(body)
  OBVIOUS
<1>l. BodyLength(body) \in Int /\ (n = 0 => BodyLength(body) = -1)
  <2>1. /\ 1 \in Nat \ {0} /\ n \in 0..Len(body)
        /\ CharsOf(body, 1, n) \in Nat /\ (n < 1 => CharsOf(body, 1, n) = 0)
    BY <1>0, CharsSum
  <2>2. BodyLength(body) = CharsOf(body, 1, n) + (n - 1)
    BY <1>0 DEF BodyLength, Content
  <2> QED
    BY <2>1, <2>2
<1>e. CASE BodyLength(body) = 0
  <2>1. <<>> \in Seq(Pairs) /\ Len(<<>>) = 0 /\ 1..0 = {}
    OBVIOUS
  <2>2. ExtractChunks(body) = <<>>
    BY <1>e DEF ExtractChunks
  <2> QED
    BY <1>e, <2>1, <2>2 DEF ChunksOK
<1>1. CASE BodyLength(body) # 0 /\ BodyLength(body) <= WholeChars
  <2>1. PICK cs : cs = << <<1, n>> >>
    OBVIOUS
  <2>2. cs \in Seq(Pairs) /\ Len(cs) = 1 /\ cs[1] = <<1, n>>
    <3>1. <<1, n>> \in Pairs
      BY DEF Pairs
    <3> HIDE DEF Pairs
    <3> QED
      BY <2>1, <3>1
  <2>3. 1..1 = {1} /\ \A m, l \in 1..1 : ~(m < l)
    OBVIOUS
  <2>4. ChunksOK(body, cs)
    <3>1. ~(BodyLength(body) > WholeChars)
      BY <1>1, <1>l, ChunkingAssumption
    <3> QED
      BY <1>0, <2>2, <2>3, <3>1 DEF ChunksOK
  <2> QED
    BY <1>0, <1>1, <2>1, <2>4 DEF ExtractChunks
<1>2. CASE BodyLength(body) # 0 /\ ~(BodyLength(body) <= WholeChars)
  <2>1. n > 0
    BY <1>0, <1>2, <1>l, ChunkingAssumption
  <2>2. PICK s : s = Loop(body)[n]
    OBVIOUS
  <2>3. LoopOK(body, s, n)
    BY <1>0, <2>2, LoopHolds
  <2>4. PICK cs : cs = Append(s.chunks, <<s.from, n>>)
    OBVIOUS
  <2>5. ExtractChunks(body) = cs
    BY <1>0, <1>2, <2>2, <2>4 DEF ExtractChunks, SplitIntoChunks
  <2>6. PICK k \in Nat : k = Len(s.chunks)
    BY <2>3 DEF LoopOK
  <2>7. /\ s.chunks \in Seq(Pairs) /\ s.from \in Nat /\ 1 <= s.from /\ s.from <= n
        /\ Bounded(body, <<s.from, n>>)
    BY <2>1, <2>3 DEF LoopOK
  <2>8. <<s.from, n>> \in Pairs
    BY <2>7 DEF Pairs
  <2>9. /\ cs \in Seq(Pairs) /\ Len(cs) = k + 1
        /\ \A m \in 1..k : cs[m] = s.chunks[m]
        /\ cs[k + 1] = <<s.from, n>>
    <3> HIDE DEF Pairs
    <3> QED
      BY <2>4, <2>6, <2>7, <2>8
  <2>10. \A m \in 1..k :
           /\ 1 <= cs[m][1] /\ cs[m][1] <= cs[m][2] /\ cs[m][2] < n /\ cs[m][1] <= s.from
           /\ Bounded(body, cs[m])
    BY <2>3, <2>6, <2>9 DEF LoopOK
  <2>11. ASSUME NEW m \in 1..(k + 1)
         PROVE  1 <= cs[m][1] /\ cs[m][2] <= n /\ cs[m][1] <= cs[m][2] /\ Bounded(body, cs[m])
    <3>1. CASE m = k + 1
      <4>1. cs[m] = <<s.from, n>> /\ cs[m][1] = s.from /\ cs[m][2] = n
        BY <2>9, <3>1
      <4>2. n <= n
        OBVIOUS
      <4> QED
        BY <2>7, <4>1, <4>2
    <3>2. CASE m # k + 1
      <4>1. m \in 1..k
        BY <3>2
      <4>2. PICK c \in Nat \X Nat : c = cs[m]
        BY <2>9 DEF Pairs
      <4>3. 1 <= c[1] /\ c[1] <= c[2] /\ c[2] < n /\ Bounded(body, c) /\ c[2] \in Nat
        BY <2>10, <4>1, <4>2
      <4> QED
        BY <4>2, <4>3
    <3> QED
      BY <3>1, <3>2
  <2>12. ASSUME NEW m \in 1..(k + 1), NEW l \in 1..(k + 1), m < l
         PROVE  cs[m][1] <= cs[l][1] /\ cs[m][2] < cs[l][2]
    <3>1. m \in 1..k /\ cs[m] = s.chunks[m]
      BY <2>9, <2>12
    <3>2. CASE l = k + 1
      BY <2>9, <2>10, <3>1, <3>2
    <3>3. CASE l # k + 1
      <4>1. l \in 1..k /\ cs[l] = s.chunks[l]
        BY <2>9, <3>3
      <4> QED
        BY <2>3, <2>6, <2>12, <3>1, <4>1 DEF LoopOK
    <3> QED
      BY <3>2, <3>3
  <2>13. ASSUME NEW l \in 1..n
         PROVE  \E m \in 1..(k + 1) : cs[m][1] <= l /\ l <= cs[m][2]
    <3>1. CASE l < s.from
      <4>1. PICK m \in 1..k : s.chunks[m][1] <= l /\ l <= s.chunks[m][2]
        BY <2>3, <2>6, <3>1 DEF LoopOK
      <4>2. m \in 1..(k + 1) /\ cs[m] = s.chunks[m]
        BY <2>9
      <4> QED
        BY <4>1, <4>2
    <3>2. CASE ~(l < s.from)
      <4>1. k + 1 \in 1..(k + 1) /\ cs[k + 1][1] = s.from /\ cs[k + 1][2] = n
        BY <2>9
      <4>2. s.from <= l /\ l <= n
        BY <2>7, <3>2
      <4> QED
        BY <4>1, <4>2
    <3> QED
      BY <3>1, <3>2
  <2>14. k + 1 \in Nat
    OBVIOUS
  <2>15. ChunksOK(body, cs)
    BY <1>0, <2>9, <2>11, <2>12, <2>13, <2>14 DEF ChunksOK
  <2> QED
    BY <2>5, <2>15
<1> QED
  BY <1>e, <1>1, <1>2

------------------------------------------------------------------------------
(* SemanticIndex: jobs and objects                                            *)

\* What is used of the constants.
LEMMA IndexConstants ==
  /\ NoJob \notin Jobs /\ EmbedBatch \in Nat \ {0}
  /\ \A x \in Indexers : BodiesOf[x] \subseteq Seq(Nat) \ {<<>>}
  BY IndexAssumption DEF Jobs

EmbeddedChunks == [chunk : Pairs, model : Models]

\* The job has embedded the first of its chunks with model m.
EmbeddedBy(j, m) ==
    /\ Len(j.embedded) <= Len(j.chunks)
    /\ \A n \in 1..Len(j.embedded) : j.embedded[n] = [chunk |-> j.chunks[n], model |-> m]

JobOK(j) ==
    /\ j \in Jobs
    /\ j.chunks = ExtractChunks(j.body)
    /\ ChunksOK(j.body, j.chunks)
    /\ j.phase \in Embedding =>
        /\ EmbeddedBy(j, ModelOf(j.phase))
        /\ j.chunks # <<>> => Len(j.embedded) < Len(j.chunks)
    /\ j.phase \in {"embedded", "storing"} =>
        /\ \E m \in Models : EmbeddedBy(j, m)
        /\ Len(j.embedded) = Len(j.chunks)
    /\ j.stored <= Len(j.embedded)
    /\ j.phase # "storing" => j.stored = 0

\* Embedded keeps number and order of the chunks.
LEMMA EmbeddedAre ==
  ASSUME NEW cs \in Seq(Pairs), NEW m \in Models
  PROVE  /\ Embedded(cs, m) \in Seq(EmbeddedChunks) /\ Len(Embedded(cs, m)) = Len(cs)
         /\ \A n \in 1..Len(cs) : Embedded(cs, m)[n] = [chunk |-> cs[n], model |-> m]
<1>1. PICK e : e = [n \in 1..Len(cs) |-> [chunk |-> cs[n], model |-> m]]
  OBVIOUS
<1>2. Embedded(cs, m) = e
  BY <1>1 DEF Embedded
<1>3. Len(cs) \in Nat /\ \A n \in 1..Len(cs) : cs[n] \in Pairs
  OBVIOUS
<1>4. e \in [1..Len(cs) -> EmbeddedChunks]
  BY <1>1, <1>3 DEF EmbeddedChunks
<1>5. e \in Seq(EmbeddedChunks) /\ Len(e) = Len(cs)
  BY <1>3, <1>4
<1> QED
  BY <1>1, <1>2, <1>5

\* A batch continues what is embedded.
LEMMA BatchAppended ==
  ASSUME NEW j, JobOK(j), j.phase \in Embedding
  PROVE  JobOK(Appended(j))
<1>m. PICK model \in Models : model = ModelOf(j.phase)
  BY DEF ModelOf, Models
<1>1. /\ j \in Jobs /\ j.chunks \in Seq(Pairs) /\ j.embedded \in Seq(EmbeddedChunks)
      /\ j.attempt \in Nat /\ j.stored \in Nat
  BY DEF JobOK, Jobs, EmbeddedChunks, Pairs
<1>2. PICK k \in Nat, n \in Nat : k = Len(j.embedded) /\ n = Len(j.chunks)
  BY <1>1
<1>3. /\ k < n \/ (k = n /\ n = 0)
      /\ EmbeddedBy(j, model) /\ EmbedBatch \in Nat \ {0} /\ j.stored <= k
  <2>1. /\ EmbeddedBy(j, model) /\ (j.chunks # <<>> => k < n) /\ j.stored <= k
    BY <1>m, <1>2 DEF JobOK
  <2>2. k <= n
    BY <1>2, <2>1 DEF EmbeddedBy
  <2>3. j.chunks = <<>> => n = 0
    BY <1>2
  <2>4. EmbedBatch \in Nat \ {0}
    BY IndexConstants
  <2>5. CASE j.chunks = <<>>
    BY <1>2, <2>1, <2>2, <2>3, <2>4, <2>5
  <2>6. CASE j.chunks # <<>>
    BY <1>2, <2>1, <2>4, <2>6
  <2> QED
    BY <2>5, <2>6
<1>4. PICK last \in Nat : last = IF k + 1 + EmbedBatch - 1 < n THEN k + 1 + EmbedBatch - 1 ELSE n
  BY <1>2, <1>3
<1>5. k <= last /\ last <= n
  BY <1>2, <1>3, <1>4
<1>6. PICK batch : batch = SubSeq(j.chunks, k + 1, last)
  OBVIOUS
<1>7. Batch(j) = batch
  BY <1>2, <1>4, <1>6 DEF Batch
<1>8. /\ batch \in Seq(Pairs) /\ Len(batch) = last - k
      /\ \A i \in 1..(last - k) : batch[i] = j.chunks[k + i]
  <2>1. k + 1 \in Int /\ last \in Int /\ (k + 1 <= last \/ last = k)
    BY <1>2, <1>5
  <2>2. \A i \in (k + 1)..last : j.chunks[i] \in Pairs
    <3>1. \A i \in 1..n : j.chunks[i] \in Pairs
      BY <1>1, <1>2
    <3>2. (k + 1)..last \subseteq 1..n
      BY <1>2, <1>5
    <3> QED
      BY <3>1, <3>2
  <2>3. /\ batch \in Seq(Pairs)
        /\ Len(batch) = IF k + 1 <= last THEN last - (k + 1) + 1 ELSE 0
        /\ \A i \in 1..(last - (k + 1) + 1) : batch[i] = j.chunks[(k + 1) + i - 1]
    BY <1>6, <2>1, <2>2, SubSeqProperties
  <2>4. last - (k + 1) + 1 = last - k /\ \A i \in 1..(last - k) : (k + 1) + i - 1 = k + i
    BY <1>2
  <2>5. Len(batch) = last - k
    <3>1. CASE k + 1 <= last
      BY <2>3, <2>4, <3>1
    <3>2. CASE last = k
      BY <1>2, <2>3, <3>2
    <3> QED
      BY <2>1, <3>1, <3>2
  <2> QED
    BY <2>3, <2>4, <2>5
<1>9. PICK e : e = Embedded(batch, model)
  OBVIOUS
<1>10. /\ e \in Seq(EmbeddedChunks) /\ Len(e) = last - k
       /\ \A i \in 1..(last - k) : e[i] = [chunk |-> j.chunks[k + i], model |-> model]
  <2>1. /\ e \in Seq(EmbeddedChunks) /\ Len(e) = Len(batch)
        /\ \A i \in 1..Len(batch) : e[i] = [chunk |-> batch[i], model |-> model]
    BY <1>8, <1>9, EmbeddedAre
  <2> QED
    BY <1>8, <2>1
<1>11. PICK all : all = j.embedded \o e
  OBVIOUS
<1>12. /\ all \in Seq(EmbeddedChunks) /\ Len(all) = last
       /\ \A i \in 1..k : all[i] = j.embedded[i]
       /\ \A i \in (k + 1)..last : all[i] = e[i - k]
  <2> HIDE DEF EmbeddedChunks
  <2>1. all \in Seq(EmbeddedChunks) /\ Len(all) = k + (last - k)
    BY <1>1, <1>2, <1>5, <1>10, <1>11
  <2>2. \A i \in 1..k : all[i] = j.embedded[i]
    BY <1>1, <1>2, <1>5, <1>10, <1>11
  <2>3. \A i \in (k + 1)..last : all[i] = e[i - k]
    BY <1>1, <1>2, <1>5, <1>10, <1>11
  <2> QED
    BY <1>2, <2>1, <2>2, <2>3
<1>13. \A i \in 1..last : all[i] = [chunk |-> j.chunks[i], model |-> model]
  <2> TAKE i \in 1..last
  <2>1. CASE i <= k
    <3>1. i \in 1..k
      BY <1>2, <2>1
    <3>2. j.embedded[i] = [chunk |-> j.chunks[i], model |-> model]
      BY <1>2, <1>3, <3>1 DEF EmbeddedBy
    <3> QED
      BY <1>12, <3>1, <3>2
  <2>2. CASE ~(i <= k)
    <3>1. i \in (k + 1)..last /\ i - k \in 1..(last - k) /\ k + (i - k) = i
      BY <1>2, <2>2
    <3> QED
      BY <1>10, <1>12, <3>1
  <2> QED
    BY <2>1, <2>2
<1>14. PICK ph : ph = IF last = n THEN "embedded" ELSE j.phase
  OBVIOUS
<1>15. PICK t : t = Appended(j)
  OBVIOUS
<1>16. t = [j EXCEPT !.embedded = all, !.attempt = 0, !.phase = ph]
  BY <1>m, <1>2, <1>7, <1>9, <1>11, <1>12, <1>14, <1>15 DEF Appended
<1>17. /\ t \in Jobs /\ t.chunks = j.chunks /\ t.body = j.body /\ t.embedded = all
       /\ t.phase = ph /\ t.stored = j.stored
  <2>1. ph \in Embedding \cup {"embedded", "storing"}
    BY <1>14
  <2>2. all \in Seq([chunk : Nat \X Nat, model : Models])
    BY <1>12 DEF EmbeddedChunks, Pairs
  <2> QED
    BY <1>1, <1>16, <2>1, <2>2 DEF Jobs
<1>18. EmbeddedBy(t, model)
  BY <1>2, <1>5, <1>12, <1>13, <1>17 DEF EmbeddedBy
<1>19. t.stored <= Len(t.embedded)
  BY <1>1, <1>2, <1>3, <1>5, <1>12, <1>17
<1>20. t.phase \in Embedding => ModelOf(t.phase) = model /\ Len(t.embedded) < Len(t.chunks)
  BY <1>m, <1>2, <1>5, <1>12, <1>14, <1>17 DEF Embedding
<1>21. t.phase \in {"embedded", "storing"} => Len(t.embedded) = Len(t.chunks)
  BY <1>2, <1>12, <1>14, <1>17 DEF Embedding
<1>22. t.chunks = ExtractChunks(t.body) /\ ChunksOK(t.body, t.chunks)
  BY <1>17 DEF JobOK
<1>23. t.stored = 0
  BY <1>17 DEF JobOK, Embedding
<1> QED
  BY <1>15, <1>17, <1>18, <1>19, <1>20, <1>21, <1>22, <1>23 DEF JobOK

\* The objects of file f are the first t chunks, each under the line it begins
\* at, where a later one has replaced the earlier.
Holds(objects, f, cs, t) ==
    /\ \A n \in 1..t : <<f, cs[n][1]>> \in DOMAIN objects
    /\ \A k \in DOMAIN objects : k[1] = f =>
        \E n \in 1..t :
            /\ k = <<f, cs[n][1]>> /\ objects[k].chunk = cs[n]
            /\ \A l \in 1..t : l > n => cs[l][1] # cs[n][1]

\* What the variables hold.
IndexTypeOK ==
    /\ job \in [Indexers -> Jobs \cup {NoJob}]
    /\ whole \in [Files -> Seq(Nat) \cup {NoBody}]
    /\ alone \subseteq Indexers
    /\ DOMAIN store \subseteq Files \X Nat

\* Every job is right.
JobsOK == \A x \in Indexers : job[x] # NoJob => JobOK(job[x])

\* Those who write a file alone are in the middle of it, one for each file.
AloneWrites ==
    /\ \A x \in alone : job[x] \in Jobs /\ job[x].phase = "storing"
    /\ \A x, y \in alone : job[x].file = job[y].file => x = y
    /\ \A x \in alone : Holds(store, job[x].file, job[x].chunks, job[x].stored)

\* The files that were written undisturbed hold all chunks.
WholeHolds ==
    \A f \in Files : whole[f] # NoBody =>
        Holds(store, f, ExtractChunks(whole[f]), Len(ExtractChunks(whole[f])))

\* The inductive invariant.
StoredInv == IndexTypeOK /\ JobsOK /\ AloneWrites /\ WholeHolds

\* Holds is about the objects of the file alone.
LEMMA HoldsAgrees ==
  ASSUME NEW o, NEW p, NEW f, NEW cs, NEW t, Holds(o, f, cs, t),
         \A k \in DOMAIN o \cup DOMAIN p :
            k[1] = f => k \in DOMAIN o /\ k \in DOMAIN p /\ o[k] = p[k]
  PROVE  Holds(p, f, cs, t)
<1>1. ASSUME NEW n \in 1..t
      PROVE  <<f, cs[n][1]>> \in DOMAIN p
  <2>1. PICK k : k = <<f, cs[n][1]>>
    OBVIOUS
  <2>2. k \in DOMAIN o /\ k[1] = f
    BY <2>1 DEF Holds
  <2> QED
    BY <2>1, <2>2
<1>2. ASSUME NEW k \in DOMAIN p, k[1] = f
      PROVE  \E n \in 1..t :
               /\ k = <<f, cs[n][1]>> /\ p[k].chunk = cs[n]
               /\ \A l \in 1..t : l > n => cs[l][1] # cs[n][1]
  BY <1>2 DEF Holds
<1> QED
  BY <1>1, <1>2 DEF Holds

\* A file that was invalidated has none.
LEMMA HoldsNone ==
  ASSUME NEW o, NEW f, NEW cs
  PROVE  Holds(WithoutFile(o, f), f, cs, 0)
  BY DEF Holds, WithoutFile

\* The next chunk is put.
LEMMA HoldsOneMore ==
  ASSUME NEW o, NEW f, NEW cs, NEW t \in Nat, Holds(o, f, cs, t),
         NEW ob, ob.chunk = cs[t + 1]
  PROVE  Holds(With(o, <<f, cs[t + 1][1]>>, ob), f, cs, t + 1)
<1>1. PICK id : id = <<f, cs[t + 1][1]>>
  OBVIOUS
<1>2. PICK p : p = With(o, id, ob)
  OBVIOUS
<1>3. /\ DOMAIN p = DOMAIN o \cup {id}
      /\ p[id] = ob
      /\ \A k \in DOMAIN o : k # id => p[k] = o[k]
  BY <1>2 DEF With
<1>4. \A n \in 1..(t + 1) : n = t + 1 \/ n \in 1..t
  OBVIOUS
<1>5. ASSUME NEW n \in 1..(t + 1)
      PROVE  <<f, cs[n][1]>> \in DOMAIN p
  BY <1>1, <1>3, <1>4 DEF Holds
<1>6. ASSUME NEW k \in DOMAIN p, k[1] = f
      PROVE  \E n \in 1..(t + 1) :
               /\ k = <<f, cs[n][1]>> /\ p[k].chunk = cs[n]
               /\ \A l \in 1..(t + 1) : l > n => cs[l][1] # cs[n][1]
  <2>1. CASE k = id
    <3>1. t + 1 \in 1..(t + 1) /\ \A l \in 1..(t + 1) : ~(l > t + 1)
      OBVIOUS
    <3>2. p[k].chunk = cs[t + 1]
      BY <1>3, <2>1
    <3> QED
      BY <1>1, <2>1, <3>1, <3>2
  <2>2. CASE k # id
    <3>1. k \in DOMAIN o /\ p[k] = o[k]
      BY <1>3, <2>2
    <3>2. PICK n \in 1..t : /\ k = <<f, cs[n][1]>> /\ o[k].chunk = cs[n]
                            /\ \A l \in 1..t : l > n => cs[l][1] # cs[n][1]
      BY <1>6, <3>1 DEF Holds
    <3>3. cs[t + 1][1] # cs[n][1]
      BY <1>1, <2>2, <3>2
    <3>4. \A l \in 1..(t + 1) : l > n => cs[l][1] # cs[n][1]
      BY <1>4, <3>2, <3>3
    <3>5. n \in 1..(t + 1)
      OBVIOUS
    <3> QED
      BY <3>1, <3>2, <3>4, <3>5
  <2> QED
    BY <2>1, <2>2
<1> QED
  BY <1>1, <1>2, <1>5, <1>6 DEF Holds

\* Objects of other files are not touched.
LEMMA HoldsElsewhere ==
  ASSUME NEW o, NEW f, NEW g, f # g, NEW cs, NEW t, Holds(o, g, cs, t), NEW n, NEW ob
  PROVE  /\ Holds(WithoutFile(o, f), g, cs, t)
         /\ Holds(With(o, <<f, n>>, ob), g, cs, t)
<1>1. PICK p : p = WithoutFile(o, f)
  OBVIOUS
<1>2. /\ DOMAIN p = {k \in DOMAIN o : k[1] # f} /\ \A k \in DOMAIN p : p[k] = o[k]
  BY <1>1 DEF WithoutFile
<1>3. Holds(p, g, cs, t)
  BY <1>2, HoldsAgrees
<1>4. PICK id : id = <<f, n>>
  OBVIOUS
<1>5. PICK q : q = With(o, id, ob)
  OBVIOUS
<1>6. DOMAIN q = DOMAIN o \cup {id} /\ \A k \in DOMAIN o : k # id => q[k] = o[k]
  BY <1>5 DEF With
<1>7. id[1] = f
  BY <1>4
<1>8. \A k \in DOMAIN o \cup DOMAIN q :
        k[1] = g => k \in DOMAIN o /\ k \in DOMAIN q /\ o[k] = q[k]
  BY <1>6, <1>7
<1>9. Holds(q, g, cs, t)
  BY <1>8, HoldsAgrees
<1> QED
  BY <1>1, <1>3, <1>4, <1>5, <1>9

\* It holds at first.
LEMMA StoredInit ==
  ASSUME IndexInit
  PROVE  StoredInv
<1>1. DOMAIN store = {}
  BY DEF IndexInit
<1>2. IndexTypeOK
  BY <1>1 DEF IndexInit, IndexTypeOK
<1>3. JobsOK /\ AloneWrites /\ WholeHolds
  BY DEF IndexInit, JobsOK, AloneWrites, WholeHolds
<1> QED
  BY <1>2, <1>3 DEF StoredInv

\* A job goes on without writing.
LEMMA GoesOn ==
  ASSUME StoredInv, NEW x \in Indexers, x \notin alone, NEW j,
         j = NoJob \/ JobOK(j),
         job' = [job EXCEPT ![x] = j], UNCHANGED <<store, alone, whole>>
  PROVE  StoredInv'
<1>0. /\ job \in [Indexers -> Jobs \cup {NoJob}] /\ alone \subseteq Indexers
      /\ whole \in [Files -> Seq(Nat) \cup {NoBody}] /\ DOMAIN store \subseteq Files \X Nat
  BY DEF StoredInv, IndexTypeOK
<1>1. job'[x] = j /\ \A y \in Indexers : y # x => job'[y] = job[y]
  BY <1>0
<1>2. IndexTypeOK'
  BY <1>0 DEF IndexTypeOK, JobOK
<1>3. JobsOK'
  BY <1>1 DEF StoredInv, JobsOK
<1>4. \A y \in alone : job'[y] = job[y]
  BY <1>0, <1>1
<1>5. AloneWrites'
  BY <1>4 DEF StoredInv, AloneWrites
<1>6. WholeHolds'
  BY DEF StoredInv, WholeHolds
<1> QED
  BY <1>2, <1>3, <1>5, <1>6 DEF StoredInv

\* A new job.
LEMMA BeginsStored ==
  ASSUME StoredInv, NEW x \in Indexers, Begin(x)
  PROVE  StoredInv'
<1>1. PICK f \in Files, b \in BodiesOf[x] :
        job' = [job EXCEPT ![x] =
            [phase |-> IF provider = "openai" THEN "api" ELSE "local",
             file |-> f, body |-> b, chunks |-> ExtractChunks(b),
             embedded |-> <<>>, attempt |-> 0, stored |-> 0]]
  BY DEF Begin, Set
<1>2. PICK j : j = [phase |-> IF provider = "openai" THEN "api" ELSE "local",
             file |-> f, body |-> b, chunks |-> ExtractChunks(b),
             embedded |-> <<>>, attempt |-> 0, stored |-> 0]
  OBVIOUS
<1>3. b \in Seq(Nat)
  BY IndexConstants
<1>4. ChunksOK(b, ExtractChunks(b))
  BY <1>3, ChunksCover
<1>5. /\ j.phase \in Embedding /\ j.file = f /\ j.body = b /\ j.chunks = ExtractChunks(b)
      /\ j.embedded = <<>> /\ j.attempt = 0 /\ j.stored = 0
  BY <1>2 DEF Embedding
<1>6. j \in Jobs
  <2>1. ExtractChunks(b) \in Seq(Nat \X Nat)
    BY <1>4 DEF ChunksOK, Pairs
  <2>2. j.phase \in Embedding \cup {"embedded", "storing"}
    BY <1>5
  <2>3. PICK e : e = <<>> /\ e \in Seq([chunk : Nat \X Nat, model : Models])
    <3>1. <<>> \in Seq([chunk : Nat \X Nat, model : Models])
      OBVIOUS
    <3> QED
      BY <3>1
  <2>4. PICK p, cs : p = j.phase /\ cs = ExtractChunks(b)
    OBVIOUS
  <2>5. j = [phase |-> p, file |-> f, body |-> b, chunks |-> cs,
             embedded |-> e, attempt |-> 0, stored |-> 0]
    BY <1>2, <2>3, <2>4
  <2>6. p \in Embedding \cup {"embedded", "storing"} /\ cs \in Seq(Nat \X Nat)
    BY <2>1, <2>2, <2>4
  <2> QED
    BY <1>3, <2>3, <2>5, <2>6 DEF Jobs
<1>7. /\ EmbeddedBy(j, ModelOf(j.phase))
      /\ j.chunks # <<>> => Len(j.embedded) < Len(j.chunks)
  <2>1. Len(<<>>) = 0 /\ 1..0 = {}
    OBVIOUS
  <2>2. Len(j.chunks) \in Nat /\ (j.chunks # <<>> => Len(j.chunks) # 0)
    BY <1>4, <1>5 DEF ChunksOK
  <2>3. Len(j.embedded) = 0
    BY <1>5, <2>1
  <2> QED
    BY <2>1, <2>2, <2>3 DEF EmbeddedBy
<1>8. j.phase \notin {"embedded", "storing"}
  BY <1>5 DEF Embedding
<1>9. JobOK(j)
  <2>1. j.stored <= Len(j.embedded)
    BY <1>5
  <2> QED
    BY <1>4, <1>5, <1>6, <1>7, <1>8, <2>1 DEF JobOK
<1>10. x \notin alone
  <2>1. job[x] \notin Jobs
    BY IndexConstants DEF Begin
  <2> QED
    BY <2>1 DEF StoredInv, AloneWrites
<1>11. UNCHANGED <<store, alone, whole>>
  BY DEF Begin
<1> QED
  BY <1>1, <1>2, <1>9, <1>10, <1>11, GoesOn

\* The jobs of those who have not begun to write.
LEMMA NotAlone ==
  ASSUME StoredInv, NEW x \in Indexers, NEW p, At(x, p), p # "storing"
  PROVE  x \notin alone /\ JobOK(job[x]) /\ job[x].phase = p
  BY DEF StoredInv, AloneWrites, JobsOK, At

\* The local model begins anew.
LEMMA RestartedOK ==
  ASSUME NEW j, JobOK(j), j.phase \in Embedding
  PROVE  JobOK(Restarted(j))
<1>1. PICK t : t = Restarted(j)
  OBVIOUS
<1>2. t = [j EXCEPT !.phase = "fallback", !.attempt = 0, !.embedded = <<>>] /\ j \in Jobs
  BY <1>1 DEF Restarted, JobOK
<1>3. /\ t \in Jobs /\ t.phase = "fallback" /\ t.embedded = <<>> /\ t.chunks = j.chunks
      /\ t.body = j.body /\ t.stored = j.stored
  <2>1. <<>> \in Seq([chunk : Nat \X Nat, model : Models])
    OBVIOUS
  <2> QED
    BY <1>2, <2>1 DEF Jobs, Embedding
<1>4. Len(t.embedded) = 0 /\ 1..0 = {}
  BY <1>3
<1>5. Len(t.chunks) \in Nat /\ (t.chunks # <<>> => Len(t.chunks) # 0)
  BY <1>3 DEF JobOK, ChunksOK
<1>6. /\ EmbeddedBy(t, ModelOf(t.phase))
      /\ t.chunks # <<>> => Len(t.embedded) < Len(t.chunks)
  BY <1>4, <1>5 DEF EmbeddedBy
<1>7. t.stored = 0
  BY <1>3 DEF JobOK, Embedding
<1> QED
  BY <1>1, <1>3, <1>4, <1>6, <1>7 DEF JobOK

\* A batch is tried again.
LEMMA RetriedOK ==
  ASSUME NEW j, JobOK(j), NEW n \in Nat
  PROVE  JobOK([j EXCEPT !.attempt = n])
<1>1. PICK t : t = [j EXCEPT !.attempt = n]
  OBVIOUS
<1>2. /\ t \in Jobs /\ t.phase = j.phase /\ t.embedded = j.embedded /\ t.chunks = j.chunks
      /\ t.body = j.body /\ t.stored = j.stored
  BY <1>1 DEF JobOK, Jobs
<1>3. \A m : EmbeddedBy(j, m) => EmbeddedBy(t, m)
  BY <1>2 DEF EmbeddedBy
<1> QED
  BY <1>1, <1>2, <1>3 DEF JobOK

\* Batches, retries, and the two failures.
LEMMA EmbedsStored ==
  ASSUME StoredInv, NEW x \in Indexers,
         EmbedOneBatch(x) \/ RateLimited(x) \/ FirstRunFails(x) \/ GiveUp(x)
  PROVE  StoredInv'
<1>1. PICK p \in Embedding : At(x, p)
  BY DEF EmbedOneBatch, RateLimited, FirstRunFails, GiveUp, AtBatch, Embedding
<1>2. p # "storing"
  BY DEF Embedding
<1>3. x \notin alone /\ JobOK(job[x]) /\ job[x].phase \in Embedding
  BY <1>1, <1>2, NotAlone
<1>4. UNCHANGED <<store, alone, whole>>
  BY DEF EmbedOneBatch, RateLimited, FirstRunFails, GiveUp
<1>5. \E j : (j = NoJob \/ JobOK(j)) /\ job' = [job EXCEPT ![x] = j]
  <2>1. CASE EmbedOneBatch(x)
    BY <1>3, <2>1, BatchAppended DEF EmbedOneBatch, Set
  <2>2. CASE RateLimited(x)
    <3>1. JobOK(Restarted(job[x]))
      BY <1>3, RestartedOK
    <3>2. job[x].attempt + 1 \in Nat
      BY <1>3 DEF JobOK, Jobs
    <3>3. JobOK([job[x] EXCEPT !.attempt = job[x].attempt + 1])
      BY <1>3, <3>2, RetriedOK
    <3>4. job' = [job EXCEPT ![x] = IF RetriesLeft(job[x])
                                    THEN [job[x] EXCEPT !.attempt = job[x].attempt + 1]
                                    ELSE Restarted(job[x])]
      BY <2>2 DEF RateLimited, Set
    <3> QED
      BY <3>1, <3>3, <3>4
  <2>3. CASE FirstRunFails(x)
    BY <1>3, <2>3, RestartedOK DEF FirstRunFails, Set
  <2>4. CASE GiveUp(x)
    BY <2>4 DEF GiveUp, Set
  <2> QED
    BY <2>1, <2>2, <2>3, <2>4
<1> QED
  BY <1>3, <1>4, <1>5, GoesOn

\* invalidate_file.
LEMMA InvalidatesStored ==
  ASSUME StoredInv, NEW x \in Indexers, InvalidateFile(x)
  PROVE  StoredInv'
<1>0. /\ job \in [Indexers -> Jobs \cup {NoJob}] /\ alone \subseteq Indexers
      /\ whole \in [Files -> Seq(Nat) \cup {NoBody}] /\ DOMAIN store \subseteq Files \X Nat
  BY DEF StoredInv, IndexTypeOK
<1>1. At(x, "embedded")
  BY DEF InvalidateFile
<1>2. x \notin alone /\ JobOK(job[x]) /\ job[x].phase = "embedded"
  BY <1>1, NotAlone
<1>3. PICK j, f : j = job[x] /\ f = j.file
  OBVIOUS
<1>4. JobOK(j) /\ j \in Jobs /\ f \in Files /\ j.phase = "embedded" /\ j.stored = 0
  BY <1>2, <1>3 DEF JobOK, Jobs
<1>5. /\ store' = WithoutFile(store, f)
      /\ alone' = {y \in alone : y = x \/ job[y].file # f} \cup {x}
      /\ whole' = [whole EXCEPT ![f] = NoBody]
  BY <1>3 DEF InvalidateFile, Interfered
<1>6. PICK t : t = [j EXCEPT !.phase = "storing"]
  OBVIOUS
<1>7. job' = [job EXCEPT ![x] = t]
  BY <1>3, <1>6 DEF InvalidateFile, Set
<1>8. /\ t \in Jobs /\ t.phase = "storing" /\ t.file = f /\ t.body = j.body
      /\ t.chunks = j.chunks /\ t.embedded = j.embedded /\ t.stored = 0
  BY <1>3, <1>4, <1>6 DEF Jobs
<1>9. JobOK(t)
  <2>1. \A m : EmbeddedBy(j, m) => EmbeddedBy(t, m)
    BY <1>8 DEF EmbeddedBy
  <2> QED
    BY <1>4, <1>8, <2>1 DEF JobOK, Embedding
<1>10. job'[x] = t /\ \A y \in Indexers : y # x => job'[y] = job[y]
  BY <1>0, <1>7
<1>11. IndexTypeOK'
  <2>1. DOMAIN store' \subseteq Files \X Nat
    BY <1>0, <1>5 DEF WithoutFile
  <2>2. job' \in [Indexers -> Jobs \cup {NoJob}]
    BY <1>0, <1>7, <1>8
  <2> QED
    BY <1>0, <1>5, <2>1, <2>2 DEF IndexTypeOK
<1>12. JobsOK'
  BY <1>9, <1>10 DEF StoredInv, JobsOK
<1>13. ASSUME NEW y \in alone', y # x
       PROVE  /\ y \in alone /\ job'[y] = job[y] /\ job[y].file # f
              /\ job[y] \in Jobs /\ job[y].phase = "storing"
              /\ Holds(store', job[y].file, job[y].chunks, job[y].stored)
  <2>1. y \in alone /\ y \in Indexers /\ job[y].file # f
    BY <1>0, <1>5, <1>13
  <2>2. /\ job[y] \in Jobs /\ job[y].phase = "storing"
        /\ Holds(store, job[y].file, job[y].chunks, job[y].stored)
    BY <2>1 DEF StoredInv, AloneWrites
  <2>3. Holds(store', job[y].file, job[y].chunks, job[y].stored)
    BY <1>5, <2>1, <2>2, HoldsElsewhere
  <2> QED
    BY <1>10, <1>13, <2>1, <2>2, <2>3
<1>14. Holds(store', f, t.chunks, t.stored)
  BY <1>5, <1>8, HoldsNone
<1>15. AloneWrites'
  <2>1. ASSUME NEW y \in alone'
        PROVE  /\ job'[y] \in Jobs /\ job'[y].phase = "storing"
               /\ Holds(store', job'[y].file, job'[y].chunks, job'[y].stored)
    <3>1. CASE y = x
      BY <1>8, <1>10, <1>14, <3>1
    <3>2. CASE y # x
      BY <1>13, <3>2
    <3> QED
      BY <3>1, <3>2
  <2>2. ASSUME NEW y \in alone', NEW z \in alone', job'[y].file = job'[z].file
        PROVE  y = z
    <3>1. \A u \in alone' : u # x => u \in alone /\ job'[u] = job[u] /\ job[u].file # f
      BY <1>13
    <3>2. job'[x].file = f
      BY <1>8, <1>10
    <3> QED
      BY <2>2, <3>1, <3>2 DEF StoredInv, AloneWrites
  <2> QED
    BY <2>1, <2>2 DEF AloneWrites
<1>16. WholeHolds'
  <2>1. ASSUME NEW g \in Files, whole'[g] # NoBody
        PROVE  Holds(store', g, ExtractChunks(whole'[g]), Len(ExtractChunks(whole'[g])))
    <3>1. g # f /\ whole'[g] = whole[g]
      BY <1>0, <1>4, <1>5, <2>1
    <3>2. Holds(store, g, ExtractChunks(whole[g]), Len(ExtractChunks(whole[g])))
      BY <2>1, <3>1 DEF StoredInv, WholeHolds
    <3>3. PICK cs, n : cs = ExtractChunks(whole[g]) /\ n = Len(ExtractChunks(whole[g]))
      OBVIOUS
    <3>4. Holds(store', g, cs, n)
      BY <1>5, <3>1, <3>2, <3>3, HoldsElsewhere
    <3> QED
      BY <3>1, <3>3, <3>4
  <2> QED
    BY <2>1 DEF WholeHolds
<1> QED
  BY <1>11, <1>12, <1>15, <1>16 DEF StoredInv

\* upsert_embeddings, an object at a time.
LEMMA PutsStored ==
  ASSUME StoredInv, NEW x \in Indexers, PutObject(x)
  PROVE  StoredInv'
<1>0. /\ job \in [Indexers -> Jobs \cup {NoJob}] /\ alone \subseteq Indexers
      /\ whole \in [Files -> Seq(Nat) \cup {NoBody}] /\ DOMAIN store \subseteq Files \X Nat
  BY DEF StoredInv, IndexTypeOK
<1>1. PICK j, f, n, e :
        j = job[x] /\ f = j.file /\ n = j.stored /\ e = j.embedded[n + 1]
  OBVIOUS
<1>2. JobOK(j) /\ j.phase = "storing" /\ n < Len(j.embedded)
  BY <1>1 DEF PutObject, At, StoredInv, JobsOK
<1>3. /\ j \in Jobs /\ f \in Files /\ n \in Nat /\ Len(j.embedded) \in Nat
      /\ Len(j.embedded) = Len(j.chunks) /\ j.chunks \in Seq(Pairs)
  BY <1>1, <1>2 DEF JobOK, Jobs, Pairs
<1>4. PICK m \in Models : EmbeddedBy(j, m)
  BY <1>2 DEF JobOK
<1>5. n + 1 \in 1..Len(j.embedded)
  BY <1>2, <1>3
<1>6. e = [chunk |-> j.chunks[n + 1], model |-> m]
  BY <1>1, <1>4, <1>5 DEF EmbeddedBy
<1>7. e.chunk = j.chunks[n + 1] /\ e.chunk \in Pairs
  BY <1>3, <1>5, <1>6
<1>8. PICK t : t = [j EXCEPT !.stored = n + 1]
  OBVIOUS
<1>9. job' = [job EXCEPT ![x] = t]
  BY <1>1, <1>8 DEF PutObject, Set
<1>10. /\ t \in Jobs /\ t.phase = "storing" /\ t.file = f /\ t.body = j.body
       /\ t.chunks = j.chunks /\ t.embedded = j.embedded /\ t.stored = n + 1
  <2>1. n + 1 \in Nat
    BY <1>3
  <2>2. t \in Jobs
    BY <1>3, <1>8, <2>1 DEF Jobs
  <2>3. /\ t.phase = j.phase /\ t.file = j.file /\ t.body = j.body
        /\ t.chunks = j.chunks /\ t.embedded = j.embedded /\ t.stored = n + 1
    BY <1>3, <1>8 DEF Jobs
  <2> QED
    BY <1>1, <1>2, <2>2, <2>3
<1>11. JobOK(t)
  <2>1. \A k : EmbeddedBy(j, k) => EmbeddedBy(t, k)
    BY <1>10 DEF EmbeddedBy
  <2>2. t.stored <= Len(t.embedded)
    BY <1>5, <1>10
  <2> QED
    BY <1>2, <1>10, <2>1, <2>2 DEF JobOK
<1>12. job'[x] = t /\ \A y \in Indexers : y # x => job'[y] = job[y]
  BY <1>0, <1>9
<1>13. job' \in [Indexers -> Jobs \cup {NoJob}]
  BY <1>0, <1>9, <1>10
<1>14. JobsOK'
  BY <1>11, <1>12 DEF StoredInv, JobsOK
<1>15. CASE /\ store' = With(store, ObjectId(f, e.chunk), Object(e, j.body))
            /\ alone' = {y \in alone : y = x \/ job[y].file # f}
            /\ whole' = [whole EXCEPT ![f] = NoBody]
  <2>1. PICK ob : ob = Object(e, j.body)
    OBVIOUS
  <2>2. ob.chunk = j.chunks[n + 1]
    BY <1>7, <2>1 DEF Object
  <2>3. PICK s : s = j.chunks[n + 1][1]
    OBVIOUS
  <2>4. s \in Nat
    BY <1>7, <2>3 DEF Pairs
  <2>5. store' = With(store, <<f, s>>, ob)
    BY <1>7, <1>15, <2>1, <2>3 DEF ObjectId
  <2>6. IndexTypeOK'
    <3>1. DOMAIN store' \subseteq Files \X Nat
      BY <1>0, <1>3, <2>4, <2>5 DEF With
    <3> QED
      BY <1>0, <1>13, <1>15, <3>1 DEF IndexTypeOK
  <2>7. ASSUME NEW y \in alone'
        PROVE  /\ job'[y] \in Jobs /\ job'[y].phase = "storing" /\ job'[y].file = job[y].file
               /\ Holds(store', job'[y].file, job'[y].chunks, job'[y].stored)
    <3>1. y \in alone /\ y \in Indexers
      BY <1>0, <1>15
    <3>2. /\ job[y] \in Jobs /\ job[y].phase = "storing"
          /\ Holds(store, job[y].file, job[y].chunks, job[y].stored)
      BY <3>1 DEF StoredInv, AloneWrites
    <3>3. CASE y = x
      <4>1. Holds(store, f, j.chunks, n)
        BY <1>1, <3>2, <3>3
      <4>2. Holds(store', f, j.chunks, n + 1)
        BY <1>3, <2>2, <2>3, <2>5, <4>1, HoldsOneMore
      <4> QED
        BY <1>1, <1>10, <1>12, <3>3, <4>2
    <3>4. CASE y # x
      <4>1. job[y].file # f /\ job'[y] = job[y]
        BY <1>12, <1>15, <3>1, <3>4
      <4>2. Holds(store', job[y].file, job[y].chunks, job[y].stored)
        BY <2>5, <3>2, <4>1, HoldsElsewhere
      <4> QED
        BY <3>2, <4>1, <4>2
    <3> QED
      BY <3>3, <3>4
  <2>8. AloneWrites'
    <3>1. alone' \subseteq alone
      BY <1>15
    <3> QED
      BY <2>7, <3>1 DEF StoredInv, AloneWrites
  <2>9. WholeHolds'
    <3>1. ASSUME NEW g \in Files, whole'[g] # NoBody
          PROVE  Holds(store', g, ExtractChunks(whole'[g]), Len(ExtractChunks(whole'[g])))
      <4>1. g # f /\ whole'[g] = whole[g]
        BY <1>0, <1>3, <1>15, <3>1
      <4>2. Holds(store, g, ExtractChunks(whole[g]), Len(ExtractChunks(whole[g])))
        BY <3>1, <4>1 DEF StoredInv, WholeHolds
      <4>3. PICK cs, k : cs = ExtractChunks(whole[g]) /\ k = Len(ExtractChunks(whole[g]))
        OBVIOUS
      <4>4. Holds(store', g, cs, k)
        BY <2>5, <4>1, <4>2, <4>3, HoldsElsewhere
      <4> QED
        BY <4>1, <4>3, <4>4
    <3> QED
      BY <3>1 DEF WholeHolds
  <2> QED
    BY <1>14, <2>6, <2>8, <2>9 DEF StoredInv
<1>16. CASE alone' = alone \ {x} /\ UNCHANGED <<store, whole>>
  <2>1. IndexTypeOK'
    BY <1>0, <1>13, <1>16 DEF IndexTypeOK
  <2>2. \A y \in alone' : y \in alone /\ job'[y] = job[y]
    BY <1>0, <1>12, <1>16
  <2>3. AloneWrites'
    BY <1>16, <2>2 DEF StoredInv, AloneWrites
  <2>4. WholeHolds'
    BY <1>16 DEF StoredInv, WholeHolds
  <2> QED
    BY <1>14, <2>1, <2>3, <2>4 DEF StoredInv
<1> QED
  BY <1>1, <1>15, <1>16 DEF PutObject, Interfered

\* The end of upsert_embeddings.
LEMMA EndsStored ==
  ASSUME StoredInv, NEW x \in Indexers, EndUpsert(x)
  PROVE  StoredInv'
<1>0. /\ job \in [Indexers -> Jobs \cup {NoJob}] /\ alone \subseteq Indexers
      /\ whole \in [Files -> Seq(Nat) \cup {NoBody}] /\ DOMAIN store \subseteq Files \X Nat
  BY DEF StoredInv, IndexTypeOK
<1>1. PICK j : j = job[x]
  OBVIOUS
<1>2. JobOK(j) /\ j.phase = "storing" /\ j.stored = Len(j.embedded)
  BY <1>1 DEF EndUpsert, At, StoredInv, JobsOK
<1>3. j.file \in Files /\ j.body \in Seq(Nat) /\ j.chunks = ExtractChunks(j.body)
      /\ j.stored = Len(j.chunks)
  BY <1>2 DEF JobOK, Jobs
<1>4. /\ job' = [job EXCEPT ![x] = NoJob] /\ alone' = alone \ {x} /\ store' = store
      /\ whole' = IF x \in alone THEN [whole EXCEPT ![j.file] = j.body] ELSE whole
  BY <1>1 DEF EndUpsert, Set
<1>5. job'[x] = NoJob /\ \A y \in Indexers : y # x => job'[y] = job[y]
  BY <1>0, <1>4
<1>6. IndexTypeOK'
  BY <1>0, <1>3, <1>4 DEF IndexTypeOK
<1>7. JobsOK'
  BY <1>5 DEF StoredInv, JobsOK
<1>8. \A y \in alone' : y \in alone /\ job'[y] = job[y]
  BY <1>0, <1>4, <1>5
<1>9. AloneWrites'
  BY <1>4, <1>8 DEF StoredInv, AloneWrites
<1>10. WholeHolds'
  <2>1. ASSUME NEW g \in Files, whole'[g] # NoBody
        PROVE  Holds(store', g, ExtractChunks(whole'[g]), Len(ExtractChunks(whole'[g])))
    <3>1. CASE x \in alone /\ g = j.file
      <4>1. Holds(store, j.file, j.chunks, j.stored)
        BY <1>1, <3>1 DEF StoredInv, AloneWrites
      <4>2. whole'[g] = j.body
        BY <1>0, <1>4, <3>1
      <4> QED
        BY <1>3, <1>4, <3>1, <4>1, <4>2
    <3>2. CASE ~(x \in alone /\ g = j.file)
      <4>1. whole'[g] = whole[g]
        BY <1>0, <1>4, <3>2
      <4> QED
        BY <1>4, <2>1, <4>1 DEF StoredInv, WholeHolds
    <3> QED
      BY <3>1, <3>2
  <2> QED
    BY <2>1 DEF WholeHolds
<1> QED
  BY <1>6, <1>7, <1>9, <1>10 DEF StoredInv

\* Every step keeps it.
LEMMA StoredStep ==
  ASSUME StoredInv, [IndexNext]_indexVars
  PROVE  StoredInv'
<1>1. CASE \E x \in Indexers : Begin(x)
  BY <1>1, BeginsStored
<1>2. CASE \E x \in Indexers :
        EmbedOneBatch(x) \/ RateLimited(x) \/ FirstRunFails(x) \/ GiveUp(x)
  BY <1>2, EmbedsStored
<1>3. CASE \E x \in Indexers : InvalidateFile(x)
  BY <1>3, InvalidatesStored
<1>4. CASE \E x \in Indexers : PutObject(x)
  BY <1>4, PutsStored
<1>5. CASE \E x \in Indexers : EndUpsert(x)
  BY <1>5, EndsStored
<1>6. CASE InvalidateRepository
  <2>1. /\ DOMAIN store' = {} /\ alone' = {} /\ whole' = [f \in Files |-> NoBody]
        /\ job' = job
    BY <1>6 DEF InvalidateRepository
  <2>2. IndexTypeOK'
    BY <2>1 DEF StoredInv, IndexTypeOK
  <2>3. JobsOK' /\ AloneWrites' /\ WholeHolds'
    BY <2>1 DEF StoredInv, JobsOK, AloneWrites, WholeHolds
  <2> QED
    BY <2>2, <2>3 DEF StoredInv
<1>7. CASE Search \/ Respond \/ UNCHANGED indexVars
  <2>1. UNCHANGED <<job, store, alone, whole>>
    BY <1>7 DEF Search, Respond, indexVars
  <2> QED
    BY <2>1 DEF StoredInv, IndexTypeOK, JobsOK, AloneWrites, WholeHolds
<1> QED
  BY <1>1, <1>2, <1>3, <1>4, <1>5, <1>6, <1>7 DEF IndexNext

\* The elements of a prefix are those of the sequence.
LEMMA OneModelInvariant == StoredInv => OneModel
<1> SUFFICES ASSUME StoredInv, NEW x \in Indexers, job[x] # NoJob
             PROVE  \E m \in Models : job[x].embedded =
                        Embedded(FirstOf(Len(job[x].embedded), job[x].chunks), m)
  BY DEF OneModel
<1>1. PICK j : j = job[x]
  OBVIOUS
<1>2. JobOK(j) /\ j \in Jobs /\ j.embedded \in Seq(EmbeddedChunks) /\ j.chunks \in Seq(Pairs)
  BY <1>1 DEF StoredInv, JobsOK, JobOK, Jobs, EmbeddedChunks, Pairs
<1>3. PICK m \in Models : EmbeddedBy(j, m)
  <2>1. ModelOf(j.phase) \in Models
    BY DEF ModelOf, Models
  <2>2. j.phase \in Embedding \cup {"embedded", "storing"}
    BY <1>2 DEF Jobs
  <2> QED
    BY <1>2, <2>1, <2>2 DEF JobOK
<1>4. PICK k \in Nat, n \in Nat : k = Len(j.embedded) /\ n = Len(j.chunks) /\ k <= n
  BY <1>2, <1>3 DEF EmbeddedBy
<1>5. PICK s : s = SubSeq(j.chunks, 1, k)
  OBVIOUS
<1>6. FirstOf(Len(j.embedded), j.chunks) = s
  BY <1>4, <1>5 DEF FirstOf
<1>7. s \in Seq(Pairs) /\ Len(s) = k /\ \A i \in 1..k : s[i] = j.chunks[i]
  <2>1. \A i \in 1..k : j.chunks[i] \in Pairs
    BY <1>2, <1>4
  <2>2. /\ s \in Seq(Pairs) /\ Len(s) = IF 1 <= k THEN k - 1 + 1 ELSE 0
        /\ \A i \in 1..(k - 1 + 1) : s[i] = j.chunks[1 + i - 1]
    BY <1>5, <2>1, SubSeqProperties
  <2>3. k - 1 + 1 = k /\ (~(1 <= k) => k = 0) /\ \A i \in 1..k : 1 + i - 1 = i
    OBVIOUS
  <2> QED
    BY <2>2, <2>3
<1>8. PICK e : e = Embedded(s, m)
  OBVIOUS
<1>9. e \in Seq(EmbeddedChunks) /\ Len(e) = k
      /\ \A i \in 1..k : e[i] = [chunk |-> s[i], model |-> m]
  BY <1>7, <1>8, EmbeddedAre
<1>10. \A i \in 1..k : e[i] = j.embedded[i]
  BY <1>3, <1>4, <1>7, <1>9 DEF EmbeddedBy
<1>11. e = j.embedded
  <2> HIDE DEF EmbeddedChunks
  <2> QED
    BY <1>2, <1>4, <1>9, <1>10
<1> QED
  BY <1>1, <1>6, <1>8, <1>11

\* Of the chunks that begin at one line the last is left, and it is the longest.
LEMMA StoredCoversInvariant == StoredInv => StoredCovers
<1> SUFFICES ASSUME StoredInv, NEW f \in Files, whole[f] # NoBody
             PROVE  LET chunks == {store[k].chunk : k \in {k \in DOMAIN store : k[1] = f}}
                        body == whole[f]
                    IN /\ chunks \subseteq ToSet(ExtractChunks(body))
                       /\ BodyLength(body) # 0 => Covered(chunks) = 1 .. Len(body)
                       /\ \A c, d \in chunks : c[1] < d[1] => c[2] < d[2]
                       /\ BodyLength(body) > WholeChars => \A c \in chunks : Bounded(body, c)
  BY DEF StoredCovers
<1>1. PICK body : body = whole[f] /\ body \in Seq(Nat)
  BY DEF StoredInv, IndexTypeOK
<1>2. PICK cs : cs = ExtractChunks(body)
  OBVIOUS
<1>3. ChunksOK(body, cs)
  BY <1>1, <1>2, ChunksCover
<1>4. PICK n \in Nat : n = Len(cs)
  BY <1>3 DEF ChunksOK
<1>5. Holds(store, f, cs, n)
  BY <1>1, <1>2, <1>4 DEF StoredInv, WholeHolds
<1> DEFINE chunks == {store[k].chunk : k \in {k \in DOMAIN store : k[1] = f}}
<1>6. \A c \in chunks : \E i \in 1..n :
        /\ c = cs[i] /\ \A l \in 1..n : l > i => cs[l][1] # cs[i][1]
  BY <1>5 DEF Holds
<1>7. \A i \in 1..n : \E c \in chunks : c[1] = cs[i][1]
  <2> TAKE i \in 1..n
  <2>1. PICK k : k = <<f, cs[i][1]>>
    OBVIOUS
  <2>2. k \in DOMAIN store /\ k[1] = f /\ k[2] = cs[i][1]
    BY <1>5, <2>1 DEF Holds
  <2>3. PICK l \in 1..n : k = <<f, cs[l][1]>> /\ store[k].chunk = cs[l]
    BY <1>5, <2>2 DEF Holds
  <2>4. cs[l][1] = cs[i][1]
    BY <2>1, <2>3
  <2> QED
    BY <2>2, <2>3, <2>4
<1> HIDE DEF chunks
<1>8. /\ cs \in Seq(Pairs)
      /\ \A i \in 1..n : cs[i] \in Pairs /\ cs[i][1] \in Nat /\ cs[i][2] \in Nat
  BY <1>3, <1>4 DEF ChunksOK, Pairs
<1>9. /\ \A i \in 1..n : 1 <= cs[i][1] /\ cs[i][2] <= Len(body)
                         /\ (BodyLength(body) > WholeChars => Bounded(body, cs[i]))
      /\ \A i, l \in 1..n : i < l => cs[i][1] <= cs[l][1] /\ cs[i][2] < cs[l][2]
      /\ BodyLength(body) # 0 =>
          \A l \in 1..Len(body) : \E i \in 1..n : cs[i][1] <= l /\ l <= cs[i][2]
  BY <1>3, <1>4 DEF ChunksOK
<1>10. chunks \subseteq ToSet(cs)
  BY <1>4, <1>6, <1>8 DEF ToSet
<1>11. BodyLength(body) > WholeChars => \A c \in chunks : Bounded(body, c)
  BY <1>6, <1>9
<1>12. ASSUME NEW c \in chunks, NEW d \in chunks, c[1] < d[1]
       PROVE  c[2] < d[2]
  <2>1. PICK i \in 1..n, l \in 1..n : c = cs[i] /\ d = cs[l]
    BY <1>6
  <2>2. i < l
    <3>1. CASE i = l
      BY <1>8, <1>12, <2>1, <3>1
    <3>2. CASE l < i
      <4>1. cs[l][1] <= cs[i][1] /\ cs[l][1] \in Nat /\ cs[i][1] \in Nat /\ cs[i][1] < cs[l][1]
        BY <1>8, <1>9, <1>12, <2>1, <3>2
      <4> QED
        BY <4>1
    <3> QED
      BY <3>1, <3>2
  <2> QED
    BY <1>9, <2>1, <2>2
<1>13. ASSUME BodyLength(body) # 0
       PROVE  Covered(chunks) = 1..Len(body)
  <2>0. Len(body) \in Nat
    BY <1>1
  <2>1. ASSUME NEW c \in chunks, NEW l \in c[1]..c[2]
        PROVE  l \in 1..Len(body)
    <3>1. PICK i \in 1..n : c = cs[i]
      BY <1>6
    <3>2. c[1] \in Nat /\ c[2] \in Nat /\ 1 <= c[1] /\ c[2] <= Len(body)
      BY <1>8, <1>9, <3>1
    <3> QED
      BY <2>0, <3>2
  <2>2. ASSUME NEW l \in 1..Len(body)
        PROVE  \E c \in chunks : l \in c[1]..c[2]
    <3>1. PICK i \in 1..n : cs[i][1] <= l /\ l <= cs[i][2]
      BY <1>9, <1>13
    <3>2. PICK c \in chunks : c[1] = cs[i][1]
      BY <1>7
    <3>3. PICK o \in 1..n : c = cs[o] /\ \A m \in 1..n : m > o => cs[m][1] # cs[o][1]
      BY <1>6
    <3>4. i <= o
      BY <3>2, <3>3
    <3>5. cs[i][2] <= cs[o][2]
      <4>1. cs[i][2] \in Nat /\ cs[o][2] \in Nat /\ (i < o => cs[i][2] < cs[o][2])
        BY <1>8, <1>9
      <4>2. i = o \/ i < o
        BY <3>4
      <4> QED
        BY <4>1, <4>2
    <3>6. /\ c[1] \in Nat /\ c[2] \in Nat /\ c[1] <= l /\ cs[i][2] \in Nat
          /\ l <= cs[i][2] /\ cs[i][2] <= c[2] /\ l \in Nat
      BY <1>8, <3>1, <3>2, <3>3, <3>5
    <3> QED
      BY <3>6
  <2> QED
    BY <2>1, <2>2 DEF Covered, Lines
<1> QED
  BY <1>1, <1>2, <1>10, <1>11, <1>12, <1>13 DEF chunks

\* In whatever batches, retries and failures a body is embedded, each chunk is
\* embedded once, in order, and all by one model.
THEOREM OneModelEach == IndexSpec => []OneModel
<1>1. IndexInit => StoredInv
  BY StoredInit
<1>2. StoredInv /\ [IndexNext]_indexVars => StoredInv'
  BY StoredStep
<1> QED
  BY <1>1, <1>2, OneModelInvariant, PTL DEF IndexSpec

\* However many indexers write at once: after an upsert that nobody interfered
\* with and of which nothing was refused, the objects of a file cover its body.
THEOREM StoredBodiesAreCovered == IndexSpec => []StoredCovers
<1>1. IndexInit => StoredInv
  BY StoredInit
<1>2. StoredInv /\ [IndexNext]_indexVars => StoredInv'
  BY StoredStep
<1> QED
  BY <1>1, <1>2, StoredCoversInvariant, PTL DEF IndexSpec

------------------------------------------------------------------------------
(* ResultAssembly: ranks, sums and the budget                                 *)

\* The places of A, each once, in the order that B gives them.
RankedBy(q, c, A, B) ==
    /\ c \in Nat /\ c = Cardinality(A) /\ q \in [1..c -> A]
    /\ \A n \in A : \E p \in 1..c : q[p] = n
    /\ \A p, r \in 1..c : p < r => q[p] \in B[q[r]] /\ q[r] \notin B[q[p]]

LEMMA RanksFill ==
  ASSUME NEW A, IsFiniteSet(A), NEW B \in [A -> SUBSET A],
         \A n \in A : n \in B[n],
         \A m, n \in A : m # n => \/ B[m] \subseteq B[n] /\ n \notin B[m]
                                  \/ B[n] \subseteq B[m] /\ m \notin B[n]
  PROVE  RankedBy(Ranked(A, B), Cardinality(A), A, B)
<1>1. PICK c \in Nat : c = Cardinality(A)
  BY FS_CardinalityType
<1>2. \A n \in A : IsFiniteSet(B[n]) /\ Cardinality(B[n]) \in Nat /\ Cardinality(B[n]) <= c
  BY <1>1, FS_Subset, FS_CardinalityType
<1>3. PICK f : f = [n \in A |-> Cardinality(B[n])]
  OBVIOUS
<1>4. ASSUME NEW n \in A
      PROVE  f[n] \in 1..c
  <2>1. f[n] \in Nat /\ f[n] <= c /\ f[n] = Cardinality(B[n])
    BY <1>2, <1>3
  <2>2. f[n] # 0
    <3>1. B[n] # {}
      OBVIOUS
    <3>2. Cardinality(B[n]) # 0
      BY <1>2, <3>1, FS_EmptySet
    <3> QED
      BY <2>1, <3>2
  <2> QED
    BY <2>1, <2>2
<1>5. ASSUME NEW m \in A, NEW n \in A, m # n
      PROVE  \/ f[m] < f[n] /\ B[m] \subseteq B[n] /\ n \notin B[m]
             \/ f[n] < f[m] /\ B[n] \subseteq B[m] /\ m \notin B[n]
  <2>1. ASSUME NEW a \in A, NEW b \in A, B[a] \subseteq B[b], b \notin B[a]
        PROVE  f[a] < f[b]
    <3>1. Cardinality(B[a]) <= Cardinality(B[b]) /\ (Cardinality(B[b]) = Cardinality(B[a]) => B[b] = B[a])
      BY <1>2, <2>1, FS_Subset
    <3>2. B[b] # B[a]
      BY <2>1
    <3>3. f[a] = Cardinality(B[a]) /\ f[b] = Cardinality(B[b]) /\ f[a] \in Nat /\ f[b] \in Nat
      BY <1>2, <1>3
    <3> QED
      BY <3>1, <3>2, <3>3
  <2> QED
    BY <1>5, <2>1
<1>6. f \in [A -> 1..c]
  BY <1>3, <1>4
<1>7. \A m, n \in A : f[m] = f[n] => m = n
  <2> SUFFICES ASSUME NEW m \in A, NEW n \in A, f[m] = f[n], m # n
               PROVE  FALSE
    OBVIOUS
  <2>1. f[m] < f[n] \/ f[n] < f[m]
    BY <1>5
  <2>2. f[m] \in Nat /\ f[n] \in Nat
    BY <1>2, <1>3
  <2> QED
    BY <2>1, <2>2
<1>8. f \in Injection(A, 1..c)
  BY <1>6, <1>7 DEF Injection, IsInjective
<1>9. IsFiniteSet(1..c) /\ Cardinality(1..c) = c
  BY FS_Interval
<1>10. f \in Surjection(A, 1..c)
  BY <1>1, <1>8, <1>9, FS_Injection
<1>11. \A p \in 1..c : \E n \in A : f[n] = p
  BY <1>10 DEF Surjection
<1>12. PICK q : q = Ranked(A, B)
  OBVIOUS
<1>13. q = [p \in 1..c |-> CHOOSE n \in A : Cardinality(B[n]) = p]
  BY <1>1, <1>12 DEF Ranked
<1>14. ASSUME NEW p \in 1..c
       PROVE  q[p] \in A /\ f[q[p]] = p
  <2>1. \E n \in A : Cardinality(B[n]) = p
    BY <1>3, <1>11
  <2>2. q[p] \in A /\ Cardinality(B[q[p]]) = p
    BY <1>13, <2>1
  <2> QED
    BY <1>3, <2>2
<1>15. q \in [1..c -> A]
  BY <1>13, <1>14
<1>16. \A n \in A : \E p \in 1..c : q[p] = n
  <2> SUFFICES ASSUME NEW n \in A
               PROVE  \E p \in 1..c : q[p] = n
    OBVIOUS
  <2>1. f[n] \in 1..c
    BY <1>4
  <2>2. q[f[n]] = n
    BY <1>7, <1>14, <2>1
  <2> QED
    BY <2>1, <2>2
<1>17. \A p, r \in 1..c : p < r => q[p] \in B[q[r]] /\ q[r] \notin B[q[p]]
  <2> SUFFICES ASSUME NEW p \in 1..c, NEW r \in 1..c, p < r
               PROVE  q[p] \in B[q[r]] /\ q[r] \notin B[q[p]]
    OBVIOUS
  <2>1. PICK m \in A, n \in A : m = q[p] /\ n = q[r] /\ f[m] = p /\ f[n] = r
    BY <1>14
  <2>2. m # n /\ ~(f[n] < f[m])
    BY <2>1
  <2>3. B[m] \subseteq B[n] /\ n \notin B[m]
    BY <1>5, <2>2
  <2> QED
    BY <2>1, <2>3
<1> QED
  BY <1>1, <1>12, <1>15, <1>16, <1>17 DEF RankedBy

\* t has what s has at the places q, in their order.
TakenFrom(t, s, c, q, places) ==
    /\ c \in Nat /\ Len(t) = c /\ q \in [1..c -> places]
    /\ \A p \in 1..c : t[p] = s[q[p]]
    /\ \A n \in places : \E p \in 1..c : q[p] = n
    /\ \A p, r \in 1..c : p < r => q[p] < q[r]

LEMMA PickedAre ==
  ASSUME NEW S, NEW s \in Seq(S), NEW places, places \subseteq 1..Len(s)
  PROVE  \E c, q : TakenFrom(Picked(s, places), s, c, q, places) /\ Picked(s, places) \in Seq(S)
<1>1. PICK l \in Nat : l = Len(s) /\ \A i \in 1..l : s[i] \in S
  OBVIOUS
<1>2. IsFiniteSet(places)
  <2>1. IsFiniteSet(1..l)
    BY FS_Interval
  <2> QED
    BY <1>1, <2>1, FS_Subset
<1>3. \A n \in places : n \in 1..l /\ n \in Nat
  BY <1>1
<1>4. PICK B : B = [n \in places |-> {m \in places : m <= n}]
  OBVIOUS
<1>5. B \in [places -> SUBSET places] /\ \A m, n \in places : m \in B[n] <=> m <= n
  BY <1>4
<1>6. \A n \in places : n \in B[n]
  BY <1>3, <1>5
<1>7. \A m, n \in places : m # n => \/ B[m] \subseteq B[n] /\ n \notin B[m]
                                    \/ B[n] \subseteq B[m] /\ m \notin B[n]
  <2>1. ASSUME NEW m \in places, NEW n \in places, m < n
        PROVE  B[m] \subseteq B[n] /\ n \notin B[m]
    <3>1. \A k \in places : k <= m => k <= n
      BY <1>3, <2>1
    <3>2. ~(n <= m)
      BY <1>3, <2>1
    <3> QED
      BY <1>4, <3>1, <3>2
  <2>2. \A m, n \in places : m # n => m < n \/ n < m
    BY <1>3
  <2> QED
    BY <2>1, <2>2
<1>8. PICK q, c : q = Ranked(places, B) /\ c = Cardinality(places)
  OBVIOUS
<1>9. RankedBy(q, c, places, B)
  BY <1>2, <1>5, <1>6, <1>7, <1>8, RanksFill
<1>10. c \in Nat /\ q \in [1..c -> places] /\ \A n \in places : \E p \in 1..c : q[p] = n
  BY <1>9 DEF RankedBy
<1>11. \A p, r \in 1..c : p < r => q[p] < q[r]
  <2> SUFFICES ASSUME NEW p \in 1..c, NEW r \in 1..c, p < r
               PROVE  q[p] < q[r]
    OBVIOUS
  <2>1. PICK m \in places, n \in places : m = q[p] /\ n = q[r]
    BY <1>10
  <2>2. m \in B[n] /\ n \notin B[m]
    BY <1>9, <2>1 DEF RankedBy
  <2>3. m <= n /\ ~(n <= m)
    BY <1>5, <2>2
  <2> QED
    BY <1>3, <2>1, <2>3
<1>12. PICK t : t = Picked(s, places)
  OBVIOUS
<1>13. t = [p \in 1..c |-> s[q[p]]]
  <2>1. DOMAIN q = 1..c
    BY <1>10
  <2> QED
    BY <1>4, <1>8, <1>12, <2>1 DEF Picked
<1>14. t \in [1..c -> S]
  BY <1>1, <1>3, <1>10, <1>13
<1>15. t \in Seq(S) /\ Len(t) = c
  BY <1>10, <1>14
<1>16. TakenFrom(t, s, c, q, places)
  BY <1>10, <1>11, <1>13, <1>15 DEF TakenFrom
<1> QED
  BY <1>12, <1>15, <1>16

\* t has what results has, the more confident before the less, and equals in their
\* order.
SortedFrom(t, results, c, q) ==
    /\ c \in Nat /\ c = Len(results) /\ Len(t) = c /\ q \in [1..c -> 1..c]
    /\ \A p \in 1..c : t[p] = results[q[p]]
    /\ \A n \in 1..c : \E p \in 1..c : q[p] = n
    /\ \A p, r \in 1..c : p < r =>
        /\ q[p] # q[r]
        /\ \/ results[q[p]].confidence > results[q[r]].confidence
           \/ results[q[p]].confidence = results[q[r]].confidence /\ q[p] < q[r]

LEMMA SortedAre ==
  ASSUME NEW S, NEW results \in Seq(S), \A i \in 1..Len(results) : results[i].confidence \in Nat
  PROVE  \E c, q : SortedFrom(ByConfidence(results), results, c, q) /\ ByConfidence(results) \in Seq(S)
<1>1. PICK c \in Nat : c = Len(results) /\ \A i \in 1..c : results[i] \in S
  OBVIOUS
<1>2. PICK A : A = 1..c /\ A = DOMAIN results
  BY <1>1
<1>3. IsFiniteSet(A) /\ Cardinality(A) = c
  BY <1>2, FS_Interval
<1>4. PICK w : w = [i \in A |-> results[i].confidence]
  OBVIOUS
<1>5. w \in [A -> Nat] /\ \A i \in A : w[i] = results[i].confidence /\ i \in Nat
  BY <1>1, <1>2, <1>4
<1>6. PICK B : B = [n \in A |-> {m \in A : w[m] > w[n] \/ (w[m] = w[n] /\ m <= n)}]
  OBVIOUS
<1>7. B \in [A -> SUBSET A] /\ \A m, n \in A : m \in B[n] <=> w[m] > w[n] \/ (w[m] = w[n] /\ m <= n)
  BY <1>6
<1>8. \A n \in A : n \in B[n]
  BY <1>5, <1>7
<1>9. \A m, n \in A : m # n => \/ B[m] \subseteq B[n] /\ n \notin B[m]
                               \/ B[n] \subseteq B[m] /\ m \notin B[n]
  <2>1. ASSUME NEW m \in A, NEW n \in A, w[m] > w[n] \/ (w[m] = w[n] /\ m < n)
        PROVE  B[m] \subseteq B[n] /\ n \notin B[m]
    <3>0. w[m] \in Nat /\ w[n] \in Nat /\ m \in Nat /\ n \in Nat
      BY <1>5
    <3>1. ASSUME NEW k \in A, w[k] > w[m] \/ (w[k] = w[m] /\ k <= m)
          PROVE  w[k] > w[n] \/ (w[k] = w[n] /\ k <= n)
      <4>1. w[k] \in Nat /\ k \in Nat
        BY <1>5
      <4> QED
        BY <2>1, <3>0, <3>1, <4>1
    <3>2. ~(w[n] > w[m] \/ (w[n] = w[m] /\ n <= m))
      BY <2>1, <3>0
    <3> QED
      BY <1>7, <3>1, <3>2
  <2>2. ASSUME NEW m \in A, NEW n \in A, m # n
        PROVE  \/ w[m] > w[n] \/ (w[m] = w[n] /\ m < n)
               \/ w[n] > w[m] \/ (w[n] = w[m] /\ n < m)
    <3>0. w[m] \in Nat /\ w[n] \in Nat /\ m \in Nat /\ n \in Nat
      BY <1>5
    <3> QED
      BY <2>2, <3>0
  <2> QED
    BY <2>1, <2>2
<1>10. PICK q : q = Ranked(A, B)
  OBVIOUS
<1>11. RankedBy(q, c, A, B)
  BY <1>3, <1>7, <1>8, <1>9, <1>10, RanksFill
<1>12. c \in Nat /\ q \in [1..c -> A] /\ \A n \in A : \E p \in 1..c : q[p] = n
  BY <1>11 DEF RankedBy
<1>13. PICK t : t = ByConfidence(results)
  OBVIOUS
<1>14. t = [p \in 1..c |-> results[q[p]]]
  <2>1. DOMAIN q = 1..c
    BY <1>12
  <2>2. B = [n \in A |-> {m \in A : \/ results[m].confidence > results[n].confidence
                                    \/ results[m].confidence = results[n].confidence /\ m <= n}]
    BY <1>5, <1>6
  <2> QED
    BY <1>2, <1>10, <1>13, <2>1, <2>2 DEF ByConfidence
<1>15. t \in [1..c -> S]
  BY <1>1, <1>2, <1>12, <1>14
<1>16. t \in Seq(S) /\ Len(t) = c
  BY <1>1, <1>15
<1>17. ASSUME NEW p \in 1..c, NEW r \in 1..c, p < r
       PROVE  /\ q[p] # q[r]
              /\ \/ results[q[p]].confidence > results[q[r]].confidence
                 \/ results[q[p]].confidence = results[q[r]].confidence /\ q[p] < q[r]
  <2>1. PICK m \in A, n \in A : m = q[p] /\ n = q[r]
    BY <1>12
  <2>2. m \in B[n] /\ n \notin B[m]
    BY <1>11, <1>17, <2>1 DEF RankedBy
  <2>3. (w[m] > w[n] \/ (w[m] = w[n] /\ m <= n)) /\ m # n
    BY <1>7, <1>8, <2>2
  <2>4. w[m] > w[n] \/ (w[m] = w[n] /\ m < n)
    BY <1>5, <2>3
  <2> QED
    BY <1>5, <2>1, <2>3, <2>4
<1>18. SortedFrom(t, results, c, q)
  BY <1>1, <1>2, <1>12, <1>14, <1>16, <1>17 DEF SortedFrom
<1> QED
  BY <1>13, <1>16, <1>18

\* g[i] is the size of the first i results.
Totals(g, s) ==
    /\ g \in [0..Len(s) -> Nat] /\ g[0] = 0
    /\ \A i \in 1..Len(s) : g[i] = g[i - 1] + s[i].hit.chars

LEMMA TotalsExist ==
  ASSUME NEW S, NEW s \in Seq(S), \A i \in 1..Len(s) : s[i].hit.chars \in Nat
  PROVE  \E g : Totals(g, s)
<1>1. PICK n \in Nat : n = Len(s)
  OBVIOUS
<1>2. PICK a : a = [i \in 1..n |-> s[i].hit.chars]
  OBVIOUS
<1>3. a \in [1..n -> Nat]
  BY <1>1, <1>2
<1>4. PICK next \in [Nat \X (1..n) -> Nat] : \A x \in Nat \X (1..n) : next[x] = x[1] + a[x[2]]
  <2> DEFINE next == [x \in Nat \X (1..n) |-> x[1] + a[x[2]]]
  <2>1. next \in [Nat \X (1..n) -> Nat]
    BY <1>3
  <2> QED
    BY <2>1
<1>5. PICK g : Steps(g, n, Nat, 0, next)
  BY StepsExist
<1>6. g \in [0..n -> Nat] /\ g[0] = 0 /\ \A i \in 1..n : g[i] = next[<<g[i - 1], i>>]
  BY <1>5 DEF Steps
<1>7. ASSUME NEW i \in 1..n
      PROVE  g[i] = g[i - 1] + s[i].hit.chars
  <2>1. i - 1 \in 0..n
    BY <1>1
  <2>2. g[i - 1] \in Nat
    BY <1>6, <2>1
  <2>3. next[<<g[i - 1], i>>] = g[i - 1] + a[i]
    BY <1>4, <2>2
  <2> QED
    BY <1>2, <1>6, <2>3
<1> QED
  BY <1>1, <1>6, <1>7 DEF Totals

\* Size adds the results one by one.
LEMMA SizeIs ==
  ASSUME NEW s, NEW n \in Nat, n = Len(s), NEW g, Totals(g, s)
  PROVE  Size(s) = g[n]
<1> DEFINE Adds(h) == h = [k \in 0..n |-> IF k = 0 THEN 0 ELSE h[k - 1] + s[k].hit.chars]
<1>1. /\ g \in [0..n -> Nat] /\ g[0] = 0
      /\ \A i \in 1..n : g[i] = g[i - 1] + s[i].hit.chars
  BY DEF Totals
<1>2. \A k \in 0..n : k # 0 => k \in 1..n /\ k - 1 \in 0..n
  OBVIOUS
<1>3. Adds(g)
  <2>1. \A k \in 0..n : g[k] = IF k = 0 THEN 0 ELSE g[k - 1] + s[k].hit.chars
    BY <1>1, <1>2
  <2> QED
    BY <1>1, <2>1
<1> DEFINE sum == CHOOSE h : Adds(h)
<1>4. Adds(sum)
  BY <1>3
<1>5. Size(s) = sum[n]
  BY DEF Size
<1> HIDE DEF sum
<1>6. \A k \in 0..n : sum[k] = IF k = 0 THEN 0 ELSE sum[k - 1] + s[k].hit.chars
  BY <1>4
<1> DEFINE bad == {k \in 0..n : sum[k] # g[k]}
<1>7. bad = {}
  <2> SUFFICES ASSUME bad # {}
               PROVE  FALSE
    OBVIOUS
  <2>0. bad \subseteq Nat
    OBVIOUS
  <2>1. PICK k \in bad : \A l \in bad : k <= l
    <3> HIDE DEF bad
    <3> QED
      BY <2>0, LeastNumber
  <2>2. k \in 0..n /\ sum[k] # g[k]
    OBVIOUS
  <2>3. k # 0
    BY <1>1, <1>6, <2>2
  <2>4. k \in 1..n /\ k - 1 \in 0..n /\ ~(k <= k - 1)
    BY <2>2, <2>3
  <2>5. sum[k - 1] = g[k - 1]
    BY <2>1, <2>4
  <2>6. sum[k] = sum[k - 1] + s[k].hit.chars
    BY <1>6, <2>2, <2>3
  <2> QED
    BY <1>1, <2>2, <2>4, <2>5, <2>6
<1>8. sum[n] = g[n]
  <2>1. n \in 0..n
    OBVIOUS
  <2> QED
    BY <1>7, <2>1
<1> QED
  BY <1>5, <1>8

\* t is the first n results of s, whose sizes g gives.
AreFirst(t, s, n, g) ==
    /\ Len(t) = n /\ DOMAIN t = 1..n /\ \A i \in 1..n : t[i] = s[i]
    /\ Size(t) = g[n]

LEMMA FirstResults ==
  ASSUME NEW S, NEW s \in Seq(S), NEW n \in 0..Len(s), NEW g, Totals(g, s),
         NEW t, t = SubSeq(s, 1, n)
  PROVE  AreFirst(t, s, n, g)
<1>1. PICK l \in Nat : l = Len(s) /\ \A i \in 1..l : s[i] \in S
  OBVIOUS
<1>2. n \in Nat /\ n <= l /\ 1 \in Int /\ n \in Int /\ \A i \in 1..n : s[i] \in S
  BY <1>1
<1>3. /\ t \in Seq(S) /\ Len(t) = IF 1 <= n THEN n - 1 + 1 ELSE 0
      /\ \A i \in 1..(n - 1 + 1) : t[i] = s[1 + i - 1]
  BY <1>2, SubSeqProperties
<1>4. n - 1 + 1 = n /\ (~(1 <= n) => n = 0) /\ \A i \in 1..n : 1 + i - 1 = i
  BY <1>2
<1>5. Len(t) = n /\ DOMAIN t = 1..n /\ \A i \in 1..n : t[i] = s[i]
  BY <1>3, <1>4
<1>6. Size(t) = g[n]
  <2>1. /\ g \in [0..l -> Nat] /\ g[0] = 0
        /\ \A i \in 1..l : g[i] = g[i - 1] + s[i].hit.chars
    BY <1>1 DEF Totals
  <2>2. PICK h : h = [i \in 0..n |-> g[i]]
    OBVIOUS
  <2>3. h \in [0..n -> Nat] /\ h[0] = 0 /\ h[n] = g[n]
    <3>1. 0 \in 0..n /\ n \in 0..n /\ \A i \in 0..n : i \in 0..l
      BY <1>1, <1>2
    <3>2. \A i \in 0..n : g[i] \in Nat
      BY <2>1, <3>1
    <3> QED
      BY <2>1, <2>2, <3>1, <3>2
  <2>4. ASSUME NEW i \in 1..n
        PROVE  h[i] = h[i - 1] + t[i].hit.chars
    <3>1. i \in 1..l /\ i \in 0..n /\ i - 1 \in 0..n
      BY <1>2
    <3>2. g[i] = g[i - 1] + t[i].hit.chars
      BY <1>5, <2>1, <3>1
    <3> QED
      BY <2>2, <3>1, <3>2
  <2>5. Totals(h, t)
    BY <1>5, <2>3, <2>4 DEF Totals
  <2> QED
    BY <1>2, <1>5, <2>3, <2>5, SizeIs
<1> QED
  BY <1>5, <1>6 DEF AreFirst

\* What fits, and nothing after the first that does not.
TrimmedTo(out, s, n) ==
    /\ n \in 0..Len(s) /\ Len(out) = n /\ DOMAIN out = 1..n
    /\ \A i \in 1..n : out[i] = s[i]
    /\ Size(out) \in Nat /\ Size(out) <= MaxContext
    /\ n < Len(s) => Size(out) + s[n + 1].hit.chars > MaxContext

LEMMA TrimKeepsBudget ==
  ASSUME NEW S, NEW s \in Seq(S), \A i \in 1..Len(s) : s[i].hit.chars \in Nat
  PROVE  \E n : TrimmedTo(TrimToTokenBudget(s), s, n)
<1>1. PICK l \in Nat : l = Len(s)
  OBVIOUS
<1>2. PICK g : Totals(g, s)
  BY TotalsExist
<1>3. /\ g \in [0..l -> Nat] /\ g[0] = 0
      /\ \A i \in 1..l : g[i] = g[i - 1] + s[i].hit.chars
  BY <1>1, <1>2 DEF Totals
<1>4. ASSUME NEW n \in 0..Len(s), NEW t, t = SubSeq(s, 1, n)
      PROVE  Len(t) = n /\ DOMAIN t = 1..n /\ (\A i \in 1..n : t[i] = s[i]) /\ Size(t) = g[n]
  <2>1. AreFirst(t, s, n, g)
    BY <1>2, <1>4, FirstResults
  <2> QED
    BY <2>1 DEF AreFirst
<1>5. MaxContext \in Nat
  BY AssemblyAssumption
<1>6. PICK fits : fits = {n \in 0..Len(s) : Size(SubSeq(s, 1, n)) <= MaxContext}
  OBVIOUS
<1>7. fits = {n \in 0..l : g[n] <= MaxContext}
  <2>1. \A n \in 0..l : Size(SubSeq(s, 1, n)) = g[n]
    BY <1>1, <1>4
  <2> QED
    BY <1>1, <1>6, <2>1
<1>8. \E n \in fits : \A m \in fits : m <= n
  <2>1. PICK rest : rest = {k \in 0..l : l - k \in fits}
    OBVIOUS
  <2>2. rest \subseteq Nat /\ l \in rest
    <3>1. 0 \in 0..l /\ g[0] <= MaxContext
      BY <1>3, <1>5
    <3> QED
      BY <1>7, <2>1, <3>1
  <2>3. PICK k \in rest : \A j \in rest : k <= j
    BY <2>2, LeastNumber
  <2>4. PICK n \in fits : n = l - k
    BY <2>1
  <2>5. ASSUME NEW m \in fits
        PROVE  m <= n
    <3>1. m \in 0..l /\ l - m \in 0..l /\ l - (l - m) = m
      BY <1>7
    <3>2. l - m \in rest
      BY <2>1, <3>1
    <3>3. k <= l - m
      BY <2>3, <3>2
    <3>4. k \in 0..l
      BY <2>1
    <3> QED
      BY <2>4, <3>1, <3>3, <3>4
  <2> QED
    BY <2>5
<1>9. PICK n : n = CHOOSE k \in fits : \A m \in fits : m <= k
  OBVIOUS
<1>10. n \in fits /\ \A m \in fits : m <= n
  BY <1>8, <1>9
<1>11. n \in 0..l /\ g[n] <= MaxContext
  BY <1>7, <1>10
<1>12. PICK out : out = SubSeq(s, 1, n)
  OBVIOUS
<1>13. TrimToTokenBudget(s) = out
  BY <1>6, <1>9, <1>12 DEF TrimToTokenBudget
<1>14. Len(out) = n /\ DOMAIN out = 1..n /\ (\A i \in 1..n : out[i] = s[i]) /\ Size(out) = g[n]
  <2>1. n \in 0..Len(s)
    BY <1>1, <1>11
  <2> QED
    BY <1>4, <1>12, <2>1, ZenonT(30)
<1>15. ASSUME n < l
       PROVE  g[n] + s[n + 1].hit.chars > MaxContext
  <2>1. n + 1 \in 1..l /\ n + 1 \in 0..l /\ n + 1 - 1 = n /\ ~(n + 1 <= n)
    BY <1>11, <1>15
  <2>2. n + 1 \notin fits
    BY <1>10, <2>1
  <2>3. g[n + 1] \in Nat /\ ~(g[n + 1] <= MaxContext)
    BY <1>3, <1>7, <2>1, <2>2
  <2>4. g[n + 1] > MaxContext
    BY <1>5, <2>3
  <2>5. PICK j \in 1..l : j = n + 1
    BY <2>1
  <2>6. j - 1 = n
    BY <1>11, <2>5
  <2>7. g[j] = g[j - 1] + s[j].hit.chars
    BY <1>3
  <2> QED
    BY <2>4, <2>5, <2>6, <2>7
<1>16. g[n] \in Nat
  BY <1>3, <1>11
<1>17. TrimmedTo(out, s, n)
  BY <1>1, <1>11, <1>14, <1>15, <1>16 DEF TrimmedTo
<1> QED
  BY <1>13, <1>17

\* With equal centrality, confidence grows with certainty.
LEMMA ConfidenceGrows ==
  ASSUME NEW a \in 0..10, NEW b \in 0..10, NEW x \in Nat
  PROVE  /\ CalculateConfidence(a, x) \in Nat
         /\ a <= b => CalculateConfidence(a, x) <= CalculateConfidence(b, x)
<1>1. PICK w \in Nat, v \in Nat : w = Weights.similarity + Weights.rerank /\ v = Weights.centrality
                                  /\ (w = 50 \/ w = 85) /\ (v = 15 \/ v = 50)
  BY AssemblyAssumption DEF Weights
<1>2. PICK p \in Nat, q \in Nat, z \in Nat : p = a * w /\ q = b * w /\ z = x * v
  <2>1. a * w \in Nat /\ b * w \in Nat /\ x * v \in Nat
    BY <1>1
  <2> QED
    BY <2>1
<1>3. a <= b => p <= q
  BY <1>1, <1>2
<1>4. /\ CalculateConfidence(a, x) = IF p + z > 1000 THEN 1000 ELSE p + z
      /\ CalculateConfidence(b, x) = IF q + z > 1000 THEN 1000 ELSE q + z
  BY <1>1, <1>2 DEF CalculateConfidence, One
<1> QED
  BY <1>3, <1>4

LEMMA CentralityIsNumber ==
  ASSUME NEW n \in Nat
  PROVE  CalculateCentrality(n) \in Nat
BY DEF CalculateCentrality

------------------------------------------------------------------------------
(* SemanticIndex: the answer to a search                                      *)

HitRecords == [id : ObjectIds, file : Files, chars : Nat, certainty : 0..10]
ResultRecords == [hit : HitRecords, confidence : Nat]

\* The results b are those of the f hits in s that qualify, each once, and of two in
\* files alike, the more certain first.
Chosen(b, s, f, lost, r, l) ==
    /\ l \in Nat /\ b \in Seq(ResultRecords) /\ Len(b) = l /\ r \in [1..l -> 1..f]
    /\ \A p \in 1..l :
        b[p].hit = s[r[p]] /\ s[r[p]].id \notin lost /\ Enough(s[r[p]].certainty)
    /\ \A i \in 1..f : s[i].id \notin lost /\ Enough(s[i].certainty) =>
        \E p \in 1..l : r[p] = i
    /\ \A p, q \in 1..l : p < q =>
        /\ r[p] # r[q]
        /\ Connections[s[r[p]].file] = Connections[s[r[q]].file] =>
            s[r[q]].certainty <= s[r[p]].certainty

\* The hits d that are certain enough and not lost.
Qualifying(d, s, f, lost, e, l) ==
    /\ l \in Nat /\ d \in Seq(HitRecords) /\ Len(d) = l /\ e \in [1..l -> 1..f]
    /\ \A p \in 1..l : d[p] = s[e[p]] /\ s[e[p]].id \notin lost /\ Enough(s[e[p]].certainty)
    /\ \A i \in 1..f : s[i].id \notin lost /\ Enough(s[i].certainty) =>
        \E p \in 1..l : e[p] = i
    /\ \A p, q \in 1..l : p < q => e[p] < e[q]

LEMMA QualifyingAre ==
  ASSUME NEW s \in Seq(HitRecords), NEW lost, NEW f, f = Len(s),
         NEW c, c = Certain(s),
         NEW d, d = Picked(c, {n \in DOMAIN c : c[n].id \notin lost})
  PROVE  \E e, l : Qualifying(d, s, f, lost, e, l)
<1>3. PICK t : t = s
  OBVIOUS
<1>4. t \in Seq(HitRecords) /\ Len(t) = f /\ \A i \in 1..f : t[i] = s[i]
  BY <1>3
<1>5. PICK P : P = {n \in 1..f : Enough(t[n].certainty)}
  OBVIOUS
<1>6. P \subseteq 1..Len(t) /\ c = Picked(t, P)
  <2>1. DOMAIN t = 1..f
    BY <1>4
  <2> QED
    BY <1>3, <1>4, <1>5, <2>1 DEF Certain
<1>7. PICK a, u : TakenFrom(c, t, a, u, P) /\ c \in Seq(HitRecords)
  BY <1>4, <1>6, PickedAre
<1>8. /\ a \in Nat /\ Len(c) = a /\ u \in [1..a -> P] /\ \A p \in 1..a : c[p] = t[u[p]]
      /\ \A n \in P : \E p \in 1..a : u[p] = n
      /\ \A p, r \in 1..a : p < r => u[p] < u[r]
  BY <1>7 DEF TakenFrom
<1>9. PICK Q : Q = {n \in 1..a : c[n].id \notin lost}
  OBVIOUS
<1>10. Q \subseteq 1..Len(c) /\ d = Picked(c, Q)
  <2>1. DOMAIN c = 1..a
    BY <1>7, <1>8
  <2> QED
    BY <1>8, <1>9, <2>1
<1>11. PICK l, v : TakenFrom(d, c, l, v, Q) /\ d \in Seq(HitRecords)
  BY <1>7, <1>10, PickedAre
<1>12. /\ l \in Nat /\ Len(d) = l /\ v \in [1..l -> Q] /\ \A p \in 1..l : d[p] = c[v[p]]
       /\ \A n \in Q : \E p \in 1..l : v[p] = n
       /\ \A p, r \in 1..l : p < r => v[p] < v[r]
  BY <1>11 DEF TakenFrom
<1>13. PICK e : e = [p \in 1..l |-> u[v[p]]]
  OBVIOUS
<1>14. ASSUME NEW p \in 1..l
       PROVE  /\ v[p] \in 1..a /\ e[p] = u[v[p]] /\ e[p] \in 1..f /\ d[p] = s[e[p]]
              /\ s[e[p]].id \notin lost /\ Enough(s[e[p]].certainty)
  <2>1. v[p] \in Q /\ v[p] \in 1..a
    BY <1>9, <1>12
  <2>2. e[p] = u[v[p]] /\ u[v[p]] \in P
    BY <1>8, <1>13, <2>1
  <2>3. e[p] \in 1..f /\ Enough(t[e[p]].certainty) /\ t[e[p]] = s[e[p]]
    BY <1>4, <1>5, <2>2
  <2>4. d[p] = c[v[p]] /\ c[v[p]] = t[e[p]] /\ c[v[p]].id \notin lost
    <3>1. d[p] = c[v[p]]
      BY <1>12
    <3>2. c[v[p]] = t[u[v[p]]]
      BY <1>8, <2>1
    <3>3. c[v[p]].id \notin lost
      BY <1>9, <2>1
    <3> QED
      BY <2>2, <3>1, <3>2, <3>3
  <2> QED
    BY <2>1, <2>2, <2>3, <2>4
<1>15. e \in [1..l -> 1..f]
  BY <1>13, <1>14
<1>16. ASSUME NEW i \in 1..f, s[i].id \notin lost, Enough(s[i].certainty)
       PROVE  \E p \in 1..l : e[p] = i
  <2>1. i \in P
    BY <1>4, <1>5, <1>16
  <2>2. PICK n \in 1..a : u[n] = i
    BY <1>8, <2>1
  <2>3. c[n] = s[i]
    BY <1>4, <1>8, <1>16, <2>2
  <2>4. n \in Q
    BY <1>9, <1>16, <2>3
  <2>5. PICK p \in 1..l : v[p] = n
    BY <1>12, <2>4
  <2> QED
    BY <1>14, <2>2, <2>5
<1>17. \A p, q \in 1..l : p < q => e[p] < e[q]
  <2> SUFFICES ASSUME NEW p \in 1..l, NEW q \in 1..l, p < q
               PROVE  e[p] < e[q]
    OBVIOUS
  <2>1. v[p] < v[q] /\ v[p] \in 1..a /\ v[q] \in 1..a
    BY <1>12, <1>14
  <2>2. u[v[p]] < u[v[q]]
    BY <1>8, <2>1
  <2> QED
    BY <1>14, <2>2
<1>18. l \in Nat /\ d \in Seq(HitRecords) /\ Len(d) = l
  BY <1>11, <1>12
<1>19. \A p \in 1..l : d[p] = s[e[p]] /\ s[e[p]].id \notin lost /\ Enough(s[e[p]].certainty)
  BY <1>14
<1>20. \A i \in 1..f : s[i].id \notin lost /\ Enough(s[i].certainty) =>
          \E p \in 1..l : e[p] = i
  BY <1>16
<1>21. Qualifying(d, s, f, lost, e, l)
  BY <1>15, <1>17, <1>18, <1>19, <1>20 DEF Qualifying
<1> QED
  BY <1>21

LEMMA ChosenAre ==
  ASSUME NEW s \in Seq(HitRecords), NEW lost,
         \A m, n \in 1..Len(s) : m < n => s[m].certainty >= s[n].certainty,
         NEW f, f = Len(s),
         NEW b, b = ByConfidence(Assembled(Certain(s), Connections, lost))
  PROVE  \E r, l : Chosen(b, s, f, lost, r, l)
<1>1. PICK c : c = Certain(s)
  OBVIOUS
<1>2. PICK d : d = Picked(c, {n \in DOMAIN c : c[n].id \notin lost})
  OBVIOUS
<1>3. PICK e, l : Qualifying(d, s, f, lost, e, l)
  BY <1>1, <1>2, QualifyingAre
<1>4. /\ l \in Nat /\ d \in Seq(HitRecords) /\ Len(d) = l /\ e \in [1..l -> 1..f]
      /\ \A p \in 1..l : d[p] = s[e[p]] /\ s[e[p]].id \notin lost /\ Enough(s[e[p]].certainty)
      /\ \A i \in 1..f : s[i].id \notin lost /\ Enough(s[i].certainty) =>
            \E p \in 1..l : e[p] = i
      /\ \A p, q \in 1..l : p < q => e[p] < e[q]
  BY <1>3 DEF Qualifying
<1>5. f \in Nat /\ f <= Len(s) /\ Len(s) \in Nat
  OBVIOUS
<1>c. Connections \in [Files -> Nat]
  BY IndexAssumption
<1>6. PICK w : w = [n \in 1..l |-> CalculateConfidence(d[n].certainty, CalculateCentrality(Connections[d[n].file]))]
  OBVIOUS
<1>7. ASSUME NEW n \in 1..l
      PROVE  /\ d[n] \in HitRecords /\ d[n].certainty \in 0..10
             /\ CalculateCentrality(Connections[d[n].file]) \in Nat /\ w[n] \in Nat
             /\ w[n] = CalculateConfidence(d[n].certainty, CalculateCentrality(Connections[d[n].file]))
  <2>1. d[n] \in HitRecords
    BY <1>4
  <2>2. d[n].certainty \in 0..10 /\ d[n].file \in Files
    BY <2>1 DEF HitRecords
  <2>3. Connections[d[n].file] \in Nat
    BY <1>c, <2>2
  <2>4. CalculateCentrality(Connections[d[n].file]) \in Nat
    BY <2>3, CentralityIsNumber
  <2>5. CalculateConfidence(d[n].certainty, CalculateCentrality(Connections[d[n].file])) \in Nat
    BY <2>2, <2>4, ConfidenceGrows
  <2> QED
    BY <1>6, <2>1, <2>2, <2>4, <2>5
<1>8. PICK a : a = [n \in 1..l |-> [hit |-> d[n], confidence |-> w[n]]]
  OBVIOUS
<1>9. a = Assembled(c, Connections, lost)
  <2>1. DOMAIN d = 1..l
    BY <1>4
  <2>2. Assembled(c, Connections, lost) = [n \in 1..l |->
            [hit |-> d[n], confidence |->
                CalculateConfidence(d[n].certainty, CalculateCentrality(Connections[d[n].file]))]]
    BY <1>2, <2>1 DEF Assembled
  <2> QED
    BY <1>6, <1>8, <2>2
<1>10. a \in [1..l -> ResultRecords]
  BY <1>7, <1>8 DEF ResultRecords
<1>11. /\ a \in Seq(ResultRecords) /\ Len(a) = l
       /\ \A n \in 1..l : a[n].hit = d[n] /\ a[n].confidence = w[n] /\ w[n] \in Nat
  <2>1. l \in Nat
    BY <1>4
  <2>2. a \in Seq(ResultRecords) /\ Len(a) = l
    BY <1>10, <2>1
  <2>3. \A n \in 1..l : w[n] \in Nat
    BY <1>7
  <2> QED
    BY <1>8, <2>2, <2>3
<1>12. \A i \in 1..Len(a) : a[i].confidence \in Nat
  BY <1>11
<1>13. PICK o, q : SortedFrom(b, a, o, q) /\ b \in Seq(ResultRecords)
  BY <1>1, <1>9, <1>11, <1>12, SortedAre
<1>14. /\ Len(b) = l /\ q \in [1..l -> 1..l]
       /\ \A p \in 1..l : b[p] = a[q[p]]
       /\ \A n \in 1..l : \E p \in 1..l : q[p] = n
       /\ \A p, r \in 1..l : p < r =>
            /\ q[p] # q[r]
            /\ \/ w[q[p]] > w[q[r]]
               \/ w[q[p]] = w[q[r]] /\ q[p] < q[r]
  <2>1. o = l
    BY <1>11, <1>13 DEF SortedFrom
  <2>2. /\ Len(b) = l /\ q \in [1..l -> 1..l]
        /\ \A p \in 1..l : b[p] = a[q[p]]
        /\ \A n \in 1..l : \E p \in 1..l : q[p] = n
        /\ \A p, r \in 1..l : p < r =>
             /\ q[p] # q[r]
             /\ \/ a[q[p]].confidence > a[q[r]].confidence
                \/ a[q[p]].confidence = a[q[r]].confidence /\ q[p] < q[r]
    BY <1>13, <2>1 DEF SortedFrom
  <2>3. \A p \in 1..l : q[p] \in 1..l /\ a[q[p]].confidence = w[q[p]]
    BY <1>11, <2>2
  <2>4. ASSUME NEW p \in 1..l, NEW r \in 1..l, p < r
        PROVE  /\ q[p] # q[r]
               /\ (w[q[p]] > w[q[r]] \/ (w[q[p]] = w[q[r]] /\ q[p] < q[r]))
    <3>1. a[q[p]].confidence = w[q[p]] /\ a[q[r]].confidence = w[q[r]]
      BY <2>3
    <3>2. /\ q[p] # q[r]
          /\ \/ a[q[p]].confidence > a[q[r]].confidence
             \/ a[q[p]].confidence = a[q[r]].confidence /\ q[p] < q[r]
      BY <2>2, <2>4
    <3> QED
      BY <3>1, <3>2
  <2> QED
    BY <2>2, <2>4
<1>15. PICK r : r = [p \in 1..l |-> e[q[p]]]
  OBVIOUS
<1>16. ASSUME NEW p \in 1..l
       PROVE  /\ q[p] \in 1..l /\ r[p] = e[q[p]] /\ r[p] \in 1..f
              /\ b[p].hit = s[r[p]] /\ s[r[p]] = d[q[p]]
              /\ s[r[p]].id \notin lost /\ Enough(s[r[p]].certainty)
  <2>1. q[p] \in 1..l
    BY <1>14
  <2>2. r[p] = e[q[p]]
    BY <1>15
  <2>3. PICK n \in 1..l : n = q[p]
    BY <2>1
  <2>4. r[p] = e[n] /\ e[n] \in 1..f
    BY <1>4, <2>2, <2>3
  <2>5. b[p].hit = d[n]
    <3>1. b[p] = a[n]
      BY <1>14, <2>3
    <3> QED
      BY <1>11, <3>1
  <2>6. d[n] = s[e[n]] /\ s[e[n]].id \notin lost /\ Enough(s[e[n]].certainty)
    BY <1>4
  <2> QED
    BY <2>1, <2>2, <2>3, <2>4, <2>5, <2>6
<1>17. ASSUME NEW i \in 1..f, s[i].id \notin lost, Enough(s[i].certainty)
       PROVE  \E p \in 1..l : r[p] = i
  <2>1. PICK n \in 1..l : e[n] = i
    BY <1>4, <1>17
  <2>2. PICK p \in 1..l : q[p] = n
    BY <1>14
  <2> QED
    BY <1>16, <2>1, <2>2
<1>18. ASSUME NEW x \in 1..l, NEW y \in 1..l, x < y
       PROVE  /\ r[x] # r[y]
              /\ Connections[s[r[x]].file] = Connections[s[r[y]].file] =>
                    s[r[y]].certainty <= s[r[x]].certainty
  <2>1. PICK m \in 1..l, n \in 1..l : m = q[x] /\ n = q[y]
    BY <1>16
  <2>2. m # n /\ (w[m] > w[n] \/ (w[m] = w[n] /\ m < n))
    <3>1. \A p, t \in 1..l : p < t =>
             /\ q[p] # q[t]
             /\ \/ w[q[p]] > w[q[t]]
                \/ w[q[p]] = w[q[t]] /\ q[p] < q[t]
      BY <1>14
    <3>2. /\ q[x] # q[y]
          /\ \/ w[q[x]] > w[q[y]]
             \/ w[q[x]] = w[q[y]] /\ q[x] < q[y]
      BY <1>18, <3>1
    <3> QED
      BY <2>1, <3>2
  <2>3. r[x] = e[m] /\ r[y] = e[n] /\ s[r[x]] = d[m] /\ s[r[y]] = d[n]
    BY <1>16, <2>1
  <2>4. /\ e[m] \in 1..f /\ e[n] \in 1..f /\ (m < n => e[m] < e[n]) /\ (n < m => e[n] < e[m])
    BY <1>4
  <2>5. r[x] # r[y]
    <3>1. m < n \/ n < m
      BY <2>2
    <3> QED
      BY <2>3, <2>4, <3>1
  <2>6. ASSUME Connections[d[m].file] = Connections[d[n].file]
        PROVE  d[n].certainty <= d[m].certainty
    <3>1. PICK g, h : g = d[m].certainty /\ h = d[n].certainty
      OBVIOUS
    <3>2. g \in 0..10 /\ h \in 0..10
      BY <1>7, <3>1
    <3>3. PICK z \in Nat : z = CalculateCentrality(Connections[d[m].file])
      BY <1>7
    <3>4. w[m] = CalculateConfidence(g, z) /\ w[n] = CalculateConfidence(h, z) /\ w[m] \in Nat /\ w[n] \in Nat
      <4>1. CalculateCentrality(Connections[d[n].file]) = z
        BY <2>6, <3>3
      <4>2. /\ w[m] = CalculateConfidence(d[m].certainty, CalculateCentrality(Connections[d[m].file]))
            /\ w[m] \in Nat
        BY <1>7
      <4>3. /\ w[n] = CalculateConfidence(d[n].certainty, CalculateCentrality(Connections[d[n].file]))
            /\ w[n] \in Nat
        BY <1>7
      <4> QED
        BY <3>1, <3>3, <4>1, <4>2, <4>3
    <3>5. CASE w[m] > w[n]
      <4>1. g <= h => w[m] <= w[n]
        <5>1. \A i, v \in 0..10, t \in Nat :
                 i <= v => CalculateConfidence(i, t) <= CalculateConfidence(v, t)
          BY ConfidenceGrows
        <5>2. g <= h => CalculateConfidence(g, z) <= CalculateConfidence(h, z)
          BY <3>2, <5>1
        <5> QED
          BY <3>4, <5>2
      <4>2. ~(g <= h)
        <5>1. PICK i \in Nat, v \in Nat : i = w[m] /\ v = w[n]
          BY <3>4
        <5>2. ~(i <= v) /\ (g <= h => i <= v)
          BY <3>5, <4>1, <5>1
        <5> QED
          BY <5>2
      <4> QED
        BY <3>1, <3>2, <4>2, SMTT(30)
    <3>6. CASE m < n
      <4>1. e[m] < e[n] /\ e[m] \in 1..Len(s) /\ e[n] \in 1..Len(s)
        BY <1>5, <2>4, <3>6
      <4>2. s[e[m]].certainty >= s[e[n]].certainty
        BY <4>1
      <4> QED
        BY <1>4, <3>1, <3>2, <4>2
    <3> QED
      BY <2>2, <3>5, <3>6
  <2> QED
    BY <2>3, <2>5, <2>6
<1>19. r \in [1..l -> 1..f]
  BY <1>15, <1>16
<1>20. l \in Nat /\ b \in Seq(ResultRecords) /\ Len(b) = l
  BY <1>4, <1>13, <1>14
<1>21. \A p \in 1..l :
          b[p].hit = s[r[p]] /\ s[r[p]].id \notin lost /\ Enough(s[r[p]].certainty)
  BY <1>16
<1>22. \A i \in 1..f : s[i].id \notin lost /\ Enough(s[i].certainty) =>
          \E p \in 1..l : r[p] = i
  BY <1>17
<1>23. Chosen(b, s, f, lost, r, l)
  BY <1>18, <1>19, <1>20, <1>21, <1>22 DEF Chosen
<1> QED
  BY <1>23

\* The objects, whose ids are those of chunks.
ObjectsOK ==
    /\ IsFiniteSet(DOMAIN store) /\ DOMAIN store \subseteq ObjectIds
    /\ \A k \in DOMAIN store : store[k].chars \in Nat
    /\ \A x \in Indexers : job[x] # NoJob => job[x].body \in BodiesOf[x]

\* A step that adds no objects and changes at most the job of x.
LEMMA ObjectsKept ==
  ASSUME StoredInv, ObjectsOK,
         DOMAIN store' \subseteq DOMAIN store, \A k \in DOMAIN store' : store'[k] = store[k],
         NEW x \in Indexers, NEW j, j # NoJob => j.body \in BodiesOf[x],
         job' = [job EXCEPT ![x] = j]
  PROVE  ObjectsOK'
<1>1. job \in [Indexers -> Jobs \cup {NoJob}]
  BY DEF StoredInv, IndexTypeOK
<1>2. IsFiniteSet(DOMAIN store')
  BY FS_Subset DEF ObjectsOK
<1>3. \A y \in Indexers : job'[y] = IF y = x THEN j ELSE job[y]
  BY <1>1
<1>4. \A y \in Indexers : job'[y] # NoJob => job'[y].body \in BodiesOf[y]
  BY <1>3 DEF ObjectsOK
<1> QED
  BY <1>2, <1>4 DEF ObjectsOK

\* What is being done with a body that was found.
LEMMA ObjectsOfJobs ==
  ASSUME StoredInv, ObjectsOK, NEW x \in Indexers,
         \/ Begin(x) \/ EmbedOneBatch(x) \/ RateLimited(x) \/ FirstRunFails(x) \/ GiveUp(x)
         \/ InvalidateFile(x) \/ EndUpsert(x)
  PROVE  ObjectsOK'
<1>1. job \in [Indexers -> Jobs \cup {NoJob}] /\ NoJob \notin Jobs
  BY IndexConstants DEF StoredInv, IndexTypeOK
<1>2. DOMAIN store' \subseteq DOMAIN store /\ \A k \in DOMAIN store' : store'[k] = store[k]
  <2>1. CASE InvalidateFile(x)
    <3>1. PICK f : store' = WithoutFile(store, f)
      BY <2>1 DEF InvalidateFile
    <3> QED
      BY <3>1 DEF WithoutFile
  <2>2. CASE store' = store
    BY <2>2
  <2> QED
    BY <2>1, <2>2 DEF Begin, EmbedOneBatch, RateLimited, FirstRunFails, GiveUp, EndUpsert
<1>3. \E j : job' = [job EXCEPT ![x] = j] /\ (j # NoJob => j.body \in BodiesOf[x])
  <2>1. CASE Begin(x)
    <3>1. PICK f \in Files, b \in BodiesOf[x] :
            job' = [job EXCEPT ![x] =
                [phase |-> IF provider = "openai" THEN "api" ELSE "local",
                 file |-> f, body |-> b, chunks |-> ExtractChunks(b),
                 embedded |-> <<>>, attempt |-> 0, stored |-> 0]]
      BY <2>1 DEF Begin, Set
    <3>2. PICK j : j = [phase |-> IF provider = "openai" THEN "api" ELSE "local",
                 file |-> f, body |-> b, chunks |-> ExtractChunks(b),
                 embedded |-> <<>>, attempt |-> 0, stored |-> 0]
      OBVIOUS
    <3>3. j.body = b
      BY <3>2
    <3> QED
      BY <3>1, <3>2, <3>3
  <2>2. CASE GiveUp(x) \/ EndUpsert(x)
    BY <2>2 DEF GiveUp, EndUpsert, Set
  <2>3. CASE EmbedOneBatch(x) \/ RateLimited(x) \/ FirstRunFails(x) \/ InvalidateFile(x)
    <3>1. PICK j : j = job[x]
      OBVIOUS
    <3>2. j # NoJob
      BY <2>3, <3>1 DEF EmbedOneBatch, RateLimited, FirstRunFails, InvalidateFile, At, AtBatch
    <3>3. j \in Jobs /\ j.body \in BodiesOf[x]
      BY <1>1, <3>1, <3>2 DEF ObjectsOK
    <3>4. CASE EmbedOneBatch(x)
      <4>1. job' = [job EXCEPT ![x] = Appended(j)]
        BY <3>1, <3>4 DEF EmbedOneBatch, Set
      <4>2. Appended(j).body = j.body
        BY <3>3 DEF Appended, Jobs
      <4> QED
        BY <3>3, <4>1, <4>2
    <3>5. CASE RateLimited(x) \/ FirstRunFails(x)
      <4>1. PICK k : job' = [job EXCEPT ![x] = k]
                     /\ (k = [j EXCEPT !.attempt = @ + 1] \/ k = Restarted(j))
        BY <3>1, <3>5 DEF RateLimited, FirstRunFails, Set
      <4>2. k.body = j.body
        BY <3>3, <4>1 DEF Restarted, Jobs
      <4> QED
        BY <3>3, <4>1, <4>2
    <3>6. CASE InvalidateFile(x)
      <4>1. PICK k : job' = [job EXCEPT ![x] = k] /\ k = [j EXCEPT !.phase = "storing"]
        BY <3>1, <3>6 DEF InvalidateFile, Set
      <4>2. k.body = j.body
        BY <3>3, <4>1 DEF Jobs
      <4> QED
        BY <3>3, <4>1, <4>2
    <3> QED
      BY <2>3, <3>4, <3>5, <3>6
  <2> QED
    BY <2>1, <2>2, <2>3
<1> QED
  BY <1>2, <1>3, ObjectsKept

\* An object has the id of a chunk.
LEMMA ObjectsPut ==
  ASSUME StoredInv, ObjectsOK, NEW x \in Indexers, PutObject(x)
  PROVE  ObjectsOK'
<1>1. job \in [Indexers -> Jobs \cup {NoJob}]
  BY DEF StoredInv, IndexTypeOK
<1>2. PICK j, f, n, e :
        j = job[x] /\ f = j.file /\ n = j.stored /\ e = j.embedded[n + 1]
  OBVIOUS
<1>3. JobOK(j) /\ j.phase = "storing" /\ n < Len(j.embedded) /\ j # NoJob
  BY <1>2 DEF PutObject, At, StoredInv, JobsOK
<1>4. /\ j \in Jobs /\ f \in Files /\ n \in Nat /\ Len(j.embedded) \in Nat
      /\ Len(j.embedded) = Len(j.chunks) /\ j.chunks \in Seq(Pairs) /\ j.body \in Seq(Nat)
  BY <1>2, <1>3 DEF JobOK, Jobs, Pairs
<1>5. j.body \in BodiesOf[x] /\ Len(j.body) # 0
  <2>1. j.body \in BodiesOf[x]
    BY <1>2, <1>3 DEF ObjectsOK
  <2>2. j.body # <<>>
    BY <2>1, IndexConstants
  <2> QED
    BY <1>4, <2>1, <2>2
<1>6. PICK k : k = [j EXCEPT !.stored = @ + 1]
  OBVIOUS
<1>7. k.body = j.body /\ job' = [job EXCEPT ![x] = k]
  BY <1>2, <1>4, <1>6 DEF Jobs, PutObject, Set
<1>8. CASE store' = store
  BY <1>5, <1>7, <1>8, ObjectsKept
<1>9. CASE store' = With(store, ObjectId(f, e.chunk), Object(e, j.body))
  <2>1. PICK m \in Models : EmbeddedBy(j, m)
    BY <1>3 DEF JobOK
  <2>2. PICK i \in 1..Len(j.chunks) : i = n + 1
    BY <1>3, <1>4
  <2>3. e.chunk = j.chunks[i]
    <3>1. e = j.embedded[i] /\ i \in 1..Len(j.embedded)
      BY <1>2, <1>4, <2>2
    <3>2. j.embedded[i] = [chunk |-> j.chunks[i], model |-> m]
      BY <2>1, <3>1 DEF EmbeddedBy
    <3> QED
      BY <3>1, <3>2
  <2>4. PICK s \in Nat, t \in Nat : j.chunks[i] = <<s, t>>
    <3>1. j.chunks[i] \in Pairs
      BY <1>4, <2>2
    <3> QED
      BY <3>1 DEF Pairs
  <2>5. 1 <= s /\ t <= Len(j.body) /\ s <= t
    <3>1. ChunksOK(j.body, j.chunks)
      BY <1>3 DEF JobOK
    <3>2. 1 <= j.chunks[i][1] /\ j.chunks[i][2] <= Len(j.body)
          /\ j.chunks[i][1] <= j.chunks[i][2]
      BY <1>5, <2>2, <3>1 DEF ChunksOK
    <3> QED
      BY <2>4, <3>2
  <2>6. PICK id, ob : id = <<f, s>> /\ ob = Object(e, j.body) /\ store' = With(store, id, ob)
    BY <1>9, <2>3, <2>4 DEF ObjectId
  <2>7. id \in ObjectIds
    <3>1. j.body \in Bodies
      BY <1>5 DEF Bodies
    <3>2. s \in DOMAIN j.body
      <4>1. PICK l \in Nat : l = Len(j.body) /\ DOMAIN j.body = 1..l
        BY <1>4
      <4>2. s <= t /\ t <= l => s \in 1..l
        BY <2>5
      <4> QED
        BY <2>5, <4>1, <4>2
    <3>3. s \in UNION {DOMAIN b : b \in Bodies}
      BY <3>1, <3>2
    <3> QED
      BY <1>4, <2>6, <3>3 DEF ObjectIds
  <2>8. ob.chars \in Nat
    <3>1. ob.chars = CharsOf(j.body, s, t) + (t - s)
      BY <2>3, <2>4, <2>6 DEF Object, Content
    <3>2. s \in Nat \ {0} /\ t \in 0..Len(j.body)
      BY <1>4, <2>5
    <3>3. CharsOf(j.body, s, t) \in Nat
      BY <1>4, <3>2, CharsSum
    <3> QED
      BY <2>5, <3>1, <3>3
  <2>9. /\ DOMAIN store' = DOMAIN store \cup {id}
        /\ \A l \in DOMAIN store' : store'[l] = IF l = id THEN ob ELSE store[l]
    BY <2>6 DEF With
  <2>10. IsFiniteSet(DOMAIN store')
    BY <2>9, FS_AddElement DEF ObjectsOK
  <2>11. \A y \in Indexers : job'[y] = IF y = x THEN k ELSE job[y]
    BY <1>1, <1>7
  <2>12. \A y \in Indexers : job'[y] # NoJob => job'[y].body \in BodiesOf[y]
    BY <1>5, <1>7, <2>11 DEF ObjectsOK
  <2>13. \A l \in DOMAIN store' : l \in ObjectIds /\ store'[l].chars \in Nat
    BY <2>7, <2>8, <2>9 DEF ObjectsOK
  <2> QED
    BY <2>10, <2>12, <2>13 DEF ObjectsOK
<1> QED
  BY <1>2, <1>8, <1>9 DEF PutObject

LEMMA ObjectsStep ==
  ASSUME StoredInv, ObjectsOK, [IndexNext]_indexVars
  PROVE  ObjectsOK'
<1>1. CASE \E x \in Indexers : PutObject(x)
  BY <1>1, ObjectsPut
<1>2. CASE \E x \in Indexers :
        \/ Begin(x) \/ EmbedOneBatch(x) \/ RateLimited(x) \/ FirstRunFails(x) \/ GiveUp(x)
        \/ InvalidateFile(x) \/ EndUpsert(x)
  BY <1>2, ObjectsOfJobs
<1>3. CASE InvalidateRepository
  <2>1. DOMAIN store' = {} /\ job' = job
    BY <1>3 DEF InvalidateRepository
  <2> QED
    BY <2>1, FS_EmptySet DEF ObjectsOK
<1>4. CASE Search \/ Respond \/ UNCHANGED indexVars
  <2>1. UNCHANGED <<job, store>>
    BY <1>4 DEF Search, Respond, indexVars
  <2> QED
    BY <2>1 DEF ObjectsOK
<1> QED
  BY <1>1, <1>2, <1>3, <1>4 DEF IndexNext

\* s has the hits of all objects, n in number, the nearest first.
HitsOf(s, n) ==
    /\ n \in Nat /\ n = Cardinality(DOMAIN store)
    /\ s \in Seq(HitRecords) /\ Len(s) = n
    /\ \A i \in 1..n : s[i].id \in DOMAIN store /\ s[i] = Hit(s[i].id)
    /\ \A i, j \in 1..n : i # j => s[i].id # s[j].id
    /\ \A k \in DOMAIN store : \E i \in 1..n : s[i].id = k
    /\ \A i, j \in 1..n : i < j => s[i].certainty >= s[j].certainty

LEMMA NearestAre ==
  ASSUME ObjectsOK, NEW s \in Nearest
  PROVE  \E n : HitsOf(s, n)
<1>1. PICK D : D = DOMAIN store
  OBVIOUS
<1>2. IsFiniteSet(D) /\ D \subseteq ObjectIds /\ \A k \in D : store[k].chars \in Nat
  BY <1>1 DEF ObjectsOK
<1>3. PICK h : h = [k \in D |-> Hit(k)]
  OBVIOUS
<1>4. PICK H : H = {Hit(k) : k \in D}
  OBVIOUS
<1>5. ASSUME NEW k \in D
      PROVE  h[k] = Hit(k) /\ h[k] \in H /\ h[k].id = k /\ h[k] \in HitRecords
  <2>1. k \in Files \X Nat \/ k[1] \in Files
    BY <1>2 DEF ObjectIds
  <2>2. k[1] \in Files /\ Certainty(k) \in 0..10
    BY <1>2, <2>1, IndexAssumption DEF ObjectIds
  <2>3. h[k] = [id |-> k, file |-> k[1], chars |-> store[k].chars, certainty |-> Certainty(k)]
    BY <1>3 DEF Hit
  <2>4. k \in ObjectIds /\ store[k].chars \in Nat
    BY <1>2
  <2>5. h[k] \in HitRecords /\ h[k].id = k
    BY <2>2, <2>3, <2>4 DEF HitRecords
  <2> QED
    BY <1>3, <1>4, <2>5
<1>6. h \in [D -> H] /\ \A e \in H : \E k \in D : h[k] = e
  <2>1. h \in [D -> H]
    BY <1>3, <1>5
  <2>2. \A e \in H : \E k \in D : e = Hit(k)
    BY <1>4
  <2> QED
    BY <1>5, <2>1, <2>2
<1>7. h \in Surjection(D, H)
  BY <1>6 DEF Surjection
<1>8. h \in Injection(D, H)
  <2>1. \A k, l \in D : h[k] = h[l] => k = l
    BY <1>5
  <2> QED
    BY <1>6, <2>1 DEF Injection, IsInjective
<1>9. IsFiniteSet(H) /\ Cardinality(H) = Cardinality(D)
  BY <1>2, <1>7, <1>8, FS_Surjection
<1>10. PICK n \in Nat : n = Cardinality(H)
  BY <1>9, FS_CardinalityType
<1>11. /\ s \in [1..n -> H] /\ \A i, j \in 1..n : i # j => s[i] # s[j]
       /\ \A i, j \in 1..n : i < j => s[i].certainty >= s[j].certainty
  <2>1. s \in SetToSeqs(H) /\ \A i, j \in DOMAIN s : i < j => s[i].certainty >= s[j].certainty
    BY <1>1, <1>4 DEF Nearest
  <2>2. s \in [1..n -> H] /\ \A i, j \in 1..n : i # j => s[i] # s[j]
    BY <1>10, <2>1 DEF SetToSeqs
  <2> QED
    BY <2>1, <2>2
<1>12. s \in Surjection(1..n, H)
  <2>1. s \in Injection(1..n, H)
    BY <1>11 DEF Injection, IsInjective
  <2>2. Cardinality(1..n) = n
    BY FS_Interval
  <2> QED
    BY <1>9, <1>10, <2>1, <2>2, FS_Injection
<1>13. ASSUME NEW i \in 1..n
       PROVE  s[i] \in HitRecords /\ s[i].id \in D /\ s[i] = Hit(s[i].id)
  <2>1. s[i] \in H
    BY <1>11
  <2>2. PICK k \in D : s[i] = h[k]
    BY <1>6, <2>1
  <2> QED
    BY <1>5, <2>2
<1>14. s \in Seq(HitRecords) /\ Len(s) = n
  <2>1. s \in [1..n -> HitRecords]
    BY <1>11, <1>13
  <2> QED
    BY <2>1
<1>15. \A i, j \in 1..n : i # j => s[i].id # s[j].id
  BY <1>11, <1>13
<1>16. ASSUME NEW k \in D
       PROVE  \E i \in 1..n : s[i].id = k
  <2>1. h[k] \in H /\ h[k].id = k
    BY <1>5
  <2>2. PICK i \in 1..n : s[i] = h[k]
    BY <1>12, <2>1 DEF Surjection
  <2> QED
    BY <2>1, <2>2
<1>17. HitsOf(s, n)
  BY <1>1, <1>9, <1>10, <1>11, <1>13, <1>14, <1>15, <1>16 DEF HitsOf
<1> QED
  BY <1>17

\* A page of a sequence.
IsPage(t, k, skip, s) ==
    /\ t \in Seq(HitRecords) /\ Len(t) <= k
    /\ \A i \in 1..Len(t) : skip + i \in 1..Len(s) /\ t[i] = s[skip + i]
    /\ \A i \in 1..Len(s) : skip < i /\ i <= skip + k => i - skip \in 1..Len(t)

LEMMA SliceIs ==
  ASSUME NEW s \in Seq(HitRecords), NEW k \in Nat, NEW skip \in Nat,
         NEW t, t = Slice(k, skip, s)
  PROVE  IsPage(t, k, skip, s)
<1>1. PICK c \in Nat : c = Len(s)
  OBVIOUS
<1>2. PICK last \in Nat : last = IF skip + k < c THEN skip + k ELSE c
  <2>1. skip + k \in Nat
    OBVIOUS
  <2> QED
    BY <1>1, <2>1
<1>3. t = SubSeq(s, skip + 1, last)
  BY <1>1, <1>2 DEF Slice
<1>4. last <= c /\ last <= skip + k /\ (last = c \/ last = skip + k)
  BY <1>1, <1>2
<1>5. PICK f \in Nat : f = IF skip + 1 <= last THEN last - skip ELSE 0
  <2>1. skip + 1 <= last => last - skip \in Nat
    BY <1>2
  <2> QED
    BY <2>1
<1>6. t \in Seq(HitRecords) /\ Len(t) = f /\ \A i \in 1..f : t[i] = s[skip + i]
  <2>1. skip + 1 \in Int /\ last \in Int /\ \A i \in (skip + 1)..last : s[i] \in HitRecords
    <3>1. \A i \in 1..c : s[i] \in HitRecords
      BY <1>1
    <3>2. (skip + 1)..last \subseteq 1..c
      BY <1>1, <1>2, <1>4
    <3> QED
      BY <1>2, <3>1, <3>2
  <2>2. /\ t \in Seq(HitRecords)
        /\ Len(t) = IF skip + 1 <= last THEN last - (skip + 1) + 1 ELSE 0
        /\ \A i \in 1..(last - (skip + 1) + 1) : t[i] = s[(skip + 1) + i - 1]
    BY <1>3, <2>1, SubSeqProperties
  <2>3. Len(t) = f
    BY <1>2, <1>5, <2>2
  <2>4. \A i \in 1..f : i \in 1..(last - (skip + 1) + 1) /\ (skip + 1) + i - 1 = skip + i
    BY <1>2, <1>5
  <2> QED
    BY <2>2, <2>3, <2>4
<1>7. f <= k
  BY <1>2, <1>4, <1>5
<1>8. \A i \in 1..f : skip + i \in 1..c
  BY <1>1, <1>2, <1>4, <1>5
<1>9. \A i \in 1..c : skip < i /\ i <= skip + k => i - skip \in 1..f
  BY <1>1, <1>2, <1>4, <1>5
<1> QED
  BY <1>1, <1>6, <1>7, <1>8, <1>9 DEF IsPage

\* The place of a hit lies between the number of the nearer objects and that of the
\* objects at least as near.
LEMMA PlaceIs ==
  ASSUME ObjectsOK, NEW s, NEW c, HitsOf(s, c), NEW i \in 1..c
  PROVE  /\ Cardinality(Nearer(store, s[i].id)) \in Nat /\ Cardinality(Nearer(store, s[i].id)) < i
         /\ Cardinality(AsNear(store, s[i].id)) \in Nat /\ i <= Cardinality(AsNear(store, s[i].id))
<1>1. /\ c \in Nat
      /\ \A j \in 1..c : s[j].id \in DOMAIN store /\ s[j] = Hit(s[j].id)
      /\ \A j, k \in 1..c : j # k => s[j].id # s[k].id
      /\ \A x \in DOMAIN store : \E j \in 1..c : s[j].id = x
      /\ \A j, k \in 1..c : j < k => s[j].certainty >= s[k].certainty
  BY DEF HitsOf
<1>2. PICK x : x = s[i].id
  OBVIOUS
<1>3. ASSUME NEW j \in 1..c
      PROVE  s[j].certainty = Certainty(s[j].id) /\ s[j].certainty \in 0..10
  <2>1. PICK y : y = s[j].id
    OBVIOUS
  <2>2. y \in DOMAIN store /\ s[j] = Hit(y)
    BY <1>1, <2>1
  <2>3. s[j].certainty = Certainty(y)
    BY <2>2 DEF Hit
  <2>4. Certainty(y) \in 0..10
    BY <2>2, IndexAssumption DEF ObjectsOK
  <2> QED
    BY <2>1, <2>3, <2>4
<1>4. PICK N, A : N = Nearer(store, x) /\ A = AsNear(store, x)
  OBVIOUS
<1>5. /\ N = {y \in DOMAIN store : Certainty(y) > Certainty(x)}
      /\ A = {y \in DOMAIN store : Certainty(y) >= Certainty(x)}
  BY <1>4 DEF Nearer, AsNear
<1>6. IsFiniteSet(N) /\ IsFiniteSet(A)
  <2>1. N \in SUBSET DOMAIN store /\ A \in SUBSET DOMAIN store /\ IsFiniteSet(DOMAIN store)
    BY <1>5 DEF ObjectsOK
  <2> QED
    BY <2>1, FS_Subset
<1>7. Cardinality(N) \in Nat /\ Cardinality(A) \in Nat
  BY <1>6, FS_CardinalityType
<1>8. Cardinality(N) < i
  <2>1. PICK g : g = [y \in N |-> CHOOSE j \in 1..c : s[j].id = y]
    OBVIOUS
  <2>2. ASSUME NEW y \in N
        PROVE  g[y] \in 1..(i - 1) /\ s[g[y]].id = y
    <3>1. g[y] \in 1..c /\ s[g[y]].id = y
      <4>1. \E j \in 1..c : s[j].id = y
        BY <1>1, <1>5
      <4> QED
        BY <2>1, <4>1
    <3>2. PICK j \in 1..c : j = g[y]
      BY <3>1
    <3>3. s[j].certainty > s[i].certainty
      BY <1>2, <1>3, <1>5, <3>1, <3>2
    <3>4. s[j].certainty \in 0..10 /\ s[i].certainty \in 0..10
      BY <1>3
    <3>5. ~(i < j) /\ i # j
      BY <1>1, <3>3, <3>4
    <3>6. j \in 1..(i - 1)
      BY <1>1, <3>5
    <3> QED
      BY <3>1, <3>2, <3>6
  <2>3. g \in Injection(N, 1..(i - 1))
    <3>1. g \in [N -> 1..(i - 1)]
      BY <2>1, <2>2
    <3>2. \A y, w \in N : g[y] = g[w] => y = w
      BY <2>2
    <3> QED
      BY <3>1, <3>2 DEF Injection, IsInjective
  <2>4. IsFiniteSet(1..(i - 1)) /\ Cardinality(1..(i - 1)) = i - 1
    <3>1. i - 1 \in Nat
      BY <1>1
    <3>2. \A m \in Nat : IsFiniteSet(1..m) /\ Cardinality(1..m) = m
      BY FS_Interval
    <3> QED
      BY <3>1, <3>2
  <2>5. Cardinality(N) <= i - 1
    BY <2>3, <2>4, FS_Injection
  <2> QED
    BY <1>1, <1>7, <2>5
<1>9. i <= Cardinality(A)
  <2>1. PICK h : h = [j \in 1..i |-> s[j].id]
    OBVIOUS
  <2>2. ASSUME NEW j \in 1..i
        PROVE  j \in 1..c /\ h[j] = s[j].id /\ h[j] \in A
    <3>1. j \in 1..c /\ (j < i \/ j = i)
      BY <1>1
    <3>2. s[j].certainty \in 0..10 /\ s[i].certainty \in 0..10
      BY <1>3, <3>1
    <3>3. s[j].certainty >= s[i].certainty
      BY <1>1, <3>1, <3>2
    <3>4. Certainty(s[j].id) >= Certainty(x)
      BY <1>2, <1>3, <3>1, <3>3
    <3> QED
      BY <1>1, <1>5, <2>1, <3>1, <3>4
  <2>3. h \in Injection(1..i, A)
    <3>1. h \in [1..i -> A]
      BY <2>1, <2>2
    <3>2. \A j, k \in 1..i : h[j] = h[k] => j = k
      BY <1>1, <2>2
    <3> QED
      BY <3>1, <3>2 DEF Injection, IsInjective
  <2>4. Cardinality(1..i) = i
    <3>1. i \in Nat
      BY <1>1
    <3>2. \A m \in Nat : Cardinality(1..m) = m
      BY FS_Interval
    <3> QED
      BY <3>1, <3>2
  <2>5. Cardinality(1..i) <= Cardinality(A)
    BY <1>6, <2>3, FS_Injection
  <2> QED
    BY <2>4, <2>5
<1> QED
  BY <1>2, <1>4, <1>7, <1>8, <1>9

\* The answer that a search finds.
LEMMA AnswerFound ==
  ASSUME ObjectsOK, Search
  PROVE  AnswerSound'
<1>0. PICK k \in Limits, skip \in Offsets, s \in Nearest : \E lost :
        answer' = [k |-> k, skip |-> skip, lost |-> lost,
                   results |-> AssembleSearchResults(Certain(Slice(k, skip, s)),
                                                     Connections, lost)]
  BY DEF Search
<1>1. PICK lost :
        answer' = [k |-> k, skip |-> skip, lost |-> lost,
                   results |-> AssembleSearchResults(Certain(Slice(k, skip, s)),
                                                     Connections, lost)]
  BY <1>0
<1>2. k \in Nat /\ skip \in Nat
  BY <1>1, IndexAssumption
<1>3. PICK c : HitsOf(s, c)
  BY NearestAre
<1>4. /\ c \in Nat
      /\ s \in Seq(HitRecords) /\ Len(s) = c
      /\ \A i \in 1..c : s[i].id \in DOMAIN store /\ s[i] = Hit(s[i].id)
      /\ \A i, j \in 1..c : i # j => s[i].id # s[j].id
      /\ \A x \in DOMAIN store : \E i \in 1..c : s[i].id = x
      /\ \A i, j \in 1..c : i < j => s[i].certainty >= s[j].certainty
  BY <1>3 DEF HitsOf
<1>5. PICK t, f : t = Slice(k, skip, s) /\ f = Len(t)
  OBVIOUS
<1>6. /\ t \in Seq(HitRecords) /\ f \in Nat /\ f <= k
      /\ \A i \in 1..f : skip + i \in 1..c /\ t[i] = s[skip + i]
      /\ \A i \in 1..c : skip < i /\ i <= skip + k => i - skip \in 1..f
  <2>1. /\ t \in Seq(HitRecords) /\ Len(t) <= k
        /\ \A i \in 1..Len(t) : skip + i \in 1..Len(s) /\ t[i] = s[skip + i]
        /\ \A i \in 1..Len(s) : skip < i /\ i <= skip + k => i - skip \in 1..Len(t)
    <3>1. s \in Seq(HitRecords) /\ t = Slice(k, skip, s)
      BY <1>4, <1>5
    <3>2. IsPage(t, k, skip, s)
      BY <1>2, <3>1, SliceIs
    <3> QED
      BY ONLY <1>2, <3>1, <3>2 DEF IsPage
  <2>2. Len(s) = c /\ Len(t) = f
    BY <1>4, <1>5
  <2>3. f \in Nat
    BY <2>1, <2>2
  <2> QED
    BY <2>1, <2>2, <2>3
<1>7. PICK b : b = ByConfidence(Assembled(Certain(t), Connections, lost))
  OBVIOUS
<1>8. PICK r, l : Chosen(b, t, f, lost, r, l)
  <2>1. ASSUME NEW m \in 1..f, NEW n \in 1..f, m < n
        PROVE  t[m].certainty >= t[n].certainty
    <3>1. /\ skip + m \in 1..c /\ skip + n \in 1..c /\ skip + m < skip + n
          /\ t[m] = s[skip + m] /\ t[n] = s[skip + n]
      BY <1>2, <1>6, <2>1
    <3>2. s[skip + m].certainty >= s[skip + n].certainty
      BY <1>4, <3>1
    <3> QED
      BY <3>1, <3>2
  <2>2. \A m, n \in 1..Len(t) : m < n => t[m].certainty >= t[n].certainty
    BY <1>5, <2>1
  <2> QED
    BY <1>5, <1>6, <1>7, <2>2, ChosenAre
<1>9. /\ l \in Nat /\ b \in Seq(ResultRecords) /\ Len(b) = l /\ r \in [1..l -> 1..f]
      /\ \A p \in 1..l :
          b[p].hit = t[r[p]] /\ t[r[p]].id \notin lost /\ Enough(t[r[p]].certainty)
      /\ \A i \in 1..f : t[i].id \notin lost /\ Enough(t[i].certainty) =>
          \E p \in 1..l : r[p] = i
      /\ \A p, q \in 1..l : p < q =>
          /\ r[p] # r[q]
          /\ Connections[t[r[p]].file] = Connections[t[r[q]].file] =>
              t[r[q]].certainty <= t[r[p]].certainty
  BY <1>8 DEF Chosen
<1>10. PICK out : out = TrimToTokenBudget(b)
  OBVIOUS
<1>11. PICK n : TrimmedTo(out, b, n)
  <2>1. ASSUME NEW i \in 1..Len(b)
        PROVE  b[i].hit.chars \in Nat
    <3>1. b[i] \in ResultRecords
      BY <1>9
    <3> QED
      BY <3>1 DEF ResultRecords, HitRecords
  <2> QED
    BY <1>9, <1>10, <2>1, TrimKeepsBudget
<1>12. /\ n \in Nat /\ n <= l /\ Len(out) = n /\ DOMAIN out = 1..n
       /\ \A i \in 1..n : out[i] = b[i]
       /\ Size(out) <= MaxContext
       /\ n < l => Size(out) + b[n + 1].hit.chars > MaxContext
  BY <1>9, <1>11 DEF TrimmedTo
<1>13. answer' = [k |-> k, skip |-> skip, lost |-> lost, results |-> out]
  BY <1>1, <1>5, <1>7, <1>10 DEF AssembleSearchResults
<1>14. PICK z : z = [p \in 1..l |-> t[r[p]].id]
  OBVIOUS
<1>e. PICK end : end = skip + k
  OBVIOUS
<1>u. PICK usable : usable = {x \in DOMAIN store : Enough(Certainty(x)) /\ x \notin lost}
  OBVIOUS
<1>v. PICK mayBe : mayBe =
        {x \in usable : /\ Cardinality(Nearer(store, x)) < end
                        /\ skip < Cardinality(AsNear(store, x))}
  OBVIOUS
<1>w. PICK mustBe : mustBe =
        {x \in usable : /\ skip <= Cardinality(Nearer(store, x))
                        /\ Cardinality(AsNear(store, x)) <= end}
  OBVIOUS
<1>15. ASSUME NEW p \in 1..l
       PROVE  /\ z[p] \in DOMAIN store /\ z[p] \in mayBe
              /\ b[p].hit.id = z[p] /\ b[p].hit.file = z[p][1]
              /\ b[p].hit.certainty = Certainty(z[p]) /\ b[p].hit.chars = store[z[p]].chars
              /\ r[p] \in 1..f /\ t[r[p]].file = z[p][1] /\ t[r[p]].certainty = Certainty(z[p])
  <2>1. PICK i \in 1..f : i = r[p]
    BY <1>9
  <2>2. PICK j \in 1..c : j = skip + i /\ t[i] = s[j]
    BY <1>6
  <2>3. PICK id : id = s[j].id
    OBVIOUS
  <2>4. id \in DOMAIN store /\ s[j] = Hit(id) /\ z[p] = id
    BY <1>4, <1>14, <2>1, <2>2, <2>3
  <2>5. /\ t[i].id = id /\ t[i].file = id[1] /\ t[i].chars = store[id].chars
        /\ t[i].certainty = Certainty(id)
    BY <2>2, <2>4 DEF Hit
  <2>6. b[p].hit = t[i] /\ t[i].id \notin lost /\ Enough(t[i].certainty)
    BY <1>9, <2>1
  <2>7. id \in usable
    BY <1>u, <2>4, <2>5, <2>6
  <2>8. /\ Cardinality(Nearer(store, id)) \in Nat /\ Cardinality(Nearer(store, id)) < j
        /\ Cardinality(AsNear(store, id)) \in Nat /\ j <= Cardinality(AsNear(store, id))
    BY <1>3, <2>3, PlaceIs
  <2>9. skip < j /\ j <= end
    <3>1. i \in Nat /\ 1 <= i /\ i <= k
      BY <1>2, <1>6
    <3> QED
      BY <1>2, <1>e, <2>2, <3>1
  <2>10. Cardinality(Nearer(store, id)) < end /\ skip < Cardinality(AsNear(store, id))
    BY <1>2, <1>4, <1>e, <2>8, <2>9
  <2>11. id \in mayBe
    BY <1>v, <2>7, <2>10
  <2> QED
    BY <2>1, <2>4, <2>5, <2>6, <2>11
<1>16. \A p, q \in 1..l : p # q => r[p] # r[q] /\ z[p] # z[q]
  <2> SUFFICES ASSUME NEW p \in 1..l, NEW q \in 1..l, p # q
               PROVE  r[p] # r[q] /\ z[p] # z[q]
    OBVIOUS
  <2>1. r[p] # r[q]
    BY <1>9
  <2>2. PICK i \in 1..f, j \in 1..f : i = r[p] /\ j = r[q]
    BY <1>15
  <2>3. /\ skip + i \in 1..c /\ skip + j \in 1..c /\ skip + i # skip + j
        /\ t[i] = s[skip + i] /\ t[j] = s[skip + j]
    <3>1. skip + i # skip + j
      BY <1>2, <1>6, <2>1, <2>2
    <3> QED
      BY <1>6, <3>1
  <2>4. t[i].id # t[j].id
    BY <1>4, <2>3
  <2> QED
    BY <1>14, <2>1, <2>2, <2>4
<1>17. \A p, q \in 1..l : p < q /\ Connections[z[p][1]] = Connections[z[q][1]] =>
          Certainty(z[q]) <= Certainty(z[p])
  <2> SUFFICES ASSUME NEW p \in 1..l, NEW q \in 1..l, p < q,
                      Connections[z[p][1]] = Connections[z[q][1]]
               PROVE  Certainty(z[q]) <= Certainty(z[p])
    OBVIOUS
  <2>1. t[r[p]].file = z[p][1] /\ t[r[p]].certainty = Certainty(z[p])
    BY <1>15
  <2>2. t[r[q]].file = z[q][1] /\ t[r[q]].certainty = Certainty(z[q])
    BY <1>15
  <2>3. Connections[t[r[p]].file] = Connections[t[r[q]].file]
    BY <2>1, <2>2
  <2>4. t[r[q]].certainty <= t[r[p]].certainty
    BY <1>9, <2>3
  <2> QED
    BY <2>1, <2>2, <2>4
<1>18. l <= f
  <2>1. r \in Injection(1..l, 1..f)
    BY <1>9, <1>16 DEF Injection, IsInjective
  <2>2. IsFiniteSet(1..f) /\ Cardinality(1..f) = f /\ Cardinality(1..l) = l
    <3>1. f \in Nat /\ l \in Nat
      BY <1>6, <1>9
    <3>2. \A m \in Nat : IsFiniteSet(1..m) /\ Cardinality(1..m) = m
      BY FS_Interval
    <3> QED
      BY <3>1, <3>2
  <2>3. Cardinality(1..l) <= Cardinality(1..f)
    BY <2>1, <2>2, FS_Injection
  <2> QED
    BY <2>2, <2>3
<1>19. n <= k
  BY <1>2, <1>6, <1>9, <1>12, <1>18
<1>20. PICK ids : ids = {out[p].hit.id : p \in DOMAIN out}
  OBVIOUS
<1>21. ids = {z[p] : p \in 1..n} /\ \A p \in 1..n : p \in 1..l
  <2>1. \A p \in 1..n : p \in 1..l
    BY <1>9, <1>12
  <2>2. \A p \in 1..n : out[p].hit.id = z[p]
    BY <1>12, <1>15, <2>1
  <2> QED
    BY <1>12, <1>20, <2>1, <2>2
<1>22. ids \subseteq mayBe
  BY <1>15, <1>21
<1>23. Cardinality(ids) = n
  <2>1. PICK y : y = [p \in 1..n |-> z[p]]
    OBVIOUS
  <2>2. y \in Injection(1..n, ids) /\ y \in Surjection(1..n, ids)
    <3>1. y \in [1..n -> ids] /\ \A i \in ids : \E p \in 1..n : y[p] = i
      BY <1>21, <2>1
    <3>2. \A p, q \in 1..n : y[p] = y[q] => p = q
      BY <1>16, <1>21, <2>1
    <3> QED
      BY <3>1, <3>2 DEF Injection, IsInjective, Surjection
  <2>3. IsFiniteSet(1..n) /\ Cardinality(1..n) = n
    <3>1. \A m \in Nat : IsFiniteSet(1..m) /\ Cardinality(1..m) = m
      BY FS_Interval
    <3> QED
      BY <1>12, <3>1
  <2> QED
    BY <2>2, <2>3, FS_Surjection
<1>24. ASSUME NEW p \in 1..n, NEW q \in 1..n,
              Connections[out[p].hit.file] = Connections[out[q].hit.file],
              out[p].hit.certainty > out[q].hit.certainty
       PROVE  p < q
  <2>1. p \in 1..l /\ q \in 1..l
    BY <1>21
  <2>2. Connections[z[p][1]] = Connections[z[q][1]] /\ Certainty(z[p]) > Certainty(z[q])
    BY <1>12, <1>15, <1>24, <2>1
  <2>3. Certainty(z[p]) \in Nat /\ Certainty(z[q]) \in Nat
    <3>1. z[p] \in ObjectIds /\ z[q] \in ObjectIds
      BY <1>15, <2>1 DEF ObjectsOK
    <3>2. \A x \in ObjectIds : Certainty(x) \in 0..10
      BY IndexAssumption
    <3> QED
      BY <3>1, <3>2
  <2>4. ~(q < p) /\ p # q
    BY <1>17, <2>1, <2>2, <2>3
  <2> QED
    BY <1>12, <2>1, <2>4
<1>25. ASSUME NEW x \in mustBe \ ids
       PROVE  \E p \in 1..l : z[p] = x /\ n < p
  <2>1. /\ x \in DOMAIN store /\ x \notin lost /\ Enough(Certainty(x))
        /\ skip <= Cardinality(Nearer(store, x)) /\ Cardinality(AsNear(store, x)) <= end
    BY <1>u, <1>w
  <2>2. PICK i \in 1..c : s[i].id = x
    BY <1>4, <2>1
  <2>3. /\ Cardinality(Nearer(store, x)) \in Nat /\ Cardinality(Nearer(store, x)) < i
        /\ Cardinality(AsNear(store, x)) \in Nat /\ i <= Cardinality(AsNear(store, x))
    BY <1>3, <2>2, PlaceIs
  <2>4. skip < i /\ i <= skip + k
    BY <1>2, <1>4, <1>e, <2>1, <2>3
  <2>5. PICK j \in 1..f : j = i - skip
    BY <1>6, <2>4
  <2>6. t[j] = s[i]
    <3>1. skip + j = i
      BY <1>2, <1>4, <2>5
    <3> QED
      BY <1>6, <3>1
  <2>7. s[i] = Hit(x)
    BY <1>4, <2>2
  <2>8. t[j].id \notin lost /\ Enough(t[j].certainty)
    BY <2>1, <2>6, <2>7 DEF Hit
  <2>9. PICK p \in 1..l : r[p] = j
    BY <1>9, <2>8
  <2>10. z[p] = x
    BY <1>14, <2>2, <2>6, <2>9
  <2>11. p \notin 1..n
    BY <1>21, <2>10
  <2> QED
    BY <1>9, <1>12, <2>10, <2>11
<1>26. ASSUME NEW x \in mustBe \ ids, NEW q \in 1..n,
              Connections[x[1]] = Connections[out[q].hit.file]
       PROVE  Certainty(x) <= out[q].hit.certainty
  <2>1. PICK p \in 1..l : z[p] = x /\ n < p
    BY <1>25
  <2>2. q \in 1..l /\ q < p
    BY <1>9, <1>12, <1>21, <2>1
  <2>3. out[q].hit.file = z[q][1] /\ out[q].hit.certainty = Certainty(z[q])
    BY <1>12, <1>15, <2>2
  <2> QED
    BY <1>17, <1>26, <2>1, <2>2, <2>3
<1>27. ASSUME ~(mustBe \subseteq ids)
       PROVE  \E x \in mayBe \ ids : Size(out) + store[x].chars > MaxContext
  <2>1. PICK x \in mustBe \ ids : TRUE
    BY <1>27
  <2>2. PICK p \in 1..l : z[p] = x /\ n < p
    BY <1>25, <2>1
  <2>3. PICK q \in 1..l : q = n + 1
    BY <1>9, <1>12, <2>2
  <2>4. n < l /\ q \notin 1..n
    BY <1>9, <1>12, <2>2, <2>3
  <2>5. z[q] \in mayBe
    BY <1>15
  <2>6. z[q] \notin ids
    <3>1. \A m \in 1..n : m # q /\ m \in 1..l
      BY <1>21, <2>4
    <3> QED
      BY <1>16, <1>21, <3>1
  <2>7. Size(out) + b[q].hit.chars > MaxContext
    BY <1>12, <2>3, <2>4
  <2>8. b[q].hit.chars = store[z[q]].chars
    BY <1>15
  <2> QED
    BY <2>5, <2>6, <2>7, <2>8
<1>28. store' = store
  BY DEF Search
<1>29. PICK a : a = answer'
  OBVIOUS
<1>30. a.k = k /\ a.skip = skip /\ a.lost = lost /\ a.results = out
  BY <1>13, <1>29
<1>31. /\ ids \subseteq mayBe /\ Cardinality(ids) = Len(out) /\ Len(out) <= k
       /\ Size(out) <= MaxContext
       /\ \A m, q \in DOMAIN out :
           /\ Connections[out[m].hit.file] = Connections[out[q].hit.file]
           /\ out[m].hit.certainty > out[q].hit.certainty
           => m < q
       /\ \A x \in mustBe \ ids, q \in DOMAIN out :
           Connections[x[1]] = Connections[out[q].hit.file] =>
               Certainty(x) <= out[q].hit.certainty
       /\ mustBe \subseteq ids
          \/ \E x \in mayBe \ ids : Size(out) + store[x].chars > MaxContext
  <2>1. ids \subseteq mayBe /\ Cardinality(ids) = Len(out) /\ Len(out) <= k
    BY <1>12, <1>19, <1>22, <1>23
  <2>2. \A m, q \in DOMAIN out :
           /\ Connections[out[m].hit.file] = Connections[out[q].hit.file]
           /\ out[m].hit.certainty > out[q].hit.certainty
           => m < q
    BY <1>12, <1>24
  <2>3. \A x \in mustBe \ ids, q \in DOMAIN out :
           Connections[x[1]] = Connections[out[q].hit.file] =>
               Certainty(x) <= out[q].hit.certainty
    BY <1>12, <1>26
  <2> QED
    BY <1>12, <1>27, <2>1, <2>2, <2>3
<1>32. Sound(a, store)
  BY <1>20, <1>e, <1>u, <1>v, <1>w, <1>30, <1>31 DEF Sound
<1> QED
  BY <1>28, <1>29, <1>32 DEF AnswerSound

\* While an answer is on its way, nothing changes.
LEMMA AnswerStep ==
  ASSUME StoredInv, ObjectsOK, AnswerSound, [IndexNext]_indexVars
  PROVE  AnswerSound'
<1>1. CASE Search
  BY <1>1, AnswerFound
<1>2. CASE answer' = NoAnswer
  BY <1>2 DEF AnswerSound
<1>3. CASE UNCHANGED indexVars
  BY <1>3 DEF AnswerSound, indexVars
<1>4. CASE \E x \in Indexers :
        \/ Begin(x) \/ EmbedOneBatch(x) \/ RateLimited(x) \/ FirstRunFails(x) \/ GiveUp(x)
        \/ InvalidateFile(x) \/ PutObject(x) \/ EndUpsert(x)
  <2>1. answer = NoAnswer /\ answer' = answer
    BY <1>4 DEF Begin, EmbedOneBatch, RateLimited, FirstRunFails, GiveUp,
                InvalidateFile, PutObject, EndUpsert, At, AtBatch
  <2> QED
    BY <1>2, <2>1
<1>5. CASE InvalidateRepository \/ Respond
  BY <1>2, <1>5 DEF InvalidateRepository, Respond
<1> QED
  BY <1>1, <1>3, <1>4, <1>5 DEF IndexNext

\* An answer holds objects of the page that was asked for, none for which a query
\* failed, and leaves out what must be on it only for the budget and for nothing
\* less certain, whatever was indexed before the search.
THEOREM AnswersAreSound == IndexSpec => []AnswerSound
<1>1. IndexInit => StoredInv /\ ObjectsOK /\ AnswerSound
  <2>1. IndexInit => DOMAIN store = {} /\ answer = NoAnswer /\ \A x \in Indexers : job[x] = NoJob
    BY DEF IndexInit
  <2> QED
    BY <2>1, StoredInit, FS_EmptySet DEF ObjectsOK, AnswerSound
<1>2. /\ StoredInv /\ ObjectsOK /\ AnswerSound /\ [IndexNext]_indexVars
      => (StoredInv /\ ObjectsOK /\ AnswerSound)'
  BY StoredStep, ObjectsStep, AnswerStep
<1> QED
  BY <1>1, <1>2, PTL DEF IndexSpec

==============================================================================
