---------------------------- MODULE ToolProofs -----------------------------
(****************************************************************************)
(* Theorems about the agents' side, for any number of calls, sessions,      *)
(* agents and threads: about ToolCalls, FileCache, AgentState and           *)
(* CircuitBreaker.                                                          *)
(****************************************************************************)
EXTENDS ToolCalls, FileCache, AgentState, CircuitBreaker, TLAPS, FiniteSetTheorems

------------------------------------------------------------------------------
(* ToolCalls                                                                *)

Owners == Calls \cup Blocks
Clients == Owners \X (0 .. MaxAttempts)
Pools == Blocks \X {0}
CallResults == Outcomes \cup {"none", "RetryError"}
               \cup {OutcomesOf[a][t][r] : a \in Apis, t \in Tools, r \in Responses}
CallRecord ==
    [at : {"idle", "take", "send", "finally", "done"}, api : Apis, tool : Tools,
     attempt : 0 .. MaxAttempts, client : Clients \cup {NoClient}, result : CallResults]

ToolTypeOK ==
    /\ pool \in Pools \cup {NoClient} /\ open \subseteq Clients
    /\ call \in [Calls -> CallRecord]
    /\ block \in [Blocks -> {"before", "inside", "closing", "after"}]
    /\ shared \in BOOLEAN
    /\ \A c \in InCall : call[c].attempt >= 1
    /\ \A c \in Calls : call[c].at = "take" => call[c].client = NoClient
    /\ \A c \in Calls : call[c].client \in {NoClient} \cup Pools \cup ({c} \X (1 .. MaxAttempts))

Entered == {b \in Blocks : block[b] \in {"inside", "closing"}}

\* One block at a time: the pool is its own until it forgets it, and is closed by then.
PoolOwned ==
    /\ \A a, b \in Entered : a = b
    /\ Entered = {} => pool = NoClient
    /\ \A b \in Entered : pool = <<b, 0>>
    /\ \A b \in Blocks : block[b] = "closing" => pool \notin open

\* A method that took a client of its own closes it, unless there is a pool by then;
\* and there is none.
OwnIsClosed ==
    \A c \in InCall : call[c].api = "client" /\ call[c].client # NoClient =>
        pool = NoClient \/ call[c].client = pool \/ call[c].client \notin open

ToolInv == ToolTypeOK /\ NoClientLeaks /\ (~shared => PoolOwned /\ OwnIsClosed)

LEMMA ApisAre == Apis = {"client", "tool"} /\ "search" \in Tools
  BY DEF Apis, Tools, OutcomesOf

LEMMA NoClientIsNone ==
  NoClient \notin Clients /\ Pools \subseteq Clients /\ MaxAttempts \in Nat /\ 0 \in 0 .. MaxAttempts
  BY ToolAssumption DEF Clients, Owners, Pools

LEMMA ResultsAre == "none" \in CallResults /\ "RetryError" \in CallResults /\ "bug" \in CallResults
  <1>1. "bug" \in Outcomes
    BY DEF Outcomes
  <1> QED BY <1>1 DEF CallResults

LEMMA IdleIsCall == Idle \in CallRecord /\ Idle.at = "idle" /\ Idle.client = NoClient
  BY ApisAre, NoClientIsNone DEF Idle, CallRecord, CallResults

LEMMA InitTools == ToolInit => ToolInv
  <1> SUFFICES ASSUME ToolInit PROVE ToolInv
    OBVIOUS
  <1>1. InCall = {} /\ Entered = {}
    BY IdleIsCall DEF ToolInit, InCall, Entered
  <1>2. ToolTypeOK
    <2>1. \A c \in Calls : call[c] = Idle
      BY DEF ToolInit
    <2>2. /\ pool = NoClient /\ open = {} /\ call \in [Calls -> CallRecord] /\ shared = FALSE
          /\ block \in [Blocks -> {"before", "inside", "closing", "after"}]
      BY IdleIsCall DEF ToolInit
    <2> QED BY <1>1, <2>1, <2>2, IdleIsCall DEF ToolTypeOK
  <1>3. NoClientLeaks /\ PoolOwned /\ OwnIsClosed
    BY <1>1 DEF ToolInit, NoClientLeaks, PoolOwned, OwnIsClosed
  <1> QED BY <1>2, <1>3 DEF ToolInv

\* The effect of a step on one call, and on all others.
LEMMA OneCall ==
  ASSUME ToolInv, NEW c \in Calls, NEW new \in CallRecord, call' = [call EXCEPT ![c] = new],
         new.at \in {"take", "send", "finally"} => new.attempt >= 1
  PROVE  /\ call' \in [Calls -> CallRecord] /\ call'[c] = new
         /\ \A d \in Calls \ {c} : call'[d] = call[d] /\ (d \in InCall' <=> d \in InCall)
         /\ c \in InCall' <=> new.at \in {"take", "send", "finally"}
         /\ \A d \in InCall' : call'[d].attempt >= 1
  BY DEF ToolInv, ToolTypeOK, InCall

LEMMA ToolStep == ToolInv /\ [ToolNext]_toolVars => ToolInv'
  <1> SUFFICES ASSUME ToolInv, [ToolNext]_toolVars PROVE ToolInv'
    OBVIOUS
  <1>i. ToolTypeOK /\ NoClientLeaks /\ (~shared => PoolOwned /\ OwnIsClosed)
    BY DEF ToolInv
  <1>c. \A c \in Calls : call[c] \in CallRecord
    BY <1>i DEF ToolTypeOK
  <1>k. InCall \subseteq Calls /\ \A c \in Calls : c \in InCall <=> call[c].at \in {"take", "send", "finally"}
    BY DEF InCall
  <1>o. ASSUME NEW b \in Blocks PROVE <<b, 0>> \in Pools /\ <<b, 0>> \in Clients
    BY NoClientIsNone DEF Pools
  <1>1. ASSUME NEW b \in Blocks, Enter(b)
        PROVE  ToolInv'
    <2>1. /\ block[b] = "before" /\ pool' = <<b, 0>> /\ open' = open \cup {<<b, 0>>} /\ call' = call
          /\ block' = [block EXCEPT ![b] = "inside"]
          /\ shared' <=> (shared \/ InCall # {} \/ Entered # {})
      BY <1>1 DEF Enter, Entered
    <2>2. /\ block' \in [Blocks -> {"before", "inside", "closing", "after"}]
          /\ block'[b] = "inside" /\ \A a \in Blocks \ {b} : block'[a] = block[a]
      BY <1>i, <2>1 DEF ToolTypeOK
    <2>3. InCall' = InCall
      BY <2>1 DEF InCall
    <2>4. shared' \in BOOLEAN
      BY <1>1 DEF Enter
    <2>5. ToolTypeOK'
      BY <1>i, <1>o, <2>1, <2>2, <2>3, <2>4 DEF ToolTypeOK
    <2>6. ASSUME ~shared'
          PROVE  NoClientLeaks' /\ PoolOwned' /\ OwnIsClosed'
      <3>1. ~shared /\ InCall = {} /\ Entered = {}
        BY <2>1, <2>6
      <3>2. pool = NoClient /\ open \subseteq {NoClient}
        BY <1>i, <3>1 DEF PoolOwned, NoClientLeaks
      <3>3. open = {}
        BY <1>i, <3>2, NoClientIsNone DEF ToolTypeOK
      <3>4. Entered' = {b}
        BY <2>2, <3>1 DEF Entered
      <3>5. NoClientLeaks' /\ OwnIsClosed'
        BY <2>1, <2>3, <3>1, <3>3 DEF NoClientLeaks, OwnIsClosed
      <3>6. \A a \in Blocks : block'[a] # "closing"
        BY <2>2, <3>1 DEF Entered
      <3> QED BY <2>1, <3>4, <3>5, <3>6 DEF PoolOwned
    <2> QED BY <2>5, <2>6 DEF ToolInv, NoClientLeaks
  <1>2. ASSUME NEW b \in Blocks, ExitClose(b)
        PROVE  ToolInv'
    <2>1. /\ block[b] = "inside" /\ open' = open \ {pool} /\ UNCHANGED <<pool, call, shared>>
          /\ block' = [block EXCEPT ![b] = IF pool = NoClient THEN "after" ELSE "closing"]
      BY <1>2 DEF ExitClose
    <2>2. PICK left \in {"after", "closing"} : left = IF pool = NoClient THEN "after" ELSE "closing"
      OBVIOUS
    <2>3. /\ block' \in [Blocks -> {"before", "inside", "closing", "after"}]
          /\ block'[b] = left /\ \A a \in Blocks \ {b} : block'[a] = block[a]
      BY <1>i, <2>1, <2>2 DEF ToolTypeOK
    <2>4. InCall' = InCall
      BY <2>1 DEF InCall
    <2>5. ToolTypeOK'
      BY <1>i, <2>1, <2>3, <2>4 DEF ToolTypeOK
    <2>6. NoClientLeaks'
      BY <1>i, <2>1, <2>4 DEF NoClientLeaks
    <2>7. ASSUME ~shared
          PROVE  PoolOwned' /\ OwnIsClosed'
      <3>1. b \in Entered /\ pool = <<b, 0>>
        BY <1>i, <2>1, <2>7 DEF Entered, PoolOwned
      <3>2. left = "closing"
        BY <1>o, <2>2, <3>1, NoClientIsNone
      <3>3. Entered' = Entered
        BY <2>1, <2>3, <3>2 DEF Entered
      <3>4. PoolOwned'
        BY <1>i, <2>1, <2>3, <2>7, <3>1, <3>3 DEF PoolOwned
      <3>5. OwnIsClosed'
        BY <1>i, <2>1, <2>4, <2>7 DEF OwnIsClosed
      <3> QED BY <3>4, <3>5
    <2> QED BY <2>1, <2>5, <2>6, <2>7 DEF ToolInv
  <1>3. ASSUME NEW b \in Blocks, ExitForget(b)
        PROVE  ToolInv'
    <2>1. /\ block[b] = "closing" /\ pool' = NoClient /\ UNCHANGED <<open, call, shared>>
          /\ block' = [block EXCEPT ![b] = "after"]
      BY <1>3 DEF ExitForget
    <2>2. /\ block' \in [Blocks -> {"before", "inside", "closing", "after"}]
          /\ block'[b] = "after" /\ \A a \in Blocks \ {b} : block'[a] = block[a]
      BY <1>i, <2>1 DEF ToolTypeOK
    <2>3. InCall' = InCall
      BY <2>1 DEF InCall
    <2>4. ToolTypeOK'
      BY <1>i, <2>1, <2>2, <2>3 DEF ToolTypeOK
    <2>5. ASSUME ~shared
          PROVE  NoClientLeaks' /\ PoolOwned' /\ OwnIsClosed'
      <3>1. pool \notin open /\ b \in Entered /\ \A a \in Entered : a = b
        BY <1>i, <2>1, <2>5 DEF Entered, PoolOwned
      <3>2. NoClientLeaks'
        BY <1>i, <2>1, <2>3, <3>1 DEF NoClientLeaks
      <3>3. Entered' = {} /\ \A a \in Blocks : block'[a] # "closing"
        BY <2>2, <3>1 DEF Entered
      <3>4. PoolOwned'
        BY <2>1, <3>3 DEF PoolOwned
      <3>5. OwnIsClosed'
        BY <2>1 DEF OwnIsClosed
      <3> QED BY <3>2, <3>4, <3>5
    <2> QED BY <2>1, <2>4, <2>5 DEF ToolInv, NoClientLeaks
  \* a step of a call leaves the blocks and the pool alone
  <1>p. ASSUME UNCHANGED <<pool, block>>, \A b \in Blocks : <<b, 0>> \in open' => <<b, 0>> \in open, PoolOwned
        PROVE  PoolOwned'
    <2>1. Entered' = Entered
      BY <1>p DEF Entered
    <2>2. \A b \in Blocks : block[b] = "closing" => b \in Entered
      BY DEF Entered
    <2> QED BY <1>p, <2>1, <2>2 DEF PoolOwned
  <1>4. ASSUME NEW c \in Calls, Begin(c)
        PROVE  ToolInv'
    <2>1. PICK a \in Asked : call' = [call EXCEPT ![c] = [Idle EXCEPT !.at = "take", !.attempt = 1,
                                                                 !.api = a[1], !.tool = a[2]]]
      BY <1>4 DEF Begin
    <2>2. a[1] \in Apis /\ a[2] \in Tools /\ 1 \in 0 .. MaxAttempts
      BY ToolAssumption
    <2>3. PICK new \in CallRecord : new = [Idle EXCEPT !.at = "take", !.attempt = 1, !.api = a[1], !.tool = a[2]]
      BY <2>2, IdleIsCall DEF CallRecord
    <2>4. new.at = "take" /\ new.attempt = 1 /\ new.client = NoClient
      BY <2>3 DEF Idle
    <2>5. call[c].at = "idle" /\ UNCHANGED <<pool, open, block, shared>> /\ call' = [call EXCEPT ![c] = new]
      BY <1>4, <2>1, <2>3 DEF Begin
    <2>6. /\ call' \in [Calls -> CallRecord] /\ call'[c] = new
          /\ \A d \in Calls \ {c} : call'[d] = call[d] /\ (d \in InCall' <=> d \in InCall)
          /\ c \in InCall' /\ \A d \in InCall' : call'[d].attempt >= 1
      <3>1. new \in CallRecord /\ call' = [call EXCEPT ![c] = new] /\ (new.at \in {"take", "send", "finally"} => new.attempt >= 1)
        BY <2>3, <2>4, <2>5
      <3>2. /\ call' \in [Calls -> CallRecord] /\ call'[c] = new
            /\ \A d \in Calls \ {c} : call'[d] = call[d] /\ (d \in InCall' <=> d \in InCall)
            /\ c \in InCall' <=> new.at \in {"take", "send", "finally"}
            /\ \A d \in InCall' : call'[d].attempt >= 1
        BY <3>1, OneCall
      <3>3. c \in InCall'
        BY <2>4, <3>2
      <3> QED BY <3>2, <3>3
    <2>7. ToolTypeOK'
      BY <1>i, <2>4, <2>5, <2>6 DEF ToolTypeOK
    <2>8. c \notin InCall /\ InCall' \subseteq Calls
      BY <2>5 DEF InCall
    <2>9. NoClientLeaks'
      BY <1>i, <1>k, <2>5, <2>6, <2>8 DEF NoClientLeaks
    <2>10. ~shared => OwnIsClosed'
      BY <1>i, <2>4, <2>5, <2>6, <2>8 DEF OwnIsClosed
    <2> QED BY <1>i, <1>p, <2>5, <2>7, <2>9, <2>10 DEF ToolInv
  <1>5. ASSUME NEW c \in Calls, Take(c)
        PROVE  ToolInv'
    <2>1. PICK mine : mine = IF call[c].api = "client" /\ pool # NoClient THEN pool ELSE Own(c)
      OBVIOUS
    <2>2. /\ call[c].at = "take" /\ call' = [call EXCEPT ![c].at = "send", ![c].client = mine]
          /\ open' = IF mine = Own(c) THEN open \cup {mine} ELSE open
          /\ UNCHANGED <<pool, block, shared>>
      BY <1>5, <2>1 DEF Take
    <2>3. c \in InCall /\ call[c].attempt \in 1 .. MaxAttempts
      BY <1>c, <1>i, <1>k, <2>2, NoClientIsNone DEF ToolTypeOK, CallRecord
    <2>4. Own(c) \in Clients /\ \A b \in Blocks : Own(c) # <<b, 0>>
      BY <2>3, NoClientIsNone DEF Own, Clients, Owners
    <2>5. mine \in Clients /\ mine \in Pools \cup ({c} \X (1 .. MaxAttempts))
      BY <1>i, <2>1, <2>3, <2>4, NoClientIsNone DEF ToolTypeOK, Own
    <2>6. PICK new \in CallRecord : new = [call[c] EXCEPT !.at = "send", !.client = mine]
      BY <1>c, <2>5 DEF CallRecord
    <2>7. new.at = "send" /\ new.client = mine /\ new.attempt = call[c].attempt /\ new.api = call[c].api
      BY <1>c, <2>6 DEF CallRecord
    <2>8. call' = [call EXCEPT ![c] = new]
      BY <2>2, <2>6
    <2>9. /\ call' \in [Calls -> CallRecord] /\ call'[c] = new
          /\ \A d \in Calls \ {c} : call'[d] = call[d] /\ (d \in InCall' <=> d \in InCall)
          /\ c \in InCall' /\ \A d \in InCall' : call'[d].attempt >= 1
      <3>1. new.at \in {"take", "send", "finally"} => new.attempt >= 1
        BY <2>3, <2>7
      <3>2. /\ call' \in [Calls -> CallRecord] /\ call'[c] = new
            /\ \A d \in Calls \ {c} : call'[d] = call[d] /\ (d \in InCall' <=> d \in InCall)
            /\ c \in InCall' <=> new.at \in {"take", "send", "finally"}
            /\ \A d \in InCall' : call'[d].attempt >= 1
        BY <2>6, <2>8, <3>1, OneCall
      <3>3. c \in InCall'
        BY <2>7, <3>2
      <3> QED BY <3>2, <3>3
    <2>10. open' \subseteq open \cup {mine} /\ open' \subseteq Clients /\ open' \subseteq open \cup {Own(c)}
      BY <1>i, <2>2, <2>5 DEF ToolTypeOK
    <2>11. ToolTypeOK'
      BY <1>i, <2>2, <2>5, <2>7, <2>9, <2>10 DEF ToolTypeOK
    <2>12. InCall' \subseteq Calls
      BY DEF InCall
    <2>13. ASSUME ~shared
           PROVE  NoClientLeaks' /\ PoolOwned' /\ OwnIsClosed'
      <3>1. PoolOwned /\ OwnIsClosed
        BY <1>i, <2>13
      <3>2. PoolOwned'
        BY <1>p, <2>2, <2>4, <2>10, <3>1
      <3>3. call[c].client = NoClient /\ open \subseteq Clients
        BY <1>i, <2>2 DEF ToolTypeOK
      <3>4. \A d \in InCall \ {c} : d \in InCall' /\ call'[d].client = call[d].client
        BY <1>k, <2>9
      <3>5. ASSUME NEW x \in open'
            PROVE  x \in {pool'} \cup {call'[d].client : d \in InCall'}
        <4>1. CASE x = mine
          BY <2>7, <2>9, <4>1
        <4>2. CASE x \in open /\ x # mine
          <5>1. x = pool \/ \E d \in InCall : x = call[d].client
            BY <1>i, <2>13, <4>2 DEF NoClientLeaks
          <5>2. x # call[c].client
            BY <3>3, <4>2, NoClientIsNone
          <5> QED BY <2>2, <3>4, <5>1, <5>2
        <4> QED BY <2>10, <3>5, <4>1, <4>2
      <3>6. OwnIsClosed'
        <4> SUFFICES ASSUME NEW d \in InCall', call'[d].api = "client", call'[d].client # NoClient
                     PROVE  pool' = NoClient \/ call'[d].client = pool' \/ call'[d].client \notin open'
          BY DEF OwnIsClosed
        <4>1. CASE d = c
          BY <2>1, <2>2, <2>7, <2>9, <4>1
        <4>2. CASE d # c /\ call[d].client # mine
          BY <2>2, <2>9, <2>10, <2>12, <3>1, <4>2 DEF OwnIsClosed
        <4>3. CASE d # c /\ call[d].client = mine
          <5>1. call'[d].client = mine
            BY <2>9, <2>12, <4>3
          <5>2. mine = pool \/ mine = Own(c)
            BY <2>1
          <5>3. CASE mine = pool
            BY <2>2, <5>1, <5>3
          <5>4. CASE mine = Own(c)
            <6>1. call[d].client \in {NoClient} \cup Pools \cup ({d} \X (1 .. MaxAttempts))
              BY <1>i, <2>12 DEF ToolTypeOK
            <6>2. Own(c) \notin Pools /\ Own(c) # NoClient /\ Own(c) \notin {d} \X (1 .. MaxAttempts)
              BY <2>4, <4>3, NoClientIsNone DEF Pools, Own
            <6> QED BY <4>3, <5>4, <6>1, <6>2
          <5> QED BY <5>2, <5>3, <5>4
        <4> QED BY <4>1, <4>2, <4>3
      <3> QED BY <3>2, <3>5, <3>6 DEF NoClientLeaks
    <2> QED BY <2>2, <2>11, <2>13 DEF ToolInv, NoClientLeaks
  \* An answer ends an attempt; the client stays what it was.
  <1>s. ASSUME NEW c \in Calls, NEW r \in CallResults, call[c].at = "send",
               call' = [call EXCEPT ![c].at = "finally", ![c].result = r],
               UNCHANGED <<pool, open, block, shared>>
        PROVE  ToolInv'
    <2>1. PICK new \in CallRecord : new = [call[c] EXCEPT !.at = "finally", !.result = r]
      BY <1>c DEF CallRecord
    <2>2. /\ new.at = "finally" /\ new.client = call[c].client /\ new.api = call[c].api
          /\ new.attempt = call[c].attempt
      BY <1>c, <2>1 DEF CallRecord
    <2>3. c \in InCall /\ call[c].attempt >= 1
      BY <1>i, <1>k, <1>s DEF ToolTypeOK
    <2>4. call' = [call EXCEPT ![c] = new] /\ (new.at \in {"take", "send", "finally"} => new.attempt >= 1)
      BY <1>s, <2>1, <2>2, <2>3
    <2>5. /\ call' \in [Calls -> CallRecord] /\ call'[c] = new
          /\ \A d \in Calls \ {c} : call'[d] = call[d] /\ (d \in InCall' <=> d \in InCall)
          /\ c \in InCall' <=> new.at \in {"take", "send", "finally"}
          /\ \A d \in InCall' : call'[d].attempt >= 1
      BY <2>1, <2>4, OneCall
    <2>6. InCall' \subseteq Calls
      BY DEF InCall
    <2>7. InCall' = InCall
      BY <1>k, <2>2, <2>3, <2>5, <2>6
    <2>8. \A d \in InCall : call'[d].client = call[d].client /\ call'[d].api = call[d].api
      BY <1>k, <2>2, <2>5
    <2>9. ToolTypeOK'
      BY <1>i, <1>s, <2>2, <2>5 DEF ToolTypeOK
    <2>10. NoClientLeaks'
      <3> SUFFICES ASSUME ~shared, NEW x \in open PROVE x = pool \/ \E d \in InCall : x = call'[d].client
        BY <1>s, <2>7 DEF NoClientLeaks
      <3>1. x = pool \/ \E d \in InCall : x = call[d].client
        BY <1>i DEF NoClientLeaks
      <3> QED BY <2>8, <3>1
    <2>11. ~shared => OwnIsClosed'
      <3> SUFFICES ASSUME ~shared, NEW d \in InCall, call'[d].api = "client", call'[d].client # NoClient
                   PROVE  pool = NoClient \/ call'[d].client = pool \/ call'[d].client \notin open
        BY <1>s, <2>7 DEF OwnIsClosed
      <3> QED BY <1>i, <2>8 DEF OwnIsClosed
    <2> QED BY <1>i, <1>p, <1>s, <2>9, <2>10, <2>11 DEF ToolInv
  <1>r. \A c \in Calls, r \in Responses : Outcome(c, r) \in CallResults
    BY <1>c DEF Outcome, CallResults, CallRecord
  <1>6. ASSUME NEW c \in Calls, Send(c)
        PROVE  ToolInv'
    <2>1. PICK r \in Heard : call' = [call EXCEPT ![c].at = "finally", ![c].result = Outcome(c, r)]
      BY <1>6 DEF Send
    <2>2. PICK o \in CallResults : o = Outcome(c, r)
      BY <1>r, ToolAssumption
    <2>3. call[c].at = "send" /\ UNCHANGED <<pool, open, block, shared>>
      BY <1>6 DEF Send
    <2> QED BY <1>s, <2>1, <2>2, <2>3
  <1>7. ASSUME NEW c \in Calls, SendClosed(c)
        PROVE  ToolInv'
    <2>1. call[c].at = "send" /\ UNCHANGED <<pool, open, block, shared>>
      BY <1>7 DEF SendClosed
    <2>2. PICK o \in CallResults : call' = [call EXCEPT ![c].at = "finally", ![c].result = o]
      <3>1. "bug" \in CallResults /\ Outcome(c, "unreachable") \in CallResults
        BY <1>r, ResultsAre DEF Responses
      <3> QED BY <1>7, <3>1 DEF SendClosed
    <2> QED BY <1>s, <2>1, <2>2
  <1>8. ASSUME NEW c \in Calls, Finally(c)
        PROVE  ToolInv'
    <2>1. /\ call[c].at = "finally" /\ UNCHANGED <<pool, block, shared>>
          /\ open' = IF ClosesClient(c) THEN open \ {call[c].client} ELSE open
      BY <1>8 DEF Finally
    <2>2. c \in InCall /\ call[c].attempt \in 1 .. MaxAttempts
      BY <1>c, <1>i, <1>k, <2>1, NoClientIsNone DEF ToolTypeOK, CallRecord
    <2>3. PICK new \in CallRecord : /\ call' = [call EXCEPT ![c] = new]
                                    /\ new.client = NoClient /\ new.at \in {"done", "take"}
                                    /\ new.at = "take" => new.attempt >= 1
      <3>1. CASE ~Retried(call[c].result)
        <4>1. PICK new \in CallRecord : new = [call[c] EXCEPT !.at = "done", !.client = NoClient]
          BY <1>c DEF CallRecord
        <4>2. call' = [call EXCEPT ![c] = new]
          BY <1>8, <3>1, <4>1 DEF Finally
        <4>3. new.client = NoClient /\ new.at = "done"
          BY <1>c, <4>1 DEF CallRecord
        <4> QED BY <4>2, <4>3
      <3>2. CASE Retried(call[c].result) /\ LastAttempt(c)
        <4>1. PICK new \in CallRecord : new = [call[c] EXCEPT !.at = "done", !.client = NoClient, !.result = "RetryError"]
          BY <1>c, ResultsAre DEF CallRecord
        <4>2. call' = [call EXCEPT ![c] = new]
          BY <1>8, <3>2, <4>1 DEF Finally
        <4>3. new.client = NoClient /\ new.at = "done"
          BY <1>c, <4>1 DEF CallRecord
        <4> QED BY <4>2, <4>3
      <3>3. CASE Retried(call[c].result) /\ ~LastAttempt(c)
        <4>1. call[c].attempt + 1 \in 0 .. MaxAttempts /\ call[c].attempt + 1 >= 1
          BY <2>2, <3>3, NoClientIsNone DEF LastAttempt
        <4>2. PICK n \in 0 .. MaxAttempts : n = call[c].attempt + 1 /\ n >= 1
          BY <4>1
        <4>3. PICK new \in CallRecord : new = [call[c] EXCEPT !.at = "take", !.client = NoClient,
                                                              !.result = "none", !.attempt = n]
          BY <1>c, ResultsAre DEF CallRecord
        <4>4. call' = [call EXCEPT ![c] = new]
          <5>1. call' = [call EXCEPT ![c] = [call[c] EXCEPT !.at = "take", !.client = NoClient,
                                !.result = "none", !.attempt = NextAttempt(call[c].attempt)]]
            BY <1>8, <3>3 DEF Finally
          <5>2. [call[c] EXCEPT !.at = "take", !.client = NoClient, !.result = "none",
                                !.attempt = NextAttempt(call[c].attempt)] = new
            BY <4>2, <4>3 DEF NextAttempt
          <5> QED BY <5>1, <5>2
        <4>5. new.client = NoClient /\ new.at = "take" /\ new.attempt = n
          BY <1>c, <4>3 DEF CallRecord
        <4> QED BY <4>2, <4>4, <4>5
      <3> QED BY <3>1, <3>2, <3>3
    <2>4. new.at \in {"take", "send", "finally"} => new.attempt >= 1
      BY <2>3
    <2>5. /\ call' \in [Calls -> CallRecord] /\ call'[c] = new
          /\ \A d \in Calls \ {c} : call'[d] = call[d] /\ (d \in InCall' <=> d \in InCall)
          /\ c \in InCall' <=> new.at \in {"take", "send", "finally"}
          /\ \A d \in InCall' : call'[d].attempt >= 1
      BY <2>3, <2>4, OneCall
    <2>6. InCall' \subseteq Calls
      BY DEF InCall
    <2>7. open' \subseteq open
      BY <2>1
    <2>8. ToolTypeOK'
      BY <1>i, <2>1, <2>3, <2>5, <2>7 DEF ToolTypeOK
    <2>9. \A d \in InCall \ {c} : d \in InCall' /\ call'[d].client = call[d].client
      BY <1>k, <2>5
    <2>10. ASSUME ~shared
           PROVE  NoClientLeaks' /\ PoolOwned' /\ OwnIsClosed'
      <3>1. PoolOwned /\ OwnIsClosed
        BY <1>i, <2>10
      <3>2. PoolOwned'
        BY <1>p, <2>1, <2>7, <3>1
      <3>3. ASSUME NEW x \in open'
            PROVE  x \in {pool'} \cup {call'[d].client : d \in InCall'}
        <4>1. x = pool \/ \E d \in InCall : x = call[d].client
          BY <1>i, <2>7, <2>10, <3>3 DEF NoClientLeaks
        <4>2. x = call[c].client => x = pool
          <5> SUFFICES ASSUME x = call[c].client, x # pool PROVE FALSE
            OBVIOUS
          <5>1. ~ClosesClient(c) /\ x \in open
            BY <2>1, <3>3
          <5>2. call[c].api = "client" /\ pool # NoClient
            BY <1>c, <5>1, ApisAre DEF ClosesClient, CallRecord
          <5>3. x # NoClient
            BY <1>i, <5>1, NoClientIsNone DEF ToolTypeOK
          <5> QED BY <2>2, <3>1, <5>1, <5>2, <5>3 DEF OwnIsClosed
        <4> QED BY <2>1, <2>9, <4>1, <4>2
      <3>4. OwnIsClosed'
        BY <2>1, <2>3, <2>5, <2>6, <2>7, <3>1 DEF OwnIsClosed
      <3> QED BY <3>2, <3>3, <3>4 DEF NoClientLeaks
    <2> QED BY <2>1, <2>8, <2>10 DEF ToolInv, NoClientLeaks
  <1>9. CASE UNCHANGED toolVars
    <2>1. InCall' = InCall /\ Entered' = Entered
      BY <1>9 DEF toolVars, InCall, Entered
    <2>2. ToolTypeOK' /\ NoClientLeaks' /\ shared' = shared
      BY <1>9, <1>i, <2>1 DEF toolVars, ToolTypeOK, NoClientLeaks
    <2>3. ~shared => PoolOwned' /\ OwnIsClosed'
      BY <1>9, <1>i, <2>1 DEF toolVars, PoolOwned, OwnIsClosed
    <2> QED BY <2>2, <2>3 DEF ToolInv
  <1> QED BY <1>1, <1>2, <1>3, <1>4, <1>5, <1>6, <1>7, <1>8, <1>9 DEF ToolNext, CallStep

\* As long as with-blocks neither overlap nor begin during a call, every open client
\* is the pool's or that of an attempt in progress, whatever the answers and however
\* many attempts they take (BobClient.__exit__ and the finally clauses).
THEOREM ClientsAreClosed == ToolSpec => []NoClientLeaks
  <1>1. ToolInv => NoClientLeaks
    BY DEF ToolInv
  <1> QED BY InitTools, ToolStep, <1>1, PTL DEF ToolSpec

------------------------------------------------------------------------------
(* FileCache                                                                *)

Ciphers == Sessions \cup {"configured"}
CacheEntry == [value : {Full, Empty}, cipher : Ciphers, number : Nat]
SessionRecord == [at : {"idle", "prewarm", "delete"}, keys : SUBSET Keys, found : SUBSET Nat]

CacheTypeOK ==
    /\ configured \in BOOLEAN /\ entries \in Nat
    /\ entry \in [Keys -> CacheEntry \cup {NoEntry}]
    /\ session \in [Sessions -> SessionRecord]

\* No two entries have the number of one write, nor has one a number yet to come.
NumbersUnique ==
    /\ \A k \in Keys : entry[k] # NoEntry => entry[k].number \in 1 .. entries
    /\ \A k, l \in Keys : entry[k] # NoEntry /\ entry[l] # NoEntry /\ entry[k].number = entry[l].number => k = l
    /\ dropped \subseteq 1 .. entries
    /\ \A s \in Sessions : session[s].found \subseteq 1 .. entries

\* Whatever was written after the keys were listed: what was found is at one of them,
\* or gone.
ListedHolds ==
    \A s \in Sessions : session[s].at = "delete" =>
        \A k \in Keys \ session[s].keys : entry[k] # NoEntry => entry[k].number \notin session[s].found

\* Without a configured key, entries are written with the keys of sessions.
CiphersOwn == ~configured => \A k \in Keys : entry[k] # NoEntry => entry[k].cipher \in Sessions

CacheInv == CacheTypeOK /\ NumbersUnique /\ ListedHolds /\ CiphersOwn /\ ServedIsCurrent

LEMMA UnusedIsSession == Unused \in SessionRecord /\ Unused.at = "idle" /\ Unused.found = {}
  BY DEF Unused, SessionRecord

LEMMA InitCache == CacheInit => CacheInv
  BY UnusedIsSession DEF CacheInit, CacheInv, CacheTypeOK, NumbersUnique, ListedHolds, CiphersOwn, ServedIsCurrent

\* Entries that vanish, for whatever reason, are missed by nothing.
LEMMA EntriesVanish ==
  ASSUME CacheInv, UNCHANGED <<configured, served, entries>>,
         entry' \in [Keys -> CacheEntry \cup {NoEntry}],
         \A k \in Keys : entry'[k] \in {entry[k], NoEntry},
         session' \in [Sessions -> SessionRecord],
         \A s \in Sessions : session'[s] = session[s] \/ (session'[s].at # "delete" /\ session'[s].found = {}),
         dropped' \subseteq 1 .. entries,
         \A k \in Keys : entry'[k] # NoEntry => entry'[k].number \notin dropped'
  PROVE  CacheInv'
  <1>1. CacheTypeOK'
    BY DEF CacheInv, CacheTypeOK
  <1>2. NumbersUnique'
    BY DEF CacheInv, NumbersUnique
  <1>3. ListedHolds'
    BY DEF CacheInv, ListedHolds
  <1>4. CiphersOwn' /\ ServedIsCurrent'
    BY DEF CacheInv, CiphersOwn, ServedIsCurrent
  <1> QED BY <1>1, <1>2, <1>3, <1>4 DEF CacheInv

\* An entry is written, by a session that may be done with a key.
LEMMA EntryWritten ==
  ASSUME CacheInv, NEW s \in Sessions, NEW k \in Keys, NEW v \in {Full, Empty}, Write(s, k, v),
         session' \in [Sessions -> SessionRecord], UNCHANGED <<configured, served, dropped>>,
         \A t \in Sessions : session'[t] = session[t]
                             \/ (session'[t].at # "delete" /\ session'[t].found = session[t].found)
  PROVE  CacheInv'
  <1>i. CacheTypeOK /\ NumbersUnique /\ ListedHolds /\ CiphersOwn /\ ServedIsCurrent
    BY DEF CacheInv
  <1>1. PICK new \in CacheEntry : new = [value |-> v, cipher |-> CipherOf(s), number |-> entries + 1]
    <2>1. CipherOf(s) \in Ciphers
      BY DEF CipherOf, Ciphers
    <2>2. entries + 1 \in Nat
      BY <1>i DEF CacheTypeOK
    <2> QED BY <2>1, <2>2 DEF CacheEntry
  <1>2. new.number = entries + 1 /\ (~configured => new.cipher \in Sessions)
    BY <1>1 DEF CipherOf
  <1>3. /\ entry' \in [Keys -> CacheEntry \cup {NoEntry}] /\ entry'[k] = new
        /\ \A l \in Keys \ {k} : entry'[l] = entry[l]
    BY <1>i, <1>1 DEF Write, CacheTypeOK
  <1>4. entries' = entries + 1 /\ entries \in Nat
    BY <1>i DEF Write, CacheTypeOK
  <1>5. \A n \in 1 .. entries : n \in 1 .. entries' /\ n # new.number
    BY <1>2, <1>4
  <1>6. new.number \in 1 .. entries'
    BY <1>2, <1>4
  <1>7. CacheTypeOK'
    BY <1>i, <1>3, <1>4 DEF CacheTypeOK
  <1>8. NumbersUnique'
    BY <1>i, <1>3, <1>5, <1>6 DEF NumbersUnique
  <1>9. ListedHolds'
    BY <1>i, <1>3, <1>5 DEF ListedHolds, NumbersUnique
  <1>10. CiphersOwn' /\ ServedIsCurrent'
    BY <1>i, <1>2, <1>3, <1>5 DEF CiphersOwn, ServedIsCurrent, NumbersUnique
  <1> QED BY <1>7, <1>8, <1>9, <1>10 DEF CacheInv

LEMMA CacheStep == CacheInv /\ [CacheNext]_cacheVars => CacheInv'
  <1> SUFFICES ASSUME CacheInv, [CacheNext]_cacheVars PROVE CacheInv'
    OBVIOUS
  <1>i. CacheTypeOK /\ NumbersUnique /\ ListedHolds /\ CiphersOwn /\ ServedIsCurrent
    BY DEF CacheInv
  <1>d. ASSUME NEW ks
        PROVE  /\ Deleted(ks) \in [Keys -> CacheEntry \cup {NoEntry}]
               /\ \A k \in Keys : Deleted(ks)[k] = IF k \in ks THEN NoEntry ELSE entry[k]
    BY <1>i DEF Deleted, CacheTypeOK
  <1>n. ASSUME NEW ks \in SUBSET Keys
        PROVE  /\ Numbers(ks) \subseteq 1 .. entries
               /\ \A k \in Keys \ ks : entry[k] # NoEntry => entry[k].number \notin Numbers(ks)
    BY <1>i DEF Numbers, NumbersUnique
  <1>1. ASSUME NEW s \in Sessions, NEW k \in Keys, NEW v \in {Full, Empty}, CacheSet(s, k, v)
        PROVE  CacheInv'
    BY <1>1, <1>i, EntryWritten DEF CacheSet, CacheTypeOK
  <1>2. ASSUME NEW s \in Sessions, NEW ks \in SUBSET Keys, Invalidate(s, ks)
        PROVE  CacheInv'
    <2>1. entry' = Deleted(ks) /\ dropped' \in {dropped, dropped \cup Numbers(ks)}
      BY <1>2 DEF Invalidate
    <2>2. \A k \in Keys : entry'[k] # NoEntry => entry'[k] = entry[k] /\ k \notin ks
      BY <1>d, <2>1
    <2>3. dropped' \subseteq 1 .. entries /\ \A k \in Keys : entry'[k] # NoEntry => entry'[k].number \notin dropped'
      BY <1>i, <1>n, <2>1, <2>2 DEF NumbersUnique, ServedIsCurrent
    <2> QED BY <1>2, <1>i, <1>d, <2>1, <2>2, <2>3, EntriesVanish DEF Invalidate, CacheTypeOK
  <1>3. ASSUME NEW s \in Sessions, NEW ks \in SUBSET Keys, Prewarm(s, ks)
        PROVE  CacheInv'
    <2>1. PICK new \in SessionRecord : new = [Unused EXCEPT !.at = "prewarm", !.keys = ks]
      BY DEF Unused, SessionRecord
    <2>2. new.at = "prewarm" /\ new.found = {}
      BY <2>1 DEF Unused
    <2>3. session' = [session EXCEPT ![s] = new] /\ UNCHANGED <<configured, entry, served, entries, dropped>>
      BY <1>3, <2>1 DEF Prewarm
    <2>4. session' \in [Sessions -> SessionRecord] /\ session'[s] = new /\ \A t \in Sessions \ {s} : session'[t] = session[t]
      BY <1>i, <2>3 DEF CacheTypeOK
    <2> QED BY <1>i, <2>2, <2>3, <2>4, EntriesVanish DEF CacheTypeOK, NumbersUnique, ServedIsCurrent
  <1>4. ASSUME NEW s \in Sessions, PrewarmFile(s)
        PROVE  CacheInv'
    <2>1. PICK k \in session[s].keys, v \in {Full, Empty} :
            /\ Write(s, k, v) \/ UNCHANGED <<entry, entries>>
            /\ session' = [session EXCEPT ![s].keys = @ \ {k},
                                          ![s].at = IF session[s].keys = {k} THEN "idle" ELSE "prewarm"]
      BY <1>4 DEF PrewarmFile
    <2>2. session[s] \in SessionRecord /\ k \in Keys /\ UNCHANGED <<configured, served, dropped>>
      BY <1>4, <1>i, <2>1 DEF PrewarmFile, CacheTypeOK, SessionRecord
    <2>3. PICK at \in {"idle", "prewarm"} : at = IF session[s].keys = {k} THEN "idle" ELSE "prewarm"
      OBVIOUS
    <2>4. PICK new \in SessionRecord : new = [session[s] EXCEPT !.keys = @ \ {k}, !.at = at]
      BY <2>2 DEF SessionRecord
    <2>5. new.at # "delete" /\ new.found = session[s].found
      BY <2>2, <2>3, <2>4 DEF SessionRecord
    <2>6. session' = [session EXCEPT ![s] = new]
      BY <2>1, <2>3, <2>4
    <2>7. session' \in [Sessions -> SessionRecord] /\ session'[s] = new /\ \A t \in Sessions \ {s} : session'[t] = session[t]
      BY <1>i, <2>6 DEF CacheTypeOK
    <2>8. CASE Write(s, k, v)
      BY <2>2, <2>5, <2>7, <2>8, EntryWritten
    <2>9. CASE UNCHANGED <<entry, entries>>
      BY <1>i, <2>2, <2>5, <2>7, <2>9 DEF CacheInv, CacheTypeOK, NumbersUnique, ListedHolds, CiphersOwn, ServedIsCurrent
    <2> QED BY <2>1, <2>8, <2>9
  <1>5. ASSUME NEW s \in Sessions, NEW p \in Patterns, ListPattern(s, p)
        PROVE  CacheInv'
    <2>1. p \in SUBSET Keys
      BY CacheAssumption
    <2>2. Listed(p) \subseteq Keys /\ Numbers(p) \subseteq 1 .. entries
      BY <1>n, <2>1 DEF Listed
    <2>3. PICK new \in SessionRecord : new = [Unused EXCEPT !.at = "delete", !.keys = Listed(p), !.found = Numbers(p)]
      <3>1. Numbers(p) \subseteq Nat
        BY <2>2
      <3> QED BY <2>2, <3>1 DEF Unused, SessionRecord
    <2>4. new.at = "delete" /\ new.keys = Listed(p) /\ new.found = Numbers(p)
      BY <2>3 DEF Unused
    <2>5. session' = [session EXCEPT ![s] = new] /\ UNCHANGED <<configured, entry, served, entries, dropped>>
      BY <1>5, <2>3 DEF ListPattern
    <2>6. session' \in [Sessions -> SessionRecord] /\ session'[s] = new /\ \A t \in Sessions \ {s} : session'[t] = session[t]
      BY <1>i, <2>5 DEF CacheTypeOK
    <2>7. CacheTypeOK' /\ CiphersOwn' /\ ServedIsCurrent'
      BY <1>i, <2>5, <2>6 DEF CacheTypeOK, CiphersOwn, ServedIsCurrent
    <2>8. NumbersUnique'
      BY <1>i, <2>2, <2>4, <2>5, <2>6 DEF NumbersUnique
    <2>9. \A k \in Keys \ Listed(p) : entry[k] # NoEntry => entry[k].number \notin Numbers(p)
      BY <1>n, <2>1 DEF Listed
    <2>10. ListedHolds'
      BY <1>i, <2>4, <2>5, <2>6, <2>9 DEF ListedHolds
    <2> QED BY <2>7, <2>8, <2>10 DEF CacheInv
  <1>6. ASSUME NEW s \in Sessions, DeleteListed(s)
        PROVE  CacheInv'
    <2>1. /\ session' = [session EXCEPT ![s] = Unused] /\ UNCHANGED <<configured, served, entries>>
          /\ session[s].at = "delete" /\ session[s] \in SessionRecord
      BY <1>6, <1>i DEF DeleteListed, CacheTypeOK
    <2>2. session' \in [Sessions -> SessionRecord] /\ session'[s] = Unused /\ \A t \in Sessions \ {s} : session'[t] = session[t]
      BY <1>i, <2>1, UnusedIsSession DEF CacheTypeOK
    <2>3. \/ entry' = Deleted(session[s].keys) /\ dropped' \in {dropped, dropped \cup session[s].found}
          \/ UNCHANGED <<entry, dropped>>
      BY <1>6 DEF DeleteListed
    <2>4. entry' \in [Keys -> CacheEntry \cup {NoEntry}] /\ \A k \in Keys : entry'[k] \in {entry[k], NoEntry}
      BY <1>d, <1>i, <2>3 DEF CacheTypeOK
    <2>5. dropped' \subseteq 1 .. entries
      BY <1>i, <2>3 DEF NumbersUnique
    <2>6. \A k \in Keys : entry'[k] # NoEntry => entry'[k].number \notin dropped'
      <3>1. CASE UNCHANGED <<entry, dropped>>
        BY <1>i, <3>1 DEF ServedIsCurrent
      <3>2. CASE entry' = Deleted(session[s].keys) /\ dropped' \in {dropped, dropped \cup session[s].found}
        <4>1. \A k \in Keys : entry'[k] # NoEntry => entry'[k] = entry[k] /\ k \notin session[s].keys
          BY <1>d, <3>2
        <4> QED BY <1>i, <2>1, <3>2, <4>1 DEF ListedHolds, ServedIsCurrent
      <3> QED BY <2>3, <3>1, <3>2
    <2> QED BY <2>1, <2>2, <2>4, <2>5, <2>6, UnusedIsSession, EntriesVanish
  <1>7. ASSUME NEW k \in Keys, Vanish(k)
        PROVE  CacheInv'
    <2>1. /\ entry' \in [Keys -> CacheEntry \cup {NoEntry}] /\ entry'[k] = NoEntry
          /\ \A l \in Keys \ {k} : entry'[l] = entry[l]
          /\ UNCHANGED <<configured, session, served, entries, dropped>>
      BY <1>7, <1>i DEF Vanish, CacheTypeOK
    <2> QED BY <1>i, <2>1, EntriesVanish DEF CacheTypeOK, NumbersUnique, ServedIsCurrent
  <1>8. ASSUME NEW k \in Keys, GetFile(k)
        PROVE  CacheInv'
    <2>1. UNCHANGED <<configured, entry, session, entries, dropped>>
      BY <1>8 DEF GetFile
    <2>2. ~configured => served' # 200
      BY <1>8, <1>i, CacheAssumption DEF GetFile, Readable, CipherOf, CiphersOwn
    <2> QED BY <1>i, <2>1, <2>2 DEF CacheInv, CacheTypeOK, NumbersUnique, ListedHolds, CiphersOwn, ServedIsCurrent
  <1>9. CASE UNCHANGED cacheVars
    BY <1>9, <1>i DEF cacheVars, CacheInv, CacheTypeOK, NumbersUnique, ListedHolds, CiphersOwn, ServedIsCurrent
  <1>10. Keys \in SUBSET Keys /\ \A k \in Keys : {k} \in SUBSET Keys
    OBVIOUS
  <1> QED BY <1>1, <1>2, <1>3, <1>4, <1>5, <1>6, <1>7, <1>8, <1>9, <1>10 DEF CacheNext

\* An invalidation that reports success leaves no entry behind that was there when it
\* began (invalidate_pattern), and without a configured key nothing that was cached
\* is served (_init_encryption), for any number of sessions, keys and patterns.
THEOREM InvalidationHolds == CacheSpec => []ServedIsCurrent
  <1>1. CacheSpec => []CacheInv
    BY InitCache, CacheStep, PTL DEF CacheSpec
  <1>2. CacheInv => ServedIsCurrent
    BY DEF CacheInv
  <1> QED BY <1>1, <1>2, PTL

------------------------------------------------------------------------------
(* AgentState                                                               *)

AgentSteps == {"idle", "fetch", "look", "list", "append", "track"}

AgentRecord ==
    [at : AgentSteps, incident : Incidents \cup {NoSnapshot}, snapshot : Nat,
     tool : AgentTools \cup {NoSnapshot}, stores : Nat]

AgentsTypeOK ==
    /\ \E k \in Nat : Created = 1 .. k
    /\ DOMAIN responses = Created
    /\ snapshots \in [Incidents -> Created \cup {NoSnapshot}]
    /\ agent \in [Agents -> AgentRecord]
    /\ \A a \in Agents :
        /\ agent[a].at # "idle" => agent[a].incident \in Incidents /\ agent[a].tool \in AgentTools
        /\ agent[a].at \in {"look", "list", "append", "track"} => agent[a].snapshot \in Created
        /\ agent[a].at = "append" => agent[a].tool \in DOMAIN responses[agent[a].snapshot]

\* In which snapshot a response is, and where its invocation is yet to be tracked.
InSnapshot(n, r) == \E t \in DOMAIN responses[n] : r \in responses[n][t]
Owes(a, n) == agent[a].at = "track" /\ agent[a].snapshot = n

ListedAreTracked == \A n \in Created : \A r :
    InSnapshot(n, r) => r \in invocations[n] \/ \E a \in Agents : Owes(a, n) /\ r = Response(a)

\* What is tracked, or about to be, is in the snapshot: unlike SnapshotsAgree this
\* says so of the responses that still wait to be tracked.
TrackedAreListed == \A n \in Created : (\A t \in AgentTools : <<n, t>> \notin raced) =>
    /\ \A r \in invocations[n] : InSnapshot(n, r)
    /\ \A a \in Agents : Owes(a, n) => InSnapshot(n, Response(a))

SnapshotInv == AgentsTypeOK /\ ListedAreTracked /\ TrackedAreListed

LEMMA InitSnapshots == AgentInit => SnapshotInv
  <1> SUFFICES ASSUME AgentInit PROVE SnapshotInv
    OBVIOUS
  <1>1. Created = {} /\ DOMAIN responses = {}
    BY DEF AgentInit, Created
  <1>2. {} = 1 .. 0 /\ 0 \in Nat
    OBVIOUS
  <1>3. Resting \in AgentRecord /\ Resting.at = "idle"
    BY DEF Resting, AgentRecord, AgentSteps
  <1>4. /\ agent \in [Agents -> AgentRecord] /\ \A a \in Agents : agent[a].at = "idle"
        /\ snapshots = [i \in Incidents |-> NoSnapshot]
    BY <1>3 DEF AgentInit
  <1>5. \E k \in Nat : Created = 1 .. k
    BY <1>1, <1>2
  <1>6. AgentsTypeOK
    <2>1. snapshots \in [Incidents -> Created \cup {NoSnapshot}]
      BY <1>4
    <2> QED BY <1>1, <1>4, <1>5, <2>1 DEF AgentsTypeOK
  <1> QED BY <1>1, <1>6 DEF SnapshotInv, ListedAreTracked, TrackedAreListed

\* The number of snapshots, and so the number of the next one.
LEMMA NextSnapshot ==
  ASSUME NEW k \in Nat, Created = 1 .. k
  PROVE  /\ Cardinality(Created) = k /\ k + 1 \notin Created
         /\ \A f, x : /\ DOMAIN Grown(f, x) = Created \cup {k + 1}
                      /\ Grown(f, x)[k + 1] = x /\ \A n \in Created : Grown(f, x)[n] = f[n]
  <1>1. Cardinality(Created) = k
    <2>1. Cardinality(1 .. k) = IF 1 > k THEN 0 ELSE k - 1 + 1
      BY FS_Interval
    <2> QED BY <2>1
  <1>2. 1 .. k + 1 = Created \cup {k + 1} /\ k + 1 \notin Created
    OBVIOUS
  <1> QED BY <1>1, <1>2 DEF Grown

\* A step of an agent is one of the code's, and leaves the others alone.
LEMMA OneAgent ==
  ASSUME AgentsTypeOK, NEW a \in Agents, NEW new \in AgentRecord, agent' = [agent EXCEPT ![a] = new]
  PROVE  /\ agent' \in [Agents -> AgentRecord] /\ agent'[a] = new
         /\ \A b \in Agents \ {a} : agent'[b] = agent[b]
  BY DEF AgentsTypeOK

\* Agents that look around owe what they owed, and the lists stay as they are.
LEMMA OnlyLooking ==
  ASSUME SnapshotInv, UNCHANGED <<responses, invocations, raced>>, AgentsTypeOK',
         \A b \in Agents : /\ agent'[b].at = "track" <=> agent[b].at = "track"
                           /\ agent[b].at = "track" => agent'[b] = agent[b]
  PROVE  SnapshotInv'
  <1>1. Created' = Created
    BY DEF Created
  <1>2. \A n, r : InSnapshot(n, r)' <=> InSnapshot(n, r)
    BY DEF InSnapshot
  <1>3. \A b \in Agents : \A n : /\ Owes(b, n)' <=> Owes(b, n)
                                 /\ Owes(b, n) => Response(b)' = Response(b)
    BY DEF Owes, Response
  <1>4. ListedAreTracked' /\ TrackedAreListed'
    BY <1>1, <1>2, <1>3 DEF SnapshotInv, ListedAreTracked, TrackedAreListed
  <1> QED BY <1>4 DEF SnapshotInv

LEMMA SnapshotStep == SnapshotInv /\ [AgentNext]_agentVars => SnapshotInv'
  <1> SUFFICES ASSUME SnapshotInv, [AgentNext]_agentVars PROVE SnapshotInv'
    OBVIOUS
  <1>i. AgentsTypeOK /\ ListedAreTracked /\ TrackedAreListed
    BY DEF SnapshotInv
  <1>k. PICK k \in Nat : Created = 1 .. k
    BY <1>i DEF AgentsTypeOK
  <1>1. ASSUME NEW i \in Incidents, CreateSnapshot(i)
        PROVE  SnapshotInv'
    <2> DEFINE none == [t \in {} |-> {}]
    <2>1. /\ Cardinality(Created) = k /\ k + 1 \notin Created
          /\ \A f, x : /\ DOMAIN Grown(f, x) = Created \cup {k + 1}
                       /\ Grown(f, x)[k + 1] = x /\ \A n \in Created : Grown(f, x)[n] = f[n]
      BY <1>k, NextSnapshot
    <2>2. /\ responses' = Grown(responses, none) /\ invocations' = Grown(invocations, {})
          /\ snapshots' = [snapshots EXCEPT ![i] = k + 1] /\ UNCHANGED <<agent, raced>>
      BY <1>1, <2>1 DEF CreateSnapshot
    <2> HIDE DEF none
    <2>3. /\ DOMAIN responses' = Created \cup {k + 1} /\ responses'[k + 1] = none
          /\ \A n \in Created : responses'[n] = responses[n]
      BY <2>1, <2>2
    <2>4. /\ DOMAIN invocations' = Created \cup {k + 1} /\ invocations'[k + 1] = {}
          /\ \A n \in Created : invocations'[n] = invocations[n]
      BY <2>1, <2>2
    <2>5. Created' = Created \cup {k + 1} /\ Created' = 1 .. k + 1 /\ k + 1 \in Nat
      BY <1>k, <2>4 DEF Created
    <2>6. snapshots' \in [Incidents -> Created' \cup {NoSnapshot}]
      BY <1>i, <2>2, <2>5 DEF AgentsTypeOK
    <2>7. AgentsTypeOK'
      <3>1. DOMAIN responses' = Created' /\ \E j \in Nat : Created' = 1 .. j
        BY <2>3, <2>5
      <3>2. \A a \in Agents : agent[a].at = "append" => agent[a].tool \in DOMAIN responses'[agent[a].snapshot]
        BY <1>i, <2>3 DEF AgentsTypeOK
      <3>3. \A a \in Agents : agent[a].at \in {"look", "list", "append", "track"} => agent[a].snapshot \in Created'
        BY <1>i, <2>5 DEF AgentsTypeOK
      <3> QED BY <1>i, <2>2, <2>6, <3>1, <3>2, <3>3 DEF AgentsTypeOK
    <2>8. DOMAIN none = {}
      BY DEF none
    <2>9. /\ \A n \in Created : \A r : InSnapshot(n, r)' <=> InSnapshot(n, r)
          /\ \A r : ~InSnapshot(k + 1, r)'
      BY <2>3, <2>8 DEF InSnapshot
    <2>10. /\ \A b \in Agents : \A n : Owes(b, n)' <=> Owes(b, n)
           /\ \A b \in Agents : Response(b)' = Response(b) /\ ~Owes(b, k + 1)
      BY <1>i, <2>1, <2>2 DEF Owes, Response, AgentsTypeOK
    <2>11. ListedAreTracked'
      BY <1>i, <2>4, <2>5, <2>9, <2>10 DEF ListedAreTracked
    <2>12. TrackedAreListed'
      BY <1>i, <2>2, <2>4, <2>5, <2>9, <2>10 DEF TrackedAreListed
    <2> QED BY <2>7, <2>11, <2>12 DEF SnapshotInv
  <1>2. ASSUME NEW i \in Incidents, ClearSnapshot(i)
        PROVE  SnapshotInv'
    <2>1. snapshots' = [snapshots EXCEPT ![i] = NoSnapshot] /\ UNCHANGED <<responses, invocations, agent, raced>>
      BY <1>2 DEF ClearSnapshot
    <2>2. Created' = Created
      BY <2>1 DEF Created
    <2>3. snapshots' \in [Incidents -> Created \cup {NoSnapshot}]
      BY <1>i, <2>1 DEF AgentsTypeOK
    <2>4. AgentsTypeOK'
      BY <1>i, <2>1, <2>2, <2>3 DEF AgentsTypeOK
    <2> QED BY <2>1, <2>4, OnlyLooking
  \* an agent that goes on to another of these steps
  <1>g. ASSUME NEW a \in Agents, NEW new \in AgentRecord, agent' = [agent EXCEPT ![a] = new],
               agent[a].at \in {"idle", "fetch", "look"}, new.at \in {"idle", "fetch", "look", "list", "append"},
               new.at # "idle" => new.incident \in Incidents /\ new.tool \in AgentTools,
               new.at \in {"look", "list", "append"} => new.snapshot \in Created,
               new.at = "append" => new.tool \in DOMAIN responses[new.snapshot],
               UNCHANGED <<snapshots, responses, invocations, raced>>
        PROVE  SnapshotInv'
    <2>1. /\ agent' \in [Agents -> AgentRecord] /\ agent'[a] = new
          /\ \A b \in Agents \ {a} : agent'[b] = agent[b]
      BY <1>g, <1>i, OneAgent
    <2>2. Created' = Created
      BY <1>g DEF Created
    <2>3. AgentsTypeOK'
      <3> SUFFICES ASSUME NEW b \in Agents
                   PROVE  /\ agent'[b].at # "idle" => agent'[b].incident \in Incidents /\ agent'[b].tool \in AgentTools
                          /\ agent'[b].at \in {"look", "list", "append", "track"} => agent'[b].snapshot \in Created
                          /\ agent'[b].at = "append" => agent'[b].tool \in DOMAIN responses[agent'[b].snapshot]
        BY <1>g, <1>i, <2>1, <2>2 DEF AgentsTypeOK
      <3>1. CASE b = a
        BY <1>g, <2>1, <3>1 DEF AgentSteps
      <3>2. CASE b # a
        BY <1>i, <2>1, <3>2 DEF AgentsTypeOK
      <3> QED BY <3>1, <3>2
    <2>4. \A b \in Agents : /\ agent'[b].at = "track" <=> agent[b].at = "track"
                            /\ agent[b].at = "track" => agent'[b] = agent[b]
      BY <1>g, <2>1
    <2> QED BY <1>g, <2>3, <2>4, OnlyLooking
  <1>a. \A a \in Agents :
          /\ agent[a] \in AgentRecord
          /\ agent[a].at # "idle" => agent[a].incident \in Incidents /\ agent[a].tool \in AgentTools
          /\ agent[a].at \in {"look", "list", "append", "track"} => agent[a].snapshot \in Created
          /\ agent[a].at = "append" => agent[a].tool \in DOMAIN responses[agent[a].snapshot]
    BY <1>i DEF AgentsTypeOK
  <1>n. Created \subseteq Nat /\ 0 \in Nat
    BY <1>k
  <1>3. ASSUME NEW a \in Agents, Store(a)
        PROVE  SnapshotInv'
    <2>1. PICK i \in Incidents, t \in AgentTools :
            agent' = [agent EXCEPT ![a] = [Resting EXCEPT !.at = "fetch", !.incident = i,
                                                          !.tool = t, !.stores = agent[a].stores + 1]]
      BY <1>3 DEF Store
    <2>2. agent[a].at = "idle" /\ UNCHANGED <<snapshots, responses, invocations, raced>>
      BY <1>3 DEF Store
    <2>3. PICK n \in Nat : n = agent[a].stores + 1
      BY <1>a DEF AgentRecord
    <2>4. PICK new \in AgentRecord :
            new = [Resting EXCEPT !.at = "fetch", !.incident = i, !.tool = t, !.stores = n]
      BY DEF Resting, AgentRecord, AgentSteps
    <2>5. new.at = "fetch" /\ new.incident = i /\ new.tool = t
      BY <2>4 DEF Resting
    <2>6. agent' = [agent EXCEPT ![a] = new]
      BY <2>1, <2>3, <2>4
    <2> QED BY <1>g, <2>2, <2>5, <2>6
  <1>4. ASSUME NEW a \in Agents, Fetch(a)
        PROVE  SnapshotInv'
    <2>1. /\ agent[a].at = "fetch" /\ UNCHANGED <<snapshots, responses, invocations, raced>>
          /\ agent' = [agent EXCEPT ![a] = IF snapshots[agent[a].incident] = NoSnapshot THEN [@ EXCEPT !.at = "idle"]
                                ELSE [@ EXCEPT !.at = "look", !.snapshot = snapshots[agent[a].incident]]]
      BY <1>4 DEF Fetch
    <2>2. snapshots[agent[a].incident] \in Created \cup {NoSnapshot}
      BY <1>a, <1>i, <2>1 DEF AgentsTypeOK
    <2>3. CASE snapshots[agent[a].incident] = NoSnapshot
      <3>1. PICK new \in AgentRecord : new = [agent[a] EXCEPT !.at = "idle"]
        BY <1>a DEF AgentRecord, AgentSteps
      <3>2. agent' = [agent EXCEPT ![a] = new]
        BY <2>1, <2>3, <3>1
      <3>3. new.at = "idle"
        BY <1>a, <3>1 DEF AgentRecord
      <3> QED BY <1>a, <1>g, <2>1, <3>2, <3>3
    <2>4. CASE snapshots[agent[a].incident] # NoSnapshot
      <3>1. PICK n \in Created : n = snapshots[agent[a].incident]
        BY <2>2, <2>4
      <3>2. PICK new \in AgentRecord : new = [agent[a] EXCEPT !.at = "look", !.snapshot = n]
        BY <1>a, <1>n DEF AgentRecord, AgentSteps
      <3>3. agent' = [agent EXCEPT ![a] = new]
        BY <2>1, <2>4, <3>1, <3>2
      <3>4. new.at = "look" /\ new.incident = agent[a].incident /\ new.snapshot = n /\ new.tool = agent[a].tool
        BY <1>a, <3>2 DEF AgentRecord
      <3> QED BY <1>a, <1>g, <2>1, <3>3, <3>4
    <2> QED BY <2>3, <2>4
  <1>5. ASSUME NEW a \in Agents, Look(a)
        PROVE  SnapshotInv'
    <2>1. PICK at \in {"append", "list"} :
            /\ agent' = [agent EXCEPT ![a].at = at]
            /\ at = "append" => agent[a].tool \in DOMAIN responses[agent[a].snapshot]
      BY <1>5 DEF Look, Lists
    <2>2. agent[a].at = "look" /\ UNCHANGED <<snapshots, responses, invocations, raced>>
      BY <1>5 DEF Look
    <2>3. PICK new \in AgentRecord : new = [agent[a] EXCEPT !.at = at]
      BY <1>a DEF AgentRecord, AgentSteps
    <2>4. /\ new.at = at /\ new.incident = agent[a].incident
          /\ new.snapshot = agent[a].snapshot /\ new.tool = agent[a].tool
      BY <1>a, <2>3 DEF AgentRecord
    <2>5. agent' = [agent EXCEPT ![a] = new]
      BY <2>1, <2>3
    <2> QED BY <1>a, <1>g, <2>1, <2>2, <2>4, <2>5
  \* an agent that writes to the lists of its snapshot: n, whose list of t becomes rs
  <1>w. ASSUME NEW a \in Agents, NEW n \in Created, NEW t \in AgentTools, NEW rs, NEW lists, NEW new \in AgentRecord,
               agent[a].at \in {"list", "append"}, n = agent[a].snapshot, t = agent[a].tool,
               lists = With(responses[n], t, rs), responses' = [responses EXCEPT ![n] = lists],
               new.at \in {"append", "track"}, new.incident = agent[a].incident, new.snapshot = n, new.tool = t,
               new.stores = agent[a].stores,
               agent' = [agent EXCEPT ![a] = new], UNCHANGED <<snapshots, invocations>>
        PROVE  AgentsTypeOK' /\ Created' = Created
    <2>4. /\ agent' \in [Agents -> AgentRecord] /\ agent'[a] = new
          /\ \A b \in Agents \ {a} : agent'[b] = agent[b]
      BY <1>i, <1>w, OneAgent
    <2>5. Created' = Created
      BY <1>w DEF Created
    <2>7. /\ DOMAIN lists = DOMAIN responses[n] \cup {t} /\ lists[t] = rs
          /\ \A u \in DOMAIN responses[n] \ {t} : lists[u] = responses[n][u]
      BY <1>w DEF With
    <2>9. DOMAIN responses = Created
      BY <1>i DEF AgentsTypeOK
    <2>10. DOMAIN responses' = Created /\ responses'[n] = lists /\ \A m \in Created \ {n} : responses'[m] = responses[m]
      BY <1>w, <2>9
    <2>11. \A m \in Created : DOMAIN responses[m] \subseteq DOMAIN responses'[m]
      BY <2>7, <2>10
    <2>12. AgentsTypeOK'
      <3> SUFFICES ASSUME NEW b \in Agents
                   PROVE  /\ agent'[b].at # "idle" => agent'[b].incident \in Incidents /\ agent'[b].tool \in AgentTools
                          /\ agent'[b].at \in {"look", "list", "append", "track"} => agent'[b].snapshot \in Created
                          /\ agent'[b].at = "append" => agent'[b].tool \in DOMAIN responses'[agent'[b].snapshot]
        BY <1>i, <1>w, <2>4, <2>5, <2>10 DEF AgentsTypeOK
      <3>1. CASE b = a
        BY <1>a, <1>w, <2>4, <2>7, <2>10, <3>1
      <3>2. CASE b # a
        BY <1>a, <2>4, <2>11, <3>2
      <3> QED BY <3>1, <3>2
    <2> QED BY <2>5, <2>12
  <1>6. ASSUME NEW a \in Agents, BeginList(a)
        PROVE  SnapshotInv'
    <2>1. PICK n, t : n = agent[a].snapshot /\ t = agent[a].tool
      OBVIOUS
    <2>2. /\ agent[a].at = "list" /\ UNCHANGED <<snapshots, invocations>>
          /\ responses' = [responses EXCEPT ![n] = With(responses[n], t, {})]
          /\ raced' = (IF t \in DOMAIN responses[n] THEN raced \cup {<<n, t>>} ELSE raced)
          /\ agent' = [agent EXCEPT ![a].at = "append"]
      BY <1>6, <2>1 DEF BeginList, Lists
    <2>3. n \in Created /\ t \in AgentTools
      BY <1>a, <2>1, <2>2
    <2>p. PICK lists : lists = With(responses[n], t, {})
      OBVIOUS
    <2>q. PICK new \in AgentRecord : new = [agent[a] EXCEPT !.at = "append"]
      BY <1>a DEF AgentRecord, AgentSteps
    <2>r. /\ new.at = "append" /\ new.incident = agent[a].incident /\ new.snapshot = n
          /\ new.tool = t /\ new.stores = agent[a].stores
      BY <1>a, <2>1, <2>q DEF AgentRecord
    <2>s. responses' = [responses EXCEPT ![n] = lists] /\ agent' = [agent EXCEPT ![a] = new]
      BY <2>2, <2>p, <2>q
    <2>4. /\ AgentsTypeOK' /\ Created' = Created
          /\ agent'[a] = new
          /\ \A b \in Agents \ {a} : agent'[b] = agent[b]
          /\ DOMAIN responses'[n] = DOMAIN responses[n] \cup {t} /\ responses'[n][t] = {}
          /\ \A u \in DOMAIN responses[n] \ {t} : responses'[n][u] = responses[n][u]
          /\ \A m \in Created \ {n} : responses'[m] = responses[m]
      <3>1. agent[a].at \in {"list", "append"}
        BY <2>2
      <3>2. n = agent[a].snapshot /\ t = agent[a].tool
        BY <2>1
      <3>3. new.at \in {"append", "track"} /\ new.incident = agent[a].incident /\ new.snapshot = n /\ new.tool = t /\ new.stores = agent[a].stores
        BY <2>r
      <3>4. UNCHANGED <<snapshots, invocations>>
        BY <2>2
      <3>5. AgentsTypeOK' /\ Created' = Created
        BY <1>w, <2>3, <2>p, <2>q, <2>s, <3>1, <3>2, <3>3, <3>4
      <3>6. agent'[a] = new /\ \A b \in Agents \ {a} : agent'[b] = agent[b]
        BY <1>i, <2>q, <2>s, OneAgent
      <3>l. DOMAIN responses = Created
        BY <1>i DEF AgentsTypeOK
      <3>m. responses'[n] = lists
        BY <2>3, <2>s, <3>l
      <3>7. DOMAIN responses'[n] = DOMAIN responses[n] \cup {t} /\ responses'[n][t] = {}
        BY <2>p, <3>m DEF With
      <3>8. \A u \in DOMAIN responses[n] \ {t} : responses'[n][u] = responses[n][u]
        BY <2>p, <3>m DEF With
      <3>9. \A m \in Created \ {n} : responses'[m] = responses[m]
        BY <2>3, <2>s, <3>l
      <3> QED BY <3>5, <3>6, <3>7, <3>8, <3>9
    <2>5. /\ \A b \in Agents : \A m : Owes(b, m)' <=> Owes(b, m)
          /\ \A b \in Agents : Response(b)' = Response(b)
      BY <2>2, <2>4, <2>r DEF Owes, Response
    <2>6. \A m \in Created : \A r : InSnapshot(m, r)' => InSnapshot(m, r)
      BY <2>4 DEF InSnapshot
    <2>7. ASSUME NEW m \in Created, \A u \in AgentTools : <<m, u>> \notin raced', NEW r, InSnapshot(m, r)
          PROVE  InSnapshot(m, r)'
      <3>1. CASE m # n
        BY <2>4, <2>7, <3>1 DEF InSnapshot
      <3>2. CASE m = n
        <4>1. t \notin DOMAIN responses[n]
          BY <2>2, <2>3, <2>7, <3>2
        <4> QED BY <2>4, <2>7, <3>2, <4>1 DEF InSnapshot
      <3> QED BY <3>1, <3>2
    <2>8. raced \subseteq raced'
      BY <2>2
    <2>9. ListedAreTracked'
      BY <1>i, <2>2, <2>4, <2>5, <2>6 DEF ListedAreTracked
    <2>10. TrackedAreListed'
      <3> SUFFICES ASSUME NEW m \in Created, \A u \in AgentTools : <<m, u>> \notin raced'
                   PROVE  /\ \A r \in invocations[m] : InSnapshot(m, r)'
                          /\ \A b \in Agents : Owes(b, m) => InSnapshot(m, Response(b))'
        BY <2>2, <2>4, <2>5 DEF TrackedAreListed
      <3>1. /\ \A r \in invocations[m] : InSnapshot(m, r)
            /\ \A b \in Agents : Owes(b, m) => InSnapshot(m, Response(b))
        BY <1>i, <2>8 DEF TrackedAreListed
      <3>2. \A r : InSnapshot(m, r) => InSnapshot(m, r)'
        BY <2>7
      <3>3. ASSUME NEW b \in Agents, Owes(b, m) PROVE InSnapshot(m, Response(b))'
        <4>1. PICK r : r = Response(b)
          OBVIOUS
        <4>2. InSnapshot(m, r)' /\ Response(b)' = r
          BY <2>5, <3>1, <3>2, <3>3, <4>1
        <4> QED BY <4>2 DEF InSnapshot
      <3> QED BY <3>1, <3>2, <3>3
    <2> QED BY <2>4, <2>9, <2>10 DEF SnapshotInv
  <1>7. ASSUME NEW a \in Agents, AppendResponse(a)
        PROVE  SnapshotInv'
    <2>1. PICK n, t, rs, mine : /\ n = agent[a].snapshot /\ t = agent[a].tool /\ rs = responses[n][t] \cup {mine}
                                /\ mine = Response(a)
      OBVIOUS
    <2>2. /\ agent[a].at = "append" /\ UNCHANGED <<snapshots, invocations, raced>>
          /\ responses' = [responses EXCEPT ![n] = With(responses[n], t, rs)]
          /\ agent' = [agent EXCEPT ![a].at = "track"]
      BY <1>7, <2>1 DEF AppendResponse, Appended, Lists
    <2>3. n \in Created /\ t \in AgentTools /\ t \in DOMAIN responses[n]
      BY <1>a, <2>1, <2>2
    <2>p. PICK lists : lists = With(responses[n], t, rs)
      OBVIOUS
    <2>q. PICK new \in AgentRecord : new = [agent[a] EXCEPT !.at = "track"]
      BY <1>a DEF AgentRecord, AgentSteps
    <2>r. /\ new.at = "track" /\ new.incident = agent[a].incident /\ new.snapshot = n
          /\ new.tool = t /\ new.stores = agent[a].stores
      BY <1>a, <2>1, <2>q DEF AgentRecord
    <2>s. responses' = [responses EXCEPT ![n] = lists] /\ agent' = [agent EXCEPT ![a] = new]
      BY <2>2, <2>p, <2>q
    <2>4. /\ AgentsTypeOK' /\ Created' = Created
          /\ agent'[a] = new
          /\ \A b \in Agents \ {a} : agent'[b] = agent[b]
          /\ DOMAIN responses'[n] = DOMAIN responses[n] \cup {t} /\ responses'[n][t] = rs
          /\ \A u \in DOMAIN responses[n] \ {t} : responses'[n][u] = responses[n][u]
          /\ \A m \in Created \ {n} : responses'[m] = responses[m]
      <3>1. agent[a].at \in {"list", "append"}
        BY <2>2
      <3>2. n = agent[a].snapshot /\ t = agent[a].tool
        BY <2>1
      <3>3. new.at \in {"append", "track"} /\ new.incident = agent[a].incident /\ new.snapshot = n /\ new.tool = t /\ new.stores = agent[a].stores
        BY <2>r
      <3>4. UNCHANGED <<snapshots, invocations>>
        BY <2>2
      <3>5. AgentsTypeOK' /\ Created' = Created
        BY <1>w, <2>3, <2>p, <2>q, <2>s, <3>1, <3>2, <3>3, <3>4
      <3>6. agent'[a] = new /\ \A b \in Agents \ {a} : agent'[b] = agent[b]
        BY <1>i, <2>q, <2>s, OneAgent
      <3>l. DOMAIN responses = Created
        BY <1>i DEF AgentsTypeOK
      <3>m. responses'[n] = lists
        BY <2>3, <2>s, <3>l
      <3>7. DOMAIN responses'[n] = DOMAIN responses[n] \cup {t} /\ responses'[n][t] = rs
        BY <2>p, <3>m DEF With
      <3>8. \A u \in DOMAIN responses[n] \ {t} : responses'[n][u] = responses[n][u]
        BY <2>p, <3>m DEF With
      <3>9. \A m \in Created \ {n} : responses'[m] = responses[m]
        BY <2>3, <2>s, <3>l
      <3> QED BY <3>5, <3>6, <3>7, <3>8, <3>9
    <2>5. /\ \A b \in Agents \ {a} : \A m : Owes(b, m)' <=> Owes(b, m)
          /\ \A b \in Agents : Response(b)' = Response(b)
          /\ \A m : (Owes(a, m)' <=> m = n) /\ ~Owes(a, m)
      BY <2>2, <2>4, <2>r DEF Owes, Response
    <2>6. \A m \in Created : \A r : InSnapshot(m, r)' => InSnapshot(m, r) \/ (m = n /\ r = mine)
      BY <2>1, <2>3, <2>4 DEF InSnapshot
    <2>7. \A m \in Created : \A r : InSnapshot(m, r) \/ (m = n /\ r = mine) => InSnapshot(m, r)'
      BY <2>1, <2>3, <2>4 DEF InSnapshot
    <2>8. ListedAreTracked'
      BY <1>i, <2>1, <2>2, <2>4, <2>5, <2>6 DEF ListedAreTracked
    <2>9. TrackedAreListed'
      <3> SUFFICES ASSUME NEW m \in Created, \A u \in AgentTools : <<m, u>> \notin raced
                   PROVE  /\ \A r \in invocations[m] : InSnapshot(m, r)'
                          /\ \A b \in Agents : Owes(b, m)' => InSnapshot(m, Response(b))'
        BY <2>2, <2>4 DEF TrackedAreListed
      <3>1. /\ \A r \in invocations[m] : InSnapshot(m, r)
            /\ \A b \in Agents : Owes(b, m) => InSnapshot(m, Response(b))
        BY <1>i DEF TrackedAreListed
      <3>2. ASSUME NEW b \in Agents, Owes(b, m)' PROVE InSnapshot(m, Response(b))'
        <4>1. PICK r : r = Response(b)
          OBVIOUS
        <4>2. InSnapshot(m, r)' /\ Response(b)' = r
          BY <2>1, <2>5, <2>7, <3>1, <3>2, <4>1
        <4> QED BY <4>2 DEF InSnapshot
      <3> QED BY <2>7, <3>1, <3>2
    <2> QED BY <2>4, <2>8, <2>9 DEF SnapshotInv
  <1>8. ASSUME NEW a \in Agents, TrackInvocation(a)
        PROVE  SnapshotInv'
    <2>1. PICK n, mine : n = agent[a].snapshot /\ mine = Response(a)
      OBVIOUS
    <2>2. /\ agent[a].at = "track" /\ agent' = [agent EXCEPT ![a].at = "idle"]
          /\ UNCHANGED <<snapshots, responses, raced>>
          /\ invocations' = [m \in Created |-> IF m = n THEN invocations[m] \cup {mine} ELSE invocations[m]]
      BY <1>8, <2>1 DEF TrackInvocation, Tracked
    <2>3. n \in Created
      BY <1>a, <2>1, <2>2
    <2>4. /\ Created' = Created /\ invocations'[n] = invocations[n] \cup {mine}
          /\ \A m \in Created \ {n} : invocations'[m] = invocations[m]
      BY <2>2, <2>3 DEF Created
    <2>5. PICK new \in AgentRecord : new = [agent[a] EXCEPT !.at = "idle"]
      BY <1>a DEF AgentRecord, AgentSteps
    <2>6. new.at = "idle" /\ new.stores = agent[a].stores
      BY <1>a, <2>5 DEF AgentRecord
    <2>7. agent' = [agent EXCEPT ![a] = new]
      BY <2>2, <2>5
    <2>8. /\ agent' \in [Agents -> AgentRecord] /\ agent'[a] = new
          /\ \A b \in Agents \ {a} : agent'[b] = agent[b]
      BY <1>i, <2>7, OneAgent
    <2>9. AgentsTypeOK'
      <3> SUFFICES ASSUME NEW b \in Agents
                   PROVE  /\ agent'[b].at # "idle" => agent'[b].incident \in Incidents /\ agent'[b].tool \in AgentTools
                          /\ agent'[b].at \in {"look", "list", "append", "track"} => agent'[b].snapshot \in Created
                          /\ agent'[b].at = "append" => agent'[b].tool \in DOMAIN responses[agent'[b].snapshot]
        BY <1>i, <2>2, <2>4, <2>8 DEF AgentsTypeOK
      <3>1. CASE b = a
        BY <2>6, <2>8, <3>1
      <3>2. CASE b # a
        BY <1>a, <2>8, <3>2
      <3> QED BY <3>1, <3>2
    <2>10. /\ \A b \in Agents \ {a} : \A m : Owes(b, m)' <=> Owes(b, m)
           /\ \A b \in Agents : Response(b)' = Response(b)
           /\ \A m : (Owes(a, m) <=> m = n) /\ ~Owes(a, m)'
      BY <2>1, <2>2, <2>6, <2>8 DEF Owes, Response
    <2>11. \A m, r : InSnapshot(m, r)' <=> InSnapshot(m, r)
      BY <2>2 DEF InSnapshot
    <2>12. ListedAreTracked'
      BY <1>i, <2>1, <2>4, <2>10, <2>11 DEF ListedAreTracked
    <2>13. TrackedAreListed'
      BY <1>i, <2>1, <2>2, <2>4, <2>10, <2>11 DEF TrackedAreListed
    <2> QED BY <2>9, <2>12, <2>13 DEF SnapshotInv
  <1>9. CASE UNCHANGED agentVars
    <2>1. Created' = Created /\ UNCHANGED <<snapshots, responses, invocations, agent, raced>>
      BY <1>9 DEF agentVars, Created
    <2>2. AgentsTypeOK'
      BY <1>i, <2>1 DEF AgentsTypeOK
    <2> QED BY <2>1, <2>2, OnlyLooking
  <1> QED BY <1>1, <1>2, <1>3, <1>4, <1>5, <1>6, <1>7, <1>8, <1>9 DEF AgentNext

\* However threads interleave, and whenever a snapshot is replaced or cleared, each
\* response and its invocation end in the same snapshot, unless two threads began the
\* same list (store_response).
THEOREM SnapshotsStayTogether == AgentSpec => []SnapshotsAgree
  <1>1. SnapshotInv => SnapshotsAgree
    <2> SUFFICES ASSUME SnapshotInv, NEW n \in Created
                 PROVE  /\ Stored(n) \subseteq invocations[n] \cup Tracking(n)
                        /\ ~(\E t \in AgentTools : <<n, t>> \in raced) => invocations[n] \subseteq Stored(n)
      BY DEF SnapshotsAgree
    <2>1. \A r : r \in Stored(n) <=> InSnapshot(n, r)
      BY DEF Stored, InSnapshot
    <2>2. \A r : r \in Tracking(n) <=> \E a \in Agents : Owes(a, n) /\ r = Response(a)
      BY DEF Tracking, Owes
    <2>3. Stored(n) \subseteq invocations[n] \cup Tracking(n)
      BY <2>1, <2>2 DEF SnapshotInv, ListedAreTracked
    <2>4. ~(\E t \in AgentTools : <<n, t>> \in raced) => invocations[n] \subseteq Stored(n)
      BY <2>1 DEF SnapshotInv, TrackedAreListed
    <2> QED BY <2>3, <2>4
  <1> QED BY InitSnapshots, SnapshotStep, <1>1, PTL DEF AgentSpec

------------------------------------------------------------------------------
(* CircuitBreaker                                                           *)

ThreadRecord ==
    [at : {"ready", "clock", "compare", "half", "run", "close", "reset", "count", "date",
           "stamp", "judge", "open"},
     read : Nat, calls : Nat]

BreakerTypeOK ==
    /\ now \in Nat /\ state \in {"CLOSED", "OPEN", "HALF_OPEN"}
    /\ failures \in Nat /\ lastFailure \in Nat /\ failed \in Nat /\ opened \in Nat
    /\ thread \in [Threads -> ThreadRecord]
    /\ alone \in BOOLEAN /\ held \in BOOLEAN

\* No failure is invented: neither by the number in the breaker, nor by the one that
\* a thread is about to write.
NoneInvented ==
    /\ failures <= failed
    /\ \A t \in Threads : thread[t].at = "count" => thread[t].read < failed

\* Whoever opens the breaker, or found it open, has seen enough failures.
Seen == {"clock", "compare", "half", "open"}
Cause ==
    /\ state # "CLOSED" => failed >= MaxFailures
    /\ \A t \in Threads : thread[t].at \in Seen => failed >= MaxFailures

\* Who decides after the opening finds a date that is no earlier than the one it was
\* opened with; so what it decides is timely.
Due == now > opened + ResetTimeout
Decided(t) ==
    /\ thread[t].at \in {"half", "close"} => Due
    /\ thread[t].at = "stamp" => thread[t].read >= opened

Holding ==
    /\ lastFailure <= now
    /\ \A t \in Threads : thread[t].at \in {"compare", "stamp"} => thread[t].read <= now
    /\ held => /\ opened <= lastFailure
               /\ state # "OPEN" => Due
               /\ \A t \in Threads \ stale : Decided(t)

\* Where the only call is, and what it means for the breaker.
Admitted == IF state = "CLOSED" THEN failures < MaxFailures
                                ELSE state = "HALF_OPEN" /\ failures >= MaxFailures
Timely == state = "CLOSED" \/ now > lastFailure + ResetTimeout
Where(t) ==
    /\ thread[t].at \in {"clock", "compare", "half"} => state = "OPEN" /\ failures >= MaxFailures
    /\ thread[t].at = "run" => Admitted
    /\ thread[t].at \in {"half", "run"} => Timely
    /\ thread[t].at = "close" => state = "HALF_OPEN"
    /\ thread[t].at = "reset" => state = "CLOSED"
    /\ thread[t].at = "count" => Admitted /\ thread[t].read = failures
    /\ thread[t].at \in {"date", "stamp", "judge"} =>
         state = "CLOSED" \/ (state = "HALF_OPEN" /\ failures >= MaxFailures)
    /\ thread[t].at = "open" => failures >= MaxFailures

Rested == /\ state \in {"CLOSED", "OPEN"}
          /\ state = "CLOSED" <=> failures < MaxFailures
OneByOne ==
    /\ \A t, u \in Busy : t = u
    /\ \A t \in Threads : Where(t)
    /\ Busy = {} => Rested

BreakerInv == BreakerTypeOK /\ NoneInvented /\ Cause /\ Holding /\ (alone => OneByOne)

LEMMA InitBreaker == BreakerInit => BreakerInv
  <1> SUFFICES ASSUME BreakerInit PROVE BreakerInv
    OBVIOUS
  <1>1. Waiting \in ThreadRecord /\ Waiting.at = "ready"
    BY DEF Waiting, ThreadRecord
  <1>2. /\ now = 0 /\ state = "CLOSED" /\ failures = 0 /\ lastFailure = 0 /\ alone = TRUE /\ failed = 0
        /\ opened = 0 /\ held = FALSE
        /\ thread \in [Threads -> ThreadRecord] /\ \A t \in Threads : thread[t].at = "ready"
    BY <1>1 DEF BreakerInit
  <1>3. BreakerTypeOK
    BY <1>2 DEF BreakerTypeOK
  <1>4. NoneInvented /\ Cause /\ Holding
    BY <1>2 DEF NoneInvented, Cause, Seen, Holding
  <1>5. Busy = {} /\ \A t \in Threads : Where(t)
    BY <1>2 DEF Busy, Where
  <1> QED BY <1>2, <1>3, <1>4, <1>5, BreakerAssumption DEF BreakerInv, OneByOne, Rested

\* The effect of a step of one thread on the threads.
LEMMA OneThread ==
  ASSUME BreakerTypeOK, NEW t \in Threads, NEW new \in ThreadRecord,
         thread' = [thread EXCEPT ![t] = new]
  PROVE  /\ thread' \in [Threads -> ThreadRecord] /\ thread'[t] = new
         /\ \A u \in Threads \ {t} : thread'[u] = thread[u]
         /\ Busy' = IF new.at = "ready" THEN Busy \ {t} ELSE Busy \cup {t}
  BY DEF BreakerTypeOK, Busy

LEMMA GoesWith ==
  ASSUME BreakerTypeOK, NEW t \in Threads, NEW n \in Nat, NEW at, GoWith(t, at, n),
         at \in {"ready", "compare", "half", "run", "close", "reset", "count", "date",
                 "stamp", "judge", "open"}
  PROVE  \E new \in ThreadRecord : /\ thread' = [thread EXCEPT ![t] = new]
                                   /\ new.at = at /\ new.read = n
  <1>c. thread[t] \in ThreadRecord
    BY DEF BreakerTypeOK
  <1>1. PICK new \in ThreadRecord : new = [thread[t] EXCEPT !.at = at, !.read = n]
    BY <1>c DEF ThreadRecord
  <1>2. thread' = [thread EXCEPT ![t] = new]
    BY <1>1 DEF GoWith
  <1> QED BY <1>c, <1>1, <1>2 DEF ThreadRecord

\* Of a call that is alone, all other threads are ready.
LEMMA OthersReady ==
  ASSUME BreakerTypeOK, OneByOne, NEW t \in Busy, NEW u \in Threads \ {t}
  PROVE  thread[u].at = "ready"
  BY DEF OneByOne, Busy

\* What a step of the call that is alone leaves of the others.
LEMMA StillOneByOne ==
  ASSUME BreakerTypeOK, OneByOne, NEW t \in Busy, NEW new \in ThreadRecord,
         thread' = [thread EXCEPT ![t] = new], Where(t)', new.at = "ready" => Rested'
  PROVE  OneByOne'
  <1>1. t \in Threads
    BY DEF Busy
  <1>2. /\ thread' \in [Threads -> ThreadRecord] /\ thread'[t] = new
        /\ \A u \in Threads \ {t} : thread'[u] = thread[u]
        /\ Busy' = IF new.at = "ready" THEN Busy \ {t} ELSE Busy \cup {t}
    BY <1>1, OneThread
  <1>3. \A u \in Threads \ {t} : thread'[u].at = "ready"
    BY <1>2, OthersReady
  <1>4. \A u \in Threads \ {t} : Where(u)'
    BY <1>3 DEF Where
  <1>5. (\A u, v \in Busy : u = v)'
    BY <1>2 DEF OneByOne
  <1>6. new.at # "ready" => Busy' # {}
    BY <1>2
  <1> QED BY <1>4, <1>5, <1>6 DEF OneByOne

\* What is to be shown of a step of one call in progress.
LEMMA CallMoves ==
  ASSUME BreakerInv, NEW t \in Busy, NEW new \in ThreadRecord,
         thread' = [thread EXCEPT ![t] = new], UNCHANGED <<now, alone>>,
         state' \in {"CLOSED", "OPEN", "HALF_OPEN"}, failures' \in Nat, lastFailure' \in Nat,
         failed' \in Nat, opened' \in Nat, held' \in BOOLEAN,
         failures' <= failed', failed <= failed', new.at = "count" => new.read < failed',
         state' # "CLOSED" \/ new.at \in Seen => failed' >= MaxFailures,
         Holding',
         alone /\ Where(t) => Where(t)' /\ (new.at = "ready" => Rested')
  PROVE  BreakerInv'
  <1>1. /\ t \in Threads /\ BreakerTypeOK /\ NoneInvented /\ Cause /\ (alone => OneByOne)
    BY DEF BreakerInv, Busy
  <1>2. /\ thread' \in [Threads -> ThreadRecord] /\ thread'[t] = new
        /\ \A u \in Threads \ {t} : thread'[u] = thread[u] /\ thread[u] \in ThreadRecord
    BY <1>1, OneThread DEF BreakerTypeOK
  <1>3. BreakerTypeOK'
    BY <1>1, <1>2 DEF BreakerTypeOK
  <1>4. NoneInvented'
    <2>1. ASSUME NEW u \in Threads \ {t}, thread[u].at = "count" PROVE thread[u].read < failed'
      <3>1. thread[u].read \in Nat /\ thread[u].read < failed
        BY <1>1, <1>2, <2>1 DEF NoneInvented, ThreadRecord
      <3> QED BY <1>1, <3>1 DEF BreakerTypeOK
    <2> QED BY <1>2, <2>1 DEF NoneInvented
  <1>5. Cause'
    <2>1. failed >= MaxFailures => failed' >= MaxFailures
      BY <1>1, BreakerAssumption DEF BreakerTypeOK
    <2> QED BY <1>1, <1>2, <2>1 DEF Cause
  <1>6. alone => OneByOne'
    BY <1>1, StillOneByOne DEF OneByOne
  <1> QED BY <1>3, <1>4, <1>5, <1>6 DEF BreakerInv

\* And of a step that leaves the date alone, or acts on what was decided.
LEMMA StillHolding ==
  ASSUME BreakerInv, NEW t \in Threads, NEW new \in ThreadRecord,
         thread' = [thread EXCEPT ![t] = new], UNCHANGED <<now, opened>>,
         lastFailure' \in Nat, lastFailure' <= now, new.at \in {"compare", "stamp"} => new.read <= now,
         held' => held /\ stale \subseteq stale' \cup {t}
                       /\ opened <= lastFailure' /\ (state' # "OPEN" => Due)
                       /\ (t \notin stale' /\ new.at \in {"half", "close"} => Due)
                       /\ (t \notin stale' /\ new.at = "stamp" => new.read >= opened)
  PROVE  Holding'
  <1>1. BreakerTypeOK /\ Holding /\ Due' = Due
    BY DEF BreakerInv, Due
  <1>2. thread'[t] = new /\ \A u \in Threads \ {t} : thread'[u] = thread[u]
    BY <1>1, OneThread
  <1>3. \A u \in Threads : thread'[u].at \in {"compare", "stamp"} => thread'[u].read <= now
    BY <1>1, <1>2 DEF Holding
  <1>4. ASSUME held', NEW u \in Threads \ stale' PROVE Decided(u)'
    <2>1. CASE u = t
      BY <1>1, <1>2, <1>4, <2>1 DEF Decided
    <2>2. CASE u # t
      <3>1. u \in Threads \ stale /\ Decided(u)
        BY <1>1, <1>4, <2>2 DEF Holding
      <3> QED BY <1>1, <1>2, <2>2, <3>1 DEF Decided
    <2> QED BY <2>1, <2>2
  <1> QED BY <1>1, <1>3, <1>4 DEF Holding

LEMMA BreakerStep == BreakerInv /\ [BreakerNext]_breakerVars => BreakerInv'
  <1> SUFFICES ASSUME BreakerInv, [BreakerNext]_breakerVars PROVE BreakerInv'
    OBVIOUS
  <1>i. BreakerTypeOK /\ NoneInvented /\ Cause /\ Holding /\ (alone => OneByOne)
    BY DEF BreakerInv
  <1>c. \A t \in Threads : thread[t] \in ThreadRecord
    BY <1>i DEF BreakerTypeOK
  <1>b. \A t \in Threads : t \in Busy <=> thread[t].at # "ready"
    BY DEF Busy
  <1>m. MaxFailures \in Nat /\ MaxFailures > 0 /\ ResetTimeout \in Nat
    BY BreakerAssumption
  <1>t. /\ now \in Nat /\ state \in {"CLOSED", "OPEN", "HALF_OPEN"} /\ failures \in Nat
        /\ lastFailure \in Nat /\ failed \in Nat /\ opened \in Nat /\ held \in BOOLEAN
        /\ failures <= failed /\ lastFailure <= now
    BY <1>i DEF BreakerTypeOK, NoneInvented, Holding
  <1>h. held => opened <= lastFailure /\ (state # "OPEN" => Due)
    BY <1>i DEF Holding
  <1>1. CASE TimePasses
    <2>1. now' = now + 1 /\ UNCHANGED <<state, failures, lastFailure, thread, past>>
      BY <1>1 DEF TimePasses
    <2>2. BreakerTypeOK' /\ NoneInvented' /\ Cause'
      BY <1>i, <2>1 DEF BreakerTypeOK, NoneInvented, Cause, past
    <2>3. Busy' = Busy
      BY <2>1 DEF Busy
    <2>4. (Timely => Timely') /\ (Due => Due')
      BY <1>m, <1>t, <2>1 DEF Timely, Due, past
    <2>5. ASSUME NEW t \in Threads, Where(t) PROVE Where(t)'
      BY <2>1, <2>4, <2>5 DEF Where, Admitted
    <2>6. alone => OneByOne'
      BY <1>i, <2>1, <2>3, <2>5 DEF OneByOne, Rested, past
    <2>7. Holding'
      <3>1. lastFailure' <= now' /\ now <= now'
        BY <1>t, <2>1
      <3>2. ASSUME NEW t \in Threads, thread'[t].at \in {"compare", "stamp"}
            PROVE  thread'[t].read <= now'
        <4>1. thread[t].read \in Nat /\ thread[t].read <= now
          BY <1>c, <1>i, <2>1, <3>2 DEF Holding, ThreadRecord
        <4> QED BY <1>t, <2>1, <4>1
      <3>3. ASSUME NEW t \in Threads, Decided(t) PROVE Decided(t)'
        BY <2>1, <2>4, <3>3 DEF Decided, past
      <3> QED BY <1>i, <2>1, <2>4, <3>1, <3>2, <3>3 DEF Holding, past
    <2> QED BY <2>1, <2>2, <2>6, <2>7 DEF BreakerInv, past
  <1>2. ASSUME NEW t \in Threads, Admit(t)
        PROVE  BreakerInv'
    <2>1. /\ thread[t].at = "ready"
          /\ UNCHANGED <<now, state, failures, lastFailure, failed, opened, stale, held>>
          /\ alone' = (alone /\ Busy = {})
      BY <1>2 DEF Admit
    <2>2. PICK new \in ThreadRecord : /\ thread' = [thread EXCEPT ![t] = new]
                                      /\ new.at = IF state = "OPEN" THEN "clock" ELSE "run"
      <3>c. PICK n \in Nat : n = thread[t].calls + 1
        BY <1>c DEF ThreadRecord
      <3>2. PICK new \in ThreadRecord :
              new = [thread[t] EXCEPT !.at = IF state = "OPEN" THEN "clock" ELSE "run", !.calls = n]
        BY <1>c DEF ThreadRecord
      <3>3. thread' = [thread EXCEPT ![t] = new]
        BY <1>2, <3>2, <3>c DEF Admit
      <3> QED BY <1>c, <3>2, <3>3 DEF ThreadRecord
    <2>3. /\ thread' \in [Threads -> ThreadRecord] /\ thread'[t] = new
          /\ \A u \in Threads \ {t} : thread'[u] = thread[u]
          /\ Busy' = IF new.at = "ready" THEN Busy \ {t} ELSE Busy \cup {t}
      BY <1>i, <2>2, OneThread
    <2>4. BreakerTypeOK'
      <3>1. alone' \in BOOLEAN
        BY <2>1
      <3> QED BY <1>i, <2>1, <2>3, <3>1 DEF BreakerTypeOK
    <2>5. NoneInvented' /\ Cause'
      BY <1>i, <2>1, <2>2, <2>3 DEF NoneInvented, Cause, Seen
    <2>6. ASSUME alone' PROVE OneByOne'
      <3>1. alone /\ Busy = {} /\ OneByOne
        BY <1>i, <2>1, <2>6
      <3>2. \A u \in Threads \ {t} : thread'[u].at = "ready"
        BY <1>b, <2>3, <3>1
      <3>3. \A u \in Threads \ {t} : Where(u)'
        BY <3>2 DEF Where
      <3>4. Busy' = {t}
        BY <2>2, <2>3, <3>1
      <3>7. state \in {"CLOSED", "OPEN"} /\ (state = "CLOSED" <=> failures < MaxFailures)
        BY <3>1 DEF OneByOne, Rested
      <3>8. CASE state = "CLOSED"
        <4>1. Where(t)'
          BY <2>1, <2>2, <2>3, <3>7, <3>8 DEF Where, Admitted, Timely
        <4> QED BY <3>3, <3>4, <4>1 DEF OneByOne
      <3>9. CASE state = "OPEN"
        <4>1. failures >= MaxFailures
          BY <1>m, <1>t, <3>7, <3>9
        <4>2. Where(t)'
          BY <2>1, <2>2, <2>3, <3>9, <4>1 DEF Where
        <4> QED BY <3>3, <3>4, <4>2 DEF OneByOne
      <3> QED BY <3>7, <3>8, <3>9
    <2>7. Holding'
      BY <1>h, <1>t, <2>1, <2>2, StillHolding
    <2> QED BY <2>4, <2>5, <2>6, <2>7 DEF BreakerInv
  <1>3. ASSUME NEW t \in Threads, ReadClock(t)
        PROVE  BreakerInv'
    <2>1. /\ thread[t].at = "clock" /\ GoWith(t, "compare", now)
          /\ UNCHANGED <<now, state, failures, lastFailure, past>>
      BY <1>3 DEF ReadClock
    <2>2. PICK new \in ThreadRecord : /\ thread' = [thread EXCEPT ![t] = new]
                                      /\ new.at = "compare" /\ new.read = now
      BY <1>i, <1>t, <2>1, GoesWith
    <2>3. thread'[t] = new /\ t \in Busy
      BY <1>b, <1>i, <2>1, <2>2, OneThread
    <2>4. /\ failures' \in Nat /\ failures' <= failed' /\ failed' \in Nat /\ failed <= failed'
          /\ state' # "CLOSED" \/ new.at \in Seen => failed' >= MaxFailures
      BY <1>i, <1>m, <1>t, <2>1, <2>2 DEF Cause, Seen, NoneInvented, past, Overrides
    <2>5. ASSUME alone, Where(t) PROVE Where(t)' /\ (new.at = "ready" => Rested')
      BY <1>i, <1>m, <1>t, <2>1, <2>2, <2>3, <2>5 DEF Where, Admitted, Timely, Rested
    <2>6. Holding'
      <3>1. UNCHANGED <<now, opened, lastFailure, state, stale, held>>
        BY <2>1 DEF past
      <3>2. new.read <= now /\ now' = now
        BY <1>t, <2>2, <3>1
      <3>3. held' => /\ held /\ stale \subseteq stale' \cup {t}
                     /\ opened <= lastFailure' /\ (state' # "OPEN" => Due)
        BY <1>h, <3>1
      <3> QED BY <1>t, <2>2, <3>1, <3>2, <3>3, StillHolding
    <2>7. /\ UNCHANGED <<now, alone>> /\ state' \in {"CLOSED", "OPEN", "HALF_OPEN"}
          /\ lastFailure' \in Nat /\ opened' \in Nat /\ held' \in BOOLEAN
          /\ new.at = "count" => new.read < failed'
      BY <1>c, <1>i, <1>t, <2>1, <2>2 DEF past, Overrides, ThreadRecord
    <2> QED BY <2>2, <2>3, <2>4, <2>5, <2>6, <2>7, CallMoves
  <1>4. ASSUME NEW t \in Threads, Compare(t)
        PROVE  BreakerInv'
    <2>1. /\ thread[t].at = "compare" /\ GoWith(t, IF Elapsed(t) THEN "half" ELSE "ready", 0)
          /\ UNCHANGED <<now, state, failures, lastFailure, past>>
      BY <1>4 DEF Compare, Go
    <2>2. PICK new \in ThreadRecord : /\ thread' = [thread EXCEPT ![t] = new]
                                      /\ new.at = (IF Elapsed(t) THEN "half" ELSE "ready") /\ new.read = 0
      BY <1>i, <1>t, <2>1, GoesWith
    <2>3. thread'[t] = new /\ t \in Busy
      BY <1>b, <1>i, <2>1, <2>2, OneThread
    <2>n. Elapsed(t) => now > lastFailure + ResetTimeout
      <3>1. thread[t].read \in Nat /\ thread[t].read <= now
        BY <1>c, <1>i, <2>1 DEF Holding, ThreadRecord
      <3> QED BY <1>m, <1>t, <3>1 DEF Elapsed
    <2>4. /\ failures' \in Nat /\ failures' <= failed' /\ failed' \in Nat /\ failed <= failed'
          /\ state' # "CLOSED" \/ new.at \in Seen => failed' >= MaxFailures
      BY <1>i, <1>m, <1>t, <2>1, <2>2, <2>n DEF Cause, Seen, NoneInvented, past, Overrides
    <2>5. ASSUME alone, Where(t) PROVE Where(t)' /\ (new.at = "ready" => Rested')
      BY <1>i, <1>m, <1>t, <2>1, <2>2, <2>3, <2>5, <2>n DEF Where, Admitted, Timely, Rested
    <2>6. Holding'
      <3>1. Elapsed(t) /\ held => Due
        <4>1. thread[t].read \in Nat /\ thread[t].read <= now
          BY <1>c, <1>i, <2>1 DEF Holding, ThreadRecord
        <4> QED BY <1>h, <1>m, <1>t, <4>1 DEF Elapsed, Due
      <3> QED BY <1>h, <1>t, <2>1, <2>2, <3>1, StillHolding DEF past
    <2>7. /\ UNCHANGED <<now, alone>> /\ state' \in {"CLOSED", "OPEN", "HALF_OPEN"}
          /\ lastFailure' \in Nat /\ opened' \in Nat /\ held' \in BOOLEAN
          /\ new.at = "count" => new.read < failed'
      BY <1>c, <1>i, <1>t, <2>1, <2>2, <2>n DEF past, Overrides, ThreadRecord
    <2> QED BY <2>2, <2>3, <2>4, <2>5, <2>6, <2>7, CallMoves
  <1>5. ASSUME NEW t \in Threads, HalfOpen(t)
        PROVE  BreakerInv'
    <2>1. /\ thread[t].at = "half" /\ GoWith(t, "run", 0) /\ state' = "HALF_OPEN"
          /\ Overrides(t)
          /\ UNCHANGED <<now, failures, lastFailure>>
      BY <1>5 DEF HalfOpen, Go
    <2>2. PICK new \in ThreadRecord : /\ thread' = [thread EXCEPT ![t] = new]
                                      /\ new.at = "run" /\ new.read = 0
      BY <1>i, <1>t, <2>1, GoesWith
    <2>3. thread'[t] = new /\ t \in Busy
      BY <1>b, <1>i, <2>1, <2>2, OneThread
    <2>4. /\ failures' \in Nat /\ failures' <= failed' /\ failed' \in Nat /\ failed <= failed'
          /\ state' # "CLOSED" \/ new.at \in Seen => failed' >= MaxFailures
      BY <1>i, <1>m, <1>t, <2>1, <2>2 DEF Cause, Seen, NoneInvented, past, Overrides
    <2>5. ASSUME alone, Where(t) PROVE Where(t)' /\ (new.at = "ready" => Rested')
      BY <1>i, <1>m, <1>t, <2>1, <2>2, <2>3, <2>5 DEF Where, Admitted, Timely, Rested, Overrides
    <2>6. Holding'
      <3>1. held' => held /\ t \notin stale /\ stale \subseteq stale' \cup {t}
        BY <2>1 DEF Overrides
      <3>2. held' => Due
        BY <1>i, <2>1, <3>1 DEF Holding, Decided
      <3> QED BY <1>h, <1>t, <2>1, <2>2, <3>1, <3>2, StillHolding DEF Overrides
    <2>7. /\ UNCHANGED <<now, alone>> /\ state' \in {"CLOSED", "OPEN", "HALF_OPEN"}
          /\ lastFailure' \in Nat /\ opened' \in Nat /\ held' \in BOOLEAN
          /\ new.at = "count" => new.read < failed'
      BY <1>c, <1>i, <1>t, <2>1, <2>2 DEF past, Overrides, ThreadRecord
    <2> QED BY <2>2, <2>3, <2>4, <2>5, <2>6, <2>7, CallMoves
  <1>6. ASSUME NEW t \in Threads, Succeed(t)
        PROVE  BreakerInv'
    <2>1. /\ thread[t].at = "run" /\ GoWith(t, IF state = "HALF_OPEN" THEN "close" ELSE "ready", 0)
          /\ UNCHANGED <<now, state, failures, lastFailure, alone, failed, opened, stale, held>>
      BY <1>6 DEF Succeed, Go, past
    <2>2. PICK new \in ThreadRecord : /\ thread' = [thread EXCEPT ![t] = new]
                                      /\ new.at = (IF state = "HALF_OPEN" THEN "close" ELSE "ready") /\ new.read = 0
      BY <1>i, <1>t, <2>1, GoesWith
    <2>3. thread'[t] = new /\ t \in Busy
      BY <1>b, <1>i, <2>1, <2>2, OneThread
    <2>4. /\ failures' \in Nat /\ failures' <= failed' /\ failed' \in Nat /\ failed <= failed'
          /\ state' # "CLOSED" \/ new.at \in Seen => failed' >= MaxFailures
      BY <1>i, <1>m, <1>t, <2>1, <2>2 DEF Cause, Seen, NoneInvented, past, Overrides
    <2>5. ASSUME alone, Where(t) PROVE Where(t)' /\ (new.at = "ready" => Rested')
      BY <1>i, <1>m, <1>t, <2>1, <2>2, <2>3, <2>5 DEF Where, Admitted, Timely, Rested
    <2>6. Holding'
      BY <1>h, <1>t, <2>1, <2>2, StillHolding
    <2>7. /\ UNCHANGED <<now, alone>> /\ state' \in {"CLOSED", "OPEN", "HALF_OPEN"}
          /\ lastFailure' \in Nat /\ opened' \in Nat /\ held' \in BOOLEAN
          /\ new.at = "count" => new.read < failed'
      BY <1>c, <1>i, <1>t, <2>1, <2>2 DEF past, Overrides, ThreadRecord
    <2> QED BY <2>2, <2>3, <2>4, <2>5, <2>6, <2>7, CallMoves
  <1>7. ASSUME NEW t \in Threads, CloseBreaker(t)
        PROVE  BreakerInv'
    <2>1. /\ thread[t].at = "close" /\ GoWith(t, "reset", 0) /\ state' = "CLOSED"
          /\ Overrides(t)
          /\ UNCHANGED <<now, failures, lastFailure>>
      BY <1>7 DEF CloseBreaker, Go
    <2>2. PICK new \in ThreadRecord : /\ thread' = [thread EXCEPT ![t] = new]
                                      /\ new.at = "reset" /\ new.read = 0
      BY <1>i, <1>t, <2>1, GoesWith
    <2>3. thread'[t] = new /\ t \in Busy
      BY <1>b, <1>i, <2>1, <2>2, OneThread
    <2>4. /\ failures' \in Nat /\ failures' <= failed' /\ failed' \in Nat /\ failed <= failed'
          /\ state' # "CLOSED" \/ new.at \in Seen => failed' >= MaxFailures
      BY <1>i, <1>m, <1>t, <2>1, <2>2 DEF Cause, Seen, NoneInvented, past, Overrides
    <2>5. ASSUME alone, Where(t) PROVE Where(t)' /\ (new.at = "ready" => Rested')
      BY <1>i, <1>m, <1>t, <2>1, <2>2, <2>3, <2>5 DEF Where, Admitted, Timely, Rested, Overrides
    <2>6. Holding'
      <3>1. held' => held /\ t \notin stale /\ stale \subseteq stale' \cup {t}
        BY <2>1 DEF Overrides
      <3>2. held' => Due
        BY <1>i, <2>1, <3>1 DEF Holding, Decided
      <3> QED BY <1>h, <1>t, <2>1, <2>2, <3>1, <3>2, StillHolding DEF Overrides
    <2>7. /\ UNCHANGED <<now, alone>> /\ state' \in {"CLOSED", "OPEN", "HALF_OPEN"}
          /\ lastFailure' \in Nat /\ opened' \in Nat /\ held' \in BOOLEAN
          /\ new.at = "count" => new.read < failed'
      BY <1>c, <1>i, <1>t, <2>1, <2>2 DEF past, Overrides, ThreadRecord
    <2> QED BY <2>2, <2>3, <2>4, <2>5, <2>6, <2>7, CallMoves
  <1>8. ASSUME NEW t \in Threads, ResetFailures(t)
        PROVE  BreakerInv'
    <2>1. /\ thread[t].at = "reset" /\ GoWith(t, "ready", 0) /\ failures' = 0
          /\ UNCHANGED <<now, state, lastFailure, past>>
      BY <1>8 DEF ResetFailures, Go, Reset
    <2>2. PICK new \in ThreadRecord : /\ thread' = [thread EXCEPT ![t] = new]
                                      /\ new.at = "ready" /\ new.read = 0
      BY <1>i, <1>t, <2>1, GoesWith
    <2>3. thread'[t] = new /\ t \in Busy
      BY <1>b, <1>i, <2>1, <2>2, OneThread
    <2>4. /\ failures' \in Nat /\ failures' <= failed' /\ failed' \in Nat /\ failed <= failed'
          /\ state' # "CLOSED" \/ new.at \in Seen => failed' >= MaxFailures
      BY <1>i, <1>m, <1>t, <2>1, <2>2 DEF Cause, Seen, NoneInvented, past, Overrides
    <2>5. ASSUME alone, Where(t) PROVE Where(t)' /\ (new.at = "ready" => Rested')
      BY <1>i, <1>m, <1>t, <2>1, <2>2, <2>3, <2>5 DEF Where, Admitted, Timely, Rested
    <2>6. Holding'
      BY <1>h, <1>t, <2>1, <2>2, StillHolding DEF past
    <2>7. /\ UNCHANGED <<now, alone>> /\ state' \in {"CLOSED", "OPEN", "HALF_OPEN"}
          /\ lastFailure' \in Nat /\ opened' \in Nat /\ held' \in BOOLEAN
          /\ new.at = "count" => new.read < failed'
      BY <1>c, <1>i, <1>t, <2>1, <2>2 DEF past, Overrides, ThreadRecord
    <2> QED BY <2>2, <2>3, <2>4, <2>5, <2>6, <2>7, CallMoves
  <1>9. ASSUME NEW t \in Threads, Fail(t)
        PROVE  BreakerInv'
    <2>1. /\ thread[t].at = "run" /\ GoWith(t, "count", failures) /\ failed' = failed + 1
          /\ UNCHANGED <<now, state, failures, lastFailure, alone, opened, stale, held>>
      BY <1>9 DEF Fail
    <2>2. PICK new \in ThreadRecord : /\ thread' = [thread EXCEPT ![t] = new]
                                      /\ new.at = "count" /\ new.read = failures
      BY <1>i, <1>t, <2>1, GoesWith
    <2>3. thread'[t] = new /\ t \in Busy
      BY <1>b, <1>i, <2>1, <2>2, OneThread
    <2>4. /\ failures' \in Nat /\ failures' <= failed' /\ failed' \in Nat /\ failed <= failed'
          /\ state' # "CLOSED" \/ new.at \in Seen => failed' >= MaxFailures
      BY <1>i, <1>m, <1>t, <2>1, <2>2 DEF Cause, Seen, NoneInvented, past, Overrides
    <2>5. ASSUME alone, Where(t) PROVE Where(t)' /\ (new.at = "ready" => Rested')
      BY <1>i, <1>m, <1>t, <2>1, <2>2, <2>3, <2>5 DEF Where, Admitted, Timely, Rested
    <2>6. Holding'
      BY <1>h, <1>t, <2>1, <2>2, StillHolding
    <2>7. /\ UNCHANGED <<now, alone>> /\ state' \in {"CLOSED", "OPEN", "HALF_OPEN"}
          /\ lastFailure' \in Nat /\ opened' \in Nat /\ held' \in BOOLEAN
          /\ new.at = "count" => new.read < failed'
      BY <1>c, <1>i, <1>t, <2>1, <2>2 DEF past, Overrides, ThreadRecord
    <2> QED BY <2>2, <2>3, <2>4, <2>5, <2>6, <2>7, CallMoves
  <1>10. ASSUME NEW t \in Threads, CountFailure(t)
        PROVE  BreakerInv'
    <2>1. /\ thread[t].at = "count" /\ GoWith(t, "date", 0) /\ failures' = thread[t].read + 1
          /\ UNCHANGED <<now, state, lastFailure, past>>
      BY <1>10 DEF CountFailure, Go
    <2>2. PICK new \in ThreadRecord : /\ thread' = [thread EXCEPT ![t] = new]
                                      /\ new.at = "date" /\ new.read = 0
      BY <1>i, <1>t, <2>1, GoesWith
    <2>3. thread'[t] = new /\ t \in Busy
      BY <1>b, <1>i, <2>1, <2>2, OneThread
    <2>n. thread[t].read \in Nat /\ thread[t].read < failed
      BY <1>c, <1>i, <2>1 DEF ThreadRecord, NoneInvented
    <2>4. /\ failures' \in Nat /\ failures' <= failed' /\ failed' \in Nat /\ failed <= failed'
          /\ state' # "CLOSED" \/ new.at \in Seen => failed' >= MaxFailures
      BY <1>i, <1>m, <1>t, <2>1, <2>2, <2>n DEF Cause, Seen, NoneInvented, past, Overrides
    <2>5. ASSUME alone, Where(t) PROVE Where(t)' /\ (new.at = "ready" => Rested')
      BY <1>i, <1>m, <1>t, <2>1, <2>2, <2>3, <2>5, <2>n DEF Where, Admitted, Timely, Rested
    <2>6. Holding'
      BY <1>h, <1>t, <2>1, <2>2, StillHolding DEF past
    <2>7. /\ UNCHANGED <<now, alone>> /\ state' \in {"CLOSED", "OPEN", "HALF_OPEN"}
          /\ lastFailure' \in Nat /\ opened' \in Nat /\ held' \in BOOLEAN
          /\ new.at = "count" => new.read < failed'
      BY <1>c, <1>i, <1>t, <2>1, <2>2, <2>n DEF past, Overrides, ThreadRecord
    <2> QED BY <2>2, <2>3, <2>4, <2>5, <2>6, <2>7, CallMoves
  <1>11. ASSUME NEW t \in Threads, TimeFailure(t)
        PROVE  BreakerInv'
    <2>1. /\ thread[t].at = "date" /\ GoWith(t, "stamp", now)
          /\ UNCHANGED <<now, state, failures, lastFailure, past>>
      BY <1>11 DEF TimeFailure
    <2>2. PICK new \in ThreadRecord : /\ thread' = [thread EXCEPT ![t] = new]
                                      /\ new.at = "stamp" /\ new.read = now
      BY <1>i, <1>t, <2>1, GoesWith
    <2>3. thread'[t] = new /\ t \in Busy
      BY <1>b, <1>i, <2>1, <2>2, OneThread
    <2>4. /\ failures' \in Nat /\ failures' <= failed' /\ failed' \in Nat /\ failed <= failed'
          /\ state' # "CLOSED" \/ new.at \in Seen => failed' >= MaxFailures
      BY <1>i, <1>m, <1>t, <2>1, <2>2 DEF Cause, Seen, NoneInvented, past, Overrides
    <2>5. ASSUME alone, Where(t) PROVE Where(t)' /\ (new.at = "ready" => Rested')
      BY <1>i, <1>m, <1>t, <2>1, <2>2, <2>3, <2>5 DEF Where, Admitted, Timely, Rested
    <2>6. Holding'
      <3>1. UNCHANGED <<now, opened, lastFailure, state, stale, held>>
        BY <2>1 DEF past
      <3>2. new.read <= now /\ now' = now
        BY <1>t, <2>2, <3>1
      <3>3. held' => /\ held /\ stale \subseteq stale' \cup {t}
                     /\ opened <= lastFailure' /\ (state' # "OPEN" => Due)
                     /\ new.read >= opened
        BY <1>h, <1>t, <2>2, <3>1
      <3> QED BY <1>t, <2>2, <3>1, <3>2, <3>3, StillHolding
    <2>7. /\ UNCHANGED <<now, alone>> /\ state' \in {"CLOSED", "OPEN", "HALF_OPEN"}
          /\ lastFailure' \in Nat /\ opened' \in Nat /\ held' \in BOOLEAN
          /\ new.at = "count" => new.read < failed'
      BY <1>c, <1>i, <1>t, <2>1, <2>2 DEF past, Overrides, ThreadRecord
    <2> QED BY <2>2, <2>3, <2>4, <2>5, <2>6, <2>7, CallMoves
  <1>12. ASSUME NEW t \in Threads, DateFailure(t)
        PROVE  BreakerInv'
    <2>1. /\ thread[t].at = "stamp" /\ GoWith(t, "judge", 0) /\ lastFailure' = thread[t].read
          /\ Overrides(t)
          /\ UNCHANGED <<now, state, failures>>
      BY <1>12 DEF DateFailure, Go
    <2>2. PICK new \in ThreadRecord : /\ thread' = [thread EXCEPT ![t] = new]
                                      /\ new.at = "judge" /\ new.read = 0
      BY <1>i, <1>t, <2>1, GoesWith
    <2>3. thread'[t] = new /\ t \in Busy
      BY <1>b, <1>i, <2>1, <2>2, OneThread
    <2>n. thread[t].read \in Nat /\ thread[t].read <= now
      BY <1>c, <1>i, <2>1 DEF ThreadRecord, Holding
    <2>4. /\ failures' \in Nat /\ failures' <= failed' /\ failed' \in Nat /\ failed <= failed'
          /\ state' # "CLOSED" \/ new.at \in Seen => failed' >= MaxFailures
      BY <1>i, <1>m, <1>t, <2>1, <2>2, <2>n DEF Cause, Seen, NoneInvented, past, Overrides
    <2>5. ASSUME alone, Where(t) PROVE Where(t)' /\ (new.at = "ready" => Rested')
      BY <1>i, <1>m, <1>t, <2>1, <2>2, <2>3, <2>5, <2>n DEF Where, Admitted, Timely, Rested, Overrides
    <2>6. Holding'
      <3>1. held' => held /\ t \notin stale /\ stale \subseteq stale' \cup {t}
        BY <2>1 DEF Overrides
      <3>2. held' => opened <= lastFailure'
        BY <1>i, <1>t, <2>1, <2>n, <3>1 DEF Holding, Decided
      <3> QED BY <1>h, <1>t, <2>1, <2>2, <2>n, <3>1, <3>2, StillHolding DEF Overrides
    <2>7. /\ UNCHANGED <<now, alone>> /\ state' \in {"CLOSED", "OPEN", "HALF_OPEN"}
          /\ lastFailure' \in Nat /\ opened' \in Nat /\ held' \in BOOLEAN
          /\ new.at = "count" => new.read < failed'
      BY <1>c, <1>i, <1>t, <2>1, <2>2, <2>n DEF past, Overrides, ThreadRecord
    <2> QED BY <2>2, <2>3, <2>4, <2>5, <2>6, <2>7, CallMoves
  <1>13. ASSUME NEW t \in Threads, Judge(t)
        PROVE  BreakerInv'
    <2>1. /\ thread[t].at = "judge" /\ GoWith(t, IF TooMany THEN "open" ELSE "ready", 0)
          /\ UNCHANGED <<now, state, failures, lastFailure, past>>
      BY <1>13 DEF Judge, Go
    <2>2. PICK new \in ThreadRecord : /\ thread' = [thread EXCEPT ![t] = new]
                                      /\ new.at = (IF TooMany THEN "open" ELSE "ready") /\ new.read = 0
      BY <1>i, <1>t, <2>1, GoesWith
    <2>3. thread'[t] = new /\ t \in Busy
      BY <1>b, <1>i, <2>1, <2>2, OneThread
    <2>4. /\ failures' \in Nat /\ failures' <= failed' /\ failed' \in Nat /\ failed <= failed'
          /\ state' # "CLOSED" \/ new.at \in Seen => failed' >= MaxFailures
      BY <1>i, <1>m, <1>t, <2>1, <2>2 DEF Cause, Seen, NoneInvented, past, Overrides, TooMany
    <2>5. ASSUME alone, Where(t) PROVE Where(t)' /\ (new.at = "ready" => Rested')
      BY <1>i, <1>m, <1>t, <2>1, <2>2, <2>3, <2>5 DEF Where, Admitted, Timely, Rested, TooMany
    <2>6. Holding'
      BY <1>h, <1>t, <2>1, <2>2, StillHolding DEF past
    <2>7. /\ UNCHANGED <<now, alone>> /\ state' \in {"CLOSED", "OPEN", "HALF_OPEN"}
          /\ lastFailure' \in Nat /\ opened' \in Nat /\ held' \in BOOLEAN
          /\ new.at = "count" => new.read < failed'
      BY <1>c, <1>i, <1>t, <2>1, <2>2 DEF past, Overrides, ThreadRecord
    <2> QED BY <2>2, <2>3, <2>4, <2>5, <2>6, <2>7, CallMoves
  <1>14. ASSUME NEW t \in Threads, OpenBreaker(t)
        PROVE  BreakerInv'
    <2>1. /\ thread[t].at = "open" /\ GoWith(t, "ready", 0) /\ state' = "OPEN"
          /\ held' = TRUE /\ opened' = lastFailure /\ stale' = {u \in Threads : ~Undecided(u)}
          /\ UNCHANGED <<now, failures, lastFailure, alone, failed>>
      BY <1>14 DEF OpenBreaker, Go
    <2>2. PICK new \in ThreadRecord : /\ thread' = [thread EXCEPT ![t] = new]
                                      /\ new.at = "ready" /\ new.read = 0
      BY <1>i, <1>t, <2>1, GoesWith
    <2>3. thread'[t] = new /\ t \in Busy
      BY <1>b, <1>i, <2>1, <2>2, OneThread
    <2>4. /\ failures' \in Nat /\ failures' <= failed' /\ failed' \in Nat /\ failed <= failed'
          /\ state' # "CLOSED" \/ new.at \in Seen => failed' >= MaxFailures
      BY <1>i, <1>m, <1>t, <2>1, <2>2 DEF Cause, Seen, NoneInvented, past, Overrides
    <2>5. ASSUME alone, Where(t) PROVE Where(t)' /\ (new.at = "ready" => Rested')
      BY <1>i, <1>m, <1>t, <2>1, <2>2, <2>3, <2>5 DEF Where, Admitted, Timely, Rested
    <2>6. Holding'
      <3>1. \A u \in Threads \ {t} : thread'[u] = thread[u]
        BY <1>i, <2>2, OneThread
      <3>2. \A u \in Threads : thread'[u].at \in {"compare", "stamp"} => thread'[u].read <= now
        BY <1>i, <2>2, <2>3, <3>1 DEF Holding
      <3>3. ASSUME NEW u \in Threads \ stale' PROVE Decided(u)'
        BY <2>1, <2>2, <2>3, <3>1, <3>3 DEF Decided, Undecided
      <3> QED BY <1>t, <2>1, <3>2, <3>3 DEF Holding
    <2>7. /\ UNCHANGED <<now, alone>> /\ state' \in {"CLOSED", "OPEN", "HALF_OPEN"}
          /\ lastFailure' \in Nat /\ opened' \in Nat /\ held' \in BOOLEAN
          /\ new.at = "count" => new.read < failed'
      BY <1>c, <1>i, <1>t, <2>1, <2>2 DEF past, Overrides, ThreadRecord
    <2> QED BY <2>2, <2>3, <2>4, <2>5, <2>6, <2>7, CallMoves
  <1>15. CASE UNCHANGED breakerVars
    <2>1. Busy' = Busy /\ \A t \in Threads : (Where(t) => Where(t)') /\ (Decided(t) => Decided(t)')
      BY <1>15 DEF breakerVars, past, Busy, Where, Admitted, Timely, Decided, Due
    <2>2. BreakerTypeOK' /\ NoneInvented' /\ Cause' /\ alone' = alone
      BY <1>15, <1>i DEF breakerVars, past, BreakerTypeOK, NoneInvented, Cause
    <2>3. Holding'
      BY <1>15, <1>i, <2>1 DEF breakerVars, past, Holding, Due
    <2>4. alone => OneByOne'
      BY <1>15, <1>i, <2>1 DEF breakerVars, OneByOne, Rested
    <2> QED BY <2>2, <2>3, <2>4 DEF BreakerInv
  <1> QED
    BY <1>1, <1>2, <1>3, <1>4, <1>5, <1>6, <1>7, <1>8, <1>9, <1>10, <1>11, <1>12, <1>13, <1>14,
       <1>15 DEF BreakerNext

\* However the calls of several threads interleave, the breaker opens only after as
\* many failures as the maximum, and used by one call at a time it is closed exactly
\* while it counts less, and lets none through too early (call).
THEOREM OpeningHasCause == BreakerSpec => []OpensForCause
  <1>1. BreakerInv => OpensForCause
    <2> SUFFICES ASSUME BreakerInv PROVE OpensForCause
      OBVIOUS
    <2>1. failures <= failed /\ (state # "CLOSED" => failed >= MaxFailures)
      BY DEF BreakerInv, NoneInvented, Cause
    <2>2. ASSUME alone, Busy = {} PROVE state = "CLOSED" <=> failures < MaxFailures
      BY <2>2 DEF BreakerInv, OneByOne, Rested
    <2>3. ASSUME alone, NEW t \in Threads, thread[t].at = "run"
          PROVE  state = "CLOSED" \/ (state = "HALF_OPEN" /\ now > lastFailure + ResetTimeout)
      BY <2>3 DEF BreakerInv, OneByOne, Where, Admitted, Timely
    <2> QED BY <2>1, <2>2, <2>3 DEF OpensForCause
  <1> QED BY InitBreaker, BreakerStep, <1>1, PTL DEF BreakerSpec

\* Whatever the number of threads, an open breaker holds for its timeout, unless a call
\* undoes it that had decided to before it was opened (call).
THEOREM BreakerHolds == BreakerSpec => []OpenHolds
  <1>1. BreakerInv => OpenHolds
    BY DEF BreakerInv, Holding, Due, OpenHolds
  <1> QED BY InitBreaker, BreakerStep, <1>1, PTL DEF BreakerSpec
==============================================================================
