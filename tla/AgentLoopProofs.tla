---------------------------- MODULE AgentLoopProofs ----------------------------
(***************************************************************************)
(* Proofs about AgentLoop, for every number of tool uses in a message, of  *)
(* steps and of places in the prompts' queues, and for every set of        *)
(* messages the models may send.                                           *)
(***************************************************************************)
EXTENDS AgentLoop, SequenceProofs

-----------------------------------------------------------------------------
Manager == [queue : Seq(Execs \X Uses), current : (Execs \X Uses) \cup {NoRequest}]

(* A prompt's queue is within its limit and holds no request twice, nor    *)
(* the one that is shown; and something is shown if something waits.       *)
Listed(m) ==
  m \in Manager /\ Len(m.queue) <= MAX_QUEUE_SIZE /\ Distinct(m.queue) /\ m.current \notin ToSet(m.queue)

Orderly(m) == Listed(m) /\ (m.current = NoRequest => m.queue = << >>)

(* The requests of a prompt are requests.                                  *)
LEMMA OpenIs ==
  ASSUME NEW m \in Manager
  PROVE  Open(m) \subseteq Execs \X Uses /\ NoRequest \notin Execs \X Uses
BY LoopAssumption DEF Open, Manager, ToSet, Uses

(* Showing the next request changes none of them.                          *)
LEMMA ProcessIs ==
  ASSUME NEW m, Listed(m)
  PROVE  Orderly(Process(m)) /\ Open(Process(m)) = Open(m)
<1>1. NoRequest \notin Execs \X Uses
  BY LoopAssumption DEF Uses
<1> DEFINE q == m.queue
<1>2. q \in Seq(Execs \X Uses) /\ Len(q) <= MAX_QUEUE_SIZE /\ Len(q) \in Nat /\ DOMAIN q = 1 .. Len(q)
  BY DEF Listed, Manager
<1>3. CASE m.current = NoRequest /\ q # << >>
  <2> DEFINE n == [queue |-> Tail(q), current |-> Head(q)]
  <2>1. /\ Tail(q) \in Seq(Execs \X Uses) /\ Len(Tail(q)) = Len(q) - 1 /\ Head(q) = q[1] /\ q[1] \in Execs \X Uses
        /\ DOMAIN Tail(q) = 1 .. Len(q) - 1 /\ 1 \in DOMAIN q
        /\ \A i \in 1 .. Len(q) - 1 : Tail(q)[i] = q[i + 1] /\ i + 1 \in DOMAIN q /\ i + 1 # 1
    BY <1>2, <1>3
  <2>2. Distinct(Tail(q))
    <3> SUFFICES ASSUME NEW i \in 1 .. Len(q) - 1, NEW j \in 1 .. Len(q) - 1, Tail(q)[i] = Tail(q)[j]  PROVE i = j
      BY <2>1 DEF Distinct
    <3>1. i + 1 = j + 1
      BY <2>1 DEF Listed, Distinct
    <3> QED
      BY <1>2, <3>1
  <2>3. q[1] \notin ToSet(Tail(q))
    BY <2>1 DEF Listed, Distinct, ToSet
  <2>4. ToSet(q) = ToSet(Tail(q)) \cup {q[1]}
    <3>1. \A i \in DOMAIN q : i = 1 \/ (i - 1 \in 1 .. Len(q) - 1 /\ (i - 1) + 1 = i)
      BY <1>2
    <3>2. \A i \in DOMAIN q : q[i] \in ToSet(Tail(q)) \cup {q[1]}
      BY <2>1, <3>1 DEF ToSet
    <3> QED
      BY <2>1, <3>2 DEF ToSet
  <2>5. Process(m) = n
    BY <1>3 DEF Process
  <2>6. n.queue = Tail(q) /\ n.current = q[1] /\ n \in Manager
    BY <2>1 DEF Manager
  <2>7. Len(n.queue) <= MAX_QUEUE_SIZE
    BY <1>2, <2>1, <2>6, QueueAssumption
  <2> HIDE DEF n, q
  <2>8. Orderly(n)
    BY <1>1, <2>1, <2>2, <2>3, <2>6, <2>7 DEF Orderly, Listed
  <2>9. Open(n) = Open(m)
    BY <1>1, <1>3, <2>1, <2>4, <2>6 DEF Open, q
  <2> QED
    BY <2>5, <2>8, <2>9
<1>4. CASE ~(m.current = NoRequest /\ q # << >>)
  BY <1>4 DEF Process, Orderly
<1> QED
  BY <1>3, <1>4

(* A request that is asked is open or turned down.                         *)
LEMMA AskIs ==
  ASSUME NEW m, Orderly(m), NEW r \in Execs \X Uses, r \notin Open(m)
  PROVE  /\ Orderly(Ask(m, r))
         /\ Open(m) \subseteq Open(Ask(m, r)) /\ Open(Ask(m, r)) \subseteq Open(m) \cup {r}
<1>1. CASE Len(m.queue) >= MAX_QUEUE_SIZE
  BY <1>1 DEF Ask
<1>2. CASE ~(Len(m.queue) >= MAX_QUEUE_SIZE)
  <2> DEFINE q == m.queue
             n == [queue |-> Append(q, r), current |-> m.current]
  <2>1. m \in Manager /\ q \in Seq(Execs \X Uses) /\ Len(q) \in Nat /\ DOMAIN q = 1 .. Len(q)
    BY DEF Orderly, Listed, Manager
  <2>2. /\ Append(q, r) \in Seq(Execs \X Uses) /\ Len(Append(q, r)) = Len(q) + 1
        /\ DOMAIN Append(q, r) = 1 .. Len(q) + 1
        /\ \A i \in 1 .. Len(q) : Append(q, r)[i] = q[i]
        /\ Append(q, r)[Len(q) + 1] = r
    BY <2>1
  <2>3. \A i \in 1 .. Len(q) + 1 : i \in 1 .. Len(q) \/ i = Len(q) + 1
    BY <2>1
  <2>4. r \notin ToSet(q)
    BY DEF Open
  <2>5. Distinct(Append(q, r))
    BY <2>1, <2>2, <2>3, <2>4 DEF Distinct, Orderly, Listed, ToSet
  <2>6. ToSet(Append(q, r)) = ToSet(q) \cup {r}
    <3>1. Len(q) + 1 \in 1 .. Len(q) + 1 /\ \A i \in 1 .. Len(q) : i \in 1 .. Len(q) + 1
      BY <2>1
    <3> QED
      BY <2>1, <2>2, <2>3, <3>1 DEF ToSet
  <2>7. m.current # r
    BY LoopAssumption DEF Open, Uses
  <2>8. Len(Append(q, r)) <= MAX_QUEUE_SIZE
    BY <1>2, <2>1, <2>2, QueueAssumption
  <2>9. [m EXCEPT !.queue = Append(@, r)] = n
    <3>1. \A v : [m EXCEPT !.queue = v] = [queue |-> v, current |-> m.current]
      BY <2>1 DEF Manager
    <3> QED
      BY <3>1
  <2>10. n.queue = Append(q, r) /\ n.current = m.current /\ n \in Manager
    BY <2>1, <2>2 DEF Manager
  <2>11. Ask(m, r) = Process(n)
    BY <1>2, <2>9 DEF Ask
  <2> HIDE DEF n
  <2>12. Listed(n)
    BY <2>5, <2>6, <2>7, <2>8, <2>10 DEF Listed, Orderly
  <2>13. Open(n) = Open(m) \cup {r}
    BY <2>6, <2>10 DEF Open
  <2> QED
    BY <2>11, <2>12, <2>13, ProcessIs
<1> QED
  BY <1>1, <1>2

(* An answer closes the request that is shown.                             *)
LEMMA RespondIs ==
  ASSUME NEW m, Orderly(m)
  PROVE  Orderly(Respond(m)) /\ Open(Respond(m)) = Open(m) \ {m.current}
<1> DEFINE n == [queue |-> m.queue, current |-> NoRequest]
<1>1. m \in Manager /\ NoRequest \notin Execs \X Uses
  BY LoopAssumption DEF Orderly, Listed, Uses
<1>2. [m EXCEPT !.current = NoRequest] = n /\ n \in Manager /\ n.queue = m.queue /\ n.current = NoRequest
  BY <1>1 DEF Manager
<1>3. ToSet(m.queue) \subseteq Execs \X Uses
  BY <1>1 DEF Manager, ToSet
<1>4. Respond(m) = Process(n)
  BY <1>2 DEF Respond
<1> HIDE DEF n
<1>5. Listed(n)
  BY <1>1, <1>2, <1>3 DEF Listed, Orderly
<1>6. Open(n) = Open(m) \ {m.current}
  BY <1>1, <1>2, <1>3 DEF Open, Orderly, Listed
<1> QED
  BY <1>4, <1>5, <1>6, ProcessIs

(* The requests that are withdrawn are closed, and no others.              *)
LEMMA WithdrawIs ==
  ASSUME NEW m, Orderly(m), NEW R, R \subseteq Execs \X Uses
  PROVE  Orderly(Withdraw(m, R)) /\ Open(Withdraw(m, R)) = Open(m) \ R
<1> DEFINE k == Kept(m.queue, ToSet(m.queue) \ R)
           c == IF m.current \in R THEN NoRequest ELSE m.current
           n == [queue |-> k, current |-> c]
<1>1. m \in Manager /\ NoRequest \notin Execs \X Uses /\ m.queue \in Seq(Execs \X Uses) /\ Len(m.queue) \in Nat
  BY LoopAssumption DEF Orderly, Listed, Uses, Manager
<1>2. /\ k \in Seq(Execs \X Uses) /\ Len(k) <= Len(m.queue) /\ Len(k) \in Nat
      /\ ToSet(k) = ToSet(m.queue) \cap (ToSet(m.queue) \ R)
      /\ Distinct(m.queue) => Distinct(k)
  BY <1>1, KeptIs
<1>3. ToSet(m.queue) \subseteq Execs \X Uses
  BY <1>1 DEF ToSet
<1>4. Withdraw(m, R) = Process(n)
  BY DEF Withdraw
<1>5. c \in (Execs \X Uses) \cup {NoRequest}
  BY <1>1 DEF Manager
<1>6. n.queue = k /\ n.current = c /\ n \in Manager
  BY <1>2, <1>5 DEF Manager
<1>7. Len(k) <= MAX_QUEUE_SIZE
  BY <1>1, <1>2, QueueAssumption DEF Orderly, Listed
<1> HIDE DEF n, k
<1>8. Listed(n)
  BY <1>1, <1>2, <1>3, <1>6, <1>7 DEF Listed, Orderly
<1>9. Open(n) = Open(m) \ R
  BY <1>1, <1>2, <1>3, <1>6 DEF Open
<1> QED
  BY <1>4, <1>8, <1>9, ProcessIs

(* A prompt stays a prompt.                                                *)
LEMMA AskType ==
  ASSUME NEW m \in Manager, NEW r \in Execs \X Uses
  PROVE  Ask(m, r) \in Manager
<1> DEFINE q == Append(m.queue, r)
<1>1. \A v : [m EXCEPT !.queue = v] = [queue |-> v, current |-> m.current]
  BY DEF Manager
<1>2. q \in Seq(Execs \X Uses)
  BY DEF Manager
<1>3. q # << >> => Tail(q) \in Seq(Execs \X Uses) /\ Head(q) \in Execs \X Uses
  BY <1>2
<1>4. [queue |-> q, current |-> m.current] \in Manager
  BY <1>2 DEF Manager
<1>5. [m EXCEPT !.queue = Append(@, r)] = [queue |-> q, current |-> m.current]
  BY <1>1
<1> HIDE DEF q
<1>6. q # << >> => [queue |-> Tail(q), current |-> Head(q)] \in Manager
  BY <1>3 DEF Manager
<1> QED
  BY <1>4, <1>5, <1>6 DEF Ask, Process

(* A function that asks one request after the other.                       *)
Asks(f, m, rs) ==
  /\ f[0] = m
  /\ \A n \in 1 .. Len(rs) : f[n] = Ask(f[n - 1], rs[n])

(* AskAll, as the last value of its recursion.                             *)
LEMMA AskAllBy ==
  ASSUME NEW m \in Manager, NEW rs \in Seq(Execs \X Uses)
  PROVE  \E f : Asks(f, m, rs) /\ AskAll(m, rs) = f[Len(rs)]
<1> DEFINE asked[n \in 0 .. Len(rs)] == IF n = 0 THEN m ELSE Ask(asked[n - 1], rs[n])
<1>1. AskAll(m, rs) = asked[Len(rs)]
  BY DEF AskAll
<1> DEFINE N == Len(rs)
           g == [x \in (1 .. N) \X Manager |-> Ask(x[2], rs[x[1]])]
<1>2. N \in Nat /\ \A n \in 1 .. N : rs[n] \in Execs \X Uses
  OBVIOUS
<1>3. IsRule(g, N, Manager)
  BY <1>2, AskType DEF IsRule
<1>4. PICK f : Follows(f, g, N, Manager, m)
  <2> HIDE DEF g, N
  <2> QED
    BY <1>2, <1>3, Recursion
<1>5. f \in [0 .. N -> Manager] /\ f[0] = m /\ \A n \in 1 .. N : f[n] = Ask(f[n - 1], rs[n])
  <2>1. f \in [0 .. N -> Manager] /\ f[0] = m /\ \A n \in 1 .. N : f[n] = g[<<n, f[n - 1]>>]
    BY <1>4 DEF Follows
  <2>2. ASSUME NEW n \in 1 .. N  PROVE f[n] = Ask(f[n - 1], rs[n])
    <3>1. n - 1 \in 0 .. N
      BY <1>2
    <3> QED
      BY <2>1, <3>1
  <2> QED
    BY <2>1, <2>2
<1>6. f = [n \in 0 .. N |-> IF n = 0 THEN m ELSE Ask(f[n - 1], rs[n])]
  <2>1. \A n \in 0 .. N : n # 0 => n \in 1 .. N
    BY <1>2
  <2> QED
    BY <1>5, <2>1
<1>7. asked = [n \in 0 .. N |-> IF n = 0 THEN m ELSE Ask(asked[n - 1], rs[n])]
  BY <1>6
<1> HIDE DEF asked
<1>8. Asks(asked, m, rs)
  <2>1. \A n \in 1 .. N : n \in 0 .. N /\ n # 0
    BY <1>2
  <2>2. 0 \in 0 .. N
    BY <1>2
  <2> QED
    BY <1>7, <2>1, <2>2 DEF Asks
<1> QED
  BY <1>1, <1>8

(* Of the requests that are asked in a row some are open, and the prompt   *)
(* is as orderly as it was.                                                *)
LEMMA AskAllIs ==
  ASSUME NEW m, Orderly(m), NEW rs \in Seq(Execs \X Uses), Distinct(rs), ToSet(rs) \cap Open(m) = {}
  PROVE  /\ Orderly(AskAll(m, rs))
         /\ Open(m) \subseteq Open(AskAll(m, rs)) /\ Open(AskAll(m, rs)) \subseteq Open(m) \cup ToSet(rs)
<1>1. m \in Manager
  BY DEF Orderly, Listed
<1>2. PICK f : Asks(f, m, rs) /\ AskAll(m, rs) = f[Len(rs)]
  BY <1>1, AskAllBy
<1>3. Len(rs) \in Nat /\ DOMAIN rs = 1 .. Len(rs) /\ \A n \in 1 .. Len(rs) : rs[n] \in Execs \X Uses
  OBVIOUS
<1> DEFINE Good == {n \in Nat : n <= Len(rs) =>
             /\ Orderly(f[n])
             /\ Open(m) \subseteq Open(f[n])
             /\ \A r \in Open(f[n]) : r \in Open(m) \/ \E j \in 1 .. n : r = rs[j]}
<1>4. 0 \in Good
  BY <1>2 DEF Asks
<1>5. ASSUME NEW n \in Nat, n \in Good  PROVE n + 1 \in Good
  <2> SUFFICES ASSUME n + 1 <= Len(rs)
               PROVE  /\ Orderly(f[n + 1])
                      /\ Open(m) \subseteq Open(f[n + 1])
                      /\ \A r \in Open(f[n + 1]) : r \in Open(m) \/ \E j \in 1 .. n + 1 : r = rs[j]
    OBVIOUS
  <2>1. n + 1 \in 1 .. Len(rs) /\ (n + 1) - 1 = n /\ n <= Len(rs)
    BY <1>3
  <2>2. /\ Orderly(f[n]) /\ Open(m) \subseteq Open(f[n])
        /\ \A r \in Open(f[n]) : r \in Open(m) \/ \E j \in 1 .. n : r = rs[j]
    BY <1>5, <2>1
  <2>3. f[n + 1] = Ask(f[n], rs[n + 1])
    BY <1>2, <2>1 DEF Asks
  <2>4. rs[n + 1] \notin Open(f[n])
    <3> SUFFICES ASSUME rs[n + 1] \in Open(f[n])  PROVE FALSE
      OBVIOUS
    <3>1. rs[n + 1] \in ToSet(rs)
      BY <1>3, <2>1 DEF ToSet
    <3>2. PICK j \in 1 .. n : rs[n + 1] = rs[j]
      BY <2>2, <3>1
    <3>3. j \in 1 .. Len(rs) /\ j # n + 1
      BY <1>3, <2>1
    <3> QED
      BY <1>3, <2>1, <3>2, <3>3 DEF Distinct
  <2>5. /\ Orderly(f[n + 1]) /\ Open(f[n]) \subseteq Open(f[n + 1])
        /\ Open(f[n + 1]) \subseteq Open(f[n]) \cup {rs[n + 1]}
    BY <1>3, <2>1, <2>2, <2>3, <2>4, AskIs
  <2>6. n + 1 \in 1 .. n + 1 /\ \A j \in 1 .. n : j \in 1 .. n + 1
    OBVIOUS
  <2> QED
    BY <2>2, <2>5, <2>6
<1>6. Len(rs) \in Good
  <2> HIDE DEF Good
  <2> QED
    BY <1>3, <1>4, <1>5, Induct
<1>7. /\ Orderly(f[Len(rs)])
      /\ Open(m) \subseteq Open(f[Len(rs)])
      /\ \A r \in Open(f[Len(rs)]) : r \in Open(m) \/ \E j \in 1 .. Len(rs) : r = rs[j]
  BY <1>3, <1>6
<1>8. \A j \in 1 .. Len(rs) : rs[j] \in ToSet(rs)
  BY <1>3 DEF ToSet
<1> QED
  BY <1>2, <1>7, <1>8

-----------------------------------------------------------------------------
(* The records of the tool uses, and the user's word on those that are     *)
(* waiting for the settings to be written.                                 *)
CallType == call \in [Execs -> Seq(Call)]

Remembering ==
  \A e \in Execs : \A i \in Indices(e) : call[e][i].phase = "remembering" => call[e][i].allowed

ConsentInv == CallType /\ mode \in {"execute", "dry_run"} /\ Remembering /\ ConsentBeforeEffect

(* Every tool use keeps its tool, and the effects are those of the tools.  *)
LEMMA ToolsAre ==
  Tools = {"shell", "read_file", "ask_user_question", "delegate_task", "handoff", "custom", "malformed"}
BY DEF Tools, Effect

(* What has a value for every tool use is a sequence of as many.           *)
LEMMA SameLength ==
  ASSUME NEW S, NEW s \in Seq(S), NEW T, NEW f, f = [i \in DOMAIN s |-> f[i]], \A i \in DOMAIN s : f[i] \in T
  PROVE  f \in Seq(T) /\ DOMAIN f = DOMAIN s /\ Len(f) = Len(s) /\ DOMAIN f = 1 .. Len(f)
<1>1. Len(s) \in Nat /\ DOMAIN s = 1 .. Len(s)
  OBVIOUS
<1>2. f \in [1 .. Len(s) -> T]
  BY <1>1
<1> QED
  BY <1>1, <1>2

(* A tool use that goes on to another phase is a tool use.                 *)
LEMMA EnterIs ==
  ASSUME NEW c \in Call, NEW phase \in Phase
  PROVE  /\ Enter(c, phase) \in Call
         /\ Enter(c, phase).tool = c.tool
         /\ Enter(c, phase).phase = phase
         /\ Enter(c, phase).allowed = c.allowed
         /\ Enter(c, phase).started => phase = "executing" /\ mode = "execute" /\ c.tool \in Gated
BY DEF Enter, Call

(* One tool use is replaced by another, and nothing else.                  *)
Replaced(e, i, c) == call' = [call EXCEPT ![e] = [call[e] EXCEPT ![i] = c]]

(* Replacing one call of one execution keeps the others and their number.  *)
LEMMA OneCall ==
  ASSUME CallType, NEW e \in Execs, NEW i \in Indices(e), NEW c \in Call,
         Replaced(e, i, c)
  PROVE  /\ CallType'
         /\ \A x \in Execs : DOMAIN call'[x] = DOMAIN call[x] /\ Len(call'[x]) = Len(call[x])
         /\ call'[e][i] = c
         /\ \A x \in Execs : \A j \in Indices(x) : <<x, j>> # <<e, i>> => call'[x][j] = call[x][j]
<1>1. call[e] \in Seq(Call) /\ Indices(e) = 1 .. Len(call[e])
  BY DEF CallType, Indices
<1>2. [call[e] EXCEPT ![i] = c] \in Seq(Call)
  BY <1>1
<1> QED
  BY <1>1, <1>2 DEF CallType, Indices, Replaced

(* The tool uses of an execution that are replaced together.               *)
LEMMA AllCalls ==
  ASSUME CallType, NEW e \in Execs, NEW f, f \in Seq(Call), call' = [call EXCEPT ![e] = f]
  PROVE  CallType' /\ call'[e] = f /\ \A x \in Execs \ {e} : call'[x] = call[x]
BY DEF CallType

(* A prompt that is answered for no tool use there is changes nothing.     *)
LEMMA NoCall ==
  ASSUME CallType, NEW e, NEW i, NEW c, call' = [call EXCEPT ![e] = [call[e] EXCEPT ![i] = c]],
         ~(e \in Execs /\ i \in Indices(e))
  PROVE  call' = call
<1>1. CASE e \notin Execs
  BY <1>1 DEF CallType
<1>2. CASE e \in Execs
  <2>1. call[e] \in Seq(Call) /\ i \notin DOMAIN call[e]
    BY <1>2 DEF CallType, Indices
  <2>2. [call[e] EXCEPT ![i] = c] = call[e]
    BY <2>1
  <2> QED
    BY <1>2, <2>2 DEF CallType
<1> QED
  BY <1>1, <1>2

(* What is allowed for good stays allowed.                                 *)
LEMMA ConsentKept ==
  ASSUME ConsentInv, mode' = mode, allowed \subseteq allowed', CallType',
         \A x \in Execs : \A i \in DOMAIN call'[x] :
           \/ i \in Indices(x) /\ call'[x][i] = call[x][i]
           \/ /\ call'[x][i].phase = "remembering" => call'[x][i].allowed
              /\ call'[x][i].started => mode = "execute" /\ (call'[x][i].allowed \/ call'[x][i].tool \in allowed)
  PROVE  ConsentInv'
BY DEF ConsentInv, CallType, Remembering, ConsentBeforeEffect, Indices

(* A tool use that starts without a prompt needs no word of the user.      *)
LEMMA FirstPhaseIs ==
  ASSUME NEW e \in Execs, NEW i \in Indices(e), mode \in {"execute", "dry_run"}
  PROVE  /\ FirstPhase(e, i) \in {"asking", "resolved", "executing"}
         /\ FirstPhase(e, i) = "executing" /\ mode = "execute" /\ call[e][i].tool \in Gated =>
              call[e][i].tool \in allowed
BY DEF FirstPhase, NeedsApproval

(* The user's word on a tool use: it is allowed, or it is resolved.        *)
DecidedAs(e, i, phase, b) == call' = [call EXCEPT ![e][i] = [Enter(@, phase) EXCEPT !.allowed = b]]

(* A decision keeps consent, for what it starts it has allowed.            *)
LEMMA DecisionKeeps ==
  ASSUME ConsentInv, mode' = mode, allowed \subseteq allowed',
         NEW e \in Execs, NEW i \in Indices(e), NEW phase \in {"resolved", "executing", "remembering"},
         NEW b \in BOOLEAN, b \/ phase = "resolved", DecidedAs(e, i, phase, b)
  PROVE  ConsentInv'
<1>1. CallType /\ call[e][i] \in Call /\ phase \in Phase
  BY DEF ConsentInv, CallType, Phase, Indices
<1>2. PICK k \in Call : k = Enter(call[e][i], phase) /\ k.phase = phase
                        /\ (k.started => phase = "executing" /\ mode = "execute")
  <2>1. Enter(call[e][i], phase) \in Call /\ Enter(call[e][i], phase).phase = phase
        /\ (Enter(call[e][i], phase).started => phase = "executing" /\ mode = "execute")
    BY <1>1, EnterIs
  <2> QED
    BY <2>1, Zenon
<1>3. PICK c \in Call : c = [k EXCEPT !.allowed = b] /\ c.allowed = b /\ c.phase = k.phase /\ c.started = k.started
  <2>1. [k EXCEPT !.allowed = b] \in Call
    BY DEF Call
  <2> DEFINE c == [k EXCEPT !.allowed = b]
  <2>2. c.allowed = b /\ c.phase = k.phase /\ c.started = k.started
    BY DEF Call
  <2> QED
    BY <2>1, <2>2, Zenon
<1>4. Replaced(e, i, c)
  <2>1. call' = [call EXCEPT ![e] = [call[e] EXCEPT ![i] = [Enter(call[e][i], phase) EXCEPT !.allowed = b]]]
    BY <1>1 DEF DecidedAs, CallType
  <2> QED
    BY <1>2, <1>3, <2>1, Zenon DEF Replaced
<1>5. /\ CallType'
      /\ \A x \in Execs : DOMAIN call'[x] = DOMAIN call[x]
      /\ call'[e][i] = c
      /\ \A x \in Execs : \A j \in Indices(x) : <<x, j>> # <<e, i>> => call'[x][j] = call[x][j]
  BY <1>1, <1>4, OneCall
<1>6. c.phase = "remembering" => c.allowed
  BY <1>2, <1>3
<1>7. c.started => mode = "execute" /\ c.allowed
  BY <1>2, <1>3
<1> QED
  BY <1>5, <1>6, <1>7, ConsentKept DEF Indices

(* No step starts a gated tool that the user has not allowed.              *)
LEMMA ConsentStep == ConsentInv /\ [Next]_vars => ConsentInv'
<1> SUFFICES ASSUME ConsentInv, [Next]_vars  PROVE ConsentInv'
  OBVIOUS
<1> USE DEF Indices
<1>1. CallType /\ mode \in {"execute", "dry_run"} /\ Remembering /\ ConsentBeforeEffect
  BY DEF ConsentInv
<1>2. CASE UNCHANGED <<mode, call, allowed>>
  BY <1>1, <1>2 DEF ConsentInv, CallType, Remembering, ConsentBeforeEffect
<1>3. ASSUME NEW e \in Execs, LoopStep(e)  PROVE ConsentInv'
  <2>1. CASE \/ Begin(e) \/ ForbidDryRun(e) \/ HookThrows(e) \/ HooksDone(e)
             \/ ModelFails(e) \/ CheckpointFails(e) \/ Abandon(e) \/ CompleteStep(e)
    <3>1. UNCHANGED <<mode, call, allowed>>
      BY <2>1 DEF Begin, ForbidDryRun, HookThrows, HooksDone, ModelFails, CheckpointFails, Abandon, CompleteStep
    <3> QED
      BY <1>2, <3>1
  <2>2. ASSUME NEW uses \in Messages[e], NEW overLimit \in BOOLEAN, Answer(e, uses, overLimit)  PROVE ConsentInv'
    <3>1. uses \in Seq(Tools)
      BY LoopAssumption
    <3> DEFINE f == [i \in DOMAIN uses |-> NewCall(uses[i])]
    <3>2. f \in Seq(Call)
      <4>1. \A t \in Tools : NewCall(t) \in Call
        BY DEF NewCall, Call, Phase
      <4>2. \A i \in DOMAIN uses : uses[i] \in Tools
        BY <3>1
      <4> QED
        BY <3>1, <4>1, <4>2, SameLength
    <3>3. mode' = mode /\ allowed' = allowed /\ (call' = call \/ call' = [call EXCEPT ![e] = f])
      BY <2>2 DEF Answer
    <3>4. CASE call' = call
      BY <1>2, <3>3, <3>4
    <3>5. CASE call' = [call EXCEPT ![e] = f]
      <4>1. CallType' /\ call'[e] = f /\ \A x \in Execs \ {e} : call'[x] = call[x]
        BY <1>1, <3>2, <3>5, AllCalls
      <4>2. \A i \in DOMAIN f : f[i].phase = "issued" /\ ~f[i].started
        BY DEF NewCall
      <4> QED
        BY <3>3, <4>1, <4>2, ConsentKept
    <3> QED
      BY <3>3, <3>4, <3>5
  <2>3. CASE RefuseUses(e)
    <3> DEFINE f == [i \in DOMAIN call[e] |-> [call[e][i] EXCEPT !.phase = "appended"]]
    <3>1. mode' = mode /\ allowed' = allowed /\ call' = [call EXCEPT ![e] = f]
      BY <2>3 DEF RefuseUses
    <3>2. call[e] \in Seq(Call)
      BY <1>1 DEF CallType
    <3>3. \A c \in Call : /\ [c EXCEPT !.phase = "appended"] \in Call
                          /\ [c EXCEPT !.phase = "appended"].phase = "appended"
                          /\ [c EXCEPT !.phase = "appended"].started = c.started
                          /\ [c EXCEPT !.phase = "appended"].allowed = c.allowed
                          /\ [c EXCEPT !.phase = "appended"].tool = c.tool
      BY DEF Call, Phase
    <3>4. f \in Seq(Call)
      <4>1. \A i \in DOMAIN call[e] : call[e][i] \in Call
        BY <3>2
      <4> QED
        BY <3>2, <3>3, <4>1, SameLength
    <3>5. CallType' /\ call'[e] = f /\ \A x \in Execs \ {e} : call'[x] = call[x]
      BY <1>1, <3>1, <3>4, AllCalls
    <3>6. \A i \in DOMAIN f : /\ f[i].phase = "appended"
                              /\ f[i].started => mode = "execute" /\ (f[i].allowed \/ f[i].tool \in allowed)
      BY <1>1, <3>2, <3>3 DEF ConsentBeforeEffect
    <3> QED
      BY <3>1, <3>5, <3>6, ConsentKept
  <2>4. CASE StartTools(e)
    <3> DEFINE f == [i \in DOMAIN call[e] |-> Enter(call[e][i], FirstPhase(e, i))]
    <3>1. mode' = mode /\ allowed' = allowed /\ call' = [call EXCEPT ![e] = f]
      BY <2>4 DEF StartTools
    <3>2. call[e] \in Seq(Call)
      BY <1>1 DEF CallType
    <3>3. ASSUME NEW i \in DOMAIN call[e]
          PROVE  /\ f[i] \in Call
                 /\ f[i].phase # "remembering"
                 /\ f[i].started => mode = "execute" /\ f[i].tool \in allowed
      <4> DEFINE c == call[e][i]
                 ph == FirstPhase(e, i)
      <4>1. c \in Call
        BY <3>2
      <4>2. /\ ph \in {"asking", "resolved", "executing"}
            /\ ph = "executing" /\ mode = "execute" /\ c.tool \in Gated => c.tool \in allowed
        BY <1>1, FirstPhaseIs
      <4>3. f[i] = Enter(c, ph)
        OBVIOUS
      <4> HIDE DEF c, ph, f
      <4>4. ph \in Phase
        BY <4>2 DEF Phase
      <4> QED
        BY <4>1, <4>2, <4>3, <4>4, EnterIs
    <3>4. f \in Seq(Call) /\ DOMAIN f = DOMAIN call[e]
      <4>1. f = [i \in DOMAIN call[e] |-> f[i]]
        OBVIOUS
      <4> HIDE DEF f
      <4> QED
        BY <3>2, <3>3, <4>1, SameLength
    <3>5. CallType' /\ call'[e] = f /\ \A x \in Execs \ {e} : call'[x] = call[x]
      BY <1>1, <3>1, <3>4, AllCalls
    <3> HIDE DEF f
    <3> QED
      BY <3>1, <3>3, <3>4, <3>5, ConsentKept
  <2> QED
    BY <1>3, <2>1, <2>2, <2>3, <2>4 DEF LoopStep
<1>4. ASSUME NEW e \in Execs, Cancel(e)  PROVE ConsentInv'
  <2>1. PICK E \in SUBSET Execs : Aborted(E)
    BY <1>4 DEF Cancel
  <2>2. mode' = mode /\ allowed' = allowed
    BY <1>4 DEF Cancel
  <2>3. \A x \in Execs : call[x] \in Seq(Call)
    BY <1>1 DEF CallType
  <2>4. \A x \in Execs : DOMAIN call'[x] = DOMAIN call[x] /\ \A i \in DOMAIN call[x] :
          \/ call'[x][i] = call[x][i]
          \/ call'[x][i] = [call[x][i] EXCEPT !.phase = "resolved"]
    BY <2>1 DEF Aborted
  <2>5. \A c \in Call : /\ [c EXCEPT !.phase = "resolved"] \in Call
                        /\ [c EXCEPT !.phase = "resolved"].phase = "resolved"
                        /\ [c EXCEPT !.phase = "resolved"].started = c.started
                        /\ [c EXCEPT !.phase = "resolved"].allowed = c.allowed
                        /\ [c EXCEPT !.phase = "resolved"].tool = c.tool
    BY DEF Call, Phase
  <2>6. CallType'
    <3>1. ASSUME NEW x \in Execs  PROVE call'[x] \in Seq(Call)
      <4>1. \A i \in DOMAIN call[x] : call[x][i] \in Call /\ call'[x][i] \in Call
        <5> SUFFICES ASSUME NEW i \in DOMAIN call[x]  PROVE call[x][i] \in Call /\ call'[x][i] \in Call
          OBVIOUS
        <5>1. call[x][i] \in Call
          BY <2>3
        <5> QED
          BY <2>4, <2>5, <5>1
      <4>2. call'[x] = [i \in DOMAIN call[x] |-> call'[x][i]]
        BY <2>1 DEF Aborted
      <4> QED
        BY <2>3, <4>1, <4>2, SameLength
    <3>2. call' = [x \in Execs |-> call'[x]]
      BY <2>1 DEF Aborted
    <3> QED
      BY <3>1, <3>2 DEF CallType
  <2>7. \A x \in Execs : \A i \in DOMAIN call'[x] :
          \/ i \in DOMAIN call[x] /\ call'[x][i] = call[x][i]
          \/ /\ call'[x][i].phase = "resolved"
             /\ call'[x][i].started => mode = "execute" /\ (call'[x][i].allowed \/ call'[x][i].tool \in allowed)
    <3> SUFFICES ASSUME NEW x \in Execs, NEW i \in DOMAIN call[x]
                 PROVE  \/ call'[x][i] = call[x][i]
                        \/ /\ call'[x][i].phase = "resolved"
                           /\ call'[x][i].started => mode = "execute" /\ (call'[x][i].allowed \/ call'[x][i].tool \in allowed)
      BY <2>4
    <3>1. call[x][i] \in Call
      BY <2>3
    <3>2. call[x][i].started => mode = "execute" /\ (call[x][i].allowed \/ call[x][i].tool \in allowed)
      BY <1>1 DEF ConsentBeforeEffect
    <3> QED
      BY <2>4, <2>5, <3>1, <3>2
  <2> QED
    BY <2>2, <2>6, <2>7, ConsentKept
<1>5. ASSUME NEW e \in Execs, NEW i \in Indices(e), NEW ph \in Phase \ {"remembering"},
             SetPhase(e, i, ph), mode' = mode, allowed' = allowed
      PROVE  ConsentInv'
  <2>1. call[e][i] \in Call
    BY <1>1 DEF CallType
  <2>2. PICK c \in Call : /\ c = [call[e][i] EXCEPT !.phase = ph]
                          /\ c.phase = ph /\ c.started = call[e][i].started /\ c.allowed = call[e][i].allowed /\ c.tool = call[e][i].tool
    <3>1. \A c \in Call : /\ [c EXCEPT !.phase = ph] \in Call
                          /\ [c EXCEPT !.phase = ph].phase = ph
                          /\ [c EXCEPT !.phase = ph].started = c.started
                          /\ [c EXCEPT !.phase = ph].allowed = c.allowed
                          /\ [c EXCEPT !.phase = ph].tool = c.tool
      BY DEF Call
    <3> QED
      BY <2>1, <3>1
  <2>3. Replaced(e, i, c)
    BY <1>1, <1>5, <2>2 DEF Replaced, SetPhase, CallType
  <2>4. /\ CallType'
        /\ \A x \in Execs : DOMAIN call'[x] = DOMAIN call[x]
        /\ call'[e][i] = c
        /\ \A x \in Execs : \A j \in Indices(x) : <<x, j>> # <<e, i>> => call'[x][j] = call[x][j]
    BY <1>1, <2>2, <2>3, OneCall
  <2>5. c.started => mode = "execute" /\ (c.allowed \/ c.tool \in allowed)
    BY <1>1, <2>2 DEF ConsentBeforeEffect
  <2>6. c.phase # "remembering"
    BY <2>2
  <2> QED
    BY <1>5, <2>4, <2>5, <2>6, ConsentKept
<1>6. ASSUME NEW e \in Execs, NEW i \in Uses, ToolReturns(e, i) \/ HandOver(e, i) \/ Collect(e, i)  PROVE ConsentInv'
  <2>1. i \in Indices(e) /\ mode' = mode /\ allowed' = allowed /\ (SetPhase(e, i, "resolved") \/ SetPhase(e, i, "appended"))
    BY <1>6 DEF ToolReturns, HandOver, Collect, InPhase
  <2> QED
    BY <1>5, <2>1 DEF Phase
<1>7. ASSUME NEW e \in Execs, NEW i \in Uses, Remembered(e, i)  PROVE ConsentInv'
  <2>1. /\ i \in Indices(e) /\ call[e][i].phase = "remembering" /\ mode' = mode /\ allowed' = allowed
        /\ call' = [call EXCEPT ![e][i] = Enter(call[e][i], "executing")]
    BY <1>1, <1>7 DEF Remembered, InPhase, CallType
  <2>2. call[e][i] \in Call /\ call[e][i].allowed
    BY <1>1, <2>1 DEF CallType, Remembering
  <2>3. PICK c \in Call : c = Enter(call[e][i], "executing") /\ c.phase = "executing" /\ c.allowed /\ (c.started => mode = "execute")
    BY <2>2, EnterIs DEF Phase
  <2>4. Replaced(e, i, c)
    BY <1>1, <2>1, <2>3 DEF Replaced, CallType
  <2>5. /\ CallType'
        /\ \A x \in Execs : DOMAIN call'[x] = DOMAIN call[x]
        /\ call'[e][i] = c
        /\ \A x \in Execs : \A j \in Indices(x) : <<x, j>> # <<e, i>> => call'[x][j] = call[x][j]
    BY <1>1, <2>1, <2>3, <2>4, OneCall
  <2> QED
    BY <2>1, <2>3, <2>5, ConsentKept
<1>8. ASSUME NEW d \in Decisions, Decide(d)  PROVE ConsentInv'
  <2> DEFINE e == approvals.current[1]
             i == approvals.current[2]
  <2>1. /\ mode' = mode /\ allowed \subseteq allowed'
        /\ \E phase, b : DecidedAs(e, i, phase, b)
        /\ d = "deny" => DecidedAs(e, i, "resolved", FALSE)
        /\ d = "allow_once" => DecidedAs(e, i, "executing", TRUE)
        /\ d \notin {"deny", "allow_once"} => DecidedAs(e, i, "remembering", TRUE)
    BY <1>8 DEF Decide, DecidedAs
  <2>2. CASE e \in Execs /\ i \in Indices(e)
    <3> HIDE DEF e, i
    <3>1. CASE d = "deny"
      BY <2>1, <2>2, <3>1, DecisionKeeps
    <3>2. CASE d = "allow_once"
      BY <2>1, <2>2, <3>2, DecisionKeeps
    <3>3. CASE d \notin {"deny", "allow_once"}
      BY <2>1, <2>2, <3>3, DecisionKeeps
    <3> QED
      BY <3>1, <3>2, <3>3
  <2>3. CASE ~(e \in Execs /\ i \in Indices(e))
    <3>1. call' = call
      <4>1. e \in Execs => i \notin DOMAIN call[e]
        BY <2>3
      <4> HIDE DEF e, i
      <4> QED
        BY <1>1, <2>1, <4>1 DEF CallType, DecidedAs
    <3> QED
      BY <1>1, <2>1, <3>1, ConsentKept DEF CallType
  <2> QED
    BY <2>2, <2>3
<1>9. CASE AnswerQuestion
  <2> DEFINE e == questions.current[1]
             i == questions.current[2]
  <2>1. mode' = mode /\ allowed' = allowed /\ SetPhase(e, i, "resolved")
    BY <1>9 DEF AnswerQuestion
  <2>2. CASE e \in Execs /\ i \in Indices(e)
    BY <1>5, <2>1, <2>2 DEF Phase
  <2>3. CASE ~(e \in Execs /\ i \in Indices(e))
    <3>1. call' = [call EXCEPT ![e] = [call[e] EXCEPT ![i] = [call[e][i] EXCEPT !.phase = "resolved"]]]
      BY <1>1, <2>1 DEF SetPhase, CallType
    <3>2. call' = call
      <4> HIDE DEF e, i
      <4> QED
        BY <1>1, <2>3, <3>1, NoCall
    <3> QED
      BY <1>1, <1>2, <2>1, <3>2
  <2> QED
    BY <2>2, <2>3
<1>10. ASSUME NEW e \in Execs, NEW i \in Uses, CollectTooLate(e, i)  PROVE ConsentInv'
  BY <1>2, <1>10 DEF CollectTooLate
<1> QED
  BY <1>2, <1>3, <1>4, <1>6, <1>7, <1>8, <1>9, <1>10 DEF Next, UserStep, ToolStep, vars

(* A mutation is executed only with the user's consent, whatever the       *)
(* prompts' queue does and however many tool uses and executions share it. *)
THEOREM ConsentIsAsked == Spec => []ConsentBeforeEffect
<1>1. Init => ConsentInv
  <2> SUFFICES ASSUME Init  PROVE ConsentInv
    OBVIOUS
  <2>1. call = [e \in Execs |-> << >>] /\ mode \in {"execute", "dry_run"}
    BY DEF Init
  <2>2. << >> \in Seq(Call) /\ DOMAIN << >> = {}
    OBVIOUS
  <2> QED
    BY <2>1, <2>2 DEF ConsentInv, CallType, Remembering, ConsentBeforeEffect, Indices
<1>2. ConsentInv => ConsentBeforeEffect
  BY DEF ConsentInv
<1> QED
  BY <1>1, <1>2, ConsentStep, PTL DEF Spec
-----------------------------------------------------------------------------
(* The types of everything but the prompts.                                *)
BasicType ==
  /\ mode \in {"execute", "dry_run"}
  /\ status \in [Execs -> Status]
  /\ pc \in [Execs -> Place]
  /\ step \in [Execs -> Nat] /\ \A e \in Execs : step[e] <= maxSteps[e]
  /\ transcript \in [Execs -> Seq(Message)]
  /\ call \in [Execs -> Seq(Call)] /\ \A e \in Execs : Len(call[e]) <= MaxUses
  /\ session \in Seq(Message)
  /\ allowed \subseteq Gated

(* Where the loop is, and what has become of the tool uses by then.        *)
PlaceOf(e) ==
  /\ status[e] \in {"none", "created"} => pc[e] = "idle"
  /\ pc[e] = "returned" => Terminal(e)
  /\ pc[e] \in {"idle", "starting"} => step[e] = 0
  /\ pc[e] \in {"idle", "starting", "rejected"} => call[e] = << >>
  /\ pc[e] = "idle" => transcript[e] = << >>
  /\ pc[e] = "starting" => transcript[e] = <<UserMessage(e)>>
  /\ pc[e] = "tool_call" => transcript[e] # << >> /\ \A i \in Indices(e) : call[e][i].phase = "issued"
  /\ pc[e] = "model" \/ (pc[e] = "step_completed" /\ ~Terminal(e)) =>
       \A i \in Indices(e) : call[e][i].phase = "appended"
  /\ (\E i \in Indices(e) : call[e][i].phase \in {"asking", "remembering", "executing", "resolved"}) => ~Mixed(e)
  /\ \A i \in Indices(e) : call[e][i].phase = "asking" => call[e][i].tool \in Gated

Places == \A e \in Execs : PlaceOf(e)

(* The two prompts hold the tool uses that wait for them.                  *)
Waiting ==
  /\ Orderly(approvals) /\ Orderly(questions)
  /\ \A e \in Execs : \A i \in Uses : <<e, i>> \in Open(approvals) <=> i \in InPhase(e, "asking")
  /\ \A e \in Execs : \A i \in Uses : <<e, i>> \in Open(approvals) => status[e] = "running"
  /\ \A e \in Execs : \A i \in Uses : <<e, i>> \in Open(questions) =>
       i \in InPhase(e, "executing") /\ call[e][i].tool = "ask_user_question"

LoopInv == BasicType /\ Places /\ Waiting

(* What a step leaves as it is of an execution.                            *)
Rests(x) ==
  /\ pc'[x] = pc[x] /\ step'[x] = step[x] /\ status'[x] = status[x]
  /\ call'[x] = call[x] /\ transcript'[x] = transcript[x]

(* What rests of an execution is as consistent as it was.                  *)
LEMMA RestsPlace ==
  ASSUME NEW x \in Execs, PlaceOf(x), Rests(x)
  PROVE  PlaceOf(x)'
BY DEF PlaceOf, Rests, Terminal, Mixed, Indices

(* The tool uses of an execution are few, and each is a call.              *)
LEMMA CallsAre ==
  ASSUME BasicType, NEW e \in Execs
  PROVE  /\ call[e] \in Seq(Call) /\ Indices(e) = 1 .. Len(call[e]) /\ Len(call[e]) \in Nat
         /\ Indices(e) \subseteq Uses /\ \A i \in Indices(e) : call[e][i] \in Call
<1>1. MaxUses \in Nat
  BY LoopAssumption
<1> QED
  BY <1>1 DEF BasicType, Indices, Uses

(* Who waits at the approval prompt is waiting for its tools.              *)
LEMMA AskingActs ==
  ASSUME LoopInv, NEW e \in Execs, NEW i \in Indices(e),
         call[e][i].phase \in {"asking", "remembering", "executing", "resolved"}
  PROVE  /\ pc[e] \in {"acting", "step_completed", "returned"} /\ ~Mixed(e)
         /\ pc[e] # "acting" => Terminal(e)
         /\ call[e][i].phase = "asking" => pc[e] = "acting" /\ status[e] = "running"
<1>1. pc[e] \in Place /\ i \in Uses
  BY CallsAre DEF LoopInv, BasicType
<1>2. PlaceOf(e)
  BY DEF LoopInv, Places
<1>3. pc[e] \in {"acting", "step_completed", "returned"} /\ ~Mixed(e) /\ (pc[e] # "acting" => Terminal(e))
  BY <1>1, <1>2 DEF PlaceOf, Place, Indices
<1>4. call[e][i].phase = "asking" => status[e] = "running"
  BY <1>1 DEF LoopInv, Waiting, InPhase
<1>5. status[e] = "running" => ~Terminal(e)
  BY DEF Terminal
<1> QED
  BY <1>3, <1>4, <1>5

(* A step that touches no tool use and ends nobody who waits.              *)
LEMMA WaitsOn ==
  ASSUME Waiting, UNCHANGED <<call, approvals, questions>>,
         \A e \in Execs : \A i \in InPhase(e, "asking") : status'[e] = status[e]
  PROVE  Waiting'
BY DEF Waiting, InPhase, Indices

(* A step that replaces a tool use which no prompt holds.                  *)
LEMMA OneCallWaits ==
  ASSUME LoopInv, NEW e \in Execs, NEW i \in Indices(e), NEW c \in Call, Replaced(e, i, c),
         UNCHANGED <<approvals, questions>>,
         call[e][i].phase # "asking", c.phase # "asking",
         ~(call[e][i].phase = "executing" /\ call[e][i].tool = "ask_user_question"),
         \A x \in Execs : \A j \in InPhase(x, "asking") : status'[x] = status[x]
  PROVE  Waiting'
<1>1. /\ \A x \in Execs : DOMAIN call'[x] = DOMAIN call[x]
      /\ call'[e][i] = c
      /\ \A x \in Execs : \A j \in Indices(x) : <<x, j>> # <<e, i>> => call'[x][j] = call[x][j]
  BY OneCall DEF LoopInv, BasicType, CallType
<1>2. \A x \in Execs : \A j : j \in InPhase(x, "asking")' <=> j \in InPhase(x, "asking")
  BY <1>1 DEF InPhase, Indices
<1>3. \A x \in Execs : \A j \in Uses : <<x, j>> \in Open(questions) => <<x, j>> # <<e, i>>
  BY DEF LoopInv, Waiting, InPhase
<1>4. \A x \in Execs : \A j \in Uses : <<x, j>> \in Open(questions) =>
        j \in InPhase(x, "executing")' /\ call'[x][j].tool = "ask_user_question"
  BY <1>1, <1>3 DEF LoopInv, Waiting, InPhase, Indices
<1> QED
  BY <1>2, <1>4 DEF LoopInv, Waiting

-----------------------------------------------------------------------------
(* The end of a loop, and its next step.                                   *)
LEMMA ReturnIs ==
  ASSUME BasicType, NEW e \in Execs, NEW s \in Status \ {"none", "created", "running"}, Return(e, s)
  PROVE  /\ status' \in [Execs -> Status] /\ pc' \in [Execs -> Place]
         /\ pc'[e] = "returned" /\ status'[e] \in Status \ {"none", "created", "running"}
         /\ Terminal(e) => status'[e] = status[e]
         /\ \A x \in Execs \ {e} : pc'[x] = pc[x] /\ status'[x] = status[x]
BY DEF BasicType, Return, Goto, Place, Terminal

(* What the begin of a step does: the loop returns or asks the model, and  *)
(* no other execution moves.                                               *)
LEMMA NextStepIs ==
  ASSUME BasicType, NEW e \in Execs, NextStep(e)
  PROVE  /\ status' \in [Execs -> Status] /\ pc' \in [Execs -> Place]
         /\ step' \in [Execs -> Nat] /\ \A x \in Execs : step'[x] <= maxSteps[x]
         /\ \A x \in Execs \ {e} : pc'[x] = pc[x] /\ status'[x] = status[x] /\ step'[x] = step[x]
         /\ Terminal(e) => status'[e] = status[e]
         /\ \/ pc'[e] = "returned" /\ status'[e] \in Status \ {"none", "created", "running"} /\ step'[e] \in {step[e], step[e] + 1}
            \/ pc'[e] = "model" /\ status'[e] = status[e] /\ step'[e] = step[e] + 1 /\ ~Terminal(e)
<1>1. "aborted" \in Status \ {"none", "created", "running"} /\ "limit_exceeded" \in Status \ {"none", "created", "running"}
  BY DEF Status
<1>2. CASE Return(e, "aborted") /\ UNCHANGED step
  BY <1>1, <1>2, ReturnIs DEF BasicType
<1>3. CASE Return(e, "limit_exceeded") /\ UNCHANGED step
  BY <1>1, <1>3, ReturnIs DEF BasicType
<1>4. CASE /\ ~Terminal(e) /\ step[e] # maxSteps[e] /\ step' = [step EXCEPT ![e] = @ + 1]
           /\ (Goto(e, "model") /\ UNCHANGED status) \/ Return(e, "limit_exceeded")
  <2>1. maxSteps[e] \in Nat /\ step[e] \in Nat /\ step[e] <= maxSteps[e]
    BY LoopAssumption DEF BasicType
  <2>2. step[e] + 1 <= maxSteps[e] /\ step[e] + 1 \in Nat
    BY <1>4, <2>1
  <2>3. /\ step' \in [Execs -> Nat] /\ step'[e] = step[e] + 1
        /\ \A x \in Execs \ {e} : step'[x] = step[x]
    BY <1>4, <2>2 DEF BasicType
  <2>4. \A x \in Execs : step'[x] <= maxSteps[x]
    BY <2>2, <2>3 DEF BasicType
  <2>5. CASE Goto(e, "model") /\ UNCHANGED status
    <3>1. pc' \in [Execs -> Place] /\ pc'[e] = "model" /\ \A x \in Execs \ {e} : pc'[x] = pc[x]
      BY <2>5 DEF BasicType, Goto, Place
    <3> QED
      BY <1>4, <2>3, <2>4, <2>5, <3>1 DEF BasicType
  <2>6. CASE Return(e, "limit_exceeded")
    BY <1>1, <1>4, <2>3, <2>4, <2>6, ReturnIs
  <2> QED
    BY <1>4, <2>5, <2>6
<1> QED
  BY <1>2, <1>3, <1>4 DEF NextStep

(* A step of one loop that leaves the tool uses and the prompts alone.     *)
LEMMA QuietStep ==
  ASSUME LoopInv, NEW e \in Execs, BasicType', UNCHANGED <<call, approvals, questions>>,
         \A x \in Execs \ {e} :
           pc'[x] = pc[x] /\ step'[x] = step[x] /\ status'[x] = status[x] /\ transcript'[x] = transcript[x],
         PlaceOf(e)', InPhase(e, "asking") = {} \/ status'[e] = status[e]
  PROVE  LoopInv'
<1>1. \A x \in Execs \ {e} : Rests(x)
  BY DEF Rests
<1>2. Places'
  BY <1>1, RestsPlace DEF LoopInv, Places
<1>3. Waiting'
  BY WaitsOn DEF LoopInv
<1> QED
  BY <1>2, <1>3 DEF LoopInv

(* Only an execution whose tools run asks anybody.                         *)
LEMMA NobodyAsks ==
  ASSUME LoopInv, NEW e \in Execs, pc[e] # "acting"
  PROVE  InPhase(e, "asking") = {}
BY AskingActs DEF InPhase

(* The message an execution starts from is its own.                        *)
LEMMA UserMessageIs ==
  ASSUME NEW e \in Execs
  PROVE  UserMessage(e) \in Message /\ UserMessage(e).by = e /\ UserMessage(e).role = "user" /\ UserMessage(e).step = 0
BY LoopAssumption DEF UserMessage, Message

(* The start of a run keeps the invariant of the loop.                     *)
LEMMA BeginKeeps ==
  ASSUME LoopInv, NEW e \in Execs, Begin(e)
  PROVE  LoopInv'
<1>1. BasicType /\ PlaceOf(e)
  BY DEF LoopInv, Places
<1>2. /\ status' \in [Execs -> Status] /\ status'[e] = "running" /\ (\A x \in Execs \ {e} : status'[x] = status[x])
      /\ pc' \in [Execs -> Place] /\ pc'[e] = "starting" /\ (\A x \in Execs \ {e} : pc'[x] = pc[x])
  BY <1>1 DEF BasicType, Begin, Goto, Status, Place
<1>3. <<UserMessage(e)>> \in Seq(Message)
  BY UserMessageIs
<1>4. /\ transcript' \in [Execs -> Seq(Message)] /\ transcript'[e] = <<UserMessage(e)>>
      /\ \A x \in Execs \ {e} : transcript'[x] = transcript[x]
  BY <1>1, <1>3 DEF BasicType, Begin
<1>5. pc[e] = "idle" /\ UNCHANGED <<mode, step, call, session, approvals, questions, allowed>>
  BY DEF Begin, promptVars
<1>6. BasicType'
  BY <1>1, <1>2, <1>4, <1>5 DEF BasicType
<1>7. PlaceOf(e)'
  BY <1>1, <1>2, <1>4, <1>5 DEF PlaceOf, Indices, Mixed, UserMessage
<1> QED
  BY <1>2, <1>4, <1>5, <1>6, <1>7, NobodyAsks, QuietStep

(* So does a run that fails before it has begun.                           *)
LEMMA ForbidDryRunKeeps ==
  ASSUME LoopInv, NEW e \in Execs, ForbidDryRun(e)
  PROVE  LoopInv'
<1>1. BasicType /\ PlaceOf(e)
  BY DEF LoopInv, Places
<1>2. /\ status' \in [Execs -> Status] /\ status'[e] = "failed" /\ (\A x \in Execs \ {e} : status'[x] = status[x])
      /\ pc' \in [Execs -> Place] /\ pc'[e] = "returned" /\ (\A x \in Execs \ {e} : pc'[x] = pc[x])
  BY <1>1 DEF BasicType, ForbidDryRun, Goto, Status, Place
<1>3. <<UserMessage(e)>> \in Seq(Message)
  BY UserMessageIs
<1>4. /\ transcript' \in [Execs -> Seq(Message)] /\ transcript'[e] = <<UserMessage(e)>>
      /\ \A x \in Execs \ {e} : transcript'[x] = transcript[x]
  BY <1>1, <1>3 DEF BasicType, ForbidDryRun
<1>5. pc[e] = "idle" /\ UNCHANGED <<mode, step, call, session, approvals, questions, allowed>>
  BY DEF ForbidDryRun, promptVars
<1>6. BasicType'
  BY <1>1, <1>2, <1>4, <1>5 DEF BasicType
<1>7. PlaceOf(e)'
  BY <1>1, <1>2, <1>4, <1>5 DEF PlaceOf, Indices, Mixed, Terminal, Status
<1> QED
  BY <1>2, <1>4, <1>5, <1>6, <1>7, NobodyAsks, QuietStep

(* The loop returns with the tool uses as they are.                        *)
LEMMA ReturnKeeps ==
  ASSUME LoopInv, NEW e \in Execs, NEW s \in Status \ {"none", "created", "running"}, Return(e, s),
         UNCHANGED <<mode, step, call, session, approvals, questions, allowed>>,
         transcript' \in [Execs -> Seq(Message)], \A x \in Execs \ {e} : transcript'[x] = transcript[x],
         InPhase(e, "asking") = {}
  PROVE  LoopInv'
<1>1. BasicType /\ PlaceOf(e)
  BY DEF LoopInv, Places
<1>2. /\ status' \in [Execs -> Status] /\ pc' \in [Execs -> Place]
      /\ pc'[e] = "returned" /\ status'[e] \in Status \ {"none", "created", "running"}
      /\ \A x \in Execs \ {e} : pc'[x] = pc[x] /\ status'[x] = status[x]
  BY <1>1, ReturnIs
<1>3. BasicType'
  BY <1>1, <1>2 DEF BasicType
<1>4. PlaceOf(e)'
  BY <1>1, <1>2 DEF PlaceOf, Terminal, Indices, Mixed
<1> QED
  BY <1>2, <1>3, <1>4, QuietStep

(* So does a hook that throws before the run.                              *)
LEMMA HookThrowsKeeps ==
  ASSUME LoopInv, NEW e \in Execs, HookThrows(e)
  PROVE  LoopInv'
<1>1. BasicType /\ PlaceOf(e)
  BY DEF LoopInv, Places
<1>2. pc[e] = "starting" /\ UNCHANGED <<mode, step, call, session, approvals, questions, allowed, transcript>>
  BY DEF HookThrows, promptVars
<1>3. InPhase(e, "asking") = {}
  BY <1>2, NobodyAsks
<1>4. CASE Goto(e, "rejected") /\ UNCHANGED status
  <2>1. pc' \in [Execs -> Place] /\ pc'[e] = "rejected" /\ (\A x \in Execs \ {e} : pc'[x] = pc[x])
    BY <1>1, <1>4 DEF BasicType, Goto, Place
  <2>2. BasicType'
    BY <1>1, <1>2, <1>4, <2>1 DEF BasicType
  <2>3. PlaceOf(e)'
    BY <1>1, <1>2, <1>4, <2>1 DEF PlaceOf, Indices, Mixed
  <2> QED
    BY <1>2, <1>3, <1>4, <2>1, <2>2, <2>3, QuietStep
<1>5. CASE Return(e, "failed")
  <2>1. "failed" \in Status \ {"none", "created", "running"}
    BY DEF Status
  <2>2. transcript' \in [Execs -> Seq(Message)]
    BY <1>1, <1>2 DEF BasicType
  <2> QED
    BY <1>2, <1>3, <1>5, <2>1, <2>2, ReturnKeeps
<1> QED
  BY <1>4, <1>5 DEF HookThrows

(* The loop goes on to its next step, when all results are in.             *)
LEMMA NextStepKeeps ==
  ASSUME LoopInv, NEW e \in Execs, NextStep(e), pc[e] \in {"starting", "step_completed"},
         UNCHANGED <<mode, transcript, call, approvals, questions, allowed>>, session' \in Seq(Message)
  PROVE  LoopInv'
<1>1. BasicType /\ PlaceOf(e) /\ InPhase(e, "asking") = {}
  BY NobodyAsks DEF LoopInv, Places
<1>2. /\ status' \in [Execs -> Status] /\ pc' \in [Execs -> Place]
      /\ step' \in [Execs -> Nat] /\ (\A x \in Execs : step'[x] <= maxSteps[x])
      /\ (\A x \in Execs \ {e} : pc'[x] = pc[x] /\ status'[x] = status[x] /\ step'[x] = step[x])
      /\ \/ pc'[e] = "returned" /\ status'[e] \in Status \ {"none", "created", "running"}
         \/ pc'[e] = "model" /\ status'[e] = status[e] /\ ~Terminal(e)
  BY <1>1, NextStepIs
<1>3. BasicType'
  BY <1>1, <1>2 DEF BasicType
<1>4. PlaceOf(e)'
  BY <1>1, <1>2 DEF PlaceOf, Terminal, Indices, Mixed
<1> QED
  BY <1>1, <1>2, <1>3, <1>4, QuietStep

(* The messages of a step are a sequence of messages.                      *)
LEMMA StepMessagesIs ==
  ASSUME BasicType, NEW e \in Execs
  PROVE  StepMessages(e) \in Seq(Message)
<1>1. transcript[e] \in Seq(Message)
  BY DEF BasicType
<1> QED
  BY <1>1, KeptIs DEF StepMessages

(* So does a result that comes in after the end.                           *)
LEMMA CollectTooLateKeeps ==
  ASSUME LoopInv, NEW e \in Execs, NEW i \in Uses, CollectTooLate(e, i)
  PROVE  LoopInv'
<1>1. BasicType /\ PlaceOf(e)
  BY DEF LoopInv, Places
<1>2. /\ pc' \in [Execs -> Place] /\ pc'[e] = "step_completed" /\ (\A x \in Execs \ {e} : pc'[x] = pc[x])
      /\ UNCHANGED <<mode, status, step, transcript, call, session, approvals, questions, allowed>>
      /\ Terminal(e) /\ pc[e] = "acting"
  BY <1>1 DEF CollectTooLate, Goto, Place, promptVars, BasicType
<1>3. BasicType'
  BY <1>1, <1>2 DEF BasicType
<1>4. PlaceOf(e)'
  BY <1>1, <1>2 DEF PlaceOf, Terminal, Indices, Mixed
<1> QED
  BY <1>2, <1>3, <1>4, QuietStep

(* So does every way to go on to the next step or to leave the loop.       *)
LEMMA LoopKeeps ==
  ASSUME LoopInv, NEW e \in Execs,
         HooksDone(e) \/ ModelFails(e) \/ CheckpointFails(e) \/ Abandon(e) \/ CompleteStep(e)
  PROVE  LoopInv'
<1>1. BasicType /\ PlaceOf(e)
  BY DEF LoopInv, Places
<1>2. "failed" \in Status \ {"none", "created", "running"}
  BY DEF Status
<1>3. CASE HooksDone(e)
  BY <1>1, <1>3, NextStepKeeps DEF HooksDone, promptVars, BasicType
<1>4. CASE ModelFails(e)
  BY <1>1, <1>2, <1>4, ReturnKeeps, NobodyAsks DEF ModelFails, promptVars, BasicType
<1>5. CASE CheckpointFails(e)
  <2>1. InPhase(e, "asking") = {}
    <3>1. CASE pc[e] # "acting"
      BY <3>1, NobodyAsks
    <3>2. ASSUME NEW i \in InPhase(e, "executing"), call[e][i].tool = "handoff"
          PROVE  InPhase(e, "asking") = {}
      <4>1. i \in Indices(e) /\ call[e][i].phase = "executing"
        BY <3>2 DEF InPhase
      <4>2. ~Mixed(e)
        BY <4>1, AskingActs
      <4>3. Indices(e) = 1 .. Len(call[e]) /\ Len(call[e]) \in Nat
        BY <1>1, CallsAre
      <4>4. ~(Len(call[e]) > 1)
        BY <3>2, <4>1, <4>2 DEF Mixed
      <4>5. \A j \in Indices(e) : j = i
        BY <4>1, <4>3, <4>4
      <4> QED
        BY <4>1, <4>5 DEF InPhase
    <3> QED
      BY <1>5, <3>1, <3>2 DEF CheckpointFails
  <2> QED
    BY <1>1, <1>2, <1>5, <2>1, ReturnKeeps DEF CheckpointFails, promptVars, BasicType
<1>6. CASE Abandon(e)
  <2>1. /\ pc' \in [Execs -> Place] /\ pc'[e] = "returned" /\ (\A x \in Execs \ {e} : pc'[x] = pc[x])
        /\ UNCHANGED <<mode, status, step, transcript, call, session, approvals, questions, allowed>>
        /\ Terminal(e) /\ pc[e] = "acting"
    BY <1>1, <1>6 DEF Abandon, Goto, Place, promptVars, BasicType
  <2>2. BasicType'
    BY <1>1, <2>1 DEF BasicType
  <2>3. PlaceOf(e)'
    BY <1>1, <2>1 DEF PlaceOf, Terminal, Indices, Mixed
  <2> QED
    BY <2>1, <2>2, <2>3, QuietStep
<1>7. CASE CompleteStep(e)
  <2>1. session' \in Seq(Message)
    BY <1>1, <1>7, StepMessagesIs DEF CompleteStep, Save, BasicType
  <2> QED
    BY <1>1, <1>7, <2>1, NextStepKeeps DEF CompleteStep, promptVars
<1> QED
  BY <1>3, <1>4, <1>5, <1>6, <1>7

-----------------------------------------------------------------------------
(* All tool uses of an execution are replaced.                             *)
AllReplaced(e, f) == call' = [call EXCEPT ![e] = f]

(* Nobody waits for a tool use that is issued or appended, so all those of *)
(* a message may be replaced by others of this kind.                       *)
LEMMA NewCallsWait ==
  ASSUME LoopInv, NEW e \in Execs, NEW f, f \in Seq(Call), AllReplaced(e, f), UNCHANGED <<approvals, questions>>,
         \A i \in Indices(e) : call[e][i].phase \in {"issued", "appended"},
         \A i \in DOMAIN f : f[i].phase \in {"issued", "appended"},
         \A x \in Execs \ {e} : status'[x] = status[x]
  PROVE  Waiting'
<1>1. call'[e] = f /\ \A x \in Execs \ {e} : call'[x] = call[x]
  BY AllCalls DEF LoopInv, BasicType, CallType, AllReplaced
<1>2. InPhase(e, "asking") = {} /\ InPhase(e, "executing") = {}
  BY DEF InPhase
<1>3. InPhase(e, "asking")' = {}
  BY <1>1 DEF InPhase, Indices
<1>4. \A x \in Execs \ {e} : \A ph : InPhase(x, ph)' = InPhase(x, ph)
  BY <1>1 DEF InPhase, Indices
<1>5. \A j \in Uses : <<e, j>> \notin Open(approvals) /\ <<e, j>> \notin Open(questions)
  BY <1>2 DEF LoopInv, Waiting
<1>6. \A x \in Execs : \A j \in Uses : <<x, j>> \in Open(approvals)' <=> j \in InPhase(x, "asking")'
  <2>1. Open(approvals)' = Open(approvals)
    BY DEF Open
  <2>2. \A x \in Execs : \A j \in Uses : j \in InPhase(x, "asking")' <=> j \in InPhase(x, "asking")
    BY <1>2, <1>3, <1>4
  <2> QED
    BY <2>1, <2>2 DEF LoopInv, Waiting
<1>7. \A x \in Execs : \A j \in Uses : <<x, j>> \in Open(approvals)' => status'[x] = "running"
  BY <1>5 DEF LoopInv, Waiting
<1>8. \A x \in Execs : \A j \in Uses : <<x, j>> \in Open(questions)' =>
        j \in InPhase(x, "executing")' /\ call'[x][j].tool = "ask_user_question"
  BY <1>1, <1>4, <1>5 DEF LoopInv, Waiting
<1> QED
  BY <1>6, <1>7, <1>8 DEF LoopInv, Waiting

(* A message of a model is a message.                                      *)
LEMMA AssistantMessageIs ==
  ASSUME BasicType, NEW e \in Execs, NEW uses \in Messages[e]
  PROVE  /\ uses \in Seq(Tools) /\ Len(uses) \in 0 .. MaxUses
         /\ AssistantMessage(e, uses) \in Message
         /\ AssistantMessage(e, uses).by = e /\ AssistantMessage(e, uses).role = "assistant"
         /\ AssistantMessage(e, uses).step = step[e] /\ AssistantMessage(e, uses).n = Len(uses)
<1>1. uses \in Seq(Tools) /\ Len(uses) <= MaxUses /\ MaxUses \in Nat
  BY LoopAssumption
<1>2. Len(uses) \in 0 .. MaxUses
  BY <1>1
<1>3. step[e] \in Nat
  BY DEF BasicType
<1> QED
  BY <1>1, <1>2, <1>3 DEF AssistantMessage, Message

(* A model's message is appended; the run ends or its tools are next.      *)
LEMMA AnswerKeeps ==
  ASSUME LoopInv, NEW e \in Execs, NEW uses \in Messages[e], NEW overLimit, Answer(e, uses, overLimit)
  PROVE  LoopInv'
<1>1. BasicType /\ PlaceOf(e) /\ pc[e] = "model"
  BY DEF LoopInv, Places, Answer
<1>2. PICK t \in Seq(Message) : t = Append(transcript[e], AssistantMessage(e, uses)) /\ t # << >>
  <2>1. transcript[e] \in Seq(Message) /\ AssistantMessage(e, uses) \in Message
    BY <1>1, AssistantMessageIs DEF BasicType
  <2>2. ASSUME NEW s \in Seq(Message), NEW m \in Message
        PROVE  Append(s, m) \in Seq(Message) /\ Append(s, m) # << >>
    <3>1. Append(s, m) \in Seq(Message) /\ Len(Append(s, m)) = Len(s) + 1 /\ Len(s) \in Nat
      OBVIOUS
    <3>2. Len(Append(s, m)) # 0
      BY <3>1
    <3> QED
      BY <3>1, <3>2
  <2> QED
    BY <2>1, <2>2
<1>3. transcript' = [transcript EXCEPT ![e] = t]
  BY <1>2 DEF Answer
<1>4. /\ transcript' \in [Execs -> Seq(Message)] /\ transcript'[e] # << >>
      /\ \A x \in Execs \ {e} : transcript'[x] = transcript[x]
  BY <1>1, <1>2, <1>3 DEF BasicType
<1>5. UNCHANGED <<mode, step, session, approvals, questions, allowed>>
  BY DEF Answer, promptVars
<1>6. InPhase(e, "asking") = {}
  BY <1>1, NobodyAsks
<1>7. CASE (Return(e, "limit_exceeded") \/ Return(e, "completed")) /\ UNCHANGED call
  <2>1. {"limit_exceeded", "completed"} \subseteq Status \ {"none", "created", "running"}
    BY DEF Status
  <2> QED
    BY <1>4, <1>5, <1>6, <1>7, <2>1, ReturnKeeps
<1>8. ASSUME call' = [call EXCEPT ![e] = [i \in DOMAIN uses |-> NewCall(uses[i])]],
             Goto(e, "tool_call"), UNCHANGED status
      PROVE  LoopInv'
  <2> DEFINE g == [i \in DOMAIN uses |-> NewCall(uses[i])]
  <2>1. g \in Seq(Call) /\ Len(g) <= MaxUses
    <3>1. \A tool \in Tools : NewCall(tool) \in Call
      BY DEF NewCall, Call, Phase
    <3>2. uses \in Seq(Tools) /\ Len(uses) \in 0 .. MaxUses
      BY <1>1, AssistantMessageIs
    <3>3. \A i \in DOMAIN uses : uses[i] \in Tools
      BY <3>2
    <3>4. g \in Seq(Call) /\ Len(g) = Len(uses)
      BY <3>1, <3>2, <3>3, SameLength
    <3> QED
      BY <3>2, <3>4
  <2>2. \A i \in DOMAIN g : g[i].phase = "issued"
    BY DEF NewCall
  <2>3. AllReplaced(e, g)
    BY <1>8 DEF AllReplaced
  <2> HIDE DEF g
  <2>4. call' \in [Execs -> Seq(Call)] /\ call'[e] = g /\ \A x \in Execs \ {e} : call'[x] = call[x]
    BY <1>1, <2>1, <2>3, AllCalls DEF BasicType, CallType, AllReplaced
  <2>5. pc' \in [Execs -> Place] /\ pc'[e] = "tool_call" /\ (\A x \in Execs \ {e} : pc'[x] = pc[x])
    BY <1>1, <1>8 DEF BasicType, Goto, Place
  <2>6. BasicType'
    <3>1. \A x \in Execs : Len(call'[x]) <= MaxUses
      BY <1>1, <2>1, <2>4 DEF BasicType
    <3> QED
      BY <1>1, <1>4, <1>5, <1>8, <2>4, <2>5, <3>1 DEF BasicType
  <2>7. PlaceOf(e)'
    BY <1>1, <1>4, <1>8, <2>2, <2>4, <2>5 DEF PlaceOf, Terminal, Indices, Mixed
  <2>8. \A x \in Execs \ {e} : Rests(x)
    BY <1>4, <1>5, <1>8, <2>4, <2>5 DEF Rests
  <2>9. Places'
    BY <2>7, <2>8, RestsPlace DEF LoopInv, Places
  <2>10. \A i \in Indices(e) : call[e][i].phase \in {"issued", "appended"}
    BY <1>1 DEF PlaceOf
  <2>11. Waiting'
    BY <1>5, <1>8, <2>1, <2>2, <2>3, <2>10, NewCallsWait
  <2> QED
    BY <2>6, <2>9, <2>11 DEF LoopInv
<1> QED
  BY <1>7, <1>8 DEF Answer

(* The message of a result is a message.                                   *)
LEMMA ToolMessageIs ==
  ASSUME BasicType, NEW e \in Execs, NEW i \in Indices(e)
  PROVE  /\ ToolMessage(e, i) \in Message
         /\ ToolMessage(e, i).by = e /\ ToolMessage(e, i).role = "tool"
         /\ ToolMessage(e, i).step = step[e] /\ ToolMessage(e, i).n = i
<1>1. i \in Uses /\ MaxUses \in Nat /\ step[e] \in Nat
  BY CallsAre, LoopAssumption DEF BasicType
<1>2. i \in 0 .. MaxUses
  BY <1>1 DEF Uses
<1> QED
  BY <1>1, <1>2 DEF ToolMessage, Message

(* What is the latest message when the tools are next.                     *)
LEMMA LatestIs ==
  ASSUME LoopInv, NEW e \in Execs, pc[e] = "tool_call"
  PROVE  LatestMessage(e) \in Message /\ <<LatestMessage(e)>> \in Seq(Message)
<1>1. transcript[e] \in Seq(Message) /\ transcript[e] # << >>
  BY DEF LoopInv, BasicType, Places, PlaceOf
<1>2. LatestMessage(e) \in Message
  BY <1>1 DEF LatestMessage
<1> QED
  BY <1>2

(* The tool uses of a mixed message are answered together.                 *)
LEMMA RefuseKeeps ==
  ASSUME LoopInv, NEW e \in Execs, RefuseUses(e)
  PROVE  LoopInv'
<1>1. BasicType /\ PlaceOf(e) /\ pc[e] = "tool_call"
  BY DEF LoopInv, Places, RefuseUses
<1>2. call[e] \in Seq(Call) /\ Indices(e) = DOMAIN call[e] /\ Len(call[e]) <= MaxUses
  BY <1>1 DEF BasicType, Indices
<1> DEFINE g == [i \in DOMAIN call[e] |-> [call[e][i] EXCEPT !.phase = "appended"]]
           r == [i \in DOMAIN call[e] |-> ToolMessage(e, i)]
<1>3. \A c \in Call : [c EXCEPT !.phase = "appended"] \in Call /\ [c EXCEPT !.phase = "appended"].phase = "appended"
  BY DEF Call, Phase
<1>4. \A i \in DOMAIN call[e] : call[e][i] \in Call
  BY <1>2
<1>5. g \in Seq(Call) /\ Len(g) = Len(call[e]) /\ \A i \in DOMAIN g : g[i].phase = "appended"
  BY <1>2, <1>3, <1>4, SameLength
<1>6. r \in Seq(Message)
  <2>1. \A i \in DOMAIN call[e] : ToolMessage(e, i) \in Message
    BY <1>1, <1>2, ToolMessageIs
  <2> QED
    BY <1>2, <2>1, SameLength
<1>7. AllReplaced(e, g)
  BY <1>2 DEF RefuseUses, AllReplaced
<1>8. /\ transcript' \in [Execs -> Seq(Message)] /\ \A x \in Execs \ {e} : transcript'[x] = transcript[x]
  <2>1. transcript[e] \in Seq(Message)
    BY <1>1 DEF BasicType
  <2>2. transcript[e] \o r \in Seq(Message)
    <3> HIDE DEF r
    <3> QED
      BY <1>6, <2>1
  <2>3. transcript' = [transcript EXCEPT ![e] = IF Terminal(e) THEN transcript[e] ELSE transcript[e] \o r]
    BY <1>1, <1>2 DEF RefuseUses, BasicType
  <2>4. PICK t \in Seq(Message) : transcript' = [transcript EXCEPT ![e] = t]
    <3> HIDE DEF r
    <3> QED
      BY <2>1, <2>2, <2>3
  <2> QED
    BY <1>1, <2>4 DEF BasicType
<1>9. /\ session' \in Seq(Message)
      /\ pc' \in [Execs -> Place] /\ pc'[e] = "step_completed" /\ (\A x \in Execs \ {e} : pc'[x] = pc[x])
      /\ UNCHANGED <<mode, status, step, approvals, questions, allowed>>
  BY <1>1, LatestIs DEF RefuseUses, Save, Goto, promptVars, BasicType, Place
<1> HIDE DEF g, r
<1>10. call' \in [Execs -> Seq(Call)] /\ call'[e] = g /\ \A x \in Execs \ {e} : call'[x] = call[x]
  BY <1>1, <1>5, <1>7, AllCalls DEF BasicType, CallType, AllReplaced
<1>11. BasicType'
  <2>1. \A x \in Execs : Len(call'[x]) <= MaxUses
    BY <1>1, <1>2, <1>5, <1>10 DEF BasicType
  <2> QED
    BY <1>1, <1>8, <1>9, <1>10, <2>1 DEF BasicType
<1>12. PlaceOf(e)'
  BY <1>1, <1>5, <1>9, <1>10 DEF PlaceOf, Terminal, Indices, Mixed
<1>13. \A x \in Execs \ {e} : Rests(x)
  BY <1>8, <1>9, <1>10 DEF Rests
<1>14. Places'
  BY <1>12, <1>13, RestsPlace DEF LoopInv, Places
<1>15. Waiting'
  <2>1. \A i \in Indices(e) : call[e][i].phase \in {"issued", "appended"}
    BY <1>1 DEF PlaceOf
  <2> QED
    BY <1>5, <1>7, <1>9, <2>1, NewCallsWait
<1> QED
  BY <1>11, <1>14, <1>15 DEF LoopInv

-----------------------------------------------------------------------------
(* The requests of a message are the tool uses that make them, once each.  *)
LEMMA RequestsIs ==
  ASSUME BasicType, NEW e \in Execs, NEW I
  PROVE  /\ Requests(e, I) \in Seq(Execs \X Uses) /\ Distinct(Requests(e, I))
         /\ \A r \in ToSet(Requests(e, I)) : \E i \in I : i \in Indices(e) /\ r = <<e, i>>
<1> DEFINE D == Execs \X Uses
           s == [i \in Indices(e) |-> <<e, i>>]
<1>1. call[e] \in Seq(Call) /\ Indices(e) = DOMAIN call[e] /\ Indices(e) \subseteq Uses
  BY CallsAre DEF Indices
<1>2. s \in Seq(D) /\ DOMAIN s = Indices(e)
  <2>1. \A i \in DOMAIN call[e] : <<e, i>> \in D
    BY <1>1
  <2>2. s = [i \in DOMAIN call[e] |-> s[i]]
    BY <1>1
  <2> HIDE DEF D
  <2> QED
    BY <1>1, <2>1, <2>2, SameLength
<1>3. Distinct(s)
  BY DEF Distinct
<1>4. ToSet(s) = {<<e, i>> : i \in Indices(e)}
  BY DEF ToSet
<1>5. Requests(e, I) = Kept(s, {e} \X I)
  BY DEF Requests
<1> HIDE DEF s, D
<1>6. /\ Kept(s, {e} \X I) \in Seq(D) /\ Distinct(Kept(s, {e} \X I))
      /\ ToSet(Kept(s, {e} \X I)) = ToSet(s) \cap ({e} \X I)
  BY <1>2, <1>3, KeptIs
<1> QED
  BY <1>4, <1>5, <1>6 DEF D

(* What a message asks of a prompt that holds nothing of its execution.    *)
LEMMA AskedIs ==
  ASSUME LoopInv, NEW e \in Execs, NEW m, Orderly(m), \A i \in Uses : <<e, i>> \notin Open(m), NEW I
  PROVE  /\ Orderly(AskAll(m, Requests(e, I)))
         /\ \A i \in Uses : <<e, i>> \in Open(AskAll(m, Requests(e, I))) => i \in I \cap Indices(e)
         /\ \A x \in Execs \ {e} : \A i \in Uses : <<x, i>> \in Open(AskAll(m, Requests(e, I))) <=> <<x, i>> \in Open(m)
<1> DEFINE rs == Requests(e, I)
<1>1. Indices(e) \subseteq Uses
  BY CallsAre DEF LoopInv
<1>2. rs \in Seq(Execs \X Uses) /\ Distinct(rs) /\ \A r \in ToSet(rs) : \E i \in I : i \in Indices(e) /\ r = <<e, i>>
  BY RequestsIs DEF LoopInv
<1> HIDE DEF rs
<1>3. ToSet(rs) \cap Open(m) = {}
  BY <1>1, <1>2
<1>4. Orderly(AskAll(m, rs)) /\ Open(m) \subseteq Open(AskAll(m, rs)) /\ Open(AskAll(m, rs)) \subseteq Open(m) \cup ToSet(rs)
  BY <1>2, <1>3, AskAllIs
<1> QED
  BY <1>2, <1>4 DEF rs

(* The only tool use that asks a question is a question, and it is gated   *)
(* by nothing.                                                             *)
LEMMA GatedIs == Gated = {"shell"}
BY DEF Gated, Tools, Effect

(* The tools of a message are started.                                     *)
LEMMA StartKeeps ==
  ASSUME LoopInv, NEW e \in Execs, StartTools(e)
  PROVE  LoopInv'
<1>1. BasicType /\ PlaceOf(e) /\ pc[e] = "tool_call"
  BY DEF LoopInv, Places, StartTools
<1>2. call[e] \in Seq(Call) /\ Indices(e) = DOMAIN call[e] /\ Len(call[e]) <= MaxUses /\ Indices(e) \subseteq Uses
  BY <1>1, CallsAre DEF BasicType, Indices
<1>3. \A i \in Uses : <<e, i>> \notin Open(approvals) /\ <<e, i>> \notin Open(questions)
  BY <1>1 DEF LoopInv, Waiting, PlaceOf, InPhase
<1>4. PICK A : A = approvals' /\ A = AskAll(approvals, Requests(e, Asking(e)))
  BY DEF StartTools
<1>5. PICK Q : Q = questions' /\ Q = AskAll(questions, Requests(e, Questioning(e)))
  BY DEF StartTools
<1>6. /\ Orderly(A)
      /\ \A i \in Uses : <<e, i>> \in Open(A) => i \in Asking(e)
      /\ \A x \in Execs \ {e} : \A i \in Uses : <<x, i>> \in Open(A) <=> <<x, i>> \in Open(approvals)
  BY <1>3, <1>4, AskedIs DEF LoopInv, Waiting
<1>7. /\ Orderly(Q)
      /\ \A i \in Uses : <<e, i>> \in Open(Q) => i \in Questioning(e)
      /\ \A x \in Execs \ {e} : \A i \in Uses : <<x, i>> \in Open(Q) <=> <<x, i>> \in Open(questions)
  BY <1>3, <1>5, AskedIs DEF LoopInv, Waiting
<1> DEFINE g == [i \in DOMAIN call[e] |-> Enter(call[e][i], FirstPhase(e, i))]
<1>8. AllReplaced(e, g)
  BY <1>2 DEF StartTools, AllReplaced
<1>9. ASSUME NEW i \in Indices(e)
      PROVE  /\ g[i] \in Call /\ g[i].tool = call[e][i].tool /\ g[i].phase = FirstPhase(e, i)
  <2>1. call[e][i] \in Call
    BY <1>2
  <2>2. FirstPhase(e, i) \in Phase
    BY DEF FirstPhase, Phase
  <2>3. g[i] = Enter(call[e][i], FirstPhase(e, i))
    BY <1>2
  <2> HIDE DEF g
  <2> QED
    BY <2>1, <2>2, <2>3, EnterIs
<1>10. g \in Seq(Call) /\ Len(g) = Len(call[e]) /\ DOMAIN g = Indices(e)
  <2>1. g = [i \in DOMAIN call[e] |-> g[i]] /\ DOMAIN g = Indices(e)
    BY <1>2
  <2> HIDE DEF g
  <2> QED
    BY <1>2, <1>9, <2>1, SameLength
<1> HIDE DEF g
<1>11. call' \in [Execs -> Seq(Call)] /\ call'[e] = g /\ \A x \in Execs \ {e} : call'[x] = call[x]
  BY <1>1, <1>8, <1>10, AllCalls DEF BasicType, CallType, AllReplaced
<1>12. /\ session' \in Seq(Message)
       /\ pc' \in [Execs -> Place] /\ pc'[e] = "acting" /\ (\A x \in Execs \ {e} : pc'[x] = pc[x])
       /\ UNCHANGED <<mode, step, transcript, allowed>>
  BY <1>1, LatestIs DEF StartTools, Save, Goto, BasicType, Place
<1>13. /\ status' \in [Execs -> Status] /\ status'[e] = status[e]
       /\ \A x \in Execs \ {e} : status'[x] = status[x] \/ (status[x] = "none" /\ status'[x] = "created")
  <2>1. CASE status' = status
    BY <1>1, <2>1 DEF BasicType
  <2>2. ASSUME status' = [status EXCEPT ![Child] = "created"],
               NEW i \in Indices(e), call[e][i].tool = "delegate_task", Runs(e, i)
        PROVE  /\ status' \in [Execs -> Status] /\ status'[e] = status[e]
               /\ \A x \in Execs \ {e} : status'[x] = status[x] \/ (status[x] = "none" /\ status'[x] = "created")
    <3>1. e = Root /\ status[Child] = "none"
      BY <2>2 DEF Runs
    <3> QED
      BY <1>1, <2>2, <3>1, LoopAssumption DEF BasicType, Status, Execs
  <2> QED
    BY <2>1, <2>2 DEF StartTools
<1>14. BasicType'
  <2>1. \A x \in Execs : Len(call'[x]) <= MaxUses
    BY <1>1, <1>2, <1>10, <1>11 DEF BasicType
  <2> QED
    BY <1>1, <1>11, <1>12, <1>13, <2>1 DEF BasicType
<1>15. Places'
  <2>1. PlaceOf(e)'
    <3>1. ~Mixed(e)'
      BY <1>2, <1>9, <1>10, <1>11 DEF StartTools, Mixed, Indices
    <3>2. \A i \in Indices(e)' : call'[e][i].phase = "asking" => call'[e][i].tool \in Gated
      BY <1>9, <1>10, <1>11 DEF Indices, FirstPhase, NeedsApproval
    <3> QED
      BY <1>1, <1>12, <1>13, <3>1, <3>2 DEF PlaceOf, Terminal
  <2>2. ASSUME NEW x \in Execs \ {e}  PROVE PlaceOf(x)'
    <3>1. PlaceOf(x) /\ pc'[x] = pc[x] /\ step'[x] = step[x] /\ call'[x] = call[x] /\ transcript'[x] = transcript[x]
      BY <1>11, <1>12 DEF LoopInv, Places
    <3>2. CASE status'[x] = status[x]
      BY <3>1, <3>2, RestsPlace DEF Rests
    <3>3. CASE status[x] = "none" /\ status'[x] = "created"
      BY <3>1, <3>3 DEF PlaceOf, Terminal, Mixed, Indices
    <3> QED
      BY <1>13, <3>2, <3>3
  <2> QED
    BY <2>1, <2>2 DEF Places
<1>16. \A i \in Indices(e) : FirstPhase(e, i) = "asking" <=> NeedsApproval(call[e][i].tool) /\ <<e, i>> \in Open(A)
  BY <1>4 DEF FirstPhase
<1>17. \A i \in Indices(e) : i \in Questioning(e) /\ <<e, i>> \in Open(Q) => FirstPhase(e, i) = "executing"
  BY <1>5, GatedIs DEF FirstPhase, NeedsApproval, Questioning
<1>18. ASSUME NEW x \in Execs, NEW i \in Uses
       PROVE  /\ <<x, i>> \in Open(A) <=> i \in InPhase(x, "asking")'
              /\ <<x, i>> \in Open(A) => status'[x] = "running"
              /\ <<x, i>> \in Open(Q) => i \in InPhase(x, "executing")' /\ call'[x][i].tool = "ask_user_question"
  <2>1. CASE x # e
    <3>1. call'[x] = call[x]
      BY <1>11, <2>1
    <3>2. (i \in InPhase(x, "asking")' <=> i \in InPhase(x, "asking")) /\ (i \in InPhase(x, "executing")' <=> i \in InPhase(x, "executing"))
      BY <3>1 DEF InPhase, Indices
    <3>3. (<<x, i>> \in Open(A) <=> <<x, i>> \in Open(approvals)) /\ (<<x, i>> \in Open(Q) <=> <<x, i>> \in Open(questions))
      BY <1>6, <1>7, <2>1
    <3>4. status[x] = "running" => status'[x] = "running"
      BY <1>13, <2>1
    <3> QED
      BY <3>1, <3>2, <3>3, <3>4 DEF LoopInv, Waiting
  <2>2. CASE x = e
    <3>1. i \in InPhase(e, "asking")' <=> i \in Indices(e) /\ FirstPhase(e, i) = "asking"
      BY <1>9, <1>10, <1>11 DEF InPhase, Indices
    <3>2. i \in InPhase(e, "executing")' <=> i \in Indices(e) /\ FirstPhase(e, i) = "executing"
      BY <1>9, <1>10, <1>11 DEF InPhase, Indices
    <3>3. <<e, i>> \in Open(A) <=> i \in InPhase(e, "asking")'
      BY <1>6, <1>16, <3>1 DEF Asking
    <3>4. <<e, i>> \in Open(A) => ~Terminal(e)
      BY <1>6 DEF Asking
    <3>5. ~Terminal(e) => status[e] = "running"
      BY <1>1 DEF Terminal, PlaceOf, BasicType
    <3>6. <<e, i>> \in Open(Q) => i \in Questioning(e) /\ i \in Indices(e) /\ call[e][i].tool = "ask_user_question"
      BY <1>7 DEF Questioning
    <3>7. <<e, i>> \in Open(Q) => i \in InPhase(e, "executing")' /\ call'[e][i].tool = "ask_user_question"
      BY <1>9, <1>11, <1>17, <3>2, <3>6
    <3> QED
      BY <1>13, <2>2, <3>3, <3>4, <3>5, <3>7
  <2> QED
    BY <2>1, <2>2
<1>19. Waiting'
  <2>1. approvals' = A /\ questions' = Q
    BY <1>4, <1>5
  <2>2. \A x \in Execs, i \in Uses :
          /\ <<x, i>> \in Open(approvals)' <=> i \in InPhase(x, "asking")'
          /\ <<x, i>> \in Open(approvals)' => status'[x] = "running"
          /\ <<x, i>> \in Open(questions)' => i \in InPhase(x, "executing")' /\ call'[x][i].tool = "ask_user_question"
    BY <1>18, <2>1
  <2>3. Orderly(approvals)' /\ Orderly(questions)'
    BY <1>6, <1>7, <2>1
  <2> QED
    BY <2>2, <2>3 DEF Waiting
<1> QED
  BY <1>14, <1>15, <1>19 DEF LoopInv

-----------------------------------------------------------------------------
(* One tool use whose tool has been started goes on.                       *)
LEMMA OneCallPlace ==
  ASSUME LoopInv, NEW e \in Execs, NEW i \in Indices(e), NEW c \in Call, Replaced(e, i, c),
         c.tool = call[e][i].tool, c.phase # "asking",
         call[e][i].phase \in {"asking", "remembering", "executing", "resolved"},
         status'[e] = status[e] \/ Terminal(e)',
         \/ pc'[e] = pc[e]
         \/ pc'[e] = "returned" /\ Terminal(e)'
         \/ pc'[e] = "step_completed" /\ c.phase = "appended" /\ \A j \in Indices(e) \ {i} : call[e][j].phase = "appended"
  PROVE  PlaceOf(e)'
<1>1. /\ PlaceOf(e) /\ pc[e] \in {"acting", "step_completed", "returned"} /\ ~Mixed(e)
      /\ pc[e] # "acting" => Terminal(e)
  BY AskingActs DEF LoopInv, Places
<1>2. /\ DOMAIN call'[e] = DOMAIN call[e] /\ Len(call'[e]) = Len(call[e])
      /\ call'[e][i] = c
      /\ \A j \in Indices(e) : j # i => call'[e][j] = call[e][j]
  BY OneCall DEF LoopInv, BasicType, CallType
<1>3. ~Mixed(e)'
  BY <1>1, <1>2 DEF Mixed, Indices
<1>4. pc[e] = "returned" => Terminal(e)'
  BY <1>1 DEF PlaceOf, Terminal
<1>5. status'[e] \in {"none", "created"} => FALSE
  BY <1>1 DEF PlaceOf, Terminal
<1>6. pc'[e] = "step_completed" /\ ~Terminal(e)' => \A j \in Indices(e)' : call'[e][j].phase = "appended"
  BY <1>1, <1>2 DEF Indices, Terminal
<1>7. \A j \in Indices(e)' : call'[e][j].phase = "asking" => call'[e][j].tool \in Gated
  BY <1>1, <1>2 DEF Indices, PlaceOf
<1> QED
  BY <1>1, <1>3, <1>4, <1>5, <1>6, <1>7 DEF PlaceOf

(* What becomes of everything else when one tool use goes on.              *)
LEMMA OneCallKeeps ==
  ASSUME LoopInv, NEW e \in Execs, NEW i \in Indices(e), NEW c \in Call, Replaced(e, i, c),
         mode' = mode, allowed' \subseteq Gated, step' = step, session' \in Seq(Message),
         status' \in [Execs -> Status], pc' \in [Execs -> Place], transcript' \in [Execs -> Seq(Message)],
         \A x \in Execs \ {e} : status'[x] = status[x] /\ pc'[x] = pc[x] /\ transcript'[x] = transcript[x],
         PlaceOf(e)'
  PROVE  BasicType' /\ Places'
<1>1. BasicType
  BY DEF LoopInv
<1>2. /\ call' \in [Execs -> Seq(Call)]
      /\ \A x \in Execs : Len(call'[x]) = Len(call[x])
      /\ \A x \in Execs \ {e} : \A j \in Indices(x) : call'[x][j] = call[x][j]
      /\ \A x \in Execs : DOMAIN call'[x] = DOMAIN call[x]
  BY <1>1, OneCall DEF BasicType, CallType
<1>3. BasicType'
  BY <1>1, <1>2 DEF BasicType
<1>4. \A x \in Execs \ {e} : call'[x] = call[x]
  BY <1>1 DEF Replaced, BasicType
<1>5. \A x \in Execs \ {e} : PlaceOf(x)'
  BY <1>4, RestsPlace DEF Rests, LoopInv, Places
<1> QED
  BY <1>3, <1>5 DEF Places

(* A tool use that goes on to another phase.                               *)
LEMMA PhaseIs ==
  ASSUME BasicType, NEW e \in Execs, NEW i \in Indices(e), NEW ph \in Phase, SetPhase(e, i, ph)
  PROVE  \E c \in Call : Replaced(e, i, c) /\ c.phase = ph /\ c.tool = call[e][i].tool
                         /\ c.allowed = call[e][i].allowed /\ c.started = call[e][i].started
<1>1. call[e][i] \in Call
  BY CallsAre
<1>2. \A k \in Call : /\ [k EXCEPT !.phase = ph] \in Call
                      /\ [k EXCEPT !.phase = ph].phase = ph
                      /\ [k EXCEPT !.phase = ph].tool = k.tool
                      /\ [k EXCEPT !.phase = ph].allowed = k.allowed
                      /\ [k EXCEPT !.phase = ph].started = k.started
  BY DEF Call
<1>3. PICK c \in Call : /\ c = [call[e][i] EXCEPT !.phase = ph] /\ c.phase = ph /\ c.tool = call[e][i].tool
                        /\ c.allowed = call[e][i].allowed /\ c.started = call[e][i].started
  BY <1>1, <1>2
<1>4. Replaced(e, i, c)
  BY <1>3 DEF Replaced, SetPhase, BasicType
<1> QED
  BY <1>3, <1>4

(* A tool returns, its result is collected, the settings are written, or   *)
(* control is handed over.                                                 *)
LEMMA ToolKeeps ==
  ASSUME LoopInv, NEW e \in Execs, NEW i \in Uses,
         ToolReturns(e, i) \/ HandOver(e, i) \/ Remembered(e, i) \/ Collect(e, i)
  PROVE  LoopInv'
<1>1. BasicType
  BY DEF LoopInv
<1>2. i \in Indices(e)
  BY DEF ToolReturns, HandOver, Remembered, Collect, InPhase
<1>3. ToolMessage(e, i) \in Message
  BY <1>1, <1>2, ToolMessageIs
<1>4. /\ Append(transcript[e], ToolMessage(e, i)) \in Seq(Message)
      /\ session \o <<ToolMessage(e, i)>> \in Seq(Message)
  <2>1. transcript[e] \in Seq(Message) /\ session \in Seq(Message) /\ <<ToolMessage(e, i)>> \in Seq(Message)
    BY <1>1, <1>3 DEF BasicType
  <2> QED
    BY <1>3, <2>1
<1>5. CASE ToolReturns(e, i)
  <2>1. PICK c \in Call : Replaced(e, i, c) /\ c.phase = "resolved" /\ c.tool = call[e][i].tool
    BY <1>1, <1>2, <1>5, PhaseIs DEF ToolReturns, Phase
  <2>2. /\ UNCHANGED <<mode, status, pc, step, transcript, session, approvals, questions, allowed>>
        /\ call[e][i].phase = "executing" /\ call[e][i].tool # "ask_user_question"
    BY <1>5 DEF ToolReturns, promptVars, InPhase, MayReturn
  <2>3. PlaceOf(e)'
    BY <1>2, <2>1, <2>2, OneCallPlace
  <2>4. BasicType' /\ Places'
    BY <1>1, <1>2, <2>1, <2>2, <2>3, OneCallKeeps DEF BasicType
  <2>5. Waiting'
    BY <1>2, <2>1, <2>2, OneCallWaits
  <2> QED
    BY <2>4, <2>5 DEF LoopInv
<1>6. CASE Remembered(e, i)
  <2>1. PICK c \in Call : c = Enter(call[e][i], "executing") /\ c.phase = "executing" /\ c.tool = call[e][i].tool
    <3>1. call[e][i] \in Call /\ "executing" \in Phase
      BY <1>1, <1>2, CallsAre DEF Phase
    <3> QED
      BY <3>1, EnterIs
  <2>2. Replaced(e, i, c)
    BY <1>1, <1>6, <2>1 DEF Remembered, Replaced, BasicType
  <2>3. /\ UNCHANGED <<mode, status, pc, step, transcript, session, approvals, questions, allowed>>
        /\ call[e][i].phase = "remembering"
    BY <1>6 DEF Remembered, promptVars, InPhase
  <2>4. PlaceOf(e)'
    BY <1>2, <2>1, <2>2, <2>3, OneCallPlace
  <2>5. BasicType' /\ Places'
    BY <1>1, <1>2, <2>1, <2>2, <2>3, <2>4, OneCallKeeps DEF BasicType
  <2>6. Waiting'
    BY <1>2, <2>1, <2>2, <2>3, OneCallWaits
  <2> QED
    BY <2>5, <2>6 DEF LoopInv
<1>7. CASE HandOver(e, i)
  <2>1. PICK c \in Call : Replaced(e, i, c) /\ c.phase = "appended" /\ c.tool = call[e][i].tool
    BY <1>1, <1>2, <1>7, PhaseIs DEF HandOver, Phase
  <2>2. /\ UNCHANGED <<mode, step, approvals, questions, allowed>>
        /\ call[e][i].phase = "executing" /\ call[e][i].tool = "handoff" /\ session' \in Seq(Message)
    BY <1>4, <1>7 DEF HandOver, promptVars, InPhase, Save
  <2>3. /\ status' \in [Execs -> Status] /\ pc' \in [Execs -> Place]
        /\ pc'[e] = "returned" /\ Terminal(e)'
        /\ \A x \in Execs \ {e} : pc'[x] = pc[x] /\ status'[x] = status[x]
    <3>1. "handed_off" \in Status \ {"none", "created", "running"}
      BY DEF Status
    <3> QED
      BY <1>1, <1>7, <3>1, ReturnIs DEF HandOver, Terminal
  <2>4. transcript' \in [Execs -> Seq(Message)] /\ \A x \in Execs \ {e} : transcript'[x] = transcript[x]
    BY <1>1, <1>4, <1>7 DEF HandOver, BasicType
  <2>5. PlaceOf(e)'
    BY <1>2, <2>1, <2>2, <2>3, OneCallPlace
  <2>6. BasicType' /\ Places'
    BY <1>1, <1>2, <2>1, <2>2, <2>3, <2>4, <2>5, OneCallKeeps DEF BasicType
  <2>7. InPhase(e, "asking") = {}
    <3>1. ~Mixed(e) /\ Indices(e) = 1 .. Len(call[e]) /\ Len(call[e]) \in Nat
      BY <1>1, <1>2, <2>2, AskingActs, CallsAre
    <3>2. ~(Len(call[e]) > 1)
      BY <1>2, <2>2, <3>1 DEF Mixed
    <3>3. \A j \in Indices(e) : j = i
      BY <1>2, <3>1, <3>2
    <3> QED
      BY <2>2, <3>3 DEF InPhase
  <2>8. Waiting'
    BY <1>2, <2>1, <2>2, <2>3, <2>7, OneCallWaits
  <2> QED
    BY <2>6, <2>8 DEF LoopInv
<1>8. CASE Collect(e, i)
  <2>1. PICK c \in Call : Replaced(e, i, c) /\ c.phase = "appended" /\ c.tool = call[e][i].tool
    BY <1>1, <1>2, <1>8, PhaseIs DEF Collect, Phase
  <2>2. /\ UNCHANGED <<mode, status, step, session, approvals, questions, allowed>>
        /\ call[e][i].phase = "resolved"
    BY <1>8 DEF Collect, promptVars, InPhase
  <2>3. /\ pc' \in [Execs -> Place] /\ \A x \in Execs \ {e} : pc'[x] = pc[x]
        /\ \/ pc'[e] = pc[e]
           \/ pc'[e] = "step_completed" /\ \A j \in Indices(e) \ {i} : call[e][j].phase = "appended"
    BY <1>1, <1>8 DEF Collect, BasicType, Place
  <2>4. transcript' \in [Execs -> Seq(Message)] /\ \A x \in Execs \ {e} : transcript'[x] = transcript[x]
    BY <1>1, <1>4, <1>8 DEF Collect, BasicType
  <2>5. PlaceOf(e)'
    BY <1>2, <2>1, <2>2, <2>3, OneCallPlace
  <2>6. BasicType' /\ Places'
    BY <1>1, <1>2, <2>1, <2>2, <2>3, <2>4, <2>5, OneCallKeeps DEF BasicType
  <2>7. Waiting'
    BY <1>2, <2>1, <2>2, OneCallWaits
  <2> QED
    BY <2>6, <2>7 DEF LoopInv
<1> QED
  BY <1>5, <1>6, <1>7, <1>8

-----------------------------------------------------------------------------
(* Which tool use the prompt shows.                                        *)
LEMMA ShownIs ==
  ASSUME LoopInv, NEW m \in {approvals, questions}, m.current # NoRequest
  PROVE  \E e \in Execs, i \in Uses : m.current = <<e, i>> /\ <<e, i>> \in Open(m)
<1>1. m.current \in Execs \X Uses
  BY DEF LoopInv, Waiting, Orderly, Listed, Manager
<1> QED
  BY <1>1 DEF Open

(* The user decides about the tool use that is shown.                      *)
LEMMA DecideKeeps ==
  ASSUME LoopInv, NEW d \in Decisions, Decide(d)
  PROVE  LoopInv'
<1>1. BasicType
  BY DEF LoopInv
<1>2. PICK e \in Execs, i \in Uses : approvals.current = <<e, i>> /\ <<e, i>> \in Open(approvals)
  BY ShownIs DEF Decide
<1>3. i \in Indices(e) /\ call[e][i].phase = "asking" /\ call[e][i] \in Call
  BY <1>1, <1>2, CallsAre DEF LoopInv, Waiting, InPhase
<1>4. PICK ph \in Phase : /\ ph \in {"resolved", "executing", "remembering"}
                          /\ ph = CASE d = "deny" -> "resolved" [] d = "allow_once" -> "executing" [] OTHER -> "remembering"
  BY DEF Phase, Decisions
<1>b. PICK b \in BOOLEAN : b = (d # "deny")
  OBVIOUS
<1>5. PICK c \in Call : c = [Enter(call[e][i], ph) EXCEPT !.allowed = b] /\ c.phase = ph /\ c.tool = call[e][i].tool
  <2>1. PICK k \in Call : k = Enter(call[e][i], ph) /\ k.phase = ph /\ k.tool = call[e][i].tool
    BY <1>3, EnterIs
  <2>2. [k EXCEPT !.allowed = b] \in Call /\ [k EXCEPT !.allowed = b].phase = k.phase /\ [k EXCEPT !.allowed = b].tool = k.tool
    BY DEF Call
  <2>3. \E c \in Call : c = [k EXCEPT !.allowed = b] /\ c.phase = ph /\ c.tool = call[e][i].tool
    BY <2>1, <2>2
  <2> QED
    BY <2>1, <2>3, Zenon
<1>6. approvals.current[1] = e /\ approvals.current[2] = i
  BY <1>2
<1>7. Replaced(e, i, c)
  <2>1. call' = [call EXCEPT ![e][i] = [Enter(call[e][i], ph) EXCEPT !.allowed = d # "deny"]]
    BY <1>1, <1>3, <1>4, <1>6 DEF Decide, BasicType, Indices
  <2> QED
    BY <1>1, <1>b, <1>5, <2>1 DEF Replaced, BasicType
<1>8. /\ UNCHANGED <<mode, status, pc, step, transcript, session, questions>>
      /\ approvals' = Respond(approvals)
  BY DEF Decide
<1>9. allowed' \subseteq Gated
  <2>1. call[e][i].tool \in Gated
    BY <1>3 DEF LoopInv, Places, PlaceOf
  <2> QED
    BY <1>1, <1>6, <2>1 DEF Decide, BasicType
<1>10. PlaceOf(e)'
  BY <1>3, <1>4, <1>5, <1>7, <1>8, OneCallPlace
<1>11. BasicType' /\ Places'
  BY <1>1, <1>3, <1>7, <1>8, <1>9, <1>10, OneCallKeeps DEF BasicType
<1>12. Waiting'
  <2>1. PICK A : A = approvals' /\ Orderly(A) /\ Open(A) = Open(approvals) \ {<<e, i>>}
    BY <1>2, <1>8, RespondIs DEF LoopInv, Waiting
  <2>2. /\ \A x \in Execs : DOMAIN call'[x] = DOMAIN call[x]
        /\ call'[e][i] = c
        /\ \A x \in Execs : \A j \in Indices(x) : <<x, j>> # <<e, i>> => call'[x][j] = call[x][j]
    BY <1>1, <1>3, <1>7, OneCall DEF BasicType, CallType
  <2>3. \A x \in Execs, j \in Uses : <<x, j>> # <<e, i>> =>
          (j \in InPhase(x, "asking")' <=> j \in InPhase(x, "asking")) /\ (j \in InPhase(x, "executing")' <=> j \in InPhase(x, "executing"))
    BY <2>2 DEF InPhase, Indices
  <2>4. i \notin InPhase(e, "asking")'
    BY <1>4, <1>5, <2>2 DEF InPhase
  <2>5. \A x \in Execs, j \in Uses : <<x, j>> \in Open(questions) => <<x, j>> # <<e, i>> /\ j \in Indices(x)
    BY <1>3 DEF LoopInv, Waiting, InPhase
  <2>6. \A x \in Execs, j \in Uses :
          /\ <<x, j>> \in Open(A) <=> j \in InPhase(x, "asking")'
          /\ <<x, j>> \in Open(A) => status'[x] = "running"
    BY <1>8, <2>1, <2>3, <2>4 DEF LoopInv, Waiting
  <2>7. \A x \in Execs, j \in Uses :
          <<x, j>> \in Open(questions) => j \in InPhase(x, "executing")' /\ call'[x][j].tool = "ask_user_question"
    BY <2>2, <2>3, <2>5 DEF LoopInv, Waiting
  <2>8. Open(questions)' = Open(questions) /\ questions' = questions /\ approvals' = A
    BY <1>8, <2>1 DEF Open
  <2> QED
    BY <2>1, <2>6, <2>7, <2>8 DEF LoopInv, Waiting
<1> QED
  BY <1>11, <1>12 DEF LoopInv

(* The user answers the question that is shown.                            *)
LEMMA AnswerQuestionKeeps ==
  ASSUME LoopInv, AnswerQuestion
  PROVE  LoopInv'
<1>1. BasicType
  BY DEF LoopInv
<1>2. PICK e \in Execs, i \in Uses : questions.current = <<e, i>> /\ <<e, i>> \in Open(questions)
  BY ShownIs DEF AnswerQuestion
<1>3. i \in Indices(e) /\ call[e][i].phase = "executing"
  BY <1>2 DEF LoopInv, Waiting, InPhase
<1>4. PICK c \in Call : Replaced(e, i, c) /\ c.phase = "resolved" /\ c.tool = call[e][i].tool
  BY <1>1, <1>2, <1>3, PhaseIs DEF AnswerQuestion, Phase
<1>5. /\ UNCHANGED <<mode, status, pc, step, transcript, session, approvals, allowed>>
      /\ questions' = Respond(questions)
  BY DEF AnswerQuestion
<1>6. PlaceOf(e)'
  BY <1>3, <1>4, <1>5, OneCallPlace
<1>7. BasicType' /\ Places'
  BY <1>1, <1>3, <1>4, <1>5, <1>6, OneCallKeeps DEF BasicType
<1>8. Waiting'
  <2>1. PICK Q : Q = questions' /\ Orderly(Q) /\ Open(Q) = Open(questions) \ {<<e, i>>}
    BY <1>2, <1>5, RespondIs DEF LoopInv, Waiting
  <2>2. /\ \A x \in Execs : DOMAIN call'[x] = DOMAIN call[x]
        /\ call'[e][i] = c
        /\ \A x \in Execs : \A j \in Indices(x) : <<x, j>> # <<e, i>> => call'[x][j] = call[x][j]
    BY <1>1, <1>3, <1>4, OneCall DEF BasicType, CallType
  <2>3. \A x \in Execs, j \in Uses : <<x, j>> # <<e, i>> =>
          (j \in InPhase(x, "asking")' <=> j \in InPhase(x, "asking")) /\ (j \in InPhase(x, "executing")' <=> j \in InPhase(x, "executing"))
    BY <2>2 DEF InPhase, Indices
  <2>4. i \notin InPhase(e, "asking") /\ i \notin InPhase(e, "asking")'
    BY <1>3, <1>4, <2>2 DEF InPhase
  <2>5. \A x \in Execs, j \in Uses : <<x, j>> \in Open(Q) => <<x, j>> # <<e, i>> /\ j \in Indices(x)
    BY <2>1 DEF LoopInv, Waiting, InPhase
  <2>6. \A x \in Execs, j \in Uses :
          /\ <<x, j>> \in Open(approvals) <=> j \in InPhase(x, "asking")'
          /\ <<x, j>> \in Open(approvals) => status'[x] = "running"
    BY <1>5, <2>3, <2>4 DEF LoopInv, Waiting
  <2>7. \A x \in Execs, j \in Uses :
          <<x, j>> \in Open(Q) => j \in InPhase(x, "executing")' /\ call'[x][j].tool = "ask_user_question"
    BY <2>1, <2>2, <2>3, <2>5 DEF LoopInv, Waiting
  <2>8. Open(approvals)' = Open(approvals) /\ approvals' = approvals /\ questions' = Q
    BY <1>5, <2>1 DEF Open
  <2> QED
    BY <2>1, <2>6, <2>7, <2>8 DEF LoopInv, Waiting
<1> QED
  BY <1>7, <1>8 DEF LoopInv

-----------------------------------------------------------------------------
(* What an abort does to the tool uses.                                    *)
LEMMA AbortedIs ==
  ASSUME BasicType, NEW E, E \subseteq Execs, Aborted(E)
  PROVE  /\ call' \in [Execs -> Seq(Call)]
         /\ \A x \in Execs : Indices(x)' = Indices(x) /\ Len(call'[x]) = Len(call[x])
         /\ \A x \in Execs : \A i \in Indices(x) :
              /\ call'[x][i].tool = call[x][i].tool
              /\ call'[x][i].phase = IF x \in E /\ call[x][i].phase = "asking" THEN "resolved" ELSE call[x][i].phase
         /\ \A x \in Execs \ E : call'[x] = call[x] /\ status'[x] = status[x]
         /\ \A x \in E : status'[x] = "aborted"
         /\ status' \in [Execs -> Status]
<1>1. \A c \in Call : /\ [c EXCEPT !.phase = "resolved"] \in Call
                      /\ [c EXCEPT !.phase = "resolved"].phase = "resolved"
                      /\ [c EXCEPT !.phase = "resolved"].tool = c.tool
  BY DEF Call, Phase
<1>2. ASSUME NEW x \in Execs
      PROVE  /\ call'[x] \in Seq(Call) /\ DOMAIN call'[x] = DOMAIN call[x] /\ Len(call'[x]) = Len(call[x])
             /\ \A i \in DOMAIN call[x] :
                  /\ call'[x][i].tool = call[x][i].tool
                  /\ call'[x][i].phase = IF x \in E /\ call[x][i].phase = "asking" THEN "resolved" ELSE call[x][i].phase
  <2>1. call[x] \in Seq(Call) /\ \A i \in DOMAIN call[x] : call[x][i] \in Call
    BY CallsAre DEF Indices
  <2> DEFINE f == [i \in DOMAIN call[x] |->
                    IF x \in E /\ call[x][i].phase = "asking" THEN [call[x][i] EXCEPT !.phase = "resolved"] ELSE call[x][i]]
  <2>2. call'[x] = f
    BY DEF Aborted, Indices
  <2>3. \A i \in DOMAIN call[x] :
          /\ f[i] \in Call
          /\ f[i].tool = call[x][i].tool
          /\ f[i].phase = IF x \in E /\ call[x][i].phase = "asking" THEN "resolved" ELSE call[x][i].phase
    BY <1>1, <2>1
  <2>4. f = [i \in DOMAIN call[x] |-> f[i]]
    OBVIOUS
  <2> HIDE DEF f
  <2>5. f \in Seq(Call) /\ DOMAIN f = DOMAIN call[x] /\ Len(f) = Len(call[x])
    BY <2>1, <2>3, <2>4, SameLength
  <2> QED
    BY <2>2, <2>3, <2>5
<1>3. call' = [x \in Execs |-> call'[x]]
  BY DEF Aborted
<1>4. call' \in [Execs -> Seq(Call)]
  BY <1>2, <1>3
<1>5. ASSUME NEW x \in Execs \ E  PROVE call'[x] = call[x] /\ status'[x] = status[x]
  <2>1. call[x] \in Seq(Call)
    BY DEF BasicType
  <2>2. call'[x] = [i \in DOMAIN call[x] |-> call[x][i]]
    BY DEF Aborted, Indices
  <2>3. call[x] = [i \in DOMAIN call[x] |-> call[x][i]]
    BY <2>1
  <2> QED
    BY <2>2, <2>3 DEF Aborted
<1>6. status' \in [Execs -> Status] /\ \A x \in E : status'[x] = "aborted"
  BY DEF Aborted, BasicType, Status
<1> QED
  BY <1>2, <1>4, <1>5, <1>6 DEF Indices

(* An abort closes the prompts of those it ends, and of nobody else.       *)
LEMMA CancelKeeps ==
  ASSUME LoopInv, NEW e \in Execs, Cancel(e)
  PROVE  LoopInv'
<1>1. BasicType
  BY DEF LoopInv
<1>2. PICK E \in SUBSET Execs : E = {x \in Execs : Live(x) /\ (x = e \/ e = Root)} /\ Aborted(E)
  BY DEF Cancel
<1>3. UNCHANGED <<mode, pc, step, transcript, session, questions, allowed>>
  BY DEF Cancel
<1>4. /\ call' \in [Execs -> Seq(Call)]
      /\ \A x \in Execs : Indices(x)' = Indices(x) /\ Len(call'[x]) = Len(call[x])
      /\ \A x \in Execs : \A i \in Indices(x) :
           /\ call'[x][i].tool = call[x][i].tool
           /\ call'[x][i].phase = IF x \in E /\ call[x][i].phase = "asking" THEN "resolved" ELSE call[x][i].phase
      /\ \A x \in Execs \ E : call'[x] = call[x] /\ status'[x] = status[x]
      /\ \A x \in E : status'[x] = "aborted"
      /\ status' \in [Execs -> Status]
  BY <1>1, <1>2, AbortedIs
<1>5. BasicType'
  BY <1>1, <1>3, <1>4 DEF BasicType
<1>6. ASSUME NEW x \in Execs  PROVE PlaceOf(x)'
  <2>1. PlaceOf(x)
    BY DEF LoopInv, Places
  <2>2. CASE x \notin E
    BY <1>3, <1>4, <2>1, <2>2, RestsPlace DEF Rests
  <2>3. CASE x \in E
    <3>1. Mixed(x)' <=> Mixed(x)
      BY <1>4 DEF Mixed
    <3>2. status'[x] = "aborted" /\ Terminal(x)'
      BY <1>4, <2>3 DEF Terminal, Status
    <3>3. \A i \in Indices(x) : call'[x][i].phase \in {"asking", "remembering", "executing", "resolved"}
            => call[x][i].phase \in {"asking", "remembering", "executing", "resolved"}
      BY <1>4
    <3>4. call[x] = << >> => call'[x] = << >>
      <4>1. call'[x] \in Seq(Call) /\ (call[x] = << >> => Len(call'[x]) = 0)
        BY <1>4
      <4> QED
        BY <4>1
    <3>5. \A i \in Indices(x) : call[x][i].phase \in {"issued", "appended"} => call'[x][i].phase = call[x][i].phase
      BY <1>4
    <3>6. \A i \in Indices(x) : call'[x][i].phase = "asking" => call'[x][i].tool \in Gated
      BY <1>4, <2>1 DEF PlaceOf
    <3> QED
      BY <1>3, <1>4, <2>1, <3>1, <3>2, <3>3, <3>4, <3>5, <3>6, ZenonT(30) DEF PlaceOf
  <2> QED
    BY <2>2, <2>3
<1>7. PICK A : A = approvals' /\ Orderly(A) /\ Open(A) = Open(approvals) \ (E \X Uses)
  BY <1>2, WithdrawIs DEF LoopInv, Waiting, Aborted
<1>8. \A x \in Execs, i \in Uses : (i \in InPhase(x, "asking")' <=> i \in InPhase(x, "asking") /\ x \notin E)
                                 /\ (i \in InPhase(x, "executing")' <=> i \in InPhase(x, "executing"))
  BY <1>4 DEF InPhase
<1>9. \A x \in Execs, i \in Uses :
        /\ <<x, i>> \in Open(A) <=> i \in InPhase(x, "asking")'
        /\ <<x, i>> \in Open(A) => status'[x] = "running"
  <2>1. \A x \in Execs, i \in Uses : <<x, i>> \in Open(A) <=> <<x, i>> \in Open(approvals) /\ x \notin E
    BY <1>7
  <2> QED
    BY <1>4, <1>8, <2>1 DEF LoopInv, Waiting
<1>10. \A x \in Execs, i \in Uses :
         <<x, i>> \in Open(questions) => i \in InPhase(x, "executing")' /\ call'[x][i].tool = "ask_user_question"
  <2>1. \A x \in Execs, i \in Uses : <<x, i>> \in Open(questions) =>
          i \in InPhase(x, "executing") /\ i \in Indices(x) /\ call[x][i].tool = "ask_user_question"
    BY DEF LoopInv, Waiting, InPhase
  <2> QED
    BY <1>4, <1>8, <2>1
<1>11. Waiting'
  <2>1. Open(questions)' = Open(questions) /\ questions' = questions /\ approvals' = A
    BY <1>3, <1>7 DEF Open
  <2> QED
    BY <1>7, <1>9, <1>10, <2>1 DEF LoopInv, Waiting
<1> QED
  BY <1>5, <1>6, <1>11 DEF LoopInv, Places

-----------------------------------------------------------------------------
(* Nothing that happens leaves LoopInv.                                    *)
LEMMA LoopInvStep == LoopInv /\ [Next]_vars => LoopInv'
<1> SUFFICES ASSUME LoopInv, [Next]_vars  PROVE LoopInv'
  OBVIOUS
<1>1. CASE UNCHANGED vars
  <2>1. UNCHANGED <<mode, status, pc, step, transcript, call, session, approvals, questions, allowed>>
    BY <1>1 DEF vars, promptVars
  <2>2. Places'
    BY <2>1, RestsPlace DEF Rests, LoopInv, Places
  <2>3. Waiting'
    BY <2>1, WaitsOn DEF LoopInv
  <2> QED
    BY <2>1, <2>2, <2>3 DEF LoopInv, BasicType
<1>2. ASSUME NEW e \in Execs, LoopStep(e)  PROVE LoopInv'
  BY <1>2, BeginKeeps, ForbidDryRunKeeps, HookThrowsKeeps, LoopKeeps, AnswerKeeps, RefuseKeeps, StartKeeps DEF LoopStep
<1>3. ASSUME NEW e \in Execs, NEW i \in Uses, ToolStep(e, i) \/ Collect(e, i) \/ CollectTooLate(e, i)  PROVE LoopInv'
  BY <1>3, ToolKeeps, CollectTooLateKeeps DEF ToolStep
<1> QED
  BY <1>1, <1>2, <1>3, CancelKeeps, DecideKeeps, AnswerQuestionKeeps DEF Next, UserStep

(* The loop begins there.                                                  *)
LEMMA LoopInvInit == Init => LoopInv
<1> SUFFICES ASSUME Init  PROVE LoopInv
  OBVIOUS
<1>1. << >> \in Seq(Call) /\ << >> \in Seq(Message) /\ << >> \in Seq(Execs \X Uses)
      /\ Len(<< >>) = 0 /\ DOMAIN << >> = {}
  OBVIOUS
<1>2. UserMessage(Root) \in Message
  BY UserMessageIs DEF Execs
<1>3. <<UserMessage(Root)>> \in Seq(Message)
  BY <1>2
<1>4. BasicType
  <2>1. MaxUses \in Nat /\ (\A e \in Execs : maxSteps[e] \in Nat)
    BY LoopAssumption
  <2> QED
    BY <1>1, <1>3, <2>1 DEF Init, BasicType, Status, Place
<1>5. Places
  BY <1>1 DEF Init, Places, PlaceOf, Indices
<1>6. Empty \in Manager /\ Empty.queue = << >> /\ Empty.current = NoRequest
  BY <1>1 DEF Empty, Manager
<1>7. ToSet(<< >>) = {} /\ Distinct(<< >>) /\ Len(<< >>) <= MAX_QUEUE_SIZE
  BY QueueAssumption DEF ToSet, Distinct
<1>8. Orderly(Empty) /\ Open(Empty) = {}
  BY <1>6, <1>7 DEF Orderly, Listed, Open
<1>9. approvals = Empty /\ questions = Empty /\ \A e \in Execs : Indices(e) = {}
  BY <1>1 DEF Init, Indices
<1>10. Waiting
  BY <1>8, <1>9 DEF Waiting, InPhase
<1> QED
  BY <1>4, <1>5, <1>10 DEF LoopInv

(* LoopInv always holds: the types, what a place of the loop says of the   *)
(* tool uses, and what the prompts hold.                                   *)
THEOREM LoopInvariant == Spec => []LoopInv
BY LoopInvInit, LoopInvStep, PTL DEF Spec

(* Every variable of the loop has its type.                                *)
THEOREM LoopTypeCorrect == Spec => []TypeOK
<1>1. LoopInv => TypeOK
  <2> SUFFICES ASSUME LoopInv  PROVE TypeOK
    OBVIOUS
  <2>1. \A e \in Execs : step[e] \in 0 .. maxSteps[e]
    BY LoopAssumption DEF LoopInv, BasicType
  <2>2. \A m \in {approvals, questions} :
          /\ m.queue \in Seq(Execs \X Uses) /\ Len(m.queue) <= MAX_QUEUE_SIZE
          /\ m.current \in (Execs \X Uses) \cup {NoRequest}
    BY DEF LoopInv, Waiting, Orderly, Listed, Manager
  <2> QED
    BY <2>1, <2>2 DEF TypeOK, LoopInv, BasicType
<1> QED
  BY <1>1, LoopInvariant, PTL

(* A prompt holds as many requests as its queue has places taken, and one  *)
(* more when one is shown.                                                 *)
LEMMA OpenSize ==
  ASSUME NEW m, Orderly(m)
  PROVE  Cardinality(Open(m)) = Len(m.queue) + (IF m.current = NoRequest THEN 0 ELSE 1)
<1> DEFINE q == m.queue
           S == ToSet(q)
<1>1. q \in Seq(Execs \X Uses) /\ Len(q) \in Nat /\ DOMAIN q = 1 .. Len(q) /\ Distinct(q)
      /\ m.current \notin S /\ NoRequest \notin Execs \X Uses
  BY LoopAssumption DEF Orderly, Listed, Manager, Uses
<1>2. Cardinality(S) = Len(q) /\ IsFiniteSet(S)
  <2>1. q \in Bijection(1 .. Len(q), S)
    <3>1. S = {q[i] : i \in 1 .. Len(q)}
      BY <1>1 DEF ToSet
    <3>2. q \in [1 .. Len(q) -> S]
      BY <1>1, <3>1
    <3> QED
      BY <1>1, <3>1, <3>2 DEF Distinct, Bijection, Injection, Surjection, IsInjective
  <2>2. ExistsBijection(1 .. Len(q), S)
    BY <2>1 DEF ExistsBijection
  <2>3. IsFiniteSet(1 .. Len(q)) /\ Cardinality(1 .. Len(q)) = Len(q)
    BY <1>1, FS_Interval
  <2> HIDE DEF S
  <2> QED
    BY <2>2, <2>3, FS_Bijection
<1>3. S \subseteq Execs \X Uses
  BY <1>1 DEF ToSet
<1>4. CASE m.current = NoRequest
  <2>1. Open(m) = S
    BY <1>1, <1>3, <1>4 DEF Open
  <2> QED
    BY <1>1, <1>2, <1>4, <2>1
<1>5. CASE m.current # NoRequest
  <2>1. Open(m) = S \cup {m.current}
    BY <1>5 DEF Open
  <2> HIDE DEF S
  <2>2. Cardinality(S \cup {m.current}) = Cardinality(S) + 1
    BY <1>1, <1>2, FS_AddElement
  <2> QED
    BY <1>1, <1>2, <1>5, <2>1, <2>2
<1> QED
  BY <1>4, <1>5

(* Nobody waits at the approval prompt in vain, however many executions    *)
(* ask, are aborted, or are turned down.                                   *)
THEOREM ApprovalsAreShown == Spec => []ApprovalsShown
<1>1. LoopInv => ApprovalsShown
  <2> SUFFICES ASSUME LoopInv  PROVE ApprovalsShown
    OBVIOUS
  <2>1. Orderly(approvals) /\ Open(approvals) \subseteq Execs \X Uses
    BY OpenIs DEF LoopInv, Waiting, Orderly, Listed
  <2>2. \A r \in Execs \X Uses : r \in Open(approvals) <=> r[2] \in InPhase(r[1], "asking")
    <3> SUFFICES ASSUME NEW e \in Execs, NEW i \in Uses  PROVE <<e, i>> \in Open(approvals) <=> i \in InPhase(e, "asking")
      OBVIOUS
    <3> QED
      BY DEF LoopInv, Waiting
  <2>3. Open(approvals) = {r \in Execs \X Uses : r[2] \in InPhase(r[1], "asking")}
    BY <2>1, <2>2
  <2>4. \A r \in Open(approvals) : status[r[1]] = "running"
    <3> SUFFICES ASSUME NEW e \in Execs, NEW i \in Uses, <<e, i>> \in Open(approvals)  PROVE status[e] = "running"
      BY <2>1
    <3> QED
      BY DEF LoopInv, Waiting
  <2>5. Len(approvals.queue) <= MAX_QUEUE_SIZE /\ (approvals.current = NoRequest => approvals.queue = << >>)
    BY <2>1 DEF Orderly, Listed
  <2> QED
    BY <2>1, <2>3, <2>4, <2>5, OpenSize DEF ApprovalsShown
<1> QED
  BY <1>1, LoopInvariant, PTL

-----------------------------------------------------------------------------
(* The tool uses of the k-th message have their results.                   *)
ClosedAt(t, k) ==
  /\ \A i \in 1 .. t[k].n : \E j \in Answers(t, k) : t[j].n = i
  /\ Cardinality(Answers(t, k)) = t[k].n
  /\ \A j \in Answers(t, k) : \A a \in k + 1 .. j : t[a].role = "tool"

(* What follows the k-th message, whose tool uses run: the results that    *)
(* have been collected, once each.  All before it is closed.               *)
Acted(t, k, s, n, done) ==
  /\ k \in DOMAIN t
  /\ t[k].role = "assistant" /\ t[k].step = s /\ t[k].n = n
  /\ \A j \in DOMAIN t : j < k => t[j].step < s
  /\ \A j \in DOMAIN t : j < k /\ t[j].role = "assistant" => ClosedAt(t, j)
  /\ \A j \in DOMAIN t : j > k => t[j].role = "tool" /\ t[j].step = s /\ t[j].n \in done
  /\ \A i, j \in DOMAIN t : i > k /\ j > k /\ t[i].n = t[j].n => i = j
  /\ \A i \in done : \E j \in DOMAIN t : j > k /\ t[j].n = i

ActedFrom(e, k) == Acted(transcript[e], k, step[e], Len(call[e]), InPhase(e, "appended"))

(* What a live execution has told its model, by the place of its loop.     *)
ToldTo(e) ==
  ~Terminal(e) =>
    /\ pc[e] = "model" =>
         /\ Closed(transcript[e])
         /\ \A j \in DOMAIN transcript[e] : transcript[e][j].step < step[e]
    /\ pc[e] = "tool_call" => ActedFrom(e, Len(transcript[e]))
    /\ pc[e] \in {"acting", "step_completed"} => \E k \in DOMAIN transcript[e] : ActedFrom(e, k)

Told == \A e \in Execs : ToldTo(e)

(* One transcript goes on where another ends.                              *)
Extends(u, t) ==
  /\ t \in Seq(Message) /\ u \in Seq(Message)
  /\ Len(t) <= Len(u)
  /\ \A i \in 1 .. Len(t) : u[i] = t[i]

(* A message that has its results keeps them, and gets no others, when     *)
(* what is added answers another one.                                      *)
LEMMA StaysClosed ==
  ASSUME NEW t, NEW u, Extends(u, t), NEW k \in DOMAIN t, ClosedAt(t, k),
         \A j \in DOMAIN u : j > Len(t) => ~(u[j].role = "tool" /\ u[j].step = t[k].step)
  PROVE  ClosedAt(u, k)
<1>1. /\ Len(t) \in Nat /\ Len(u) \in Nat /\ DOMAIN t = 1 .. Len(t) /\ DOMAIN u = 1 .. Len(u) /\ Len(t) <= Len(u)
      /\ \A i \in 1 .. Len(t) : u[i] = t[i] /\ i \in 1 .. Len(u)
  BY DEF Extends
<1>2. \A j \in DOMAIN u : j > Len(t) \/ j \in DOMAIN t
  BY <1>1
<1>3. u[k] = t[k]
  BY <1>1
<1>4. Answers(u, k) = Answers(t, k)
  BY <1>1, <1>2, <1>3 DEF Answers
<1>5. \A j \in Answers(t, k) : j \in DOMAIN t /\ u[j] = t[j]
  BY <1>1 DEF Answers
<1>6. \A j \in Answers(t, k) : \A a \in k + 1 .. j : u[a].role = "tool"
  <2>1. \A j \in DOMAIN t : \A a \in k + 1 .. j : a \in DOMAIN t
    BY <1>1
  <2> QED
    BY <1>1, <1>5, <2>1 DEF ClosedAt
<1> QED
  BY <1>3, <1>4, <1>5, <1>6 DEF ClosedAt

(* With the last result the transcript is closed.                          *)
LEMMA AllAnswered ==
  ASSUME NEW t \in Seq(Message), NEW k, NEW s \in Nat, NEW n \in Nat, Acted(t, k, s, n, 1 .. n)
  PROVE  Closed(t) /\ \A j \in DOMAIN t : t[j].step <= s
<1>1. Len(t) \in Nat /\ DOMAIN t = 1 .. Len(t) /\ k \in 1 .. Len(t) /\ \A j \in DOMAIN t : t[j] \in Message
  BY DEF Acted
<1>2. \A j \in DOMAIN t : j < k \/ j = k \/ j > k
  BY <1>1
<1> DEFINE A == Answers(t, k)
<1>3. A = {j \in DOMAIN t : j > k}
  BY <1>1 DEF Answers, Acted
<1>4. IsFiniteSet(A)
  <2>1. IsFiniteSet(1 .. Len(t)) /\ A \subseteq 1 .. Len(t)
    BY <1>1, <1>3, FS_Interval
  <2> HIDE DEF A
  <2> QED
    BY <2>1, FS_Subset
<1>5. Cardinality(A) = n
  <2> DEFINE g == [j \in A |-> t[j].n]
  <2>1. g \in Bijection(A, 1 .. n)
    BY <1>3 DEF Acted, Bijection, Injection, Surjection, IsInjective
  <2>2. ExistsBijection(A, 1 .. n)
    BY <2>1 DEF ExistsBijection
  <2>3. Cardinality(1 .. n) = n
    BY FS_Interval
  <2> HIDE DEF A
  <2> QED
    BY <1>4, <2>2, <2>3, FS_Bijection
<1>6. ClosedAt(t, k)
  <2>1. t[k].n = n
    BY DEF Acted
  <2>2. \A i \in 1 .. n : \E j \in A : t[j].n = i
    BY <1>3 DEF Acted
  <2>3. \A j \in A : \A a \in k + 1 .. j : a \in DOMAIN t /\ a > k
    BY <1>1, <1>3
  <2>4. \A j \in A : \A a \in k + 1 .. j : t[a].role = "tool"
    BY <2>3 DEF Acted
  <2> HIDE DEF A
  <2> QED
    BY <1>5, <2>1, <2>2, <2>4 DEF ClosedAt, A
<1>7. \A j \in DOMAIN t : t[j].role = "assistant" => ClosedAt(t, j)
  BY <1>2, <1>6 DEF Acted
<1>8. \A j \in DOMAIN t : t[j].step <= s
  <2>1. \A j \in DOMAIN t : t[j].step \in Nat
    BY <1>1 DEF Message
  <2>2. \A j \in DOMAIN t : j < k => t[j].step < s
    BY DEF Acted
  <2>3. t[k].step = s /\ \A j \in DOMAIN t : j > k => t[j].step = s
    BY DEF Acted
  <2>4. \A i \in Nat : (i < s => i <= s) /\ (i = s => i <= s)
    OBVIOUS
  <2> QED
    BY <1>2, <2>1, <2>2, <2>3, <2>4
<1> QED
  BY <1>7, <1>8 DEF Closed, ClosedAt

(* A new message of the model comes with no results.                       *)
LEMMA NewlyActed ==
  ASSUME NEW t \in Seq(Message), NEW m \in Message, m.role = "assistant", Closed(t),
         \A j \in DOMAIN t : t[j].step < m.step
  PROVE  Acted(Append(t, m), Len(t) + 1, m.step, m.n, {})
<1> DEFINE u == Append(t, m)
           k == Len(t) + 1
<1>1. /\ u \in Seq(Message) /\ Len(u) = k /\ Len(t) \in Nat /\ DOMAIN t = 1 .. Len(t) /\ DOMAIN u = 1 .. k
      /\ u[k] = m /\ k \in DOMAIN u
      /\ \A i \in 1 .. Len(t) : u[i] = t[i]
  OBVIOUS
<1>2. Extends(u, t)
  BY <1>1 DEF Extends
<1>3. \A j \in DOMAIN u : (j < k <=> j \in DOMAIN t) /\ ~(j > k) /\ (j > Len(t) => j = k)
  BY <1>1
<1> HIDE DEF u, k
<1>4. ASSUME NEW j \in DOMAIN t, t[j].role = "assistant"  PROVE ClosedAt(u, j)
  <2>1. ClosedAt(t, j)
    BY <1>4 DEF Closed, ClosedAt
  <2>2. \A i \in DOMAIN u : i > Len(t) => ~(u[i].role = "tool" /\ u[i].step = t[j].step)
    BY <1>1, <1>3
  <2> QED
    BY <1>2, <2>1, <2>2, StaysClosed
<1> QED
  BY <1>1, <1>3, <1>4 DEF Acted, u, k

(* One result more.                                                        *)
LEMMA ActedMore ==
  ASSUME NEW t \in Seq(Message), NEW k, NEW s \in Nat, NEW n, NEW done, Acted(t, k, s, n, done),
         NEW m \in Message, m.role = "tool", m.step = s, m.n \notin done
  PROVE  Acted(Append(t, m), k, s, n, done \cup {m.n})
<1> DEFINE u == Append(t, m)
           l == Len(t) + 1
<1>1. /\ u \in Seq(Message) /\ Len(u) = l /\ Len(t) \in Nat /\ DOMAIN t = 1 .. Len(t) /\ DOMAIN u = 1 .. l
      /\ u[l] = m /\ l \in DOMAIN u /\ k \in 1 .. Len(t) /\ l > k
      /\ \A i \in 1 .. Len(t) : u[i] = t[i] /\ i \in DOMAIN u
  BY DEF Acted
<1>2. Extends(u, t)
  BY <1>1 DEF Extends
<1>3. \A j \in DOMAIN u : (j \in DOMAIN t \/ j = l) /\ (j < k => j \in DOMAIN t) /\ (j > Len(t) => j = l)
  BY <1>1
<1>4. l \notin DOMAIN t
  BY <1>1
<1> HIDE DEF u, l
<1>5. ASSUME NEW j \in DOMAIN t, j < k, t[j].role = "assistant"  PROVE ClosedAt(u, j)
  <2>1. ClosedAt(t, j) /\ t[j].step < s
    BY <1>5 DEF Acted
  <2>2. t[j].step \in Nat
    <3>1. t[j] \in Message
      OBVIOUS
    <3> QED
      BY <3>1 DEF Message
  <2>3. \A i \in DOMAIN u : i > Len(t) => ~(u[i].role = "tool" /\ u[i].step = t[j].step)
    BY <1>1, <1>3, <2>1, <2>2
  <2> QED
    BY <1>2, <2>1, <2>3, StaysClosed
<1>6. \A j \in DOMAIN u : j < k => u[j].step < s /\ (u[j].role = "assistant" => ClosedAt(u, j))
  BY <1>1, <1>3, <1>5 DEF Acted
<1>7. \A j \in DOMAIN u : j > k => u[j].role = "tool" /\ u[j].step = s /\ u[j].n \in done \cup {m.n}
  BY <1>1, <1>3 DEF Acted
<1>8. \A i, j \in DOMAIN u : i > k /\ j > k /\ u[i].n = u[j].n => i = j
  <2>1. \A j \in DOMAIN t : j > k => t[j].n # m.n
    BY DEF Acted
  <2> QED
    BY <1>1, <1>3, <2>1 DEF Acted
<1>9. \A i \in done \cup {m.n} : \E j \in DOMAIN u : j > k /\ u[j].n = i
  BY <1>1 DEF Acted
<1>10. k \in DOMAIN u /\ u[k].role = "assistant" /\ u[k].step = s /\ u[k].n = n
  BY <1>1 DEF Acted
<1> QED
  BY <1>6, <1>7, <1>8, <1>9, <1>10 DEF Acted, u

(* All results at once.                                                    *)
LEMMA ActedAll ==
  ASSUME NEW t \in Seq(Message), NEW k, NEW s \in Nat, NEW n \in Nat, Acted(t, k, s, n, {}), k = Len(t),
         NEW r \in Seq(Message), Len(r) = n,
         \A i \in 1 .. n : r[i].role = "tool" /\ r[i].step = s /\ r[i].n = i
  PROVE  Acted(t \o r, k, s, n, 1 .. n)
<1> DEFINE u == t \o r
<1>1. /\ u \in Seq(Message) /\ Len(u) = k + n /\ Len(t) \in Nat /\ DOMAIN t = 1 .. k /\ DOMAIN u = 1 .. k + n
      /\ k \in 1 .. k
      /\ \A i \in 1 .. k : u[i] = t[i] /\ i \in DOMAIN u
      /\ \A i \in 1 .. n : u[k + i] = r[i] /\ k + i \in DOMAIN u /\ k + i > k
  <2>1. /\ u \in Seq(Message) /\ Len(u) = k + n /\ k \in Nat /\ DOMAIN t = 1 .. k /\ DOMAIN u = 1 .. k + n
    OBVIOUS
  <2>2. k \in 1 .. k
    BY <2>1 DEF Acted
  <2>3. /\ \A i \in 1 .. k : u[i] = t[i]
        /\ \A i \in 1 .. n : u[k + i] = r[i]
    BY <2>1
  <2>4. /\ \A i \in 1 .. k : i \in 1 .. k + n
        /\ \A i \in 1 .. n : k + i \in 1 .. k + n /\ k + i > k
    BY <2>1
  <2> HIDE DEF u
  <2> QED
    BY <2>1, <2>2, <2>3, <2>4
<1>2. Extends(u, t)
  BY <1>1 DEF Extends
<1>3. \A j \in DOMAIN u : j > k => j - k \in 1 .. n /\ k + (j - k) = j
  BY <1>1
<1>4. \A j \in DOMAIN u : j < k => j \in DOMAIN t
  BY <1>1
<1> HIDE DEF u
<1>5. \A j \in DOMAIN u : j > k => u[j].role = "tool" /\ u[j].step = s /\ u[j].n = j - k
  BY <1>1, <1>3
<1>6. ASSUME NEW j \in DOMAIN t, j < k, t[j].role = "assistant"  PROVE ClosedAt(u, j)
  <2>1. ClosedAt(t, j) /\ t[j].step < s
    BY <1>6 DEF Acted
  <2>2. t[j].step \in Nat
    <3>1. t[j] \in Message
      OBVIOUS
    <3> QED
      BY <3>1 DEF Message
  <2>3. \A i \in DOMAIN u : i > Len(t) => ~(u[i].role = "tool" /\ u[i].step = t[j].step)
    BY <1>1, <1>5, <2>1, <2>2
  <2> QED
    BY <1>2, <2>1, <2>3, StaysClosed
<1>7. \A j \in DOMAIN u : j < k => u[j].step < s /\ (u[j].role = "assistant" => ClosedAt(u, j))
  BY <1>1, <1>4, <1>6 DEF Acted
<1>8. \A i, j \in DOMAIN u : i > k /\ j > k /\ u[i].n = u[j].n => i = j
  BY <1>1, <1>3, <1>5
<1>9. \A i \in 1 .. n : \E j \in DOMAIN u : j > k /\ u[j].n = i
  <2> SUFFICES ASSUME NEW i \in 1 .. n  PROVE \E j \in DOMAIN u : j > k /\ u[j].n = i
    OBVIOUS
  <2>1. k + i \in DOMAIN u /\ k + i > k /\ u[k + i].n = i
    BY <1>1
  <2> QED
    BY <2>1
<1>10. k \in DOMAIN u /\ u[k].role = "assistant" /\ u[k].step = s /\ u[k].n = n
  BY <1>1 DEF Acted
<1>11. \A j \in DOMAIN u : j > k => u[j].n \in 1 .. n
  BY <1>3, <1>5
<1> QED
  BY <1>5, <1>7, <1>8, <1>9, <1>10, <1>11 DEF Acted, u

-----------------------------------------------------------------------------
(* A step that adds nothing to what an execution has told its model.       *)
Unmoved(x) ==
  /\ transcript'[x] = transcript[x] /\ step'[x] = step[x] /\ pc'[x] = pc[x]
  /\ Len(call'[x]) = Len(call[x])
  /\ \A i \in Uses : i \in InPhase(x, "appended")' <=> i \in InPhase(x, "appended")
  /\ status[x] \in {"completed", "failed", "limit_exceeded", "handed_off", "aborted"} =>
       status'[x] \in {"completed", "failed", "limit_exceeded", "handed_off", "aborted"}

(* An execution that does not move keeps what it has told its model.       *)
LEMMA UnmovedTold ==
  ASSUME NEW x \in Execs, ToldTo(x), Unmoved(x), BasicType, BasicType'
  PROVE  ToldTo(x)'
<1>1. Terminal(x) => Terminal(x)'
  BY DEF Unmoved, Terminal, Status
<1>2. Indices(x) \subseteq Uses /\ Indices(x)' \subseteq Uses
  <2>1. MaxUses \in Nat
    BY LoopAssumption
  <2> QED
    BY <2>1 DEF BasicType, Indices, Uses
<1>3. PICK done : done = InPhase(x, "appended") /\ done = InPhase(x, "appended")'
  BY <1>2 DEF InPhase, Unmoved
<1>4. ASSUME NEW k  PROVE ActedFrom(x, k)' <=> ActedFrom(x, k)
  BY <1>3 DEF ActedFrom, Unmoved
<1> QED
  BY <1>1, <1>4 DEF ToldTo, Unmoved

(* The steps of one execution leave the other where it is.                 *)
LEMMA OthersUnmoved ==
  ASSUME BasicType, NEW e \in Execs, NEW i \in Uses,
         LoopStep(e) \/ ToolStep(e, i) \/ Collect(e, i) \/ CollectTooLate(e, i),
         NEW x \in Execs \ {e}
  PROVE  Unmoved(x) /\ call'[x] = call[x]
<1> USE DEF BasicType
<1> SUFFICES /\ transcript'[x] = transcript[x] /\ step'[x] = step[x] /\ pc'[x] = pc[x] /\ call'[x] = call[x]
             /\ status'[x] = status[x] \/ status[x] \in {"none"}
  BY DEF Unmoved, InPhase, Indices
<1>1. CASE Begin(e) \/ ForbidDryRun(e) \/ HookThrows(e) \/ ModelFails(e) \/ CheckpointFails(e) \/ Abandon(e)
  BY <1>1 DEF Begin, ForbidDryRun, HookThrows, ModelFails, CheckpointFails, Abandon, Return, Goto
<1>2. CASE HooksDone(e) \/ CompleteStep(e)
  BY <1>2 DEF HooksDone, CompleteStep, NextStep, Return, Goto
<1>3. ASSUME NEW uses, NEW overLimit, Answer(e, uses, overLimit)
      PROVE  /\ transcript'[x] = transcript[x] /\ step'[x] = step[x] /\ pc'[x] = pc[x] /\ call'[x] = call[x]
             /\ status'[x] = status[x]
  BY <1>3 DEF Answer, Return, Goto
<1>4. CASE RefuseUses(e)
  BY <1>4 DEF RefuseUses, Goto
<1>5. CASE StartTools(e)
  <2>1. status' = status \/ (status' = [status EXCEPT ![Child] = "created"] /\ status[Child] = "none")
    BY <1>5 DEF StartTools, Runs
  <2>2. status'[x] = status[x] \/ status[x] = "none"
    BY <2>1
  <2> QED
    BY <1>5, <2>2 DEF StartTools, Goto
<1>6. CASE ToolReturns(e, i) \/ Remembered(e, i)
  BY <1>6 DEF ToolReturns, Remembered, SetPhase
<1>7. CASE HandOver(e, i)
  BY <1>7 DEF HandOver, SetPhase, Return, Goto
<1>8. CASE Collect(e, i) \/ CollectTooLate(e, i)
  BY <1>8 DEF Collect, CollectTooLate, SetPhase, Goto
<1> QED
  BY <1>1, <1>2, <1>3, <1>4, <1>5, <1>6, <1>7, <1>8 DEF LoopStep, ToolStep

(* What one tool use does to the appended ones.                            *)
LEMMA OneCallMoves ==
  ASSUME BasicType, NEW e \in Execs, NEW i \in Indices(e), NEW c \in Call, Replaced(e, i, c)
  PROVE  /\ \A x \in Execs : Len(call'[x]) = Len(call[x])
         /\ \A x \in Execs, j \in Uses : <<x, j>> # <<e, i>> =>
              (j \in InPhase(x, "appended")' <=> j \in InPhase(x, "appended"))
         /\ i \in InPhase(e, "appended")' <=> c.phase = "appended"
<1>1. /\ \A x \in Execs : DOMAIN call'[x] = DOMAIN call[x] /\ Len(call'[x]) = Len(call[x])
      /\ call'[e][i] = c
      /\ \A x \in Execs : \A j \in Indices(x) : <<x, j>> # <<e, i>> => call'[x][j] = call[x][j]
  BY OneCall DEF BasicType, CallType
<1> QED
  BY <1>1 DEF InPhase, Indices

(* A tool use that is neither appended nor becomes so.                     *)
LEMMA OneCallUnmoved ==
  ASSUME BasicType, NEW e \in Execs, NEW i \in Indices(e), NEW c \in Call, Replaced(e, i, c),
         call[e][i].phase # "appended", c.phase # "appended", UNCHANGED <<transcript, step, pc, status>>,
         NEW x \in Execs
  PROVE  Unmoved(x)
<1>1. i \notin InPhase(e, "appended")
  BY DEF InPhase
<1>2. \A j \in Uses : j \in InPhase(x, "appended")' <=> j \in InPhase(x, "appended")
  BY <1>1, OneCallMoves
<1> QED
  BY <1>2, OneCallMoves DEF Unmoved

(* What the user and the tools in the background do: one tool use goes on, *)
(* and nothing else.                                                       *)
LEMMA BackgroundIs ==
  ASSUME LoopInv,
         \/ UserStep
         \/ \E e \in Execs, i \in Uses : ToolReturns(e, i) \/ Remembered(e, i)
  PROVE  /\ UNCHANGED <<transcript, step, pc, status, session>>
         /\ \E e \in Execs : \E i \in Indices(e), c \in Call :
              /\ Replaced(e, i, c) /\ c.tool = call[e][i].tool
              /\ call[e][i].phase \in {"asking", "remembering", "executing"}
              /\ c.phase \in {"resolved", "executing", "remembering"}
<1> DEFINE Goal ==
             \E e \in Execs : \E i \in Indices(e), c \in Call :
               /\ Replaced(e, i, c) /\ c.tool = call[e][i].tool
               /\ call[e][i].phase \in {"asking", "remembering", "executing"}
               /\ c.phase \in {"resolved", "executing", "remembering"}
<1>1. BasicType
  BY DEF LoopInv
<1>2. ASSUME NEW d \in Decisions, Decide(d)  PROVE Goal /\ UNCHANGED <<transcript, step, pc, status, session>>
  <2>1. PICK e \in Execs, i \in Uses : approvals.current = <<e, i>> /\ <<e, i>> \in Open(approvals)
    BY <1>2, ShownIs DEF Decide
  <2>2. i \in Indices(e) /\ call[e][i].phase = "asking" /\ call[e][i] \in Call
    BY <1>1, <2>1, CallsAre DEF LoopInv, Waiting, InPhase
  <2>3. PICK ph \in {"resolved", "executing", "remembering"} :
          ph = CASE d = "deny" -> "resolved" [] d = "allow_once" -> "executing" [] OTHER -> "remembering"
    BY DEF Decisions
  <2>4. PICK b \in BOOLEAN : b = (d # "deny")
    OBVIOUS
  <2>5. PICK k \in Call : k = Enter(call[e][i], ph) /\ k.phase = ph /\ k.tool = call[e][i].tool
    BY <2>2, <2>3, EnterIs DEF Phase
  <2>6. [k EXCEPT !.allowed = b] \in Call /\ [k EXCEPT !.allowed = b].phase = ph /\ [k EXCEPT !.allowed = b].tool = k.tool
    BY <2>5 DEF Call
  <2>7. call' = [call EXCEPT ![e][i] = [Enter(call[e][i], ph) EXCEPT !.allowed = b]]
    BY <1>1, <1>2, <2>1, <2>2, <2>3, <2>4 DEF Decide, BasicType, Indices
  <2>8. Replaced(e, i, [k EXCEPT !.allowed = b])
    BY <1>1, <2>5, <2>7 DEF Replaced, BasicType
  <2>9. PICK c \in Call : c = [k EXCEPT !.allowed = b] /\ c.phase = ph /\ c.tool = call[e][i].tool
    BY <2>5, <2>6
  <2>10. Goal
    BY <2>2, <2>3, <2>8, <2>9
  <2> QED
    BY <1>2, <2>10 DEF Decide
<1>3. ASSUME AnswerQuestion  PROVE Goal /\ UNCHANGED <<transcript, step, pc, status, session>>
  <2>1. PICK e \in Execs, i \in Uses : questions.current = <<e, i>> /\ <<e, i>> \in Open(questions)
    BY <1>3, ShownIs DEF AnswerQuestion
  <2>2. i \in Indices(e) /\ call[e][i].phase = "executing"
    BY <2>1 DEF LoopInv, Waiting, InPhase
  <2>3. PICK c \in Call : Replaced(e, i, c) /\ c.phase = "resolved" /\ c.tool = call[e][i].tool
    BY <1>1, <1>3, <2>1, <2>2, PhaseIs DEF AnswerQuestion, Phase
  <2>4. Goal
    BY <2>2, <2>3
  <2> QED
    BY <1>3, <2>4 DEF AnswerQuestion
<1>4. ASSUME NEW e \in Execs, NEW i \in Uses, ToolReturns(e, i)
      PROVE  Goal /\ UNCHANGED <<transcript, step, pc, status, session>>
  <2>1. i \in Indices(e) /\ call[e][i].phase = "executing" /\ SetPhase(e, i, "resolved")
    BY <1>4 DEF ToolReturns, InPhase
  <2>2. PICK c \in Call : Replaced(e, i, c) /\ c.phase = "resolved" /\ c.tool = call[e][i].tool
    BY <1>1, <2>1, PhaseIs DEF Phase
  <2>3. Goal
    BY <2>1, <2>2
  <2> QED
    BY <1>4, <2>3 DEF ToolReturns
<1>5. ASSUME NEW e \in Execs, NEW i \in Uses, Remembered(e, i)
      PROVE  Goal /\ UNCHANGED <<transcript, step, pc, status, session>>
  <2>1. i \in Indices(e) /\ call[e][i].phase = "remembering"
    BY <1>5 DEF Remembered, InPhase
  <2>2. call[e][i] \in Call
    BY <1>1, <2>1, CallsAre
  <2>3. PICK c \in Call : c = Enter(call[e][i], "executing") /\ c.phase = "executing" /\ c.tool = call[e][i].tool
    BY <2>2, EnterIs DEF Phase
  <2>4. Replaced(e, i, c)
    BY <1>1, <1>5, <2>3 DEF Remembered, Replaced, BasicType
  <2>5. Goal
    BY <2>1, <2>3, <2>4
  <2> QED
    BY <1>5, <2>5 DEF Remembered
<1> HIDE DEF Goal
<1>6. Goal /\ UNCHANGED <<transcript, step, pc, status, session>>
  BY <1>2, <1>3, <1>4, <1>5 DEF UserStep
<1> QED
  BY <1>6 DEF Goal

(* The same, and a cancellation: nobody is told anything.                  *)
LEMMA UserUnmoved ==
  ASSUME LoopInv, NEW x \in Execs,
         \/ UNCHANGED vars
         \/ UserStep
         \/ \E e \in Execs : Cancel(e)
         \/ \E e \in Execs, i \in Uses : ToolReturns(e, i) \/ Remembered(e, i)
  PROVE  Unmoved(x)
<1>1. BasicType
  BY DEF LoopInv
<1>2. CASE UNCHANGED vars
  BY <1>2 DEF vars, promptVars, Unmoved, InPhase, Indices
<1>3. CASE UserStep \/ \E e \in Execs, i \in Uses : ToolReturns(e, i) \/ Remembered(e, i)
  BY <1>1, <1>3, BackgroundIs, OneCallUnmoved
<1>4. ASSUME NEW e \in Execs, Cancel(e)  PROVE Unmoved(x)
  <2>1. PICK E \in SUBSET Execs : E = {y \in Execs : Live(y) /\ (y = e \/ e = Root)} /\ Aborted(E)
    BY <1>4 DEF Cancel
  <2>2. /\ \A y \in Execs : Indices(y)' = Indices(y) /\ Len(call'[y]) = Len(call[y])
        /\ \A y \in Execs : \A i \in Indices(y) :
             call'[y][i].phase = IF y \in E /\ call[y][i].phase = "asking" THEN "resolved" ELSE call[y][i].phase
        /\ \A y \in Execs \ E : status'[y] = status[y]
    BY <1>1, <2>1, AbortedIs
  <2>3. \A i \in Uses : i \in InPhase(x, "appended")' <=> i \in InPhase(x, "appended")
    BY <2>2 DEF InPhase
  <2>4. UNCHANGED <<transcript, step, pc>>
    BY <1>4 DEF Cancel
  <2> QED
    BY <2>1, <2>2, <2>3, <2>4 DEF Unmoved, Live
<1> QED
  BY <1>2, <1>3, <1>4

-----------------------------------------------------------------------------
(* What a finished message of the model appends.                           *)
LEMMA AnswerTells ==
  ASSUME LoopInv, LoopInv', NEW e \in Execs, ToldTo(e), NEW uses \in Messages[e], NEW overLimit, Answer(e, uses, overLimit)
  PROVE  ToldTo(e)'
<1>1. BasicType /\ BasicType' /\ pc[e] = "model" /\ ~Terminal(e)
  BY DEF LoopInv, Answer
<1>2. CASE Return(e, "limit_exceeded") \/ Return(e, "completed")
  <2>1. pc'[e] = "returned"
    BY <1>1, <1>2 DEF Return, Goto, BasicType
  <2> QED
    BY <2>1 DEF ToldTo
<1>3. ASSUME call' = [call EXCEPT ![e] = [i \in DOMAIN uses |-> NewCall(uses[i])]],
             Goto(e, "tool_call")
      PROVE  ToldTo(e)'
  <2>1. PICK t \in Seq(Message) : t = transcript[e]
    BY <1>1 DEF BasicType
  <2>2. PICK m \in Message : m = AssistantMessage(e, uses) /\ m.role = "assistant" /\ m.step = step[e] /\ m.n = Len(uses)
    BY <1>1, AssistantMessageIs
  <2>3. Closed(t) /\ \A j \in DOMAIN t : t[j].step < m.step
    BY <1>1, <2>1, <2>2 DEF ToldTo
  <2>4. Acted(Append(t, m), Len(t) + 1, m.step, m.n, {})
    BY <2>2, <2>3, NewlyActed
  <2>5. PICK u \in Seq(Message) : u = Append(t, m) /\ Len(u) = Len(t) + 1
    <3>1. Append(t, m) \in Seq(Message) /\ Len(Append(t, m)) = Len(t) + 1
      OBVIOUS
    <3> QED
      BY <3>1, Zenon
  <2>6. transcript'[e] = u /\ step'[e] = step[e] /\ pc'[e] = "tool_call"
    BY <1>1, <1>3, <2>1, <2>2, <2>5 DEF Answer, BasicType, Goto
  <2>7. Len(call'[e]) = Len(uses) /\ InPhase(e, "appended")' = {}
    <3> DEFINE g == [i \in DOMAIN uses |-> NewCall(uses[i])]
    <3>1. call'[e] = g
      BY <1>1, <1>3 DEF BasicType
    <3>2. uses \in Seq(Tools)
      BY <1>1, AssistantMessageIs
    <3>3. \A i \in DOMAIN g : g[i].phase = "issued"
      BY DEF NewCall
    <3>4. Len(g) = Len(uses)
      <4>1. g \in [1 .. Len(uses) -> {NewCall(uses[i]) : i \in DOMAIN uses}] /\ Len(uses) \in Nat
        BY <3>2
      <4> QED
        BY <4>1
    <3> HIDE DEF g
    <3> QED
      BY <3>1, <3>3, <3>4 DEF InPhase, Indices
  <2>8. ActedFrom(e, Len(transcript[e]))'
    BY <2>2, <2>4, <2>5, <2>6, <2>7 DEF ActedFrom
  <2> QED
    BY <2>6, <2>8 DEF ToldTo
<1> QED
  BY <1>2, <1>3 DEF Answer

(* The refused tool uses of a mixed message all have a result.             *)
LEMMA RefuseTells ==
  ASSUME LoopInv, NEW e \in Execs, ToldTo(e), RefuseUses(e)
  PROVE  ToldTo(e)'
<1>1. BasicType /\ PlaceOf(e) /\ pc[e] = "tool_call" /\ UNCHANGED <<status, step>> /\ pc'[e] = "step_completed"
  BY DEF LoopInv, Places, RefuseUses, BasicType, Goto
<1>2. CASE Terminal(e)
  BY <1>1, <1>2 DEF ToldTo, Terminal
<1>3. CASE ~Terminal(e)
  <2>1. PICK t \in Seq(Message) : t = transcript[e]
    BY <1>1 DEF BasicType
  <2>2. PICK n \in Nat : n = Len(call[e]) /\ Indices(e) = 1 .. n
    BY <1>1, CallsAre
  <2>3. InPhase(e, "appended") = {}
    BY <1>1 DEF PlaceOf, InPhase
  <2>4. PICK k : k = Len(t)
    OBVIOUS
  <2>5. Acted(t, k, step[e], n, {}) /\ step[e] \in Nat
    BY <1>1, <1>3, <2>1, <2>2, <2>3, <2>4 DEF ToldTo, ActedFrom, BasicType
  <2>6. PICK r \in Seq(Message) : /\ r = [i \in Indices(e) |-> ToolMessage(e, i)] /\ Len(r) = n
                                  /\ \A i \in 1 .. n : r[i].role = "tool" /\ r[i].step = step[e] /\ r[i].n = i
    <3> DEFINE r == [i \in 1 .. n |-> ToolMessage(e, i)]
    <3>1. \A i \in 1 .. n : /\ ToolMessage(e, i) \in Message /\ ToolMessage(e, i).role = "tool"
                            /\ ToolMessage(e, i).step = step[e] /\ ToolMessage(e, i).n = i
      BY <1>1, <2>2, ToolMessageIs
    <3>2. r \in Seq(Message) /\ Len(r) = n
      BY <3>1
    <3>3. r = [i \in Indices(e) |-> ToolMessage(e, i)]
      BY <2>2
    <3>4. \A i \in 1 .. n : r[i] = ToolMessage(e, i)
      OBVIOUS
    <3> HIDE DEF r
    <3> QED
      BY <3>1, <3>2, <3>3, <3>4
  <2>7. Acted(t \o r, k, step[e], n, 1 .. n)
    BY <2>4, <2>5, <2>6, ActedAll
  <2>8. PICK u \in Seq(Message) : u = t \o r
    <3>1. t \o r \in Seq(Message)
      OBVIOUS
    <3> QED
      BY <3>1, Zenon
  <2>9. transcript'[e] = u
    BY <1>1, <1>3, <2>1, <2>6, <2>8 DEF RefuseUses, BasicType
  <2>10. Len(call'[e]) = n /\ InPhase(e, "appended")' = 1 .. n
    <3>1. call'[e] = [i \in 1 .. n |-> [call[e][i] EXCEPT !.phase = "appended"]]
      BY <1>1, <2>2 DEF RefuseUses, BasicType
    <3>2. \A i \in 1 .. n : call[e][i] \in Call
      BY <1>1, <2>2, CallsAre
    <3>3. \A c \in Call : [c EXCEPT !.phase = "appended"].phase = "appended"
      BY DEF Call
    <3>4. \A i \in 1 .. n : call'[e][i].phase = "appended"
      BY <3>1, <3>2, <3>3
    <3>5. DOMAIN call'[e] = 1 .. n
      BY <3>1
    <3>6. Len(call'[e]) = n
      BY <3>1
    <3> QED
      BY <3>4, <3>5, <3>6 DEF InPhase, Indices
  <2>11. ActedFrom(e, k)'
    BY <1>1, <2>7, <2>8, <2>9, <2>10 DEF ActedFrom
  <2>12. k \in DOMAIN transcript'[e]
    BY <2>7, <2>8, <2>9 DEF Acted
  <2> QED
    BY <1>1, <2>11, <2>12 DEF ToldTo
<1> QED
  BY <1>2, <1>3

(* The tools that are started have no results yet.                         *)
LEMMA StartTells ==
  ASSUME LoopInv, NEW e \in Execs, ToldTo(e), StartTools(e)
  PROVE  ToldTo(e)'
<1>1. BasicType /\ PlaceOf(e) /\ pc[e] = "tool_call" /\ UNCHANGED <<transcript, step>> /\ pc'[e] = "acting"
  BY DEF LoopInv, Places, StartTools, BasicType, Goto
<1>2. InPhase(e, "appended") = {} /\ InPhase(e, "appended")' = {} /\ Len(call'[e]) = Len(call[e])
  <2>1. call'[e] = [i \in DOMAIN call[e] |-> Enter(call[e][i], FirstPhase(e, i))]
    BY <1>1 DEF StartTools, BasicType, Indices
  <2>2. \A i \in DOMAIN call[e] : call[e][i] \in Call /\ FirstPhase(e, i) \in {"asking", "resolved", "executing"}
    BY <1>1, CallsAre, FirstPhaseIs DEF BasicType, Indices
  <2>3. \A i \in DOMAIN call[e] : Enter(call[e][i], FirstPhase(e, i)).phase = FirstPhase(e, i)
    BY <2>2, EnterIs DEF Phase
  <2>4. \A i \in DOMAIN call[e] : call'[e][i].phase # "appended"
    BY <2>1, <2>2, <2>3
  <2>5. DOMAIN call'[e] = DOMAIN call[e] /\ Len(call'[e]) = Len(call[e])
    <3>1. DOMAIN call[e] = 1 .. Len(call[e]) /\ Len(call[e]) \in Nat
      BY <1>1, CallsAre DEF Indices
    <3> QED
      BY <2>1, <3>1
  <2> QED
    BY <1>1, <2>4, <2>5 DEF InPhase, Indices, PlaceOf
<1>3. CASE Terminal(e)
  <2>1. Terminal(e)'
    BY <1>1, <1>3, LoopAssumption DEF StartTools, Runs, Terminal, BasicType, Execs
  <2> QED
    BY <2>1 DEF ToldTo
<1>4. CASE ~Terminal(e)
  <2>1. PICK k : ActedFrom(e, k) /\ k = Len(transcript[e])
    BY <1>1, <1>4 DEF ToldTo
  <2>2. ActedFrom(e, k)' /\ k \in DOMAIN transcript'[e]
    BY <1>1, <1>2, <2>1 DEF ActedFrom, Acted
  <2> QED
    BY <1>1, <2>2 DEF ToldTo
<1> QED
  BY <1>3, <1>4

(* A result is collected.                                                  *)
LEMMA CollectTells ==
  ASSUME LoopInv, NEW e \in Execs, ToldTo(e), NEW i \in Uses, Collect(e, i)
  PROVE  ToldTo(e)'
<1>1. BasicType /\ pc[e] = "acting" /\ ~Terminal(e) /\ UNCHANGED <<status, step>>
      /\ i \in Indices(e) /\ call[e][i].phase = "resolved" /\ SetPhase(e, i, "appended")
  BY DEF LoopInv, Collect, InPhase
<1>2. PICK t \in Seq(Message) : t = transcript[e]
  BY <1>1 DEF BasicType
<1>3. PICK k \in DOMAIN t : ActedFrom(e, k)
  BY <1>1, <1>2 DEF ToldTo
<1>4. PICK done : done = InPhase(e, "appended") /\ i \notin done
  <2>1. i \notin InPhase(e, "appended")
    BY <1>1 DEF InPhase
  <2> QED
    BY <2>1
<1>5. PICK m \in Message : m = ToolMessage(e, i) /\ m.role = "tool" /\ m.step = step[e] /\ m.n = i
  BY <1>1, ToolMessageIs
<1>6. PICK n : n = Len(call[e]) /\ Acted(t, k, step[e], n, done) /\ step[e] \in Nat
  BY <1>1, <1>2, <1>3, <1>4 DEF ActedFrom, BasicType
<1>7. Acted(Append(t, m), k, step[e], n, done \cup {m.n})
  BY <1>4, <1>5, <1>6, ActedMore
<1>8. PICK u \in Seq(Message) : u = Append(t, m)
  <2>1. Append(t, m) \in Seq(Message)
    OBVIOUS
  <2> QED
    BY <2>1, Zenon
<1>9. transcript'[e] = u
  BY <1>1, <1>2, <1>5, <1>8 DEF Collect, BasicType
<1>10. Len(call'[e]) = n /\ InPhase(e, "appended")' = done \cup {m.n}
  <2>1. PICK c \in Call : Replaced(e, i, c) /\ c.phase = "appended"
    BY <1>1, PhaseIs DEF Phase
  <2>2. /\ DOMAIN call'[e] = DOMAIN call[e] /\ Len(call'[e]) = Len(call[e])
        /\ call'[e][i] = c
        /\ \A j \in Indices(e) : j # i => call'[e][j] = call[e][j]
    BY <1>1, <2>1, OneCall DEF BasicType, CallType
  <2> QED
    BY <1>1, <1>4, <1>5, <1>6, <2>1, <2>2 DEF InPhase, Indices
<1>11. ActedFrom(e, k)' /\ k \in DOMAIN transcript'[e]
  BY <1>1, <1>5, <1>7, <1>8, <1>9, <1>10 DEF ActedFrom, Acted
<1>12. pc'[e] \in {"acting", "step_completed"}
  BY <1>1 DEF Collect, BasicType
<1> QED
  BY <1>11, <1>12 DEF ToldTo

(* The next step begins with a closed transcript.                          *)
LEMMA NextStepTells ==
  ASSUME LoopInv, NEW e \in Execs, ToldTo(e), HooksDone(e) \/ CompleteStep(e)
  PROVE  ToldTo(e)'
<1>1. BasicType /\ PlaceOf(e) /\ NextStep(e) /\ transcript' = transcript /\ pc[e] \in {"starting", "step_completed"}
  BY DEF LoopInv, Places, HooksDone, CompleteStep
<1>2. CASE pc'[e] = "returned"
  BY <1>2 DEF ToldTo
<1>3. CASE pc'[e] = "model" /\ step'[e] = step[e] + 1 /\ ~Terminal(e)
  <2>1. PICK t \in Seq(Message) : t = transcript[e] /\ t = transcript'[e]
    BY <1>1 DEF BasicType
  <2>2. PICK s \in Nat : s = step[e] /\ step'[e] = s + 1
    BY <1>1, <1>3 DEF BasicType
  <2>3. Closed(t) /\ \A j \in DOMAIN t : t[j].step <= s
    <3>1. CASE pc[e] = "starting"
      <4>1. t = <<UserMessage(e)>> /\ UserMessage(e) \in Message /\ UserMessage(e).role = "user" /\ UserMessage(e).step = 0
        BY <1>1, <2>1, <3>1, UserMessageIs DEF PlaceOf
      <4>2. DOMAIN t = {1} /\ t[1] = UserMessage(e)
        BY <4>1
      <4> QED
        BY <4>1, <4>2, <2>2 DEF Closed
    <3>2. CASE pc[e] = "step_completed"
      <4>1. PICK k \in DOMAIN t : ActedFrom(e, k)
        BY <1>3, <2>1, <3>2 DEF ToldTo
      <4>2. PICK n \in Nat : n = Len(call[e]) /\ Indices(e) = 1 .. n
        BY <1>1, CallsAre
      <4>3. InPhase(e, "appended") = 1 .. n
        BY <1>1, <1>3, <3>2, <4>2 DEF PlaceOf, InPhase
      <4>4. Acted(t, k, s, n, 1 .. n)
        BY <2>1, <2>2, <4>1, <4>2, <4>3 DEF ActedFrom
      <4> QED
        BY <4>4, AllAnswered
    <3> QED
      BY <1>1, <3>1, <3>2
  <2>4. \A j \in DOMAIN t : t[j].step < s + 1
    <3>1. \A j \in DOMAIN t : t[j].step \in Nat
      <4>1. \A j \in DOMAIN t : t[j] \in Message
        OBVIOUS
      <4> QED
        BY <4>1 DEF Message
    <3> QED
      BY <2>3, <3>1
  <2> QED
    BY <1>3, <2>1, <2>2, <2>3, <2>4 DEF ToldTo
<1> QED
  BY <1>1, <1>2, <1>3, NextStepIs

(* A loop that is over, or has not begun, tells nobody anything.           *)
LEMMA OverTells ==
  ASSUME LoopInv, NEW e \in Execs, NEW i \in Uses,
         \/ Begin(e) \/ ForbidDryRun(e) \/ HookThrows(e) \/ ModelFails(e) \/ CheckpointFails(e) \/ Abandon(e)
         \/ HandOver(e, i) \/ CollectTooLate(e, i)
  PROVE  ToldTo(e)'
<1>1. BasicType
  BY DEF LoopInv
<1>2. pc'[e] \in {"starting", "rejected", "returned"} \/ Terminal(e)'
  BY <1>1 DEF Begin, ForbidDryRun, HookThrows, ModelFails, CheckpointFails, Abandon, HandOver, CollectTooLate,
              Return, Goto, Terminal, BasicType
<1> QED
  BY <1>2 DEF ToldTo

(* Nothing that happens leaves Told.                                       *)
LEMMA ToldStep == LoopInv /\ LoopInv' /\ Told /\ [Next]_vars => Told'
<1> SUFFICES ASSUME LoopInv, LoopInv', Told, [Next]_vars, NEW x \in Execs  PROVE ToldTo(x)'
  BY DEF Told
<1>1. ToldTo(x) /\ BasicType /\ BasicType'
  BY DEF Told, LoopInv
<1>2. CASE Unmoved(x)
  BY <1>1, <1>2, UnmovedTold
<1>3. ASSUME NEW e \in Execs, NEW i \in Uses, LoopStep(e) \/ ToolStep(e, i) \/ Collect(e, i) \/ CollectTooLate(e, i)
      PROVE ToldTo(x)'
  <2>1. CASE x # e
    BY <1>1, <1>2, <1>3, <2>1, OthersUnmoved
  <2>2. CASE x = e
    <3>1. CASE LoopStep(e)
      BY <1>1, <2>2, <3>1, OverTells, NextStepTells, AnswerTells, RefuseTells, StartTells DEF LoopStep
    <3>2. CASE ToolReturns(e, i) \/ Remembered(e, i)
      BY <1>2, <3>2, UserUnmoved
    <3>3. CASE HandOver(e, i) \/ CollectTooLate(e, i)
      BY <2>2, <3>3, OverTells
    <3>4. CASE Collect(e, i)
      BY <1>1, <2>2, <3>4, CollectTells
    <3> QED
      BY <1>3, <3>1, <3>2, <3>3, <3>4 DEF ToolStep
  <2> QED
    BY <2>1, <2>2
<1>4. CASE UNCHANGED vars \/ (\E e \in Execs : Cancel(e)) \/ UserStep
  BY <1>2, <1>4, UserUnmoved
<1>5. ASSUME NEW e \in Execs, LoopStep(e)  PROVE ToldTo(x)'
  <2>1. 1 \in Uses
    BY LoopAssumption DEF Uses
  <2> QED
    BY <1>3, <1>5, <2>1
<1> QED
  BY <1>3, <1>4, <1>5 DEF Next

(* A live execution asks its model only with a closed transcript, in       *)
(* whatever order its parallel tools end.                                  *)
THEOREM TranscriptsAreClosed == Spec => []TranscriptClosed
<1>1. Init => Told
  BY DEF Init, Told, ToldTo
<1>2. Told => TranscriptClosed
  BY DEF Told, ToldTo, TranscriptClosed
<1> QED
  BY <1>1, <1>2, LoopInvariant, ToldStep, PTL DEF Spec

-----------------------------------------------------------------------------
(* The elements of s that belong to T.                                     *)
Sub(s, T) == Kept(s, ToSet(s) \cap T)

(* What Sub keeps of a longer sequence.                                    *)
LEMMA SubMore ==
  ASSUME NEW E, NEW s \in Seq(E), NEW u \in Seq(E), NEW T
  PROVE  /\ Sub(s, T) \in Seq(E) /\ ToSet(Sub(s, T)) = ToSet(s) \cap T
         /\ ToSet(u) \subseteq T => Sub(s \o u, T) = Sub(s, T) \o u
         /\ ToSet(u) \cap T = {} => Sub(s \o u, T) = Sub(s, T)
         /\ ToSet(s) \cap T = {} => Sub(s, T) = << >>
<1> DEFINE S == ToSet(s) \cap T
           R == ToSet(s \o u) \cap T
<1>1. /\ Len(s) \in Nat /\ Len(u) \in Nat /\ Len(s \o u) = Len(s) + Len(u)
      /\ DOMAIN s = 1 .. Len(s) /\ DOMAIN u = 1 .. Len(u) /\ DOMAIN (s \o u) = 1 .. Len(s) + Len(u)
      /\ \A i \in 1 .. Len(s) : (s \o u)[i] = s[i] /\ i \in 1 .. Len(s) + Len(u)
      /\ \A i \in 1 .. Len(u) : (s \o u)[Len(s) + i] = u[i] /\ Len(s) + i \in 1 .. Len(s) + Len(u)
  OBVIOUS
<1>2. ToSet(s) \subseteq ToSet(s \o u) /\ ToSet(u) \subseteq ToSet(s \o u)
  <2>1. ASSUME NEW i \in 1 .. Len(s)  PROVE s[i] \in ToSet(s \o u)
    BY <1>1 DEF ToSet
  <2>2. ASSUME NEW i \in 1 .. Len(u)  PROVE u[i] \in ToSet(s \o u)
    BY <1>1 DEF ToSet
  <2>3. ToSet(s) = {s[i] : i \in 1 .. Len(s)} /\ ToSet(u) = {u[i] : i \in 1 .. Len(u)}
    BY <1>1 DEF ToSet
  <2> QED
    BY <2>1, <2>2, <2>3
<1>3. \A y \in ToSet(s) : y \in S <=> y \in R
  BY <1>2
<1>4. (\A y \in ToSet(u) : y \in R) => Kept(s \o u, R) = Kept(s, S) \o u
  <2> HIDE DEF S, R
  <2> QED
    BY <1>3, KeptMore
<1>5. (\A y \in ToSet(u) : y \notin R) => Kept(s \o u, R) = Kept(s, S)
  <2> HIDE DEF S, R
  <2> QED
    BY <1>3, KeptMore
<1>6. Sub(s, T) \in Seq(E) /\ ToSet(Sub(s, T)) = ToSet(s) \cap T
  <2>1. Kept(s, S) \in Seq(E) /\ ToSet(Kept(s, S)) = ToSet(s) \cap S
    <3> HIDE DEF S
    <3> QED
      BY KeptIs
  <2> QED
    BY <2>1 DEF Sub
<1>7. ToSet(s) \cap T = {} => Sub(s, T) = << >>
  <2> SUFFICES ASSUME NEW k \in Seq(E), ToSet(k) = {}  PROVE k = << >>
    BY <1>6
  <2>1. k # << >> => k[1] \in ToSet(k)
    BY DEF ToSet
  <2> QED
    BY <2>1
<1> QED
  BY <1>2, <1>4, <1>5, <1>6, <1>7 DEF Sub

(* The same, of messages.                                                  *)
LEMMA SubJoin ==
  ASSUME NEW s \in Seq(Message), NEW u \in Seq(Message), NEW T, ToSet(u) \subseteq T
  PROVE  Sub(s \o u, T) = Sub(s, T) \o u
BY SubMore

(* The messages that are the root's, and the results of a step.            *)
ByRoot == {m \in Message : m.by = Root}
Results(n) == {m \in Message : m.role = "tool" /\ m.step = n}

(* The messages of the root and those of a step are parts of what was      *)
(* written.                                                                *)
LEMMA SubsAre ==
  ASSUME BasicType, NEW e \in Execs
  PROVE  RootMessages = Sub(session, ByRoot) /\ StepMessages(e) = Sub(transcript[e], Results(step[e]))
<1>1. session \in Seq(Message) /\ transcript[e] \in Seq(Message)
  BY DEF BasicType
<1>2. ToSet(session) \subseteq Message /\ ToSet(transcript[e]) \subseteq Message
  BY <1>1 DEF ToSet
<1>3. {m \in ToSet(session) : m.by = Root} = ToSet(session) \cap ByRoot
  BY <1>2 DEF ByRoot
<1>4. {m \in ToSet(transcript[e]) : m.role = "tool" /\ m.step = step[e]} = ToSet(transcript[e]) \cap Results(step[e])
  BY <1>2 DEF Results
<1> QED
  BY <1>3, <1>4 DEF Sub, RootMessages, StepMessages

-----------------------------------------------------------------------------
(* Every execution writes its own transcript, one step after the other.    *)
WrittenBy(e) ==
  /\ \A j \in DOMAIN transcript[e] : transcript[e][j].by = e /\ transcript[e][j].step <= step[e]
  /\ pc[e] \in {"model", "tool_call"} =>
       \A j \in DOMAIN transcript[e] : transcript[e][j].role = "tool" => transcript[e][j].step < step[e]

Written == \A e \in Execs : WrittenBy(e)

(* What a longer transcript is written by.                                 *)
LEMMA AppendWrites ==
  ASSUME BasicType, NEW e \in Execs, WrittenBy(e), NEW r \in Seq(Message), step'[e] = step[e],
         transcript'[e] = transcript[e] \o r, \A m \in ToSet(r) : m.by = e /\ m.step = step[e],
         pc'[e] \in {"model", "tool_call"} => pc[e] \in {"model", "tool_call"} /\ \A m \in ToSet(r) : m.role # "tool"
  PROVE  WrittenBy(e)'
<1>1. PICK t \in Seq(Message) : t = transcript[e]
  BY DEF BasicType
<1>2. PICK u : u = t \o r /\ u = transcript'[e]
  BY <1>1
<1>3. /\ Len(t) \in Nat /\ Len(r) \in Nat /\ Len(u) = Len(t) + Len(r)
      /\ DOMAIN t = 1 .. Len(t) /\ DOMAIN r = 1 .. Len(r) /\ DOMAIN u = 1 .. Len(t) + Len(r)
      /\ \A i \in 1 .. Len(t) : u[i] = t[i]
      /\ \A i \in 1 .. Len(r) : u[Len(t) + i] = r[i]
  <2>1. u = t \o r
    BY <1>2
  <2> QED
    BY ONLY t \in Seq(Message), r \in Seq(Message), <2>1
<1>4. \A i \in DOMAIN u : \/ i \in 1 .. Len(t)
                          \/ i - Len(t) \in 1 .. Len(r) /\ Len(t) + (i - Len(t)) = i
  BY <1>3
<1>5. \A i \in DOMAIN u : (i \in DOMAIN t /\ u[i] = t[i]) \/ u[i] \in ToSet(r)
  BY <1>3, <1>4 DEF ToSet
<1>6. step[e] \in Nat /\ step[e] <= step[e]
  BY DEF BasicType
<1> QED
  BY <1>1, <1>2, <1>5, <1>6 DEF WrittenBy

(* One message more.                                                       *)
LEMMA OneWrites ==
  ASSUME BasicType, NEW e \in Execs, WrittenBy(e), NEW m \in Message, step'[e] = step[e],
         transcript'[e] = Append(transcript[e], m), m.by = e, m.step = step[e],
         pc'[e] \in {"model", "tool_call"} => pc[e] \in {"model", "tool_call"} /\ m.role # "tool"
  PROVE  WrittenBy(e)'
<1>1. transcript[e] \in Seq(Message)
  BY DEF BasicType
<1>2. transcript'[e] = transcript[e] \o <<m>> /\ <<m>> \in Seq(Message) /\ ToSet(<<m>>) = {m}
  BY <1>1 DEF ToSet
<1> QED
  BY <1>2, AppendWrites

(* No step writes what another execution says, or an earlier step.         *)
LEMMA WrittenStep == LoopInv /\ Written /\ [Next]_vars => Written'
<1> SUFFICES ASSUME LoopInv, Written, [Next]_vars, NEW x \in Execs  PROVE WrittenBy(x)'
  BY DEF Written
<1>1. WrittenBy(x) /\ BasicType /\ PlaceOf(x)
  BY DEF Written, LoopInv, Places
<1>2. CASE Unmoved(x)
  BY <1>1, <1>2 DEF WrittenBy, Unmoved
<1>a. /\ \A t : Return(x, t) => pc'[x] = "returned"
      /\ \A place : Goto(x, place) => pc'[x] = place
  BY <1>1 DEF Return, Goto, BasicType
<1>3. CASE Begin(x)
  <2>1. transcript'[x] = <<UserMessage(x)>> /\ step'[x] = step[x] /\ pc'[x] = "starting"
    BY <1>1, <1>3, <1>a DEF Begin, BasicType
  <2>2. UserMessage(x).by = x /\ UserMessage(x).step = 0 /\ step[x] \in Nat
    BY <1>1, UserMessageIs DEF BasicType
  <2> QED
    BY <2>1, <2>2 DEF WrittenBy
<1>b. CASE ForbidDryRun(x)
  <2>1. transcript'[x] = <<UserMessage(x)>> /\ step'[x] = step[x] /\ pc'[x] = "returned"
    BY <1>1, <1>b, <1>a DEF ForbidDryRun, BasicType
  <2>2. UserMessage(x).by = x /\ UserMessage(x).step = 0 /\ step[x] \in Nat
    BY <1>1, UserMessageIs DEF BasicType
  <2> QED
    BY <2>1, <2>2 DEF WrittenBy
<1>4. CASE HookThrows(x) \/ ModelFails(x) \/ CheckpointFails(x) \/ Abandon(x)
  BY <1>1, <1>4, <1>a DEF HookThrows, ModelFails, CheckpointFails, Abandon, WrittenBy
<1>5. CASE HooksDone(x) \/ CompleteStep(x)
  <2>1. NextStep(x) /\ transcript' = transcript
    BY <1>5 DEF HooksDone, CompleteStep
  <2>2. \/ pc'[x] = "returned" /\ step'[x] \in {step[x], step[x] + 1}
        \/ pc'[x] = "model" /\ step'[x] = step[x] + 1
    BY <1>1, <2>1, NextStepIs
  <2>3. \A j \in DOMAIN transcript[x] : transcript[x][j].step \in Nat
    <3>1. transcript[x] \in Seq(Message)
      BY <1>1 DEF BasicType
    <3>2. \A j \in DOMAIN transcript[x] : transcript[x][j] \in Message
      BY <3>1
    <3> QED
      BY <3>2 DEF Message
  <2>4. step[x] \in Nat
    BY <1>1 DEF BasicType
  <2> QED
    BY <1>1, <2>1, <2>2, <2>3, <2>4 DEF WrittenBy
<1>6. ASSUME NEW uses \in Messages[x], NEW overLimit, Answer(x, uses, overLimit)  PROVE WrittenBy(x)'
  <2>1. transcript'[x] = Append(transcript[x], AssistantMessage(x, uses)) /\ step'[x] = step[x] /\ pc[x] = "model"
    BY <1>1, <1>6 DEF Answer, BasicType
  <2> QED
    BY <1>1, <2>1, AssistantMessageIs, OneWrites
<1>7. CASE RefuseUses(x)
  <2>1. step'[x] = step[x] /\ pc'[x] = "step_completed"
    BY <1>1, <1>7, <1>a DEF RefuseUses
  <2>2. PICK r \in Seq(Message) : transcript'[x] = transcript[x] \o r /\ \A m \in ToSet(r) : m.by = x /\ m.step = step[x]
    <3>1. CASE Terminal(x)
      <4>1. transcript[x] \in Seq(Message) /\ << >> \in Seq(Message) /\ ToSet(<< >>) = {}
        BY <1>1 DEF BasicType, ToSet
      <4>2. transcript'[x] = transcript[x] \o << >>
        BY <1>1, <1>7, <3>1, <4>1 DEF RefuseUses, BasicType
      <4> QED
        BY <4>1, <4>2
    <3>2. CASE ~Terminal(x)
      <4> DEFINE r == [i \in Indices(x) |-> ToolMessage(x, i)]
      <4>1. call[x] \in Seq(Call) /\ Indices(x) = DOMAIN call[x]
        BY <1>1 DEF BasicType, Indices
      <4>2. \A i \in DOMAIN call[x] : ToolMessage(x, i) \in Message /\ ToolMessage(x, i).by = x /\ ToolMessage(x, i).step = step[x]
        BY <1>1, <4>1, ToolMessageIs
      <4>3. r \in Seq(Message) /\ DOMAIN r = DOMAIN call[x]
        BY <4>1, <4>2, SameLength
      <4>4. \A m \in ToSet(r) : m.by = x /\ m.step = step[x]
        BY <4>1, <4>2 DEF ToSet
      <4>5. transcript'[x] = transcript[x] \o r
        BY <1>1, <1>7, <3>2 DEF RefuseUses, BasicType
      <4> HIDE DEF r
      <4> QED
        BY <4>3, <4>4, <4>5
    <3> QED
      BY <3>1, <3>2
  <2> QED
    BY <1>1, <2>1, <2>2, AppendWrites
<1>8. CASE StartTools(x)
  BY <1>1, <1>8, <1>a DEF StartTools, WrittenBy
<1>9. ASSUME NEW i \in Uses, HandOver(x, i)  PROVE WrittenBy(x)'
  <2>1. /\ transcript'[x] = Append(transcript[x], ToolMessage(x, i)) /\ step'[x] = step[x] /\ pc'[x] = "returned"
        /\ i \in Indices(x)
    BY <1>1, <1>9, <1>a DEF HandOver, BasicType, InPhase
  <2> QED
    BY <1>1, <2>1, ToolMessageIs, OneWrites
<1>10. ASSUME NEW i \in Uses, Collect(x, i)  PROVE WrittenBy(x)'
  <2>1. /\ transcript'[x] = Append(transcript[x], ToolMessage(x, i)) /\ step'[x] = step[x]
        /\ pc'[x] \in {"acting", "step_completed"} /\ i \in Indices(x)
    BY <1>1, <1>10 DEF Collect, BasicType, InPhase
  <2> QED
    BY <1>1, <2>1, ToolMessageIs, OneWrites
<1>11. 1 \in Uses
  BY LoopAssumption DEF Uses
<1>12. ASSUME NEW e \in Execs, LoopStep(e)  PROVE WrittenBy(x)'
  <2>1. CASE x # e
    BY <1>1, <1>2, <1>11, <1>12, <2>1, OthersUnmoved
  <2>2. CASE x = e
    BY <1>3, <1>b, <1>4, <1>5, <1>6, <1>7, <1>8, <1>12, <2>2 DEF LoopStep
  <2> QED
    BY <2>1, <2>2
<1>13. ASSUME NEW e \in Execs, NEW i \in Uses, ToolStep(e, i) \/ Collect(e, i) \/ CollectTooLate(e, i)  PROVE WrittenBy(x)'
  <2>1. CASE x # e
    BY <1>1, <1>2, <1>13, <2>1, OthersUnmoved
  <2>2. CASE ToolReturns(e, i) \/ Remembered(e, i)
    BY <1>2, <2>2, UserUnmoved
  <2>3. CASE x = e /\ (HandOver(e, i) \/ Collect(e, i))
    BY <1>9, <1>10, <2>3
  <2>4. CASE x = e /\ CollectTooLate(e, i)
    BY <1>1, <1>a, <2>4 DEF CollectTooLate, WrittenBy
  <2> QED
    BY <1>13, <2>1, <2>2, <2>3, <2>4 DEF ToolStep
<1>14. CASE UNCHANGED vars \/ (\E e \in Execs : Cancel(e)) \/ UserStep
  BY <1>2, <1>14, UserUnmoved
<1> QED
  BY <1>12, <1>13, <1>14 DEF Next

-----------------------------------------------------------------------------
(* A handoff has been started and has no result yet.                       *)
HandingOff(e) == \E i \in Indices(e) :
  call[e][i].tool = "handoff" /\ call[e][i].phase \in {"asking", "remembering", "executing", "resolved"}

(* How much of the root's transcript is saved, by the place of its loop.   *)
Saved ==
  /\ pc[Root] = "idle" => RootMessages = <<UserMessage(Root)>>
  /\ pc[Root] \in {"starting", "model"} => transcript[Root] = RootMessages
  /\ pc[Root] = "tool_call" => transcript[Root] = RootMessages \o <<LatestMessage(Root)>>
  /\ pc[Root] \in {"acting", "step_completed"} => transcript[Root] = RootMessages \o StepMessages(Root)
  /\ HandingOff(Root) => transcript[Root] = RootMessages
  /\ pc[Root] # "idle" => \E q \in Seq(Message) : transcript[Root] = RootMessages \o q

(* What every execution saves it has written itself.                       *)
LEMMA OwnSaved ==
  ASSUME LoopInv, Written, NEW e \in Execs, NEW i \in Uses,
         LoopStep(e) \/ ToolStep(e, i) \/ Collect(e, i) \/ CollectTooLate(e, i)
  PROVE  \E u \in Seq(Message) : session' = session \o u /\ \A m \in ToSet(u) : m.by = e
<1>1. BasicType /\ PlaceOf(e) /\ transcript[e] \in Seq(Message) /\ session \in Seq(Message)
  BY DEF LoopInv, Places, BasicType
<1>2. CASE session' = session
  <2>1. << >> \in Seq(Message) /\ session \o << >> = session /\ ToSet(<< >>) = {}
    BY <1>1 DEF ToSet
  <2> QED
    BY <1>2, <2>1
<1>3. \A m \in ToSet(transcript[e]) : m.by = e
  BY DEF Written, WrittenBy, ToSet
<1>4. ASSUME pc[e] = "tool_call", session' = session \o <<LatestMessage(e)>>
      PROVE  \E u \in Seq(Message) : session' = session \o u /\ \A m \in ToSet(u) : m.by = e
  <2>1. Len(transcript[e]) \in DOMAIN transcript[e]
    BY <1>1, <1>4 DEF PlaceOf
  <2>2. LatestMessage(e).by = e
    BY <2>1 DEF LatestMessage, Written, WrittenBy
  <2>3. <<LatestMessage(e)>> \in Seq(Message) /\ ToSet(<<LatestMessage(e)>>) = {LatestMessage(e)}
    BY <1>4, LatestIs DEF ToSet
  <2> QED
    BY <1>4, <2>2, <2>3
<1>5. CASE RefuseUses(e) \/ StartTools(e)
  BY <1>4, <1>5 DEF RefuseUses, StartTools, Save
<1>6. CASE HandOver(e, i)
  <2>1. i \in Indices(e) /\ session' = session \o <<ToolMessage(e, i)>>
    BY <1>6 DEF HandOver, Save, InPhase
  <2>2. ToolMessage(e, i) \in Message /\ ToolMessage(e, i).by = e
    BY <1>1, <2>1, ToolMessageIs
  <2>3. <<ToolMessage(e, i)>> \in Seq(Message) /\ ToSet(<<ToolMessage(e, i)>>) = {ToolMessage(e, i)}
    BY <2>2 DEF ToSet
  <2> QED
    BY <2>1, <2>2, <2>3
<1>7. CASE CompleteStep(e)
  <2>1. session' = session \o StepMessages(e)
    BY <1>7 DEF CompleteStep, Save
  <2>2. PICK u : u = StepMessages(e) /\ u \in Seq(Message) /\ ToSet(u) \subseteq ToSet(transcript[e])
    <3>1. StepMessages(e) = Sub(transcript[e], Results(step[e]))
      BY <1>1, SubsAre
    <3> QED
      BY <1>1, <3>1, SubMore
  <2> QED
    BY <1>3, <2>1, <2>2
<1>8. CASE Begin(e) \/ ForbidDryRun(e) \/ HookThrows(e) \/ HooksDone(e) \/ ModelFails(e) \/ CheckpointFails(e) \/ Abandon(e)
  BY <1>2, <1>8 DEF Begin, ForbidDryRun, HookThrows, HooksDone, ModelFails, CheckpointFails, Abandon
<1>9. ASSUME NEW uses, NEW overLimit, Answer(e, uses, overLimit)  PROVE session' = session
  BY <1>9 DEF Answer
<1>10. CASE ToolReturns(e, i) \/ Remembered(e, i) \/ Collect(e, i) \/ CollectTooLate(e, i)
  BY <1>2, <1>10 DEF ToolReturns, Remembered, Collect, CollectTooLate
<1> QED
  BY <1>2, <1>5, <1>6, <1>7, <1>8, <1>9, <1>10 DEF LoopStep, ToolStep

(* What a checkpoint adds to the messages of the root.                     *)
LEMMA SavedMore ==
  ASSUME BasicType, BasicType', NEW u \in Seq(Message), session' = session \o u
  PROVE  /\ RootMessages \in Seq(Message) /\ RootMessages' \in Seq(Message)
         /\ (\A m \in ToSet(u) : m.by = Root) => RootMessages' = RootMessages \o u
         /\ (\A m \in ToSet(u) : m.by # Root) => RootMessages' = RootMessages
<1>1. session \in Seq(Message) /\ Root \in Execs
  BY DEF BasicType, Execs
<1>2. RootMessages = Sub(session, ByRoot)
  BY <1>1, SubsAre
<1>3. RootMessages' = Sub(session \o u, ByRoot)
  <2>1. PICK s : s = session' /\ s \in Seq(Message)
    BY DEF BasicType
  <2>2. ToSet(s) \subseteq Message
    BY <2>1 DEF ToSet
  <2>3. {m \in ToSet(s) : m.by = Root} = ToSet(s) \cap ByRoot
    BY <2>2 DEF ByRoot
  <2>4. RootMessages' = Kept(s, {m \in ToSet(s) : m.by = Root})
    BY <2>1 DEF RootMessages
  <2> QED
    BY <2>1, <2>3, <2>4 DEF Sub
<1>4. ToSet(u) \subseteq Message
  BY DEF ToSet
<1>5. (\A m \in ToSet(u) : m.by = Root) => ToSet(u) \subseteq ByRoot
  BY <1>4 DEF ByRoot
<1>6. (\A m \in ToSet(u) : m.by # Root) => ToSet(u) \cap ByRoot = {}
  BY DEF ByRoot
<1>7. session \o u \in Seq(Message)
  BY <1>1
<1>8. /\ Sub(session, ByRoot) \in Seq(Message)
      /\ ToSet(u) \subseteq ByRoot => Sub(session \o u, ByRoot) = Sub(session, ByRoot) \o u
      /\ ToSet(u) \cap ByRoot = {} => Sub(session \o u, ByRoot) = Sub(session, ByRoot)
  BY <1>1, SubMore
<1>9. Sub(session \o u, ByRoot) \in Seq(Message)
  BY <1>7, <1>1, SubMore
<1>10. (\A m \in ToSet(u) : m.by = Root) => RootMessages' = RootMessages \o u
  BY <1>2, <1>3, <1>5, <1>8
<1>11. (\A m \in ToSet(u) : m.by # Root) => RootMessages' = RootMessages
  BY <1>2, <1>3, <1>6, <1>8
<1> QED
  BY <1>2, <1>3, <1>8, <1>9, <1>10, <1>11

-----------------------------------------------------------------------------
(* A step of others, or one that ends the loop, leaves what is saved.      *)
LEMMA SavedUnmoved ==
  ASSUME Saved, transcript'[Root] = transcript[Root], RootMessages' = RootMessages,
         HandingOff(Root)' => HandingOff(Root),
         \/ pc'[Root] = pc[Root] /\ step'[Root] = step[Root]
         \/ pc'[Root] \in {"returned", "rejected"} /\ pc[Root] # "idle"
  PROVE  Saved'
<1>1. LatestMessage(Root)' = LatestMessage(Root)
  BY DEF LatestMessage
<1>2. CASE pc'[Root] = pc[Root] /\ step'[Root] = step[Root]
  <2>1. StepMessages(Root)' = StepMessages(Root)
    BY <1>2 DEF StepMessages
  <2> QED
    BY <1>1, <1>2, <2>1 DEF Saved
<1>3. CASE pc'[Root] \in {"returned", "rejected"} /\ pc[Root] # "idle"
  BY <1>3 DEF Saved
<1> QED
  BY <1>2, <1>3

(* Only the loop starts a handoff.                                         *)
LEMMA NoHandoff ==
  ASSUME LoopInv,
         \/ UNCHANGED vars
         \/ UserStep
         \/ \E e \in Execs : Cancel(e)
         \/ \E e \in Execs, i \in Uses : ToolReturns(e, i) \/ Remembered(e, i),
         HandingOff(Root)'
  PROVE  HandingOff(Root)
<1>1. BasicType /\ Root \in Execs
  BY DEF LoopInv, Execs
<1>2. CASE UNCHANGED vars
  BY <1>2 DEF vars, promptVars, HandingOff, Indices
<1>3. CASE UserStep \/ \E e \in Execs, i \in Uses : ToolReturns(e, i) \/ Remembered(e, i)
  <2>1. PICK e \in Execs : \E i \in Indices(e), c \in Call :
          /\ Replaced(e, i, c) /\ c.tool = call[e][i].tool
          /\ call[e][i].phase \in {"asking", "remembering", "executing"}
    BY <1>3, BackgroundIs
  <2>2. PICK i \in Indices(e), c \in Call :
          /\ Replaced(e, i, c) /\ c.tool = call[e][i].tool
          /\ call[e][i].phase \in {"asking", "remembering", "executing"}
    BY <2>1
  <2>3. /\ \A x \in Execs : DOMAIN call'[x] = DOMAIN call[x]
        /\ call'[e][i] = c
        /\ \A x \in Execs : \A j \in Indices(x) : <<x, j>> # <<e, i>> => call'[x][j] = call[x][j]
    BY <1>1, <2>2, OneCall DEF BasicType, CallType
  <2>4. DOMAIN call'[Root] = DOMAIN call[Root]
    BY <1>1, <2>3
  <2>5. PICK j \in Indices(Root) :
          call'[Root][j].tool = "handoff" /\ call'[Root][j].phase \in {"asking", "remembering", "executing", "resolved"}
    BY <2>4 DEF HandingOff, Indices
  <2>6. CASE Root = e /\ j = i
    BY <2>2, <2>3, <2>5, <2>6 DEF HandingOff
  <2>7. CASE <<Root, j>> # <<e, i>>
    <3>1. call'[Root][j] = call[Root][j]
      BY <1>1, <2>3, <2>7
    <3> QED
      BY <2>5, <3>1 DEF HandingOff
  <2> QED
    BY <2>6, <2>7
<1>4. ASSUME NEW e \in Execs, Cancel(e)  PROVE HandingOff(Root)
  <2>1. PICK E \in SUBSET Execs : Aborted(E)
    BY <1>4 DEF Cancel
  <2>2. /\ Indices(Root)' = Indices(Root)
        /\ \A i \in Indices(Root) :
             /\ call'[Root][i].tool = call[Root][i].tool
             /\ call'[Root][i].phase = IF Root \in E /\ call[Root][i].phase = "asking" THEN "resolved" ELSE call[Root][i].phase
    BY <1>1, <2>1, AbortedIs
  <2> QED
    BY <2>2 DEF HandingOff
<1> QED
  BY <1>2, <1>3, <1>4

(* The latest message of the root is saved before its tools start.         *)
LEMMA LatestSaved ==
  ASSUME LoopInv, LoopInv', Saved, Written, pc[Root] = "tool_call", session' = session \o <<LatestMessage(Root)>>
  PROVE  RootMessages' = transcript[Root] /\ RootMessages' \in Seq(Message)
<1>1. BasicType /\ BasicType' /\ PlaceOf(Root) /\ Root \in Execs
  BY DEF LoopInv, Places, Execs
<1>2. LatestMessage(Root) \in Message /\ <<LatestMessage(Root)>> \in Seq(Message)
  BY <1>1, LatestIs
<1>3. LatestMessage(Root).by = Root
  <2>1. transcript[Root] \in Seq(Message) /\ transcript[Root] # << >>
    BY <1>1 DEF BasicType, PlaceOf
  <2>2. Len(transcript[Root]) \in DOMAIN transcript[Root]
    BY <2>1
  <2> QED
    BY <1>1, <2>2 DEF LatestMessage, Written, WrittenBy
<1>4. \A m \in ToSet(<<LatestMessage(Root)>>) : m.by = Root
  BY <1>3 DEF ToSet
<1>5. RootMessages' = RootMessages \o <<LatestMessage(Root)>> /\ RootMessages' \in Seq(Message)
  BY <1>1, <1>2, <1>4, SavedMore
<1> QED
  BY <1>5 DEF Saved

(* What the loop of the root writes is saved in time.                      *)
LEMMA AnswerSaved ==
  ASSUME LoopInv, LoopInv', Saved, NEW uses \in Messages[Root], NEW overLimit, Answer(Root, uses, overLimit)
  PROVE  Saved'
<1>1. BasicType /\ BasicType' /\ PlaceOf(Root)' /\ pc[Root] = "model" /\ Root \in Execs
  BY DEF LoopInv, Places, Execs, Answer
<1>2. PICK m \in Message : m = AssistantMessage(Root, uses)
  BY <1>1, AssistantMessageIs
<1>3. PICK t \in Seq(Message) : t = transcript[Root] /\ t = RootMessages
  BY <1>1 DEF BasicType, Saved
<1>4. transcript'[Root] = t \o <<m>> /\ <<m>> \in Seq(Message)
  BY <1>1, <1>2, <1>3 DEF Answer, BasicType
<1>5. session' = session
  BY DEF Answer
<1>6. RootMessages' = t
  BY <1>3, <1>5 DEF RootMessages
<1>7. pc'[Root] \in {"returned", "tool_call"}
  BY <1>1 DEF Answer, Return, Goto, BasicType
<1>8. LatestMessage(Root)' = m
  <2>1. (t \o <<m>>)[Len(t \o <<m>>)] = m
    OBVIOUS
  <2> QED
    BY <1>4, <2>1 DEF LatestMessage
<1>9. ~HandingOff(Root)'
  <2>1. call'[Root] = call[Root] \/ \A i \in DOMAIN call'[Root] : call'[Root][i].phase = "issued"
    BY <1>1 DEF Answer, BasicType, NewCall
  <2>2. \A i \in Indices(Root) : call[Root][i].phase = "appended"
    BY <1>1 DEF LoopInv, Places, PlaceOf
  <2> QED
    BY <2>1, <2>2 DEF HandingOff, Indices
<1> QED
  BY <1>4, <1>6, <1>7, <1>8, <1>9 DEF Saved

(* The results of a step that has just begun are none.                     *)
LEMMA NoneYet ==
  ASSUME LoopInv, Written, pc[Root] = "tool_call"
  PROVE  Sub(transcript[Root], Results(step[Root])) = << >>
<1>1. transcript[Root] \in Seq(Message) /\ step[Root] \in Nat /\ Root \in Execs
  BY DEF LoopInv, BasicType, Execs
<1>2. \A m \in ToSet(transcript[Root]) : m.role = "tool" => m.step < step[Root]
  BY <1>1 DEF Written, WrittenBy, ToSet
<1>3. ToSet(transcript[Root]) \cap Results(step[Root]) = {}
  BY <1>1, <1>2 DEF Results
<1> QED
  BY <1>1, <1>3, SubMore

(* A mixed handoff is saved before its uses are refused.                   *)
LEMMA RefuseSaved ==
  ASSUME LoopInv, LoopInv', Saved, Written, RefuseUses(Root)
  PROVE  Saved'
<1>1. BasicType /\ BasicType' /\ pc[Root] = "tool_call" /\ Root \in Execs
      /\ pc'[Root] = "step_completed" /\ step'[Root] = step[Root]
  BY DEF LoopInv, Places, Execs, RefuseUses, BasicType, Goto
<1>2. PICK t \in Seq(Message) : t = transcript[Root] /\ RootMessages' = t
  BY <1>1, LatestSaved DEF RefuseUses, Save, BasicType
<1>3. PICK r \in Seq(Message) : transcript'[Root] = t \o r /\ \A m \in ToSet(r) : m.role = "tool" /\ m.step = step[Root]
  <2>1. CASE Terminal(Root)
    <3>1. << >> \in Seq(Message) /\ ToSet(<< >>) = {} /\ t \o << >> = t
      BY DEF ToSet
    <3>2. transcript'[Root] = t \o << >>
      BY <1>1, <1>2, <2>1, <3>1 DEF RefuseUses, BasicType
    <3> QED
      BY <3>1, <3>2
  <2>2. CASE ~Terminal(Root)
    <3> DEFINE r == [i \in Indices(Root) |-> ToolMessage(Root, i)]
    <3>1. call[Root] \in Seq(Call) /\ Indices(Root) = DOMAIN call[Root]
      BY <1>1 DEF BasicType, Indices
    <3>2. \A i \in DOMAIN call[Root] : /\ ToolMessage(Root, i) \in Message /\ ToolMessage(Root, i).role = "tool"
                                       /\ ToolMessage(Root, i).step = step[Root]
      BY <1>1, <3>1, ToolMessageIs
    <3>3. r \in Seq(Message) /\ DOMAIN r = DOMAIN call[Root]
      BY <3>1, <3>2, SameLength
    <3>4. \A m \in ToSet(r) : m.role = "tool" /\ m.step = step[Root]
      BY <3>1, <3>2 DEF ToSet
    <3>5. transcript'[Root] = t \o r
      BY <1>1, <1>2, <2>2 DEF RefuseUses, BasicType
    <3> HIDE DEF r
    <3> QED
      BY <3>3, <3>4, <3>5
  <2> QED
    BY <2>1, <2>2
<1>4. StepMessages(Root)' = r
  <2>1. ToSet(r) \subseteq Results(step[Root])
    <3>1. ToSet(r) \subseteq Message
      BY DEF ToSet
    <3> QED
      BY <1>3, <3>1 DEF Results
  <2>2. Sub(t, Results(step[Root])) = << >>
    BY <1>1, <1>2, NoneYet
  <2>3. Sub(t \o r, Results(step[Root])) = << >> \o r
    <3>1. Sub(t \o r, Results(step[Root])) = Sub(t, Results(step[Root])) \o r
      BY <2>1, SubJoin
    <3> QED
      BY <2>2, <3>1, Zenon
  <2>4. << >> \o r = r
    OBVIOUS
  <2>5. StepMessages(Root)' = Sub(transcript'[Root], Results(step'[Root]))
    <3>1. PICK u \in Seq(Message) : u = transcript'[Root]
      BY <1>1 DEF BasicType
    <3>2. ToSet(u) \subseteq Message
      BY DEF ToSet
    <3>3. {m \in ToSet(u) : m.role = "tool" /\ m.step = step'[Root]} = ToSet(u) \cap Results(step'[Root])
      BY <3>2 DEF Results
    <3> QED
      BY <3>1, <3>3 DEF StepMessages, Sub
  <2> QED
    BY <1>1, <1>3, <2>3, <2>4, <2>5
<1>5. ~HandingOff(Root)'
  <2>1. \A c \in Call : [c EXCEPT !.phase = "appended"].phase = "appended"
    BY DEF Call
  <2>2. call[Root] \in Seq(Call) /\ Indices(Root) = DOMAIN call[Root] /\ \A i \in Indices(Root) : call[Root][i] \in Call
    BY <1>1, CallsAre DEF Indices
  <2>3. call'[Root] = [i \in Indices(Root) |-> [call[Root][i] EXCEPT !.phase = "appended"]]
    BY <1>1 DEF RefuseUses, BasicType
  <2>4. \A i \in Indices(Root)' : call'[Root][i].phase = "appended"
    BY <2>1, <2>2, <2>3 DEF Indices
  <2> QED
    BY <2>4 DEF HandingOff
<1> QED
  BY <1>1, <1>2, <1>3, <1>4, <1>5 DEF Saved

(* The message of the model is saved before its uses start.                *)
LEMMA StartSaved ==
  ASSUME LoopInv, LoopInv', Saved, Written, StartTools(Root)
  PROVE  Saved'
<1>1. BasicType /\ BasicType' /\ pc[Root] = "tool_call" /\ Root \in Execs
      /\ pc'[Root] = "acting" /\ step'[Root] = step[Root] /\ transcript'[Root] = transcript[Root]
  BY DEF LoopInv, Places, Execs, StartTools, BasicType, Goto
<1>2. PICK t \in Seq(Message) : t = transcript[Root] /\ RootMessages' = t
  BY <1>1, LatestSaved DEF StartTools, Save, BasicType
<1>3. StepMessages(Root)' = << >>
  <2>1. StepMessages(Root)' = StepMessages(Root)
    BY <1>1 DEF StepMessages
  <2> QED
    BY <1>1, <2>1, NoneYet, SubsAre
<1>4. t \o << >> = t /\ << >> \in Seq(Message)
  OBVIOUS
<1> QED
  BY <1>1, <1>2, <1>3, <1>4 DEF Saved

(* A result that comes in is one more message of the step, not yet saved.  *)
LEMMA CollectSaved ==
  ASSUME LoopInv, LoopInv', Saved, NEW i \in Uses, Collect(Root, i)
  PROVE  Saved'
<1>1. BasicType /\ BasicType' /\ pc[Root] = "acting" /\ Root \in Execs /\ step'[Root] = step[Root] /\ session' = session
      /\ pc'[Root] \in {"acting", "step_completed"} /\ i \in Indices(Root) /\ call[Root][i].phase = "resolved"
      /\ SetPhase(Root, i, "appended")
  BY DEF LoopInv, Places, Execs, Collect, BasicType, InPhase
<1>2. PICK p \in Seq(Message) : p = RootMessages /\ p = RootMessages'
  <2>1. RootMessages' = RootMessages
    BY <1>1 DEF RootMessages
  <2>2. RootMessages \in Seq(Message)
    <3>1. session \in Seq(Message)
      BY <1>1 DEF BasicType
    <3> QED
      BY <1>1, <3>1, SubsAre, SubMore
  <2> QED
    BY <2>1, <2>2
<1>3. PICK t \in Seq(Message) : t = transcript[Root]
  BY <1>1 DEF BasicType
<1>4. PICK q \in Seq(Message) : q = StepMessages(Root) /\ q = Sub(t, Results(step[Root])) /\ t = p \o q
  BY <1>1, <1>2, <1>3, SubsAre, StepMessagesIs DEF Saved
<1>5. PICK m \in Message : m = ToolMessage(Root, i) /\ m.role = "tool" /\ m.step = step[Root]
  BY <1>1, ToolMessageIs
<1>6. PICK u \in Seq(Message) : u = transcript'[Root] /\ u = t \o <<m>>
  <2>1. Append(t, m) = t \o <<m>>
    OBVIOUS
  <2> QED
    BY <1>1, <1>3, <1>5, <2>1 DEF Collect, BasicType
<1>7. StepMessages(Root)' = q \o <<m>>
  <2>1. ToSet(<<m>>) = {m} /\ <<m>> \in Seq(Message)
    BY DEF ToSet
  <2>2. ToSet(<<m>>) \subseteq Results(step[Root])
    BY <1>5, <2>1 DEF Results
  <2>3. Sub(t \o <<m>>, Results(step[Root])) = q \o <<m>>
    <3>1. <<m>> \in Seq(Message)
      BY <2>1
    <3>2. Sub(t \o <<m>>, Results(step[Root])) = Sub(t, Results(step[Root])) \o <<m>>
      BY <2>2, <3>1, SubJoin
    <3> QED
      BY <1>4, <3>2, Zenon
  <2>4. StepMessages(Root)' = Sub(u, Results(step[Root]))
    <3>1. ToSet(u) \subseteq Message
      BY DEF ToSet
    <3>2. {n \in ToSet(u) : n.role = "tool" /\ n.step = step[Root]} = ToSet(u) \cap Results(step[Root])
      BY <3>1 DEF Results
    <3> QED
      BY <1>1, <1>6, <3>2 DEF StepMessages, Sub
  <2> QED
    BY <1>6, <2>3, <2>4
<1>8. u = p \o (q \o <<m>>) /\ q \o <<m>> \in Seq(Message)
  <2>1. (p \o q) \o <<m>> = p \o (q \o <<m>>) /\ q \o <<m>> \in Seq(Message)
    OBVIOUS
  <2> QED
    BY <1>4, <1>6, <2>1, Zenon
<1>9. ~HandingOff(Root)'
  <2>1. PICK c \in Call : Replaced(Root, i, c) /\ c.phase = "appended"
    BY <1>1, PhaseIs DEF Phase
  <2>2. /\ DOMAIN call'[Root] = DOMAIN call[Root]
        /\ call'[Root][i] = c
        /\ \A j \in Indices(Root) : j # i => call'[Root][j] = call[Root][j]
    BY <1>1, <2>1, OneCall DEF BasicType, CallType
  <2>3. ~Mixed(Root) /\ Indices(Root) = 1 .. Len(call[Root]) /\ Len(call[Root]) \in Nat
    BY <1>1, AskingActs, CallsAre
  <2> SUFFICES ASSUME NEW j \in Indices(Root), j # i, call[Root][j].tool = "handoff"  PROVE FALSE
    BY <2>1, <2>2 DEF HandingOff, Indices
  <2>4. Len(call[Root]) > 1
    BY <1>1, <2>3
  <2> QED
    BY <2>3, <2>4 DEF Mixed
<1> QED
  BY <1>1, <1>2, <1>6, <1>7, <1>8, <1>9 DEF Saved

(* A handoff is saved with its result.                                     *)
LEMMA HandOverSaved ==
  ASSUME LoopInv, LoopInv', Saved, NEW i \in Uses, HandOver(Root, i)
  PROVE  Saved'
<1>1. BasicType /\ BasicType' /\ Root \in Execs /\ i \in Indices(Root) /\ pc'[Root] = "returned"
      /\ call[Root][i].phase = "executing" /\ call[Root][i].tool = "handoff"
  BY DEF LoopInv, Execs, HandOver, InPhase, Return, Goto, BasicType
<1>2. PICK m \in Message : m = ToolMessage(Root, i) /\ m.by = Root
  BY <1>1, ToolMessageIs
<1>3. session' = session \o <<m>> /\ <<m>> \in Seq(Message) /\ ToSet(<<m>>) = {m}
  BY <1>2 DEF HandOver, Save, ToSet
<1>4. PICK t \in Seq(Message) : t = transcript[Root] /\ t = RootMessages
  BY <1>1 DEF Saved, HandingOff, BasicType
<1>5. RootMessages' = t \o <<m>>
  BY <1>1, <1>2, <1>3, <1>4, SavedMore
<1>6. transcript'[Root] = t \o <<m>>
  <2>1. Append(t, m) = t \o <<m>>
    OBVIOUS
  <2> QED
    BY <1>1, <1>2, <1>4, <2>1 DEF HandOver, BasicType
<1>7. PICK u \in Seq(Message) : u = t \o <<m>>
  <2>1. t \o <<m>> \in Seq(Message)
    OBVIOUS
  <2> QED
    BY <2>1, Zenon
<1>8. u \o << >> = u /\ << >> \in Seq(Message)
  OBVIOUS
<1> QED
  BY <1>1, <1>5, <1>6, <1>7, <1>8 DEF Saved

(* A step is saved with all its results before the next one begins.        *)
LEMMA NextStepSaved ==
  ASSUME LoopInv, LoopInv', Saved, Written, HooksDone(Root) \/ CompleteStep(Root)
  PROVE  Saved'
<1>1. BasicType /\ BasicType' /\ Root \in Execs /\ NextStep(Root) /\ transcript' = transcript
  BY DEF LoopInv, Execs, HooksDone, CompleteStep
<1>2. pc'[Root] \in {"returned", "model"}
  BY <1>1, NextStepIs
<1>3. PICK t \in Seq(Message) : t = transcript[Root] /\ t = transcript'[Root]
  BY <1>1 DEF BasicType
<1>4. RootMessages' = t
  <2>1. CASE HooksDone(Root)
    BY <1>3, <2>1 DEF HooksDone, Saved, RootMessages
  <2>2. CASE CompleteStep(Root)
    <3>1. PICK q \in Seq(Message) : q = StepMessages(Root) /\ ToSet(q) \subseteq ToSet(t)
      <4>1. StepMessages(Root) = Sub(t, Results(step[Root]))
        BY <1>1, <1>3, SubsAre
      <4> QED
        BY <4>1, SubMore
    <3>2. \A m \in ToSet(q) : m.by = Root
      <4>1. \A m \in ToSet(t) : m.by = Root
        BY <1>1, <1>3 DEF Written, WrittenBy, ToSet
      <4> QED
        BY <3>1, <4>1, Zenon
    <3>3. session' = session \o q
      BY <2>2, <3>1 DEF CompleteStep, Save
    <3>4. RootMessages' = RootMessages \o q
      BY <1>1, <3>2, <3>3, SavedMore
    <3> QED
      BY <1>3, <2>2, <3>1, <3>4 DEF CompleteStep, Saved
  <2> QED
    BY <2>1, <2>2
<1>5. t \o << >> = t /\ << >> \in Seq(Message)
  OBVIOUS
<1> QED
  BY <1>2, <1>3, <1>4, <1>5 DEF Saved

(* Nothing that happens leaves Saved.                                      *)
LEMMA SavedStep == LoopInv /\ LoopInv' /\ Written /\ Saved /\ [Next]_vars => Saved'
<1> SUFFICES ASSUME LoopInv, LoopInv', Written, Saved, [Next]_vars  PROVE Saved'
  OBVIOUS
<1>1. BasicType /\ BasicType' /\ Root \in Execs /\ Root # Child /\ PlaceOf(Root)
  BY LoopAssumption DEF LoopInv, Execs, Places
<1>2. CASE UNCHANGED vars \/ UserStep \/ (\E e \in Execs : Cancel(e))
             \/ \E e \in Execs, i \in Uses : ToolReturns(e, i) \/ Remembered(e, i)
  <2>1. Unmoved(Root) /\ (HandingOff(Root)' => HandingOff(Root))
    BY <1>1, <1>2, UserUnmoved, NoHandoff
  <2>2. session' = session
    BY <1>2, BackgroundIs DEF vars, Cancel
  <2>3. RootMessages' = RootMessages
    BY <2>2 DEF RootMessages
  <2> QED
    BY <2>1, <2>3, SavedUnmoved DEF Unmoved
<1>3. ASSUME NEW e \in Execs \ {Root}, NEW i \in Uses,
             LoopStep(e) \/ ToolStep(e, i) \/ Collect(e, i) \/ CollectTooLate(e, i)
      PROVE  Saved'
  <2>1. Unmoved(Root) /\ call'[Root] = call[Root]
    BY <1>1, <1>3, OthersUnmoved
  <2>2. PICK u \in Seq(Message) : session' = session \o u /\ \A m \in ToSet(u) : m.by = e
    BY <1>3, OwnSaved
  <2>3. RootMessages' = RootMessages
    BY <1>1, <2>2, SavedMore
  <2> QED
    BY <2>1, <2>3, SavedUnmoved DEF Unmoved, HandingOff, Indices
<1>4. CASE Begin(Root) \/ ForbidDryRun(Root)
  <2>1. /\ transcript'[Root] = <<UserMessage(Root)>> /\ session' = session /\ call' = call
        /\ pc[Root] = "idle" /\ pc'[Root] \in {"starting", "returned"}
    BY <1>1, <1>4 DEF Begin, ForbidDryRun, Goto, BasicType
  <2>2. RootMessages' = <<UserMessage(Root)>>
    BY <2>1 DEF RootMessages, Saved
  <2>3. <<UserMessage(Root)>> \in Seq(Message)
    BY <1>1, UserMessageIs
  <2>4. <<UserMessage(Root)>> = <<UserMessage(Root)>> \o << >> /\ << >> \in Seq(Message)
    BY <2>3
  <2>5. ~HandingOff(Root)'
    BY <1>1, <2>1 DEF PlaceOf, HandingOff, Indices
  <2> QED
    BY <2>1, <2>2, <2>4, <2>5 DEF Saved
<1>5. CASE HookThrows(Root) \/ ModelFails(Root) \/ CheckpointFails(Root) \/ Abandon(Root)
  <2>1. /\ transcript' = transcript /\ session' = session /\ call' = call
        /\ pc'[Root] \in {"returned", "rejected"} /\ pc[Root] # "idle"
    BY <1>1, <1>5 DEF HookThrows, ModelFails, CheckpointFails, Abandon, Return, Goto, BasicType
  <2>2. RootMessages' = RootMessages /\ (HandingOff(Root)' => HandingOff(Root))
    BY <2>1 DEF RootMessages, HandingOff, Indices
  <2> QED
    BY <2>1, <2>2, SavedUnmoved
<1>6. CASE LoopStep(Root)
  BY <1>4, <1>5, <1>6, NextStepSaved, AnswerSaved, RefuseSaved, StartSaved DEF LoopStep
<1>a. ASSUME NEW i \in Uses, CollectTooLate(Root, i)  PROVE Saved'
  <2>1. /\ UNCHANGED <<transcript, session, call, step>> /\ pc[Root] = "acting" /\ pc'[Root] = "step_completed"
    BY <1>1, <1>a DEF CollectTooLate, Goto, BasicType
  <2>2. RootMessages' = RootMessages /\ StepMessages(Root)' = StepMessages(Root) /\ (HandingOff(Root)' <=> HandingOff(Root))
    BY <2>1 DEF RootMessages, StepMessages, HandingOff, Indices
  <2> QED
    BY <2>1, <2>2 DEF Saved
<1>7. ASSUME NEW i \in Uses, ToolStep(Root, i) \/ Collect(Root, i) \/ CollectTooLate(Root, i)  PROVE Saved'
  BY <1>1, <1>2, <1>7, <1>a, HandOverSaved, CollectSaved DEF ToolStep
<1>8. 1 \in Uses
  BY LoopAssumption DEF Uses
<1> QED
  BY <1>2, <1>3, <1>6, <1>7, <1>8 DEF Next

(* What the checkpoints have saved of the root is a prefix of what its     *)
(* model has seen, and all of it whenever the model is asked again.        *)
THEOREM SessionFollowsRoot == Spec => []SessionTracksRoot
<1>1. Init => Written /\ Saved
  <2> SUFFICES ASSUME Init  PROVE Written /\ Saved
    OBVIOUS
  <2>1. /\ session = <<UserMessage(Root)>> /\ \A e \in Execs : pc[e] = "idle" /\ transcript[e] = << >> /\ call[e] = << >>
    BY DEF Init
  <2>2. Written
    BY <2>1 DEF Written, WrittenBy
  <2>3. BasicType /\ Root \in Execs /\ UserMessage(Root) \in Message /\ UserMessage(Root).by = Root
    BY LoopInvInit, UserMessageIs DEF LoopInv, Execs
  <2>4. RootMessages = <<UserMessage(Root)>>
    <3> DEFINE u == <<UserMessage(Root)>>
    <3>1. u \in Seq(Message) /\ << >> \in Seq(Message) /\ << >> \o u = u /\ ToSet(u) = {UserMessage(Root)} /\ ToSet(<< >>) = {}
      BY <2>3 DEF ToSet
    <3>2. ToSet(u) \subseteq ByRoot
      BY <2>3, <3>1 DEF ByRoot
    <3>3. RootMessages = Sub(u, ByRoot)
      BY <2>1, <2>3, SubsAre
    <3> HIDE DEF u
    <3>4. Sub(<< >> \o u, ByRoot) = Sub(<< >>, ByRoot) \o u
      BY <3>1, <3>2, SubJoin
    <3>5. Sub(<< >>, ByRoot) = << >>
      <4>1. ToSet(<< >>) \cap ByRoot = {}
        BY <3>1
      <4> QED
        BY <3>1, <4>1, SubMore, ZenonT(30)
    <3>6. RootMessages = u
      BY <3>1, <3>3, <3>4, <3>5, Zenon
    <3> QED
      BY <3>6 DEF u
  <2>5. Saved
    BY <2>1, <2>3, <2>4 DEF Saved, HandingOff, Indices
  <2> QED
    BY <2>2, <2>5
<1>2. LoopInv /\ Saved => SessionTracksRoot
  <2> SUFFICES ASSUME LoopInv, Saved, transcript[Root] # << >>
               PROVE  /\ IsPrefix(RootMessages, transcript[Root])
                      /\ pc[Root] = "model" => RootMessages = transcript[Root]
    BY DEF SessionTracksRoot
  <2>1. BasicType /\ Root \in Execs /\ pc[Root] # "idle"
    BY DEF LoopInv, Places, PlaceOf, Execs
  <2>2. PICK p \in Seq(Message) : p = RootMessages
    <3>1. session \in Seq(Message)
      BY <2>1 DEF BasicType
    <3> QED
      BY <2>1, <3>1, SubsAre, SubMore
  <2>3. PICK q \in Seq(Message) : transcript[Root] = p \o q
    BY <2>1, <2>2 DEF Saved
  <2>4. IsPrefix(p, p \o q)
    <3>1. Len(p) <= Len(p \o q) /\ SubSeq(p, 1, Len(p)) = p /\ SubSeq(p \o q, 1, Len(p)) = p
      OBVIOUS
    <3> QED
      BY <3>1 DEF IsPrefix
  <2> QED
    BY <2>2, <2>3, <2>4 DEF Saved
<1>3. LoopInv /\ LoopInv' /\ (Written /\ Saved) /\ [Next]_vars => (Written /\ Saved)'
  BY WrittenStep, SavedStep
<1> QED
  BY <1>1, <1>2, <1>3, LoopInvariant, PTL DEF Spec
===============================================================================
