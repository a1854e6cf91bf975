-------------------------- MODULE CoreBridgeProofs --------------------------
(***************************************************************************)
(* Answers reach the call they answer, for any number of core processes,   *)
(* requests and failures.  The invariant behind it: the id of a request is *)
(* its number among all requests ever sent, wherever a copy of it is.      *)
(***************************************************************************)
EXTENDS CoreBridge, TLAPS

(* The id of the request is its number among all requests.                 *)
Genuine(m) == m.id = m.call

Copies ==
  /\ \A m \in pending : Genuine(m)
  /\ \A a \in Attempt : \A m \in inbox[a] : Genuine(m)
  /\ \A a \in Attempt : \A i \in 1 .. Len(output[a]) :
       output[a][i] = Ready \/ Genuine(output[a][i])

IInv ==
  /\ TypeOK
  /\ requestId = calls
  /\ ~deactivated => calls <= MaxCalls
  /\ Copies
  /\ AnswersMatch

-----------------------------------------------------------------------------
(* The sequences of the model: what taking from one end and adding at the  *)
(* other leaves.                                                           *)
LEMMA TailFacts ==
  ASSUME NEW S, NEW s \in Seq(S), s # <<>>
  PROVE  /\ Tail(s) \in Seq(S)
         /\ Head(s) \in S /\ Head(s) = s[1] /\ Len(s) \in Nat \ {0}
         /\ Len(Tail(s)) = Len(s) - 1
         /\ \A i \in 1 .. Len(Tail(s)) : Tail(s)[i] = s[i + 1]
OBVIOUS

LEMMA AppendFacts ==
  ASSUME NEW S, NEW s \in Seq(S), NEW x \in S
  PROVE  /\ Append(s, x) \in Seq(S)
         /\ Len(s) \in Nat
         /\ Len(Append(s, x)) = Len(s) + 1
         /\ \A i \in 1 .. Len(s) : Append(s, x)[i] = s[i]
         /\ Append(s, x)[Len(s) + 1] = x
OBVIOUS

-----------------------------------------------------------------------------
LEMMA InitHolds == Init => IInv
<1> SUFFICES ASSUME Init PROVE IInv
  OBVIOUS
<1>1. /\ inbox \in [Attempt -> SUBSET Message]
      /\ output \in [Attempt -> Seq(Message \cup {Ready})]
      /\ \A a \in Attempt : inbox[a] = {} /\ Len(output[a]) = 0
  BY DEF Init
<1>2. Copies
  BY <1>1 DEF Init, Copies
<1>3. startTimers \in Seq(Attempt) /\ pending \subseteq Message
  BY DEF Init
<1>4. /\ fate \in [Call -> Fate] /\ AnswersMatch
      /\ core \in [Attempt -> Alive \cup {"none", "gone"}]
      /\ promise \in [Attempt -> {"idle", "pending", "resolved", "rejected"}]
  BY DEF Init, Fate, AnswersMatch
<1>5. /\ process = 0 /\ reader = 0 /\ running = FALSE /\ closed = {}
      /\ requestId = 0 /\ calls = 0 /\ starts = 0 /\ faults = 0 /\ stopping = 0
      /\ crowded = {} /\ overlapped = FALSE /\ killed = {} /\ exits = {}
      /\ deactivated = FALSE /\ hostEnded = FALSE
  BY DEF Init
<1>6. 0 \in 0 .. MaxFaults /\ 0 <= MaxCalls
  BY BoundAssumption
<1> QED
  BY <1>1, <1>2, <1>3, <1>4, <1>5, <1>6 DEF IInv, TypeOK

(* What stop() does to the table and the fates.                            *)
LEMMA TearDownKeeps ==
  ASSUME TypeOK, Copies, AnswersMatch, TearDown
  PROVE  /\ process' \in Attempt \cup {0} /\ reader' \in Attempt \cup {0}
         /\ running' \in BOOLEAN /\ closed' \subseteq Attempt
         /\ pending' = {} /\ fate' \in [Call -> Fate]
         /\ killed' \subseteq Attempt
         /\ AnswersMatch'
BY DEF TypeOK, AnswersMatch, TearDown, Signalled, Fate

(* What a request does.                                                    *)
LEMMA RequestKeeps ==
  ASSUME IInv, Request, ~deactivated
  PROVE  /\ requestId' = calls' /\ calls' = calls + 1 /\ calls' \in Call
         /\ pending' \subseteq Message /\ fate' \in [Call -> Fate]
         /\ inbox' \in [Attempt -> SUBSET Message]
         /\ \A m \in pending' : m.id = m.call
         /\ \A a \in Attempt : \A m \in inbox'[a] : m.id = m.call
         /\ AnswersMatch'
<1> DEFINE m == [id |-> calls + 1, call |-> calls + 1]
<1>1. /\ requestId = calls /\ calls \in Nat /\ calls + 1 \in Call
      /\ calls' = calls + 1 /\ requestId' = calls + 1
  BY BoundAssumption DEF IInv, TypeOK, Call, Request, NextId
<1>2. /\ pending' = Registered(m)
      /\ fate' = [fate EXCEPT ![calls + 1] = "waiting"]
      /\ inbox' = [inbox EXCEPT ![process] =
                     IF core[process] \in Alive THEN @ \cup {m} ELSE @]
      /\ process \in Attempt
  BY <1>1 DEF Request, NextId, IInv, TypeOK
<1>3. m \in Message
  BY <1>1 DEF Message
<1>4. /\ pending' \subseteq Message
      /\ \A p \in pending' : p.id = p.call
  BY <1>1, <1>2, <1>3 DEF Registered, IInv, TypeOK, Copies, Genuine, Message, Call
<1>5. inbox' \in [Attempt -> SUBSET Message]
  BY <1>2, <1>3 DEF IInv, TypeOK
<1>6. \A a \in Attempt : \A p \in inbox'[a] : p.id = p.call
  <2> SUFFICES ASSUME NEW a \in Attempt, NEW p \in inbox'[a]
               PROVE  p.id = p.call
    OBVIOUS
  <2>1. p = m \/ p \in inbox[a]
    BY <1>2 DEF IInv, TypeOK
  <2>2. p \in Message
    BY <1>5
  <2> QED
    BY <1>1, <2>1, <2>2 DEF IInv, Copies, Genuine, Message, Call
<1>7. fate' \in [Call -> Fate] /\ AnswersMatch'
  BY <1>1, <1>2 DEF IInv, TypeOK, AnswersMatch, Fate
<1> QED
  BY <1>1, <1>4, <1>5, <1>6, <1>7

-----------------------------------------------------------------------------
(* A core's line goes to its output or nowhere.                            *)
LEMMA WrittenKeeps ==
  ASSUME IInv, NEW a \in Attempt, NEW line \in Message \cup {Ready},
         line = Ready \/ Genuine(line), output' = Written(a, line)
  PROVE  /\ output' \in [Attempt -> Seq(Message \cup {Ready})]
         /\ \A b \in Attempt : \A i \in 1 .. Len(output'[b]) :
              output'[b][i] = Ready \/ Genuine(output'[b][i])
<1>1. output \in [Attempt -> Seq(Message \cup {Ready})]
  BY DEF IInv, TypeOK
<1>2. CASE a \in closed \/ hostEnded
  BY <1>1, <1>2 DEF Written, IInv, Copies
<1>3. CASE ~(a \in closed \/ hostEnded)
  <2>1. output' = [output EXCEPT ![a] = Append(@, line)]
    BY <1>3 DEF Written
  <2>2. output[a] \in Seq(Message \cup {Ready})
    BY <1>1
  <2>3. /\ Append(output[a], line) \in Seq(Message \cup {Ready})
        /\ Len(output[a]) \in Nat
        /\ Len(Append(output[a], line)) = Len(output[a]) + 1
        /\ \A i \in 1 .. Len(output[a]) : Append(output[a], line)[i] = output[a][i]
        /\ Append(output[a], line)[Len(output[a]) + 1] = line
    BY <2>2, AppendFacts
  <2>4. output' \in [Attempt -> Seq(Message \cup {Ready})]
    BY <1>1, <2>1, <2>3
  <2>5. ASSUME NEW b \in Attempt, NEW i \in 1 .. Len(output'[b])
        PROVE  output'[b][i] = Ready \/ Genuine(output'[b][i])
    <3>1. CASE b # a
      BY <1>1, <2>1, <3>1 DEF IInv, Copies
    <3>2. CASE b = a
      <4>1. output'[b] = Append(output[a], line)
        BY <1>1, <2>1, <3>2
      <4>2. i \in 1 .. Len(output[a]) \/ i = Len(output[a]) + 1
        BY <4>1, <2>3
      <4> QED
        BY <4>1, <4>2, <2>3 DEF IInv, Copies
    <3> QED
      BY <3>1, <3>2
  <2> QED
    BY <2>4, <2>5
<1> QED
  BY <1>2, <1>3

(* A line is read: what remains of the output, and whom it settles.        *)
LEMMA ReadLineKeeps ==
  ASSUME IInv, NEW a \in Attempt, ReadLine(a)
  PROVE  /\ output' \in [Attempt -> Seq(Message \cup {Ready})]
         /\ \A b \in Attempt : \A i \in 1 .. Len(output'[b]) :
              output'[b][i] = Ready \/ Genuine(output'[b][i])
         /\ pending' \subseteq pending /\ running' \in BOOLEAN
         /\ promise' \in [Attempt -> {"idle", "pending", "resolved", "rejected"}]
         /\ fate' \in [Call -> Fate] /\ AnswersMatch'
<1> DEFINE line == Head(output[a])
<1>1. output \in [Attempt -> Seq(Message \cup {Ready})] /\ output[a] # <<>>
  BY DEF IInv, TypeOK, ReadLine
<1>2. output' = [output EXCEPT ![a] = Tail(@)]
  BY DEF ReadLine
<1>3. output[a] \in Seq(Message \cup {Ready})
  BY <1>1
<1>4. /\ Tail(output[a]) \in Seq(Message \cup {Ready})
      /\ line = output[a][1] /\ Len(output[a]) \in Nat \ {0}
      /\ line \in Message \cup {Ready}
      /\ Len(Tail(output[a])) = Len(output[a]) - 1
      /\ \A i \in 1 .. Len(Tail(output[a])) : Tail(output[a])[i] = output[a][i + 1]
  BY <1>1, <1>3, TailFacts
<1>5. output' \in [Attempt -> Seq(Message \cup {Ready})]
  BY <1>1, <1>2, <1>4
<1>6. ASSUME NEW b \in Attempt, NEW i \in 1 .. Len(output'[b])
      PROVE  output'[b][i] = Ready \/ Genuine(output'[b][i])
  <2>1. CASE b # a
    BY <1>1, <1>2, <2>1 DEF IInv, Copies
  <2>2. CASE b = a
    <3>1. output'[b] = Tail(output[a])
      BY <1>1, <1>2, <2>2
    <3>2. i + 1 \in 1 .. Len(output[a]) /\ output'[b][i] = output[a][i + 1]
      BY <1>4, <3>1
    <3> QED
      BY <3>2 DEF IInv, Copies
  <2> QED
    BY <2>1, <2>2
<1>7. line = Ready \/ Genuine(line)
  <2>1. 1 \in 1 .. Len(output[a])
    BY <1>4
  <2> QED
    BY <1>4, <2>1 DEF IInv, Copies
<1>8. CASE line = Ready
  BY <1>5, <1>6, <1>8 DEF ReadLine, Settle, IInv, TypeOK, AnswersMatch
<1>9. CASE line # Ready
  <2>1. /\ pending' = pending \ PendingFor(line)
        /\ fate' = [c \in Call |->
             IF \A p \in PendingFor(line) : p.call # c THEN fate[c]
             ELSE IF c = line.call THEN "answered" ELSE "misanswered"]
        /\ UNCHANGED <<running, promise>>
    BY <1>9 DEF ReadLine
  <2>2. \A p \in PendingFor(line) : p.call = line.call
    BY <1>7, <1>9 DEF PendingFor, Genuine, IInv, Copies
  <2>3. fate \in [Call -> Fate] /\ AnswersMatch
    BY DEF IInv, TypeOK
  <2>4. fate' \in [Call -> Fate]
    BY <2>1, <2>3 DEF Fate
  <2>5. AnswersMatch'
    <3> SUFFICES ASSUME NEW c \in Call PROVE fate'[c] # "misanswered"
      BY DEF AnswersMatch
    <3>1. CASE \A p \in PendingFor(line) : p.call # c
      BY <2>1, <2>3, <3>1 DEF AnswersMatch
    <3>2. CASE \E p \in PendingFor(line) : p.call = c
      <4>1. c = line.call
        BY <2>2, <3>2
      <4> QED
        BY <2>1, <3>2, <4>1
    <3> QED
      BY <3>1, <3>2
  <2> QED
    BY <1>5, <1>6, <2>1, <2>4, <2>5 DEF IInv, TypeOK
<1> QED
  BY <1>8, <1>9

-----------------------------------------------------------------------------
LEMMA NextKeeps == IInv /\ [Next]_vars => IInv'
<1> SUFFICES ASSUME IInv, [Next]_vars PROVE IInv'
  OBVIOUS
<1> USE DEF Genuine
<1>1. CASE Start
  <2>1. starts + 1 \in Attempt
    BY <1>1, BoundAssumption DEF Start, IInv, TypeOK, Attempt
  <2>2. startTimers' \in Seq(Attempt)
    BY <1>1, <2>1 DEF Start, IInv, TypeOK
  <2>3. core' \in [Attempt -> Alive \cup {"none", "gone"}]
    BY <1>1 DEF Start, IInv, TypeOK, Alive
  <2>4. promise' \in [Attempt -> {"idle", "pending", "resolved", "rejected"}]
    BY <1>1 DEF Start, IInv, TypeOK
  <2>5. crowded' \subseteq Attempt /\ overlapped' \in BOOLEAN
    BY <1>1, <2>1 DEF Start, IInv, TypeOK
  <2> QED
    BY <1>1, <2>1, <2>2, <2>3, <2>4, <2>5
    DEF Start, callVars, stopVars, IInv, TypeOK, Copies, AnswersMatch
<1>2. CASE Send
  <2>1. ~deactivated
    BY <1>2 DEF Send
  <2>2. calls + 1 <= MaxCalls
    BY <1>2, BoundAssumption DEF Send, IInv, TypeOK, Call
  <2> QED
    BY <1>2, <2>1, <2>2, RequestKeeps
    DEF Send, bridgeVars, startVars, stopVars, IInv, TypeOK, Copies
<1>3. CASE Deactivate
  <2>1. ~deactivated /\ deactivated' = TRUE
    BY <1>3 DEF Deactivate
  <2>2. CASE running /\ process # 0
    <3>1. Request /\ stopping' = calls + 1 /\ UNCHANGED <<bridgeVars, killed>>
      BY <1>3, <2>2 DEF Deactivate
    <3> QED
      BY <1>3, <2>1, <3>1, RequestKeeps
      DEF Deactivate, bridgeVars, startVars, IInv, TypeOK, Copies
  <2>3. CASE ~(running /\ process # 0)
    <3>1. TearDown /\ UNCHANGED <<stopping, requestId, calls, inbox>>
      BY <1>3, <2>3 DEF Deactivate
    <3> QED
      BY <1>3, <2>1, <3>1, TearDownKeeps
      DEF Deactivate, startVars, IInv, TypeOK, Copies
  <2> QED
    BY <2>2, <2>3
<1>4. CASE StartTimer
  <2>1. /\ startTimers' \in Seq(Attempt) /\ Head(startTimers) \in Attempt
    BY <1>4, TailFacts DEF StartTimer, IInv, TypeOK
  <2>2. promise' \in [Attempt -> {"idle", "pending", "resolved", "rejected"}]
    BY <1>4 DEF StartTimer, Settle, IInv, TypeOK
  <2>3. CASE running
    BY <1>4, <2>1, <2>2, <2>3
    DEF StartTimer, bridgeVars, stopVars, IInv, TypeOK, Copies, AnswersMatch
  <2>4. CASE ~running
    BY <1>4, <2>1, <2>2, <2>4, TearDownKeeps
    DEF StartTimer, stopVars, IInv, TypeOK, Copies
  <2> QED
    BY <2>3, <2>4
<1>5. CASE RequestTimer
  <2>1. PICK m \in pending : pending' = pending \ {m} /\ fate' = TimedOut(m)
    BY <1>5 DEF RequestTimer
  <2>2. fate' \in [Call -> Fate] /\ AnswersMatch'
    BY <2>1 DEF TimedOut, IInv, TypeOK, AnswersMatch, Fate
  <2> QED
    BY <1>5, <2>1, <2>2
    DEF RequestTimer, bridgeVars, startVars, coreVars, stopVars, IInv, TypeOK, Copies
<1>6. CASE StopResumes
  <2>1. CASE process # 0
    <3>1. TearDown
      BY <1>6, <2>1 DEF StopResumes
    <3> QED
      BY <1>6, <3>1, TearDownKeeps DEF StopResumes, startVars, IInv, TypeOK, Copies
  <2>2. CASE process = 0
    BY <1>6, <2>2
    DEF StopResumes, bridgeVars, startVars, IInv, TypeOK, Copies, AnswersMatch
  <2> QED
    BY <2>1, <2>2
<1>7. ASSUME NEW a \in Attempt, SpawnError(a) PROVE IInv'
  <2>1. faults' \in 0 .. MaxFaults
    BY <1>7, BoundAssumption DEF SpawnError, IInv, TypeOK
  <2> QED
    BY <1>7, <2>1
    DEF SpawnError, Settle, callVars, stopVars, IInv, TypeOK, Copies, AnswersMatch
<1>8. ASSUME NEW a \in Attempt, CoreFails(a) PROVE IInv'
  <2>1. faults' \in 0 .. MaxFaults
    BY <1>8, BoundAssumption DEF CoreFails, IInv, TypeOK
  <2> QED
    BY <1>8, <2>1
    DEF CoreFails, Ends, bridgeVars, callVars, startVars, stopVars, IInv, TypeOK,
        Copies, AnswersMatch
<1>9. ASSUME NEW a \in Attempt, ExitEvent(a) PROVE IInv'
  BY <1>9
  DEF ExitEvent, callVars, startVars, stopVars, IInv, TypeOK, Copies, AnswersMatch
<1>10. ASSUME NEW a \in Attempt, ReadLine(a) PROVE IInv'
  <2>1. Copies'
    BY <1>10, ReadLineKeeps DEF ReadLine, IInv, Copies
  <2> QED
    BY <1>10, <2>1, ReadLineKeeps DEF ReadLine, stopVars, IInv, TypeOK
<1>11. ASSUME NEW a \in Attempt, CoreReady(a) PROVE IInv'
  <2>1. output' = Written(a, Ready)
    BY <1>11 DEF CoreReady
  <2>2. core' \in [Attempt -> Alive \cup {"none", "gone"}]
    BY <1>11 DEF CoreReady, IInv, TypeOK, Alive
  <2> QED
    BY <1>11, <2>1, <2>2, WrittenKeeps
    DEF CoreReady, bridgeVars, callVars, startVars, stopVars, IInv, TypeOK, Copies,
        AnswersMatch
<1>12. ASSUME NEW a \in Attempt, CoreAnswers(a) PROVE IInv'
  <2>1. PICK m \in inbox[a] :
          /\ inbox' = [inbox EXCEPT ![a] = @ \ {m}]
          /\ output' = Written(a, m)
          /\ core' = [core EXCEPT ![a] = IF m.call = stopping THEN "stopped" ELSE @]
    BY <1>12 DEF CoreAnswers
  <2>2. m \in Message /\ Genuine(m)
    BY DEF IInv, TypeOK, Copies
  <2>3. core' \in [Attempt -> Alive \cup {"none", "gone"}]
    BY <2>1 DEF IInv, TypeOK, Alive
  <2>4. /\ inbox' \in [Attempt -> SUBSET Message]
        /\ \A b \in Attempt : \A p \in inbox'[b] : Genuine(p)
    BY <2>1 DEF IInv, TypeOK, Copies
  <2> QED
    BY <1>12, <2>1, <2>2, <2>3, <2>4, WrittenKeeps
    DEF CoreAnswers, bridgeVars, callVars, startVars, stopVars, IInv, TypeOK, Copies,
        AnswersMatch
<1>13. ASSUME NEW a \in Attempt, CoreExits(a) PROVE IInv'
  BY <1>13
  DEF CoreExits, Ends, bridgeVars, callVars, startVars, stopVars, IInv, TypeOK,
      Copies, AnswersMatch
<1>14. ASSUME NEW a \in Attempt, CoreUnheard(a) PROVE IInv'
  BY <1>14
  DEF CoreUnheard, Ends, bridgeVars, callVars, startVars, stopVars, IInv, TypeOK,
      Copies, AnswersMatch
<1>15. CASE HostEnds
  <2>1. /\ output' \in [Attempt -> Seq(Message \cup {Ready})]
        /\ \A a \in Attempt : Len(output'[a]) = 0
    BY <1>15 DEF HostEnds
  <2>2. Copies'
    BY <1>15, <2>1 DEF HostEnds, IInv, Copies
  <2>3. startTimers' \in Seq(Attempt) /\ exits' = {} /\ pending' = {}
    BY <1>15 DEF HostEnds
  <2> QED
    BY <1>15, <2>1, <2>2, <2>3 DEF HostEnds, IInv, TypeOK, AnswersMatch
<1>16. CASE UNCHANGED vars
  BY <1>16
  DEF vars, bridgeVars, callVars, startVars, coreVars, stopVars, IInv, TypeOK,
      Copies, AnswersMatch
<1> QED
  BY <1>1, <1>2, <1>3, <1>4, <1>5, <1>6, <1>7, <1>8, <1>9, <1>10, <1>11, <1>12,
     <1>13, <1>14, <1>15, <1>16 DEF Next, BridgeSteps, CoreSteps

(* The invariant holds of every behaviour.                                 *)
LEMMA Invariance == Spec => []IInv
BY InitHolds, NextKeeps, PTL DEF Spec

(* Every variable keeps its type.                                          *)
THEOREM TypeCorrect == Spec => []TypeOK
<1>1. IInv => TypeOK
  BY DEF IInv
<1> QED
  BY <1>1, Invariance, PTL

(* handleResponse() settles a call only with the answer to it, whatever    *)
(* core processes came and went between the request and the answer.        *)
THEOREM AnswersReachTheirCall == Spec => []AnswersMatch
<1>1. IInv => AnswersMatch
  BY DEF IInv
<1> QED
  BY <1>1, Invariance, PTL

=============================================================================
