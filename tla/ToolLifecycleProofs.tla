------------------------ MODULE ToolLifecycleProofs ------------------------
(***************************************************************************)
(* Theorems about ToolLifecycle, for every set of calls, assignment of     *)
(* tools, number of transports and timeouts.                               *)
(***************************************************************************)
EXTENDS ToolLifecycle, TLAPS

(* Changing each element of a sequence gives a sequence of that length.    *)
LEMMA Rewritten ==
  ASSUME NEW S, NEW T, NEW s \in Seq(S), NEW f \in [DOMAIN s -> T]
  PROVE  f \in Seq(T) /\ DOMAIN f = DOMAIN s
  <1>1. DOMAIN s = 1 .. Len(s) /\ Len(s) \in Nat
    OBVIOUS
  <1>2. QED
    BY <1>1

(* Appending keeps what is there and adds one element at the end.          *)
LEMMA Appended ==
  ASSUME NEW S, NEW s \in Seq(S), NEW e \in S
  PROVE  /\ Append(s, e) \in Seq(S)
         /\ DOMAIN Append(s, e) = DOMAIN s \cup {Len(s) + 1}
         /\ Len(s) + 1 \notin DOMAIN s
         /\ \A i \in DOMAIN s : Append(s, e)[i] = s[i]
         /\ Append(s, e)[Len(s) + 1] = e
  <1>1. DOMAIN s = 1 .. Len(s) /\ Len(s) \in Nat
    OBVIOUS
  <1>2. QED
    BY <1>1

(* What trackActivity and the reaper make of an execution is one.          *)
LEMMA StartedFacts ==
  \A c \in Call, t \in 0 .. MaxTime :
    [id |-> c, startTime |-> t, status |-> "running", abandoned |-> FALSE,
     by |-> NoCall] \in Execution
  BY DEF Execution, ExecutionStatus

LEMMA ClosedFacts ==
  ASSUME verdict \in [Call -> Verdict], NEW x \in Execution, NEW c \in Call
  PROVE  /\ Closed(x, c) \in Execution
         /\ Closed(x, c).id = x.id
         /\ Closed(x, c).status = verdict[c]
         /\ Closed(x, c).by = c
         /\ ~Closed(x, c).abandoned
  BY DEF Execution, ExecutionStatus, Closed

LEMMA AbandonedFacts ==
  ASSUME NEW x \in Execution
  PROVE  /\ MarkAbandoned(x) \in Execution
         /\ MarkAbandoned(x).id = x.id /\ MarkAbandoned(x).by = x.by
         /\ MarkAbandoned(x).status = "unknown" /\ MarkAbandoned(x).abandoned
  BY DEF Execution, ExecutionStatus, MarkAbandoned

(* The three kinds of firing.                                              *)
LEMMA FiringFacts ==
  /\ \A c \in Call : <<"start", c>> \in Firing /\ <<"finish", c>> \in Firing
  /\ SessionEnd \in Firing
  /\ \A f \in Firing : \/ \E c \in Call : f = <<"start", c>>
                       \/ \E c \in Call : f = <<"finish", c>>
                       \/ f = SessionEnd
  BY DEF Firing, SessionEnd

-----------------------------------------------------------------------------
(* What the executions become in a step: appended to, or rewritten one by  *)
(* one, in both cases with typed elements.                                 *)
LEMMA ReapedTyped ==
  ASSUME TypeOK, NEW age
  PROVE  Reaped(age) \in Seq(Execution) /\ DOMAIN Reaped(age) = DOMAIN executions
  <1>1. executions \in Seq(Execution)
    BY DEF TypeOK
  <1>2. Reaped(age) \in [DOMAIN executions -> Execution]
    BY <1>1, AbandonedFacts DEF Reaped
  <1>3. QED
    BY <1>1, <1>2, Rewritten

LEMMA ClosingTyped ==
  ASSUME TypeOK, NEW c \in Call,
         NEW x, x = [i \in DOMAIN executions |->
                       IF i \in Match(c) THEN Closed(executions[i], c) ELSE executions[i]]
  PROVE  x \in Seq(Execution) /\ DOMAIN x = DOMAIN executions
  <1>1. executions \in Seq(Execution) /\ verdict \in [Call -> Verdict]
    BY DEF TypeOK
  <1>2. x \in [DOMAIN executions -> Execution]
    BY <1>1, ClosedFacts
  <1>3. QED
    BY <1>1, <1>2, Rewritten

LEMMA InitTypes == Init => TypeOK
  <1>1. SUFFICES ASSUME Init PROVE TypeOK
    OBVIOUS
  <1>2. (CHOOSE v \in Verdict : TRUE) \in Verdict
    BY VerdictAssumption
  <1>3. <<>> \in Seq(Execution)
    OBVIOUS
  <1>4. 0 \in 0 .. MaxTime /\ 1 \in 1 .. MaxTime /\ 0 \in 0 .. Transports
        /\ 0 \in 0 .. (MaxTime + CompletedTimeout)
    BY BoundAssumption, TimeAssumption
  <1>5. QED
    BY <1>1, <1>2, <1>3, <1>4 DEF Init, TypeOK, SessionStatus

LEMMA StepKeepsTypes == TypeOK /\ [Next]_vars => TypeOK'
  <1> SUFFICES ASSUME TypeOK, [Next]_vars PROVE TypeOK'
    OBVIOUS
  <1> USE BoundAssumption, TimeAssumption
  <1>1. ASSUME NEW c \in Call, CallStarts(c) PROVE TypeOK'
    <2>1. <<"start", c>> \in Firing
      BY FiringFacts
    <2>2. sentAt' \in [Firing -> 0 .. MaxTime] /\ wire' \in [Firing -> 0 .. Transports]
      BY <1>1, <2>1 DEF CallStarts, Fire, TypeOK
    <2>3. QED
      BY <1>1, <2>2 DEF CallStarts, TypeOK, sessionVars
  <1>2. ASSUME NEW c \in Call, NEW v \in Verdict, CallEnds(c, v) PROVE TypeOK'
    <2>1. <<"finish", c>> \in Firing
      BY FiringFacts
    <2>2. sentAt' \in [Firing -> 0 .. MaxTime] /\ wire' \in [Firing -> 0 .. Transports]
      BY <1>2, <2>1 DEF CallEnds, Fire, TypeOK
    <2>3. QED
      BY <1>2, <2>2 DEF CallEnds, TypeOK, sessionVars
  <1>3. ASSUME SessionEnds PROVE TypeOK'
    <2>1. sentAt' \in [Firing -> 0 .. MaxTime] /\ wire' \in [Firing -> 0 .. Transports]
      BY <1>3, FiringFacts DEF SessionEnds, Fire, TypeOK
    <2>2. QED
      BY <1>3, <2>1 DEF SessionEnds, TypeOK, sessionVars
  <1>4. ASSUME NEW f \in Firing, Track(f) PROVE TypeOK'
    <2>1. wire' \in [Firing -> 0 .. Transports]
      BY <1>4, SMTT(30) DEF Track, Deliver, TypeOK
    <2>2. sentAt[f] \in 0 .. MaxTime
      BY DEF TypeOK
    <2>3. lastActivity' \in 0 .. MaxTime
      BY <1>4, <2>2 DEF Track
    <2>4. status' \in SessionStatus
      BY <1>4 DEF Track, Reactivated, SessionStatus, TypeOK
    <2>5. endTime' \in 0 .. (MaxTime + CompletedTimeout)
      BY <1>4, <2>2 DEF Track, Reactivated, TypeOK
    <2>6. executions' \in Seq(Execution) /\ stray' \in SUBSET Call
      <3>1. ASSUME NEW c \in Call, f = <<"start", c>>
            PROVE  executions' \in Seq(Execution) /\ stray' \in SUBSET Call
        <4>1. executions' = Append(executions, [id |-> c, startTime |-> sentAt[f],
                               status |-> "running", abandoned |-> FALSE, by |-> NoCall])
          BY <1>4, <3>1 DEF Track
        <4>2. QED
          BY <4>1, <2>2, <1>4, <3>1, StartedFacts, Appended DEF TypeOK, Track
      <3>2. ASSUME NEW c \in Call, f = <<"finish", c>>
            PROVE  executions' \in Seq(Execution) /\ stray' \in SUBSET Call
        <4>1. executions' = [i \in DOMAIN executions |->
                 IF i \in Match(c) THEN Closed(executions[i], c) ELSE executions[i]]
          BY <1>4, <3>2 DEF Track
        <4>2. stray' = stray \/ stray' = stray \cup {c}
          BY <1>4, <3>2 DEF Track
        <4>3. QED
          BY <4>1, <4>2, ClosingTyped DEF TypeOK
      <3>3. CASE f = SessionEnd
        BY <1>4, <3>3 DEF Track, SessionEnd, TypeOK
      <3>4. QED
        BY <3>1, <3>2, <3>3, FiringFacts
    <2>7. QED
      BY <1>4, <2>1, <2>3, <2>4, <2>5, <2>6 DEF Track, TypeOK, claudeVars
  <1>5. CASE SweepBegins
    BY <1>5, ReapedTyped DEF SweepBegins, TypeOK, claudeVars, sessionVars
  <1>6. CASE SweepAges
    <2>1. status' \in SessionStatus /\ endTime' \in 0 .. (MaxTime + CompletedTimeout)
      BY <1>6 DEF SweepAges, TypeOK, SessionStatus
    <2>2. QED
      BY <1>6, <2>1 DEF SweepAges, TypeOK, claudeVars
  <1>7. CASE Terminate
    BY <1>7 DEF Terminate, TypeOK, claudeVars, SessionStatus
  <1>12. CASE LooksUp \/ Evicts
    BY <1>12 DEF LooksUp, Evicts, TypeOK, claudeVars, sessionVars
  <1>8. CASE Restart
    BY <1>8, ReapedTyped DEF Restart, TypeOK, claudeVars, sessionVars
  <1>9. CASE Tick
    BY <1>9 DEF Tick, TypeOK, claudeVars, sessionVars
  <1>10. CASE UNCHANGED vars
    BY <1>10 DEF vars, TypeOK, claudeVars, sessionVars
  <1>11. QED
    BY <1>1, <1>2, <1>3, <1>4, <1>5, <1>6, <1>7, <1>8, <1>9, <1>10, <1>12 DEF Next

(* Every variable of ToolLifecycle keeps its type.                         *)
THEOREM TypeCorrect == Spec => []TypeOK
  BY InitTypes, StepKeepsTypes, PTL DEF Spec


-----------------------------------------------------------------------------
(* The strengthening.  A delivery under way was sent; an execution is open *)
(* exactly while no event decided it; the event that decided one was       *)
(* tracked; a tracked start event left an execution with its id.           *)
SentBeforeWire == \A f \in Firing : wire[f] > 0 => sentAt[f] > 0

OpenIsUndecided ==
  \A i \in DOMAIN executions :
    executions[i].by = NoCall <=> executions[i].status \in {"running", "unknown"}

DecidedByTracked ==
  \A i \in DOMAIN executions :
    executions[i].by # NoCall => Tracked(<<"finish", executions[i].by>>)

StartLeavesExecution ==
  \A c \in Call :
    Tracked(<<"start", c>>) => \E i \in DOMAIN executions : executions[i].id = c

IInv ==
  /\ TypeOK
  /\ SentBeforeWire
  /\ OpenIsUndecided
  /\ DecidedByTracked
  /\ StartLeavesExecution
  /\ CrossPairsOnlyStray
  /\ NoteIsTrue
  /\ EndTimeFitsStatus

(* A step leaves the executions alone, starts one, closes some, or reaps.  *)
Starting(c) ==
  /\ Track(<<"start", c>>)
  /\ executions' = Append(executions, [id |-> c, startTime |-> sentAt[<<"start", c>>],
                        status |-> "running", abandoned |-> FALSE, by |-> NoCall])
  /\ stray' = stray

Closing(c) ==
  /\ Track(<<"finish", c>>)
  /\ executions' = [i \in DOMAIN executions |->
                      IF i \in Match(c) THEN Closed(executions[i], c) ELSE executions[i]]
  /\ stray' = IF Tracked(<<"finish", c>>) \/ ~Tracked(<<"start", c>>)
                THEN stray \cup {c} ELSE stray

LEMMA StepCases ==
  ASSUME [Next]_vars
  PROVE  \/ UNCHANGED <<executions, stray>>
         \/ \E c \in Call : Starting(c)
         \/ \E c \in Call : Closing(c)
         \/ stray' = stray /\ \E age \in {0, StuckTimeout} : executions' = Reaped(age)
  <1>1. ASSUME NEW f \in Firing, Track(f)
        PROVE  \/ UNCHANGED <<executions, stray>>
               \/ \E c \in Call : Starting(c)
               \/ \E c \in Call : Closing(c)
    <2>1. ASSUME NEW c \in Call, f = <<"start", c>> PROVE Starting(c)
      BY <1>1, <2>1 DEF Track, Starting
    <2>2. ASSUME NEW c \in Call, f = <<"finish", c>> PROVE Closing(c)
      BY <1>1, <2>2 DEF Track, Closing
    <2>3. CASE f = SessionEnd
      BY <1>1, <2>3 DEF Track, SessionEnd
    <2>4. QED
      BY <2>1, <2>2, <2>3, FiringFacts
  <1>2. CASE SweepBegins \/ Restart
    BY <1>2 DEF SweepBegins, Restart, vars
  <1>3. CASE \/ \E c \in Call : CallStarts(c) \/ \E v \in Verdict : CallEnds(c, v)
             \/ SessionEnds \/ SweepAges \/ Terminate \/ LooksUp \/ Evicts \/ Tick
             \/ UNCHANGED vars
    BY <1>3 DEF CallStarts, CallEnds, SessionEnds, SweepAges, Terminate, LooksUp,
       Evicts, Tick, vars
  <1>4. QED
    BY <1>1, <1>2, <1>3 DEF Next

(* What was tracked stays tracked.                                         *)
LEMMA TrackedStays ==
  ASSUME TypeOK, [Next]_vars, NEW f \in Firing, Tracked(f)
  PROVE  Tracked(f)'
  <1> USE FiringFacts, BoundAssumption DEF Tracked, TypeOK
  <1>1. ASSUME NEW g \in Firing, Fire(g) PROVE Tracked(f)'
    BY <1>1 DEF Fire
  <1>2. ASSUME NEW g \in Firing, Track(g) PROVE Tracked(f)'
    BY <1>2 DEF Track, Deliver, claudeVars
  <1>3. CASE \/ SweepBegins \/ SweepAges \/ Terminate \/ LooksUp \/ Evicts
             \/ Restart \/ Tick \/ UNCHANGED vars
    BY <1>3 DEF SweepBegins, SweepAges, Terminate, LooksUp, Evicts, Restart, Tick,
       vars, claudeVars
  <1>4. QED
    BY <1>1, <1>2, <1>3 DEF Next, CallStarts, CallEnds, SessionEnds

(* Only a firing whose delivery arrives becomes tracked.                   *)
LEMMA NewlyTracked ==
  ASSUME TypeOK, SentBeforeWire, [Next]_vars, NEW f \in Firing, Tracked(f)', ~Tracked(f)
  PROVE  Track(f)
  <1> USE FiringFacts, BoundAssumption DEF Tracked, TypeOK
  <1>1. ASSUME NEW g \in Firing, Fire(g) PROVE FALSE
    BY <1>1 DEF Fire
  <1>2. ASSUME NEW g \in Firing, Track(g) PROVE g = f
    BY <1>2 DEF Track, Deliver, claudeVars
  <1>3. CASE \/ SweepBegins \/ SweepAges \/ Terminate \/ LooksUp \/ Evicts
             \/ Restart \/ Tick \/ UNCHANGED vars
    BY <1>3 DEF SweepBegins, SweepAges, Terminate, LooksUp, Evicts, Restart, Tick,
       vars, claudeVars
  <1>4. QED
    BY <1>1, <1>2, <1>3 DEF Next, CallStarts, CallEnds, SessionEnds

(* An event matches open executions only, by its id or else by its tool.   *)
LEMMA MatchFacts ==
  ASSUME NEW c, NEW i \in Match(c)
  PROVE  /\ i \in DOMAIN executions
         /\ executions[i].status \in {"running", "unknown"}
         /\ \/ executions[i].id = c
            \/ /\ ToolOf[executions[i].id] = ToolOf[c]
               /\ \A j \in DOMAIN executions :
                    executions[j].id = c => executions[j].status \notin {"running", "unknown"}
  BY DEF Match, First, RunningSameTool


-----------------------------------------------------------------------------
LEMMA KeepsSentBeforeWire ==
  ASSUME TypeOK, SentBeforeWire, [Next]_vars PROVE SentBeforeWire'
  <1> USE DEF SentBeforeWire, TypeOK
  <1>1. ASSUME NEW g \in Firing, Fire(g) PROVE SentBeforeWire'
    BY <1>1 DEF Fire
  <1>2. ASSUME NEW g \in Firing, Track(g) PROVE SentBeforeWire'
    BY <1>2 DEF Track, Deliver, claudeVars
  <1>3. CASE \/ SweepBegins \/ SweepAges \/ Terminate \/ LooksUp \/ Evicts
             \/ Restart \/ Tick \/ UNCHANGED vars
    BY <1>3 DEF SweepBegins, SweepAges, Terminate, LooksUp, Evicts, Restart, Tick,
       vars, claudeVars
  <1>4. QED
    BY <1>1, <1>2, <1>3, FiringFacts DEF Next, CallStarts, CallEnds, SessionEnds

(* The four cases of a step, for a fact about each single execution.       *)
LEMMA StartingFacts ==
  ASSUME TypeOK, NEW c \in Call, Starting(c), NEW i \in DOMAIN executions'
  PROVE  \/ i \in DOMAIN executions /\ executions'[i] = executions[i]
         \/ /\ executions'[i].id = c /\ executions'[i].status = "running"
            /\ ~executions'[i].abandoned /\ executions'[i].by = NoCall
  <1>1. sentAt[<<"start", c>>] \in 0 .. MaxTime /\ executions \in Seq(Execution)
    BY FiringFacts DEF TypeOK
  <1>2. QED
    BY <1>1, StartedFacts, Appended DEF Starting

LEMMA ClosingFacts ==
  ASSUME TypeOK, NEW c \in Call, Closing(c), NEW i \in DOMAIN executions'
  PROVE  /\ i \in DOMAIN executions
         /\ executions'[i].id = executions[i].id
         /\ \/ i \notin Match(c) /\ executions'[i] = executions[i]
            \/ /\ i \in Match(c)
               /\ executions'[i].status \in Verdict /\ executions'[i].by = c
               /\ ~executions'[i].abandoned
  <1>1. /\ DOMAIN executions' = DOMAIN executions
        /\ executions'[i] = IF i \in Match(c) THEN Closed(executions[i], c)
                                             ELSE executions[i]
    BY DEF Closing
  <1>2. executions[i] \in Execution /\ verdict \in [Call -> Verdict]
    BY <1>1 DEF TypeOK
  <1>3. QED
    BY <1>1, <1>2, ClosedFacts

LEMMA ReapingFacts ==
  ASSUME TypeOK, NEW age, executions' = Reaped(age), NEW i \in DOMAIN executions'
  PROVE  /\ i \in DOMAIN executions
         /\ executions'[i].id = executions[i].id
         /\ executions'[i].by = executions[i].by
         /\ \/ executions'[i] = executions[i]
            \/ /\ executions[i].status = "running"
               /\ executions'[i].status = "unknown" /\ executions'[i].abandoned
  <1>1. DOMAIN executions' = DOMAIN executions
    BY DEF Reaped
  <1>2. executions[i] \in Execution
    BY <1>1 DEF TypeOK
  <1>3. QED
    BY <1>1, <1>2, AbandonedFacts DEF Reaped

(* No verdict is "running" or "unknown", and no call is NoCall.            *)
LEMMA VerdictFacts ==
  /\ \A v \in Verdict : v # "running" /\ v # "unknown"
  /\ \A c \in Call : c # NoCall
  BY VerdictAssumption, CallAssumption

LEMMA KeepsNotes ==
  ASSUME TypeOK, OpenIsUndecided, NoteIsTrue, [Next]_vars
  PROVE  OpenIsUndecided' /\ NoteIsTrue'
  <1> USE VerdictFacts DEF OpenIsUndecided, NoteIsTrue
  <1>1. CASE UNCHANGED <<executions, stray>>
    BY <1>1
  <1>2. ASSUME NEW c \in Call, Starting(c) PROVE OpenIsUndecided' /\ NoteIsTrue'
    BY <1>2, StartingFacts
  <1>3. ASSUME NEW c \in Call, Closing(c) PROVE OpenIsUndecided' /\ NoteIsTrue'
    BY <1>3, ClosingFacts
  <1>4. ASSUME NEW age, executions' = Reaped(age) PROVE OpenIsUndecided' /\ NoteIsTrue'
    BY <1>4, ReapingFacts
  <1>5. QED
    BY <1>1, <1>2, <1>3, <1>4, StepCases

LEMMA ExecutionTyped ==
  ASSUME TypeOK, NEW i \in DOMAIN executions
  PROVE  executions[i].id \in Call /\ executions[i].by \in Call \cup {NoCall}
  <1>1. executions[i] \in Execution
    BY DEF TypeOK
  <1>2. QED
    BY <1>1 DEF Execution

(* The firing whose delivery was just tracked is tracked.                  *)
LEMMA TrackTracks ==
  ASSUME TypeOK, SentBeforeWire, NEW f \in Firing, Track(f)
  PROVE  Tracked(f)'
  <1>1. wire[f] \in 0 .. Transports /\ wire[f] > 0 /\ sentAt[f] # 0
    BY BoundAssumption DEF Track, Deliver, SentBeforeWire, TypeOK
  <1>2. wire'[f] = wire[f] - 1 /\ sentAt'[f] = sentAt[f]
    BY DEF Track, Deliver, TypeOK, claudeVars
  <1>3. QED
    BY <1>1, <1>2, BoundAssumption DEF Tracked

LEMMA KeepsDecided ==
  ASSUME TypeOK, SentBeforeWire, OpenIsUndecided, DecidedByTracked, [Next]_vars
  PROVE  DecidedByTracked'
  <1>1. ASSUME NEW c \in Call, NEW i \in DOMAIN executions, executions[i].by = c
        PROVE  Tracked(<<"finish", c>>)'
    <2>1. Tracked(<<"finish", c>>)
      BY <1>1, FiringFacts, CallAssumption DEF DecidedByTracked
    <2>2. QED
      BY <2>1, TrackedStays, FiringFacts
  <1>0. \A i \in DOMAIN executions :
          executions[i].by = NoCall \/ executions[i].by \in Call
    BY ExecutionTyped
  <1>2. CASE UNCHANGED <<executions, stray>>
    BY <1>0, <1>1, <1>2 DEF DecidedByTracked
  <1>3. ASSUME NEW c \in Call, Starting(c) PROVE DecidedByTracked'
    BY <1>0, <1>1, <1>3, StartingFacts DEF DecidedByTracked
  <1>4. ASSUME NEW c \in Call, Closing(c) PROVE DecidedByTracked'
    <2>1. Tracked(<<"finish", c>>)'
      BY <1>4, TrackTracks, FiringFacts DEF Closing
    <2>2. QED
      BY <1>0, <1>1, <1>4, <2>1, ClosingFacts DEF DecidedByTracked
  <1>5. ASSUME NEW age, executions' = Reaped(age) PROVE DecidedByTracked'
    BY <1>0, <1>1, <1>5, ReapingFacts DEF DecidedByTracked
  <1>6. QED
    BY <1>2, <1>3, <1>4, <1>5, StepCases

(* A step keeps every execution in its place, with its id.                 *)
LEMMA ExecutionsStay ==
  ASSUME TypeOK, [Next]_vars, NEW i \in DOMAIN executions
  PROVE  i \in DOMAIN executions' /\ executions'[i].id = executions[i].id
  <1>1. CASE UNCHANGED <<executions, stray>>
    BY <1>1
  <1>2. ASSUME NEW c \in Call, Starting(c)
        PROVE  i \in DOMAIN executions' /\ executions'[i].id = executions[i].id
    <2>1. sentAt[<<"start", c>>] \in 0 .. MaxTime /\ executions \in Seq(Execution)
      BY FiringFacts DEF TypeOK
    <2>2. QED
      BY <1>2, <2>1, StartedFacts, Appended DEF Starting
  <1>3. ASSUME NEW c \in Call, Closing(c)
        PROVE  i \in DOMAIN executions' /\ executions'[i].id = executions[i].id
    <2>1. DOMAIN executions' = DOMAIN executions
      BY <1>3 DEF Closing
    <2>2. QED
      BY <1>3, <2>1, ClosingFacts
  <1>4. ASSUME NEW age, executions' = Reaped(age)
        PROVE  i \in DOMAIN executions' /\ executions'[i].id = executions[i].id
    <2>1. DOMAIN executions' = DOMAIN executions
      BY <1>4 DEF Reaped
    <2>2. QED
      BY <1>4, <2>1, ReapingFacts
  <1>5. QED
    BY <1>1, <1>2, <1>3, <1>4, StepCases

LEMMA KeepsStarts ==
  ASSUME TypeOK, SentBeforeWire, StartLeavesExecution, [Next]_vars
  PROVE  StartLeavesExecution'
  <1> SUFFICES ASSUME NEW c \in Call, Tracked(<<"start", c>>)'
               PROVE  \E i \in DOMAIN executions' : executions'[i].id = c
    BY DEF StartLeavesExecution
  <1>1. CASE Tracked(<<"start", c>>)
    BY <1>1, ExecutionsStay DEF StartLeavesExecution
  <1>2. CASE ~Tracked(<<"start", c>>)
    <2>1. Track(<<"start", c>>)
      BY <1>2, NewlyTracked, FiringFacts
    <2>2. executions' = Append(executions, [id |-> c, startTime |-> sentAt[<<"start", c>>],
                          status |-> "running", abandoned |-> FALSE, by |-> NoCall])
      BY <2>1 DEF Track
    <2>3. sentAt[<<"start", c>>] \in 0 .. MaxTime /\ executions \in Seq(Execution)
      BY FiringFacts DEF TypeOK
    <2>4. QED
      BY <2>2, <2>3, StartedFacts, Appended
  <1>3. QED
    BY <1>1, <1>2

(* The heart of the matter: a completion event that is not stray finds its *)
(* own execution, unless a stray one of its tool has taken that already.   *)
LEMMA KeepsPairs ==
  ASSUME TypeOK, OpenIsUndecided, DecidedByTracked, StartLeavesExecution,
         CrossPairsOnlyStray, [Next]_vars
  PROVE  CrossPairsOnlyStray'
  <1>1. CASE UNCHANGED <<executions, stray>>
    BY <1>1 DEF CrossPairsOnlyStray
  <1>2. ASSUME NEW c \in Call, Starting(c) PROVE CrossPairsOnlyStray'
    BY <1>2, StartingFacts DEF CrossPairsOnlyStray, Starting
  <1>3. ASSUME NEW c \in Call, Closing(c) PROVE CrossPairsOnlyStray'
    <2> SUFFICES ASSUME NEW i \in DOMAIN executions',
                        executions'[i].by \notin {NoCall, executions'[i].id}
                 PROVE  \E d \in stray' : ToolOf[d] = ToolOf[executions'[i].id]
      BY DEF CrossPairsOnlyStray
    <2>1. stray \subseteq stray'
      BY <1>3 DEF Closing
    <2>2. i \in DOMAIN executions /\ executions'[i].id = executions[i].id
      BY <1>3, ClosingFacts
    <2>3. CASE executions'[i] = executions[i]
      BY <2>1, <2>2, <2>3 DEF CrossPairsOnlyStray
    <2>4. CASE i \in Match(c) /\ executions'[i].by = c
      <3>1. /\ executions[i].id # c
            /\ ToolOf[executions[i].id] = ToolOf[c]
            /\ \A j \in DOMAIN executions :
                 executions[j].id = c => executions[j].status \notin {"running", "unknown"}
        BY <2>2, <2>4, MatchFacts
      <3>2. CASE Tracked(<<"finish", c>>) \/ ~Tracked(<<"start", c>>)
        <4>1. c \in stray'
          BY <1>3, <3>2 DEF Closing
        <4>2. QED
          BY <4>1, <3>1, <2>2
      <3>3. CASE ~Tracked(<<"finish", c>>) /\ Tracked(<<"start", c>>)
        <4>1. PICK j \in DOMAIN executions : executions[j].id = c
          BY <3>3 DEF StartLeavesExecution
        <4>2. executions[j].by # NoCall /\ executions[j].by # c
          BY <4>1, <3>1, <3>3 DEF OpenIsUndecided, DecidedByTracked
        <4>3. PICK d \in stray : ToolOf[d] = ToolOf[c]
          BY <4>1, <4>2 DEF CrossPairsOnlyStray
        <4>4. QED
          BY <4>3, <3>1, <2>1, <2>2
      <3>4. QED
        BY <3>2, <3>3
    <2>5. QED
      BY <2>3, <2>4, <1>3, ClosingFacts
  <1>4. ASSUME NEW age, executions' = Reaped(age), stray' = stray
        PROVE  CrossPairsOnlyStray'
    BY <1>4, ReapingFacts DEF CrossPairsOnlyStray
  <1>5. QED
    BY <1>1, <1>2, <1>3, <1>4, StepCases

LEMMA KeepsEndTime ==
  ASSUME TypeOK, SentBeforeWire, EndTimeFitsStatus, [Next]_vars
  PROVE  EndTimeFitsStatus'
  <1> USE DEF EndTimeFitsStatus
  <1>1. ASSUME NEW f \in Firing, Track(f) PROVE EndTimeFitsStatus'
    <2>1. sentAt[f] \in 0 .. MaxTime /\ sentAt[f] > 0
      BY <1>1 DEF Track, Deliver, SentBeforeWire, TypeOK
    <2>2. CASE f = SessionEnd
      BY <1>1, <2>1, <2>2, BoundAssumption DEF Track
    <2>3. CASE f # SessionEnd
      <3>1. /\ status' = Reactivated(status, endTime)[1]
            /\ endTime' = Reactivated(status, endTime)[2]
        BY <1>1, <2>3 DEF Track
      <3>2. status' \notin {"none", "idle", "completed"}
        BY <3>1 DEF Reactivated
      <3>3. QED
        BY <3>1, <3>2 DEF Reactivated
    <2>4. QED
      BY <2>2, <2>3
  <1>2. CASE SweepAges
    <2>1. lastActivity \in Nat /\ CompletedTimeout \in Nat /\ CompletedTimeout > 0
      BY BoundAssumption, TimeAssumption DEF TypeOK
    <2>2. QED
      BY <1>2, <2>1 DEF SweepAges
  <1>3. CASE Terminate
    BY <1>3, BoundAssumption DEF Terminate, TypeOK
  <1>4. CASE \/ \E c \in Call : CallStarts(c) \/ \E v \in Verdict : CallEnds(c, v)
             \/ SessionEnds \/ SweepBegins \/ LooksUp \/ Evicts \/ Restart \/ Tick
             \/ UNCHANGED vars
    BY <1>4 DEF CallStarts, CallEnds, SessionEnds, SweepBegins, LooksUp, Evicts,
       Restart, Tick, vars, sessionVars
  <1>5. QED
    BY <1>1, <1>2, <1>3, <1>4 DEF Next

-----------------------------------------------------------------------------
LEMMA InitInvariant == Init => IInv
  <1> SUFFICES ASSUME Init PROVE IInv
    OBVIOUS
  <1>1. DOMAIN executions = {}
    BY DEF Init
  <1>2. \A f \in Firing : ~Tracked(f) /\ wire[f] = 0
    BY DEF Init, Tracked
  <1>3. SentBeforeWire
    BY <1>2 DEF SentBeforeWire
  <1>4. EndTimeFitsStatus
    BY DEF Init, EndTimeFitsStatus
  <1>5. QED
    BY <1>1, <1>2, <1>3, <1>4, InitTypes, FiringFacts
    DEF IInv, OpenIsUndecided, DecidedByTracked, StartLeavesExecution,
        CrossPairsOnlyStray, NoteIsTrue

LEMMA InductiveInvariant == Spec => []IInv
  <1>1. IInv /\ [Next]_vars => IInv'
    BY StepKeepsTypes, KeepsSentBeforeWire, KeepsNotes, KeepsDecided, KeepsStarts,
       KeepsPairs, KeepsEndTime DEF IInv
  <1>2. QED
    BY InitInvariant, <1>1, PTL DEF Spec

(* Calls of one tool swap outcomes only after a completion event of that   *)
(* tool was tracked twice, or before its start event.                      *)
THEOREM CrossPairingIsStray == Spec => []CrossPairsOnlyStray
  <1>1. IInv => CrossPairsOnlyStray
    BY DEF IInv
  <1>2. QED
    BY <1>1, InductiveInvariant, PTL

(* The reaper's note is on exactly the executions with unknown outcome.    *)
THEOREM NotesAreTrue == Spec => []NoteIsTrue
  <1>1. IInv => NoteIsTrue
    BY DEF IInv
  <1>2. QED
    BY <1>1, InductiveInvariant, PTL

(* Status and end time of the session fit together.                        *)
THEOREM EndTimesFit == Spec => []EndTimeFitsStatus
  <1>1. IInv => EndTimeFitsStatus
    BY DEF IInv
  <1>2. QED
    BY <1>1, InductiveInvariant, PTL

(* No step changes an execution that is completed, failed or blocked.      *)
THEOREM OutcomesAreFinal == Spec => OutcomeIsFinal
  <1>1. ASSUME TypeOK, [Next]_vars, NEW i \in DOMAIN executions,
               executions[i].status \in Verdict
        PROVE  executions'[i] = executions[i]
    <2>1. i \in DOMAIN executions'
      BY <1>1, ExecutionsStay
    <2>2. ASSUME NEW c \in Call, Starting(c) PROVE executions'[i] = executions[i]
      <3>1. sentAt[<<"start", c>>] \in 0 .. MaxTime /\ executions \in Seq(Execution)
        BY <1>1, FiringFacts DEF TypeOK
      <3>2. QED
        BY <2>2, <3>1, <1>1, StartedFacts, Appended DEF Starting
    <2>3. ASSUME NEW c \in Call, Closing(c) PROVE executions'[i] = executions[i]
      BY <1>1, <2>1, <2>3, ClosingFacts, MatchFacts, VerdictFacts
    <2>4. ASSUME NEW age, executions' = Reaped(age) PROVE executions'[i] = executions[i]
      BY <1>1, <2>1, <2>4, ReapingFacts, VerdictFacts
    <2>5. QED
      BY <1>1, <2>2, <2>3, <2>4, StepCases
  <1>2. TypeOK /\ [Next]_vars =>
          [\A i \in DOMAIN executions :
             executions[i].status \in Verdict => executions'[i] = executions[i]]_vars
    BY <1>1
  <1>3. QED
    BY <1>2, TypeCorrect, PTL DEF Spec, OutcomeIsFinal

=============================================================================
