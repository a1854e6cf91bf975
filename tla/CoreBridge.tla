----------------------------- MODULE CoreBridge -----------------------------
(***************************************************************************)
(* The extension's end of the pipe to the core                             *)
(* (packages/vscode/src/core-bridge.ts): one CoreBridge object spawns core *)
(* processes with start(), talks JSON-RPC with the one it spawned last and *)
(* ends it with stop().  start() is called by activate() and again by the  *)
(* panel whenever it needs data and isRunning() is false; stop() by        *)
(* deactivate() and by the ten second timer of every start().              *)
(*                                                                         *)
(* deactivate() neither awaits nor returns what stop() promises, so the    *)
(* extension host may end at any moment after it, with the stop() under    *)
(* way and every timer of the bridge.                                      *)
(*                                                                         *)
(* The n-th call of start() spawns process n.  Time is abstract: a timer   *)
(* may fire at any moment after it was armed, timers of the same duration  *)
(* in the order they were armed.  A process may exit before the bridge has *)
(* read its last lines, and its exit event comes when it comes.            *)
(***************************************************************************)
EXTENDS Integers, Sequences

CONSTANTS
  MaxStarts,   \* bound: calls of start() that spawn a process
  MaxCalls,    \* bound: requests sent, but for the one that stop() sends
  MaxFaults    \* bound: processes that fail

ASSUME BoundAssumption ==
  MaxStarts \in Nat /\ MaxCalls \in Nat /\ MaxFaults \in Nat

VARIABLES
  process,       \* this.process, 0 for null
  reader,        \* this.readline, 0 for null
  running,       \* this.running
  requestId,     \* this.requestId
  pending,       \* this.pendingRequests: which call waits under which id
  startTimers,   \* the ten second timers armed, oldest first
  promise,       \* what has become of each start()
  stopping,      \* the call a stop() is suspended on, 0 if none is
  core,          \* the spawned processes
  killed,        \* those that were sent SIGTERM
  exits,         \* those whose exit event is yet to come
  closed,        \* those whose readline the bridge has closed
  inbox,         \* requests on their way to each process
  output,        \* lines each process has written, oldest first
  deactivated,   \* has the extension been deactivated?
  hostEnded,     \* has the extension host ended?
  starts,        \* processes spawned so far
  calls,         \* requests sent so far
  fate,          \* what has become of each request
  faults,        \* processes that failed
  crowded,       \* history: the calls of start() that waited at the same time
  overlapped     \* history: was start() called with another core alive?

bridgeVars == <<process, reader, running, closed>>
callVars == <<requestId, pending, calls, fate>>
startVars == <<startTimers, promise, starts, crowded, overlapped>>
coreVars == <<core, killed, exits, inbox, output, faults>>
stopVars == <<stopping, deactivated, hostEnded>>
vars == <<bridgeVars, callVars, startVars, coreVars, stopVars>>

-----------------------------------------------------------------------------
Attempt == 1 .. MaxStarts
Call == 1 .. MaxCalls + 1
Message == [id : Call, call : Call]
Ready == [id |-> 0, call |-> 0]
Alive == {"booting", "serving", "stopped"}

(* pendingRequests.set(m.id, ...).                                         *)
Registered(m) == {p \in pending : p.id # m.id} \cup {m}

(* Broken: the ids start again when nothing waits.                         *)
NextIdRecycled == IF pending = {} THEN 1 ELSE requestId + 1

(* ++this.requestId: no id is used twice, by whichever process.            *)
NextId == requestId + 1

(* Broken: the process is left to end by itself.                           *)
SignalledNone == killed

(* The process.kill() of stop().                                           *)
Signalled == killed \cup ({process} \ {0})

(* The synchronous end of stop().                                          *)
TearDown ==
  /\ killed' = Signalled
  /\ process' = 0
  /\ closed' = closed \cup ({reader} \ {0})
  /\ reader' = 0
  /\ running' = FALSE
  /\ pending' = {}
  /\ fate' = [c \in Call |-> IF \E p \in pending : p.call = c
                               THEN "dropped" ELSE fate[c]]

-----------------------------------------------------------------------------
(* start(): isRunning() is false, so a process is spawned.                 *)
Start ==
  LET a == starts + 1
      waiting == {b \in Attempt : promise[b] = "pending"}
  IN /\ starts < MaxStarts
     /\ ~running /\ ~deactivated
     /\ starts' = a
     /\ process' = a
     /\ reader' = a
     /\ core' = [core EXCEPT ![a] = "booting"]
     /\ promise' = [promise EXCEPT ![a] = "pending"]
     /\ startTimers' = Append(startTimers, a)
     /\ crowded' = IF waiting = {} THEN crowded ELSE crowded \cup waiting \cup {a}
     /\ overlapped' = (overlapped \/ \E b \in Attempt \ killed : core[b] \in Alive)
     /\ UNCHANGED <<running, closed, callVars, killed, exits, inbox, output,
                    faults, stopVars>>

(* The start() of a resolves or rejects; once it has, that changes nothing. *)
Settle(a, outcome) ==
  promise' = [promise EXCEPT ![a] = IF @ = "pending" THEN outcome ELSE @]

(* spawn() failed: the error event.                                        *)
SpawnError(a) ==
  /\ ~hostEnded
  /\ faults < MaxFaults
  /\ faults' = faults + 1
  /\ core[a] = "booting"
  /\ core' = [core EXCEPT ![a] = "gone"]
  /\ running' = FALSE
  /\ Settle(a, "rejected")
  /\ UNCHANGED <<process, reader, closed, callVars, startTimers, starts,
                 crowded, overlapped, killed, exits, inbox, output, stopVars>>

(* The exit event, of whichever process.                                   *)
ExitEvent(a) ==
  /\ ~hostEnded
  /\ a \in exits
  /\ exits' = exits \ {a}
  /\ running' = FALSE
  /\ UNCHANGED <<process, reader, closed, callVars, startVars, core, killed,
                 inbox, output, faults, stopVars>>

(* Broken: a start that times out is cleaned up and forgotten.             *)
StartTimerSilent ==
  /\ ~hostEnded
  /\ startTimers # <<>>
  /\ startTimers' = Tail(startTimers)
  /\ IF running
       THEN UNCHANGED <<bridgeVars, pending, fate, killed, promise>>
       ELSE TearDown /\ UNCHANGED promise
  /\ UNCHANGED <<requestId, calls, starts, crowded, overlapped,
                 core, exits, inbox, output, faults, stopVars>>

(* The ten second timer: nothing runs, so stop() and reject.  Its request  *)
(* for a shutdown is refused, so that stop() ends without waiting.         *)
StartTimer ==
  /\ ~hostEnded
  /\ startTimers # <<>>
  /\ startTimers' = Tail(startTimers)
  /\ IF running
       THEN UNCHANGED <<bridgeVars, pending, fate, killed, promise>>
       ELSE TearDown /\ Settle(Head(startTimers), "rejected")
  /\ UNCHANGED <<requestId, calls, starts, crowded, overlapped,
                 core, exits, inbox, output, faults, stopVars>>

-----------------------------------------------------------------------------
(* sendRequest(): registered, written to stdin, timed.                     *)
Request ==
  LET m == [id |-> NextId, call |-> calls + 1]
  IN /\ running /\ process # 0
     /\ requestId' = m.id
     /\ calls' = m.call
     /\ pending' = Registered(m)
     /\ fate' = [fate EXCEPT ![m.call] = "waiting"]
     /\ inbox' = [inbox EXCEPT ![process] =
                    IF core[process] \in Alive THEN @ \cup {m} ELSE @]

Send ==
  /\ calls < MaxCalls
  /\ ~deactivated
  /\ Request
  /\ UNCHANGED <<bridgeVars, startVars, core, killed, exits, output, faults,
                 stopVars>>

(* Broken: the answer goes to whoever has waited longest.                  *)
PendingForOldest(line) ==
  {p \in pending : \A q \in pending : p.id <= q.id}

(* pendingRequests.get(response.id).                                       *)
PendingFor(line) == {p \in pending : p.id = line.id}

(* A line of a is read: the ready message, or a response, which settles    *)
(* the call registered under its id if there is one.                       *)
ReadLine(a) ==
  /\ ~hostEnded
  /\ a \notin closed
  /\ output[a] # <<>>
  /\ output' = [output EXCEPT ![a] = Tail(@)]
  /\ LET line == Head(output[a])
     IN IF line = Ready
          THEN /\ running' = TRUE
               /\ Settle(a, "resolved")
               /\ UNCHANGED <<pending, fate>>
          ELSE /\ pending' = pending \ PendingFor(line)
               /\ fate' = [c \in Call |->
                    IF \A p \in PendingFor(line) : p.call # c THEN fate[c]
                    ELSE IF c = line.call THEN "answered" ELSE "misanswered"]
               /\ UNCHANGED <<running, promise>>
  /\ UNCHANGED <<process, reader, closed, requestId, calls,
                 startTimers, starts, crowded, overlapped, core, killed, exits,
                 inbox, faults, stopVars>>

(* Broken: the entry goes, the caller is not told.                         *)
TimedOutSilently(m) == fate

(* The caller of m, still registered, is rejected.                         *)
TimedOut(m) == [fate EXCEPT ![m.call] = "timedOut"]

(* The thirty second timer of the oldest request registered.  (That of a   *)
(* request that is no longer registered does nothing.)                     *)
RequestTimer ==
  /\ ~hostEnded
  /\ \E m \in pending :
       /\ \A p \in pending : m.id <= p.id
       /\ pending' = pending \ {m}
       /\ fate' = TimedOut(m)
  /\ UNCHANGED <<bridgeVars, requestId, calls, startVars, coreVars, stopVars>>

-----------------------------------------------------------------------------
(* deactivate() calls stop(): it asks a running core to shut down first.   *)
Deactivate ==
  /\ ~deactivated
  /\ deactivated' = TRUE
  /\ IF running /\ process # 0
       THEN /\ stopping' = calls + 1
            /\ Request
            /\ UNCHANGED <<bridgeVars, killed>>
       ELSE /\ TearDown
            /\ UNCHANGED <<stopping, requestId, calls, inbox>>
  /\ UNCHANGED <<startVars, core, exits, output, faults, hostEnded>>

(* stop() goes on once its request has settled.  If the timer of a start   *)
(* has meanwhile stopped the bridge, this.process.kill() throws.           *)
StopResumes ==
  /\ ~hostEnded
  /\ stopping # 0
  /\ fate[stopping] \notin {"waiting", "dropped"}
  /\ stopping' = 0
  /\ IF process # 0
       THEN TearDown
       ELSE UNCHANGED <<bridgeVars, pending, fate, killed>>
  /\ UNCHANGED <<requestId, calls, startVars, core, exits,
                 inbox, output, faults, deactivated, hostEnded>>

(* The host did not wait for stop() and is gone: its timers, its listeners *)
(* and its ends of the pipes.  What it has written stays to be read; a     *)
(* core it has not signalled is none the wiser.                            *)
HostEnds ==
  /\ deactivated /\ ~hostEnded
  /\ hostEnded' = TRUE
  /\ process' = 0 /\ reader' = 0 /\ running' = FALSE
  /\ pending' = {} /\ startTimers' = <<>> /\ exits' = {}
  /\ output' = [a \in Attempt |-> <<>>]
  /\ UNCHANGED <<closed, requestId, calls, fate, promise, starts, crowded,
                 overlapped, core, killed, inbox, faults, stopping, deactivated>>

-----------------------------------------------------------------------------
(* A core process ends; its exit event is to come.                         *)
Ends(a) ==
  /\ core' = [core EXCEPT ![a] = "gone"]
  /\ exits' = exits \cup {a}
  /\ inbox' = [inbox EXCEPT ![a] = {}]

(* Core a writes a line to stdout, which is lost once nobody reads it.     *)
Written(a, line) ==
  IF a \in closed \/ hostEnded THEN output ELSE [output EXCEPT ![a] = Append(@, line)]

(* cli.ts main(): core.start() succeeded, the ready line is written.       *)
CoreReady(a) ==
  /\ core[a] = "booting"
  /\ core' = [core EXCEPT ![a] = "serving"]
  /\ output' = Written(a, Ready)
  /\ UNCHANGED <<bridgeVars, callVars, startVars, killed, exits, inbox, faults,
                 stopVars>>

(* core.start() failed, or an exception reached the top: exit(1).          *)
CoreFails(a) ==
  /\ faults < MaxFaults
  /\ faults' = faults + 1
  /\ core[a] \in Alive
  /\ Ends(a)
  /\ UNCHANGED <<bridgeVars, callVars, startVars, killed, output, stopVars>>

(* With the host gone a write to stdout fails, which nothing handles: the   *)
(* exception reaches the top.  What makes the core write comes when it     *)
(* comes: an answer, or a notification of a hook.                          *)
CoreUnheard(a) ==
  /\ hostEnded
  /\ core[a] \in Alive
  /\ Ends(a)
  /\ UNCHANGED <<bridgeVars, callVars, startVars, killed, output, faults,
                 stopVars>>

(* A handler of the IPC server is done and answers, handlers in any order. *)
(* That of core.shutdown has closed the server's input.                    *)
CoreAnswers(a) ==
  /\ core[a] \in {"serving", "stopped"}
  /\ \E m \in inbox[a] :
       /\ inbox' = [inbox EXCEPT ![a] = @ \ {m}]
       /\ output' = Written(a, m)
       /\ core' = [core EXCEPT ![a] = IF m.call = stopping THEN "stopped" ELSE @]
  /\ UNCHANGED <<bridgeVars, callVars, startVars, killed, exits, faults,
                 stopVars>>

(* SIGTERM: shutdown() and exit, or the default before main() handles it.  *)
(* A core stopped by core.shutdown has nothing left that keeps it alive.   *)
CoreExits(a) ==
  /\ core[a] = "stopped" \/ (core[a] \in Alive /\ a \in killed)
  /\ Ends(a)
  /\ UNCHANGED <<bridgeVars, callVars, startVars, killed, output, faults,
                 stopVars>>

-----------------------------------------------------------------------------
Init ==
  /\ process = 0 /\ reader = 0 /\ running = FALSE /\ closed = {}
  /\ requestId = 0 /\ pending = {} /\ calls = 0
  /\ fate = [c \in Call |-> "unsent"]
  /\ startTimers = <<>> /\ starts = 0
  /\ promise = [a \in Attempt |-> "idle"]
  /\ crowded = {} /\ overlapped = FALSE
  /\ core = [a \in Attempt |-> "none"]
  /\ killed = {} /\ exits = {} /\ faults = 0
  /\ inbox = [a \in Attempt |-> {}]
  /\ output = [a \in Attempt |-> <<>>]
  /\ stopping = 0 /\ deactivated = FALSE /\ hostEnded = FALSE

BridgeSteps(a) == ExitEvent(a) \/ ReadLine(a)
CoreSteps(a) == CoreReady(a) \/ CoreAnswers(a) \/ CoreExits(a)

Next ==
  \/ Start \/ Send \/ Deactivate
  \/ StartTimer \/ RequestTimer \/ StopResumes \/ HostEnds
  \/ \E a \in Attempt : \/ SpawnError(a) \/ CoreFails(a) \/ CoreUnheard(a)
                        \/ BridgeSteps(a) \/ CoreSteps(a)

(* While the host lives timers fire and what has been settled or written   *)
(* is delivered; a core that was signalled exits.  Nobody promises that a  *)
(* core comes up or answers, that the extension is deactivated, or that    *)
(* the host lives or ends after that.                                      *)
Fairness ==
  /\ WF_vars(StartTimer) /\ WF_vars(RequestTimer) /\ WF_vars(StopResumes)
  /\ \A a \in Attempt : WF_vars(BridgeSteps(a)) /\ WF_vars(CoreExits(a))

Spec == Init /\ [][Next]_vars
FairSpec == Spec /\ Fairness

-----------------------------------------------------------------------------
Fate == {"unsent", "waiting", "answered", "misanswered", "timedOut", "dropped"}

TypeOK ==
  /\ process \in Attempt \cup {0} /\ reader \in Attempt \cup {0}
  /\ running \in BOOLEAN /\ closed \subseteq Attempt
  /\ requestId \in Call \cup {0} /\ calls \in Call \cup {0}
  /\ pending \subseteq Message
  /\ fate \in [Call -> Fate]
  /\ startTimers \in Seq(Attempt) /\ starts \in Attempt \cup {0}
  /\ promise \in [Attempt -> {"idle", "pending", "resolved", "rejected"}]
  /\ crowded \subseteq Attempt /\ overlapped \in BOOLEAN
  /\ core \in [Attempt -> Alive \cup {"none", "gone"}]
  /\ killed \subseteq Attempt /\ exits \subseteq Attempt
  /\ faults \in 0 .. MaxFaults
  /\ inbox \in [Attempt -> SUBSET Message]
  /\ output \in [Attempt -> Seq(Message \cup {Ready})]
  /\ stopping \in Call \cup {0}
  /\ deactivated \in BOOLEAN /\ hostEnded \in BOOLEAN

(* A request is settled by the answer to it or not at all, however late    *)
(* the answers of earlier processes are read and whatever was sent since.  *)
AnswersMatch == \A c \in Call : fate[c] # "misanswered"

(* Every request comes to an end within its thirty seconds: it is answered *)
(* or rejected, unless a stop() has emptied the table, which leaves the    *)
(* caller without either, or the host with the caller in it has ended.     *)
CallsEnd ==
  \A c \in Call : fate[c] = "waiting" ~> (fate[c] # "waiting" \/ hostEnded)

(* The caller of start() hears of it, whatever becomes of the process,     *)
(* unless two of them wait at once: the timer of the one then finds the    *)
(* core of the other running and says nothing.  A host that has ended      *)
(* holds no caller.                                                        *)
StartSettles ==
  \A a \in Attempt :
    promise[a] = "pending" ~>
      (promise[a] # "pending" \/ a \in crowded \/ hostEnded)

(* The core is left behind: the host has ended before stop(), which nobody *)
(* awaits, came to the kill.                                               *)
LeftBehind(a) == hostEnded /\ a \notin killed

(* "Stop core process": once the extension is deactivated every core ends, *)
(* but for one that the end of the host has left unsignalled.  Not so if   *)
(* start() was called while another one was alive, which this.process then *)
(* no longer names.                                                        *)
DeactivationLeavesNoCore ==
  (deactivated /\ ~overlapped) ~>
    \A a \in Attempt : core[a] \notin Alive \/ LeftBehind(a)

-----------------------------------------------------------------------------
=============================================================================
