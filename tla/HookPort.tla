------------------------------ MODULE HookPort ------------------------------
(***************************************************************************)
(* How hooks find a core: the ports that core processes listen on          *)
(* (HttpServer.start and tryReclaim in                                     *)
(* packages/core/src/server/http-server.ts) and the well-known file that   *)
(* names one of them (claimPortFile and releasePortFile in                 *)
(* packages/core/src/cli.ts).  An HTTP hook posts to the canonical port,   *)
(* the shell hook to the port in the file.  A core run with --mcp binds a  *)
(* port, answers probes and moves like any other, but has nothing to do    *)
(* with the file and handles no signal.                                    *)
(*                                                                         *)
(* Each core is one process that starts at most once.  listen() on an      *)
(* address literal completes within the turn of the event loop that called *)
(* it, so no other handler of the same process runs inside an attempt to   *)
(* bind, or between the bind of a reclaim and the close that follows it;   *)
(* other processes do.                                                     *)
(***************************************************************************)
EXTENDS Integers, FiniteSets

CONSTANTS
  Core,        \* core processes
  NoCore,      \* not a core
  Forcing,     \* those run with INSPECTOR_HOOK_CLAIM_PORT=1
  Mcp,         \* those run with --mcp
  LastPort,    \* ports 1 .. LastPort are scanned, 1 is the canonical one
  MaxStarts,   \* bound: processes started
  MaxCrashes,  \* bound: processes killed without a chance to clean up
  MaxSlow      \* bound: probes a live core does not answer in time

ASSUME CoreAssumption ==
  Forcing \subseteq Core /\ Mcp \subseteq Core /\ NoCore \notin Core
ASSUME PortAssumption == LastPort \in Nat \ {0}
ASSUME BoundAssumption ==
  MaxStarts \in Nat /\ MaxCrashes \in Nat /\ MaxSlow \in Nat

VARIABLES
  phase,       \* per core: where cli.ts main and shutdown have got to
  trying,      \* per core: the port start() tries next
  sockets,     \* per core: the ports it listens on
  server,      \* per core: actualPort while this.server is open, else 0
  reclaiming,  \* per core: is the reclaim interval armed?
  port,        \* per core: the port main captured after core.start(), 0 before
  claimed,     \* per core: claim.claimed of the startup claim
  probe,       \* per core: the health probe of a claim that is under way
  file,        \* the port file, 0 when it does not exist
  foreign,     \* does another program hold the canonical port?
  slow,        \* how often a live core did not answer in time
  writer,      \* history: the core that wrote the file last
  crashed,     \* history: cores killed without a chance to clean up
  moved,       \* history: cores that reclaimed the canonical port
  misled       \* history: cores whose probe was not answered in time, or about
               \* a file that has been written since

procVars == <<phase, trying, sockets, server, reclaiming, port, claimed, probe>>
fileVars == <<file, writer, misled>>
faultVars == <<foreign, slow, crashed>>
vars == <<procVars, fileVars, faultVars, moved>>

-----------------------------------------------------------------------------
Port == 1 .. LastPort
Canonical == 1
NoProbe == [port |-> 0, answer |-> "none"]
Probe == [port : Port \cup {0}, answer : {"none", "alive", "dead"}]
Phase == {"down", "scanning", "bound", "claiming", "running", "stopping",
          "draining", "drained", "gone"}

Listening(p) == \E c \in Core : p \in sockets[c]
Free(p) == ~Listening(p) /\ ~(p = Canonical /\ foreign)

(* Between the bind and the close of a reclaim nothing else of c runs.     *)
Migrating(c) == \E p, q \in sockets[c] : p # q

(* The port a claim under way would write.                                 *)
Target(c) == IF phase[c] = "claiming" THEN port[c] ELSE Canonical

(* Broken: the file is claimed unconditionally.                            *)
ProbesNever(c, target) == FALSE

(* Must claimPortFile(target) probe the port in the file first?            *)
Probes(c, target) == c \notin Forcing /\ file \notin {0, target}

-----------------------------------------------------------------------------
Spawn(c) ==
  /\ Cardinality({d \in Core : phase[d] # "down"}) < MaxStarts
  /\ phase[c] = "down"
  /\ phase' = [phase EXCEPT ![c] = "scanning"]
  /\ trying' = [trying EXCEPT ![c] = Canonical]
  /\ UNCHANGED <<sockets, server, reclaiming, port, claimed, probe, fileVars,
                 faultVars, moved>>

(* Broken: settling for a higher port is final.                            *)
ScanBindsForGood(c) ==
  /\ phase[c] = "scanning"
  /\ Free(trying[c])
  /\ phase' = [phase EXCEPT ![c] = "bound"]
  /\ sockets' = [sockets EXCEPT ![c] = {trying[c]}]
  /\ server' = [server EXCEPT ![c] = trying[c]]
  /\ port' = [port EXCEPT ![c] = trying[c]]
  /\ UNCHANGED <<trying, reclaiming, claimed, probe, fileVars, faultVars,
                 moved>>

(* start() binds a free port; off the canonical one it arms the reclaim.   *)
ScanBinds(c) ==
  /\ phase[c] = "scanning"
  /\ Free(trying[c])
  /\ phase' = [phase EXCEPT ![c] = "bound"]
  /\ sockets' = [sockets EXCEPT ![c] = {trying[c]}]
  /\ server' = [server EXCEPT ![c] = trying[c]]
  /\ reclaiming' = [reclaiming EXCEPT ![c] = trying[c] # Canonical]
  /\ port' = [port EXCEPT ![c] = trying[c]]
  /\ UNCHANGED <<trying, claimed, probe, fileVars, faultVars, moved>>

(* EADDRINUSE: the next port, or exit(1) after the last.                   *)
ScanNext(c) ==
  /\ phase[c] = "scanning"
  /\ ~Free(trying[c])
  /\ IF trying[c] = LastPort
       THEN phase' = [phase EXCEPT ![c] = "gone"] /\ trying' = trying
       ELSE trying' = [trying EXCEPT ![c] = @ + 1] /\ phase' = phase
  /\ UNCHANGED <<sockets, server, reclaiming, port, claimed, probe, fileVars,
                 faultVars, moved>>

(* The file is written: a claim still under way now rests on an older one. *)
Writes(c, target) ==
  /\ file' = target
  /\ writer' = c
  /\ misled' = (misled \cup {d \in Core : probe[d].port # 0}) \ {c}

(* claimPortFile up to its await: it writes the file at once, or asks the  *)
(* port in the file first.                                                 *)
ReadsFile(c, target) ==
  /\ probe' = [probe EXCEPT ![c] = IF Probes(c, target)
                                     THEN [port |-> file, answer |-> "none"]
                                     ELSE NoProbe]
  /\ IF Probes(c, target) THEN UNCHANGED fileVars ELSE Writes(c, target)

(* main claims the file for the port the core settled on.                  *)
StartupClaim(c) ==
  LET asks == Probes(c, port[c])
  IN /\ phase[c] = "bound"
     /\ c \notin Mcp
     /\ ReadsFile(c, port[c])
     /\ phase' = [phase EXCEPT ![c] = IF asks THEN "claiming" ELSE "running"]
     /\ claimed' = [claimed EXCEPT ![c] = ~asks]
     /\ UNCHANGED <<trying, sockets, server, reclaiming, port, faultVars,
                    moved>>

(* With --mcp, main speaks MCP on stdio and returns, before the claim, the *)
(* callback for a move and the signal handlers.                            *)
ServesMcp(c) ==
  /\ phase[c] = "bound"
  /\ c \in Mcp
  /\ phase' = [phase EXCEPT ![c] = "running"]
  /\ UNCHANGED <<trying, sockets, server, reclaiming, port, claimed, probe,
                 fileVars, faultVars, moved>>

(* isCoreAlive: a listening core answers, unless it takes longer than the  *)
(* probe waits.                                                            *)
ProbeAnswers(c) ==
  /\ probe[c].port # 0
  /\ probe[c].answer = "none"
  /\ probe' = [probe EXCEPT ![c].answer =
                 IF Listening(probe[c].port) THEN "alive" ELSE "dead"]
  /\ UNCHANGED <<phase, trying, sockets, server, reclaiming, port, claimed,
                 fileVars, faultVars, moved>>

ProbeTimesOut(c) ==
  /\ slow < MaxSlow
  /\ slow' = slow + 1
  /\ probe[c].port # 0
  /\ probe[c].answer = "none"
  /\ Listening(probe[c].port)
  /\ probe' = [probe EXCEPT ![c].answer = "dead"]
  /\ misled' = misled \cup {c}
  /\ UNCHANGED <<phase, trying, sockets, server, reclaiming, port, claimed,
                 file, writer, foreign, crashed, moved>>

(* claimPortFile after its await.  Only the startup claim is remembered.   *)
ClaimDecides(c) ==
  LET wins == probe[c].answer = "dead"
      starts == phase[c] = "claiming"
  IN /\ probe[c].answer # "none"
     /\ ~Migrating(c)
     /\ IF wins
          THEN Writes(c, Target(c))
          ELSE misled' = misled \ {c} /\ UNCHANGED <<file, writer>>
     /\ probe' = [probe EXCEPT ![c] = NoProbe]
     /\ phase' = [phase EXCEPT ![c] = IF starts THEN "running" ELSE @]
     /\ claimed' = [claimed EXCEPT ![c] = IF starts THEN wins ELSE @]
     /\ UNCHANGED <<trying, sockets, server, reclaiming, port, faultVars,
                    moved>>

-----------------------------------------------------------------------------
(* Broken: the old socket is closed before the canonical port is tried.    *)
ReclaimClosesFirst(c) ==
  /\ reclaiming[c]
  /\ phase[c] \notin {"bound", "claiming"}
  /\ ~Migrating(c)
  /\ Free(Canonical)
  /\ sockets' = [sockets EXCEPT ![c] = {}]
  /\ server' = [server EXCEPT ![c] = Canonical]
  /\ UNCHANGED <<phase, trying, reclaiming, port, claimed, probe, fileVars,
                 faultVars, moved>>

(* tryReclaim finds the canonical port free and binds it.  The interval    *)
(* first fires five seconds after the start, when the startup claim, which *)
(* waits at most 300 ms, is over.                                          *)
ReclaimBinds(c) ==
  /\ reclaiming[c]
  /\ phase[c] \notin {"bound", "claiming"}
  /\ ~Migrating(c)
  /\ Free(Canonical)
  /\ sockets' = [sockets EXCEPT ![c] = @ \cup {Canonical}]
  /\ server' = [server EXCEPT ![c] = Canonical]
  /\ UNCHANGED <<phase, trying, reclaiming, port, claimed, probe, fileVars,
                 faultVars, moved>>

(* Broken: the file is not told of the move.                               *)
ReclaimClosesSilently(c) ==
  /\ Migrating(c)
  /\ sockets' = [sockets EXCEPT ![c] = {Canonical}]
  /\ reclaiming' = [reclaiming EXCEPT ![c] = FALSE]
  /\ moved' = moved \cup {c}
  /\ UNCHANGED <<phase, trying, server, port, claimed, probe, fileVars,
                 faultVars>>

(* It closes the old socket, stops polling and claims the file anew; an    *)
(* MCP core has nobody to tell of its move.                                *)
ReclaimCloses(c) ==
  /\ Migrating(c)
  /\ sockets' = [sockets EXCEPT ![c] = {Canonical}]
  /\ reclaiming' = [reclaiming EXCEPT ![c] = FALSE]
  /\ moved' = moved \cup {c}
  /\ IF c \in Mcp THEN UNCHANGED <<probe, fileVars>> ELSE ReadsFile(c, Canonical)
  /\ UNCHANGED <<phase, trying, server, port, claimed, faultVars>>

-----------------------------------------------------------------------------
(* A signal, or core.shutdown from the extension: stop() disarms the       *)
(* reclaim and closes the server.                                          *)
StopBegins(c) ==
  /\ phase[c] = "running"
  /\ c \notin Mcp
  /\ ~Migrating(c)
  /\ \E how \in {"stopping", "draining"} : phase' = [phase EXCEPT ![c] = how]
  /\ sockets' = [sockets EXCEPT ![c] = {}]
  /\ server' = [server EXCEPT ![c] = 0]
  /\ reclaiming' = [reclaiming EXCEPT ![c] = FALSE]
  /\ UNCHANGED <<trying, port, claimed, probe, fileVars, faultVars,
                 moved>>

(* Broken: the file is left behind.                                        *)
ReleasedNever(c) == file

(* releasePortFile, for a core whose startup claim was granted.            *)
Released(c) == IF claimed[c] /\ file = port[c] THEN 0 ELSE file

(* What a process knew ends with it.                                       *)
Forgets(c) ==
  /\ trying' = [trying EXCEPT ![c] = Canonical]
  /\ port' = [port EXCEPT ![c] = 0]
  /\ claimed' = [claimed EXCEPT ![c] = FALSE]

(* The last steps of the signal handler: release, then exit(0).  A core    *)
(* that was shut down by request gets the signal of the bridge after that. *)
StopReleases(c) ==
  /\ phase[c] \in {"stopping", "draining"}
  /\ file' = Released(c)
  /\ writer' = IF Released(c) = file THEN writer ELSE NoCore
  /\ misled' = misled \ {c}
  /\ phase' = [phase EXCEPT ![c] = "gone"]
  /\ probe' = [probe EXCEPT ![c] = NoProbe]
  /\ Forgets(c)
  /\ UNCHANGED <<sockets, server, reclaiming, faultVars, moved>>

(* Or it ends before the signal reaches it: the server is closed, stdin is *)
(* paused, every interval is cleared, so that nothing keeps it alive.      *)
Drains(c) ==
  /\ phase[c] = "draining"
  /\ probe[c] = NoProbe
  /\ phase' = [phase EXCEPT ![c] = "drained"]
  /\ Forgets(c)
  /\ UNCHANGED <<sockets, server, reclaiming, probe, fileVars, faultVars, moved>>

(* A process that ends without its shutdown.                               *)
Dies(c) ==
  /\ phase[c] \notin {"down", "drained", "gone"}
  /\ phase' = [phase EXCEPT ![c] = "gone"]
  /\ sockets' = [sockets EXCEPT ![c] = {}]
  /\ server' = [server EXCEPT ![c] = 0]
  /\ reclaiming' = [reclaiming EXCEPT ![c] = FALSE]
  /\ probe' = [probe EXCEPT ![c] = NoProbe]
  /\ misled' = misled \ {c}
  /\ Forgets(c)
  /\ UNCHANGED <<file, writer, foreign, slow, moved>>

(* The process is killed, or gets a signal before main handles signals.    *)
Crash(c) ==
  /\ Cardinality(crashed) < MaxCrashes
  /\ crashed' = crashed \cup {c}
  /\ Dies(c)

(* No handler of an MCP core stands between a signal and its end.          *)
Signalled(c) ==
  /\ c \in Mcp
  /\ crashed' = crashed
  /\ Dies(c)

ForeignLeaves ==
  /\ foreign
  /\ foreign' = FALSE
  /\ UNCHANGED <<procVars, fileVars, slow, crashed, moved>>

-----------------------------------------------------------------------------
Init ==
  /\ phase = [c \in Core |-> "down"]
  /\ trying = [c \in Core |-> Canonical]
  /\ sockets = [c \in Core |-> {}]
  /\ server = [c \in Core |-> 0]
  /\ reclaiming = [c \in Core |-> FALSE]
  /\ port = [c \in Core |-> 0]
  /\ claimed = [c \in Core |-> FALSE]
  /\ probe = [c \in Core |-> NoProbe]
  /\ file \in Port \cup {0}
  /\ foreign \in BOOLEAN
  /\ slow = 0
  /\ writer = NoCore
  /\ crashed = {}
  /\ moved = {}
  /\ misled = {}

CoreSteps(c) ==
  \/ ScanBinds(c) \/ ScanNext(c)
  \/ StartupClaim(c) \/ ServesMcp(c) \/ ProbeAnswers(c) \/ ClaimDecides(c)
  \/ ReclaimBinds(c) \/ ReclaimCloses(c)
  \/ StopReleases(c) \/ Drains(c)

Next ==
  \/ \E c \in Core : \/ Spawn(c) \/ CoreSteps(c)
                     \/ ProbeTimesOut(c) \/ StopBegins(c)
                     \/ Crash(c) \/ Signalled(c)
  \/ ForeignLeaves

(* A core that runs goes on running: its event loop, its interval and its  *)
(* shutdown make progress.  Nobody promises that a core is started or      *)
(* stopped, or that the foreign program leaves.                            *)
Fairness == \A c \in Core : WF_vars(CoreSteps(c))

Spec == Init /\ [][Next]_vars
FairSpec == Spec /\ Fairness

-----------------------------------------------------------------------------
TypeOK ==
  /\ phase \in [Core -> Phase]
  /\ trying \in [Core -> Port]
  /\ sockets \in [Core -> SUBSET Port]
  /\ server \in [Core -> Port \cup {0}]
  /\ reclaiming \in [Core -> BOOLEAN]
  /\ port \in [Core -> Port \cup {0}]
  /\ claimed \in [Core -> BOOLEAN]
  /\ probe \in [Core -> Probe]
  /\ file \in Port \cup {0}
  /\ writer \in Core \cup {NoCore}
  /\ foreign \in BOOLEAN
  /\ slow \in 0 .. MaxSlow
  /\ crashed \subseteq Core /\ moved \subseteq Core /\ misled \subseteq Core

(* "There is no instant at which the core is listening nowhere": from the  *)
(* first bind until stop() a core listens, also in the middle of a move,   *)
(* on the port it reports.                                                 *)
NeverDeaf ==
  \A c \in Core :
    phase[c] \in {"bound", "claiming", "running"} => server[c] \in sockets[c]

(* "A stopped core must not grab the port": once stop() has begun a core   *)
(* holds no port and never binds one again.                                *)
StoppedHoldsNothing ==
  \A c \in Core :
    phase[c] \in {"stopping", "draining", "drained", "gone"} =>
      sockets[c] = {} /\ ~reclaiming[c]

(* "A live one keeps its claim": the claim of a core that still listens    *)
(* where the file says is overwritten only by force, or by a core whose    *)
(* probe was not answered in time or asked about an earlier file.          *)
LiveClaimStands ==
  [][\A c, d \in Core :
       (writer = d /\ file \in sockets[d] /\ writer' = c /\ c # d) =>
         c \in Forcing \cup misled]_vars

(* However cores start, race for the ports and move to the canonical one,  *)
(* as long as none stops or dies the file names a core that listens once   *)
(* the claims are over and a core that claims runs: the pointer follows a  *)
(* move.  (It does not follow an MCP core that moves: a claim that found   *)
(* that core alive at the port in the file has let the file be, and the    *)
(* port is then nobody's.)                                                 *)
Settled ==
  /\ \A c \in Core : /\ phase[c] \in {"down", "running"}
                     /\ probe[c] = NoProbe
                     /\ ~Migrating(c)
  /\ Mcp \cap moved = {}
StartsLeaveLivePointer ==
  Settled /\ (\E c \in Core \ Mcp : phase[c] = "running") =>
    file # 0 /\ Listening(file)

(* "Leave no pointer to a port nothing is listening on": a core that was   *)
(* not killed, that the extension did not shut down by request and that    *)
(* never moved to the canonical port takes its pointer with it.  (One that *)
(* has moved does not: releasePortFile compares the file with the port the *)
(* core started on.)                                                       *)
PointerGoesWithItsCore ==
  \A c \in Core :
    (file # 0 /\ writer = c /\ phase[c] = "gone") => 
      c \in crashed \cup moved

(* "It keeps trying to take it back once its holder goes away": while some *)
(* core runs, the canonical port does not stay dead.                       *)
CanonicalTakenBack ==
  (\E c \in Core : phase[c] = "running") ~>
    (~Free(Canonical) \/ \A c \in Core : phase[c] # "running")

-----------------------------------------------------------------------------
=============================================================================
