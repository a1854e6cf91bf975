--------------------------- MODULE HookPortProofs ---------------------------
(***************************************************************************)
(* Theorems about HookPort, for every set of cores, number of ports and    *)
(* bound on crashes and slow probes.                                       *)
(***************************************************************************)
EXTENDS HookPort, TLAPS

USE DEF Canonical

(* The process has ended.                                                  *)
Over(c) == phase[c] \in {"drained", "gone"}

(* A core owns sockets from its first bind until it stops, and two of them *)
(* only in the middle of a move, which it makes while it runs.             *)
SocketShape ==
  \A c \in Core :
    /\ phase[c] \in {"down", "scanning"} => sockets[c] = {} /\ ~reclaiming[c]
    /\ phase[c] = "bound" => port[c] \in sockets[c]
    /\ reclaiming[c] => port[c] # Canonical /\ c \notin moved
    /\ Migrating(c) => reclaiming[c] /\ phase[c] = "running"
                       /\ server[c] = Canonical

(* No two cores listen on one port.                                        *)
Exclusive == \A c, d \in Core : c # d => sockets[c] \cap sockets[d] = {}

(* A claim is under way while main waits for it, or after a move.          *)
ClaimShape ==
  \A c \in Core :
    /\ phase[c] \in {"down", "scanning", "bound", "claiming"} =>
         writer # c /\ c \notin moved
    /\ probe[c] # NoProbe =>
         /\ probe[c].port # 0
         /\ phase[c] = "claiming" \/ (~Over(c) /\ c \in moved)

(* Unless it has moved, the core that wrote the file wrote the port it     *)
(* started on, and knows that the claim is its own.                        *)
OwnPointer ==
  \A c \in Core :
    (file # 0 /\ writer = c /\ ~Over(c) /\ c \notin moved) =>
      file = port[c] /\ claimed[c]

(* An MCP core has nothing to do with the file: it neither asks nor writes *)
(* and has no shutdown.                                                    *)
McpSilent ==
  \A c \in Mcp : /\ writer # c /\ probe[c] = NoProbe
                 /\ phase[c] \notin {"claiming", "stopping", "draining", "drained"}

(* A core that was not misled asks about the file as it is, and when the   *)
(* probe found nobody then the core that wrote the file is not there.      *)
ProbeIsTrue ==
  \A c \in Core \ misled :
    /\ probe[c].port # 0 => file \in {0, probe[c].port}
    /\ probe[c].answer = "dead" /\ writer \in Core => file \notin sockets[writer]

IInv ==
  /\ TypeOK /\ NeverDeaf /\ StoppedHoldsNothing /\ SocketShape /\ Exclusive
  /\ ClaimShape /\ OwnPointer /\ PointerGoesWithItsCore /\ ProbeIsTrue
  /\ McpSilent

(***************************************************************************)
(* The initial states satisfy the invariant.                               *)
(***************************************************************************)
LEMMA InitInv == Init => IInv
  <1> SUFFICES ASSUME Init PROVE IInv
    OBVIOUS
  <1> USE CoreAssumption, PortAssumption, BoundAssumption DEF Init, NoProbe
  <1>1. TypeOK
    BY DEF TypeOK, Phase, Port, Probe
  <1>2. NeverDeaf /\ StoppedHoldsNothing /\ SocketShape /\ Exclusive
    BY DEF NeverDeaf, StoppedHoldsNothing, SocketShape, Exclusive, Migrating
  <1>3. ClaimShape /\ OwnPointer /\ PointerGoesWithItsCore /\ ProbeIsTrue
      /\ McpSilent
    BY DEF ClaimShape, OwnPointer, PointerGoesWithItsCore, Over, ProbeIsTrue, McpSilent
  <1>4. QED
    BY <1>1, <1>2, <1>3 DEF IInv

(* Every step keeps the types.                                             *)
LEMMA TypeStep ==
  ASSUME IInv, [Next]_vars
  PROVE  TypeOK'
  <1> USE CoreAssumption, PortAssumption, BoundAssumption
  <1>1. ASSUME NEW e \in Core, Spawn(e) \/ ServesMcp(e) PROVE TypeOK'
    BY <1>1 DEF IInv, TypeOK, Phase, Port, fileVars, faultVars, Spawn, ServesMcp
  <1>2. ASSUME NEW e \in Core, ScanBinds(e) PROVE TypeOK'
    BY <1>2 DEF IInv, TypeOK, Phase, fileVars, faultVars, ScanBinds
  <1>3. ASSUME NEW e \in Core, ScanNext(e) PROVE TypeOK'
    <2>1. trying' \in [Core -> Port]
      <3>1. CASE trying[e] = LastPort
        BY <1>3, <3>1 DEF IInv, TypeOK, ScanNext
      <3>2. CASE trying[e] # LastPort
        BY <1>3, <3>2 DEF IInv, TypeOK, ScanNext, Port
      <3>3. QED
        BY <3>1, <3>2
    <2>2. phase' \in [Core -> Phase]
      BY <1>3 DEF IInv, TypeOK, ScanNext, Phase
    <2>3. QED
      BY <1>3, <2>1, <2>2 DEF IInv, TypeOK, ScanNext, fileVars, faultVars
  <1>4. ASSUME NEW e \in Core, StartupClaim(e) PROVE TypeOK'
    BY <1>4
    DEF IInv, TypeOK, Phase, Probe, NoProbe, fileVars, faultVars, StartupClaim,
        ReadsFile, Writes
  <1>5. ASSUME NEW e \in Core, ProbeAnswers(e) PROVE TypeOK'
    BY <1>5 DEF IInv, TypeOK, Probe, fileVars, faultVars, ProbeAnswers
  <1>6. ASSUME NEW e \in Core, ProbeTimesOut(e) PROVE TypeOK'
    BY <1>6 DEF IInv, TypeOK, Probe, ProbeTimesOut
  <1>7. ASSUME NEW e \in Core, ClaimDecides(e) PROVE TypeOK'
    <2>1. Target(e) \in Port \cup {0}
      BY DEF IInv, TypeOK, Target, Port
    <2>2. /\ phase' \in [Core -> Phase] /\ probe' \in [Core -> Probe]
          /\ file' \in Port \cup {0} /\ writer' \in Core \cup {NoCore}
          /\ misled' \subseteq Core
      BY <1>7, <2>1
      DEF IInv, TypeOK, Phase, Probe, NoProbe, ClaimDecides, Writes
    <2>3. claimed' \in [Core -> BOOLEAN]
      BY <1>7, Zenon DEF IInv, TypeOK, ClaimDecides
    <2>4. QED
      BY <1>7, <2>2, <2>3 DEF IInv, TypeOK, faultVars, ClaimDecides
  <1>8. ASSUME NEW e \in Core, ReclaimBinds(e) PROVE TypeOK'
    BY <1>8 DEF IInv, TypeOK, Port, fileVars, faultVars, ReclaimBinds
  <1>9. ASSUME NEW e \in Core, ReclaimCloses(e) PROVE TypeOK'
    BY <1>9
    DEF IInv, TypeOK, Port, Probe, NoProbe, fileVars, faultVars, ReclaimCloses,
        ReadsFile, Writes
  <1>10. ASSUME NEW e \in Core, StopBegins(e) PROVE TypeOK'
    BY <1>10 DEF IInv, TypeOK, Phase, fileVars, faultVars, StopBegins
  <1>11. ASSUME NEW e \in Core, StopReleases(e) PROVE TypeOK'
    <2>1. /\ trying' \in [Core -> Port] /\ port' \in [Core -> Port \cup {0}]
          /\ claimed' \in [Core -> BOOLEAN]
      BY <1>11 DEF IInv, TypeOK, StopReleases, Forgets, Port
    <2>2. QED
      BY <1>11, <2>1
      DEF IInv, TypeOK, Phase, Probe, NoProbe, faultVars, StopReleases, Released
  <1>12. ASSUME NEW e \in Core, Crash(e) \/ Signalled(e) PROVE TypeOK'
    <2>1. Dies(e) /\ crashed' \subseteq Core
      BY <1>12 DEF IInv, TypeOK, Crash, Signalled
    <2>2. /\ trying' \in [Core -> Port] /\ port' \in [Core -> Port \cup {0}]
          /\ claimed' \in [Core -> BOOLEAN]
      BY <2>1 DEF IInv, TypeOK, Dies, Forgets, Port
    <2>3. QED
      BY <2>1, <2>2 DEF IInv, TypeOK, Phase, Probe, NoProbe, Dies
  <1>13. CASE ForeignLeaves
    BY <1>13 DEF IInv, TypeOK, ForeignLeaves, procVars, fileVars
  <1>14. CASE UNCHANGED vars
    BY <1>14 DEF IInv, TypeOK, vars, procVars, fileVars, faultVars
  <1>15. ASSUME NEW e \in Core, Drains(e) PROVE TypeOK'
    BY <1>15 DEF IInv, TypeOK, Phase, Port, fileVars, faultVars, Drains, Forgets
  <1>16. QED
    BY <1>1, <1>2, <1>3, <1>4, <1>5, <1>6, <1>7, <1>8, <1>9, <1>10, <1>11, <1>12,
       <1>13, <1>14, <1>15
    DEF Next, CoreSteps

(* Every step keeps what is known of ports and sockets.                   *)
LEMMA SocketStep ==
  ASSUME IInv, [Next]_vars
  PROVE  (NeverDeaf /\ StoppedHoldsNothing /\ SocketShape /\ Exclusive)'
  <1> USE CoreAssumption, PortAssumption, BoundAssumption
  <1>1. ASSUME NEW e \in Core, Spawn(e) \/ ServesMcp(e)
        PROVE (NeverDeaf /\ StoppedHoldsNothing /\ SocketShape /\ Exclusive)'
    BY <1>1
    DEF IInv, TypeOK, NeverDeaf, StoppedHoldsNothing, SocketShape, Exclusive,
        Migrating, Spawn, ServesMcp, fileVars, faultVars
  <1>2. ASSUME NEW e \in Core, ScanBinds(e)
        PROVE (NeverDeaf /\ StoppedHoldsNothing /\ SocketShape /\ Exclusive)'
    BY <1>2
    DEF IInv, TypeOK, NeverDeaf, StoppedHoldsNothing, SocketShape, Exclusive,
        ClaimShape, Migrating, ScanBinds, Free, Listening
  <1>3. ASSUME NEW e \in Core, ScanNext(e)
        PROVE (NeverDeaf /\ StoppedHoldsNothing /\ SocketShape /\ Exclusive)'
    BY <1>3
    DEF IInv, TypeOK, NeverDeaf, StoppedHoldsNothing, SocketShape, Exclusive,
        Migrating, ScanNext
  <1>4. ASSUME NEW e \in Core, StartupClaim(e)
        PROVE (NeverDeaf /\ StoppedHoldsNothing /\ SocketShape /\ Exclusive)'
    BY <1>4
    DEF IInv, NeverDeaf, StoppedHoldsNothing, SocketShape, Exclusive,
        Migrating, StartupClaim
  <1>5. ASSUME NEW e \in Core, ProbeAnswers(e)
        PROVE (NeverDeaf /\ StoppedHoldsNothing /\ SocketShape /\ Exclusive)'
    BY <1>5
    DEF IInv, NeverDeaf, StoppedHoldsNothing, SocketShape, Exclusive,
        Migrating, ProbeAnswers
  <1>6. ASSUME NEW e \in Core, ProbeTimesOut(e)
        PROVE (NeverDeaf /\ StoppedHoldsNothing /\ SocketShape /\ Exclusive)'
    BY <1>6
    DEF IInv, NeverDeaf, StoppedHoldsNothing, SocketShape, Exclusive,
        Migrating, ProbeTimesOut
  <1>7. ASSUME NEW e \in Core, ClaimDecides(e)
        PROVE (NeverDeaf /\ StoppedHoldsNothing /\ SocketShape /\ Exclusive)'
    BY <1>7
    DEF IInv, NeverDeaf, StoppedHoldsNothing, SocketShape, Exclusive,
        Migrating, ClaimDecides
  <1>8. ASSUME NEW e \in Core, ReclaimBinds(e)
        PROVE (NeverDeaf /\ StoppedHoldsNothing /\ SocketShape /\ Exclusive)'
    BY <1>8
    DEF IInv, TypeOK, NeverDeaf, StoppedHoldsNothing, SocketShape, Exclusive,
        Migrating, Phase, ReclaimBinds, Free, Listening
  <1>9. ASSUME NEW e \in Core, ReclaimCloses(e)
        PROVE (NeverDeaf /\ StoppedHoldsNothing /\ SocketShape /\ Exclusive)'
    BY <1>9
    DEF IInv, TypeOK, NeverDeaf, StoppedHoldsNothing, SocketShape, Exclusive,
        Migrating, ReclaimCloses
  <1>10. ASSUME NEW e \in Core, StopBegins(e)
        PROVE (NeverDeaf /\ StoppedHoldsNothing /\ SocketShape /\ Exclusive)'
    BY <1>10
    DEF IInv, TypeOK, NeverDeaf, StoppedHoldsNothing, SocketShape, Exclusive,
        Migrating, StopBegins
  <1>11. ASSUME NEW e \in Core, StopReleases(e)
        PROVE (NeverDeaf /\ StoppedHoldsNothing /\ SocketShape /\ Exclusive)'
    BY <1>11
    DEF IInv, NeverDeaf, StoppedHoldsNothing, SocketShape, Exclusive,
        Migrating, StopReleases, Forgets
  <1>12. ASSUME NEW e \in Core, Crash(e) \/ Signalled(e)
        PROVE (NeverDeaf /\ StoppedHoldsNothing /\ SocketShape /\ Exclusive)'
    BY <1>12
    DEF IInv, TypeOK, NeverDeaf, StoppedHoldsNothing, SocketShape, Exclusive,
        Migrating, Crash, Signalled, Dies, Forgets
  <1>13. CASE ForeignLeaves
    BY <1>13
    DEF IInv, NeverDeaf, StoppedHoldsNothing, SocketShape, Exclusive,
        Migrating, ForeignLeaves, procVars
  <1>14. CASE UNCHANGED vars
    BY <1>14
    DEF IInv, NeverDeaf, StoppedHoldsNothing, SocketShape, Exclusive,
        Migrating, vars, procVars
  <1>15. ASSUME NEW e \in Core, Drains(e)
        PROVE (NeverDeaf /\ StoppedHoldsNothing /\ SocketShape /\ Exclusive)'
    BY <1>15
    DEF IInv, NeverDeaf, StoppedHoldsNothing, SocketShape, Exclusive,
        Migrating, Drains, Forgets
  <1>16. QED
    BY <1>1, <1>2, <1>3, <1>4, <1>5, <1>6, <1>7, <1>8, <1>9, <1>10, <1>11, <1>12,
       <1>13, <1>14, <1>15
    DEF Next, CoreSteps

(* Every step keeps what is known of the file and the core that wrote it.  *)
LEMMA ClaimStep ==
  ASSUME IInv, [Next]_vars
  PROVE  (ClaimShape /\ OwnPointer /\ PointerGoesWithItsCore)'
  <1> USE CoreAssumption, PortAssumption, BoundAssumption
  <1>1. ASSUME NEW e \in Core, Spawn(e) \/ ServesMcp(e)
        PROVE (ClaimShape /\ OwnPointer /\ PointerGoesWithItsCore)'
    <2>1. /\ \E ph \in {"scanning", "running"} : phase' = [phase EXCEPT ![e] = ph]
          /\ phase[e] \in {"down", "bound"}
          /\ UNCHANGED <<port, claimed, probe, file, writer, crashed, moved>>
      BY <1>1 DEF Spawn, ServesMcp, fileVars, faultVars
    <2>2. QED
      BY <2>1
      DEF IInv, TypeOK, ClaimShape, OwnPointer, PointerGoesWithItsCore, Over
  <1>2. ASSUME NEW e \in Core, ScanBinds(e)
        PROVE (ClaimShape /\ OwnPointer /\ PointerGoesWithItsCore)'
    BY <1>2
    DEF IInv, ClaimShape, OwnPointer, PointerGoesWithItsCore, Over, fileVars,
        faultVars, ScanBinds
  <1>3. ASSUME NEW e \in Core, ScanNext(e)
        PROVE (ClaimShape /\ OwnPointer /\ PointerGoesWithItsCore)'
    BY <1>3
    DEF IInv, TypeOK, ClaimShape, OwnPointer, PointerGoesWithItsCore, Over, fileVars,
        faultVars, ScanNext
  <1>4. ASSUME NEW e \in Core, StartupClaim(e)
        PROVE (ClaimShape /\ OwnPointer /\ PointerGoesWithItsCore)'
    <2>1. /\ phase[e] = "bound" /\ writer # e /\ e \notin moved
          /\ phase' = [phase EXCEPT ![e] = IF Probes(e, port[e]) THEN "claiming" ELSE "running"]
          /\ UNCHANGED <<port, moved, crashed>>
      BY <1>4 DEF IInv, ClaimShape, StartupClaim, faultVars
    <2>2. \A c \in Core \ {e} : claimed'[c] = claimed[c] /\ probe'[c] = probe[c]
      BY <1>4 DEF IInv, TypeOK, StartupClaim, ReadsFile
    <2>3. CASE Probes(e, port[e])
      <3>1. probe' = [probe EXCEPT ![e] = [port |-> file, answer |-> "none"]]
            /\ UNCHANGED <<file, writer>> /\ file # 0
        BY <1>4, <2>3 DEF StartupClaim, ReadsFile, fileVars, Probes
      <3>2. QED
        BY <2>1, <2>2, <2>3, <3>1
        DEF IInv, TypeOK, ClaimShape, OwnPointer, PointerGoesWithItsCore, Over,
            Phase, Probe, NoProbe
    <2>4. CASE ~Probes(e, port[e])
      <3>1. probe' = [probe EXCEPT ![e] = NoProbe] /\ file' = port[e] /\ writer' = e
        BY <1>4, <2>4 DEF StartupClaim, ReadsFile, Writes
      <3>2. claimed'[e] = TRUE
        BY <1>4, <2>4, Zenon DEF IInv, TypeOK, StartupClaim
      <3>3. QED
        BY <2>1, <2>2, <2>4, <3>1, <3>2
        DEF IInv, TypeOK, ClaimShape, OwnPointer, PointerGoesWithItsCore, Over,
            Phase, Probe, NoProbe
    <2>5. QED
      BY <2>3, <2>4
  <1>5. ASSUME NEW e \in Core, ProbeAnswers(e)
        PROVE (ClaimShape /\ OwnPointer /\ PointerGoesWithItsCore)'
    BY <1>5
    DEF IInv, ClaimShape, OwnPointer, PointerGoesWithItsCore, Over, NoProbe,
        fileVars, faultVars, ProbeAnswers
  <1>6. ASSUME NEW e \in Core, ProbeTimesOut(e)
        PROVE (ClaimShape /\ OwnPointer /\ PointerGoesWithItsCore)'
    BY <1>6
    DEF IInv, ClaimShape, OwnPointer, PointerGoesWithItsCore, Over, NoProbe,
        ProbeTimesOut
  <1>7. ASSUME NEW e \in Core, ClaimDecides(e)
        PROVE (ClaimShape /\ OwnPointer /\ PointerGoesWithItsCore)'
    <2> DEFINE starts == phase[e] = "claiming"
    <2>1. /\ phase' = [phase EXCEPT ![e] = IF starts THEN "running" ELSE @]
          /\ probe' = [probe EXCEPT ![e] = NoProbe]
          /\ UNCHANGED <<port, moved, crashed>>
      BY <1>7 DEF ClaimDecides, faultVars
    <2>2. \A c \in Core \ {e} : claimed'[c] = claimed[c] /\ probe'[c] = probe[c]
      BY <1>7 DEF IInv, TypeOK, ClaimDecides
    <2>3. probe[e] # NoProbe /\ (~starts => ~Over(e) /\ e \in moved)
      BY <1>7 DEF IInv, ClaimShape, ClaimDecides, NoProbe
    <2>4. CASE probe[e].answer # "dead"
      <3>1. UNCHANGED <<file, writer>>
        BY <1>7, <2>4 DEF ClaimDecides
      <3>2. QED
        BY <2>1, <2>2, <2>3, <3>1
        DEF IInv, TypeOK, ClaimShape, OwnPointer, PointerGoesWithItsCore, Over,
            Phase, Probe, NoProbe
    <2>5. CASE probe[e].answer = "dead" /\ starts
      <3>1. file' = port[e] /\ writer' = e
        BY <1>7, <2>5 DEF ClaimDecides, Writes, Target
      <3>2. claimed'[e] = TRUE
        BY <1>7, <2>5, Zenon DEF IInv, TypeOK, ClaimDecides
      <3>3. QED
        BY <2>1, <2>2, <2>5, <3>1, <3>2
        DEF IInv, TypeOK, ClaimShape, OwnPointer, PointerGoesWithItsCore, Over,
            Phase, Probe, NoProbe
    <2>6. CASE probe[e].answer = "dead" /\ ~starts
      <3>1. writer' = e
        BY <1>7, <2>6 DEF ClaimDecides, Writes
      <3>2. QED
        BY <2>1, <2>2, <2>3, <2>6, <3>1
        DEF IInv, TypeOK, ClaimShape, OwnPointer, PointerGoesWithItsCore, Over,
            Phase, Probe, NoProbe
    <2>7. QED
      BY <2>4, <2>5, <2>6
  <1>8. ASSUME NEW e \in Core, ReclaimBinds(e)
        PROVE (ClaimShape /\ OwnPointer /\ PointerGoesWithItsCore)'
    BY <1>8
    DEF IInv, ClaimShape, OwnPointer, PointerGoesWithItsCore, Over, fileVars,
        faultVars, ReclaimBinds
  <1>9. ASSUME NEW e \in Core, ReclaimCloses(e)
        PROVE (ClaimShape /\ OwnPointer /\ PointerGoesWithItsCore)'
    <2>1. /\ Migrating(e) /\ moved' = moved \cup {e}
          /\ UNCHANGED <<phase, port, claimed, crashed>>
          /\ \/ UNCHANGED <<probe, file, writer>>
             \/ ReadsFile(e, Canonical)
      BY <1>9 DEF ReclaimCloses, fileVars, faultVars
    <2>2. CASE UNCHANGED <<probe, file, writer>>
      BY <2>1, <2>2
      DEF IInv, SocketShape, ClaimShape, OwnPointer, PointerGoesWithItsCore, Over
    <2>3. CASE ReadsFile(e, Canonical)
      BY <2>1, <2>3
      DEF IInv, SocketShape, ClaimShape, OwnPointer, PointerGoesWithItsCore, Over,
          fileVars, ReadsFile, Writes, Probes
    <2>4. QED
      BY <2>1, <2>2, <2>3
  <1>10. ASSUME NEW e \in Core, StopBegins(e)
        PROVE (ClaimShape /\ OwnPointer /\ PointerGoesWithItsCore)'
    BY <1>10
    DEF IInv, ClaimShape, OwnPointer, PointerGoesWithItsCore, Over, fileVars,
        faultVars, StopBegins
  <1>11. ASSUME NEW e \in Core, StopReleases(e)
        PROVE (ClaimShape /\ OwnPointer /\ PointerGoesWithItsCore)'
    BY <1>11
    DEF IInv, TypeOK, ClaimShape, OwnPointer, PointerGoesWithItsCore, Over,
        faultVars, StopReleases, Released, Forgets
  <1>12. ASSUME NEW e \in Core, Crash(e) \/ Signalled(e)
        PROVE (ClaimShape /\ OwnPointer /\ PointerGoesWithItsCore)'
    <2>1. Dies(e) /\ crashed \subseteq crashed' /\ (e \in crashed' \/ e \in Mcp)
      BY <1>12 DEF Crash, Signalled
    <2>2. QED
      BY <2>1
      DEF IInv, TypeOK, ClaimShape, OwnPointer, PointerGoesWithItsCore, Over, Dies,
          McpSilent, Forgets
  <1>13. CASE ForeignLeaves
    BY <1>13
    DEF IInv, ClaimShape, OwnPointer, PointerGoesWithItsCore, Over, ForeignLeaves,
        procVars, fileVars
  <1>14. CASE UNCHANGED vars
    BY <1>14
    DEF IInv, ClaimShape, OwnPointer, PointerGoesWithItsCore, Over, vars, procVars,
        fileVars, faultVars
  <1>15. ASSUME NEW e \in Core, Drains(e)
         PROVE (ClaimShape /\ OwnPointer /\ PointerGoesWithItsCore)'
    BY <1>15
    DEF IInv, TypeOK, ClaimShape, OwnPointer, PointerGoesWithItsCore, Over,
        fileVars, faultVars, Drains, Forgets
  <1>16. QED
    BY <1>1, <1>2, <1>3, <1>4, <1>5, <1>6, <1>7, <1>8, <1>9, <1>10, <1>11, <1>12,
       <1>13, <1>14, <1>15
    DEF Next, CoreSteps

(* No step makes an MCP core ask, claim or stop.                           *)
LEMMA McpStep ==
  ASSUME IInv, [Next]_vars
  PROVE  McpSilent'
  <1> USE CoreAssumption DEF IInv, TypeOK, McpSilent, fileVars, procVars
  <1>1. ASSUME NEW e \in Core, Spawn(e) \/ ServesMcp(e) \/ ScanBinds(e) \/ ScanNext(e)
        PROVE  McpSilent'
    BY <1>1 DEF Spawn, ServesMcp, ScanBinds, ScanNext
  <1>2. ASSUME NEW e \in Core, StartupClaim(e) PROVE McpSilent'
    BY <1>2 DEF StartupClaim, ReadsFile, Writes
  <1>3. ASSUME NEW e \in Core,
               ProbeAnswers(e) \/ ProbeTimesOut(e) \/ ClaimDecides(e)
        PROVE  McpSilent'
    BY <1>3 DEF ProbeAnswers, ProbeTimesOut, ClaimDecides, Writes, NoProbe
  <1>4. ASSUME NEW e \in Core, ReclaimBinds(e) \/ ReclaimCloses(e) PROVE McpSilent'
    BY <1>4 DEF ReclaimBinds, ReclaimCloses, ReadsFile, Writes
  <1>5. ASSUME NEW e \in Core, StopBegins(e) \/ StopReleases(e) \/ Drains(e)
        PROVE  McpSilent'
    BY <1>5 DEF StopBegins, StopReleases, Drains
  <1>6. ASSUME NEW e \in Core, Crash(e) \/ Signalled(e) PROVE McpSilent'
    BY <1>6 DEF Crash, Signalled, Dies
  <1>7. CASE ForeignLeaves \/ UNCHANGED vars
    BY <1>7 DEF ForeignLeaves, vars
  <1>8. QED
    BY <1>1, <1>2, <1>3, <1>4, <1>5, <1>6, <1>7 DEF Next, CoreSteps

(* Every step keeps what a claim under way knows.                          *)
LEMMA ProbeStep ==
  ASSUME IInv, [Next]_vars
  PROVE  ProbeIsTrue'
  <1> USE CoreAssumption, PortAssumption, BoundAssumption
  <1>1. ASSUME NEW e \in Core, Spawn(e) \/ ServesMcp(e) PROVE ProbeIsTrue'
    BY <1>1 DEF IInv, ProbeIsTrue, fileVars, Spawn, ServesMcp
  <1>2. ASSUME NEW e \in Core, ScanBinds(e) PROVE ProbeIsTrue'
    BY <1>2 DEF IInv, ClaimShape, ProbeIsTrue, fileVars, ScanBinds
  <1>3. ASSUME NEW e \in Core, ScanNext(e) PROVE ProbeIsTrue'
    BY <1>3 DEF IInv, ProbeIsTrue, fileVars, ScanNext
  <1>4. ASSUME NEW e \in Core, StartupClaim(e) PROVE ProbeIsTrue'
    BY <1>4
    DEF IInv, ClaimShape, ProbeIsTrue, NoProbe, fileVars, StartupClaim,
        ReadsFile, Writes
  <1>5. ASSUME NEW e \in Core, ProbeAnswers(e) PROVE ProbeIsTrue'
    BY <1>5
    DEF IInv, TypeOK, ProbeIsTrue, Port, fileVars, ProbeAnswers, Listening
  <1>6. ASSUME NEW e \in Core, ProbeTimesOut(e) PROVE ProbeIsTrue'
    BY <1>6 DEF IInv, ProbeIsTrue, ProbeTimesOut
  <1>7. ASSUME NEW e \in Core, ClaimDecides(e) PROVE ProbeIsTrue'
    BY <1>7
    DEF IInv, TypeOK, ClaimShape, ProbeIsTrue, NoProbe, ClaimDecides, Writes
  <1>8. ASSUME NEW e \in Core, ReclaimBinds(e) PROVE ProbeIsTrue'
    <2>1. /\ sockets' = [sockets EXCEPT ![e] = @ \cup {Canonical}]
          /\ UNCHANGED <<probe, file, writer, misled>>
      BY <1>8 DEF ReclaimBinds, fileVars
    <2>2. port[e] # Canonical /\ e \notin moved /\ ~Over(e)
      BY <1>8 DEF Over, ReclaimBinds, IInv, SocketShape, StoppedHoldsNothing
    <2>3. writer = e => file # Canonical
      BY <2>2 DEF IInv, OwnPointer
    <2>4. QED
      BY <2>1, <2>3 DEF IInv, TypeOK, ProbeIsTrue
  <1>9. ASSUME NEW e \in Core, ReclaimCloses(e) PROVE ProbeIsTrue'
    <2>1. /\ Migrating(e) /\ sockets' = [sockets EXCEPT ![e] = {Canonical}]
          /\ UNCHANGED <<phase, port>>
          /\ \/ UNCHANGED <<probe, fileVars>>
             \/ ReadsFile(e, Canonical)
      BY <1>9 DEF ReclaimCloses
    <2>2. sockets'[e] \subseteq sockets[e]
      BY <2>1 DEF IInv, TypeOK, SocketShape, NeverDeaf
    <2>3. CASE UNCHANGED <<probe, fileVars>>
      BY <2>1, <2>2, <2>3 DEF IInv, TypeOK, ProbeIsTrue, fileVars
    <2>4. CASE ReadsFile(e, Canonical)
      BY <2>1, <2>2, <2>4
      DEF IInv, TypeOK, SocketShape, ClaimShape, ProbeIsTrue, NoProbe, fileVars,
          ReadsFile, Writes, Probes
    <2>5. QED
      BY <2>1, <2>3, <2>4
  <1>10. ASSUME NEW e \in Core, StopBegins(e) PROVE ProbeIsTrue'
    BY <1>10 DEF IInv, ProbeIsTrue, fileVars, StopBegins
  <1>11. ASSUME NEW e \in Core, StopReleases(e) PROVE ProbeIsTrue'
    BY <1>11 DEF IInv, TypeOK, ProbeIsTrue, NoProbe, StopReleases, Released, Forgets
  <1>12. ASSUME NEW e \in Core, Crash(e) \/ Signalled(e) PROVE ProbeIsTrue'
    BY <1>12 DEF IInv, TypeOK, ProbeIsTrue, NoProbe, Crash, Signalled, Dies, Forgets
  <1>13. CASE ForeignLeaves
    BY <1>13 DEF IInv, ProbeIsTrue, ForeignLeaves, procVars, fileVars
  <1>14. CASE UNCHANGED vars
    BY <1>14 DEF IInv, ProbeIsTrue, vars, procVars, fileVars
  <1>15. ASSUME NEW e \in Core, Drains(e) PROVE ProbeIsTrue'
    BY <1>15 DEF IInv, TypeOK, ProbeIsTrue, NoProbe, fileVars, Drains
  <1>16. QED
    BY <1>1, <1>2, <1>3, <1>4, <1>5, <1>6, <1>7, <1>8, <1>9, <1>10, <1>11, <1>12,
       <1>13, <1>14, <1>15
    DEF Next, CoreSteps

-----------------------------------------------------------------------------
(* The invariant holds in every reachable state.                           *)
THEOREM InductiveInvariant == Spec => []IInv
  <1>1. IInv /\ [Next]_vars => IInv'
    BY TypeStep, SocketStep, ClaimStep, ProbeStep, McpStep DEF IInv
  <1>2. QED
    BY InitInv, <1>1, PTL DEF Spec

(* Every variable keeps its type: in particular no core tries or holds a   *)
(* port outside the range it may scan.                                     *)
THEOREM TypeCorrect == Spec => []TypeOK
  <1>1. IInv => TypeOK
    BY DEF IInv
  <1>2. QED
    BY InductiveInvariant, <1>1, PTL

(* From its first bind until stop() a core listens on the port it reports, *)
(* whatever the others do and whenever it moves.                           *)
THEOREM NoInstantDeaf == Spec => []NeverDeaf
  <1>1. IInv => NeverDeaf
    BY DEF IInv
  <1>2. QED
    BY InductiveInvariant, <1>1, PTL

(* A core that has begun to stop holds no port and never takes one again.  *)
THEOREM StopIsFinal == Spec => []StoppedHoldsNothing
  <1>1. IInv => StoppedHoldsNothing
    BY DEF IInv
  <1>2. QED
    BY InductiveInvariant, <1>1, PTL

(* A core that neither was killed, nor has moved, nor ended of itself after *)
(* a shutdown by request leaves no pointer behind.                         *)
THEOREM PointerIsReleased == Spec => []PointerGoesWithItsCore
  <1>1. IInv => PointerGoesWithItsCore
    BY DEF IInv
  <1>2. QED
    BY InductiveInvariant, <1>1, PTL

(* A step that writes the file over another core's claim is the step of a  *)
(* core that forces it, that was misled, or that found nobody there.       *)
LEMMA ClaimOverwritten ==
  ASSUME IInv, [Next]_vars, NEW c \in Core, NEW d \in Core,
         writer = d, file \in sockets[d], writer' = c, c # d
  PROVE  c \in Forcing \cup misled
  <1> USE CoreAssumption, PortAssumption
  <1>1. c # NoCore /\ writer # c /\ file # 0
    BY DEF IInv, TypeOK, Port
  <1>2. ASSUME NEW e \in Core, StartupClaim(e) PROVE c \in Forcing \cup misled
    <2>1. ~Probes(e, port[e]) /\ c = e
      BY <1>1, <1>2 DEF StartupClaim, ReadsFile, Writes, fileVars
    <2>2. port[e] \in sockets[e] /\ port[e] \notin sockets[d]
      BY <1>2, <2>1 DEF StartupClaim, IInv, SocketShape, Exclusive
    <2>3. QED
      BY <1>1, <2>1, <2>2 DEF Probes
  <1>3. ASSUME NEW e \in Core, ReclaimCloses(e) PROVE c \in Forcing \cup misled
    <2>1. ~Probes(e, Canonical) /\ c = e
      BY <1>1, <1>3 DEF ReclaimCloses, ReadsFile, Writes, fileVars
    <2>2. Canonical \in sockets[e] /\ Canonical \notin sockets[d]
      BY <1>3, <2>1 DEF ReclaimCloses, IInv, SocketShape, NeverDeaf, Exclusive
    <2>3. QED
      BY <1>1, <2>1, <2>2 DEF Probes
  <1>4. ASSUME NEW e \in Core, ClaimDecides(e) PROVE c \in Forcing \cup misled
    <2>1. probe[e].answer = "dead" /\ c = e
      BY <1>1, <1>4 DEF ClaimDecides, Writes
    <2>2. QED
      BY <2>1 DEF IInv, ProbeIsTrue
  <1>5. ASSUME NEW e \in Core, StopReleases(e) PROVE c \in Forcing \cup misled
    BY <1>1, <1>5 DEF StopReleases
  <1>6. ASSUME UNCHANGED writer PROVE c \in Forcing \cup misled
    BY <1>1, <1>6
  <1>7. QED
    BY <1>2, <1>3, <1>4, <1>5, <1>6
    DEF Next, CoreSteps, vars, fileVars, Spawn, ServesMcp, ScanBinds, ScanNext, ProbeAnswers,
        ProbeTimesOut, ReclaimBinds, StopBegins, Drains, Crash,
        Signalled, Dies, ForeignLeaves

(* The claim of a core that listens where the file says stands, unless it  *)
(* is overwritten by force or after a probe that was answered too late or  *)
(* asked about an older file.                                              *)
THEOREM LiveClaimIsKept == Spec => LiveClaimStands
  <1>1. IInv /\ [Next]_vars =>
          [\A c, d \in Core :
             (writer = d /\ file \in sockets[d] /\ writer' = c /\ c # d) =>
               c \in Forcing \cup misled]_vars
    BY ClaimOverwritten
  <1>2. QED
    BY InductiveInvariant, <1>1, PTL DEF Spec, LiveClaimStands

-----------------------------------------------------------------------------
(* As long as no core has stopped or died and no MCP core has moved: once  *)
(* a core that claims has started, the file names a core that listens, or *)
(* a claim is under way that rests on the file as it is and was not told   *)
(* that its port is alive.                                                 *)
Undisturbed ==
  /\ \A c \in Core : phase[c] \in {"down", "scanning", "bound", "claiming", "running"}
  /\ Mcp \cap moved = {}

Runs == \E c \in Core \ Mcp : phase[c] = "running"
LivePointer == file # 0 /\ Listening(file)
Repairs(c) == probe[c].port = file /\ probe[c].answer # "alive"

(* What a claim writes is a port its core listens on.                      *)
ClaimsOwn ==
  \A c \in Core : /\ phase[c] = "claiming" => port[c] \in sockets[c]
                  /\ phase[c] = "running" /\ c \in moved => Canonical \in sockets[c]

Pointed ==
  Undisturbed =>
    /\ (\E c \in Core \ Mcp : phase[c] \in {"claiming", "running"}) => file # 0
    /\ ~Runs => \A c \in Core : probe[c].port \in {0, file}
    /\ Runs \/ (\E c \in Core : probe[c].answer = "alive") =>
         LivePointer \/ \E c \in Core : Repairs(c)

PointerInv == ClaimsOwn /\ Pointed

(* A step that only binds ports keeps the pointer.                         *)
LEMMA BindsKeepPointer ==
  ASSUME IInv, PointerInv, UNCHANGED <<file, probe, moved>>,
         Undisturbed' => Undisturbed,
         \A c \in Core : sockets[c] \subseteq sockets'[c],
         \A c \in Core : phase'[c] \in {"claiming", "running"} =>
                           \/ phase'[c] = phase[c] /\ port'[c] = port[c]
                           \/ phase'[c] = "running" /\ c \in Mcp \ moved,
         \A c \in Core : phase[c] = "running" =>
                           phase'[c] = "running" \/ ~Undisturbed'
  PROVE  PointerInv'
  <1>1. ClaimsOwn'
    BY DEF PointerInv, ClaimsOwn
  <1>2. Undisturbed' => (Runs' <=> Runs)
    BY DEF Runs
  <1>3. LivePointer => LivePointer'
    BY DEF LivePointer, Listening
  <1>4. \A c \in Core : Repairs(c)' <=> Repairs(c)
    BY DEF Repairs
  <1>5. Pointed'
    BY <1>2, <1>3, <1>4 DEF PointerInv, Pointed
  <1>6. QED
    BY <1>1, <1>5 DEF PointerInv

(* A claim that is written points to the core that wrote it.               *)
LEMMA WritesPoint ==
  ASSUME NEW c \in Core, NEW target \in Port, Writes(c, target),
         target \in sockets'[c], phase'[c] = "running", c \notin Mcp, ClaimsOwn'
  PROVE  PointerInv'
  <1>1. LivePointer' /\ Runs'
    BY PortAssumption DEF Writes, LivePointer, Listening, Runs, Port
  <1>2. QED
    BY <1>1 DEF PointerInv, Pointed, LivePointer

LEMMA PointerStep ==
  ASSUME IInv, PointerInv, [Next]_vars
  PROVE  PointerInv'
  <1> USE CoreAssumption, PortAssumption DEF procVars, fileVars, faultVars
  <1>0. TypeOK /\ Canonical \in Port
    BY DEF IInv, Port
  <1>1. ASSUME NEW e \in Core, Spawn(e) \/ ScanNext(e) PROVE PointerInv'
    BY <1>0, <1>1, BindsKeepPointer DEF Spawn, ScanNext, TypeOK, Undisturbed
  <1>11. ASSUME NEW e \in Core, ServesMcp(e) PROVE PointerInv'
    <2>1. e \in Mcp \ moved
      BY <1>11 DEF ServesMcp, IInv, ClaimShape
    <2>2. QED
      BY <1>0, <1>11, <2>1, BindsKeepPointer DEF ServesMcp, TypeOK, Undisturbed
  <1>2. ASSUME NEW e \in Core, ScanBinds(e) PROVE PointerInv'
    <2>1. sockets[e] = {}
      BY <1>2 DEF ScanBinds, IInv, SocketShape
    <2>2. QED
      BY <1>0, <1>2, <2>1, BindsKeepPointer DEF ScanBinds, TypeOK, Undisturbed
  <1>3. ASSUME NEW e \in Core, StartupClaim(e) PROVE PointerInv'
    <2>1. /\ phase[e] = "bound" /\ port[e] \in sockets[e] /\ port[e] \in Port
          /\ probe[e].port = 0 /\ probe[e].answer = "none" /\ e \notin moved
          /\ UNCHANGED <<sockets, port, moved>> /\ e \notin Mcp
      BY <1>0, <1>3 DEF StartupClaim, IInv, SocketShape, ClaimShape, TypeOK, NoProbe
    <2>2. ClaimsOwn'
      BY <1>0, <1>3, <2>1 DEF StartupClaim, PointerInv, ClaimsOwn, TypeOK
    <2>3. CASE ~Probes(e, port[e])
      <3>1. Writes(e, port[e]) /\ phase'[e] = "running"
        BY <1>0, <1>3, <2>3 DEF StartupClaim, ReadsFile, TypeOK
      <3>2. PICK target \in Port : target = port[e]
        BY <2>1
      <3>3. QED
        BY <2>1, <2>2, <3>1, <3>2, WritesPoint
    <2>4. CASE Probes(e, port[e])
      <3>1. /\ file # 0 /\ UNCHANGED <<file, sockets>>
            /\ phase'[e] = "claiming"
            /\ probe'[e].port = file /\ probe'[e].answer = "none"
            /\ \A c \in Core \ {e} : phase'[c] = phase[c] /\ probe'[c] = probe[c]
        BY <1>0, <1>3, <2>4 DEF StartupClaim, ReadsFile, Probes, TypeOK
      <3>2. /\ Undisturbed' => Undisturbed
            /\ Runs' <=> Runs
            /\ LivePointer' <=> LivePointer
            /\ \A c \in Core : Repairs(c) => Repairs(c)'
            /\ \A c \in Core : probe'[c].answer = "alive" => probe[c].answer = "alive"
        BY <2>1, <3>1 DEF Undisturbed, Runs, LivePointer, Listening, Repairs
      <3>3. Pointed'
        BY <3>1, <3>2 DEF PointerInv, Pointed
      <3>4. QED
        BY <2>2, <3>3 DEF PointerInv
    <2>5. QED
      BY <2>3, <2>4
  <1>4. ASSUME NEW e \in Core, ProbeAnswers(e) \/ ProbeTimesOut(e) PROVE PointerInv'
    <2>1. /\ UNCHANGED <<phase, sockets, port, file, moved>>
          /\ probe[e].port # 0 /\ probe[e].answer = "none"
          /\ probe'[e].port = probe[e].port
          /\ \A c \in Core \ {e} : probe'[c] = probe[c]
          /\ probe'[e].answer = "alive" => Listening(probe[e].port)
      BY <1>0, <1>4 DEF ProbeAnswers, ProbeTimesOut, TypeOK, Probe
    <2>2. /\ ClaimsOwn' /\ (Undisturbed' <=> Undisturbed) /\ (Runs' <=> Runs)
          /\ LivePointer' <=> LivePointer
      BY <2>1 DEF PointerInv, ClaimsOwn, Undisturbed, Runs, LivePointer, Listening
    <2>3. \A c \in Core : probe'[c].port = probe[c].port
      BY <2>1
    <2>4. \A c \in Core : Repairs(c) => Repairs(c)' \/ LivePointer
      BY <2>1 DEF Repairs, LivePointer
    <2>5. Undisturbed /\ ~Runs /\ probe'[e].answer = "alive" => LivePointer
      BY <2>1 DEF PointerInv, Pointed, LivePointer
    <2>6. Pointed'
      BY <2>1, <2>2, <2>3, <2>4, <2>5 DEF PointerInv, Pointed
    <2>7. QED
      BY <2>2, <2>6 DEF PointerInv
  <1>5. ASSUME NEW e \in Core, ClaimDecides(e) PROVE PointerInv'
    <2>1. /\ probe[e].answer # "none" /\ UNCHANGED <<sockets, port, moved>>
          /\ phase' = [phase EXCEPT ![e] = IF phase[e] = "claiming" THEN "running" ELSE @]
          /\ probe' = [probe EXCEPT ![e] = NoProbe]
      BY <1>5 DEF ClaimDecides
    <2>8. e \notin Mcp
      BY <1>5 DEF ClaimDecides, IInv, McpSilent, NoProbe
    <2>2. ClaimsOwn'
      <3>1. phase[e] = "claiming" => e \notin moved
        BY DEF IInv, ClaimShape
      <3>2. QED
        BY <1>0, <2>1, <3>1 DEF PointerInv, ClaimsOwn, TypeOK
    <2>3. Undisturbed' => /\ Undisturbed
                          /\ phase[e] = "claiming" \/ (phase[e] = "running" /\ e \in moved)
                          /\ phase'[e] = "running"
      BY <1>0, <2>1 DEF Undisturbed, IInv, ClaimShape, NoProbe, Over, TypeOK
    <2>4. CASE ~Undisturbed'
      BY <2>2, <2>4 DEF PointerInv, Pointed
    <2>5. CASE Undisturbed' /\ probe[e].answer = "dead"
      <3>1. Writes(e, Target(e))
        BY <1>5, <2>5 DEF ClaimDecides
      <3>2. Target(e) \in Port /\ Target(e) \in sockets'[e]
        BY <1>0, <2>1, <2>3, <2>5 DEF Target, PointerInv, ClaimsOwn, TypeOK
      <3>3. PICK target \in Port : target = Target(e)
        BY <3>2
      <3>4. QED
        BY <2>2, <2>3, <2>5, <2>8, <3>1, <3>2, <3>3, WritesPoint
    <2>6. CASE Undisturbed' /\ probe[e].answer = "alive"
      <3>1. file' = file
        BY <1>5, <2>6 DEF ClaimDecides
      <3>2. \A c \in Core \ {e} : probe'[c] = probe[c]
        BY <1>0, <2>1 DEF TypeOK
      <3>3. /\ LivePointer => LivePointer'
            /\ \A c \in Core : Repairs(c) => Repairs(c)'
        BY <2>1, <2>6, <3>1, <3>2 DEF LivePointer, Listening, Repairs
      <3>4. file # 0 /\ Runs'
        BY <2>3, <2>6, <2>8 DEF PointerInv, Pointed, Runs
      <3>5. Pointed'
        BY <2>3, <2>6, <3>1, <3>3, <3>4 DEF PointerInv, Pointed
      <3>6. QED
        BY <2>2, <3>5 DEF PointerInv
    <2>7. QED
      BY <1>0, <2>1, <2>4, <2>5, <2>6 DEF TypeOK, Probe
  <1>6. ASSUME NEW e \in Core, ReclaimBinds(e) PROVE PointerInv'
    BY <1>0, <1>6, BindsKeepPointer DEF ReclaimBinds, TypeOK, Undisturbed
  <1>7. ASSUME NEW e \in Core, ReclaimCloses(e) PROVE PointerInv'
    <2>1. /\ sockets' = [sockets EXCEPT ![e] = {Canonical}]
          /\ moved' = moved \cup {e} /\ UNCHANGED <<phase, port>>
          /\ phase[e] = "running"
      BY <1>7 DEF ReclaimCloses, IInv, SocketShape
    <2>2. ClaimsOwn' /\ Canonical \in sockets'[e] /\ phase'[e] = "running"
      BY <1>0, <2>1 DEF PointerInv, ClaimsOwn, TypeOK
    <2>6. CASE e \in Mcp
      <3>1. ~Undisturbed'
        BY <2>1, <2>6 DEF Undisturbed
      <3>2. QED
        BY <2>2, <3>1 DEF PointerInv, Pointed
    <2>3. CASE e \notin Mcp /\ ~Probes(e, Canonical)
      <3>1. Writes(e, Canonical)
        BY <1>7, <2>3 DEF ReclaimCloses, ReadsFile
      <3>2. QED
        BY <1>0, <2>2, <2>3, <3>1, WritesPoint
    <2>4. CASE e \notin Mcp /\ Probes(e, Canonical)
      <3>1. /\ file # 0 /\ file' = file
            /\ probe'[e].port = file /\ probe'[e].answer = "none"
        BY <1>0, <1>7, <2>4 DEF ReclaimCloses, ReadsFile, Probes, TypeOK
      <3>2. Repairs(e)' /\ Runs'
        BY <2>2, <2>4, <3>1 DEF Repairs, Runs
      <3>3. Pointed'
        BY <3>1, <3>2 DEF Pointed
      <3>4. QED
        BY <2>2, <3>3 DEF PointerInv
    <2>5. QED
      BY <2>3, <2>4, <2>6
  <1>8. ASSUME NEW e \in Core, StopBegins(e) \/ StopReleases(e) \/ Drains(e) \/ Crash(e)
                                 \/ Signalled(e)
        PROVE  PointerInv'
    <2>0. Crash(e) \/ Signalled(e) => Dies(e)
      BY DEF Crash, Signalled
    <2>1. /\ phase'[e] \in {"stopping", "draining", "drained", "gone"}
          /\ moved' = moved
          /\ \A c \in Core \ {e} : /\ phase'[c] = phase[c] /\ port'[c] = port[c]
                                   /\ sockets'[c] = sockets[c]
      BY <1>0, <1>8, <2>0 DEF StopBegins, StopReleases, Drains, Dies, Forgets, TypeOK
    <2>2. ClaimsOwn' /\ ~Undisturbed'
      BY <2>1 DEF PointerInv, ClaimsOwn, Undisturbed
    <2>3. QED
      BY <2>2 DEF PointerInv, Pointed
  <1>9. CASE ForeignLeaves \/ UNCHANGED vars
    BY <1>9, BindsKeepPointer DEF ForeignLeaves, vars, Undisturbed
  <1>10. QED
    BY <1>1, <1>2, <1>3, <1>4, <1>5, <1>6, <1>7, <1>8, <1>9, <1>11
    DEF Next, CoreSteps

(* However cores start, race for the ports, probe each other and move to   *)
(* the canonical port: as long as none stops or dies and no core run with  *)
(* --mcp moves, the file names a core that listens when the claims are     *)
(* over and a core that claims runs (claimPortFile, tryReclaim).           *)
THEOREM StartsEndPointed == Spec => []StartsLeaveLivePointer
  <1>1. Init => PointerInv
    BY CoreAssumption
    DEF Init, PointerInv, ClaimsOwn, Pointed, Runs, NoProbe
  <1>2. IInv /\ PointerInv /\ [Next]_vars => PointerInv'
    BY PointerStep
  <1>3. IInv /\ PointerInv => StartsLeaveLivePointer
    <2> SUFFICES ASSUME IInv, PointerInv, Settled, Runs
                 PROVE  file # 0 /\ Listening(file)
      BY DEF StartsLeaveLivePointer, Runs
    <2>1. Undisturbed /\ file # 0
      BY DEF Settled, Undisturbed, PointerInv, Pointed, Runs
    <2>2. \A c \in Core : ~Repairs(c)
      BY <2>1 DEF Settled, Repairs, NoProbe
    <2>3. QED
      BY <2>1, <2>2 DEF PointerInv, Pointed, LivePointer
  <1>4. QED
    BY <1>1, <1>2, <1>3, InductiveInvariant, PTL DEF Spec

=============================================================================
