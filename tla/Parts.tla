-------------------------------- MODULE Parts --------------------------------
(***************************************************************************)
(* One instance of each part of the core and of the panel that keeps a     *)
(* record of its own: logs, versions, agents, the retention sweep, the     *)
(* tray, deliveries and the research index; the activity feed of a         *)
(* session, the detail pane, and the list of pending changes.              *)
(***************************************************************************)
EXTENDS Integers

(* The constants of the parts, under their names there where no two parts  *)
(* give one a meaning of its own.                                          *)
CONSTANTS
  Nil,           \* no session, no agent, no key, no id
  Firing, KindOf, MaxInMemory, MaxFileLines, MaxLogFiles, MaxKeys,
  MaxEntries, MaxSweeps,                                    \* LogStore
  Content, EmptyContent, NoContent, MaxVersions,
  MaxNumber, MaxEdits,                                      \* VersionHistory
  Spawn, Agent, NameOf, NamesIn, TurnOf, MaxAgents,
  MaxEvents, MaxLate,                                       \* AgentTracker
  Swept, MaxAge, MaxDay, MaxActs,                           \* Retention
  TrayItem, MaxOps,                                         \* ContextTray
  Session, MaxPayloads, MaxHooks, MaxTime,                  \* ContextDelivery
  Doc, Term, TermsOf, MaxItems, MaxRuns,                    \* ResearchIndex
  Call, Prompt, Anonymous, Window, MaxFlying, MaxFeedTime,
  MaxAsked,                                                 \* ActivityFeed
  Logged, Delivered, MaxClicks, MaxRefusals,                \* SessionPane
  ListChange, MaxOpens, MaxExits,                           \* PanelLink
  MaxRestarts, MaxCrashes

(* What stands for nothing is no record and no summary of a session, no    *)
(* change's id, no delivery key and no content; the retention window is a  *)
(* number of days; and limits are numbers, of which those of the logs in   *)
(* memory and of the versions leave room for one (maxLogsInMemory 0 trims  *)
(* nothing, and maxVersionsPerFile 0 is 50), and that of the log files for *)
(* one that is rotated (the core keeps 10; with 1, rotateLog would unlink  *)
(* the live file itself).                                                  *)
ASSUME NilAssumption ==
  /\ Nil \notin [first : Int, last : Int, acts : Nat] \cup [acts : Nat, prompts : Nat]
  /\ Nil \notin ListChange
  /\ Nil \notin Firing \cup {"session"}
  /\ NoContent \notin Content
ASSUME WindowAssumption == MaxAge \in Int
ASSUME LimitAssumption ==
  /\ MaxInMemory \in Nat \ {0} /\ MaxKeys \in Nat \ {0}
  /\ MaxLogFiles \in Nat \ {0, 1} /\ MaxVersions \in Nat \ {0}

(* The bounds of an instance are numbers, and a session has room for an    *)
(* event; MaxItems is the research index's own limit, and its documents    *)
(* are numbered by their age.                                              *)
ASSUME BoundAssumption ==
  /\ MaxEntries \in Nat /\ MaxNumber \in Nat /\ MaxEdits \in Nat
  /\ MaxRestarts \in Nat /\ MaxDay \in Nat /\ MaxActs \in Nat \ {0}
  /\ MaxOps \in Nat /\ MaxTime \in Nat /\ MaxItems \in Nat /\ Doc \subseteq Nat
  /\ MaxAsked \in Nat /\ MaxClicks \in Nat /\ MaxRefusals \in Nat
  /\ MaxOpens \in Nat /\ MaxExits \in Nat

(* The tracker names its spawn calls spawn-1, spawn-2, ..., which are no   *)
(* agent's ids, and it has room for a record (MAX_AGENTS is 2,000).        *)
ASSUME AgentAssumption ==
  /\ Nil \notin Spawn \cup Agent /\ Spawn \cap Agent = {}
  /\ MaxAgents \in Nat \ {0}

(* sessions.getActivity takes a limit of at least one, and instants are    *)
(* counted from one.                                                       *)
ASSUME FeedAssumption ==
  Window \in Nat \ {0} /\ MaxFeedTime \in Nat \ {0}

VARIABLES part, v1, v2, v3, v4, v5, v6, v7, v8, v9, v10, v11, v12, v13, v14,
  v15

Logs == INSTANCE LogStore WITH
  NoKey <- Nil, entryOf <- v9, logs <- v2, recentDeliveries <- v13,
  live <- v5, rotated <- v14, appends <- v7, sweep <- v6, delivered <- v3,
  sweeps <- v15, crashes <- v1, acked <- v4, discarded <- v8,
  lingering <- v12, exposed <- v10, forgotten <- v11

Versions == INSTANCE VersionHistory WITH
  Empty <- EmptyContent, history <- v7, era <- v5, stored <- v4, files <- v6, tasks <- v11,
  names <- v9, added <- v2, edits <- v3, restarts <- v1, reordered <- v10,
  mixed <- v8

Agents == INSTANCE AgentTracker WITH
  None <- Nil, tracker <- v4, log <- v2, parent <- v3, restarts <- v1

Sweep == INSTANCE Retention WITH
  Session <- Swept, None <- Nil, today <- v12, live <- v5, stored <- v4,
  logs <- v2, lines <- v8, archives <- v7, summaries <- v11, sweep <- v6,
  starting <- v10, crashes <- v1, pruned <- v9, overtaken <- v3

Tray == INSTANCE ContextTray WITH
  Item <- TrayItem, target <- v7, temp <- v8, inodes <- v4, ops <- v5, begun <- v2,
  crashes <- v1, expected <- v3, overlapped <- v6

Delivery == INSTANCE ContextDelivery WITH
  clock <- v1, slots <- v6, expires <- v4, hooks <- v5, begun <- v2,
  delivered <- v3

Research == INSTANCE ResearchIndex WITH
  items <- v6, postings <- v8, indexed <- v5, vectors <- v11, dirty <- v1,
  saves <- v10, file <- v4, embedding <- v2, logged <- v7, runs <- v9,
  overtaken <- v3

Feed == INSTANCE ActivityFeed WITH
  MaxTime <- MaxFeedTime, now <- v8, flying <- v6, logs <- v2, asked <- v3,
  answers <- v1, feed <- v4, since <- v5, fresh <- v7, requests <- v9

Pane == INSTANCE SessionPane WITH
  None <- Nil, selected <- v11, tab <- v13, feed <- v4, since <- v5,
  sessionLogs <- v12, injections <- v6, transcript <- v14, pane <- v8,
  resident <- v10, open <- v7, answers <- v1, clicks <- v2, refusals <- v9,
  overtaken <- v3, strayed <- v15

Link == INSTANCE PanelLink WITH
  Change <- ListChange, NoId <- Nil, pending <- v9, known <- v6, work <- v1, coreUp <- v2,
  pipe <- v10, panel <- v8, queue <- v12, fetch <- v5, posted <- v11, rows <- v13,
  opens <- v7, exits <- v4, told <- v14, crossed <- v3, missed <- v15

-----------------------------------------------------------------------------
(* The parts share nothing: a behaviour is one of one part, and the slots  *)
(* that the part does not use are empty.                                   *)
Init ==
  \/ part = "LogStore" /\ Logs!Init
  \/ part = "VersionHistory" /\ Versions!Init
     /\ v12 = <<>> /\ v13 = <<>> /\ v14 = <<>> /\ v15 = <<>>
  \/ part = "AgentTracker" /\ Agents!Init
     /\ v5 = <<>> /\ v6 = <<>> /\ v7 = <<>> /\ v8 = <<>> /\ v9 = <<>>
     /\ v10 = <<>> /\ v11 = <<>> /\ v12 = <<>> /\ v13 = <<>> /\ v14 = <<>>
     /\ v15 = <<>>
  \/ part = "Retention" /\ Sweep!Init
     /\ v13 = <<>> /\ v14 = <<>> /\ v15 = <<>>
  \/ part = "ContextTray" /\ Tray!Init
     /\ v9 = <<>> /\ v10 = <<>> /\ v11 = <<>> /\ v12 = <<>> /\ v13 = <<>>
     /\ v14 = <<>> /\ v15 = <<>>
  \/ part = "ContextDelivery" /\ Delivery!Init
     /\ v7 = <<>> /\ v8 = <<>> /\ v9 = <<>> /\ v10 = <<>> /\ v11 = <<>>
     /\ v12 = <<>> /\ v13 = <<>> /\ v14 = <<>> /\ v15 = <<>>
  \/ part = "ResearchIndex" /\ Research!Init
     /\ v12 = <<>> /\ v13 = <<>> /\ v14 = <<>> /\ v15 = <<>>
  \/ part = "ActivityFeed" /\ Feed!Init
     /\ v10 = <<>> /\ v11 = <<>> /\ v12 = <<>> /\ v13 = <<>> /\ v14 = <<>>
     /\ v15 = <<>>
  \/ part = "SessionPane" /\ Pane!Init
  \/ part = "PanelLink" /\ Link!Init

Next ==
  /\ UNCHANGED part
  /\ \/ part = "LogStore" /\ Logs!Next
     \/ part = "VersionHistory" /\ Versions!Next
        /\ UNCHANGED <<v12, v13, v14, v15>>
     \/ part = "AgentTracker" /\ Agents!Next
        /\ UNCHANGED <<v5, v6, v7, v8, v9, v10, v11, v12, v13, v14, v15>>
     \/ part = "Retention" /\ Sweep!Next
        /\ UNCHANGED <<v13, v14, v15>>
     \/ part = "ContextTray" /\ Tray!Next
        /\ UNCHANGED <<v9, v10, v11, v12, v13, v14, v15>>
     \/ part = "ContextDelivery" /\ Delivery!Next
        /\ UNCHANGED <<v7, v8, v9, v10, v11, v12, v13, v14, v15>>
     \/ part = "ResearchIndex" /\ Research!Next
        /\ UNCHANGED <<v12, v13, v14, v15>>
     \/ part = "ActivityFeed" /\ Feed!Next
        /\ UNCHANGED <<v10, v11, v12, v13, v14, v15>>
     \/ part = "SessionPane" /\ Pane!Next
     \/ part = "PanelLink" /\ Link!Next

vars == <<part, v1, v2, v3, v4, v5, v6, v7, v8, v9, v10, v11, v12, v13, v14,
         v15>>

Spec == Init /\ [][Next]_vars

-----------------------------------------------------------------------------
(* Each part's type invariant, as its module states it.                    *)
TypeOK ==
  /\ part = "LogStore" => Logs!TypeOK
  /\ part = "VersionHistory" => Versions!TypeOK
  /\ part = "AgentTracker" => Agents!TypeOK
  /\ part = "Retention" => Sweep!TypeOK
  /\ part = "ContextTray" => Tray!TypeOK
  /\ part = "ContextDelivery" => Delivery!TypeOK
  /\ part = "ResearchIndex" => Research!TypeOK
  /\ part = "ActivityFeed" => Feed!TypeOK
  /\ part = "SessionPane" => Pane!TypeOK
  /\ part = "PanelLink" => Link!TypeOK

(* An entry that was appended stays on disk until it may go.               *)
NothingStoredLost == part = "LogStore" => Logs!NothingStoredLost

(* What was cleared does not come back into memory.                        *)
ClearedStaysCleared == part = "LogStore" => Logs!ClearedStaysCleared

(* One firing of a hook, one record.                                       *)
OnePerFiring == part = "LogStore" => Logs!OnePerFiring

(* A version number names one content.                                     *)
NumberNamesOneContent ==
  part = "VersionHistory" => Versions!NumberNamesOneContent

(* The history on disk is the one in memory, and readable.                 *)
HistoryKept == part = "VersionHistory" => Versions!HistoryKept

(* Agents, links and records agree.                                        *)
LinkedOneToOne == part = "AgentTracker" => Agents!LinkedOneToOne

(* What comes after an agent's stop does not revive it.                    *)
StopEnds == part = "AgentTracker" => Agents!StopEnds

(* Every record of a page hangs from one of its roots.                     *)
NobodyDisappears == part = "AgentTracker" => Agents!NobodyDisappears

(* What a sweep deletes is in the session's summary.                       *)
PrunedIsPreserved == part = "Retention" => Sweep!PrunedIsPreserved

(* A sweep deletes no session active within the window.                    *)
ActiveSessionsStay ==
  [][part = "Retention" => Sweep!SparesActive]_vars

(* One request at a time leaves the tray as if uninterrupted.              *)
TrayIsSerial == part = "ContextTray" => Tray!TrayIsSerial

(* A payload that was printed is not read again.                           *)
SpentStaysSpent == part = "ContextDelivery" => Delivery!SpentStaysSpent

(* The postings are those of the items.                                    *)
IndexAgrees == part = "ResearchIndex" => Research!IndexAgrees

(* An index with nothing to save is the one on disk.                       *)
CleanIsSaved == part = "ResearchIndex" => Research!CleanIsSaved

(* Increments leave what a full answer would.                              *)
FeedAgrees == part = "ActivityFeed" => Feed!FeedAgrees

(* What is drawn is of the session that is selected.                       *)
ShownIsSelected == part = "SessionPane" => Pane!ShownIsSelected

(* The list the webview settles on is the core's.                          *)
ListAgrees == part = "PanelLink" => Link!ListAgrees

=============================================================================
