------------------------- MODULE FileChangesProofs -------------------------
(***************************************************************************)
(* Theorems about FileChanges, for every set of regions, changes and       *)
(* handlers, and for any number of edits, requests and faults.  The types, *)
(* NothingLost and RevertedMeansRewritten follow from IInv, which says of  *)
(* every handler under way what its next step relies on; SettledAgree from *)
(* Agreement, which says how far it has come with its change; NewestIsFile *)
(* and NoPhantomChange from Accounted, which sets changes against edits.   *)
(***************************************************************************)
EXTENDS FileChanges, FiniteSetTheorems, TLAPS

Record == Doc \cup {None}
Handler == [kind : Kind, step : Step, id : Change \cup {NoChange}, doc : Record,
            content : Content, region : SUBSET Region]

(* What handler h relies on: a change to work on, a document to write, and *)
(* an archive that is stored, or a deletion asked for, before the pending  *)
(* record goes.                                                            *)
Relies(h) ==
  /\ h.step \notin {"idle", "read"} => h.id \in used
  /\ h.step \in {"write", "version"} =>
       h.kind \in {"track", "revert", "hunk", "restore"}
  /\ h.step = "check" => obj[h.id] # None
  /\ h.step \in {"write", "version"} => h.kind = "restore" \/ obj[h.id] # None
  /\ h.step \in {"save", "archive"} => h.doc # None
  /\ h.step = "unlink" => h.id \in discarded \/ disk.archives[h.id] # None
  /\ h.step = "version" /\ h.kind \in {"revert", "hunk"} => h.id \in rewritten
  /\ h.step = "archive" /\ h.doc.status = "reverted" => h.id \in rewritten

Relied == \A t \in Task : Relies(op[t])

(* What is known of the records and of the bounded counters.               *)
Known ==
  /\ disk \in [changes : [Change -> Record], archives : [Change -> Record],
               newest : SUBSET Content]
  /\ stored \subseteq used
  /\ \A id \in changes : obj[id] # None
  /\ \A id \in Change : disk.changes[id] # None => id \in used
  /\ \A id \in Change :
       archived[id] # None \/ disk.archives[id] # None => id \in used

Counted ==
  /\ editing \in BOOLEAN
  /\ wire \in [{"capture", "track"} -> 0 .. MaxInputs + MaxRepeats + 1]
  /\ repeats \in 0 .. MaxRepeats /\ faults \in 0 .. MaxFaults
  /\ edits \in Nat /\ requests \in Nat /\ edits + requests <= MaxInputs
  /\ wire.capture <= edits + repeats + (IF editing THEN 1 ELSE 0)
  /\ wire.track <= edits + repeats

IInv == TypeOK /\ Relied /\ Known /\ Counted /\ NothingLost /\ RevertedMeansRewritten

-----------------------------------------------------------------------------
(* A step of handler t that keeps the records in memory in order.          *)
Moves(t) ==
  /\ \E h \in Handler : op' = [op EXCEPT ![t] = h] /\ Relies(h)'
  /\ obj' \in [Change -> Record]
  /\ archived' \in [Change -> Record]
  /\ changes' \subseteq used'
  /\ \A id \in changes' : obj'[id] # None
  /\ \A id \in Change : obj[id] # None => obj'[id] # None
  /\ \A id \in Change : archived'[id] # None => id \in used'
  /\ \A id \in Change : archived'[id].status = "reverted" => id \in rewritten'

(* What no step but a restart takes back.                                  *)
Grows ==
  /\ used \subseteq used' /\ used' \subseteq Change
  /\ discarded \subseteq discarded'
  /\ rewritten \subseteq rewritten'
  /\ \A id \in Change : disk.archives[id] # None => disk'.archives[id] # None

LEMMA RecordFacts ==
  /\ None \notin Doc
  /\ None.status # "reverted"
  /\ Idle \in Handler
  /\ \A s \in Step, c \in Content :
       [Idle EXCEPT !.step = s, !.content = c] \in Handler
  /\ \A s \in Step, id \in Change : [Idle EXCEPT !.step = s, !.id = id] \in Handler
  /\ \A s \in Step, id \in Change, d \in Record, k \in Kind :
       /\ [Idle EXCEPT !.step = s, !.id = id, !.doc = d] \in Handler
       /\ [Idle EXCEPT !.step = s, !.id = id, !.kind = k] \in Handler
  /\ \A s \in Step, id \in Change, k \in Kind, c \in Content :
       [Idle EXCEPT !.kind = k, !.step = s, !.id = id, !.content = c] \in Handler
  /\ \A s \in Step, id \in Change, d \in Record, r \in SUBSET Region :
       [Idle EXCEPT !.step = s, !.id = id, !.doc = d, !.region = r] \in Handler
<1>1. None \notin Doc /\ None.status # "reverted" /\ None \in Record
  BY DEF Doc, None, Status, Record
<1>2. Idle \in Handler
  BY <1>1 DEF Idle, Handler, Kind, Step, Content
<1>. QED BY <1>1, <1>2 DEF Idle, Handler

LEMMA MovesKeepReliance ==
  ASSUME TypeOK, Relied, Grows, NEW t \in Task, Moves(t)
  PROVE  op' \in [Task -> Handler] /\ Relied'
<1>1. PICK h \in Handler : op' = [op EXCEPT ![t] = h] /\ Relies(h)'
  BY DEF Moves
<1>2. op \in [Task -> Handler]
  BY DEF TypeOK, Handler, Record
<1>3. op' \in [Task -> Handler]
  BY <1>1, <1>2
<1>4. ASSUME NEW u \in Task, u # t  PROVE Relies(op[u])'
  <2>1. op'[u] = op[u] /\ op[u] \in Handler /\ Relies(op[u])
    BY <1>1, <1>2, <1>4 DEF Relied
  <2>2. used \subseteq Change
    BY DEF TypeOK
  <2>. QED BY <2>1, <2>2 DEF Relies, Grows, Moves
<1>5. Relies(op[t])'
  BY <1>1, <1>2 DEF Relies
<1>. QED BY <1>3, <1>4, <1>5 DEF Relied

-----------------------------------------------------------------------------
(* How a handler goes on.                                                  *)
LEMMA EndsMoves ==
  ASSUME IInv, Grows, NEW t \in Task, Ends(t)
  PROVE  Moves(t)
BY RecordFacts DEF IInv, TypeOK, Known, Ends, Moves, Relies, Idle, Record, Grows,
   RevertedMeansRewritten

LEMMA SavesMoves ==
  ASSUME IInv, Grows, NEW t \in Task, NEW id \in used', NEW o \in Doc,
         Saves(t, id, o)
  PROVE  Moves(t)
<1> DEFINE h == [Idle EXCEPT !.step = "save", !.id = id, !.doc = o]
<1>1. o # None /\ o \in Record /\ id \in Change
  BY RecordFacts DEF Record, Grows
<1>2. h \in Handler /\ Relies(h)'
  BY <1>1, RecordFacts DEF Relies, Idle, Step, Kind
<1>3. op' = [op EXCEPT ![t] = h] /\ obj' = [obj EXCEPT ![id] = o]
      /\ changes' = changes /\ archived' = archived
  BY DEF Saves
<1>. QED
  BY <1>1, <1>2, <1>3 DEF IInv, TypeOK, Known, Moves, Record, Grows,
     RevertedMeansRewritten

LEMMA ResolvesMoves ==
  ASSUME IInv, Grows, NEW t \in Task, NEW id \in used', NEW o \in Doc,
         NEW resolution \in {"kept", "reverted"},
         resolution = "reverted" => id \in rewritten',
         Resolves(t, id, o, resolution)
  PROVE  Moves(t)
<1> DEFINE r == [o EXCEPT !.status = resolution]
           h == [Idle EXCEPT !.step = "archive", !.id = id, !.doc = r]
<1>1. r \in Doc /\ r.status = resolution
  BY DEF Doc, Status
<1>2. r # None /\ r \in Record /\ id \in Change
  BY <1>1, RecordFacts DEF Record, Grows
<1>3. h \in Handler /\ Relies(h)'
  BY <1>1, <1>2, RecordFacts DEF Relies, Idle, Step, Kind
<1>4. /\ op' = [op EXCEPT ![t] = h]
      /\ obj' = [obj EXCEPT ![id] = r]
      /\ archived' = [archived EXCEPT ![id] = r]
      /\ changes' = changes \ {id}
  BY DEF Resolves, ResolvesWith
<1>. QED
  BY <1>1, <1>2, <1>3, <1>4 DEF IInv, TypeOK, Known, Moves, Record, Grows,
     RevertedMeansRewritten

LEMMA FinishesHunkMoves ==
  ASSUME IInv, Grows, NEW t \in Task, NEW id \in used', NEW o \in Doc,
         NEW resolution \in {"kept", "reverted"},
         resolution = "reverted" => id \in rewritten',
         FinishesHunk(t, id, o, resolution)
  PROVE  Moves(t)
BY SavesMoves, ResolvesMoves DEF FinishesHunk

LEMMA ContinuesMoves ==
  ASSUME IInv, Grows, NEW t \in Task, NEW id \in used', NEW o \in Record,
         op[t].kind \in {"track", "revert", "hunk", "restore"},
         op[t].kind = "restore" \/ o # None,
         op[t].kind \in {"revert", "hunk"} => id \in rewritten',
         Continues(t, id, o)
  PROVE  Moves(t)
<1>1. CASE op[t].kind = "restore"
  BY <1>1, EndsMoves DEF Continues
<1>2. CASE op[t].kind # "restore"
  <2>1. o \in Doc
    BY <1>2 DEF Record
  <2>. QED BY <1>2, <2>1, SavesMoves, ResolvesMoves, FinishesHunkMoves DEF Continues
<1>. QED BY <1>1, <1>2

LEMMA AddsVersionMoves ==
  ASSUME IInv, Grows, NEW t \in Task, NEW id \in used', NEW o \in Record,
         NEW content \in Content,
         op[t].kind \in {"track", "revert", "hunk", "restore"},
         op[t].kind = "restore" => o = obj[id],
         op[t].kind = "restore" \/ o # None,
         op[t].kind \in {"revert", "hunk"} => id \in rewritten',
         AddsVersion(t, id, o, content)
  PROVE  Moves(t)
<1>1. CASE newest = {content}
  BY <1>1, ContinuesMoves DEF AddsVersion
<1>2. CASE newest # {content}
  <2> DEFINE h == [Idle EXCEPT !.step = "version", !.id = id, !.kind = op[t].kind]
  <2>1. /\ op' = [op EXCEPT ![t] = h]
        /\ obj' = [obj EXCEPT ![id] = o]
        /\ changes' = changes /\ archived' = archived
    BY <1>2 DEF AddsVersion
  <2>2. id \in Change /\ obj \in [Change -> Record]
    BY DEF Grows, IInv, TypeOK, Record
  <2>3. /\ h.step = "version" /\ h.id = id /\ h.kind = op[t].kind
        /\ h \in Handler
    BY <2>2, RecordFacts DEF Idle, Step, Kind
  <2>4. Relies(h)'
    BY <2>1, <2>2, <2>3 DEF Relies
  <2>5. \A c \in Change : obj[c] # None => obj'[c] # None
    BY <2>1, <2>2
  <2>. QED
    BY <2>1, <2>2, <2>3, <2>4, <2>5 DEF IInv, TypeOK, Known, Moves, Record, Grows,
       RevertedMeansRewritten
<1>. QED BY <1>1, <1>2

-----------------------------------------------------------------------------
(* What a step leaves on disk.                                             *)
Single == {{}} \cup {{c} : c \in Content}

Stores ==
  /\ disk' \in [changes : [Change -> Record], archives : [Change -> Record],
                newest : SUBSET Content]
  /\ disk'.newest \in Single
  /\ stored' \subseteq used'
  /\ \A id \in Change :
       disk'.changes[id] # None \/ disk'.archives[id] # None => id \in used'
  /\ \A id \in Change : disk'.archives[id].status = "reverted" => id \in rewritten'
  /\ NothingLost'

LEMMA NothingStored ==
  ASSUME IInv, Grows, UNCHANGED <<disk, stored>>
  PROVE  Stores
BY DEF IInv, TypeOK, Known, Grows, Stores, Single, Record, NothingLost,
   RevertedMeansRewritten

LEMMA StepKeeps ==
  ASSUME IInv, Grows, Stores, NEW t \in Task, Moves(t), Counted',
         file' \in Content, capture' \in Single, newest' \in Single
  PROVE  IInv'
<1>1. op' \in [Task -> Handler] /\ Relied'
  BY MovesKeepReliance DEF IInv
<1>2. TypeOK'
  <2>1. /\ op' \in [Task -> Handler]
        /\ obj' \in [Change -> Record] /\ archived' \in [Change -> Record]
        /\ disk'.changes \in [Change -> Record]
        /\ disk'.archives \in [Change -> Record]
        /\ changes' \subseteq used' /\ used' \subseteq Change
    BY <1>1 DEF Moves, Stores, Grows
  <2>2. edits' \in 0 .. MaxInputs /\ requests' \in 0 .. MaxInputs
    BY BoundAssumption DEF Counted
  <2>. QED
    BY <2>1, <2>2 DEF TypeOK, Counted, Stores, Single, Handler, Record
<1>3. Known'
  BY DEF Moves, Stores, Known
<1>4. RevertedMeansRewritten'
  BY DEF Moves, Stores, RevertedMeansRewritten
<1>. QED BY <1>1, <1>2, <1>3, <1>4 DEF IInv, Stores

LEMMA CountedStays ==
  ASSUME IInv, UNCHANGED <<agentVars, requests, faults>>
  PROVE  Counted'
BY DEF IInv, Counted, agentVars

-----------------------------------------------------------------------------
(* One lemma per group of steps.                                           *)
LEMMA AgentKeeps == ASSUME IInv, AgentSteps PROVE IInv'
<1> DEFINE counts == <<editing, wire, repeats, edits>>
<1>1. UNCHANGED <<newest, obj, changes, archived, op, disk, requests, faults,
                  pastVars>>
  BY DEF AgentSteps, ToolStarts, ToolEdits, CaptureArrives, memVars
<1>2. file' \in Content /\ capture' \in Single
  BY DEF AgentSteps, ToolStarts, ToolEdits, CaptureArrives, memVars, IInv, TypeOK,
     Single
<1>3. Counted'
  <2>1. CASE ToolStarts
    BY <1>1, <2>1, BoundAssumption DEF ToolStarts, Fires, IInv, Counted
  <2>2. ASSUME NEW content \in Content, ToolEdits(content)  PROVE Counted'
    <3>1. PICK n \in {1, 2} :
            /\ repeats' = repeats + n - 1 /\ repeats' <= MaxRepeats
            /\ wire' = [wire EXCEPT !.track = @ + n]
      BY <2>2 DEF ToolEdits, Fires
    <3>2. /\ editing /\ editing' = FALSE
          /\ edits' = edits + 1 /\ edits + requests < MaxInputs
          /\ requests' = requests /\ faults' = faults
      BY <2>2 DEF ToolEdits
    <3>3. wire'.capture = wire.capture /\ wire'.track = wire.track + n
      BY <3>1 DEF IInv, Counted
    <3>4. /\ wire.track + n \in 0 .. MaxInputs + MaxRepeats + 1
          /\ repeats' \in 0 .. MaxRepeats
          /\ wire.track + n <= edits' + repeats'
      BY <3>1, <3>2, BoundAssumption DEF IInv, Counted
    <3>5. wire' \in [{"capture", "track"} -> 0 .. MaxInputs + MaxRepeats + 1]
      BY <3>1, <3>4 DEF IInv, Counted
    <3>6. edits' \in Nat /\ requests' \in Nat /\ edits' + requests' <= MaxInputs
      BY <3>2, BoundAssumption DEF IInv, Counted
    <3>7. wire.capture <= edits + repeats + 1
      BY <3>2 DEF IInv, Counted
    <3>8. wire'.capture <= edits' + repeats' + 0
      BY <3>1, <3>2, <3>3, <3>7 DEF IInv, Counted
    <3>. QED
      BY <3>2, <3>3, <3>4, <3>5, <3>6, <3>8 DEF IInv, Counted
  <2>3. CASE CaptureArrives
    BY <1>1, <2>3, BoundAssumption DEF CaptureArrives, IInv, Counted
  <2>. QED BY <2>1, <2>2, <2>3 DEF AgentSteps
<1>4. Relied' /\ NothingLost' /\ RevertedMeansRewritten' /\ Known'
  BY <1>1 DEF IInv, Relied, Relies, NothingLost, RevertedMeansRewritten, Known,
     pastVars
<1>5. edits' \in 0 .. MaxInputs /\ requests' \in 0 .. MaxInputs
  BY <1>3, BoundAssumption DEF Counted
<1>6. TypeOK'
  BY <1>1, <1>2, <1>3, <1>5 DEF IInv, TypeOK, Counted, Single, pastVars
<1>. QED BY <1>3, <1>4, <1>6 DEF IInv

LEMMA RestartKeeps == ASSUME IInv, Restart PROVE IInv'
<1>1. /\ op' = [t \in Task |-> Idle] /\ capture' = {} /\ newest' = disk.newest
      /\ obj' = disk.changes /\ archived' = disk.archives
      /\ changes' = {id \in Change : disk.changes[id] # None}
      /\ faults' = faults + 1 /\ faults < MaxFaults
      /\ UNCHANGED <<file, agentVars, disk, requests, used, stored, discarded,
                     rewritten>>
  BY DEF Restart, Faulty
<1>2. Counted'
  BY <1>1, BoundAssumption DEF IInv, Counted, agentVars
<1>3. op' \in [Task -> Handler] /\ Relied'
  BY <1>1, RecordFacts DEF Relied, Relies, Idle
<1>4. Known' /\ NothingLost' /\ RevertedMeansRewritten'
  BY <1>1, RecordFacts DEF IInv, Known, NothingLost, RevertedMeansRewritten, Record
<1>5. TypeOK'
  <2>1. capture' \in Single /\ newest' \in Single /\ disk'.newest \in Single
    BY <1>1 DEF IInv, TypeOK, Single
  <2>2. /\ obj' \in [Change -> Record] /\ archived' \in [Change -> Record]
        /\ disk'.changes \in [Change -> Record]
        /\ disk'.archives \in [Change -> Record]
        /\ changes' \subseteq used' /\ used' \subseteq Change
    BY <1>1 DEF IInv, TypeOK, Known, Record
  <2>3. edits' \in 0 .. MaxInputs /\ requests' \in 0 .. MaxInputs
    BY <1>2, BoundAssumption DEF Counted
  <2>. QED
    BY <1>1, <1>2, <1>3, <2>1, <2>2, <2>3
    DEF IInv, TypeOK, Counted, Handler, Record, Single
<1>. QED BY <1>2, <1>3, <1>4, <1>5 DEF IInv

(* A delivery of the hook after the edit.                                  *)
LEMMA TrackArrivesKeeps ==
  ASSUME IInv, NEW t \in Task, TrackArrives(t)
  PROVE  IInv'
<1>1. UNCHANGED <<file, editing, repeats, edits, memVars, disk, requests, faults,
                  pastVars>>
  BY DEF TrackArrives
<1>2. Grows /\ Stores
  <2>1. Grows
    BY <1>1 DEF Grows, pastVars, IInv, TypeOK
  <2>. QED BY <1>1, <2>1, NothingStored DEF pastVars
<1>3. Counted'
  BY <1>1, BoundAssumption DEF TrackArrives, IInv, Counted
<1>4. \E h \in Handler : op' = [op EXCEPT ![t] = h] /\ h.step \in {"idle", "read"}
  <2>1. CASE Base = {}
    BY <2>1, RecordFacts DEF TrackArrives, IInv, TypeOK, Idle
  <2>2. CASE Base # {}
    <3> DEFINE h == [Idle EXCEPT !.step = "read",
                                 !.content = CHOOSE c \in Base : TRUE]
    <3>1. Base \subseteq Content
      BY DEF Base, IInv, TypeOK
    <3>2. (CHOOSE c \in Base : TRUE) \in Content
      BY <2>2, <3>1
    <3>3. h \in Handler /\ h.step = "read"
      BY <3>2, RecordFacts DEF Idle, Step
    <3>. QED BY <2>2, <3>3 DEF TrackArrives
  <2>. QED BY <2>1, <2>2
<1>5. Moves(t)
  BY <1>1, <1>4 DEF Moves, Relies, IInv, TypeOK, Known, Record, memVars, pastVars,
     RevertedMeansRewritten
<1>. QED
  BY <1>1, <1>2, <1>3, <1>5, StepKeeps DEF IInv, TypeOK, Single, memVars

LEMMA TrackReadsKeeps ==
  ASSUME IInv, NEW t \in Task, TrackReads(t)
  PROVE  IInv'
<1>1. UNCHANGED <<file, agentVars, disk, requests, faults, stored, discarded,
                  rewritten>>
  BY DEF TrackReads
<1>2. capture' \in Single
  BY DEF TrackReads, Single
<1>3. Counted'
  BY <1>1, CountedStays
<1>4. CASE op[t].content = file
  <2>1. Ends(t) /\ UNCHANGED <<newest, used>>
    BY <1>4 DEF TrackReads
  <2>2. Grows
    BY <1>1, <2>1 DEF Grows, IInv, TypeOK
  <2>. QED
    BY <1>1, <1>2, <1>3, <2>1, <2>2, EndsMoves, NothingStored, StepKeeps
    DEF IInv, TypeOK, Single
<1>5. CASE op[t].content # file
  <2> DEFINE o == [before |-> op[t].content, after |-> file, status |-> "pending"]
  <2>1. PICK id \in Change \ used :
          /\ used' = used \cup {id}
          /\ changes' = changes \cup {id}
          /\ obj' = [obj EXCEPT ![id] = o]
          /\ archived' = archived
          /\ newest' = {file}
          /\ op' = [op EXCEPT ![t] =
                      IF newest = {file}
                        THEN [Idle EXCEPT !.step = "save", !.id = id, !.doc = o]
                        ELSE [Idle EXCEPT !.step = "version", !.id = id]]
    BY <1>5 DEF TrackReads
  <2>2. o \in Doc /\ o # None /\ o \in Record
    <3>1. op[t].content \in Content /\ file \in Content
      BY DEF IInv, TypeOK
    <3>2. o \in Doc
      BY <3>1 DEF Doc, Status
    <3>. QED BY <3>2, RecordFacts DEF Record
  <2>3. Grows
    BY <1>1, <2>1 DEF Grows, IInv, TypeOK
  <2>4. \E h \in Handler : op' = [op EXCEPT ![t] = h] /\ Relies(h)'
    <3>1. CASE newest = {file}
      <4>1. PICK h \in Handler :
              /\ op' = [op EXCEPT ![t] = h]
              /\ h.step = "save" /\ h.id = id /\ h.doc # None
        BY <2>1, <2>2, <3>1, RecordFacts DEF Idle, Step, Kind
      <4>2. Relies(h)'
        BY <2>1, <4>1 DEF Relies
      <4>. QED BY <4>1, <4>2
    <3>2. CASE newest # {file}
      <4> DEFINE h == [Idle EXCEPT !.step = "version", !.id = id]
      <4>1. /\ h \in Handler /\ h.step = "version" /\ h.id = id
            /\ h.kind = "track"
        BY RecordFacts DEF Idle, Step, Kind, Record
      <4>2. obj'[id] # None
        BY <2>1, <2>2 DEF IInv, TypeOK, Record
      <4>3. Relies(h)'
        BY <2>1, <4>1, <4>2 DEF Relies
      <4>. QED BY <2>1, <3>2, <4>1, <4>3
    <3>. QED BY <3>1, <3>2
  <2>5. Moves(t)
    BY <1>1, <2>1, <2>2, <2>3, <2>4
    DEF Moves, IInv, TypeOK, Known, Record, RevertedMeansRewritten
  <2>. QED
    BY <1>1, <1>2, <1>3, <2>1, <2>3, <2>5, NothingStored, StepKeeps
    DEF IInv, TypeOK, Single
<1>. QED BY <1>4, <1>5

(* The user's requests.                                                    *)
LEMMA AskGrows ==
  ASSUME IInv, NEW t \in Task, NEW id \in Change, Asks(t, id),
         discarded \subseteq discarded'
  PROVE  Grows
BY DEF Asks, Grows, IInv, TypeOK

LEMMA AskKeeps ==
  ASSUME IInv, NEW t \in Task, NEW id \in Change, Asks(t, id),
         discarded \subseteq discarded', Moves(t)
  PROVE  IInv'
<1>1. Counted'
  BY BoundAssumption DEF Asks, IInv, Counted, agentVars
<1>2. file' \in Content /\ capture' \in Single /\ newest' \in Single
  BY DEF Asks, IInv, TypeOK, Single
<1>. QED
  BY <1>1, <1>2, AskGrows, NothingStored, StepKeeps DEF Asks

LEMMA AwaitMoves ==
  ASSUME IInv, Grows, NEW t \in Task,
         UNCHANGED <<obj, changes, archived>>,
         NEW h \in Handler, op' = [op EXCEPT ![t] = h], Relies(h)'
  PROVE  Moves(t)
BY DEF Moves, Grows, IInv, TypeOK, Known, Record, RevertedMeansRewritten

LEMMA RequestsKeep ==
  ASSUME IInv, NEW t \in Task, Requests(t)
  PROVE  IInv'
<1>0. /\ obj \in [Change -> Record]
      /\ used \subseteq Change /\ changes \subseteq used
      /\ archived \in [Change -> Record]
      /\ \A id \in changes : obj[id] \in Doc
  BY DEF IInv, TypeOK, Known, Record
<1>1. PICK id \in Change :
        \/ KeepChange(t, id) \/ RevertChange(t, id)
        \/ \E r \in Region : KeepHunk(t, id, r) \/ RevertHunk(t, id, r)
        \/ DeleteChange(t, id)
        \/ \E content \in Content : UpdateChangeContent(t, id, content)
        \/ RestoreFromArchive(t, id)
  BY DEF Requests
<1>2. Asks(t, id) /\ discarded \subseteq discarded'
  BY <1>1 DEF KeepChange, RevertChange, KeepHunk, RevertHunk, DeleteChange,
     UpdateChangeContent, RestoreFromArchive
<1>3. Grows /\ used' = used /\ disk' = disk
  BY <1>2, AskGrows DEF Asks
<1>4. CASE KeepChange(t, id)
  <2>1. Moves(t)
    BY <1>0, <1>3, <1>4, ResolvesMoves DEF KeepChange
  <2>. QED BY <1>2, <2>1, AskKeeps
<1>5. CASE RevertChange(t, id)
  <2>1. /\ id \in used /\ obj[id] \in Doc
        /\ op' = [op EXCEPT ![t] =
                    [Idle EXCEPT !.kind = "revert", !.step = "write", !.id = id,
                                 !.content = obj[id].before]]
        /\ UNCHANGED <<obj, changes, archived>>
    BY <1>0, <1>5 DEF RevertChange, Awaits
  <2>2. PICK h \in Handler :
          /\ op' = [op EXCEPT ![t] = h]
          /\ h.step = "write" /\ h.kind = "revert" /\ h.id = id
    <3> DEFINE g == [Idle EXCEPT !.kind = "revert", !.step = "write", !.id = id,
                                 !.content = obj[id].before]
    <3>1. obj[id].before \in Content /\ "revert" \in Kind /\ "write" \in Step
      BY <2>1 DEF Doc, Kind, Step
    <3>2. g \in Handler
      BY <3>1, RecordFacts
    <3>3. g.step = "write" /\ g.kind = "revert" /\ g.id = id
      BY DEF Idle
    <3>. QED BY <2>1, <3>2, <3>3
  <2>3. Relies(h)'
    BY <1>3, <2>1, <2>2, RecordFacts DEF Relies
  <2>. QED BY <1>2, <1>3, <2>1, <2>2, <2>3, AwaitMoves, AskKeeps
<1>6. ASSUME NEW r \in Region, KeepHunk(t, id, r)  PROVE IInv'
  <2> DEFINE o == [obj[id] EXCEPT !.before = Splice(@, {r}, obj[id].after)]
  <2>1. id \in used /\ obj[id] \in Doc /\ FinishesHunk(t, id, o, "kept")
    BY <1>0, <1>6 DEF KeepHunk
  <2>2. o \in Doc
    BY <2>1 DEF Doc, Content, Splice
  <2>3. Moves(t)
    BY <1>3, <2>1, <2>2, FinishesHunkMoves
  <2>. QED BY <1>2, <2>3, AskKeeps
<1>7. ASSUME NEW r \in Region, RevertHunk(t, id, r)  PROVE IInv'
  <2>1. /\ id \in used /\ obj[id] \in Doc
        /\ op' = [op EXCEPT ![t] =
                    [Idle EXCEPT !.step = "check", !.id = id, !.doc = obj[id],
                                 !.region = {r}]]
        /\ UNCHANGED <<obj, changes, archived>>
    BY <1>0, <1>7 DEF RevertHunk
  <2>2. PICK h \in Handler :
          op' = [op EXCEPT ![t] = h] /\ h.step = "check" /\ h.id = id
    <3> DEFINE g == [Idle EXCEPT !.step = "check", !.id = id, !.doc = obj[id],
                                 !.region = {r}]
    <3>1. obj[id] \in Record /\ {r} \in SUBSET Region /\ "check" \in Step
      BY <2>1 DEF Record, Step
    <3>2. g \in Handler
      BY <3>1, RecordFacts
    <3>3. g.step = "check" /\ g.id = id
      BY DEF Idle
    <3>. QED BY <2>1, <3>2, <3>3
  <2>3. Relies(h)'
    BY <1>3, <2>1, <2>2, RecordFacts DEF Relies
  <2>. QED BY <1>2, <1>3, <2>1, <2>2, <2>3, AwaitMoves, AskKeeps
<1>8. CASE DeleteChange(t, id)
  <2> DEFINE h == [Idle EXCEPT !.step = "unlink", !.id = id]
  <2>1. /\ op' = [op EXCEPT ![t] = h] /\ changes' = changes \ {id}
        /\ discarded' = discarded \cup {id} /\ id \in used
        /\ UNCHANGED <<obj, archived>>
    BY <1>0, <1>8 DEF DeleteChange
  <2>2. h \in Handler /\ h.step = "unlink" /\ h.id = id
    BY RecordFacts DEF Idle, Step
  <2>3. Relies(h)'
    BY <1>3, <2>1, <2>2 DEF Relies
  <2>4. Moves(t)
    BY <1>0, <1>3, <2>1, <2>2, <2>3
    DEF Moves, Grows, IInv, Known, RevertedMeansRewritten
  <2>. QED BY <1>2, <2>4, AskKeeps
<1>9. ASSUME NEW content \in Content, UpdateChangeContent(t, id, content)
      PROVE  IInv'
  <2> DEFINE o == [obj[id] EXCEPT !.after = content]
  <2>1. id \in used /\ obj[id] \in Doc /\ Saves(t, id, o)
    BY <1>0, <1>9 DEF UpdateChangeContent
  <2>2. o \in Doc
    BY <2>1 DEF Doc
  <2>3. Moves(t)
    BY <1>3, <2>1, <2>2, SavesMoves
  <2>. QED BY <1>2, <2>3, AskKeeps
<1>10. CASE RestoreFromArchive(t, id)
  <2>1. /\ archived[id] \in Doc /\ archived[id] # None
        /\ op' = [op EXCEPT ![t] =
                    [Idle EXCEPT !.kind = "restore", !.step = "write", !.id = id,
                                 !.content = archived[id].after]]
        /\ UNCHANGED <<obj, changes, archived>>
    BY <1>0, <1>10 DEF RestoreFromArchive, Awaits, Record
  <2>2. PICK h \in Handler :
          /\ op' = [op EXCEPT ![t] = h]
          /\ h.step = "write" /\ h.kind = "restore" /\ h.id = id
    <3> DEFINE g == [Idle EXCEPT !.kind = "restore", !.step = "write", !.id = id,
                                 !.content = archived[id].after]
    <3>1. archived[id].after \in Content /\ "restore" \in Kind /\ "write" \in Step
      BY <2>1 DEF Doc, Kind, Step
    <3>2. g \in Handler
      BY <3>1, RecordFacts
    <3>3. g.step = "write" /\ g.kind = "restore" /\ g.id = id
      BY DEF Idle
    <3>. QED BY <2>1, <3>2, <3>3
  <2>3. id \in used'
    BY <1>3, <2>1 DEF IInv, Known
  <2>4. Relies(h)'
    BY <2>2, <2>3 DEF Relies
  <2>. QED BY <1>2, <1>3, <2>1, <2>2, <2>4, AwaitMoves, AskKeeps
<1>. QED BY <1>1, <1>4, <1>5, <1>6, <1>7, <1>8, <1>9, <1>10

-----------------------------------------------------------------------------
(* File operations that take effect or fail.                               *)
LEMMA HandlerFacts ==
  ASSUME IInv, NEW t \in Task
  PROVE  /\ op[t] \in Handler /\ Relies(op[t])
         /\ obj \in [Change -> Record]
         /\ used \subseteq Change
BY DEF IInv, TypeOK, Relied, Handler, Record

LEMMA CheckReadsKeeps ==
  ASSUME IInv, NEW t \in Task, CheckReads(t)
  PROVE  IInv'
<1> DEFINE id == op[t].id
           o == obj[id]
<1>1. /\ op[t].step = "check"
      /\ UNCHANGED <<file, newest, disk, stored, rewritten>>
      /\ UNCHANGED <<agentVars, capture, requests, faults, used, discarded>>
      /\ UNCHANGED <<obj, changes, archived>>
  BY DEF CheckReads, Lands, Ends, Awaits
<1>2. Grows /\ Counted' /\ Stores
  <2>1. Grows
    BY <1>1 DEF Grows, IInv, TypeOK
  <2>. QED BY <1>1, <2>1, CountedStays, NothingStored
<1>3. file' \in Content /\ capture' \in Single /\ newest' \in Single
  BY <1>1 DEF IInv, TypeOK, Single
<1>4. id \in used /\ id \in Change /\ o # None
  BY <1>1, HandlerFacts DEF Relies
<1>5. CASE Ends(t)
  BY <1>2, <1>3, <1>5, EndsMoves, StepKeeps
<1>6. CASE ~ Ends(t)
  <2>1. PICK next \in IF op[t].doc.after = o.after
                        THEN {Splice(o.after, op[t].region, op[t].doc.before)}
                        ELSE Content :
          Awaits(t, "hunk", "write", id, next)
    BY <1>6 DEF CheckReads
  <2>2. next \in Content
    <3>1. o.after \in Content /\ op[t].doc.before \in Content
      BY <1>4, HandlerFacts DEF Handler, Record, Doc, None, Content
    <3>. QED BY <2>1, <3>1 DEF Splice, Content
  <2>3. PICK d \in Change : d = id
    BY <1>4
  <2> DEFINE g == [Idle EXCEPT !.kind = "hunk", !.step = "write", !.id = d,
                               !.content = next]
  <2>4. g \in Handler
    BY <2>2, RecordFacts DEF Kind, Step
  <2>5. g.step = "write" /\ g.kind = "hunk" /\ g.id = d
    BY DEF Idle
  <2>6. op' = [op EXCEPT ![t] = g]
    BY <2>1, <2>3 DEF Awaits
  <2>. HIDE DEF g
  <2>7. Relies(g)'
    BY <1>1, <1>4, <2>3, <2>5 DEF Relies, g
  <2>. QED BY <1>1, <1>2, <1>3, <2>4, <2>6, <2>7, AwaitMoves, StepKeeps
<1>. QED BY <1>5, <1>6

LEMMA WriteLandsKeeps ==
  ASSUME IInv, NEW t \in Task, WriteLands(t)
  PROVE  IInv'
<1> DEFINE id == op[t].id
           o == IF op[t].kind = "hunk" THEN [obj[id] EXCEPT !.after = op[t].content]
                                       ELSE obj[id]
           content == IF op[t].kind = "revert" THEN o.before ELSE op[t].content
<1>1. /\ op[t].step = "write"
      /\ UNCHANGED <<agentVars, capture, requests, faults, used, discarded>>
      /\ UNCHANGED <<disk, stored>>
      /\ file' = op[t].content
      /\ rewritten' = rewritten \cup {id}
      /\ AddsVersion(t, id, o, content)
  BY DEF WriteLands, Lands
<1>2. /\ id \in used' /\ id \in Change /\ id \in rewritten'
      /\ op[t].kind \in {"track", "revert", "hunk", "restore"}
      /\ op[t].kind = "restore" \/ obj[id] # None
  BY <1>1, HandlerFacts DEF Relies
<1>3. op[t].content \in Content /\ obj[id] \in Record
  BY <1>2, HandlerFacts DEF Handler
<1>4. /\ o \in Record /\ content \in Content
      /\ op[t].kind = "restore" => o = obj[id]
      /\ op[t].kind = "restore" \/ o # None
  <2>1. CASE op[t].kind = "restore"
    BY <1>3, <2>1
  <2>2. CASE op[t].kind # "restore"
    <3>1. obj[id] \in Doc
      BY <1>2, <1>3, <2>2 DEF Record
    <3>2. o \in Doc
      BY <1>3, <3>1 DEF Doc
    <3>3. content \in Content
      BY <1>3, <3>2 DEF Doc
    <3>. QED BY <2>2, <3>2, <3>3, RecordFacts DEF Record
  <2>. QED BY <2>1, <2>2
<1>5. Grows
  BY <1>1 DEF Grows, IInv, TypeOK
<1>6. Moves(t)
  <2>1. PICK d \in used' : d = id
    BY <1>2
  <2>2. PICK p \in Record : p = o
    BY <1>4
  <2>3. PICK c \in Content : c = content
    BY <1>4
  <2>4. AddsVersion(t, d, p, c)
    BY <1>1, <2>1, <2>2, <2>3
  <2>. HIDE DEF id, o, content
  <2>. QED BY <1>2, <1>4, <1>5, <2>1, <2>2, <2>3, <2>4, AddsVersionMoves DEF id
<1>7. newest' \in Single
  BY <1>1, <1>4 DEF AddsVersion, IInv, TypeOK, Single
<1>8. file' \in Content /\ capture' \in Single /\ Counted' /\ Stores
  BY <1>1, <1>3, <1>5, CountedStays, NothingStored DEF IInv, TypeOK, Single
<1>. QED BY <1>5, <1>6, <1>7, <1>8, StepKeeps

LEMMA VersionLandsKeeps ==
  ASSUME IInv, NEW t \in Task, VersionLands(t)
  PROVE  IInv'
<1> DEFINE id == op[t].id
<1>1. /\ op[t].step = "version"
      /\ UNCHANGED <<agentVars, capture, requests, faults, used, discarded>>
      /\ UNCHANGED <<file, newest, stored, rewritten>>
      /\ disk' = [disk EXCEPT !.newest = newest]
      /\ Continues(t, id, obj[id])
  BY DEF VersionLands, Lands
<1>2. /\ disk'.changes = disk.changes /\ disk'.archives = disk.archives
      /\ disk'.newest = newest /\ newest \in Single /\ newest \subseteq Content
      /\ disk' \in [changes : [Change -> Record], archives : [Change -> Record],
                    newest : SUBSET Content]
  BY <1>1 DEF IInv, TypeOK, Known, Single
<1>3. Grows
  BY <1>1, <1>2 DEF Grows, IInv, TypeOK
<1>4. Stores
  BY <1>1, <1>2 DEF Stores, IInv, Known, NothingLost, RevertedMeansRewritten
<1>5. Moves(t)
  <2>1. /\ id \in used' /\ id \in Change
        /\ op[t].kind \in {"track", "revert", "hunk", "restore"}
        /\ op[t].kind = "restore" \/ obj[id] # None
        /\ op[t].kind \in {"revert", "hunk"} => id \in rewritten'
    BY <1>1, HandlerFacts DEF Relies
  <2>2. PICK d \in used' : d = id
    BY <2>1
  <2>3. PICK p \in Record : p = obj[id]
    BY <2>1, HandlerFacts
  <2>. QED BY <1>1, <1>3, <2>1, <2>2, <2>3, ContinuesMoves
<1>6. file' \in Content /\ capture' \in Single /\ newest' \in Single /\ Counted'
  BY <1>1, CountedStays DEF IInv, TypeOK, Single
<1>. QED BY <1>3, <1>4, <1>5, <1>6, StepKeeps

LEMMA SaveLandsKeeps ==
  ASSUME IInv, NEW t \in Task, SaveLands(t)
  PROVE  IInv'
<1> DEFINE id == op[t].id
<1>1. /\ op[t].step = "save"
      /\ UNCHANGED <<agentVars, capture, requests, faults, used, discarded>>
      /\ UNCHANGED <<file, newest, rewritten>>
      /\ disk' = [disk EXCEPT !.changes[id] = op[t].doc]
      /\ stored' = stored \cup {id}
      /\ Ends(t)
  BY DEF SaveLands, Lands
<1>2. id \in used /\ id \in Change /\ op[t].doc \in Record /\ op[t].doc # None
  BY <1>1, HandlerFacts DEF Relies, Handler
<1>3. /\ disk'.changes = [disk.changes EXCEPT ![id] = op[t].doc]
      /\ disk'.archives = disk.archives /\ disk'.newest = disk.newest
      /\ disk' \in [changes : [Change -> Record], archives : [Change -> Record],
                    newest : SUBSET Content]
  BY <1>1, <1>2 DEF IInv, Known
<1>4. Grows
  BY <1>1, <1>3 DEF Grows, IInv, TypeOK
<1>5. Stores
  BY <1>1, <1>2, <1>3, HandlerFacts
  DEF Stores, IInv, Known, NothingLost, RevertedMeansRewritten, TypeOK, Single
<1>6. file' \in Content /\ capture' \in Single /\ newest' \in Single /\ Counted'
  BY <1>1, CountedStays DEF IInv, TypeOK, Single
<1>. QED BY <1>1, <1>4, <1>5, <1>6, EndsMoves, StepKeeps

LEMMA ArchiveLandsKeeps ==
  ASSUME IInv, NEW t \in Task, ArchiveLands(t)
  PROVE  IInv'
<1> DEFINE id == op[t].id
<1>1. /\ op[t].step = "archive"
      /\ UNCHANGED <<agentVars, capture, requests, faults, used, discarded>>
      /\ UNCHANGED <<file, newest, obj, changes, archived, rewritten>>
      /\ disk' = [disk EXCEPT !.archives[id] = op[t].doc]
      /\ stored' = stored \cup {id}
      /\ op' = [op EXCEPT ![t] = [Idle EXCEPT !.step = "unlink", !.id = id]]
  BY DEF ArchiveLands, Lands
<1>2. /\ id \in used /\ id \in Change /\ op[t].doc \in Record /\ op[t].doc # None
      /\ op[t].doc.status = "reverted" => id \in rewritten
  BY <1>1, HandlerFacts DEF Relies, Handler
<1>3. /\ disk'.archives = [disk.archives EXCEPT ![id] = op[t].doc]
      /\ disk'.changes = disk.changes /\ disk'.newest = disk.newest
      /\ disk' \in [changes : [Change -> Record], archives : [Change -> Record],
                    newest : SUBSET Content]
  BY <1>1, <1>2 DEF IInv, Known
<1>4. Grows
  BY <1>1, <1>2, <1>3 DEF Grows, IInv, TypeOK, Known
<1>5. Stores
  BY <1>1, <1>2, <1>3, HandlerFacts
  DEF Stores, IInv, Known, NothingLost, RevertedMeansRewritten, TypeOK, Single
<1>6. file' \in Content /\ capture' \in Single /\ newest' \in Single /\ Counted'
  BY <1>1, CountedStays DEF IInv, TypeOK, Single
<1>7. Moves(t)
  <2>1. PICK d \in Change : d = id
    BY <1>2
  <2> DEFINE h == [Idle EXCEPT !.step = "unlink", !.id = d]
  <2>2. h \in Handler /\ h.step = "unlink" /\ h.id = d
    BY RecordFacts DEF Idle, Step
  <2>3. disk'.archives[d] # None
    BY <1>2, <1>3, <2>1 DEF IInv, Known
  <2>4. Relies(h)'
    BY <1>1, <1>2, <2>1, <2>2, <2>3 DEF Relies
  <2>. QED BY <1>1, <1>4, <2>1, <2>2, <2>4, AwaitMoves
<1>. QED BY <1>4, <1>5, <1>6, <1>7, StepKeeps

LEMMA UnlinkLandsKeeps ==
  ASSUME IInv, NEW t \in Task, UnlinkLands(t)
  PROVE  IInv'
<1> DEFINE id == op[t].id
<1>1. /\ op[t].step = "unlink"
      /\ UNCHANGED <<agentVars, capture, requests, faults, used, discarded>>
      /\ UNCHANGED <<file, newest, stored, rewritten>>
      /\ disk' = [disk EXCEPT !.changes[id] = None]
      /\ Ends(t)
  BY DEF UnlinkLands, Lands
<1>2. id \in Change /\ (id \in discarded \/ disk.archives[id] # None)
  BY <1>1, HandlerFacts DEF Relies
<1>3. /\ disk'.changes = [disk.changes EXCEPT ![id] = None]
      /\ disk'.archives = disk.archives /\ disk'.newest = disk.newest
      /\ disk' \in [changes : [Change -> Record], archives : [Change -> Record],
                    newest : SUBSET Content]
  BY <1>1, <1>2 DEF IInv, Known, Record
<1>4. Grows
  BY <1>1, <1>3 DEF Grows, IInv, TypeOK
<1>5. Stores
  BY <1>1, <1>2, <1>3, HandlerFacts
  DEF Stores, IInv, Known, NothingLost, RevertedMeansRewritten, TypeOK, Single
<1>6. file' \in Content /\ capture' \in Single /\ newest' \in Single /\ Counted'
  BY <1>1, CountedStays DEF IInv, TypeOK, Single
<1>. QED BY <1>1, <1>4, <1>5, <1>6, EndsMoves, StepKeeps

LEMMA FailsKeeps ==
  ASSUME IInv, NEW t \in Task, Fails(t)
  PROVE  IInv'
<1> DEFINE id == op[t].id
<1>1. /\ op[t].step \notin {"idle", "read"}
      /\ faults < MaxFaults /\ faults' = faults + 1
      /\ UNCHANGED <<file, agentVars, disk, requests, used, stored, discarded,
                     rewritten>>
      /\ UNCHANGED <<capture, newest>>
      /\ Ends(t) \/ (op[t].step = "version" /\ Continues(t, id, obj[id]))
  BY DEF Fails, Faulty
<1>2. Grows
  BY <1>1 DEF Grows, IInv, TypeOK
<1>3. Stores
  BY <1>1, <1>2, NothingStored
<1>4. Counted'
  BY <1>1, BoundAssumption DEF IInv, Counted, agentVars
<1>5. Moves(t)
  <2>1. CASE Ends(t)
    BY <1>2, <2>1, EndsMoves
  <2>2. CASE op[t].step = "version" /\ Continues(t, id, obj[id])
    <3>1. /\ id \in used' /\ id \in Change
          /\ op[t].kind \in {"track", "revert", "hunk", "restore"}
          /\ op[t].kind = "restore" \/ obj[id] # None
          /\ op[t].kind \in {"revert", "hunk"} => id \in rewritten'
      BY <1>1, <2>2, HandlerFacts DEF Relies
    <3>2. PICK d \in used' : d = id
      BY <3>1
    <3>3. PICK p \in Record : p = obj[id]
      BY <3>1, HandlerFacts
    <3>. QED BY <1>2, <2>2, <3>1, <3>2, <3>3, ContinuesMoves
  <2>. QED BY <1>1, <2>1, <2>2
<1>6. file' \in Content /\ capture' \in Single /\ newest' \in Single
  BY <1>1 DEF IInv, TypeOK, Single
<1>. QED BY <1>2, <1>3, <1>4, <1>5, <1>6, StepKeeps

-----------------------------------------------------------------------------
LEMMA InitKeeps == Init => IInv
<1> SUFFICES ASSUME Init  PROVE IInv
  OBVIOUS
<1>1. /\ op = [t \in Task |-> Idle]
      /\ obj = [id \in Change |-> None] /\ archived = [id \in Change |-> None]
      /\ disk = [changes |-> [id \in Change |-> None],
                 archives |-> [id \in Change |-> None], newest |-> {}]
      /\ changes = {} /\ used = {} /\ stored = {}
      /\ file = {} /\ capture = {} /\ newest = {}
  BY DEF Init
<1>2. op \in [Task -> Handler] /\ Relied
  BY <1>1, RecordFacts DEF Relied, Relies, Idle
<1>3. Counted
  <2>1. /\ editing = FALSE /\ wire = [capture |-> 0, track |-> 0]
        /\ repeats = 0 /\ edits = 0 /\ requests = 0 /\ faults = 0
    BY DEF Init
  <2>2. wire \in [{"capture", "track"} -> 0 .. MaxInputs + MaxRepeats + 1]
    BY <2>1, BoundAssumption
  <2>3. wire.capture = 0 /\ wire.track = 0
    BY <2>1
  <2>4. wire.capture <= edits + repeats + (IF editing THEN 1 ELSE 0)
    BY <2>1, <2>3
  <2>5. 0 \in 0 .. MaxRepeats /\ 0 \in 0 .. MaxFaults /\ 0 <= MaxInputs
    BY BoundAssumption
  <2>6. editing \in BOOLEAN /\ edits \in Nat /\ requests \in Nat
    BY <2>1
  <2>7. edits + requests <= MaxInputs /\ wire.track <= edits + repeats
    BY <2>1, <2>3, <2>5
  <2>. QED BY <2>1, <2>2, <2>4, <2>5, <2>6, <2>7 DEF Counted
<1>4. Known /\ NothingLost /\ RevertedMeansRewritten
  BY <1>1, RecordFacts DEF Known, NothingLost, RevertedMeansRewritten, Record
<1>5. TypeOK
  <2>1. file \in Content /\ {capture, newest, disk.newest} \subseteq {{}}
    BY <1>1 DEF Content
  <2>2. edits \in 0 .. MaxInputs /\ requests \in 0 .. MaxInputs
    BY <1>3, BoundAssumption DEF Counted
  <2>. QED
    BY <1>1, <1>2, <1>3, <2>1, <2>2 DEF TypeOK, Counted, Handler, Record
<1>. QED BY <1>2, <1>3, <1>4, <1>5 DEF IInv

LEMMA NextKeeps == IInv /\ [Next]_vars => IInv'
<1> SUFFICES ASSUME IInv, [Next]_vars  PROVE IInv'
  OBVIOUS
<1>1. CASE AgentSteps
  BY <1>1, AgentKeeps
<1>2. CASE Restart
  BY <1>2, RestartKeeps
<1>3. ASSUME NEW t \in Task, Requests(t)  PROVE IInv'
  BY <1>3, RequestsKeep
<1>4. ASSUME NEW t \in Task, Handlers(t)  PROVE IInv'
  BY <1>4, TrackArrivesKeeps, TrackReadsKeeps, CheckReadsKeeps, WriteLandsKeeps,
     VersionLandsKeeps, SaveLandsKeeps, ArchiveLandsKeeps, UnlinkLandsKeeps,
     FailsKeeps DEF Handlers
<1>5. CASE UNCHANGED vars
  BY <1>5 DEF vars, agentVars, memVars, pastVars, IInv, TypeOK, Relied, Relies,
     Known, Counted, NothingLost, RevertedMeansRewritten
<1>. QED BY <1>1, <1>2, <1>3, <1>4, <1>5 DEF Next

(* What every handler relies on holds at every moment.                     *)
THEOREM InductiveInvariant == Spec => []IInv
BY InitKeeps, NextKeeps, PTL DEF Spec

(* Every variable of FileTracker keeps its type, and the map of changes    *)
(* holds only ids that were given to a change.                             *)
THEOREM TypeCorrect == Spec => []TypeOK
<1>1. IInv => TypeOK
  BY DEF IInv
<1>. QED BY <1>1, InductiveInvariant, PTL

(* archiveResolvedChange stores the archive before it unlinks the pending  *)
(* record: a change that was stored and not deleted is on disk at every    *)
(* moment.                                                                 *)
THEOREM NothingIsLost == Spec => []NothingLost
<1>1. IInv => NothingLost
  BY DEF IInv
<1>. QED BY <1>1, InductiveInvariant, PTL

(* revertChange and resolveHunk archive a change as reverted only after    *)
(* they wrote the file.                                                    *)
THEOREM RevertedIsRewritten == Spec => []RevertedMeansRewritten
<1>1. IInv => RevertedMeansRewritten
  BY DEF IInv
<1>. QED BY <1>1, InductiveInvariant, PTL

-----------------------------------------------------------------------------
(* Memory against disk.  A change nobody works on is settled; of one that  *)
(* a handler works on, the handler's step says how far it has come.        *)
Settled(id) ==
  /\ disk.changes[id] = IF id \in changes THEN obj[id] ELSE None
  /\ disk.archives[id] = archived[id]

Follows(h) ==
  /\ h.step \in {"check", "write"} => Settled(h.id)
  /\ h.step = "write" => h.kind # "track"
  /\ h.step = "write" /\ h.kind = "revert" => h.content = obj[h.id].before
  /\ h.step \in {"version", "save", "unlink"} => disk.archives[h.id] = archived[h.id]
  /\ h.step = "version" /\ h.kind = "track" => h.id \in changes
  /\ h.step = "version" /\ h.kind = "restore" => Settled(h.id)
  /\ h.step = "save" => h.id \in changes /\ h.doc = obj[h.id]
  /\ h.step = "archive" => h.doc = archived[h.id]
  /\ h.step \in {"archive", "unlink"} => h.id \notin changes

(* Outside torn, a change has one handler at a time.                       *)
Agreement ==
  /\ \A t \in Task : op[t].step \in {"idle", "read"} <=> op[t].id = NoChange
  /\ \A id \in Change \ torn :
       /\ \A t, u \in Task : op[t].id = id /\ op[u].id = id => t = u
       /\ (\A t \in Task : op[t].id # id) => Settled(id)
       /\ \A t \in Task : op[t].id = id => Follows(op[t])

(* A step of handler t touches no change but i, on which, torn apart, no   *)
(* other handler works.                                                    *)
Alone(t, i) ==
  /\ op[t].id \in {i, NoChange}
  /\ torn \subseteq torn'
  /\ i \notin torn' => \A u \in Task \ {t} : op[u].id # i
  /\ \A c \in Change \ {i} : /\ disk'.changes[c] = disk.changes[c]
                             /\ disk'.archives[c] = disk.archives[c]

(* Such a step, when what it leaves of i is what handler t then follows.   *)
Works(t, i) ==
  /\ Alone(t, i)
  /\ \E h \in Handler :
       /\ op' = [op EXCEPT ![t] = h]
       /\ h.id \in {i, NoChange}
       /\ h.step \in {"idle", "read"} <=> h.id = NoChange
       /\ i \notin torn' => IF h.id = i THEN Follows(h)' ELSE Settled(i)'
  /\ \A c \in Change \ {i} : /\ obj'[c] = obj[c] /\ archived'[c] = archived[c]
                             /\ c \in changes' <=> c \in changes

LEMMA WorksKeeps ==
  ASSUME IInv, Agreement, NEW t \in Task, NEW i \in Change, Works(t, i)
  PROVE  Agreement'
<1>0. op \in [Task -> Handler] /\ i # NoChange
  BY ChangeAssumption DEF IInv, TypeOK, Handler, Record
<1>1. PICK h \in Handler :
        /\ op' = [op EXCEPT ![t] = h]
        /\ h.id \in {i, NoChange}
        /\ h.step \in {"idle", "read"} <=> h.id = NoChange
        /\ i \notin torn' => IF h.id = i THEN Follows(h)' ELSE Settled(i)'
  BY DEF Works
<1>2. op'[t] = h /\ \A u \in Task \ {t} : op'[u] = op[u]
  BY <1>0, <1>1
<1>3. \A u \in Task : op'[u].step \in {"idle", "read"} <=> op'[u].id = NoChange
  BY <1>1, <1>2 DEF Agreement
<1>4. ASSUME i \notin torn'
      PROVE  /\ \A u, v \in Task : op'[u].id = i /\ op'[v].id = i => u = v
             /\ (\A u \in Task : op'[u].id # i) => Settled(i)'
             /\ \A u \in Task : op'[u].id = i => Follows(op[u])'
  BY <1>1, <1>2, <1>4 DEF Works, Alone
<1>5. ASSUME NEW c \in Change \ torn', c # i
      PROVE  /\ \A u, v \in Task : op'[u].id = c /\ op'[v].id = c => u = v
             /\ (\A u \in Task : op'[u].id # c) => Settled(c)'
             /\ \A u \in Task : op'[u].id = c => Follows(op[u])'
  <2>1. c \notin torn /\ c # NoChange /\ op[t].id # c /\ op'[t].id # c
    BY <1>1, <1>2, <1>5, ChangeAssumption DEF Works, Alone
  <2>2. /\ disk'.changes[c] = disk.changes[c] /\ disk'.archives[c] = disk.archives[c]
        /\ obj'[c] = obj[c] /\ archived'[c] = archived[c]
        /\ c \in changes' <=> c \in changes
    BY <1>5 DEF Works, Alone
  <2>3. Settled(c) => Settled(c)'
    BY <2>2 DEF Settled
  <2>4. ASSUME NEW u \in Task, op'[u].id = c  PROVE Follows(op[u])'
    <3>1. op'[u] = op[u] /\ op[u].id = c
      BY <1>2, <2>1, <2>4
    <3>2. Follows(op[u])
      BY <2>1, <3>1, <1>5 DEF Agreement
    <3>. QED BY <2>2, <2>3, <3>1, <3>2 DEF Follows
  <2>. QED BY <1>2, <1>5, <2>1, <2>3, <2>4 DEF Agreement
<1>6. ASSUME NEW c \in Change \ torn'
      PROVE  /\ \A u, v \in Task : op'[u].id = c /\ op'[v].id = c => u = v
             /\ (\A u \in Task : op'[u].id # c) => Settled(c)'
             /\ \A u \in Task : op'[u].id = c => Follows(op[u])'
  BY <1>4, <1>5
<1>. QED BY <1>3, <1>6 DEF Agreement

(* A step that leaves every record, and the change of every handler, alone. *)
LEMMA RestKeeps ==
  ASSUME Agreement, UNCHANGED <<obj, changes, archived, disk, torn>>,
         \A t \in Task : /\ \/ op'[t] = op[t]
                            \/ op[t].id = NoChange /\ op'[t].id = NoChange
                         /\ op'[t].step \in {"idle", "read"} <=> op'[t].id = NoChange
  PROVE  Agreement'
<1>1. \A t \in Task : op'[t].id = op[t].id
  OBVIOUS
<1>2. \A id \in Change : Settled(id)' <=> Settled(id)
  BY DEF Settled
<1>3. ASSUME NEW id \in Change \ torn', NEW t \in Task, op'[t].id = id
      PROVE  Follows(op[t])'
  <2>1. op'[t] = op[t] /\ Follows(op[t]) /\ op[t].id \in Change
    BY <1>1, <1>3, ChangeAssumption DEF Agreement
  <2>. QED BY <1>2, <2>1 DEF Follows
<1>. QED BY <1>1, <1>2, <1>3 DEF Agreement

-----------------------------------------------------------------------------
(* How a handler goes on.                                                  *)
LEMMA EndsWorks ==
  ASSUME IInv, NEW t \in Task, NEW i \in Change, Alone(t, i), Ends(t),
         i \notin torn' => Settled(i)'
  PROVE  Works(t, i)
BY RecordFacts, ChangeAssumption DEF Works, Ends, Idle

LEMMA SavesWorks ==
  ASSUME IInv, NEW t \in Task, NEW i \in Change, NEW o \in Record, Alone(t, i),
         Saves(t, i, o),
         i \notin torn' => i \in changes /\ disk'.archives[i] = archived[i]
  PROVE  Works(t, i)
<1> DEFINE h == [Idle EXCEPT !.step = "save", !.id = i, !.doc = o]
<1>1. /\ op' = [op EXCEPT ![t] = h] /\ obj' = [obj EXCEPT ![i] = o]
      /\ changes' = changes /\ archived' = archived
  BY DEF Saves
<1>2. h \in Handler /\ h.step = "save" /\ h.id = i /\ h.doc = o
  BY RecordFacts DEF Step, Kind, Idle
<1>3. obj'[i] = o /\ \A c \in Change \ {i} : obj'[c] = obj[c]
  BY <1>1 DEF IInv, TypeOK
<1>4. i \notin torn' => Follows(h)'
  BY <1>1, <1>2, <1>3 DEF Follows
<1>. HIDE DEF h
<1>. QED BY <1>1, <1>2, <1>3, <1>4, ChangeAssumption DEF Works

LEMMA ResolvesWorks ==
  ASSUME IInv, NEW t \in Task, NEW i \in Change, NEW o \in Doc, Alone(t, i),
         NEW resolution \in {"kept", "reverted"}, Resolves(t, i, o, resolution)
  PROVE  Works(t, i)
<1> DEFINE r == [o EXCEPT !.status = resolution]
           h == [Idle EXCEPT !.step = "archive", !.id = i, !.doc = r]
<1>1. /\ op' = [op EXCEPT ![t] = h] /\ obj' = [obj EXCEPT ![i] = r]
      /\ archived' = [archived EXCEPT ![i] = r] /\ changes' = changes \ {i}
  BY DEF Resolves, ResolvesWith
<1>2. r \in Record
  BY DEF Doc, Status, Record
<1>. HIDE DEF r
<1>3. h \in Handler /\ h.step = "archive" /\ h.id = i /\ h.doc = r
  BY <1>2, RecordFacts DEF Step, Kind, Idle
<1>4. /\ archived'[i] = r /\ i \notin changes'
      /\ \A c \in Change \ {i} : /\ obj'[c] = obj[c] /\ archived'[c] = archived[c]
                                 /\ c \in changes' <=> c \in changes
  BY <1>1 DEF IInv, TypeOK
<1>5. Follows(h)'
  BY <1>3, <1>4 DEF Follows
<1>. HIDE DEF h
<1>. QED BY <1>1, <1>3, <1>4, <1>5, ChangeAssumption DEF Works

LEMMA FinishesHunkWorks ==
  ASSUME IInv, NEW t \in Task, NEW i \in Change, NEW o \in Doc, Alone(t, i),
         NEW resolution \in {"kept", "reverted"}, FinishesHunk(t, i, o, resolution),
         i \notin torn' => disk'.archives[i] = archived[i]
  PROVE  Works(t, i)
BY SavesWorks, ResolvesWorks DEF FinishesHunk, Record

LEMMA ContinuesWorks ==
  ASSUME IInv, NEW t \in Task, NEW i \in Change, NEW o \in Record, Alone(t, i),
         op[t].kind \in {"track", "revert", "hunk", "restore"},
         op[t].kind = "restore" \/ o # None,
         Continues(t, i, o),
         i \notin torn' =>
           /\ disk'.archives[i] = archived[i]
           /\ op[t].kind = "track" => i \in changes
           /\ op[t].kind = "restore" =>
                disk'.changes[i] = IF i \in changes THEN obj[i] ELSE None
  PROVE  Works(t, i)
<1>1. CASE op[t].kind = "restore"
  <2>1. Ends(t)
    BY <1>1 DEF Continues
  <2>2. i \notin torn' => Settled(i)'
    BY <1>1, <2>1 DEF Ends, Settled
  <2>. QED BY <2>1, <2>2, EndsWorks
<1>2. CASE op[t].kind # "restore"
  <2>1. o \in Doc
    BY <1>2 DEF Record
  <2>. QED BY <1>2, <2>1, SavesWorks, ResolvesWorks, FinishesHunkWorks DEF Continues
<1>. QED BY <1>1, <1>2

LEMMA AwaitsWorks ==
  ASSUME IInv, NEW t \in Task, NEW i \in Change, Alone(t, i), disk' = disk,
         NEW kind \in Kind \ {"track"}, NEW content \in Content,
         Awaits(t, kind, "write", i, content),
         i \notin torn' => /\ Settled(i)
                           /\ kind = "revert" => content = obj[i].before
  PROVE  Works(t, i)
<1> DEFINE h == [Idle EXCEPT !.kind = kind, !.step = "write", !.id = i,
                             !.content = content]
<1>1. op' = [op EXCEPT ![t] = h] /\ UNCHANGED <<obj, changes, archived>>
  BY DEF Awaits
<1>2. /\ h \in Handler /\ h.step = "write" /\ h.id = i /\ h.kind = kind
      /\ h.content = content
  BY RecordFacts DEF Step, Idle
<1>3. i \notin torn' => Follows(h)'
  BY <1>1, <1>2 DEF Follows, Settled
<1>. HIDE DEF h
<1>. QED BY <1>1, <1>2, <1>3, ChangeAssumption DEF Works

LEMMA AddsVersionWorks ==
  ASSUME IInv, NEW t \in Task, NEW i \in Change, NEW o \in Record, Alone(t, i),
         NEW content, disk' = disk,
         op[t].kind \in {"track", "revert", "hunk", "restore"},
         op[t].kind = "restore" \/ o # None,
         op[t].kind = "restore" => o = obj[i],
         AddsVersion(t, i, o, content),
         i \notin torn' => Settled(i) /\ op[t].kind # "track"
  PROVE  Works(t, i)
<1>1. CASE newest = {content}
  BY <1>1, ContinuesWorks DEF AddsVersion, Settled
<1>2. CASE newest # {content}
  <2> DEFINE h == [Idle EXCEPT !.step = "version", !.id = i, !.kind = op[t].kind]
  <2>1. /\ op' = [op EXCEPT ![t] = h] /\ obj' = [obj EXCEPT ![i] = o]
        /\ changes' = changes /\ archived' = archived
    BY <1>2 DEF AddsVersion
  <2>2. h \in Handler /\ h.step = "version" /\ h.id = i /\ h.kind = op[t].kind
    BY RecordFacts DEF Step, Kind, Idle
  <2>3. obj'[i] = o /\ \A c \in Change \ {i} : obj'[c] = obj[c]
    BY <2>1 DEF IInv, TypeOK
  <2>4. PICK g \in Handler : g = h
    BY <2>2
  <2>. HIDE DEF h
  <2>5. i \notin torn' => Follows(g)'
    BY <2>1, <2>2, <2>3, <2>4 DEF Follows, Settled
  <2>6. g.id = i /\ (g.step \in {"idle", "read"} <=> g.id = NoChange)
    BY <2>2, <2>4, ChangeAssumption
  <2>. QED BY <2>1, <2>3, <2>4, <2>5, <2>6 DEF Works
<1>. QED BY <1>1, <1>2

-----------------------------------------------------------------------------
(* One lemma per group of steps.  A request finds its change settled.      *)
LEMMA AsksAlone ==
  ASSUME IInv, Agreement, NEW t \in Task, NEW i \in Change, Asks(t, i)
  PROVE  Alone(t, i) /\ disk' = disk /\ (i \notin torn' => Settled(i))
<1>1. /\ op[t].id = NoChange /\ disk' = disk /\ torn \subseteq torn'
      /\ Busy(i) => i \in torn'
  BY DEF Asks, Idle
<1>2. ASSUME i \notin torn'  PROVE \A u \in Task : op[u].id # i
  BY <1>1, <1>2, ChangeAssumption DEF Busy, Agreement
<1>. QED BY <1>1, <1>2 DEF Alone, Agreement

LEMMA RequestsAgree ==
  ASSUME IInv, Agreement, NEW t \in Task, Requests(t)
  PROVE  Agreement'
<1> SUFFICES ASSUME NEW i \in Change,
                    \/ KeepChange(t, i) \/ RevertChange(t, i)
                    \/ \E r \in Region : KeepHunk(t, i, r) \/ RevertHunk(t, i, r)
                    \/ DeleteChange(t, i)
                    \/ \E content \in Content : UpdateChangeContent(t, i, content)
                    \/ RestoreFromArchive(t, i)
             PROVE  Works(t, i)
  BY WorksKeeps DEF Requests
<1>1. Alone(t, i) /\ disk' = disk /\ (i \notin torn' => Settled(i))
  BY AsksAlone
  DEF KeepChange, RevertChange, KeepHunk, RevertHunk, DeleteChange,
      UpdateChangeContent, RestoreFromArchive
<1>2. /\ i \in changes => obj[i] \in Doc /\ obj[i].before \in Content
                         /\ obj[i].after \in Content
      /\ archived[i] # None => archived[i].after \in Content
  BY DEF IInv, TypeOK, Known, Doc
<1>3. CASE KeepChange(t, i)
  BY <1>1, <1>2, <1>3, ResolvesWorks DEF KeepChange
<1>4. CASE RevertChange(t, i)
  BY <1>1, <1>2, <1>4, AwaitsWorks DEF RevertChange, Kind
<1>5. ASSUME NEW r \in Region, KeepHunk(t, i, r)  PROVE Works(t, i)
  <2> DEFINE o == [obj[i] EXCEPT !.before = Splice(@, {r}, obj[i].after)]
  <2>1. i \in changes /\ FinishesHunk(t, i, o, "kept")
    BY <1>5 DEF KeepHunk
  <2>2. o \in Doc
    BY <1>2, <2>1 DEF Doc, Splice, Content
  <2>. HIDE DEF o
  <2>. QED BY <1>1, <2>1, <2>2, FinishesHunkWorks DEF Settled
<1>6. ASSUME NEW r \in Region, RevertHunk(t, i, r)  PROVE Works(t, i)
  <2> DEFINE h == [Idle EXCEPT !.step = "check", !.id = i, !.doc = obj[i],
                               !.region = {r}]
  <2>1. op' = [op EXCEPT ![t] = h] /\ UNCHANGED <<obj, changes, archived>>
    BY <1>6 DEF RevertHunk
  <2>2. obj[i] \in Record /\ {r} \in SUBSET Region
    BY HandlerFacts
  <2>3. h \in Handler /\ h.step = "check" /\ h.id = i
    BY <2>2, RecordFacts DEF Step, Idle
  <2>4. PICK g \in Handler : g = h
    BY <2>3
  <2>. HIDE DEF h
  <2>5. i \notin torn' => Follows(g)'
    BY <1>1, <2>1, <2>3, <2>4 DEF Follows, Settled
  <2>6. g.id = i /\ (g.step \in {"idle", "read"} <=> g.id = NoChange)
    BY <2>3, <2>4, ChangeAssumption
  <2>. QED BY <1>1, <2>1, <2>4, <2>5, <2>6 DEF Works
<1>7. CASE DeleteChange(t, i)
  <2> DEFINE h == [Idle EXCEPT !.step = "unlink", !.id = i]
  <2>1. /\ op' = [op EXCEPT ![t] = h] /\ UNCHANGED <<obj, archived>>
        /\ changes' = changes \ {i}
    BY <1>7 DEF DeleteChange
  <2>2. h \in Handler /\ h.step = "unlink" /\ h.id = i
    BY RecordFacts DEF Step, Idle
  <2>3. i \notin torn' => Follows(h)'
    BY <1>1, <2>1, <2>2 DEF Follows, Settled
  <2>. HIDE DEF h
  <2>. QED BY <1>1, <2>1, <2>2, <2>3, ChangeAssumption DEF Works
<1>8. ASSUME NEW content \in Content, UpdateChangeContent(t, i, content)
      PROVE  Works(t, i)
  <2> DEFINE o == [obj[i] EXCEPT !.after = content]
  <2>1. i \in changes /\ Saves(t, i, o)
    BY <1>8 DEF UpdateChangeContent
  <2>2. o \in Record
    BY <1>2, <2>1 DEF Doc, Record
  <2>. HIDE DEF o
  <2>. QED BY <1>1, <2>1, <2>2, SavesWorks DEF Settled
<1>9. CASE RestoreFromArchive(t, i)
  BY <1>1, <1>2, <1>9, AwaitsWorks DEF RestoreFromArchive, Kind
<1>. QED BY <1>3, <1>4, <1>5, <1>6, <1>7, <1>8, <1>9

(* A file operation of a handler follows what the handler had come to.     *)
LEMMA LandsAlone ==
  ASSUME IInv, Agreement, NEW t \in Task, op[t].step \notin {"idle", "read"},
         torn \subseteq torn',
         \A c \in Change \ {op[t].id} : /\ disk'.changes[c] = disk.changes[c]
                                        /\ disk'.archives[c] = disk.archives[c]
  PROVE  /\ op[t].id \in Change /\ Alone(t, op[t].id)
         /\ op[t].id \notin torn' => Follows(op[t])
<1>1. op[t].id \in Change
  BY HandlerFacts DEF Relies
<1>2. op[t].id \notin torn' => \A u \in Task \ {t} : op[u].id # op[t].id
  BY <1>1 DEF Agreement
<1>. QED BY <1>1, <1>2 DEF Alone, Agreement

LEMMA CheckReadsAgrees ==
  ASSUME IInv, Agreement, NEW t \in Task, CheckReads(t)
  PROVE  Agreement'
<1>1. op[t].step = "check" /\ UNCHANGED <<disk, torn>>
  BY DEF CheckReads, Lands
<1>2. PICK i \in Change : /\ i = op[t].id /\ Alone(t, i) /\ obj[i] # None
                          /\ i \notin torn' => Settled(i)
  BY <1>1, LandsAlone, HandlerFacts DEF Follows, Relies
<1>3. CASE Ends(t)
  <2>1. i \notin torn' => Settled(i)'
    BY <1>1, <1>2, <1>3 DEF Ends, Settled
  <2>. QED BY <1>2, <1>3, <2>1, EndsWorks, WorksKeeps
<1>4. CASE ~ Ends(t)
  <2>1. PICK next \in IF op[t].doc.after = obj[i].after
                        THEN {Splice(obj[i].after, op[t].region, op[t].doc.before)}
                        ELSE Content :
          Awaits(t, "hunk", "write", i, next)
    BY <1>2, <1>4 DEF CheckReads
  <2>2. next \in Content
    <3>1. obj[i].after \in Content /\ op[t].doc.before \in Content
      BY <1>2, HandlerFacts DEF Handler, Record, Doc, None, Content
    <3>. QED BY <2>1, <3>1 DEF Splice, Content
  <2>3. Works(t, i)
    BY <1>1, <1>2, <2>1, <2>2, AwaitsWorks DEF Kind
  <2>. QED BY <2>3, WorksKeeps
<1>. QED BY <1>3, <1>4

LEMMA WriteLandsAgrees ==
  ASSUME IInv, Agreement, NEW t \in Task, WriteLands(t)
  PROVE  Agreement'
<1>1. op[t].step = "write" /\ UNCHANGED <<disk, torn>>
  BY DEF WriteLands, Lands
<1>2. PICK i \in Change :
        /\ i = op[t].id /\ Alone(t, i)
        /\ i \notin torn' => Settled(i) /\ op[t].kind # "track"
  BY <1>1, LandsAlone DEF Follows
<1>3. /\ op[t].kind \in {"track", "revert", "hunk", "restore"}
      /\ op[t].kind = "restore" \/ obj[i] # None
      /\ obj[i] \in Record /\ op[t].content \in Content
  BY <1>1, <1>2, HandlerFacts DEF Relies, Handler
<1> DEFINE o == IF op[t].kind = "hunk" THEN [obj[i] EXCEPT !.after = op[t].content]
                                       ELSE obj[i]
           content == IF op[t].kind = "revert" THEN o.before ELSE op[t].content
<1>4. AddsVersion(t, i, o, content)
  BY <1>2 DEF WriteLands
<1>5. o \in Record /\ (op[t].kind = "restore" \/ o # None)
  <2>1. obj[i] \in Doc => [obj[i] EXCEPT !.after = op[t].content] \in Doc
    BY <1>3 DEF Doc
  <2>. QED BY <1>3, <2>1, RecordFacts DEF Record
<1>6. op[t].kind = "restore" => o = obj[i]
  OBVIOUS
<1>. HIDE DEF o, content
<1>7. PICK p \in Record : p = o
  BY <1>5
<1>8. PICK c : c = content
  OBVIOUS
<1>9. AddsVersion(t, i, p, c)
  BY <1>4, <1>7, <1>8
<1>10. Works(t, i)
  BY <1>1, <1>2, <1>3, <1>5, <1>6, <1>7, <1>9, AddsVersionWorks
<1>. QED BY <1>10, WorksKeeps

LEMMA VersionLandsAgrees ==
  ASSUME IInv, Agreement, NEW t \in Task, VersionLands(t)
  PROVE  Agreement'
<1>1. /\ op[t].step = "version" /\ torn' = torn
      /\ disk'.changes = disk.changes /\ disk'.archives = disk.archives
      /\ Continues(t, op[t].id, obj[op[t].id])
  BY DEF VersionLands, Lands, IInv, Known
<1>2. PICK i \in Change : /\ i = op[t].id /\ Alone(t, i)
                          /\ i \notin torn' => Follows(op[t])
  BY <1>1, LandsAlone
<1>3. /\ op[t].kind \in {"track", "revert", "hunk", "restore"}
      /\ op[t].kind = "restore" \/ obj[i] # None
  BY <1>1, <1>2, HandlerFacts DEF Relies
<1>4. PICK p \in Record : p = obj[i]
  BY HandlerFacts
<1>5. i \notin torn' =>
        /\ disk'.archives[i] = archived[i]
        /\ op[t].kind = "track" => i \in changes
        /\ op[t].kind = "restore" =>
             disk'.changes[i] = IF i \in changes THEN obj[i] ELSE None
  BY <1>1, <1>2 DEF Follows, Settled
<1>6. Works(t, i)
  BY <1>1, <1>2, <1>3, <1>4, <1>5, ContinuesWorks
<1>. QED BY <1>6, WorksKeeps

LEMMA SaveLandsAgrees ==
  ASSUME IInv, Agreement, NEW t \in Task, SaveLands(t)
  PROVE  Agreement'
<1>1. /\ op[t].step = "save" /\ torn' = torn /\ Ends(t)
      /\ disk' = [disk EXCEPT !.changes[op[t].id] = op[t].doc]
  BY DEF SaveLands, Lands
<1>2. /\ disk'.changes = [disk.changes EXCEPT ![op[t].id] = op[t].doc]
      /\ disk'.archives = disk.archives
      /\ disk.changes \in [Change -> Record]
  BY <1>1 DEF IInv, Known
<1>3. PICK i \in Change : /\ i = op[t].id /\ Alone(t, i)
                          /\ i \notin torn' => Follows(op[t])
  BY <1>1, <1>2, LandsAlone
<1>4. disk'.changes[i] = op[t].doc
  BY <1>2, <1>3
<1>5. i \notin torn' => Settled(i)'
  BY <1>1, <1>2, <1>3, <1>4 DEF Follows, Settled, Ends
<1>. QED BY <1>1, <1>3, <1>5, EndsWorks, WorksKeeps

LEMMA ArchiveLandsAgrees ==
  ASSUME IInv, Agreement, NEW t \in Task, ArchiveLands(t)
  PROVE  Agreement'
<1>1. /\ op[t].step = "archive" /\ torn' = torn
      /\ disk' = [disk EXCEPT !.archives[op[t].id] = op[t].doc]
      /\ op' = [op EXCEPT ![t] = [Idle EXCEPT !.step = "unlink", !.id = op[t].id]]
      /\ UNCHANGED <<obj, changes, archived>>
  BY DEF ArchiveLands, Lands
<1>2. /\ disk'.archives = [disk.archives EXCEPT ![op[t].id] = op[t].doc]
      /\ disk'.changes = disk.changes
      /\ disk.archives \in [Change -> Record]
  BY <1>1 DEF IInv, Known
<1>3. PICK i \in Change : /\ i = op[t].id /\ Alone(t, i)
                          /\ i \notin torn' => Follows(op[t])
  BY <1>1, <1>2, LandsAlone
<1> DEFINE h == [Idle EXCEPT !.step = "unlink", !.id = i]
<1>4. h \in Handler /\ h.step = "unlink" /\ h.id = i
  BY RecordFacts DEF Step, Idle
<1>5. disk'.archives[i] = op[t].doc
  BY <1>2, <1>3
<1>6. i \notin torn' => Follows(h)'
  BY <1>1, <1>3, <1>4, <1>5 DEF Follows
<1>7. h.step \in {"idle", "read"} <=> h.id = NoChange
  BY <1>4, ChangeAssumption
<1>8. op' = [op EXCEPT ![t] = h]
  BY <1>1, <1>3
<1>. HIDE DEF h
<1>9. Works(t, i)
  BY <1>1, <1>3, <1>4, <1>6, <1>7, <1>8 DEF Works
<1>. QED BY <1>9, WorksKeeps

LEMMA UnlinkLandsAgrees ==
  ASSUME IInv, Agreement, NEW t \in Task, UnlinkLands(t)
  PROVE  Agreement'
<1>1. /\ op[t].step = "unlink" /\ torn' = torn /\ Ends(t)
      /\ disk' = [disk EXCEPT !.changes[op[t].id] = None]
  BY DEF UnlinkLands, Lands
<1>2. /\ disk'.changes = [disk.changes EXCEPT ![op[t].id] = None]
      /\ disk'.archives = disk.archives
      /\ disk.changes \in [Change -> Record]
  BY <1>1 DEF IInv, Known
<1>3. PICK i \in Change : /\ i = op[t].id /\ Alone(t, i)
                          /\ i \notin torn' => Follows(op[t])
  BY <1>1, <1>2, LandsAlone
<1>4. disk'.changes[i] = None
  BY <1>2, <1>3
<1>5. i \notin torn' => Settled(i)'
  BY <1>1, <1>2, <1>3, <1>4 DEF Follows, Settled, Ends
<1>. QED BY <1>1, <1>3, <1>5, EndsWorks, WorksKeeps

(* A handler that fails tears its change.                                  *)
LEMMA FailsAgrees ==
  ASSUME IInv, Agreement, NEW t \in Task, Fails(t)
  PROVE  Agreement'
<1>1. /\ op[t].step \notin {"idle", "read"} /\ disk' = disk
      /\ torn' = torn \cup {op[t].id}
      /\ Ends(t) \/ (op[t].step = "version" /\ Continues(t, op[t].id, obj[op[t].id]))
  BY DEF Fails, Faulty
<1>2. PICK i \in Change : i = op[t].id /\ Alone(t, i) /\ i \in torn'
  BY <1>1, LandsAlone
<1>3. CASE Ends(t)
  BY <1>2, <1>3, EndsWorks, WorksKeeps
<1>4. CASE op[t].step = "version" /\ Continues(t, op[t].id, obj[op[t].id])
  <2>1. /\ op[t].kind \in {"track", "revert", "hunk", "restore"}
        /\ op[t].kind = "restore" \/ obj[i] # None
    BY <1>2, <1>4, HandlerFacts DEF Relies
  <2>2. PICK p \in Record : p = obj[i]
    BY HandlerFacts
  <2>. QED BY <1>2, <1>4, <2>1, <2>2, ContinuesWorks, WorksKeeps
<1>. QED BY <1>1, <1>3, <1>4

(* The delivery of an edit works on a change that nobody else has.         *)
LEMMA TrackArrivesAgrees ==
  ASSUME IInv, Agreement, NEW t \in Task, TrackArrives(t)
  PROVE  Agreement'
<1>1. /\ op[t].id = NoChange
      /\ UNCHANGED <<obj, changes, archived, disk, torn>>
  BY DEF TrackArrives, Idle, memVars, pastVars
<1>2. op \in [Task -> Handler]
  BY DEF IInv, TypeOK, Handler, Record
<1>3. CASE op' = op
  BY <1>1, <1>3, RestKeeps DEF Agreement
<1>4. CASE op' # op
  <2>1. PICK c : op' = [op EXCEPT ![t] = [Idle EXCEPT !.step = "read", !.content = c]]
    BY <1>4 DEF TrackArrives
  <2>2. /\ op'[t].step = "read" /\ op'[t].id = NoChange
        /\ \A u \in Task \ {t} : op'[u] = op[u]
    BY <1>2, <2>1 DEF Idle
  <2>. QED BY <1>1, <2>2, RestKeeps DEF Agreement
<1>. QED BY <1>3, <1>4

LEMMA TrackReadsAgrees ==
  ASSUME IInv, Agreement, NEW t \in Task, TrackReads(t)
  PROVE  Agreement'
<1>1. op[t].step = "read" /\ op[t].id = NoChange /\ UNCHANGED <<disk, torn>>
  BY DEF TrackReads, Reading, Agreement
<1>2. op \in [Task -> Handler] /\ file \in Content
  BY DEF IInv, TypeOK, Handler, Record
<1>3. CASE op[t].content = file
  <2>1. /\ op' = [op EXCEPT ![t] = Idle] /\ UNCHANGED <<obj, changes, archived>>
    BY <1>3 DEF TrackReads, Ends
  <2>2. /\ op'[t].step = "idle" /\ op'[t].id = NoChange
        /\ \A u \in Task \ {t} : op'[u] = op[u]
    BY <1>2, <2>1 DEF Idle
  <2>. QED BY <1>1, <2>1, <2>2, RestKeeps DEF Agreement
<1>4. CASE op[t].content # file
  <2> DEFINE o == [before |-> op[t].content, after |-> file, status |-> "pending"]
  <2>1. PICK i \in Change \ used :
          /\ changes' = changes \cup {i}
          /\ obj' = [obj EXCEPT ![i] = o]
          /\ archived' = archived
          /\ op' = [op EXCEPT ![t] =
                      IF newest = {file}
                        THEN [Idle EXCEPT !.step = "save", !.id = i, !.doc = o]
                        ELSE [Idle EXCEPT !.step = "version", !.id = i]]
    BY <1>4 DEF TrackReads
  <2>2. o \in Record
    BY <1>2 DEF Record, Doc, Status, Handler
  <2>. HIDE DEF o
  <2> DEFINE h == IF newest = {file}
                    THEN [Idle EXCEPT !.step = "save", !.id = i, !.doc = o]
                    ELSE [Idle EXCEPT !.step = "version", !.id = i]
  <2>3. /\ h \in Handler /\ h.id = i
        /\ \/ h.step = "save" /\ h.doc = o
           \/ h.step = "version" /\ h.kind = "track"
    BY <2>2, RecordFacts DEF Step, Kind, Idle
  <2>4. op' = [op EXCEPT ![t] = h]
    BY <2>1
  <2>5. disk.archives[i] = archived[i]
    BY <2>1 DEF IInv, Known
  <2>6. /\ obj'[i] = o /\ i \in changes' /\ archived'[i] = archived[i]
        /\ \A c \in Change \ {i} : /\ obj'[c] = obj[c] /\ archived'[c] = archived[c]
                                   /\ c \in changes' <=> c \in changes
    BY <2>1 DEF IInv, TypeOK
  <2>7. PICK g \in Handler : g = h
    BY <2>3
  <2>. HIDE DEF h
  <2>8. Follows(g)'
    BY <1>1, <2>3, <2>5, <2>6, <2>7 DEF Follows
  <2>9. g.step \in {"idle", "read"} <=> g.id = NoChange
    BY <2>3, <2>7, ChangeAssumption
  <2>10. \A u \in Task : op[u].id # i
    BY <2>1, HandlerFacts, ChangeAssumption DEF Agreement, Relies
  <2>11. Alone(t, i)
    BY <1>1, <2>10 DEF Alone
  <2>12. Works(t, i)
    BY <2>3, <2>4, <2>6, <2>7, <2>8, <2>9, <2>11 DEF Works
  <2>. QED BY <2>12, WorksKeeps
<1>. QED BY <1>3, <1>4

LEMMA InitAgrees == Init => Agreement
<1> SUFFICES ASSUME Init  PROVE Agreement
  OBVIOUS
<1>1. \A t \in Task : op[t].step = "idle" /\ op[t].id = NoChange
  BY DEF Init, Idle
<1>2. \A id \in Change : Settled(id) /\ id # NoChange
  BY ChangeAssumption DEF Init, Settled
<1>. QED BY <1>1, <1>2 DEF Agreement

LEMMA AgreementKept == IInv /\ Agreement /\ [Next]_vars => Agreement'
<1> SUFFICES ASSUME IInv, Agreement, [Next]_vars  PROVE Agreement'
  OBVIOUS
<1>1. CASE AgentSteps
  <2>1. UNCHANGED <<op, obj, changes, archived, disk, torn>>
    BY <1>1 DEF AgentSteps, ToolStarts, ToolEdits, CaptureArrives, memVars, pastVars
  <2>. QED BY <2>1, RestKeeps DEF Agreement
<1>2. CASE Restart
  BY <1>2, RecordFacts, ChangeAssumption
  DEF Restart, Faulty, Agreement, Settled, Idle, IInv, Known
<1>3. ASSUME NEW t \in Task, Requests(t)  PROVE Agreement'
  BY <1>3, RequestsAgree
<1>4. ASSUME NEW t \in Task, Handlers(t)  PROVE Agreement'
  BY <1>4, TrackArrivesAgrees, TrackReadsAgrees, CheckReadsAgrees, WriteLandsAgrees,
     VersionLandsAgrees, SaveLandsAgrees, ArchiveLandsAgrees, UnlinkLandsAgrees,
     FailsAgrees DEF Handlers
<1>5. CASE UNCHANGED vars
  <2>1. UNCHANGED <<op, obj, changes, archived, disk, torn>>
    BY <1>5 DEF vars, memVars, pastVars
  <2>. QED BY <2>1, RestKeeps DEF Agreement
<1>. QED BY <1>1, <1>2, <1>3, <1>4, <1>5 DEF Next

(* When no handler is under way, what FileTracker holds in memory and what *)
(* is in its files agree on every change whose handlers did not overlap    *)
(* and whose file operations did not fail, for every interleaving of the   *)
(* handlers of different changes.                                          *)
THEOREM MemoryMeetsDisk == Spec => []SettledAgree
<1>1. Init => Agreement
  BY InitAgrees
<1>2. IInv /\ Agreement /\ [Next]_vars => Agreement'
  BY AgreementKept
<1>3. Agreement => SettledAgree
  BY ChangeAssumption DEF Agreement, SettledAgree, Settled, Quiet
<1>. QED BY <1>1, <1>2, <1>3, InductiveInvariant, PTL DEF Spec

-----------------------------------------------------------------------------
(* Versions and changes against edits, as long as no handlers of one       *)
(* change overlapped, nothing failed or was killed, and no delivery was    *)
(* tracked from a stale content or capture.                                *)
Orderly == torn = {} /\ ~stale /\ ~crashed

(* The newest version is not what the file holds.                          *)
Behind == newest \notin {{}, {file}}

(* While it is not, the delivery of an edit is under way, and there is one *)
(* edit that no change was made of yet.                                    *)
Accounted ==
  /\ IsFiniteSet(used)
  /\ edits = 0 => wire.track = 0 /\ \A t \in Task : ~Reading(t)
  /\ Orderly => /\ Behind => wire.track > 0 \/ \E t \in Task : Reading(t)
                /\ newest = {} => used = {}
                /\ Cardinality(used) + (IF Behind THEN 1 ELSE 0) <= edits

(* A handler goes on, to anything but reading the file.                    *)
GoesOn(t) == \E h : op' = [op EXCEPT ![t] = h] /\ h.step # "read"

LEMMA HandlersGoOn ==
  ASSUME NEW t, NEW id, NEW o, NEW r, NEW content, NEW kind, NEW step, step # "read"
  PROVE  /\ Ends(t) => GoesOn(t)
         /\ Saves(t, id, o) => GoesOn(t)
         /\ Resolves(t, id, o, r) => GoesOn(t)
         /\ FinishesHunk(t, id, o, r) => GoesOn(t)
         /\ Awaits(t, kind, step, id, content) => GoesOn(t)
<1>1. /\ Idle.step # "read"
      /\ [Idle EXCEPT !.step = "save", !.id = id, !.doc = o].step # "read"
      /\ \A d : [Idle EXCEPT !.step = "archive", !.id = id, !.doc = d].step # "read"
      /\ [Idle EXCEPT !.kind = kind, !.step = step, !.id = id,
                      !.content = content].step # "read"
  BY DEF Idle
<1>2. Ends(t) => GoesOn(t)
  BY <1>1 DEF Ends, GoesOn
<1>3. Saves(t, id, o) => GoesOn(t)
  BY <1>1 DEF Saves, GoesOn
<1>4. Resolves(t, id, o, r) => GoesOn(t)
  BY <1>1 DEF Resolves, ResolvesWith, GoesOn
<1>5. Awaits(t, kind, step, id, content) => GoesOn(t)
  BY <1>1 DEF Awaits, GoesOn
<1>. QED BY <1>2, <1>3, <1>4, <1>5 DEF FinishesHunk

LEMMA ContinuesGoesOn ==
  ASSUME NEW t \in Task, NEW id, NEW o,
         op[t].kind \in {"track", "revert", "hunk", "restore"}, Continues(t, id, o)
  PROVE  GoesOn(t)
BY HandlersGoOn DEF Continues

(* A step of a handler that does not read, and brings the newest version   *)
(* no further from the file.                                               *)
LEMMA GoesOnAccounted ==
  ASSUME IInv, Accounted, NEW t \in Task, ~Reading(t), GoesOn(t),
         UNCHANGED <<agentVars, used>>, Orderly' => Orderly,
         Orderly' => \/ UNCHANGED <<file, newest>>
                     \/ newest' = {file'}
  PROVE  Accounted'
<1>1. PICK h : op' = [op EXCEPT ![t] = h] /\ h.step # "read"
  BY DEF GoesOn
<1>2. \A u \in Task : Reading(u)' <=> Reading(u)
  BY <1>1 DEF IInv, TypeOK, Reading
<1>3. Cardinality(used) \in Nat /\ edits \in Nat
  BY FS_CardinalityType DEF Accounted, IInv, Counted
<1>. QED BY <1>2, <1>3 DEF Accounted, Behind, agentVars

LEMMA AgentAccounted == ASSUME IInv, Accounted, AgentSteps PROVE Accounted'
<1>1. UNCHANGED <<newest, op, used, torn, stale, crashed>>
  BY DEF AgentSteps, ToolStarts, ToolEdits, CaptureArrives, memVars, pastVars
<1>2. /\ \A t \in Task : Reading(t)' <=> Reading(t)
      /\ Orderly' <=> Orderly
  BY <1>1 DEF Reading, Orderly
<1>3. Cardinality(used) \in Nat /\ edits \in Nat /\ wire.track \in Nat
  BY FS_CardinalityType DEF Accounted, IInv, Counted
<1>4. CASE ToolStarts \/ CaptureArrives
  <2>1. UNCHANGED <<file, edits>> /\ wire'.track = wire.track
    BY <1>4 DEF ToolStarts, CaptureArrives, Fires, IInv, Counted
  <2>. QED BY <1>1, <1>2, <2>1 DEF Accounted, Behind
<1>5. ASSUME NEW content \in Content, ToolEdits(content)  PROVE Accounted'
  <2>1. edits' = edits + 1 /\ wire'.track > 0
    BY <1>3, <1>5 DEF ToolEdits, Fires, IInv, Counted
  <2>. QED BY <1>1, <1>2, <1>3, <2>1 DEF Accounted, Behind
<1>. QED BY <1>4, <1>5 DEF AgentSteps

LEMMA RequestsAccounted ==
  ASSUME IInv, Accounted, NEW t \in Task, Requests(t)
  PROVE  Accounted'
<1>1. PICK i \in Change :
        \/ KeepChange(t, i) \/ RevertChange(t, i)
        \/ \E r \in Region : KeepHunk(t, i, r) \/ RevertHunk(t, i, r)
        \/ DeleteChange(t, i)
        \/ \E content \in Content : UpdateChangeContent(t, i, content)
        \/ RestoreFromArchive(t, i)
  BY DEF Requests
<1>2. Asks(t, i)
  BY <1>1 DEF KeepChange, RevertChange, KeepHunk, RevertHunk, DeleteChange,
              UpdateChangeContent, RestoreFromArchive
<1>3. GoesOn(t)
  <2>1. CASE \E r \in Region : RevertHunk(t, i, r)
    <3>1. PICK r \in Region : RevertHunk(t, i, r)
      BY <2>1
    <3>2. [Idle EXCEPT !.step = "check", !.id = i, !.doc = obj[i],
                       !.region = {r}].step # "read"
      BY DEF Idle
    <3>. QED BY <3>1, <3>2 DEF RevertHunk, GoesOn
  <2>2. CASE DeleteChange(t, i)
    <3>1. [Idle EXCEPT !.step = "unlink", !.id = i].step # "read"
      BY DEF Idle
    <3>. QED BY <2>2, <3>1 DEF DeleteChange, GoesOn
  <2>3. ASSUME NEW r \in Region, KeepHunk(t, i, r)  PROVE GoesOn(t)
    <3>1. \E o : FinishesHunk(t, i, o, "kept")
      BY <2>3 DEF KeepHunk
    <3>. QED BY <3>1, HandlersGoOn
  <2>4. ASSUME NEW content \in Content, UpdateChangeContent(t, i, content)
        PROVE  GoesOn(t)
    <3>1. \E o : Saves(t, i, o)
      BY <2>4 DEF UpdateChangeContent
    <3>. QED BY <3>1, HandlersGoOn
  <2>5. CASE KeepChange(t, i)
    BY <2>5, HandlersGoOn DEF KeepChange
  <2>6. CASE RevertChange(t, i) \/ RestoreFromArchive(t, i)
    BY <2>6, HandlersGoOn DEF RevertChange, RestoreFromArchive
  <2>. QED BY <1>1, <2>1, <2>2, <2>3, <2>4, <2>5, <2>6
<1>4. /\ ~Reading(t) /\ UNCHANGED <<agentVars, used, file, newest, stale, crashed>>
      /\ torn \subseteq torn'
  BY <1>2 DEF Asks, Reading, Idle
<1>. QED BY <1>3, <1>4, GoesOnAccounted DEF Orderly

LEMMA TrackArrivesAccounted ==
  ASSUME IInv, Accounted, NEW t \in Task, TrackArrives(t)
  PROVE  Accounted'
<1>1. /\ wire.track > 0 /\ op[t] = Idle
      /\ UNCHANGED <<file, edits, capture, newest, used, torn, stale, crashed>>
  BY DEF TrackArrives, memVars, pastVars
<1>2. edits # 0
  BY <1>1 DEF Accounted
<1>3. CASE Base = {}
  <2>1. newest = {} /\ op' = op
    BY <1>3 DEF TrackArrives, Base
  <2>. QED BY <1>1, <1>2, <2>1 DEF Accounted, Behind, Orderly
<1>4. CASE Base # {}
  <2>1. Reading(t)'
    BY <1>4 DEF TrackArrives, Reading, IInv, TypeOK, Idle
  <2>. QED BY <1>1, <1>2, <2>1 DEF Accounted, Behind, Orderly
<1>. QED BY <1>3, <1>4

(* A change is made only while the newest version is behind, or of the     *)
(* first edit; and when a file was read the newest version is not behind.  *)
LEMMA TrackReadsAccounted ==
  ASSUME IInv, Accounted, NEW t \in Task, TrackReads(t)
  PROVE  Accounted'
<1>1. /\ UNCHANGED <<file, agentVars, torn, crashed>> /\ Reading(t)
      /\ stale' = (\/ stale
                   \/ Base # {op[t].content}
                   \/ capture # {} /\ newest \notin {{}, capture})
  BY DEF TrackReads
<1>2. /\ Cardinality(used) \in Nat /\ edits \in Nat /\ edits # 0
      /\ UNCHANGED <<edits, wire>>
  BY <1>1, FS_CardinalityType DEF Accounted, IInv, Counted, agentVars
<1>3. CASE op[t].content = file
  <2>1. UNCHANGED <<newest, used>>
    BY <1>3 DEF TrackReads
  <2>2. Orderly' => Orderly /\ newest \in {{}, {file}}
    BY <1>1, <1>3 DEF Orderly, Base
  <2>. QED BY <1>1, <1>2, <2>1, <2>2 DEF Accounted, Behind
<1>4. CASE op[t].content # file
  <2>1. PICK id \in Change \ used : used' = used \cup {id} /\ newest' = {file}
    BY <1>4 DEF TrackReads
  <2>2. IsFiniteSet(used') /\ Cardinality(used') = Cardinality(used) + 1
    BY <2>1, FS_AddElement DEF Accounted
  <2>3. Orderly' => Orderly /\ (newest = {} \/ Behind)
    BY <1>1, <1>4 DEF Orderly, Base, Behind
  <2>4. Orderly' => Cardinality(used) + 1 <= edits
    <3>1. CASE Behind
      BY <1>2, <2>3, <3>1 DEF Accounted
    <3>2. CASE newest = {}
      BY <1>2, <2>3, <3>2, FS_EmptySet DEF Accounted
    <3>. QED BY <2>3, <3>1, <3>2
  <2>. QED BY <1>1, <1>2, <2>1, <2>2, <2>4 DEF Accounted, Behind
<1>. QED BY <1>3, <1>4

(* The content a handler writes is the version it records.                 *)
LEMMA WriteLandsAccounted ==
  ASSUME IInv, Agreement, Accounted, NEW t \in Task, WriteLands(t)
  PROVE  Accounted'
<1>1. /\ op[t].step = "write" /\ ~Reading(t) /\ file' = op[t].content
      /\ UNCHANGED <<agentVars, used, torn, stale, crashed>>
  BY DEF WriteLands, Lands, Reading
<1> DEFINE o == IF op[t].kind = "hunk" THEN [obj[op[t].id] EXCEPT !.after = op[t].content]
                                       ELSE obj[op[t].id]
<1>2. AddsVersion(t, op[t].id, o,
                  IF op[t].kind = "revert" THEN o.before ELSE op[t].content)
  BY DEF WriteLands
<1>3. op[t].kind \in {"track", "revert", "hunk", "restore"} /\ op[t].id \in Change
  BY <1>1, HandlerFacts DEF Relies
<1>4. GoesOn(t)
  <2>1. CASE Continues(t, op[t].id, o)
    BY <1>3, <2>1, ContinuesGoesOn
  <2>2. CASE ~ Continues(t, op[t].id, o)
    <3>1. [Idle EXCEPT !.step = "version", !.id = op[t].id,
                       !.kind = op[t].kind].step # "read"
      BY DEF Idle
    <3>. QED BY <1>2, <2>2, <3>1 DEF AddsVersion, GoesOn
  <2>. QED BY <2>1, <2>2
<1>5. torn = {} /\ op[t].kind = "revert" => o.before = op[t].content
  BY <1>1, <1>3 DEF Agreement, Follows
<1>6. torn = {} => newest' = {file'}
  BY <1>1, <1>2, <1>5 DEF AddsVersion
<1>. QED BY <1>1, <1>4, <1>6, GoesOnAccounted DEF Orderly

LEMMA OthersAccounted ==
  ASSUME IInv, Accounted, NEW t \in Task,
         \/ CheckReads(t) \/ VersionLands(t) \/ SaveLands(t) \/ ArchiveLands(t)
         \/ UnlinkLands(t) \/ Fails(t)
  PROVE  Accounted'
<1>1. /\ op[t].step \notin {"idle", "read"}
      /\ UNCHANGED <<agentVars, used, file, newest, stale, crashed>>
      /\ torn \subseteq torn'
  BY DEF CheckReads, VersionLands, SaveLands, ArchiveLands, UnlinkLands, Fails, Lands,
         Faulty
<1>2. op[t].step = "version" => op[t].kind \in {"track", "revert", "hunk", "restore"}
  BY HandlerFacts DEF Relies
<1>3. GoesOn(t)
  <2>1. CASE op[t].step = "version" /\ Continues(t, op[t].id, obj[op[t].id])
    BY <1>2, <2>1, ContinuesGoesOn
  <2>2. CASE ~ (op[t].step = "version" /\ Continues(t, op[t].id, obj[op[t].id]))
    <3>1. [Idle EXCEPT !.step = "unlink", !.id = op[t].id].step # "read"
      BY DEF Idle
    <3>2. ArchiveLands(t) => GoesOn(t)
      BY <3>1 DEF ArchiveLands, GoesOn
    <3>. QED
      BY <2>2, <3>2, HandlersGoOn
      DEF CheckReads, VersionLands, SaveLands, UnlinkLands, Fails, Lands
  <2>. QED BY <2>1, <2>2
<1>. QED BY <1>1, <1>3, GoesOnAccounted DEF Orderly, Reading

LEMMA AccountedKept == IInv /\ Agreement /\ Accounted /\ [Next]_vars => Accounted'
<1> SUFFICES ASSUME IInv, Agreement, Accounted, [Next]_vars  PROVE Accounted'
  OBVIOUS
<1>1. CASE AgentSteps
  BY <1>1, AgentAccounted
<1>2. CASE Restart
  BY <1>2 DEF Restart, Faulty, Accounted, Orderly, Reading, Idle, agentVars
<1>3. ASSUME NEW t \in Task, Requests(t)  PROVE Accounted'
  BY <1>3, RequestsAccounted
<1>4. ASSUME NEW t \in Task, Handlers(t)  PROVE Accounted'
  BY <1>4, TrackArrivesAccounted, TrackReadsAccounted, WriteLandsAccounted,
     OthersAccounted DEF Handlers
<1>5. CASE UNCHANGED vars
  BY <1>5 DEF vars, agentVars, memVars, pastVars, Accounted, Orderly, Behind, Reading
<1>. QED BY <1>1, <1>2, <1>3, <1>4, <1>5 DEF Next

LEMMA AccountedInvariant == Spec => []Accounted
<1>1. Init => Accounted
  <2> SUFFICES ASSUME Init  PROVE Accounted
    OBVIOUS
  <2>1. /\ used = {} /\ edits = 0 /\ wire.track = 0 /\ newest = {}
        /\ \A t \in Task : ~Reading(t)
    BY DEF Init, Reading, Idle
  <2>. QED BY <2>1, FS_EmptySet DEF Accounted, Behind
<1>2. Init => Agreement
  BY InitAgrees
<1>. QED
  BY <1>1, <1>2, AgreementKept, AccountedKept, InductiveInvariant, PTL DEF Spec

(* Once every delivery has been tracked and every handler is through, the  *)
(* newest version is what the file holds, after reverts, hunks and         *)
(* restores too (trackFromLog, addVersion, revertChange, resolveHunk,      *)
(* restoreFromArchive).                                                    *)
THEOREM NewestVersionIsFile == Spec => []NewestIsFile
<1>1. IInv /\ Accounted => NewestIsFile
  BY DEF IInv, Counted, Accounted, Orderly, Behind, Reading, NewestIsFile, Quiet
<1>. QED BY <1>1, InductiveInvariant, AccountedInvariant, PTL

(* trackFromLog makes at most one change of an edit, by however many       *)
(* transports its hook is delivered, and none of a revert or a restore.    *)
THEOREM OneChangePerEdit == Spec => []NoPhantomChange
<1>1. IInv /\ Accounted => NoPhantomChange
  <2>1. IInv /\ Accounted => Cardinality(used) \in Nat /\ edits \in Nat
    BY FS_CardinalityType DEF IInv, Counted, Accounted
  <2>. QED BY <2>1 DEF Accounted, Orderly, Behind, NoPhantomChange
<1>. QED BY <1>1, InductiveInvariant, AccountedInvariant, PTL

=============================================================================
