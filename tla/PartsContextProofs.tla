------------------------- MODULE PartsContextProofs ---------------------------
(***************************************************************************)
(* Proofs about sessions: what is handed to later ones - digests of old    *)
(* ones, payloads and the index -, the agents of one, and the pane that    *)
(* shows one, for every value of the constants of Parts.  Each part has an *)
(* inductive invariant of its own, and the specification of Parts is, of a *)
(* part, that part's.                                                      *)
(***************************************************************************)
EXTENDS Parts, Sequences, FiniteSets, WellFoundedInduction, FiniteSetTheorems, TLAPS

(* The slots of Parts, under the names the parts give them.                *)
answers == v1
clock == v1
dirty == v1
begun == v2
clicks == v2
embedding == v2
log == v2
logs == v2
delivered == v3
overtaken == v3
parent == v3
expires == v4
feed == v4
file == v4
stored == v4
tracker == v4
hooks == v5
indexed == v5
live == v5
since == v5
injections == v6
items == v6
slots == v6
sweep == v6
archives == v7
logged == v7
open == v7
lines == v8
pane == v8
postings == v8
pruned == v9
refusals == v9
resident == v10
saves == v10
selected == v11
summaries == v11
vectors == v11
sessionLogs == v12
today == v12
tab == v13
transcript == v14
strayed == v15

USE DEF answers, clock, dirty, begun, clicks, embedding, log, logs, delivered,
  overtaken, parent, expires, feed, file, stored, tracker, hooks, indexed,
  live, since, injections, items, slots, sweep, archives, logged, open, lines,
  pane, postings, pruned, refusals, resident, saves, selected, summaries,
  vectors, sessionLogs, today, tab, transcript, strayed

-----------------------------------------------------------------------------
(* Retention: a sweep deletes only what a summary holds, and only what is  *)
(* older than the window.  The counters of the instance (days, acts,       *)
(* crashes) play no part.                                                  *)

(* The retention window is a number, and no record and no summary is None. *)
AnyRecord == [first : Int, last : Int, acts : Nat]

Parameters ==
  /\ MaxAge \in Int
  /\ Nil \notin AnyRecord \cup [acts : Nat, prompts : Nat]

Records == [Swept -> AnyRecord \cup {Nil}]

Sweeps ==
  [step : {"idle", "lines", "read", "collapse", "delete"}, cutoff : Int,
   read : Records, left : SUBSET Swept, saved : SUBSET Swept,
   expired : SUBSET Swept]

SweepTypes ==
  /\ today \in Int
  /\ live \in Records /\ stored \in Records
  /\ sweep \in Sweeps
  /\ summaries = [s \in Swept |-> summaries[s]]
  /\ pruned \in [Swept -> Nat]

(* A summary counts prompts, of which there are finitely many.             *)
LogsFinite == IsFiniteSet(logs) /\ IsFiniteSet(lines)

(* What the sweep has read is what is stored, and is expired, until a save *)
(* overtakes it ...                                                        *)
ReadIsStored(s) ==
  /\ sweep.read[s] # Nil => sweep.read[s].last < sweep.cutoff
  /\ sweep.read[s] # Nil /\ s \notin overtaken => stored[s] = sweep.read[s]

(* ... a session still to be gone through has been read ...                *)
LeftIsRead(s) ==
  s \in sweep.left => sweep.read[s] # Nil /\ s \notin sweep.saved

(* ... and one about to be deleted has been read and has a summary of it.  *)
SavedHasSummary(s) ==
  s \in sweep.saved =>
    /\ sweep.step = "delete"
    /\ sweep.read[s] # Nil
    /\ summaries[s] # Nil
    /\ summaries[s].acts = sweep.read[s].acts

IsPreserved(s) ==
  pruned[s] > 0 /\ s \notin overtaken =>
    summaries[s] # Nil /\ summaries[s].acts >= pruned[s]

SweepIInv ==
  /\ SweepTypes
  /\ \A s \in Swept :
       ReadIsStored(s) /\ LeftIsRead(s) /\ SavedHasSummary(s) /\ IsPreserved(s)

-----------------------------------------------------------------------------
(* The part counts as this module does.                                    *)
LEMMA SweepCardinality ==
  ASSUME NEW S PROVE Sweep!Cardinality(S) = Cardinality(S)
  BY DEF Sweep!Cardinality, Cardinality

LEMMA SweepInitEstablishes == ASSUME Parameters PROVE Sweep!Init => SweepIInv /\ LogsFinite
  BY FS_EmptySet DEF LogsFinite, Parameters, Sweep!Init, SweepIInv, SweepTypes, Records, Sweeps, Sweep!Idle, ReadIsStored, LeftIsRead,
         SavedHasSummary, IsPreserved

(* Steps that touch neither the sweep nor what it is about.                *)
LEMMA Elsewhere ==
  ASSUME SweepIInv, UNCHANGED <<today, stored, summaries, sweep, pruned, overtaken>>,
         live' \in Records
  PROVE  SweepIInv'
  BY DEF SweepIInv, SweepTypes, ReadIsStored, LeftIsRead, SavedHasSummary, IsPreserved

LEMMA SavePreserves ==
  ASSUME SweepIInv, NEW s \in Swept, Sweep!Saves(s)
  PROVE  SweepIInv'
<1>1. SweepTypes'
  BY DEF SweepIInv, SweepTypes, Sweep!Saves, Records
<1>2. ASSUME NEW r \in Swept
      PROVE (ReadIsStored(r) /\ LeftIsRead(r) /\ SavedHasSummary(r) /\ IsPreserved(r))'
  <2>1. ReadIsStored(r)'
    BY DEF SweepIInv, SweepTypes, Records, Sweep!Saves, ReadIsStored
  <2>2. LeftIsRead(r)' /\ SavedHasSummary(r)'
    BY DEF SweepIInv, Sweep!Saves, LeftIsRead, SavedHasSummary
  <2>3. IsPreserved(r)'
    BY DEF SweepIInv, Sweep!Saves, IsPreserved
  <2> QED BY <2>1, <2>2, <2>3
<1> QED BY <1>1, <1>2 DEF SweepIInv

(* A sweep that begins has read nothing yet.                               *)
LEMMA BegunPreserves ==
  ASSUME Parameters, SweepIInv, sweep' = Sweep!Begun, live' \in Records,
         UNCHANGED <<today, stored, summaries, pruned, overtaken>>
  PROVE  SweepIInv'
<1>1. today - MaxAge \in Int
  BY DEF Parameters, SweepIInv, SweepTypes
<1>2. [s \in Swept |-> Nil] \in Records
  BY DEF Records
<1>3. /\ Sweep!Begun \in Sweeps /\ Sweep!Begun.left = {} /\ Sweep!Begun.saved = {}
      /\ Sweep!Begun.read = [s \in Swept |-> Nil]
  BY <1>1, <1>2 DEF Sweep!Begun, Sweep!Idle, Sweeps
<1>4. \A r \in Swept : sweep'.read[r] = Nil
  BY <1>3
<1>5. SweepTypes'
  BY <1>3 DEF SweepIInv, SweepTypes
<1>6. ASSUME NEW r \in Swept
      PROVE (ReadIsStored(r) /\ LeftIsRead(r) /\ SavedHasSummary(r) /\ IsPreserved(r))'
  <2>1. ReadIsStored(r)' /\ LeftIsRead(r)' /\ SavedHasSummary(r)'
    BY <1>3, <1>4 DEF ReadIsStored, LeftIsRead, SavedHasSummary
  <2>2. IsPreserved(r)'
    BY DEF SweepIInv, IsPreserved
  <2> QED BY <2>1, <2>2
<1> QED BY <1>5, <1>6 DEF SweepIInv

LEMMA SweepReadPreserves ==
  ASSUME SweepIInv, Sweep!ReadsSessions
  PROVE  SweepIInv'
<1> DEFINE old == {s \in Swept : Sweep!Expired(stored[s], sweep.cutoff)}
<1>1. /\ sweep.step = "read"
      /\ sweep' = [sweep EXCEPT !.step = "collapse", !.left = old,
                     !.read = [s \in Swept |-> IF s \in old THEN stored[s] ELSE Nil]]
      /\ UNCHANGED <<today, live, stored, summaries, pruned, overtaken>>
  BY DEF Sweep!ReadsSessions, Sweep!recordVars, Sweep!historyVars
<1>2. sweep \in Sweeps /\ stored \in Records
  BY DEF SweepIInv, SweepTypes
<1>3. /\ sweep' \in Sweeps
      /\ sweep'.left = old /\ sweep'.saved = sweep.saved /\ sweep'.cutoff = sweep.cutoff
      /\ sweep'.read = [s \in Swept |-> IF s \in old THEN stored[s] ELSE Nil]
  BY <1>1, <1>2 DEF Sweeps, Records
<1>4. \A s \in Swept : s \notin sweep.saved
  BY <1>1 DEF SweepIInv, SavedHasSummary
<1>5. \A s \in old : stored[s] # Nil /\ stored[s].last < sweep.cutoff
  BY DEF Sweep!Expired
<1>6. SweepTypes'
  BY <1>1, <1>3 DEF SweepIInv, SweepTypes
<1>7. ASSUME NEW r \in Swept
      PROVE (ReadIsStored(r) /\ LeftIsRead(r) /\ SavedHasSummary(r) /\ IsPreserved(r))'
  <2>1. ReadIsStored(r)'
    BY <1>1, <1>3, <1>5 DEF ReadIsStored
  <2>2. LeftIsRead(r)' /\ SavedHasSummary(r)'
    BY <1>3, <1>4, <1>5 DEF LeftIsRead, SavedHasSummary
  <2>3. IsPreserved(r)'
    BY <1>1 DEF SweepIInv, IsPreserved
  <2> QED BY <2>1, <2>2, <2>3
<1> QED BY <1>6, <1>7 DEF SweepIInv

LEMMA CollapsePreserves ==
  ASSUME Parameters, SweepIInv, LogsFinite, NEW s \in Swept, Sweep!Collapses(s)
  PROVE  SweepIInv'
<1>1. PICK ok \in BOOLEAN :
        /\ summaries' = IF ok THEN [summaries EXCEPT ![s] = Sweep!SummaryOf(s)] ELSE summaries
        /\ sweep' = IF ok
             THEN [sweep EXCEPT !.step = "delete", !.left = @ \ {s}, !.saved = {s}]
             ELSE [sweep EXCEPT !.left = @ \ {s}, !.read[s] = Nil]
        /\ pruned' = IF ok THEN [pruned EXCEPT ![s] = 0] ELSE pruned
  BY DEF Sweep!Collapses, Sweep!Preserved
<1>2. /\ sweep.step = "collapse" /\ s \in sweep.left
      /\ UNCHANGED <<today, live, stored, overtaken>>
  BY DEF Sweep!Collapses, Sweep!recordVars
<1>3. sweep \in Sweeps /\ stored \in Records /\ pruned \in [Swept -> Nat]
  BY DEF SweepIInv, SweepTypes
<1>4. \A r \in Swept : r \notin sweep.saved
  BY <1>2 DEF SweepIInv, SavedHasSummary
<1>5. CASE ok
  <2>1. Sweep!SummaryOf(s) # Nil /\ Sweep!SummaryOf(s).acts = sweep.read[s].acts
    <3>1. sweep.read[s] \in AnyRecord
      BY <1>2, <1>3 DEF SweepIInv, LeftIsRead, Sweeps, Records
    <3>2. Cardinality({l \in logs : l.of = s}) \in Nat
      BY FS_Subset, FS_CardinalityType DEF LogsFinite
    <3>3. Sweep!SummaryOf(s) \in [acts : Nat, prompts : Nat]
      BY <3>1, <3>2, SweepCardinality DEF Sweep!SummaryOf, AnyRecord
    <3> QED BY <3>3 DEF Sweep!SummaryOf, Parameters
  <2>2. /\ sweep' \in Sweeps
        /\ sweep'.step = "delete" /\ sweep'.left = sweep.left \ {s} /\ sweep'.saved = {s}
        /\ sweep'.read = sweep.read /\ sweep'.cutoff = sweep.cutoff
    BY <1>1, <1>3, <1>5 DEF Sweeps
  <2>3. /\ \A r \in Swept : summaries'[r] = IF r = s THEN Sweep!SummaryOf(s) ELSE summaries[r]
        /\ summaries' = [r \in Swept |-> summaries'[r]]
        /\ pruned' \in [Swept -> Nat] /\ pruned'[s] = 0
        /\ \A r \in Swept : r # s => pruned'[r] = pruned[r]
    BY <1>1, <1>3, <1>5 DEF SweepIInv, SweepTypes
  <2>4. sweep.read[s] # Nil
    BY <1>2 DEF SweepIInv, LeftIsRead
  <2>5. ASSUME NEW r \in Swept
        PROVE (ReadIsStored(r) /\ LeftIsRead(r) /\ SavedHasSummary(r) /\ IsPreserved(r))'
    <3>1. ReadIsStored(r)'
      BY <1>2, <2>2 DEF SweepIInv, ReadIsStored
    <3>2. LeftIsRead(r)' /\ SavedHasSummary(r)'
      BY <2>1, <2>2, <2>3, <2>4 DEF SweepIInv, LeftIsRead, SavedHasSummary
    <3>3. IsPreserved(r)'
      BY <1>2, <2>3 DEF SweepIInv, IsPreserved
    <3> QED BY <3>1, <3>2, <3>3
  <2>6. SweepTypes'
    BY <1>2, <2>2, <2>3 DEF SweepIInv, SweepTypes
  <2> QED BY <2>5, <2>6 DEF SweepIInv
<1>6. CASE ~ok
  <2>1. /\ sweep' \in Sweeps
        /\ sweep'.left = sweep.left \ {s} /\ sweep'.saved = sweep.saved
        /\ sweep'.cutoff = sweep.cutoff
        /\ \A r \in Swept : sweep'.read[r] = IF r = s THEN Nil ELSE sweep.read[r]
    BY <1>1, <1>3, <1>6 DEF Sweeps, Records
  <2>2. ASSUME NEW r \in Swept
        PROVE (ReadIsStored(r) /\ LeftIsRead(r) /\ SavedHasSummary(r) /\ IsPreserved(r))'
    <3>1. ReadIsStored(r)'
      BY <1>2, <2>1 DEF SweepIInv, ReadIsStored
    <3>2. LeftIsRead(r)' /\ SavedHasSummary(r)'
      BY <1>4, <2>1 DEF SweepIInv, LeftIsRead, SavedHasSummary
    <3>3. IsPreserved(r)'
      BY <1>1, <1>2, <1>6 DEF SweepIInv, IsPreserved
    <3> QED BY <3>1, <3>2, <3>3
  <2>3. SweepTypes'
    BY <1>1, <1>2, <1>6, <2>1 DEF SweepIInv, SweepTypes
  <2> QED BY <2>2, <2>3 DEF SweepIInv
<1> QED BY <1>5, <1>6

LEMMA DeletePreserves ==
  ASSUME SweepIInv, Sweep!Deletes
  PROVE  SweepIInv'
<1>1. PICK s \in sweep.saved :
        /\ stored' = [stored EXCEPT ![s] = Nil]
        /\ pruned' = [pruned EXCEPT ![s] = IF stored[s] = Nil THEN @ ELSE stored[s].acts]
        /\ sweep' = [sweep EXCEPT !.step = "collapse", !.saved = {}, !.read[s] = Nil,
                       !.expired = IF stored[s] = Nil THEN @ ELSE @ \cup {s}]
  BY DEF Sweep!Deletes
<1>2. UNCHANGED <<today, live, summaries, overtaken>>
  BY DEF Sweep!Deletes
<1>3. /\ sweep \in Sweeps /\ stored \in Records /\ pruned \in [Swept -> Nat]
      /\ s \in Swept
  BY <1>1 DEF SweepIInv, SweepTypes, Sweeps
<1>4. /\ sweep' \in Sweeps
      /\ sweep'.left = sweep.left /\ sweep'.saved = {} /\ sweep'.cutoff = sweep.cutoff
      /\ \A r \in Swept : sweep'.read[r] = IF r = s THEN Nil ELSE sweep.read[r]
  BY <1>1, <1>3 DEF Sweeps, Records
<1>5. /\ stored' \in Records
      /\ \A r \in Swept : r # s => stored'[r] = stored[r] /\ pruned'[r] = pruned[r]
      /\ pruned'[s] = IF stored[s] = Nil THEN pruned[s] ELSE stored[s].acts
  BY <1>1, <1>3 DEF Records
<1>6. stored[s] # Nil => stored[s].acts \in Nat
  BY <1>3 DEF Records, AnyRecord
<1>7. pruned' \in [Swept -> Nat]
  BY <1>1, <1>3, <1>6
<1>8. /\ SavedHasSummary(s) /\ ReadIsStored(s) /\ s \in sweep.saved
      /\ \A r \in sweep.left : r # s
  BY <1>1, <1>3 DEF SweepIInv, LeftIsRead, SweepTypes, Sweeps
<1>9. ASSUME NEW r \in Swept
      PROVE (ReadIsStored(r) /\ LeftIsRead(r) /\ SavedHasSummary(r) /\ IsPreserved(r))'
  <2>1. ReadIsStored(r)'
    BY <1>2, <1>4, <1>5 DEF SweepIInv, ReadIsStored
  <2>2. LeftIsRead(r)' /\ SavedHasSummary(r)'
    BY <1>4, <1>8 DEF SweepIInv, LeftIsRead, SavedHasSummary
  <2>3. ASSUME r # s PROVE IsPreserved(r)'
    BY <1>2, <1>5, <2>3 DEF SweepIInv, IsPreserved
  <2>4. ASSUME r = s PROVE IsPreserved(r)'
    <3>1. ASSUME s \notin overtaken PROVE stored[s] = sweep.read[s] /\ stored[s] # Nil
      BY <1>8, <3>1 DEF SavedHasSummary, ReadIsStored
    <3>2. s \notin overtaken =>
            summaries[s] # Nil /\ summaries[s].acts = pruned'[s] /\ pruned'[s] \in Nat
      BY <1>5, <1>6, <1>8, <3>1 DEF SavedHasSummary
    <3> QED BY <1>2, <2>4, <3>2 DEF IsPreserved
  <2> QED BY <2>1, <2>2, <2>3, <2>4
<1>10. SweepTypes'
  BY <1>2, <1>4, <1>5, <1>7 DEF SweepIInv, SweepTypes
<1> QED BY <1>9, <1>10 DEF SweepIInv

(* The sweep's last step, and the step to the session files.               *)
LEMMA QuietPreserves ==
  ASSUME SweepIInv, Sweep!PrunesLines \/ Sweep!PrunesArchives, Parameters
  PROVE  SweepIInv'
<1>1. UNCHANGED <<today, live, stored, summaries, pruned, overtaken>>
  BY DEF Sweep!PrunesLines, Sweep!PrunesArchives, Sweep!recordVars, Sweep!historyVars
<1>2. CASE Sweep!PrunesLines
  <2>1. /\ sweep' \in Sweeps /\ sweep'.left = sweep.left /\ sweep'.saved = sweep.saved
        /\ sweep'.cutoff = sweep.cutoff /\ sweep'.read = sweep.read
        /\ sweep.step # "delete"
    BY <1>2 DEF Sweep!PrunesLines, SweepIInv, SweepTypes, Sweeps
  <2>2. SweepTypes'
    BY <1>1, <2>1 DEF SweepIInv, SweepTypes
  <2>3. ASSUME NEW r \in Swept
        PROVE (ReadIsStored(r) /\ LeftIsRead(r) /\ SavedHasSummary(r) /\ IsPreserved(r))'
    BY <1>1, <2>1 DEF SweepIInv, ReadIsStored, LeftIsRead, SavedHasSummary, IsPreserved
  <2> QED BY <2>2, <2>3 DEF SweepIInv
<1>3. CASE Sweep!PrunesArchives
  <2>1. [s \in Swept |-> Nil] \in Records
    BY DEF Records
  <2>2. /\ sweep' \in Sweeps /\ sweep'.left = {} /\ sweep'.saved = {}
        /\ sweep'.read = [s \in Swept |-> Nil]
    BY <1>3, <2>1 DEF Sweep!PrunesArchives, Sweep!Idle, Sweeps
  <2>3. SweepTypes'
    BY <1>1, <2>2 DEF SweepIInv, SweepTypes
  <2>4. ASSUME NEW r \in Swept
        PROVE (ReadIsStored(r) /\ LeftIsRead(r) /\ SavedHasSummary(r) /\ IsPreserved(r))'
    BY <1>1, <2>2 DEF SweepIInv, ReadIsStored, LeftIsRead, SavedHasSummary, IsPreserved
  <2> QED BY <2>3, <2>4 DEF SweepIInv
<1> QED BY <1>2, <1>3

(* What happens beside the sweep: an event, a day, a save of nothing.      *)
LEMMA ActivityTypes ==
  ASSUME SweepIInv, NEW s \in Swept, Sweep!Activity(s)
  PROVE  live' \in Records
<1>1. live \in Records /\ today \in Int
  BY DEF SweepIInv, SweepTypes
<1>2. CASE live[s] = Nil
  <2>1. [first |-> today, last |-> today, acts |-> 1] \in AnyRecord
    BY <1>1 DEF AnyRecord
  <2> QED BY <1>1, <1>2, <2>1 DEF Sweep!Activity, Records
<1>3. CASE live[s] # Nil
  <2>1. live[s] \in AnyRecord
    BY <1>1, <1>3 DEF Records
  <2>2. live[s].acts + 1 \in Nat
    BY <2>1 DEF AnyRecord
  <2>3. \A n \in Nat : [live[s] EXCEPT !.last = today, !.acts = n] \in AnyRecord
    BY <1>1, <2>1 DEF AnyRecord
  <2>4. live' = [live EXCEPT ![s].last = today, ![s].acts = live[s].acts + 1]
    BY <1>3 DEF Sweep!Activity
  <2>5. ASSUME NEW n \in Nat,
               live' = [live EXCEPT ![s].last = today, ![s].acts = n]
        PROVE  live' \in Records
    <3>1. live' = [live EXCEPT ![s] = [live[s] EXCEPT !.last = today, !.acts = n]]
      BY <1>1, <2>1, <2>5 DEF Records, AnyRecord
    <3> QED BY <1>1, <2>3, <3>1 DEF Records
  <2> QED BY <2>2, <2>4, <2>5
<1> QED BY <1>2, <1>3

LEMMA DayPreserves ==
  ASSUME SweepIInv, Sweep!DayPasses
  PROVE  SweepIInv'
<1>1. UNCHANGED <<live, stored, summaries, sweep, pruned, overtaken>>
  BY DEF Sweep!DayPasses, Sweep!recordVars, Sweep!historyVars
<1>2. SweepTypes'
  BY <1>1 DEF SweepIInv, SweepTypes, Sweep!DayPasses
<1> QED
  BY <1>1, <1>2 DEF SweepIInv, ReadIsStored, LeftIsRead, SavedHasSummary, IsPreserved

LEMMA LogsStayFinite ==
  ASSUME LogsFinite, [Sweep!Next]_(Sweep!vars)
  PROVE  LogsFinite'
<1>1. ASSUME NEW c PROVE IsFiniteSet(Sweep!Aged(logs, c)) /\ IsFiniteSet(Sweep!Aged(lines, c))
  BY FS_Subset DEF LogsFinite, Sweep!Aged
<1>2. ASSUME NEW l PROVE IsFiniteSet(logs \cup {l}) /\ IsFiniteSet(lines \cup {l})
  BY FS_AddElement DEF LogsFinite
<1>3. logs' = logs \/ (\E c : logs' = Sweep!Aged(logs, c)) \/ (\E c : logs' = Sweep!Aged(lines, c))
        \/ \E l : logs' = logs \cup {l}
  BY DEF Sweep!Next, Sweep!vars, Sweep!textVars, Sweep!Activity, Sweep!Saves, Sweep!Collapses, Sweep!DayPasses, Sweep!SweepBegins,
     Sweep!PrunesLines, Sweep!ReadsSessions, Sweep!Deletes, Sweep!PrunesArchives, Sweep!Restarts
<1>4. lines' = lines \/ (\E c : lines' = Sweep!Aged(lines, c)) \/ \E l : lines' = lines \cup {l}
  BY DEF Sweep!Next, Sweep!vars, Sweep!textVars, Sweep!Activity, Sweep!Saves, Sweep!Collapses, Sweep!DayPasses, Sweep!SweepBegins,
     Sweep!PrunesLines, Sweep!ReadsSessions, Sweep!Deletes, Sweep!PrunesArchives, Sweep!Restarts
<1>5. IsFiniteSet(logs')
  BY <1>1, <1>2, <1>3 DEF LogsFinite
<1>6. IsFiniteSet(lines')
  BY <1>1, <1>2, <1>4 DEF LogsFinite
<1> QED BY <1>5, <1>6 DEF LogsFinite

LEMMA SweepStepPreserves ==
  ASSUME Parameters, SweepIInv, LogsFinite, [Sweep!Next]_(Sweep!vars)
  PROVE  SweepIInv'
<1>1. ASSUME NEW s \in Swept, Sweep!Activity(s) PROVE SweepIInv'
  BY <1>1, ActivityTypes, Elsewhere DEF Sweep!Activity, Sweep!historyVars
<1>2. ASSUME NEW s \in Swept, Sweep!Saves(s) PROVE SweepIInv'
  BY <1>2, SavePreserves
<1>3. ASSUME NEW s \in Swept, Sweep!Collapses(s) PROVE SweepIInv'
  BY <1>3, CollapsePreserves
<1>4. CASE Sweep!DayPasses
  BY <1>4, DayPreserves
<1>5. CASE Sweep!SweepBegins
  <2>1. live' \in Records
    BY <1>5 DEF Sweep!SweepBegins, Sweep!recordVars, SweepIInv, SweepTypes
  <2> QED BY <1>5, <2>1, BegunPreserves DEF Sweep!SweepBegins, Sweep!recordVars, Sweep!historyVars
<1>6. CASE Sweep!PrunesLines \/ Sweep!PrunesArchives
  BY <1>6, QuietPreserves
<1>7. CASE Sweep!ReadsSessions
  BY <1>7, SweepReadPreserves
<1>8. CASE Sweep!Deletes
  BY <1>8, DeletePreserves
<1>9. CASE Sweep!Restarts
  <2>1. live' \in Records
    BY <1>9 DEF Sweep!Restarts, SweepIInv, SweepTypes
  <2> QED BY <1>9, <2>1, BegunPreserves DEF Sweep!Restarts
<1>10. CASE UNCHANGED Sweep!vars
  <2>1. live' \in Records
    BY <1>10 DEF Sweep!vars, Sweep!recordVars, SweepIInv, SweepTypes
  <2> QED BY <1>10, <2>1, Elsewhere DEF Sweep!vars, Sweep!recordVars, Sweep!historyVars
<1> QED
  BY <1>1, <1>2, <1>3, <1>4, <1>5, <1>6, <1>7, <1>8, <1>9, <1>10 DEF Sweep!Next

(* A step that deletes a session does so by the sweep's summary of it.     *)
LEMMA DeletionIsExpired ==
  ASSUME SweepIInv, Sweep!Next, NEW s \in Swept, stored[s] # Nil, stored'[s] = Nil
  PROVE  stored[s].last < sweep.cutoff \/ s \in overtaken
<1>1. stored' # stored
  OBVIOUS
<1>2. stored \in Records
  BY DEF SweepIInv, SweepTypes
<1>3. ASSUME NEW r \in Swept, Sweep!Saves(r) PROVE FALSE
  BY <1>2, <1>3 DEF Sweep!Saves, Records
<1>4. Sweep!Deletes
  BY <1>1, <1>3 DEF Sweep!Next, Sweep!Activity, Sweep!Collapses, Sweep!DayPasses, Sweep!SweepBegins,
     Sweep!PrunesLines, Sweep!ReadsSessions, Sweep!PrunesArchives, Sweep!Restarts, Sweep!recordVars
<1>5. s \in sweep.saved
  BY <1>2, <1>4 DEF Sweep!Deletes, Records
<1> QED
  BY <1>5 DEF SweepIInv, ReadIsStored, SavedHasSummary

-----------------------------------------------------------------------------
(* The bounds of the instance and the types: a record, a line and a        *)
(* summary are of days that have been.                                     *)
HeldRecords == [Swept -> Sweep!SessionRecord \cup {Nil}]

SweepBounded ==
  /\ today \in Sweep!Day
  /\ live \in HeldRecords /\ stored \in HeldRecords /\ sweep.read \in HeldRecords
  /\ logs \subseteq Sweep!Line /\ lines \subseteq Sweep!Line /\ archives \subseteq Sweep!Line
  /\ summaries \in [Swept -> Sweep!Summary \cup {Nil}]

(* A session's prompts of one day are one line.                            *)
LEMMA PromptsFewDays ==
  ASSUME NEW S \in SUBSET Sweep!Line, NEW s \in Swept
  PROVE  Cardinality({l \in S : l.of = s}) \in 0 .. MaxDay + 1
<1> DEFINE P == {l \in S : l.of = s}
           f == [l \in P |-> l.at]
<1>1. IsFiniteSet(Sweep!Day) /\ Cardinality(Sweep!Day) = MaxDay + 1
  BY FS_Interval, BoundAssumption DEF Sweep!Day
<1>2. \A l \in P : l \in Sweep!Line /\ l = [of |-> s, at |-> l.at] /\ l.at \in Sweep!Day
  BY DEF Sweep!Line
<1>3. f \in Injection(P, Sweep!Day)
  <2>1. f \in [P -> Sweep!Day]
    BY <1>2
  <2>2. \A k, l \in P : f[k] = f[l] => k = l
    BY <1>2
  <2> QED BY <2>1, <2>2 DEF Injection, IsInjective
<1>4. IsFiniteSet(P) /\ Cardinality(P) <= Cardinality(Sweep!Day)
  BY <1>1, <1>3, FS_Injection
<1>5. Cardinality(P) \in Nat
  BY <1>4, FS_CardinalityType
<1> QED BY <1>1, <1>4, <1>5, BoundAssumption

LEMMA SweepBoundedInit == Sweep!Init => SweepBounded
<1> SUFFICES ASSUME Sweep!Init PROVE SweepBounded
  OBVIOUS
<1>1. today \in Sweep!Day
  BY BoundAssumption DEF Sweep!Init, Sweep!Day
<1>2. [s \in Swept |-> Nil] \in HeldRecords
  BY DEF HeldRecords
<1>3. [s \in Swept |-> Nil] \in [Swept -> Sweep!Summary \cup {Nil}]
  OBVIOUS
<1>4. /\ live = [s \in Swept |-> Nil] /\ stored = live /\ summaries = live
      /\ sweep.read = [s \in Swept |-> Nil] /\ logs = {} /\ lines = {} /\ archives = {}
  BY DEF Sweep!Init, Sweep!Idle
<1> QED BY <1>1, <1>2, <1>3, <1>4 DEF SweepBounded

LEMMA ActivityBounded ==
  ASSUME SweepBounded, NEW s \in Swept, Sweep!Activity(s)
  PROVE  SweepBounded'
<1>1. live \in HeldRecords /\ today \in Sweep!Day
  BY DEF SweepBounded
<1>2. UNCHANGED <<today, stored, summaries, sweep>>
  BY DEF Sweep!Activity
<1>3. PICK l : l = [of |-> s, at |-> today]
  OBVIOUS
<1>4. l \in Sweep!Line
  BY <1>1, <1>3 DEF Sweep!Line
<1>5. logs' = logs \cup {l} /\ lines' = lines \cup {l} /\ archives' \in {archives, archives \cup {l}}
  BY <1>3 DEF Sweep!Activity
<1>6. CASE live[s] = Nil
  <2>1. 1 \in 1 .. MaxActs
    BY BoundAssumption
  <2>2. [first |-> today, last |-> today, acts |-> 1] \in Sweep!SessionRecord
    BY <1>1, <2>1 DEF Sweep!SessionRecord
  <2>3. live' = [live EXCEPT ![s] = [first |-> today, last |-> today, acts |-> 1]]
    BY <1>6 DEF Sweep!Activity
  <2>4. live' \in HeldRecords
    BY <1>1, <2>2, <2>3 DEF HeldRecords
  <2> QED BY <1>2, <1>4, <1>5, <2>4 DEF SweepBounded
<1>7. CASE live[s] # Nil
  <2>1. live[s] \in Sweep!SessionRecord /\ live[s].acts < MaxActs
    BY <1>1, <1>7 DEF HeldRecords, Sweep!Activity
  <2>2. live[s].acts + 1 \in 1 .. MaxActs
    BY <2>1, BoundAssumption DEF Sweep!SessionRecord
  <2>3. PICK n \in 1 .. MaxActs : n = live[s].acts + 1
    BY <2>2
  <2>4. live' = [live EXCEPT ![s].last = today, ![s].acts = n]
    BY <1>7, <2>3 DEF Sweep!Activity
  <2>5. PICK r : r = [live[s] EXCEPT !.last = today, !.acts = n]
    OBVIOUS
  <2>6. r \in Sweep!SessionRecord
    BY <1>1, <2>1, <2>3, <2>5 DEF Sweep!SessionRecord
  <2>7. live' = [live EXCEPT ![s] = r]
    BY <1>1, <2>1, <2>4, <2>5 DEF HeldRecords, Sweep!SessionRecord
  <2>8. live' \in HeldRecords
    BY <1>1, <2>6, <2>7 DEF HeldRecords
  <2> QED BY <1>2, <1>4, <1>5, <2>8 DEF SweepBounded
<1> QED BY <1>6, <1>7

LEMMA BegunReads == Sweep!Begun.read = [s \in Swept |-> Nil] /\ Sweep!Begun.read \in HeldRecords
  BY DEF Sweep!Begun, Sweep!Idle, HeldRecords

LEMMA CollapseBounded ==
  ASSUME SweepIInv, SweepBounded, NEW s \in Swept, Sweep!Collapses(s)
  PROVE  SweepBounded'
<1>1. PICK ok \in BOOLEAN :
        /\ summaries' = IF ok THEN [summaries EXCEPT ![s] = Sweep!SummaryOf(s)] ELSE summaries
        /\ sweep' = IF ok
             THEN [sweep EXCEPT !.step = "delete", !.left = @ \ {s}, !.saved = {s}]
             ELSE [sweep EXCEPT !.left = @ \ {s}, !.read[s] = Nil]
  BY DEF Sweep!Collapses, Sweep!Preserved
<1>2. /\ UNCHANGED <<today, live, stored, logs, lines, archives>>
      /\ s \in sweep.left
  BY DEF Sweep!Collapses, Sweep!recordVars, Sweep!textVars
<1>3. sweep \in Sweeps /\ sweep.read \in HeldRecords /\ sweep.read[s] # Nil
  BY <1>2 DEF SweepBounded, SweepIInv, SweepTypes, LeftIsRead
<1>4. sweep.read[s] \in Sweep!SessionRecord
  BY <1>3 DEF HeldRecords
<1>5. Sweep!SummaryOf(s) \in Sweep!Summary
  <2>1. sweep.read[s].acts \in 1 .. MaxActs
    BY <1>4 DEF Sweep!SessionRecord
  <2>2. Cardinality({l \in logs : l.of = s}) \in 0 .. MaxDay + 1
    BY PromptsFewDays DEF SweepBounded
  <2> QED BY <2>1, <2>2, SweepCardinality DEF Sweep!SummaryOf, Sweep!Summary
<1>6. summaries' \in [Swept -> Sweep!Summary \cup {Nil}]
  BY <1>1, <1>5 DEF SweepBounded
<1>7. sweep'.read \in {sweep.read, [sweep.read EXCEPT ![s] = Nil]}
  BY <1>1, <1>3 DEF Sweeps
<1>8. sweep'.read \in HeldRecords
  BY <1>3, <1>7 DEF HeldRecords
<1> QED BY <1>2, <1>6, <1>8 DEF SweepBounded

LEMMA DeleteBounded ==
  ASSUME SweepIInv, SweepBounded, Sweep!Deletes
  PROVE  SweepBounded'
<1>1. PICK s \in sweep.saved :
        /\ stored' = [stored EXCEPT ![s] = Nil]
        /\ sweep' = [sweep EXCEPT !.step = "collapse", !.saved = {}, !.read[s] = Nil,
                       !.expired = IF stored[s] = Nil THEN @ ELSE @ \cup {s}]
  BY DEF Sweep!Deletes
<1>2. UNCHANGED <<today, live, logs, lines, archives, summaries>>
  BY DEF Sweep!Deletes, Sweep!textVars
<1>3. sweep \in Sweeps /\ sweep.read \in HeldRecords /\ stored \in HeldRecords
  BY DEF SweepBounded, SweepIInv, SweepTypes
<1>4. sweep'.read = [sweep.read EXCEPT ![s] = Nil]
  BY <1>1, <1>3 DEF Sweeps
<1>5. sweep'.read \in HeldRecords /\ stored' \in HeldRecords
  BY <1>1, <1>3, <1>4 DEF HeldRecords
<1> QED BY <1>2, <1>5 DEF SweepBounded

LEMMA SweepBoundedStep == SweepIInv /\ SweepBounded /\ [Sweep!Next]_(Sweep!vars) => SweepBounded'
<1> SUFFICES ASSUME SweepIInv, SweepBounded, [Sweep!Next]_(Sweep!vars) PROVE SweepBounded'
  OBVIOUS
<1>0. \A S \in SUBSET Sweep!Line : \A c : Sweep!Aged(S, c) \subseteq Sweep!Line
  BY DEF Sweep!Aged
<1>1. ASSUME NEW s \in Swept, Sweep!Saves(s) PROVE SweepBounded'
  <2>1. stored' = [stored EXCEPT ![s] = live[s]]
        /\ UNCHANGED <<today, live, logs, lines, archives, summaries, sweep>>
    BY <1>1 DEF Sweep!Saves, Sweep!textVars
  <2>2. stored' \in HeldRecords
    BY <2>1 DEF SweepBounded, HeldRecords
  <2> QED BY <2>1, <2>2 DEF SweepBounded
<1>2. CASE Sweep!DayPasses
  <2>1. today' \in Sweep!Day
    BY <1>2, BoundAssumption DEF Sweep!DayPasses, SweepBounded, Sweep!Day
  <2> QED BY <1>2, <2>1 DEF Sweep!DayPasses, Sweep!recordVars, Sweep!textVars, SweepBounded
<1>3. CASE Sweep!SweepBegins
  BY <1>0, <1>3, BegunReads DEF Sweep!SweepBegins, Sweep!recordVars, SweepBounded
<1>4. CASE Sweep!PrunesLines
  <2>1. sweep'.read = sweep.read
    BY <1>4 DEF Sweep!PrunesLines, SweepIInv, SweepTypes, Sweeps
  <2> QED BY <1>0, <1>4, <2>1 DEF Sweep!PrunesLines, Sweep!recordVars, SweepBounded
<1>5. CASE Sweep!ReadsSessions
  <2>1. PICK old : sweep' = [sweep EXCEPT !.step = "collapse", !.left = old,
                     !.read = [s \in Swept |-> IF s \in old THEN stored[s] ELSE Nil]]
    BY <1>5 DEF Sweep!ReadsSessions
  <2>2. sweep'.read = [s \in Swept |-> IF s \in old THEN stored[s] ELSE Nil]
    BY <2>1 DEF SweepIInv, SweepTypes, Sweeps
  <2>3. sweep'.read \in HeldRecords
    BY <2>2 DEF SweepBounded, HeldRecords
  <2> QED BY <1>5, <2>3 DEF Sweep!ReadsSessions, Sweep!recordVars, Sweep!textVars, SweepBounded
<1>6. CASE Sweep!PrunesArchives
  <2>1. sweep'.read \in HeldRecords
    BY <1>6 DEF Sweep!PrunesArchives, Sweep!Idle, HeldRecords
  <2>2. archives' \subseteq Sweep!Line
    BY <1>6 DEF Sweep!PrunesArchives, Sweep!Aged, SweepBounded
  <2> QED BY <1>6, <2>1, <2>2 DEF Sweep!PrunesArchives, Sweep!recordVars, SweepBounded
<1>7. CASE Sweep!Restarts
  BY <1>0, <1>7, BegunReads DEF Sweep!Restarts, SweepBounded
<1>8. CASE UNCHANGED Sweep!vars
  BY <1>8 DEF Sweep!vars, Sweep!recordVars, Sweep!textVars, SweepBounded
<1> QED
  BY <1>1, <1>2, <1>3, <1>4, <1>5, <1>6, <1>7, <1>8, ActivityBounded, CollapseBounded,
     DeleteBounded DEF Sweep!Next

LEMMA SweepBoundedTypes == SweepIInv /\ SweepBounded => Sweep!TypeOK
  BY DEF SweepIInv, SweepTypes, Sweeps, SweepBounded, HeldRecords, Sweep!TypeOK

-----------------------------------------------------------------------------
(* Deliveries: a payload is only ever in the file it was armed in, and a   *)
(* hook prints a one-shot one after it has emptied that file.              *)

Hooks == [id : Nat, left : Seq(Delivery!Slot), held : Nat, steps : Seq({"remove", "print"})]

DeliveryTypes ==
  /\ clock \in Int /\ begun \in Nat
  /\ expires \in Seq(Int)
  /\ slots \in [Delivery!Slot -> Nat]
  /\ hooks \subseteq Hooks
  /\ \A h \in hooks : h.left # <<>>

(* No payload is newer than the newest.                                    *)
Known ==
  /\ \A slot \in Delivery!Slot : slots[slot] <= Len(expires)
  /\ \A h \in hooks : h.held <= Len(expires)
  /\ \A p \in delivered : p \in Nat /\ p # 0 /\ p <= Len(expires)

(* A payload is in one file, and a hook that holds it had it from there.   *)
OneHome ==
  \A a, b \in Delivery!Slot : a # b /\ slots[a] # 0 => slots[a] # slots[b]

FromHome(h) ==
  h.held # 0 => \A b \in Delivery!Slot : b # Head(h.left) => slots[b] # h.held

(* A one-shot payload is out of its file when it is to be printed.         *)
DeliveryOrdered(h) ==
  h.held # 0 =>
    \/ h.steps = Delivery!Steps(Head(h.left))
    \/ /\ h.steps = <<"print">>
       /\ slots[Head(h.left)] # h.held

DeliveryIInv ==
  /\ DeliveryTypes /\ Known /\ OneHome /\ Delivery!SpentStaysSpent
  /\ \A h \in hooks : FromHome(h) /\ DeliveryOrdered(h)

-----------------------------------------------------------------------------
LEMMA StepsAre ==
  ASSUME NEW slot
  PROVE  /\ Delivery!Steps(slot) \in Seq({"remove", "print"})
         /\ Delivery!OneShot(slot) => Delivery!Steps(slot) = <<"remove", "print">>
         /\ ~Delivery!OneShot(slot) => Delivery!Steps(slot) = <<"print">>
<1>1. <<"print">> \in Seq({"remove", "print"})
  OBVIOUS
<1>2. <<"remove", "print">> \in Seq({"remove", "print"})
  OBVIOUS
<1> QED BY <1>1, <1>2 DEF Delivery!Steps

(* The next hook state: one file on, or one step on at the same file.      *)
LEMMA OnwardIs ==
  ASSUME NEW h \in Hooks, h.left # <<>>
  PROVE  /\ Delivery!Onward(h) \in Hooks
         /\ Delivery!Onward(h).held = 0
<1>1. Tail(h.left) \in Seq(Delivery!Slot)
  BY DEF Hooks
<1>2. Delivery!Onward(h) \in Hooks
  <2>1. <<>> \in Seq({"remove", "print"})
    OBVIOUS
  <2>2. \A l \in Seq(Delivery!Slot), t \in Seq({"remove", "print"}) :
          [h EXCEPT !.left = l, !.held = 0, !.steps = t] \in Hooks
    BY DEF Hooks
  <2> QED BY <1>1, <2>1, <2>2 DEF Delivery!Onward
<1>3. Delivery!Onward(h).held = 0
  BY DEF Delivery!Onward, Hooks
<1> QED BY <1>2, <1>3

LEMMA AfterIs ==
  ASSUME NEW h \in Hooks, h.left # <<>>, h.steps # <<>>
  PROVE  /\ Delivery!After(h) \in Hooks
         /\ Delivery!After(h).held = 0
              \/ /\ Delivery!After(h).held = h.held /\ Delivery!After(h).left = h.left
                 /\ Delivery!After(h).steps = Tail(h.steps) /\ Tail(h.steps) # <<>>
<1>1. CASE Tail(h.steps) = <<>>
  BY <1>1, OnwardIs DEF Delivery!After
<1>2. CASE Tail(h.steps) # <<>>
  <2>1. Delivery!After(h) = [h EXCEPT !.steps = Tail(h.steps)]
    BY <1>2 DEF Delivery!After
  <2>2. Tail(h.steps) \in Seq({"remove", "print"})
    BY DEF Hooks
  <2>3. [h EXCEPT !.steps = Tail(h.steps)] \in Hooks
    BY <2>2 DEF Hooks
  <2>4. /\ Delivery!After(h).held = h.held /\ Delivery!After(h).left = h.left
        /\ Delivery!After(h).steps = Tail(h.steps)
    BY <2>1 DEF Hooks
  <2> QED BY <1>2, <2>1, <2>3, <2>4
<1> QED BY <1>1, <1>2

LEMMA DeliveryInitEstablishes == Delivery!Init => DeliveryIInv
  BY DEF Delivery!Init, DeliveryIInv, DeliveryTypes, Known, OneHome, Delivery!SpentStaysSpent, FromHome, DeliveryOrdered, Hooks

LEMMA ArmPreserves ==
  ASSUME DeliveryIInv, NEW slot \in Delivery!Slot, Delivery!Arms(slot)
  PROVE  DeliveryIInv'
<1>1. /\ expires \in Seq(Int) /\ clock \in Int /\ slots \in [Delivery!Slot -> Nat]
      /\ expires' = Append(expires, clock + 1)
      /\ slots' = [slots EXCEPT ![slot] = Len(expires')]
      /\ UNCHANGED <<clock, hooks, begun, delivered>>
  BY DEF DeliveryIInv, DeliveryTypes, Delivery!Arms
<1> DEFINE n == Len(expires) + 1
<1>2. expires' \in Seq(Int) /\ Len(expires') = n /\ n \in Nat
  BY <1>1
<1>3. /\ slots' \in [Delivery!Slot -> Nat] /\ slots'[slot] = n
      /\ \A b \in Delivery!Slot : b # slot => slots'[b] = slots[b]
  BY <1>1, <1>2
<1>4. /\ \A b \in Delivery!Slot : slots[b] \in Nat /\ slots[b] < n
      /\ \A h \in hooks : h.held \in Nat /\ h.held < n
      /\ \A p \in delivered : p \in Nat /\ p # 0 /\ p < n
  BY <1>1 DEF DeliveryIInv, DeliveryTypes, Known, Hooks
<1> HIDE DEF n
<1>5. DeliveryTypes' /\ Known'
  BY <1>1, <1>2, <1>3, <1>4 DEF DeliveryIInv, DeliveryTypes, Known
<1>6. OneHome' /\ Delivery!SpentStaysSpent'
  BY <1>1, <1>3, <1>4 DEF DeliveryIInv, OneHome, Delivery!SpentStaysSpent
<1>7. ASSUME NEW h \in hooks' PROVE FromHome(h)' /\ DeliveryOrdered(h)'
  <2>1. h \in hooks /\ FromHome(h) /\ DeliveryOrdered(h) /\ h.held # n
    BY <1>1, <1>4, <1>7 DEF DeliveryIInv
  <2>2. Head(h.left) \in Delivery!Slot
    BY <2>1 DEF DeliveryIInv, DeliveryTypes, Hooks
  <2> QED BY <1>3, <2>1, <2>2 DEF FromHome, DeliveryOrdered
<1> QED BY <1>5, <1>6, <1>7 DEF DeliveryIInv

(* A file emptied, by a hook or by the panel, and hooks that go on.        *)
LEMMA EmptyPreserves ==
  ASSUME DeliveryIInv, NEW slot \in Delivery!Slot, slots' = [slots EXCEPT ![slot] = 0],
         UNCHANGED <<clock, expires, begun, delivered>>
  PROVE  /\ slots' \in [Delivery!Slot -> Nat] /\ OneHome' /\ Delivery!SpentStaysSpent'
         /\ \A b \in Delivery!Slot : slots'[b] <= Len(expires)
         /\ \A h \in hooks : FromHome(h)' /\ DeliveryOrdered(h)'
<1>1. /\ slots \in [Delivery!Slot -> Nat] /\ expires \in Seq(Int)
      /\ slots' \in [Delivery!Slot -> Nat] /\ slots'[slot] = 0
      /\ \A b \in Delivery!Slot : b # slot => slots'[b] = slots[b]
  BY DEF DeliveryIInv, DeliveryTypes
<1>2. OneHome'
  BY <1>1 DEF DeliveryIInv, OneHome
<1>3. Delivery!SpentStaysSpent'
  BY <1>1 DEF DeliveryIInv, Delivery!SpentStaysSpent, Known
<1>4. \A b \in Delivery!Slot : slots'[b] <= Len(expires)
  BY <1>1 DEF DeliveryIInv, Known
<1>5. ASSUME NEW h \in hooks PROVE FromHome(h)' /\ DeliveryOrdered(h)'
  <2>1. Head(h.left) \in Delivery!Slot
    BY DEF DeliveryIInv, DeliveryTypes, Hooks
  <2> QED BY <1>1, <2>1 DEF DeliveryIInv, FromHome, DeliveryOrdered
<1> QED BY <1>1, <1>2, <1>3, <1>4, <1>5

(* One hook goes to a state that keeps its part, the files as they are.    *)
LEMMA HookPreserves ==
  ASSUME DeliveryTypes, Known, OneHome', Delivery!SpentStaysSpent',
         \A b \in Delivery!Slot : slots'[b] <= Len(expires), slots' \in [Delivery!Slot -> Nat],
         \A g \in hooks : FromHome(g)' /\ DeliveryOrdered(g)',
         NEW h, NEW new \in Hooks, Delivery!Goes(h, new), new.held <= Len(expires),
         FromHome(new)', DeliveryOrdered(new)',
         \A p \in delivered' : p \in Nat /\ p # 0 /\ p <= Len(expires),
         UNCHANGED <<clock, expires, begun>>
  PROVE  DeliveryIInv'
<1>1. hooks' \subseteq (hooks \cup (IF new.left = <<>> THEN {} ELSE {new}))
  BY DEF Delivery!Goes
<1>2. DeliveryTypes'
  BY <1>1 DEF DeliveryTypes
<1>3. Known'
  BY <1>1 DEF Known
<1>4. \A g \in hooks' : FromHome(g)' /\ DeliveryOrdered(g)'
  BY <1>1
<1> QED BY <1>2, <1>3, <1>4 DEF DeliveryIInv

LEMMA DeliveryReadPreserves ==
  ASSUME DeliveryIInv, NEW h \in hooks, Delivery!Reads(h)
  PROVE  DeliveryIInv'
<1> DEFINE slot == Head(h.left)
<1>1. h \in Hooks /\ h.left # <<>> /\ slot \in Delivery!Slot /\ slots \in [Delivery!Slot -> Nat]
  BY DEF DeliveryIInv, DeliveryTypes, Hooks
<1>2. UNCHANGED <<clock, slots, expires, begun, delivered>>
  BY DEF Delivery!Reads
<1>3. PICK new :
        /\ Delivery!Goes(h, new)
        /\ slots[slot] = 0 => new = Delivery!Onward(h)
        /\ slots[slot] # 0 => new = [h EXCEPT !.held = slots[slot], !.steps = Delivery!Steps(slot)]
  BY DEF Delivery!Reads
<1>4. /\ new \in Hooks /\ new.held <= Len(expires)
      /\ FromHome(new)' /\ DeliveryOrdered(new)'
  <2>1. CASE slots[slot] = 0
    <3>1. new \in Hooks /\ new.held = 0
      BY <1>1, <1>3, <2>1, OnwardIs
    <3> QED BY <3>1 DEF DeliveryIInv, DeliveryTypes, FromHome, DeliveryOrdered
  <2>2. CASE slots[slot] # 0
    <3>1. Delivery!Steps(slot) \in Seq({"remove", "print"})
      BY StepsAre
    <3>2. /\ new \in Hooks /\ new.held = slots[slot] /\ new.left = h.left
          /\ new.steps = Delivery!Steps(slot)
      BY <1>1, <1>3, <2>2, <3>1 DEF Hooks
    <3> QED
      BY <1>1, <1>2, <2>2, <3>2 DEF DeliveryIInv, Known, OneHome, FromHome, DeliveryOrdered
  <2> QED BY <2>1, <2>2
<1>5. /\ OneHome' /\ Delivery!SpentStaysSpent' /\ slots' \in [Delivery!Slot -> Nat]
      /\ \A b \in Delivery!Slot : slots'[b] <= Len(expires)
      /\ \A g \in hooks : FromHome(g)' /\ DeliveryOrdered(g)'
      /\ \A p \in delivered' : p \in Nat /\ p # 0 /\ p <= Len(expires)
  BY <1>1, <1>2 DEF DeliveryIInv, Known, OneHome, Delivery!SpentStaysSpent, FromHome, DeliveryOrdered
<1> QED
  BY <1>2, <1>3, <1>4, <1>5, HookPreserves DEF DeliveryIInv

LEMMA RemovePreserves ==
  ASSUME DeliveryIInv, NEW h \in hooks, Delivery!Removes(h)
  PROVE  DeliveryIInv'
<1> DEFINE slot == Head(h.left)
           new == Delivery!After(h)
<1>1. h \in Hooks /\ h.left # <<>> /\ slot \in Delivery!Slot
  BY DEF DeliveryIInv, DeliveryTypes, Hooks
<1>2. /\ h.held # 0 /\ Head(h.steps) = "remove" /\ slots' = [slots EXCEPT ![slot] = 0]
      /\ UNCHANGED <<clock, expires, begun, delivered>> /\ Delivery!Goes(h, new)
  BY DEF Delivery!Removes
<1>3. h.steps = <<"remove", "print">>
  BY <1>2, StepsAre DEF DeliveryIInv, DeliveryOrdered
<1>4. /\ new \in Hooks
      /\ new.held = 0 \/ (new.held = h.held /\ new.left = h.left /\ new.steps = <<"print">>)
  <2>1. h.steps # <<>> /\ Tail(h.steps) = <<"print">>
    BY <1>3
  <2> QED BY <1>1, <2>1, AfterIs
<1>5. slots'[slot] = 0 /\ \A b \in Delivery!Slot : b # slot => slots'[b] = slots[b]
  BY <1>1, <1>2 DEF DeliveryIInv, DeliveryTypes
<1>6. new.held <= Len(expires)
  BY <1>4 DEF DeliveryIInv, DeliveryTypes, Known
<1> HIDE DEF new
<1>7. FromHome(new)' /\ DeliveryOrdered(new)'
  BY <1>2, <1>4, <1>5 DEF DeliveryIInv, FromHome, DeliveryOrdered
<1> QED
  BY <1>1, <1>2, <1>4, <1>6, <1>7, EmptyPreserves, HookPreserves DEF DeliveryIInv, Known

LEMMA PrintPreserves ==
  ASSUME DeliveryIInv, NEW h \in hooks, Delivery!Prints(h)
  PROVE  DeliveryIInv'
<1> DEFINE slot == Head(h.left)
           new == Delivery!After(h)
<1>1. h \in Hooks /\ h.left # <<>> /\ slot \in Delivery!Slot
  BY DEF DeliveryIInv, DeliveryTypes, Hooks
<1>2. /\ h.held # 0 /\ Head(h.steps) = "print"
      /\ delivered' \subseteq delivered \cup {h.held}
      /\ UNCHANGED <<clock, slots, expires, begun>> /\ Delivery!Goes(h, new)
  BY DEF Delivery!Prints
<1>3. h.steps = <<"print">>
  BY <1>2, StepsAre DEF DeliveryIInv, DeliveryOrdered
<1>4. Delivery!OneShot(slot) => slots[slot] # h.held
  BY <1>2, <1>3, StepsAre DEF DeliveryIInv, DeliveryOrdered
<1>5. new \in Hooks /\ new.held = 0
  <2>1. h.steps # <<>> /\ Tail(h.steps) = <<>>
    BY <1>3
  <2> QED BY <1>1, <2>1, AfterIs
<1>6. Delivery!SpentStaysSpent'
  BY <1>2, <1>4 DEF DeliveryIInv, Delivery!SpentStaysSpent, FromHome
<1>7. /\ new.held <= Len(expires)
      /\ h.held \in Nat /\ h.held <= Len(expires)
  BY <1>1, <1>5 DEF DeliveryIInv, DeliveryTypes, Known, Hooks
<1> HIDE DEF new
<1>8. FromHome(new)' /\ DeliveryOrdered(new)'
  BY <1>5 DEF FromHome, DeliveryOrdered
<1>9. /\ \A p \in delivered' : p \in Nat /\ p # 0 /\ p <= Len(expires)
      /\ OneHome' /\ slots' \in [Delivery!Slot -> Nat]
      /\ \A b \in Delivery!Slot : slots'[b] <= Len(expires)
      /\ \A g \in hooks : FromHome(g)' /\ DeliveryOrdered(g)'
  BY <1>2, <1>7 DEF DeliveryIInv, DeliveryTypes, Known, OneHome, FromHome, DeliveryOrdered
<1> QED
  BY <1>2, <1>5, <1>6, <1>7, <1>8, <1>9, HookPreserves DEF DeliveryIInv

LEMMA StartPreserves ==
  ASSUME DeliveryIInv, NEW s \in Session, Delivery!Starts(s)
  PROVE  DeliveryIInv'
<1>1. PICK visit \in Delivery!Visits(s) :
        hooks' = hooks \cup {[id |-> begun, left |-> visit, held |-> 0, steps |-> <<>>]}
  BY DEF Delivery!Starts
<1> DEFINE new == [id |-> begun, left |-> visit, held |-> 0, steps |-> <<>>]
<1>2. UNCHANGED <<clock, slots, expires, delivered>> /\ begun' = begun + 1
  BY DEF Delivery!Starts
<1>3. visit \in Seq(Delivery!Slot) /\ visit # <<>>
  <2>1. <<"next">> \in Delivery!Slot /\ <<"now", s>> \in Delivery!Slot /\ <<"pinned", s>> \in Delivery!Slot
    BY DEF Delivery!Slot
  <2>2. << <<"next">> >> \in Seq(Delivery!Slot) /\ << <<"next">> >> # <<>>
    BY <2>1
  <2>3. /\ << <<"now", s>>, <<"pinned", s>> >> \in Seq(Delivery!Slot)
        /\ << <<"now", s>>, <<"pinned", s>> >> # <<>>
    BY <2>1
  <2> QED BY <2>2, <2>3 DEF Delivery!Visits
<1>4. new \in Hooks /\ new.held = 0 /\ new.left # <<>>
  BY <1>3 DEF DeliveryIInv, DeliveryTypes, Hooks
<1> HIDE DEF new
<1>5. DeliveryTypes' /\ Known'
  BY <1>1, <1>2, <1>4 DEF DeliveryIInv, DeliveryTypes, Known, new
<1>6. OneHome' /\ Delivery!SpentStaysSpent'
  BY <1>2 DEF DeliveryIInv, OneHome, Delivery!SpentStaysSpent
<1>7. \A g \in hooks' : FromHome(g)' /\ DeliveryOrdered(g)'
  BY <1>1, <1>2, <1>4 DEF DeliveryIInv, FromHome, DeliveryOrdered, new
<1> QED BY <1>5, <1>6, <1>7 DEF DeliveryIInv

LEMMA DeliveryStepPreserves == DeliveryIInv /\ [Delivery!Next]_(Delivery!vars) => DeliveryIInv'
<1> SUFFICES ASSUME DeliveryIInv, [Delivery!Next]_(Delivery!vars) PROVE DeliveryIInv'
  OBVIOUS
<1>1. ASSUME NEW slot \in Delivery!Slot, Delivery!Arms(slot) PROVE DeliveryIInv'
  BY <1>1, ArmPreserves
<1>2. ASSUME NEW slot \in Delivery!Slot, Delivery!Disarms(slot) PROVE DeliveryIInv'
  <2>1. /\ slots' = [slots EXCEPT ![slot] = 0]
        /\ UNCHANGED <<clock, expires, hooks, begun, delivered>>
    BY <1>2 DEF Delivery!Disarms
  <2> QED BY <1>2, <2>1, EmptyPreserves DEF DeliveryIInv, DeliveryTypes, Known
<1>3. CASE Delivery!Tick
  BY <1>3 DEF Delivery!Tick, DeliveryIInv, DeliveryTypes, Known, OneHome, Delivery!SpentStaysSpent, FromHome, DeliveryOrdered
<1>4. ASSUME NEW s \in Session, Delivery!Starts(s) PROVE DeliveryIInv'
  BY <1>4, StartPreserves
<1>5. ASSUME NEW h \in hooks, Delivery!Reads(h) PROVE DeliveryIInv'
  BY <1>5, DeliveryReadPreserves
<1>6. ASSUME NEW h \in hooks, Delivery!Removes(h) PROVE DeliveryIInv'
  BY <1>6, RemovePreserves
<1>7. ASSUME NEW h \in hooks, Delivery!Prints(h) PROVE DeliveryIInv'
  BY <1>7, PrintPreserves
<1>8. ASSUME NEW h \in hooks, Delivery!Dies(h) PROVE DeliveryIInv'
  BY <1>8 DEF Delivery!Dies, DeliveryIInv, DeliveryTypes, Known, OneHome, Delivery!SpentStaysSpent, FromHome, DeliveryOrdered
<1>9. CASE UNCHANGED Delivery!vars
  BY <1>9 DEF Delivery!vars, DeliveryIInv, DeliveryTypes, Known, OneHome, Delivery!SpentStaysSpent, FromHome, DeliveryOrdered
<1> QED
  BY <1>1, <1>2, <1>3, <1>4, <1>5, <1>6, <1>7, <1>8, <1>9 DEF Delivery!Next

-----------------------------------------------------------------------------
(* The bounds of the instance and the types.                               *)
DeliveryBounded == clock \in 0 .. MaxTime

LEMMA DeliveryBoundedInit == Delivery!Init => DeliveryBounded
  BY BoundAssumption DEF Delivery!Init, DeliveryBounded

LEMMA DeliveryBoundedStep == DeliveryBounded /\ [Delivery!Next]_(Delivery!vars) => DeliveryBounded'
<1> SUFFICES ASSUME DeliveryBounded, [Delivery!Next]_(Delivery!vars) PROVE DeliveryBounded'
  OBVIOUS
<1>1. UNCHANGED clock \/ Delivery!Tick
  BY DEF Delivery!Next, Delivery!vars, Delivery!Arms, Delivery!Disarms, Delivery!Starts, Delivery!Reads, Delivery!Removes, Delivery!Prints, Delivery!Dies
<1> QED BY <1>1, BoundAssumption DEF Delivery!Tick, DeliveryBounded

LEMMA DeliveryBoundedTypes == DeliveryIInv /\ DeliveryBounded => Delivery!TypeOK
<1> SUFFICES ASSUME DeliveryIInv, DeliveryBounded PROVE Delivery!TypeOK
  OBVIOUS
<1>1. Len(expires) \in Nat /\ Delivery!Payload = 1 .. Len(expires)
  BY DEF DeliveryIInv, DeliveryTypes, Delivery!Payload
<1>2. /\ slots \in [Delivery!Slot -> Nat] /\ \A slot \in Delivery!Slot : slots[slot] <= Len(expires)
      /\ \A h \in hooks : h.held \in Nat /\ h.held <= Len(expires) /\ h.left # <<>>
      /\ \A p \in delivered : p \in Nat /\ p # 0 /\ p <= Len(expires)
  BY DEF DeliveryIInv, DeliveryTypes, Known, Hooks
<1>3. \A n \in Nat : n <= Len(expires) =>
        n \in 0 .. Len(expires) /\ (n # 0 => n \in 1 .. Len(expires))
  BY <1>1
<1>4. slots \in [Delivery!Slot -> 0 .. Len(expires)]
  BY <1>2, <1>3
<1> QED BY <1>1, <1>2, <1>3, <1>4 DEF DeliveryBounded, Delivery!TypeOK

-----------------------------------------------------------------------------
(* The research index: what is loaded is what was saved, so the file and   *)
(* every snapshot on its way to it must be well formed too, and a snapshot *)
(* that is not overtaken must still be the index.                          *)

LEMMA ResearchNatMin ==
  ASSUME NEW T, T \subseteq Nat, T # {}
  PROVE  \E m \in T : \A n \in T : m <= n
<1>1. PICK x \in T : \A y \in T : ~ (<<y, x>> \in OpToRel(<,Nat))
  BY NatLessThanWellFounded, WFMin
<1>2. \A y \in T : ~(y < x)
  BY <1>1, Zenon DEF OpToRel
<1>3. \A y \in T : x <= y
  BY <1>2
<1> QED BY <1>3

(* An index whose postings and lengths are those of its items.             *)
Agrees(x) ==
  /\ x.indexed = x.items
  /\ x.postings = [t \in Term |-> {d \in x.items : t \in TermsOf[d]}]

WellFormed(x) == x \in Research!Index /\ Agrees(x)

IndexInv ==
  /\ logged \subseteq Doc
  /\ WellFormed(Research!Snapshot) /\ WellFormed(file)
  /\ \A s \in saves : WellFormed(s)

SavesAreCurrent == ~overtaken => \A s \in saves : s = Research!Snapshot

Inv == IndexInv /\ SavesAreCurrent /\ Research!CleanIsSaved

-----------------------------------------------------------------------------
(* Adding an item to a well-formed index leaves it well formed.            *)
LEMMA AddedAgrees ==
  ASSUME NEW x, WellFormed(x), NEW d \in Doc
  PROVE  WellFormed(Research!Added(x, d))
<1> DEFINE y == Research!Added(x, d)
<1>1. /\ y.items = x.items \cup {d} /\ y.indexed = x.indexed \cup {d}
      /\ y.postings = [t \in Term |-> IF t \in TermsOf[d] THEN x.postings[t] \cup {d}
                                      ELSE x.postings[t] \ {d}]
  BY DEF Research!Added
<1>2. y \in Research!Index
  BY DEF Research!Added, WellFormed, Research!Index
<1>3. \A t \in Term : y.postings[t] = {e \in y.items : t \in TermsOf[e]}
  BY <1>1 DEF WellFormed, Agrees, Research!Index
<1>4. y.postings = [t \in Term |-> {e \in y.items : t \in TermsOf[e]}]
  BY <1>1, <1>3
<1>5. y.indexed = y.items
  BY <1>1 DEF WellFormed, Agrees
<1> QED
  BY <1>2, <1>4, <1>5 DEF WellFormed, Agrees

(* So does dropping some, whichever they are.                              *)
LEMMA DroppedAgrees ==
  ASSUME NEW x, WellFormed(x), NEW S
  PROVE  WellFormed(Research!Dropped(x, S))
<1> DEFINE y == Research!Dropped(x, S)
<1>1. /\ y.items = x.items \ S /\ y.indexed = x.indexed \ S
      /\ y.postings = [t \in Term |-> x.postings[t] \ S]
  BY DEF Research!Dropped
<1>2. y \in Research!Index
  BY DEF Research!Dropped, WellFormed, Research!Index
<1>3. \A t \in Term : y.postings[t] = {e \in y.items : t \in TermsOf[e]}
  BY <1>1 DEF WellFormed, Agrees, Research!Index
<1>4. y.postings = [t \in Term |-> {e \in y.items : t \in TermsOf[e]}]
  BY <1>1, <1>3
<1>5. y.indexed = y.items
  BY <1>1 DEF WellFormed, Agrees
<1> QED
  BY <1>2, <1>4, <1>5 DEF WellFormed, Agrees

LEMMA TrimmedAgrees ==
  ASSUME NEW x, WellFormed(x)
  PROVE  WellFormed(Research!Trimmed(x))
BY DroppedAgrees DEF Research!Trimmed

(* An index built anew from a set of items is well formed.                 *)
LEMMA RebuiltAgrees ==
  ASSUME NEW S \in SUBSET Doc
  PROVE  WellFormed([items |-> S, indexed |-> S,
                     postings |-> [t \in Term |-> {d \in S : t \in TermsOf[d]}]])
BY DEF WellFormed, Agrees, Research!Index

LEMMA LoadedAgrees ==
  ASSUME NEW x, WellFormed(x)
  PROVE  WellFormed(Research!Loaded(x))
<1>1. x.items \in SUBSET Doc
  BY DEF WellFormed, Research!Index
<1> QED
  BY <1>1, RebuiltAgrees DEF Research!Loaded

(* An index is put together from its parts again.                          *)
LEMMA HeldIsSnapshot ==
  ASSUME NEW x \in Research!Index, Research!Holds(x)
  PROVE  Research!Snapshot' = x
BY DEF Research!Holds, Research!Index, Research!Snapshot

-----------------------------------------------------------------------------
LEMMA InitIsWellFormed == Research!Init => Inv
<1> SUFFICES ASSUME Research!Init PROVE Inv
  OBVIOUS
<1>1. WellFormed(Research!NoIndex)
  BY DEF WellFormed, Agrees, Research!Index, Research!NoIndex
<1>2. Research!Snapshot = Research!NoIndex
  BY DEF Research!Init, Research!Snapshot, Research!NoIndex
<1> QED
  BY <1>1, <1>2 DEF Research!Init, Inv, IndexInv, SavesAreCurrent, Research!CleanIsSaved

LEMMA StepKeepsIndex == Inv /\ [Research!Next]_(Research!vars) => IndexInv'
<1> SUFFICES ASSUME Inv, [Research!Next]_(Research!vars) PROVE IndexInv'
  OBVIOUS
<1> USE DEF Inv, IndexInv
<1>1. ASSUME NEW d \in Doc, Research!Ingest(d) PROVE IndexInv'
  <2>1. WellFormed(Research!Trimmed(Research!Added(Research!Snapshot, d)))
    BY AddedAgrees, TrimmedAgrees
  <2>2. Research!Snapshot' = Research!Trimmed(Research!Added(Research!Snapshot, d))
    BY <1>1, <2>1, HeldIsSnapshot DEF Research!Ingest, WellFormed
  <2> QED
    BY <1>1, <2>1, <2>2 DEF Research!Ingest
<1>2. CASE Research!EmbedBegins \/ Research!EmbedEnds
  BY <1>2 DEF Research!EmbedBegins, Research!EmbedEnds, Research!indexVars, Research!Snapshot
<1>3. CASE Research!FlushBegins
  BY <1>3 DEF Research!FlushBegins, Research!indexVars, Research!Snapshot
<1>4. ASSUME NEW s \in saves, Research!FlushLands(s) PROVE IndexInv'
  BY <1>4 DEF Research!FlushLands, Research!Snapshot
<1>5. CASE Research!Restarts
  <2> DEFINE x == IF file.items = {} THEN Research!Trimmed(Research!Backfilled) ELSE Research!Loaded(file)
  <2>1. WellFormed(x)
    BY RebuiltAgrees, TrimmedAgrees, LoadedAgrees DEF Research!Backfilled
  <2>2. Research!Holds(x)
    BY <1>5 DEF Research!Restarts
  <2>3. Research!Snapshot' = x
    BY <2>1, <2>2, HeldIsSnapshot DEF WellFormed
  <2> QED
    BY <1>5, <2>1, <2>3 DEF Research!Restarts
<1>6. CASE UNCHANGED Research!vars
  BY <1>6 DEF Research!vars, Research!indexVars, Research!Snapshot
<1> QED
  BY <1>1, <1>2, <1>3, <1>4, <1>5, <1>6 DEF Research!Next

LEMMA StepKeepsSaved == Inv /\ [Research!Next]_(Research!vars) => SavesAreCurrent' /\ Research!CleanIsSaved'
<1> SUFFICES ASSUME Inv, [Research!Next]_(Research!vars) PROVE SavesAreCurrent' /\ Research!CleanIsSaved'
  OBVIOUS
<1> USE DEF Inv, SavesAreCurrent, Research!CleanIsSaved
<1>1. ASSUME NEW d \in Doc, Research!Ingest(d) PROVE SavesAreCurrent' /\ Research!CleanIsSaved'
  BY <1>1 DEF Research!Ingest
<1>2. CASE Research!EmbedBegins \/ Research!EmbedEnds
  BY <1>2 DEF Research!EmbedBegins, Research!EmbedEnds, Research!indexVars, Research!Snapshot
<1>3. CASE Research!FlushBegins
  BY <1>3 DEF Research!FlushBegins, Research!indexVars, Research!Snapshot
<1>4. ASSUME NEW s \in saves, Research!FlushLands(s) PROVE SavesAreCurrent' /\ Research!CleanIsSaved'
  BY <1>4 DEF Research!FlushLands, Research!AfterFailure, Research!Snapshot
<1>5. CASE Research!Restarts
  <2> DEFINE x == IF file.items = {} THEN Research!Trimmed(Research!Backfilled) ELSE Research!Loaded(file)
  <2>1. Research!Holds(x) /\ dirty' = (x # file) /\ file' = file /\ saves' = {}
    BY <1>5 DEF Research!Restarts
  <2>2. ~dirty' => file' = Research!Snapshot'
    BY <2>1, HeldIsSnapshot DEF IndexInv, WellFormed
  <2> QED
    BY <2>1, <2>2
<1>6. CASE UNCHANGED Research!vars
  BY <1>6 DEF Research!vars, Research!indexVars, Research!Snapshot
<1> QED
  BY <1>1, <1>2, <1>3, <1>4, <1>5, <1>6 DEF Research!Next

LEMMA ResearchStepPreserves == Inv /\ [Research!Next]_(Research!vars) => Inv'
  BY StepKeepsIndex, StepKeepsSaved DEF Inv

-----------------------------------------------------------------------------
(* The bounds of the instance and the types: every index that is loaded,   *)
(* saved or searched holds MaxItems items at most.                         *)
Small(x) == IsFiniteSet(x.items) /\ Cardinality(x.items) <= MaxItems

ResearchBounded ==
  /\ Small(Research!Snapshot) /\ Small(file) /\ \A s \in saves : Small(s)
  /\ IsFiniteSet(logged) /\ vectors \subseteq Doc /\ embedding \subseteq Doc

(* The part counts as this module does.                                    *)
LEMMA ResearchCardinality ==
  ASSUME NEW S PROVE Research!Cardinality(S) = Cardinality(S)
  BY DEF Research!Cardinality, Cardinality

(* The first n of S, by induction on n.                                    *)
LEMMA OldestExists ==
  ASSUME NEW S, S \subseteq Nat, IsFiniteSet(S), NEW n \in 0 .. Cardinality(S)
  PROVE  \E T \in SUBSET S : Cardinality(T) = n /\ \A d \in T, e \in S \ T : d < e
<1> DEFINE Splits(T, k) == Cardinality(T) = k /\ \A d \in T, e \in S \ T : d < e
           Bad == {k \in 0 .. Cardinality(S) : ~\E T \in SUBSET S : Splits(T, k)}
<1>0. Cardinality(S) \in Nat
  BY FS_CardinalityType
<1> SUFFICES ASSUME Bad # {} PROVE FALSE
  OBVIOUS
<1>1. PICK m \in Bad : \A k \in Bad : m <= k
  <2>1. Bad \subseteq Nat
    OBVIOUS
  <2> HIDE DEF Bad
  <2> QED BY <2>1, ResearchNatMin
<1>2. m \in 0 .. Cardinality(S) /\ ~\E T \in SUBSET S : Splits(T, m)
  BY <1>1
<1>3. CASE m = 0
  <2>1. Splits({}, 0)
    BY FS_EmptySet
  <2> QED BY <1>2, <1>3, <2>1
<1>4. CASE m # 0
  <2>1. m - 1 \in 0 .. Cardinality(S) /\ m - 1 \notin Bad
    BY <1>0, <1>1, <1>2, <1>4
  <2>2. PICK T \in SUBSET S : Splits(T, m - 1)
    BY <2>1
  <2>3. IsFiniteSet(T) /\ Cardinality(T) = m - 1
    BY <2>2, FS_Subset
  <2>4. S \ T # {}
    <3>1. T \subseteq S /\ m - 1 # Cardinality(S)
      BY <1>0, <1>2
    <3>2. T # S
      BY <2>3, <3>1
    <3> QED BY <3>1, <3>2
  <2>5. PICK x \in S \ T : \A y \in S \ T : x <= y
    <3>1. PICK R : R = S \ T
      OBVIOUS
    <3>2. R \subseteq Nat /\ R # {}
      BY <2>4, <3>1
    <3> QED BY <3>1, <3>2, ResearchNatMin
  <2> DEFINE U == T \cup {x}
  <2>6. Cardinality(U) = m
    <3>1. Cardinality(U) = Cardinality(T) + 1
      BY <2>3, <2>5, FS_AddElement
    <3> QED BY <1>0, <1>2, <2>3, <3>1
  <2>7. \A d \in U, e \in S \ U : d < e
    <3>1. \A e \in S \ U : e \in S \ T /\ e # x /\ e \in Nat
      OBVIOUS
    <3>2. \A e \in S \ U : x < e
      BY <2>5, <3>1
    <3>3. \A d \in T, e \in S \ U : d < e
      BY <2>2, <3>1
    <3> QED BY <3>2, <3>3
  <2>8. U \in SUBSET S
    OBVIOUS
  <2> HIDE DEF U
  <2> QED BY <1>2, <2>6, <2>7, <2>8
<1> QED BY <1>3, <1>4

(* trim leaves what there is room for.                                     *)
LEMMA TrimmedSmall ==
  ASSUME NEW x, x.items \subseteq Doc, IsFiniteSet(x.items)
  PROVE  Small(Research!Trimmed(x))
<1>0. Cardinality(x.items) \in Nat
  BY FS_CardinalityType
<1>1. CASE Cardinality(x.items) <= MaxItems
  BY <1>1, ResearchCardinality DEF Research!Trimmed, Small
<1>2. CASE ~(Cardinality(x.items) <= MaxItems)
  <2>1. PICK S, n, T : /\ S = x.items /\ n = Cardinality(S) - MaxItems /\ T = Research!Oldest(S, n)
    OBVIOUS
  <2>2. n \in 0 .. Cardinality(S) /\ Cardinality(S) \in Nat /\ Cardinality(S) - n = MaxItems
    BY <1>0, <1>2, <2>1, BoundAssumption
  <2>3. S \subseteq Nat /\ IsFiniteSet(S)
    BY <2>1, BoundAssumption
  <2>4. T \in SUBSET S /\ Cardinality(T) = n
    <3>1. \E R \in SUBSET S : Cardinality(R) = n /\ \A d \in R, e \in S \ R : d < e
      BY <2>2, <2>3, OldestExists
    <3>2. \E R \in SUBSET S : Research!Cardinality(R) = n /\ \A d \in R, e \in S \ R : d < e
      BY <3>1, ResearchCardinality
    <3>3. T \in SUBSET S /\ Research!Cardinality(T) = n
      BY <2>1, <3>2 DEF Research!Oldest
    <3> QED BY <3>3, ResearchCardinality
  <2>5. IsFiniteSet(S \ T) /\ Cardinality(S \ T) = MaxItems
    <3>1. IsFiniteSet(S \ T) /\ Cardinality(S \ T) = Cardinality(S) - Cardinality(S \cap T)
      BY <2>3, FS_Difference
    <3>2. S \cap T = T
      BY <2>4
    <3> QED BY <2>2, <2>4, <3>1, <3>2
  <2>6. Research!Trimmed(x) = Research!Dropped(x, T)
    BY <1>2, <2>1, ResearchCardinality DEF Research!Trimmed
  <2>7. Research!Trimmed(x).items = S \ T
    BY <2>1, <2>6 DEF Research!Dropped
  <2> QED BY <2>5, <2>7, BoundAssumption DEF Small
<1> QED BY <1>1, <1>2

LEMMA ResearchBoundedInit == Research!Init => ResearchBounded
<1> SUFFICES ASSUME Research!Init PROVE ResearchBounded
  OBVIOUS
<1>1. IsFiniteSet({}) /\ Cardinality({}) = 0
  BY FS_EmptySet
<1>2. Research!Snapshot.items = {} /\ file.items = {} /\ saves = {} /\ logged = {}
      /\ vectors = {} /\ embedding = {}
  BY DEF Research!Init, Research!Snapshot, Research!NoIndex
<1> QED BY <1>1, <1>2, BoundAssumption DEF ResearchBounded, Small

LEMMA ResearchBoundedStep == Inv /\ ResearchBounded /\ [Research!Next]_(Research!vars) => ResearchBounded'
<1> SUFFICES ASSUME Inv, ResearchBounded, [Research!Next]_(Research!vars) PROVE ResearchBounded'
  OBVIOUS
<1>0. /\ logged \subseteq Doc /\ items \subseteq Doc /\ Research!Snapshot \in Research!Index /\ file \in Research!Index
      /\ WellFormed(Research!Snapshot) /\ WellFormed(file)
  BY DEF Inv, IndexInv, WellFormed, Research!Snapshot, Research!Index
<1>1. ASSUME NEW d \in Doc, Research!Ingest(d) PROVE ResearchBounded'
  <2>1. PICK x : x = Research!Added(Research!Snapshot, d)
    OBVIOUS
  <2>2. WellFormed(x) /\ WellFormed(Research!Trimmed(x))
    BY <1>0, <2>1, AddedAgrees, TrimmedAgrees
  <2>3. x.items \subseteq Doc /\ IsFiniteSet(x.items)
    <3>1. x.items = Research!Snapshot.items \cup {d}
      BY <2>1 DEF Research!Added
    <3> QED BY <1>0, <3>1, FS_AddElement DEF ResearchBounded, Small, Research!Index
  <2>4. Small(Research!Trimmed(x))
    BY <2>3, TrimmedSmall
  <2>5. Research!Snapshot' = Research!Trimmed(x)
    BY <1>1, <2>1, <2>2, HeldIsSnapshot DEF Research!Ingest, WellFormed
  <2>6. IsFiniteSet(logged')
    BY <1>1, FS_AddElement DEF Research!Ingest, ResearchBounded
  <2>7. UNCHANGED <<vectors, saves, file, embedding>>
    BY <1>1 DEF Research!Ingest
  <2>8. Small(Research!Snapshot')
    BY <2>4, <2>5
  <2> QED BY <2>6, <2>7, <2>8 DEF ResearchBounded, Small
<1>2. CASE Research!EmbedBegins \/ Research!EmbedEnds
  <2>1. UNCHANGED <<items, postings, indexed, saves, file, logged>>
        /\ vectors' \subseteq Doc /\ embedding' \subseteq Doc
    BY <1>0, <1>2 DEF Research!EmbedBegins, Research!EmbedEnds, Research!indexVars, ResearchBounded
  <2> QED BY <2>1 DEF ResearchBounded, Small, Research!Snapshot
<1>3. CASE Research!FlushBegins
  BY <1>3 DEF Research!FlushBegins, Research!indexVars, ResearchBounded, Small, Research!Snapshot
<1>4. ASSUME NEW s \in saves, Research!FlushLands(s) PROVE ResearchBounded'
  <2>1. UNCHANGED <<items, postings, indexed, vectors, embedding, logged>>
        /\ saves' \subseteq saves /\ file' \in {s, file}
    BY <1>4 DEF Research!FlushLands
  <2> QED BY <2>1 DEF ResearchBounded, Small, Research!Snapshot
<1>5. CASE Research!Restarts
  <2>1. PICK x : x = IF file.items = {} THEN Research!Trimmed(Research!Backfilled) ELSE Research!Loaded(file)
    OBVIOUS
  <2>2. Research!Holds(x) /\ vectors' \subseteq Doc /\ saves' = {} /\ embedding' = {}
        /\ UNCHANGED <<file, logged>>
    BY <1>5, <2>1 DEF Research!Restarts, ResearchBounded
  <2>3. Small(x)
    <3>1. CASE file.items = {}
      <4>1. Research!Backfilled.items = logged
        BY DEF Research!Backfilled
      <4> QED BY <1>0, <2>1, <3>1, <4>1, TrimmedSmall DEF ResearchBounded
    <3>2. CASE file.items # {}
      <4>1. Research!Loaded(file).items = file.items
        BY DEF Research!Loaded
      <4> QED BY <2>1, <3>2, <4>1 DEF ResearchBounded, Small
    <3> QED BY <3>1, <3>2
  <2>4. Research!Snapshot'.items = x.items
    BY <2>2 DEF Research!Holds, Research!Snapshot
  <2> QED BY <2>2, <2>3, <2>4 DEF ResearchBounded, Small
<1>6. CASE UNCHANGED Research!vars
  BY <1>6 DEF Research!vars, Research!indexVars, ResearchBounded, Small, Research!Snapshot
<1> QED BY <1>1, <1>2, <1>3, <1>4, <1>5, <1>6 DEF Research!Next

LEMMA ResearchBoundedTypes == Inv /\ ResearchBounded => Research!TypeOK
<1> SUFFICES ASSUME Inv, ResearchBounded PROVE Research!TypeOK
  OBVIOUS
<1>1. Research!Snapshot \in Research!Index /\ file \in Research!Index /\ saves \subseteq Research!Index /\ logged \subseteq Doc
  BY DEF Inv, IndexInv, WellFormed
<1>2. Cardinality(items) <= MaxItems
  BY DEF ResearchBounded, Small, Research!Snapshot
<1> QED BY <1>1, <1>2, ResearchCardinality DEF ResearchBounded, Research!TypeOK

-----------------------------------------------------------------------------
(* The agents: records have ids of their own, links and records lead to    *)
(* each other, an agent that has stopped is completed or was evicted, and  *)
(* parents come from the directories alone.  That holds of any replay of   *)
(* the log, since one event keeps it and the sort permutes the log.        *)

(* The part counts as this module does.                                    *)
LEMMA AgentsCardinality ==
  ASSUME NEW S PROVE Agents!Cardinality(S) = Cardinality(S)
  BY DEF Agents!Cardinality, Cardinality

(* What holds of the records q, the links b and the evicted agents e when  *)
(* the calls S and the stops of the agents D have been taken in, and p     *)
(* says who spawned whom.                                                  *)

(* A record has an id of its own: its spawn call's, or its agent's.        *)
Unique(q, S) ==
  /\ \A i, j \in 1 .. Len(q) : i # j => q[i].id # q[j].id
  /\ \A i \in 1 .. Len(q) : /\ q[i].id \in Spawn => q[i].id \in S
                            /\ q[i].id \in Agent => q[i].agent = q[i].id

OneToOne(q, b) ==
  /\ \A a \in Agent : b[a] # Nil => \E i \in 1 .. Len(q) : q[i].id = b[a] /\ q[i].agent = a
  /\ \A i \in 1 .. Len(q) : q[i].agent # Nil => b[q[i].agent] = q[i].id
  /\ \A i \in 1 .. Len(q) : q[i].calls \subseteq {q[i].agent}

Lineage(q, p) ==
  \A i \in 1 .. Len(q) :
    q[i].parent # Nil => q[i].agent # Nil /\ q[i].parent = p[q[i].agent]

(* An agent that has stopped is completed, or evicted.                     *)
Final(q, b, e, D) ==
  \A a \in D \ e : /\ b[a] # Nil
                   /\ \A i \in 1 .. Len(q) : q[i].agent = a => q[i].status = "completed"

Sound(q, b, e, S, D, p) ==
  /\ q \in Seq(Agents!RecordType) /\ b \in [Agent -> Spawn \cup Agent \cup {Nil}]
  /\ e \in SUBSET Agent /\ Len(q) <= MaxAgents
  /\ Unique(q, S) /\ OneToOne(q, b) /\ Lineage(q, p) /\ Final(q, b, e, D)

Tracker == [records : Seq(Agents!RecordType), byAgent : [Agent -> Spawn \cup Agent \cup {Nil}],
            evicted : SUBSET Agent]

SoundTracker(t, S, D, p) == t \in Tracker /\ Sound(t.records, t.byAgent, t.evicted, S, D, p)

-----------------------------------------------------------------------------
LEMMA FieldsAre ==
  \A r \in Agents!RecordType :
    /\ r.id \in Spawn \cup Agent /\ r.agent \in Agent \cup {Nil}
    /\ r.status \in {"running", "completed"} /\ r.calls \in SUBSET Agent
    /\ r.parent \in Agent \cup {Nil}
  BY DEF Agents!RecordType

(* put: z is q with r at its end, and without the first d.                 *)
Shifted(q, z, r, d) ==
  /\ z \in Seq(Agents!RecordType) /\ Len(z) = Len(q) + 1 - d /\ Len(z) <= MaxAgents
  /\ d \in {0, 1} /\ (d = 1 => Len(q) > 0)
  /\ z[Len(z)] = r
  /\ \A i \in 1 .. Len(z) - 1 : i + d \in 1 .. Len(q) /\ z[i] = q[i + d]

(* What becomes of links and evicted agents with the first d records, and  *)
(* the link of r's agent.                                                  *)
LinksWithout(b, q, d) == [a \in Agent |-> IF d = 1 /\ a = q[1].agent THEN Nil ELSE b[a]]
EvictedWith(e, q, d) == IF d = 1 THEN e \cup ({q[1].agent} \ {Nil}) ELSE e
LinksWith(b, r) == [a \in Agent |-> IF a = r.agent THEN r.id ELSE b[a]]

LEMMA RecordsSet ==
  ASSUME NEW t \in Tracker, NEW w
  PROVE  [t EXCEPT !.records = w] =
           [records |-> w, byAgent |-> t.byAgent, evicted |-> t.evicted]
<1>1. \A A, B, C, w0 : \A t0 \in [records : A, byAgent : B, evicted : C] :
        [t0 EXCEPT !.records = w0] =
          [records |-> w0, byAgent |-> t0.byAgent, evicted |-> t0.evicted]
  OBVIOUS
<1> QED BY <1>1 DEF Tracker

LEMMA PutIs ==
  ASSUME NEW t, NEW S, NEW D, NEW p, SoundTracker(t, S, D, p), NEW r \in Agents!RecordType
  PROVE  LET z == Agents!Put(t, r)
         IN  /\ z \in Tracker
             /\ \E d \in {0, 1} :
                  /\ Shifted(t.records, z.records, r, d)
                  /\ z.byAgent = LinksWithout(t.byAgent, t.records, d)
                  /\ z.evicted = EvictedWith(t.evicted, t.records, d)
<1> DEFINE q == t.records
           z == Agents!Put(t, r)
           more == Append(q, r)
           o == q[1].agent
<1>1. /\ q \in Seq(Agents!RecordType) /\ Len(q) <= MaxAgents /\ Len(q) \in Nat
      /\ t \in Tracker
  BY DEF SoundTracker, Sound, Tracker
<1>2. [t EXCEPT !.records = Append(@, r)] =
        [records |-> more, byAgent |-> t.byAgent, evicted |-> t.evicted]
  BY <1>1, RecordsSet
<1>3. /\ more \in Seq(Agents!RecordType) /\ Len(more) = Len(q) + 1 /\ more[Len(q) + 1] = r
      /\ \A i \in 1 .. Len(q) : more[i] = q[i]
  BY <1>1
<1>4. CASE Len(more) <= MaxAgents
  <2>1. z = [records |-> more, byAgent |-> t.byAgent, evicted |-> t.evicted]
    BY <1>2, <1>4 DEF Agents!Put
  <2>2. Shifted(q, more, r, 0)
    BY <1>1, <1>3, <1>4 DEF Shifted
  <2>3. t.byAgent = LinksWithout(t.byAgent, q, 0) /\ t.evicted = EvictedWith(t.evicted, q, 0)
    BY <1>1 DEF LinksWithout, EvictedWith, Tracker
  <2>4. /\ z \in Tracker /\ z.records = more /\ z.byAgent = t.byAgent
        /\ z.evicted = t.evicted
    BY <1>1, <1>3, <2>1 DEF Tracker
  <2> QED BY <2>2, <2>3, <2>4
<1>5. CASE ~(Len(more) <= MaxAgents)
  <2>1. Len(q) > 0
    BY <1>1, <1>3, <1>5, AgentAssumption
  <2>2. Head(more) = q[1]
    BY <1>1, <1>3, <2>1
  <2>3. z = Agents!Evicted([records |-> more, byAgent |-> t.byAgent, evicted |-> t.evicted])
    BY <1>2, <1>5 DEF Agents!Put
  <2>4. z = [records |-> Tail(more),
             byAgent |-> [a \in Agent |-> IF a = o THEN Nil ELSE t.byAgent[a]],
             evicted |-> t.evicted \cup ({o} \ {Nil})]
    BY <2>2, <2>3 DEF Agents!Evicted
  <2>5. /\ Tail(more) \in Seq(Agents!RecordType) /\ Len(Tail(more)) = Len(q)
        /\ \A i \in 1 .. Len(q) : Tail(more)[i] = more[i + 1]
    BY <1>1, <1>3
  <2>6. Shifted(q, Tail(more), r, 1)
    <3>1. Tail(more)[Len(q)] = r
      BY <1>1, <1>3, <2>1, <2>5
    <3>2. ASSUME NEW i \in 1 .. Len(q) - 1
          PROVE  i + 1 \in 1 .. Len(q) /\ Tail(more)[i] = q[i + 1]
      BY <1>1, <1>3, <2>5
    <3> QED BY <1>1, <2>1, <2>5, <3>1, <3>2 DEF Shifted
  <2>7. o \in Agent \cup {Nil}
    <3>1. q[1] \in Agents!RecordType
      BY <1>1, <2>1
    <3> QED BY <3>1, FieldsAre
  <2>8. /\ z \in Tracker /\ z.records = Tail(more)
        /\ z.byAgent = [a \in Agent |-> IF a = o THEN Nil ELSE t.byAgent[a]]
        /\ z.evicted = t.evicted \cup ({o} \ {Nil})
    BY <1>1, <2>4, <2>5, <2>7 DEF Tracker
  <2>9. /\ z.byAgent = LinksWithout(t.byAgent, q, 1)
        /\ z.evicted = EvictedWith(t.evicted, q, 1)
    BY <2>8 DEF LinksWithout, EvictedWith
  <2> QED BY <2>6, <2>8, <2>9
<1> QED BY <1>4, <1>5

(* One more record, of a spawn call or of an agent that had none.          *)
LEMMA AddKeeps ==
  ASSUME NEW S, NEW T, S \subseteq T, NEW D, D \subseteq Agent, NEW p,
         NEW q, NEW b, NEW e, Sound(q, b, e, S, D, p),
         NEW r \in Agents!RecordType, r.parent = Nil, r.calls = {},
         \A i \in 1 .. Len(q) : q[i].id # r.id,
         r.id \in Spawn => r.id \in T, r.id \in Agent => r.agent = r.id,
         r.agent # Nil => b[r.agent] = Nil,
         NEW d \in {0, 1}, NEW z, Shifted(q, z, r, d),
         NEW f, f = EvictedWith(e, q, d), NEW c, c = LinksWith(LinksWithout(b, q, d), r)
  PROVE  Sound(z, c, f, T, D, p)
<1> DEFINE n == Len(z)
<1>0. /\ f = IF d = 1 THEN e \cup ({q[1].agent} \ {Nil}) ELSE e
      /\ c = [a \in Agent |-> IF a = r.agent THEN r.id
                               ELSE IF d = 1 /\ a = q[1].agent THEN Nil ELSE b[a]]
  BY DEF EvictedWith, LinksWith, LinksWithout
<1>1. /\ q \in Seq(Agents!RecordType) /\ b \in [Agent -> Spawn \cup Agent \cup {Nil}]
      /\ e \in SUBSET Agent /\ Unique(q, S) /\ OneToOne(q, b) /\ Lineage(q, p)
      /\ Final(q, b, e, D)
  BY DEF Sound
<1>2. /\ z \in Seq(Agents!RecordType) /\ n = Len(q) + 1 - d /\ n <= MaxAgents /\ n \in Nat \ {0}
      /\ (d = 1 => 1 \in 1 .. Len(q)) /\ z[n] = r
      /\ \A i \in 1 .. n - 1 : i + d \in 1 .. Len(q) /\ z[i] = q[i + d]
  BY <1>1 DEF Shifted
<1>3. \A i \in 1 .. n : i = n \/ i \in 1 .. n - 1
  BY <1>2
<1>4. \A j \in 1 .. Len(q) : j - d \in 1 .. n - 1 \/ (d = 1 /\ j = 1)
  BY <1>1, <1>2
<1>5. \A j \in 1 .. Len(q) : /\ q[j].id \in Spawn \cup Agent /\ q[j].agent \in Agent \cup {Nil}
                             /\ q[j] \in Agents!RecordType
  BY <1>1, FieldsAre
<1>6. r.id \in Spawn \cup Agent /\ r.agent \in Agent \cup {Nil} /\ r.id # Nil
  BY FieldsAre, AgentAssumption
<1>7. c \in [Agent -> Spawn \cup Agent \cup {Nil}]
  BY <1>0, <1>1, <1>6
<1>8. f \in SUBSET Agent
  BY <1>0, <1>1, <1>2, <1>5
<1>9. \A j \in 1 .. Len(q) : q[j].agent # Nil =>
        b[q[j].agent] = q[j].id /\ q[j].id # Nil /\ q[j].agent # r.agent
  BY <1>1, <1>5, AgentAssumption DEF OneToOne
<1>10. ASSUME NEW i \in 1 .. n - 1, z[i].agent # Nil
       PROVE  c[z[i].agent] = b[z[i].agent] /\ c[z[i].agent] = z[i].id
  <2>1. PICK j \in 1 .. Len(q) : j = i + d /\ z[i] = q[j] /\ (d = 1 => j # 1)
    BY <1>2
  <2>2. b[q[j].agent] = q[j].id /\ q[j].agent # r.agent /\ q[j].agent \in Agent
    BY <1>5, <1>9, <1>10, <2>1
  <2>3. d = 1 => q[1].agent # q[j].agent
    <3> SUFFICES ASSUME d = 1, q[1].agent = q[j].agent PROVE FALSE
      OBVIOUS
    <3>1. q[1].id = q[j].id /\ 1 \in 1 .. Len(q) /\ j # 1
      BY <1>2, <1>9, <1>10, <2>1
    <3> QED BY <1>1, <3>1 DEF Unique
  <2> QED BY <1>0, <2>1, <2>2, <2>3
<1>11. Unique(z, T)
  <2>1. ASSUME NEW i \in 1 .. n, NEW j \in 1 .. n, i # j PROVE z[i].id # z[j].id
    <3>1. CASE i \in 1 .. n - 1 /\ j \in 1 .. n - 1
      <4>1. /\ i + d \in 1 .. Len(q) /\ j + d \in 1 .. Len(q)
            /\ z[i] = q[i + d] /\ z[j] = q[j + d]
        BY <1>2, <3>1
      <4>2. i + d # j + d
        BY <2>1
      <4> QED BY <1>1, <4>1, <4>2 DEF Unique
    <3>2. CASE i = n
      <4>1. j \in 1 .. n - 1
        BY <1>3, <2>1, <3>2
      <4>2. j + d \in 1 .. Len(q) /\ z[j] = q[j + d] /\ z[i] = r
        BY <1>2, <3>2, <4>1
      <4>3. q[j + d].id # r.id
        BY <4>2
      <4> QED BY <4>2, <4>3
    <3>3. CASE j = n
      <4>1. i \in 1 .. n - 1
        BY <1>3, <2>1, <3>3
      <4>2. i + d \in 1 .. Len(q) /\ z[i] = q[i + d] /\ z[j] = r
        BY <1>2, <3>3, <4>1
      <4>3. q[i + d].id # r.id
        BY <4>2
      <4> QED BY <4>2, <4>3
    <3> QED BY <1>3, <3>1, <3>2, <3>3
  <2>2. ASSUME NEW i \in 1 .. n
        PROVE  /\ z[i].id \in Spawn => z[i].id \in T
               /\ z[i].id \in Agent => z[i].agent = z[i].id
    <3>1. CASE i \in 1 .. n - 1
      <4>1. i + d \in 1 .. Len(q) /\ z[i] = q[i + d]
        BY <1>2, <3>1
      <4> QED BY <1>1, <4>1 DEF Unique
    <3> QED BY <1>2, <1>3, <3>1
  <2> QED BY <2>1, <2>2 DEF Unique
<1>12. OneToOne(z, c)
  <2>1. ASSUME NEW a \in Agent, c[a] # Nil
        PROVE  \E i \in 1 .. n : z[i].id = c[a] /\ z[i].agent = a
    <3>1. CASE a = r.agent
      <4>1. n \in 1 .. n
        BY <1>2
      <4> QED BY <1>0, <1>2, <3>1, <4>1
    <3>2. CASE a # r.agent
      <4>1. c[a] = b[a] /\ (d = 1 => a # q[1].agent)
        BY <1>0, <2>1, <3>2
      <4>2. PICK j \in 1 .. Len(q) : q[j].id = b[a] /\ q[j].agent = a
        BY <1>1, <2>1, <4>1 DEF OneToOne
      <4>3. j - d \in 1 .. n - 1
        BY <1>4, <4>1, <4>2
      <4>4. PICK i \in 1 .. n - 1 : i = j - d
        BY <4>3
      <4>5. z[i] = q[j] /\ i \in 1 .. n
        <5>1. i + d = j
          BY <4>4
        <5> QED BY <1>2, <5>1
      <4> QED BY <4>1, <4>2, <4>5
    <3> QED BY <3>1, <3>2
  <2>2. ASSUME NEW i \in 1 .. n, z[i].agent # Nil PROVE c[z[i].agent] = z[i].id
    BY <1>0, <1>2, <1>3, <1>6, <1>10, <2>2
  <2>3. ASSUME NEW i \in 1 .. n PROVE z[i].calls \subseteq {z[i].agent}
    <3>1. CASE i \in 1 .. n - 1
      <4>1. i + d \in 1 .. Len(q) /\ z[i] = q[i + d]
        BY <1>2, <3>1
      <4> QED BY <1>1, <4>1 DEF OneToOne
    <3> QED BY <1>2, <1>3, <3>1
  <2> QED BY <2>1, <2>2, <2>3 DEF OneToOne
<1>13. Lineage(z, p)
  <2>1. ASSUME NEW i \in 1 .. n, z[i].parent # Nil
        PROVE  z[i].agent # Nil /\ z[i].parent = p[z[i].agent]
    <3>1. i + d \in 1 .. Len(q) /\ z[i] = q[i + d]
      BY <1>2, <1>3, <2>1
    <3> QED BY <1>1, <2>1, <3>1 DEF Lineage
  <2> QED BY <2>1 DEF Lineage
<1>14. Final(z, c, f, D)
  <2>1. ASSUME NEW a \in D \ f
        PROVE  c[a] # Nil /\ \A i \in 1 .. n : z[i].agent = a => z[i].status = "completed"
    <3>1. a \in D \ e /\ a \in Agent /\ a # Nil /\ (d = 1 => a # q[1].agent)
      BY <1>0, AgentAssumption
    <3>2. /\ b[a] # Nil
          /\ \A i \in 1 .. Len(q) : q[i].agent = a => q[i].status = "completed"
      BY <1>1, <3>1 DEF Final
    <3>3. a # r.agent /\ c[a] = b[a]
      BY <1>0, <3>1, <3>2
    <3>4. ASSUME NEW i \in 1 .. n, z[i].agent = a PROVE z[i].status = "completed"
      <4>1. i + d \in 1 .. Len(q) /\ z[i] = q[i + d]
        BY <1>2, <1>3, <3>3, <3>4
      <4> QED BY <3>2, <3>4, <4>1
    <3> QED BY <3>2, <3>3, <3>4
  <2> QED BY <2>1 DEF Final
<1> QED BY <1>2, <1>7, <1>8, <1>11, <1>12, <1>13, <1>14 DEF Sound

(* One record changed in its place: it may be given to an agent that has   *)
(* none, complete, and note a call of its agent.                           *)
LEMMA ChangeKeeps ==
  ASSUME NEW S, NEW D, D \subseteq Agent, NEW p,
         NEW q, NEW b, NEW e, Sound(q, b, e, S, D, p),
         NEW k \in 1 .. Len(q), NEW r \in Agents!RecordType,
         r.id = q[k].id, r.parent = q[k].parent, r.calls \subseteq {r.agent},
         q[k].status = "completed" => r.status = "completed",
         \/ r.agent = q[k].agent
         \/ q[k].agent = Nil /\ r.agent # Nil /\ b[r.agent] = Nil /\ r.id \notin Agent,
         NEW z, z = [q EXCEPT ![k] = r],
         NEW c, c = IF r.agent = Nil THEN b ELSE [b EXCEPT ![r.agent] = r.id]
  PROVE  Sound(z, c, e, S, D, p)
<1>1. /\ q \in Seq(Agents!RecordType) /\ b \in [Agent -> Spawn \cup Agent \cup {Nil}]
      /\ e \in SUBSET Agent /\ Unique(q, S) /\ OneToOne(q, b) /\ Lineage(q, p)
      /\ Final(q, b, e, D) /\ Len(q) <= MaxAgents
  BY DEF Sound
<1>2. /\ z \in Seq(Agents!RecordType) /\ Len(z) = Len(q) /\ z[k] = r
      /\ \A i \in 1 .. Len(q) : i # k => z[i] = q[i]
  BY <1>1
<1>3. \A j \in 1 .. Len(q) : q[j].id \in Spawn \cup Agent /\ q[j].agent \in Agent \cup {Nil}
  BY <1>1, FieldsAre
<1>4. r.id \in Spawn \cup Agent /\ r.agent \in Agent \cup {Nil} /\ r.id # Nil
  BY FieldsAre, AgentAssumption
<1>5. c \in [Agent -> Spawn \cup Agent \cup {Nil}]
  BY <1>1, <1>4
<1>6. \A a \in Agent : c[a] = IF a = r.agent THEN r.id ELSE b[a]
  BY <1>1, <1>4, AgentAssumption
<1>7. \A j \in 1 .. Len(q) : q[j].agent # Nil =>
        b[q[j].agent] = q[j].id /\ q[j].id # Nil /\ q[j].agent \in Agent
  BY <1>1, <1>3, AgentAssumption DEF OneToOne
<1>8. \A j \in 1 .. Len(q) : j # k => q[j].agent = Nil \/ q[j].agent # r.agent
  BY <1>1, <1>4, <1>7 DEF Unique
<1>9. \A j \in 1 .. Len(q) : z[j].id = q[j].id /\ z[j].parent = q[j].parent
  BY <1>2
<1>10. Unique(z, S)
  <2>1. r.id \in Agent => r.agent = r.id
    BY <1>1, <1>4 DEF Unique
  <2>2. r.id \in Spawn => r.id \in S
    BY <1>1 DEF Unique
  <2>3. \A i \in 1 .. Len(q) : /\ z[i].id \in Spawn => z[i].id \in S
                               /\ z[i].id \in Agent => z[i].agent = z[i].id
    BY <1>1, <1>2, <2>1, <2>2 DEF Unique
  <2>4. \A i, j \in 1 .. Len(q) : i # j => z[i].id # z[j].id
    BY <1>1, <1>9 DEF Unique
  <2> QED BY <1>2, <2>3, <2>4 DEF Unique
<1>11. OneToOne(z, c)
  <2>1. ASSUME NEW a \in Agent, c[a] # Nil
        PROVE  \E i \in 1 .. Len(q) : z[i].id = c[a] /\ z[i].agent = a
    <3>1. CASE a = r.agent
      BY <1>2, <1>6, <3>1
    <3>2. CASE a # r.agent
      <4>1. PICK j \in 1 .. Len(q) : q[j].id = b[a] /\ q[j].agent = a
        BY <1>1, <1>6, <2>1, <3>2 DEF OneToOne
      <4>2. j # k
        BY <3>2, <4>1, AgentAssumption
      <4> QED BY <1>2, <1>6, <3>2, <4>1, <4>2
    <3> QED BY <3>1, <3>2
  <2>2. ASSUME NEW i \in 1 .. Len(q), z[i].agent # Nil PROVE c[z[i].agent] = z[i].id
    <3>1. CASE i = k
      BY <1>2, <1>4, <1>6, <2>2, <3>1
    <3>2. CASE i # k
      BY <1>2, <1>6, <1>7, <1>8, <2>2, <3>2
    <3> QED BY <3>1, <3>2
  <2>3. ASSUME NEW i \in 1 .. Len(q) PROVE z[i].calls \subseteq {z[i].agent}
    BY <1>1, <1>2 DEF OneToOne
  <2> QED BY <1>2, <2>1, <2>2, <2>3 DEF OneToOne
<1>12. Lineage(z, p)
  <2>1. ASSUME NEW i \in 1 .. Len(q), z[i].parent # Nil
        PROVE  z[i].agent # Nil /\ z[i].parent = p[z[i].agent]
    <3>1. q[i].agent # Nil /\ q[i].parent = p[q[i].agent]
      BY <1>1, <1>9, <2>1 DEF Lineage
    <3>2. z[i].agent = q[i].agent
      BY <1>2, <3>1
    <3> QED BY <1>9, <3>1, <3>2
  <2> QED BY <1>2, <2>1 DEF Lineage
<1>13. Final(z, c, e, D)
  <2>1. ASSUME NEW a \in D \ e
        PROVE  c[a] # Nil /\ \A i \in 1 .. Len(q) : z[i].agent = a => z[i].status = "completed"
    <3>1. /\ b[a] # Nil /\ a \in Agent
          /\ \A i \in 1 .. Len(q) : q[i].agent = a => q[i].status = "completed"
      BY <1>1 DEF Final
    <3>2. c[a] # Nil
      BY <1>4, <1>6, <3>1
    <3>3. ASSUME NEW i \in 1 .. Len(q), z[i].agent = a PROVE z[i].status = "completed"
      <4>1. CASE i = k
        <5>1. r.agent = a /\ q[k].agent = a
          BY <1>2, <3>1, <3>3, <4>1
        <5> QED BY <1>2, <3>1, <4>1, <5>1
      <4> QED BY <1>2, <3>1, <3>3, <4>1
    <3> QED BY <3>2, <3>3
  <2> QED BY <1>2, <2>1 DEF Final
<1> QED BY <1>1, <1>2, <1>5, <1>10, <1>11, <1>12, <1>13 DEF Sound

-----------------------------------------------------------------------------
(* Induction: a set of naturals has a least element.                       *)
LEMMA AgentsNatMin ==
  ASSUME NEW T, T \subseteq Nat, T # {}
  PROVE  \E m \in T : \A n \in T : m <= n
<1>1. PICK x \in T : \A y \in T : ~ (<<y, x>> \in OpToRel(<,Nat))
  BY NatLessThanWellFounded, WFMin
<1>2. \A y \in T : ~(y < x)
  BY <1>1, Zenon DEF OpToRel
<1>3. \A y \in T : x <= y
  BY <1>2
<1> QED BY <1>3

LEMMA LeastIn ==
  ASSUME NEW T, T \subseteq Nat, T # {}
  PROVE  Agents!Least(T) \in T
<1>1. \E m \in T : \A n \in T : m <= n
  BY AgentsNatMin
<1> QED BY <1>1 DEF Agents!Least

(* findSpawn has a newest record to choose, among any of the first n.      *)
Beats(t, i, j) ==
  \/ t.records[j].start < t.records[i].start
  \/ t.records[j].start = t.records[i].start /\ i <= j

Best(t, W, i) == \A j \in W : Beats(t, i, j)

Ranked(t, n) ==
  \A W \in SUBSET (1 .. n) :
    W # {} /\ W \subseteq 1 .. Len(t.records) => \E i \in W : Best(t, W, i)

LEMMA RankedMore ==
  ASSUME NEW t, t.records \in Seq(Agents!RecordType), NEW m \in Nat \ {0}, Ranked(t, m - 1)
  PROVE  Ranked(t, m)
<1>1. \A i \in 1 .. Len(t.records) : t.records[i].start \in Int
  <2>1. \A i \in 1 .. Len(t.records) : t.records[i] \in Agents!RecordType
    OBVIOUS
  <2> QED BY <2>1 DEF Agents!RecordType
<1> SUFFICES ASSUME NEW W \in SUBSET (1 .. m), W # {}, W \subseteq 1 .. Len(t.records)
             PROVE  \E i \in W : Best(t, W, i)
  BY DEF Ranked
<1>2. CASE W \ {m} = {}
  <2>1. W = {m}
    BY <1>2
  <2>2. Best(t, W, m)
    BY <1>1, <2>1 DEF Best, Beats
  <2> QED BY <2>1, <2>2
<1>3. CASE W \ {m} # {}
  <2>1. W \ {m} \in SUBSET (1 .. m - 1) /\ W \ {m} \subseteq 1 .. Len(t.records)
    OBVIOUS
  <2>2. PICK i \in W \ {m} : Best(t, W \ {m}, i)
    BY <1>3, <2>1 DEF Ranked
  <2>3. \A j \in W \ {m} : Beats(t, i, j) /\ j <= m /\ t.records[j].start \in Int
    BY <1>1, <2>1, <2>2 DEF Best
  <2>4. CASE m \in W /\ t.records[i].start < t.records[m].start
    <3>1. t.records[m].start \in Int
      BY <1>1, <2>4
    <3>2. \A j \in W \ {m} : Beats(t, m, j)
      BY <2>3, <2>4, <3>1 DEF Beats
    <3>3. Beats(t, m, m)
      BY DEF Beats
    <3> QED BY <2>4, <3>2, <3>3 DEF Best
  <2>5. CASE ~(m \in W /\ t.records[i].start < t.records[m].start)
    <3>1. m \in W => Beats(t, i, m)
      BY <1>1, <2>3, <2>5 DEF Beats
    <3>2. Best(t, W, i)
      BY <2>2, <3>1 DEF Best
    <3> QED BY <3>2
  <2> QED BY <2>4, <2>5
<1> QED BY <1>2, <1>3

LEMMA NewestIn ==
  ASSUME NEW t, t.records \in Seq(Agents!RecordType), NEW W, W \subseteq 1 .. Len(t.records), W # {}
  PROVE  Agents!Newest(t, W) \in W
<1> DEFINE Bad == {n \in Nat : ~Ranked(t, n)}
<1>1. Bad = {}
  <2> SUFFICES ASSUME Bad # {} PROVE FALSE
    OBVIOUS
  <2>1. PICK m \in Bad : \A n \in Bad : m <= n
    BY AgentsNatMin
  <2>2. Ranked(t, 0)
    <3>1. 1 .. 0 = {}
      OBVIOUS
    <3> QED BY <3>1 DEF Ranked
  <2>3. m \in Nat \ {0} /\ m - 1 \in Nat
    BY <2>1, <2>2
  <2>4. Ranked(t, m - 1)
    BY <2>1, <2>3
  <2> QED BY <2>1, <2>3, <2>4, RankedMore
<1>2. Ranked(t, Len(t.records))
  BY <1>1
<1>3. \E i \in W : Best(t, W, i)
  BY <1>2 DEF Ranked
<1>4. Agents!Newest(t, W) = CHOOSE i \in W : Best(t, W, i)
  BY DEF Agents!Newest, Best, Beats
<1> QED BY <1>3, <1>4

-----------------------------------------------------------------------------
(* resolve finds the record of the agent.                                  *)
LEMMA ResolvedIs ==
  ASSUME NEW t, NEW S, NEW D, NEW p, SoundTracker(t, S, D, p), NEW a \in Agent
  PROVE  /\ Agents!Resolved(t, a) = {i \in 1 .. Len(t.records) : t.records[i].agent = a}
         /\ Agents!Resolved(t, a) = {} <=> t.byAgent[a] = Nil
<1> DEFINE q == t.records
           b == t.byAgent
<1>1. q \in Seq(Agents!RecordType) /\ Unique(q, S) /\ OneToOne(q, b) /\ DOMAIN q = 1 .. Len(q)
  BY DEF SoundTracker, Sound
<1>2. \A i \in 1 .. Len(q) : q[i].id # Nil
  BY <1>1, FieldsAre, AgentAssumption
<1>3. \A i \in 1 .. Len(q) : q[i].agent = a <=> (b[a] # Nil /\ q[i].id = b[a])
  <2> TAKE i \in 1 .. Len(q)
  <2>1. q[i].agent = a => b[a] = q[i].id
    BY <1>1, AgentAssumption DEF OneToOne
  <2>2. ASSUME b[a] # Nil, q[i].id = b[a] PROVE q[i].agent = a
    <3>1. PICK j \in 1 .. Len(q) : q[j].id = b[a] /\ q[j].agent = a
      BY <1>1, <2>2 DEF OneToOne
    <3>2. j = i
      BY <1>1, <2>2, <3>1 DEF Unique
    <3> QED BY <3>1, <3>2
  <2> QED BY <1>2, <2>1, <2>2
<1>4. Agents!Resolved(t, a) = {i \in 1 .. Len(q) : q[i].agent = a}
  BY <1>1, <1>3 DEF Agents!Resolved, Agents!Places
<1>5. b[a] # Nil => \E i \in 1 .. Len(q) : q[i].agent = a
  BY <1>1 DEF OneToOne
<1> QED BY <1>3, <1>4, <1>5

(* put with a record of a spawn call, or of an agent and linked to it.     *)
LEMMA PutKeeps ==
  ASSUME NEW S, NEW T, S \subseteq T, NEW D, D \subseteq Agent, NEW p, NEW t,
         SoundTracker(t, S, D, p),
         NEW r \in Agents!RecordType, r.parent = Nil, r.calls = {},
         \A i \in 1 .. Len(t.records) : t.records[i].id # r.id,
         r.id \in Spawn => r.id \in T, r.id \in Agent => r.agent = r.id,
         r.agent # Nil => t.byAgent[r.agent] = Nil
  PROVE  LET z == Agents!Put(t, r)
         IN  /\ r.agent = Nil => SoundTracker(z, T, D, p)
             /\ r.agent # Nil =>
                  SoundTracker([z EXCEPT !.byAgent[r.agent] = r.id], T, D, p)
<1> DEFINE q == t.records
           z == Agents!Put(t, r)
           c == LinksWith(z.byAgent, r)
           w == [records |-> z.records, byAgent |-> c, evicted |-> z.evicted]
<1>1. t \in Tracker /\ Sound(q, t.byAgent, t.evicted, S, D, p)
  BY DEF SoundTracker
<1>2. /\ z \in Tracker
      /\ \E d \in {0, 1} : /\ Shifted(q, z.records, r, d)
                           /\ z.byAgent = LinksWithout(t.byAgent, q, d)
                           /\ z.evicted = EvictedWith(t.evicted, q, d)
  BY PutIs
<1> HIDE DEF z
<1>3. Sound(z.records, c, z.evicted, T, D, p)
  <2>1. PICK d \in {0, 1} : /\ Shifted(q, z.records, r, d)
                            /\ z.byAgent = LinksWithout(t.byAgent, q, d)
                            /\ z.evicted = EvictedWith(t.evicted, q, d)
    BY <1>2
  <2>2. c = LinksWith(LinksWithout(t.byAgent, q, d), r)
    BY <2>1
  <2> HIDE DEF c
  <2>3. PICK b0, e0, q0, z0, f0 :
          /\ b0 = t.byAgent /\ e0 = t.evicted /\ q0 = q /\ z0 = z.records /\ f0 = z.evicted
    OBVIOUS
  <2>4. /\ Sound(q0, b0, e0, S, D, p) /\ Shifted(q0, z0, r, d)
        /\ f0 = EvictedWith(e0, q0, d) /\ c = LinksWith(LinksWithout(b0, q0, d), r)
        /\ \A i \in 1 .. Len(q0) : q0[i].id # r.id
        /\ r.agent # Nil => b0[r.agent] = Nil
    BY <1>1, <2>1, <2>2, <2>3
  <2>5. Sound(z0, c, f0, T, D, p)
    BY <2>4, AddKeeps
  <2> QED BY <2>3, <2>5
<1>4. r.id \in Spawn \cup Agent /\ r.agent \in Agent \cup {Nil}
  BY FieldsAre
<1>5. SoundTracker(w, T, D, p)
  <2>1. c \in [Agent -> Spawn \cup Agent \cup {Nil}]
    BY <1>2, <1>4 DEF Tracker, LinksWith
  <2>2. w \in Tracker
    BY <1>2, <2>1 DEF Tracker
  <2> QED BY <1>3, <2>2 DEF SoundTracker
<1>6. CASE r.agent = Nil
  <2>1. c = z.byAgent
    BY <1>2, <1>6, AgentAssumption DEF Tracker, LinksWith
  <2>2. z = w
    BY <1>2, <2>1 DEF Tracker
  <2> QED BY <1>5, <1>6, <2>2 DEF z
<1>7. CASE r.agent # Nil
  <2>1. c = [z.byAgent EXCEPT ![r.agent] = r.id]
    BY <1>2, <1>4 DEF Tracker, LinksWith
  <2>2. [z EXCEPT !.byAgent[r.agent] = r.id] = w
    BY <1>2, <2>1 DEF Tracker
  <2> QED BY <1>5, <1>7, <2>2 DEF z
<1> QED BY <1>6, <1>7

(* A change of one record of a tracker.                                    *)
LEMMA AmendKeeps ==
  ASSUME NEW S, NEW D, D \subseteq Agent, NEW p, NEW t, SoundTracker(t, S, D, p),
         NEW k \in 1 .. Len(t.records), NEW r \in Agents!RecordType,
         r.id = t.records[k].id, r.parent = t.records[k].parent, r.calls \subseteq {r.agent},
         t.records[k].status = "completed" => r.status = "completed",
         r.agent = t.records[k].agent,
         NEW x, x = [t.records EXCEPT ![k] = r], NEW z, z = [t EXCEPT !.records = x]
  PROVE  /\ SoundTracker(z, S, D, p) /\ z.byAgent = t.byAgent /\ z.evicted = t.evicted
         /\ z.records = x
<1> DEFINE q == t.records
           b == t.byAgent
           c == IF r.agent = Nil THEN b ELSE [b EXCEPT ![r.agent] = r.id]
<1>1. t \in Tracker /\ Sound(q, b, t.evicted, S, D, p)
  BY DEF SoundTracker
<1>2. q \in Seq(Agents!RecordType) /\ OneToOne(q, b) /\ b \in [Agent -> Spawn \cup Agent \cup {Nil}]
  BY <1>1 DEF Sound
<1>3. c = b
  BY <1>2, FieldsAre DEF OneToOne
<1>4. Sound(x, c, t.evicted, S, D, p)
  <2> HIDE DEF c
  <2> QED BY <1>1, ChangeKeeps DEF c
<1>5. z = [records |-> x, byAgent |-> b, evicted |-> t.evicted]
  BY <1>1 DEF Tracker
<1>7. x \in Seq(Agents!RecordType)
  BY <1>2
<1>6. z \in Tracker
  BY <1>1, <1>5, <1>7 DEF Tracker
<1> QED BY <1>3, <1>4, <1>5, <1>6 DEF SoundTracker

-----------------------------------------------------------------------------
LEMMA RecordIs ==
  ASSUME NEW e, e.of \in Spawn \cup Agent, e.stamp \in Int, NEW a \in Agent \cup {Nil},
         a = Nil => e.of \in Spawn
  PROVE  /\ Agents!Record(e, a) \in Agents!RecordType /\ Agents!Record(e, a).id = e.of /\ Agents!Record(e, a).agent = a
         /\ Agents!Record(e, a).parent = Nil /\ Agents!Record(e, a).calls = {}
  BY DEF Agents!Record, Agents!RecordType

(* adoptSpawn: a record that has no agent, or a new one.                   *)
LEMMA AdoptKeeps ==
  ASSUME NEW S, NEW D, D \subseteq Agent, NEW p, NEW t, SoundTracker(t, S, D, p),
         NEW e, e.of \in Agent, e.stamp \in Int, Agents!Resolved(t, e.of) = {}
  PROVE  SoundTracker(Agents!AdoptSpawn(t, e), S, D, p) /\ Agents!AdoptSpawn(t, e).byAgent[e.of] # Nil
<1> DEFINE q == t.records
           b == t.byAgent
           z == Agents!AdoptSpawn(t, e)
<1>1. t \in Tracker /\ Sound(q, b, t.evicted, S, D, p) /\ b[e.of] = Nil
  BY ResolvedIs DEF SoundTracker
<1>2. /\ q \in Seq(Agents!RecordType) /\ b \in [Agent -> Spawn \cup Agent \cup {Nil}]
      /\ Unique(q, S) /\ OneToOne(q, b)
  BY <1>1 DEF Sound
<1>3. CASE Agents!Adoptable(t, e) # {}
  <2>1. PICK i \in 1 .. Len(q) : i = Agents!Least(Agents!Adoptable(t, e)) /\ q[i].agent = Nil
    <3>1. Agents!Adoptable(t, e) \subseteq 1 .. Len(q) /\ \A i \in Agents!Adoptable(t, e) : q[i].agent = Nil
      BY <1>2 DEF Agents!Adoptable, Agents!Places
    <3>2. Agents!Least(Agents!Adoptable(t, e)) \in Agents!Adoptable(t, e)
      BY <1>3, <3>1, LeastIn
    <3> QED BY <3>1, <3>2
  <2>2. PICK r : r = [q[i] EXCEPT !.agent = e.of]
    OBVIOUS
  <2>3. q[i] \in Agents!RecordType
    BY <1>2
  <2>4. /\ r \in Agents!RecordType /\ r.id = q[i].id /\ r.agent = e.of /\ r.parent = q[i].parent
        /\ r.calls = q[i].calls /\ r.status = q[i].status
    BY <2>2, <2>3 DEF Agents!RecordType
  <2>5. r.calls = {}
    BY <1>2, <2>1, <2>3, <2>4, FieldsAre, AgentAssumption DEF OneToOne
  <2>6. r.id \notin Agent /\ r.id # Nil /\ r.id \in Spawn \cup Agent
    BY <1>2, <2>1, <2>3, <2>4, FieldsAre, AgentAssumption DEF Unique
  <2>7. e.of # Nil
    BY AgentAssumption
  <2>8. PICK x, c : x = [q EXCEPT ![i] = r] /\ c = [b EXCEPT ![e.of] = q[i].id]
    OBVIOUS
  <2>9. c = IF r.agent = Nil THEN b ELSE [b EXCEPT ![r.agent] = r.id]
    BY <2>4, <2>7, <2>8
  <2>10. Sound(x, c, t.evicted, S, D, p)
    <3>1. PICK q0, b0, e0 : q0 = q /\ b0 = b /\ e0 = t.evicted
      OBVIOUS
    <3>2. /\ Sound(q0, b0, e0, S, D, p) /\ i \in 1 .. Len(q0) /\ r.id = q0[i].id
          /\ r.parent = q0[i].parent /\ r.calls \subseteq {r.agent}
          /\ q0[i].status = "completed" => r.status = "completed"
          /\ q0[i].agent = Nil /\ r.agent # Nil /\ b0[r.agent] = Nil /\ r.id \notin Agent
          /\ x = [q0 EXCEPT ![i] = r]
          /\ c = IF r.agent = Nil THEN b0 ELSE [b0 EXCEPT ![r.agent] = r.id]
      BY <1>1, <2>1, <2>4, <2>5, <2>6, <2>7, <2>8, <2>9, <3>1
    <3>3. Sound(x, c, e0, S, D, p)
      BY <2>4, <3>2, ChangeKeeps
    <3> QED BY <3>1, <3>3
  <2>11. z = [records |-> x, byAgent |-> c, evicted |-> t.evicted]
    <3>1. z = [t EXCEPT !.records[i].agent = e.of, !.byAgent[e.of] = t.records[i].id]
      BY <1>3, <2>1 DEF Agents!AdoptSpawn
    <3> QED BY <1>1, <1>2, <2>2, <2>8, <3>1 DEF Tracker
  <2>12. z \in Tracker /\ z.records = x /\ z.byAgent = c /\ z.evicted = t.evicted
    BY <1>1, <2>10, <2>11 DEF Tracker, Sound
  <2>13. c[e.of] # Nil
    BY <1>2, <2>4, <2>6, <2>8
  <2> QED BY <2>10, <2>12, <2>13 DEF SoundTracker
<1>4. CASE Agents!Adoptable(t, e) = {}
  <2>1. PICK r : r = Agents!Record(e, e.of)
    OBVIOUS
  <2>2. /\ r \in Agents!RecordType /\ r.id = e.of /\ r.agent = e.of /\ r.parent = Nil
        /\ r.calls = {} /\ r.id \notin Spawn /\ e.of # Nil
    BY <2>1, RecordIs, AgentAssumption
  <2>3. \A i \in 1 .. Len(q) : q[i].id # r.id
    BY <1>1, <1>2, <2>2 DEF Unique, OneToOne
  <2>4. SoundTracker([Agents!Put(t, r) EXCEPT !.byAgent[r.agent] = r.id], S, D, p)
    BY <1>1, <2>2, <2>3, PutKeeps
  <2>5. z = [Agents!Put(t, r) EXCEPT !.byAgent[r.agent] = r.id]
    BY <1>4, <2>1, <2>2 DEF Agents!AdoptSpawn
  <2>6. Agents!Put(t, r) \in Tracker
    BY <2>2, PutIs
  <2>7. z.byAgent[e.of] = e.of
    BY <2>2, <2>5, <2>6 DEF Tracker
  <2> QED BY <2>2, <2>4, <2>5, <2>7
<1> QED BY <1>3, <1>4

LEMMA LinkedKeeps ==
  ASSUME NEW S, NEW D, D \subseteq Agent, NEW p, NEW t, SoundTracker(t, S, D, p),
         NEW e, e.of \in Agent, e.stamp \in Int
  PROVE  SoundTracker(Agents!Linked(t, e), S, D, p) /\ Agents!Resolved(Agents!Linked(t, e), e.of) # {}
<1>1. CASE Agents!Resolved(t, e.of) # {}
  BY <1>1 DEF Agents!Linked
<1>2. CASE Agents!Resolved(t, e.of) = {}
  <2>1. Agents!Linked(t, e) = Agents!AdoptSpawn(t, e)
    BY <1>2 DEF Agents!Linked
  <2>2. PICK z : z = Agents!AdoptSpawn(t, e)
    OBVIOUS
  <2>3. SoundTracker(z, S, D, p) /\ z.byAgent[e.of] # Nil
    BY <1>2, <2>2, AdoptKeeps
  <2>4. Agents!Resolved(z, e.of) # {}
    BY <2>3, ResolvedIs
  <2> QED BY <2>1, <2>2, <2>3, <2>4
<1> QED BY <1>1, <1>2

(* onSpawnResult: a running record is acknowledged or completed.           *)
LEMMA ResultKeeps ==
  ASSUME NEW S, NEW D, D \subseteq Agent, NEW p, NEW t, SoundTracker(t, S, D, p),
         NEW e, e.kind \in {"ack", "report"}
  PROVE  SoundTracker(Agents!OnSpawnResult(t, e), S, D, p)
<1> DEFINE q == t.records
<1>1. t \in Tracker /\ q \in Seq(Agents!RecordType) /\ OneToOne(q, t.byAgent)
  BY DEF SoundTracker, Sound
<1>2. CASE Agents!FindSpawn(t, e.of) = {}
  BY <1>2 DEF Agents!OnSpawnResult
<1>3. CASE Agents!FindSpawn(t, e.of) # {}
  <2>1. PICK i \in 1 .. Len(q) : i = Agents!Newest(t, Agents!FindSpawn(t, e.of)) /\ q[i].status = "running"
    <3>1. /\ Agents!FindSpawn(t, e.of) \subseteq 1 .. Len(q)
          /\ \A i \in Agents!FindSpawn(t, e.of) : q[i].status = "running"
      BY <1>1 DEF Agents!FindSpawn, Agents!Places
    <3>2. Agents!Newest(t, Agents!FindSpawn(t, e.of)) \in Agents!FindSpawn(t, e.of)
      BY <1>1, <1>3, <3>1, NewestIn
    <3> QED BY <3>1, <3>2
  <2>2. PICK r : r = [q[i] EXCEPT !.result = e.kind,
                                  !.status = IF e.kind = "ack" THEN "running" ELSE "completed"]
    OBVIOUS
  <2>3. q[i] \in Agents!RecordType
    BY <1>1
  <2>4. /\ r \in Agents!RecordType /\ r.id = q[i].id /\ r.agent = q[i].agent
        /\ r.parent = q[i].parent /\ r.calls = q[i].calls
    BY <2>2, <2>3 DEF Agents!RecordType
  <2>5. PICK x : x = [q EXCEPT ![i] = r]
    OBVIOUS
  <2>6. Agents!OnSpawnResult(t, e) = [t EXCEPT !.records = x]
    <3>1. Agents!OnSpawnResult(t, e) =
            [t EXCEPT !.records[i] =
               [@ EXCEPT !.result = e.kind,
                         !.status = IF e.kind = "ack" THEN "running" ELSE "completed"]]
      BY <1>3, <2>1 DEF Agents!OnSpawnResult
    <3>2. Agents!OnSpawnResult(t, e) = [t EXCEPT !.records[i] = r]
      BY <2>2, <3>1
    <3> QED BY <1>1, <2>5, <3>2 DEF Tracker
  <2>7. r.calls \subseteq {r.agent}
    BY <1>1, <2>4 DEF OneToOne
  <2> QED BY <2>1, <2>4, <2>5, <2>6, <2>7, AmendKeeps
<1> QED BY <1>2, <1>3

(* An agent that is completed has stopped for good.                        *)
LEMMA StopKeeps ==
  ASSUME NEW S, NEW D, NEW p, NEW t, SoundTracker(t, S, D, p), NEW a \in Agent,
         NEW i \in 1 .. Len(t.records),
         t.records[i].agent = a, t.records[i].status = "completed"
  PROVE  SoundTracker(t, S, D \cup {a}, p)
<1> DEFINE q == t.records
           b == t.byAgent
<1>1. /\ t \in Tracker /\ Sound(q, b, t.evicted, S, D, p) /\ q \in Seq(Agents!RecordType)
      /\ Unique(q, S) /\ OneToOne(q, b) /\ Final(q, b, t.evicted, D)
  BY DEF SoundTracker, Sound
<1>2. \A j \in 1 .. Len(q) : q[j].agent = a => j = i
  BY <1>1, AgentAssumption DEF Unique, OneToOne
<1>3. b[a] # Nil
  <2>1. q[i] \in Agents!RecordType
    BY <1>1
  <2> QED BY <1>1, <2>1, FieldsAre, AgentAssumption DEF OneToOne
<1>4. Final(q, b, t.evicted, D \cup {a})
  BY <1>1, <1>2, <1>3 DEF Final
<1> QED BY <1>1, <1>4 DEF SoundTracker, Sound

(* onLifecycle and onAgentToolCall.                                        *)
LEMMA AgentEventKeeps ==
  ASSUME NEW S, NEW D, D \subseteq Agent, NEW p, NEW t, SoundTracker(t, S, D, p),
         NEW e, e.kind \in Agents!Kinds, e.of \in Agent, e.stamp \in Int
  PROVE  SoundTracker(Agents!OnAgentEvent(t, e), S,
                      D \cup (IF e.kind = "stop" THEN {e.of} ELSE {}), p)
<1>1. PICK l : l = Agents!Linked(t, e)
  OBVIOUS
<1>2. SoundTracker(l, S, D, p) /\ Agents!Resolved(l, e.of) # {}
  BY <1>1, LinkedKeeps
<1> DEFINE q == l.records
<1>3. l \in Tracker /\ q \in Seq(Agents!RecordType) /\ OneToOne(q, l.byAgent)
  BY <1>2 DEF SoundTracker, Sound
<1>4. PICK i \in 1 .. Len(q) : i = Agents!Least(Agents!Resolved(l, e.of)) /\ q[i].agent = e.of
  <2>1. Agents!Resolved(l, e.of) = {i \in 1 .. Len(q) : q[i].agent = e.of}
    BY <1>2, ResolvedIs
  <2>2. Agents!Least(Agents!Resolved(l, e.of)) \in Agents!Resolved(l, e.of)
    <3>1. Agents!Resolved(l, e.of) \subseteq Nat
      BY <2>1
    <3> QED BY <1>2, <3>1, LeastIn
  <2> QED BY <2>1, <2>2
<1>5. q[i] \in Agents!RecordType
  BY <1>3
<1>6. CASE e.kind = "start"
  <2>1. Agents!OnAgentEvent(t, e) = l
    BY <1>1, <1>2, <1>6 DEF Agents!OnAgentEvent
  <2>2. D \cup (IF e.kind = "stop" THEN {e.of} ELSE {}) = D
    BY <1>6
  <2> QED BY <1>2, <2>1, <2>2
<1>7. CASE e.kind = "stop"
  <2>1. PICK r : r = [q[i] EXCEPT !.status = "completed"]
    OBVIOUS
  <2>2. /\ r \in Agents!RecordType /\ r.id = q[i].id /\ r.agent = q[i].agent
        /\ r.parent = q[i].parent /\ r.calls = q[i].calls /\ r.status = "completed"
    BY <1>5, <2>1 DEF Agents!RecordType
  <2>3. PICK x : x = [q EXCEPT ![i] = r]
    OBVIOUS
  <2>4. PICK z : z = [l EXCEPT !.records = x]
    OBVIOUS
  <2>5. Agents!OnAgentEvent(t, e) = z
    <3>1. Agents!OnAgentEvent(t, e) = [l EXCEPT !.records[i].status = "completed"]
      BY <1>1, <1>2, <1>4, <1>7 DEF Agents!OnAgentEvent
    <3>2. [l EXCEPT !.records[i].status = "completed"] = [l EXCEPT !.records[i] = r]
      BY <1>3, <1>5, <2>1 DEF Tracker
    <3> QED BY <1>3, <2>3, <2>4, <3>1, <3>2 DEF Tracker
  <2>6. r.calls \subseteq {r.agent}
    BY <1>3, <2>2 DEF OneToOne
  <2>7. SoundTracker(z, S, D, p) /\ z.records = x
    BY <1>2, <2>2, <2>3, <2>4, <2>6, AmendKeeps
  <2>8. i \in 1 .. Len(x) /\ x[i].agent = e.of /\ x[i].status = "completed"
    BY <1>3, <1>4, <2>2, <2>3
  <2>9. SoundTracker(z, S, D \cup {e.of}, p)
    BY <2>7, <2>8, StopKeeps
  <2> QED BY <1>7, <2>5, <2>9
<1>8. CASE e.kind = "tool"
  <2>1. PICK r : r = [q[i] EXCEPT !.calls = q[i].calls \cup {e.of}]
    OBVIOUS
  <2>2. /\ r \in Agents!RecordType /\ r.id = q[i].id /\ r.agent = q[i].agent
        /\ r.parent = q[i].parent /\ r.calls = q[i].calls \cup {e.of}
        /\ q[i].status = "completed" => r.status = "completed"
    BY <1>5, <2>1 DEF Agents!RecordType
  <2>3. PICK x : x = [q EXCEPT ![i] = r]
    OBVIOUS
  <2>4. PICK z : z = [l EXCEPT !.records = x]
    OBVIOUS
  <2>5. Agents!OnAgentEvent(t, e) = z
    <3>1. Agents!OnAgentEvent(t, e) = [l EXCEPT !.records[i].calls = @ \cup {e.of}]
      BY <1>1, <1>2, <1>4, <1>8 DEF Agents!OnAgentEvent
    <3>2. [l EXCEPT !.records[i].calls = @ \cup {e.of}] = [l EXCEPT !.records[i] = r]
      BY <1>3, <1>5, <2>1 DEF Tracker
    <3> QED BY <1>3, <2>3, <2>4, <3>1, <3>2 DEF Tracker
  <2>6. r.calls \subseteq {r.agent}
    BY <1>3, <1>4, <2>2 DEF OneToOne
  <2>7. SoundTracker(z, S, D, p)
    BY <1>2, <2>2, <2>3, <2>4, <2>6, AmendKeeps
  <2>8. D \cup (IF e.kind = "stop" THEN {e.of} ELSE {}) = D
    BY <1>8
  <2> QED BY <2>5, <2>7, <2>8
<1> QED BY <1>6, <1>7, <1>8 DEF Agents!Kinds

(* ingest, of an event that says something new.                            *)
LEMMA IngestKeeps ==
  ASSUME NEW S, S \subseteq Spawn, NEW D, D \subseteq Agent, NEW p,
         NEW t, SoundTracker(t, S, D, p),
         NEW e \in Agents!Event, e.kind = "call" => e.of \notin S
  PROVE  SoundTracker(Agents!Ingest(t, e), S \cup (IF e.kind = "call" THEN {e.of} ELSE {}),
                      D \cup (IF e.kind = "stop" THEN {e.of} ELSE {}), p)
<1>1. /\ e.kind \in {"call", "ack", "report"} => e.of \in Spawn
      /\ e.kind \in Agents!Kinds => e.of \in Agent
      /\ e.kind \in {"call", "ack", "report"} \cup Agents!Kinds /\ e.stamp \in Int
  BY DEF Agents!Event, Agents!Kinds
<1>2. CASE e.kind = "call"
  <2>1. PICK r : r = Agents!Record(e, Nil)
    OBVIOUS
  <2>2. /\ r \in Agents!RecordType /\ r.id = e.of /\ r.agent = Nil /\ r.parent = Nil
        /\ r.calls = {} /\ r.id \in Spawn /\ r.id \notin Agent
    BY <1>1, <1>2, <2>1, RecordIs, AgentAssumption
  <2>3. \A i \in 1 .. Len(t.records) : t.records[i].id # r.id
    BY <1>2, <2>2 DEF SoundTracker, Sound, Unique
  <2>4. SoundTracker(Agents!Put(t, r), S \cup {e.of}, D, p)
    BY <2>2, <2>3, PutKeeps
  <2>5. Agents!Ingest(t, e) = Agents!Put(t, r)
    BY <1>2, <2>1 DEF Agents!Ingest
  <2>6. D \cup (IF e.kind = "stop" THEN {e.of} ELSE {}) = D
    BY <1>2
  <2> QED BY <1>2, <2>4, <2>5, <2>6
<1>3. CASE e.kind \in {"ack", "report"}
  <2>1. Agents!Ingest(t, e) = Agents!OnSpawnResult(t, e)
    BY <1>3 DEF Agents!Ingest
  <2>2. /\ S \cup (IF e.kind = "call" THEN {e.of} ELSE {}) = S
        /\ D \cup (IF e.kind = "stop" THEN {e.of} ELSE {}) = D
    BY <1>3
  <2>3. SoundTracker(Agents!OnSpawnResult(t, e), S, D, p)
    BY <1>3, ResultKeeps
  <2> QED BY <2>1, <2>2, <2>3
<1>4. CASE e.kind \in Agents!Kinds
  <2>1. Agents!Ingest(t, e) = Agents!OnAgentEvent(t, e)
    BY <1>4 DEF Agents!Ingest, Agents!Kinds
  <2>2. S \cup (IF e.kind = "call" THEN {e.of} ELSE {}) = S
    BY <1>4 DEF Agents!Kinds
  <2>3. SoundTracker(Agents!OnAgentEvent(t, e), S,
                     D \cup (IF e.kind = "stop" THEN {e.of} ELSE {}), p)
    BY <1>1, <1>4, AgentEventKeeps
  <2> QED BY <2>1, <2>2, <2>3
<1> QED BY <1>1, <1>2, <1>3, <1>4

-----------------------------------------------------------------------------
(* The replay: the function that its recursion defines, up to n ...        *)
ReplayTo(w, n, f) ==
  f = [k \in 0 .. n |-> IF k = 0 THEN Agents!Nobody ELSE Agents!Ingest(f[k - 1], w[k])]

(* ... exists ...                                                          *)
LEMMA ReplayMore ==
  ASSUME NEW w, NEW m \in Nat \ {0}, NEW f, ReplayTo(w, m - 1, f)
  PROVE  \E g : ReplayTo(w, m, g)
<1>1. PICK last : last = Agents!Ingest(f[m - 1], w[m])
  OBVIOUS
<1>2. PICK g : g = [k \in 0 .. m |-> IF k = m THEN last ELSE f[k]]
  OBVIOUS
<1>3. \A k \in 0 .. m - 1 : f[k] = IF k = 0 THEN Agents!Nobody ELSE Agents!Ingest(f[k - 1], w[k])
  BY DEF ReplayTo
<1>4. \A k \in 0 .. m : g[k] = IF k = 0 THEN Agents!Nobody ELSE Agents!Ingest(g[k - 1], w[k])
  <2> TAKE k \in 0 .. m
  <2>1. CASE k = m
    <3>1. g[m] = last /\ g[m - 1] = f[m - 1]
      BY <1>2
    <3> QED BY <1>1, <2>1, <3>1
  <2>2. CASE k = 0
    <3>1. g[0] = f[0] /\ f[0] = Agents!Nobody
      BY <1>2, <1>3
    <3> QED BY <2>2, <3>1
  <2>3. CASE k # m /\ k # 0
    <3>1. k \in 0 .. m - 1 /\ g[k] = f[k] /\ g[k - 1] = f[k - 1]
      BY <1>2, <2>3
    <3> QED BY <1>3, <2>3, <3>1
  <2> QED BY <2>1, <2>2, <2>3
<1>5. g = [k \in 0 .. m |-> IF k = 0 THEN Agents!Nobody ELSE Agents!Ingest(g[k - 1], w[k])]
  BY <1>2, <1>4
<1> QED BY <1>5 DEF ReplayTo

LEMMA ReplayExists ==
  ASSUME NEW w, NEW n \in Nat
  PROVE  \E f : ReplayTo(w, n, f)
<1> DEFINE Bad == {k \in Nat : ~\E f : ReplayTo(w, k, f)}
<1> SUFFICES ASSUME Bad # {} PROVE FALSE
  OBVIOUS
<1>1. PICK m \in Bad : \A k \in Bad : m <= k
  BY AgentsNatMin
<1>2. CASE m = 0
  <2>1. ReplayTo(w, 0, [k \in 0 .. 0 |-> Agents!Nobody])
    BY DEF ReplayTo
  <2> QED BY <1>1, <1>2, <2>1
<1>3. CASE m # 0
  <2>1. m - 1 \in Nat /\ m - 1 \notin Bad
    BY <1>1, <1>3
  <2>2. PICK f : ReplayTo(w, m - 1, f)
    BY <2>1
  <2> QED BY <1>1, <1>3, <2>2, ReplayMore
<1> QED BY <1>2, <1>3

(* ... and backfill is its last value.                                     *)
LEMMA BackfillBy ==
  ASSUME NEW w, Len(w) \in Nat
  PROVE  \E f : /\ f[0] = Agents!Nobody /\ Agents!Backfill(w) = f[Len(w)]
                /\ \A k \in 1 .. Len(w) : f[k] = Agents!Ingest(f[k - 1], Agents!Ordered(w)[k])
<1> DEFINE o == Agents!Ordered(w)
           h == CHOOSE f : f = [k \in 0 .. Len(w) |->
                  IF k = 0 THEN Agents!Nobody ELSE Agents!Ingest(f[k - 1], o[k])]
<1>1. \E f : f = [k \in 0 .. Len(w) |-> IF k = 0 THEN Agents!Nobody ELSE Agents!Ingest(f[k - 1], o[k])]
  <2>1. \E f : ReplayTo(o, Len(w), f)
    BY ReplayExists
  <2> QED BY <2>1 DEF ReplayTo
<1>2. h = [k \in 0 .. Len(w) |-> IF k = 0 THEN Agents!Nobody ELSE Agents!Ingest(h[k - 1], o[k])]
  BY <1>1
<1>3. Agents!Backfill(w) = h[Len(w)]
  BY DEF Agents!Backfill
<1> HIDE DEF h
<1>4. h[0] = Agents!Nobody
  BY <1>2
<1>5. \A k \in 1 .. Len(w) : h[k] = Agents!Ingest(h[k - 1], o[k])
  <2> TAKE k \in 1 .. Len(w)
  <2>1. k \in 0 .. Len(w) /\ k # 0
    OBVIOUS
  <2> QED BY <1>2, <2>1
<1> QED BY <1>3, <1>4, <1>5

-----------------------------------------------------------------------------
(* The sort: a rank of an event is the number of those before it; no two   *)
(* events have one rank, so that every rank is some event's.               *)
Rank(w, i) == Agents!Cardinality(Agents!Earlier(w, i))

LEMMA RankIs ==
  ASSUME NEW w, NEW i PROVE Rank(w, i) = Cardinality(Agents!Earlier(w, i))
  BY AgentsCardinality DEF Rank

LEMMA IntervalIs ==
  ASSUME NEW n \in Nat
  PROVE  /\ IsFiniteSet(1 .. n) /\ Cardinality(1 .. n) = n
         /\ IsFiniteSet(0 .. n - 1) /\ Cardinality(0 .. n - 1) = n
<1>1. \A a, b \in Int : /\ IsFiniteSet(a .. b)
                         /\ Cardinality(a .. b) = IF a > b THEN 0 ELSE b - a + 1
  BY FS_Interval
<1>2. Cardinality(1 .. n) = (IF 1 > n THEN 0 ELSE n - 1 + 1) /\ IsFiniteSet(1 .. n)
  BY <1>1
<1>3. n - 1 \in Int /\ 0 \in Int
  OBVIOUS
<1>4. /\ Cardinality(0 .. n - 1) = (IF 0 > n - 1 THEN 0 ELSE n - 1 - 0 + 1)
      /\ IsFiniteSet(0 .. n - 1)
  BY <1>1, <1>3
<1> QED BY <1>2, <1>4

LEMMA RanksAre ==
  ASSUME NEW w \in Seq(Agents!Event)
  PROVE  /\ \A i \in 1 .. Len(w) : Rank(w, i) \in 0 .. Len(w) - 1
         /\ \A i, j \in 1 .. Len(w) : i # j => Rank(w, i) # Rank(w, j)
<1>1. DOMAIN w = 1 .. Len(w) /\ Len(w) \in Nat /\ IsFiniteSet(1 .. Len(w))
      /\ Cardinality(1 .. Len(w)) = Len(w)
  BY IntervalIs
<1>2. \A i \in 1 .. Len(w) : w[i].stamp \in Int
  <2>1. \A i \in 1 .. Len(w) : w[i] \in Agents!Event
    OBVIOUS
  <2> QED BY <2>1 DEF Agents!Event
<1>3. \A i \in 1 .. Len(w) :
        /\ Agents!Earlier(w, i) \subseteq 1 .. Len(w) /\ i \notin Agents!Earlier(w, i)
        /\ IsFiniteSet(Agents!Earlier(w, i)) /\ Rank(w, i) \in Nat
  <2> TAKE i \in 1 .. Len(w)
  <2>1. Agents!Earlier(w, i) \subseteq 1 .. Len(w) /\ i \notin Agents!Earlier(w, i)
    BY <1>1, <1>2 DEF Agents!Earlier
  <2>2. IsFiniteSet(Agents!Earlier(w, i))
    BY <1>1, <2>1, FS_Subset
  <2> QED BY <2>1, <2>2, FS_CardinalityType, RankIs
<1>4. ASSUME NEW i \in 1 .. Len(w) PROVE Rank(w, i) \in 0 .. Len(w) - 1
  <2>1. Agents!Earlier(w, i) \in SUBSET (1 .. Len(w)) /\ Agents!Earlier(w, i) # 1 .. Len(w)
    BY <1>3
  <2>2. Rank(w, i) <= Len(w) /\ Rank(w, i) # Len(w)
    BY <1>1, <2>1, FS_Subset, RankIs
  <2> QED BY <1>1, <1>3, <2>2
<1>5. ASSUME NEW i \in 1 .. Len(w), NEW j \in 1 .. Len(w), i \in Agents!Earlier(w, j)
      PROVE  Rank(w, i) < Rank(w, j)
  <2>1. Agents!Earlier(w, i) \subseteq Agents!Earlier(w, j)
    BY <1>1, <1>2, <1>5 DEF Agents!Earlier
  <2>2. Agents!Earlier(w, i) \in SUBSET Agents!Earlier(w, j) /\ Agents!Earlier(w, i) # Agents!Earlier(w, j)
    BY <1>3, <1>5, <2>1
  <2>3. Rank(w, i) <= Rank(w, j) /\ Rank(w, i) # Rank(w, j)
    BY <1>3, <2>2, FS_Subset, RankIs
  <2> QED BY <1>3, <2>3
<1>6. \A i, j \in 1 .. Len(w) : i # j => i \in Agents!Earlier(w, j) \/ j \in Agents!Earlier(w, i)
  BY <1>1, <1>2 DEF Agents!Earlier
<1> QED BY <1>3, <1>4, <1>5, <1>6

LEMMA RanksTaken ==
  ASSUME NEW w \in Seq(Agents!Event), NEW k \in 1 .. Len(w)
  PROVE  \E i \in 1 .. Len(w) : Rank(w, i) = k - 1
<1> SUFFICES ASSUME \A i \in 1 .. Len(w) : Rank(w, i) # k - 1 PROVE FALSE
  OBVIOUS
<1> DEFINE T == 0 .. Len(w) - 1
<1>1. /\ Len(w) \in Nat /\ IsFiniteSet(1 .. Len(w)) /\ Cardinality(1 .. Len(w)) = Len(w)
      /\ IsFiniteSet(T) /\ Cardinality(T) = Len(w)
  BY IntervalIs
<1>2. IsFiniteSet(T \ {k - 1}) /\ Cardinality(T \ {k - 1}) = Len(w) - 1
  <2>1. PICK U, x : U = T /\ x = k - 1
    OBVIOUS
  <2>2. x \in U /\ IsFiniteSet(U) /\ Cardinality(U) = Len(w)
    BY <1>1, <2>1
  <2>3. IsFiniteSet(U \ {x}) /\ Cardinality(U \ {x}) = Len(w) - 1
    BY <2>2, FS_RemoveElement
  <2> QED BY <2>1, <2>3
<1>3. PICK f : f = [i \in 1 .. Len(w) |-> Rank(w, i)]
  OBVIOUS
<1>4. f \in [1 .. Len(w) -> T \ {k - 1}]
  BY <1>3, RanksAre
<1>5. Cardinality(T \ {k - 1}) < Cardinality(1 .. Len(w))
  BY <1>1, <1>2
<1>6. \E i, j \in 1 .. Len(w) : i # j /\ f[i] = f[j]
  BY <1>1, <1>2, <1>4, <1>5, FS_PigeonHole
<1> QED BY <1>3, <1>6, RanksAre

(* The sorted log is a permutation of the log.                             *)
LEMMA OrderedIs ==
  ASSUME NEW w \in Seq(Agents!Event)
  PROVE  /\ Agents!Ordered(w) \in Seq(Agents!Event) /\ Len(Agents!Ordered(w)) = Len(w)
         /\ \E m \in [1 .. Len(w) -> 1 .. Len(w)] :
              /\ \A k \in 1 .. Len(w) : Agents!Ordered(w)[k] = w[m[k]]
              /\ \A k, l \in 1 .. Len(w) : k # l => m[k] # m[l]
              /\ \A i \in 1 .. Len(w) : \E k \in 1 .. Len(w) : m[k] = i
<1> DEFINE n == Len(w)
           at(k) == CHOOSE i \in 1 .. n : Rank(w, i) = k - 1
           m == [k \in 1 .. n |-> at(k)]
<1>1. DOMAIN w = 1 .. n /\ n \in Nat
  OBVIOUS
<1>2. \A k \in 1 .. n : at(k) \in 1 .. n /\ Rank(w, at(k)) = k - 1
  BY RanksTaken
<1>3. Agents!Ordered(w) = [k \in 1 .. n |-> w[at(k)]]
  BY <1>1 DEF Agents!Ordered, Rank
<1> HIDE DEF at
<1>4. m \in [1 .. n -> 1 .. n] /\ \A k \in 1 .. n : m[k] = at(k)
  BY <1>2
<1>5. \A k \in 1 .. n : Agents!Ordered(w)[k] = w[m[k]]
  BY <1>3, <1>4
<1>6. Agents!Ordered(w) \in Seq(Agents!Event) /\ Len(Agents!Ordered(w)) = n
  BY <1>1, <1>2, <1>3
<1>7. \A k, l \in 1 .. n : k # l => m[k] # m[l]
  BY <1>1, <1>2, <1>4
<1>8. ASSUME NEW i \in 1 .. n PROVE \E k \in 1 .. n : m[k] = i
  <2>1. PICK k \in 1 .. n : k = Rank(w, i) + 1
    BY <1>1, RanksAre
  <2>2. Rank(w, at(k)) = Rank(w, i) /\ at(k) \in 1 .. n
    BY <1>2, <2>1, RanksAre
  <2>3. at(k) = i
    BY <2>2, RanksAre
  <2> QED BY <1>4, <2>3
<1> HIDE DEF m
<1> QED BY <1>4, <1>5, <1>6, <1>7, <1>8

-----------------------------------------------------------------------------
(* Who the first n events of one kind are of.                              *)
Said(w, n, kind) == {w[i].of : i \in {j \in 1 .. n : w[j].kind = kind}}

(* No two events say the same.                                             *)
Novel(w) ==
  \A i, j \in 1 .. Len(w) : i # j => w[i].kind # w[j].kind \/ w[i].of # w[j].of

LEMMA SaidMore ==
  ASSUME NEW w, NEW n \in Nat, NEW kind
  PROVE  Said(w, n + 1, kind) =
           Said(w, n, kind) \cup (IF w[n + 1].kind = kind THEN {w[n + 1].of} ELSE {})
<1>1. \A j : j \in 1 .. n + 1 <=> j \in 1 .. n \/ j = n + 1
  OBVIOUS
<1> QED BY <1>1 DEF Said

LEMMA SaidOf ==
  ASSUME NEW w \in Seq(Agents!Event), NEW n \in 0 .. Len(w)
  PROVE  Said(w, n, "call") \subseteq Spawn /\ Said(w, n, "stop") \subseteq Agent
<1>1. \A i \in 1 .. n : w[i] \in Agents!Event
  OBVIOUS
<1>2. \A e \in Agents!Event : (e.kind = "call" => e.of \in Spawn) /\ (e.kind = "stop" => e.of \in Agent)
  BY DEF Agents!Event, Agents!Kinds
<1> QED BY <1>1, <1>2 DEF Said

LEMMA NobodySound ==
  ASSUME NEW p
  PROVE  SoundTracker(Agents!Nobody, {}, {}, p)
<1>1. PICK b : b = [a \in Agent |-> Nil]
  OBVIOUS
<1>2. Agents!Nobody = [records |-> <<>>, byAgent |-> b, evicted |-> {}]
  BY <1>1 DEF Agents!Nobody
<1>3. <<>> \in Seq(Agents!RecordType) /\ Len(<<>>) = 0 /\ b \in [Agent -> Spawn \cup Agent \cup {Nil}]
  BY <1>1
<1>4. /\ Agents!Nobody \in Tracker /\ Agents!Nobody.records = <<>> /\ Agents!Nobody.byAgent = b
      /\ Agents!Nobody.evicted = {}
  BY <1>2, <1>3 DEF Tracker
<1>5. Unique(<<>>, {}) /\ OneToOne(<<>>, b) /\ Lineage(<<>>, p) /\ Final(<<>>, b, {}, {})
  BY <1>1, <1>3 DEF Unique, OneToOne, Lineage, Final
<1>6. Len(<<>>) <= MaxAgents
  BY <1>3, AgentAssumption
<1> QED BY <1>3, <1>4, <1>5, <1>6 DEF SoundTracker, Sound

LEMMA ReplayKeeps ==
  ASSUME NEW w \in Seq(Agents!Event), Novel(w), NEW p, NEW f, f[0] = Agents!Nobody,
         \A k \in 1 .. Len(w) : f[k] = Agents!Ingest(f[k - 1], w[k])
  PROVE  SoundTracker(f[Len(w)], Said(w, Len(w), "call"), Said(w, Len(w), "stop"), p)
<1> DEFINE Good(k) == SoundTracker(f[k], Said(w, k, "call"), Said(w, k, "stop"), p)
           Bad == {k \in 0 .. Len(w) : ~Good(k)}
<1>1. Len(w) \in Nat
  OBVIOUS
<1> SUFFICES ASSUME Bad # {} PROVE FALSE
  BY <1>1
<1>2. PICK m \in Bad : \A k \in Bad : m <= k
  <2>1. Bad \subseteq Nat
    OBVIOUS
  <2> QED BY <2>1, AgentsNatMin
<1>3. CASE m = 0
  <2>1. Said(w, 0, "call") = {} /\ Said(w, 0, "stop") = {}
    BY DEF Said
  <2>2. Good(0)
    BY <2>1, NobodySound
  <2> QED BY <1>2, <1>3, <2>2
<1>4. CASE m # 0
  <2>1. PICK k \in 0 .. Len(w) - 1 : m = k + 1
    BY <1>1, <1>2, <1>4
  <2>2. Good(k)
    <3>1. k \notin Bad /\ k \in 0 .. Len(w)
      BY <1>1, <1>2, <2>1
    <3> QED BY <3>1
  <2>3. PICK S, D : S = Said(w, k, "call") /\ D = Said(w, k, "stop")
    OBVIOUS
  <2>4. S \subseteq Spawn /\ D \subseteq Agent
    BY <1>1, <2>1, <2>3, SaidOf
  <2>5. PICK e \in Agents!Event : e = w[k + 1]
    BY <1>1, <2>1
  <2>6. e.kind = "call" => e.of \notin S
    <3>1. \A i \in 1 .. k : i \in 1 .. Len(w) /\ k + 1 \in 1 .. Len(w) /\ i # k + 1
      BY <1>1, <2>1
    <3> QED BY <2>3, <2>5, <3>1 DEF Novel, Said
  <2>7. PICK t, z : t = f[k] /\ z = f[k + 1]
    OBVIOUS
  <2>8. SoundTracker(t, S, D, p) /\ z = Agents!Ingest(t, e)
    <3>1. k + 1 \in 1 .. Len(w) /\ k + 1 - 1 = k
      BY <1>1, <2>1
    <3>2. f[k + 1] = Agents!Ingest(f[k], w[k + 1])
      BY <3>1
    <3> QED BY <2>2, <2>3, <2>5, <2>7, <3>2
  <2>9. SoundTracker(z, S \cup (IF e.kind = "call" THEN {e.of} ELSE {}),
                     D \cup (IF e.kind = "stop" THEN {e.of} ELSE {}), p)
    BY <2>4, <2>6, <2>8, IngestKeeps
  <2>10. /\ Said(w, k + 1, "call") = S \cup (IF e.kind = "call" THEN {e.of} ELSE {})
         /\ Said(w, k + 1, "stop") = D \cup (IF e.kind = "stop" THEN {e.of} ELSE {})
    <3>0. k \in Nat
      BY <1>1, <2>1
    <3>1. ASSUME NEW kind
          PROVE  Said(w, k + 1, kind) =
                   Said(w, k, kind) \cup (IF w[k + 1].kind = kind THEN {w[k + 1].of} ELSE {})
      BY <3>0, SaidMore
    <3> QED BY <2>3, <2>5, <3>1
  <2>11. Good(k + 1)
    BY <2>7, <2>9, <2>10
  <2> QED BY <1>2, <2>1, <2>11
<1> QED BY <1>3, <1>4

(* backfill: the replay of the sorted log.                                 *)
LEMMA BackfillKeeps ==
  ASSUME NEW w \in Seq(Agents!Event), Novel(w), NEW p
  PROVE  SoundTracker(Agents!Backfill(w), Said(w, Len(w), "call"), Said(w, Len(w), "stop"), p)
<1> DEFINE o == Agents!Ordered(w)
           n == Len(w)
<1>1. n \in Nat
  OBVIOUS
<1>2. /\ o \in Seq(Agents!Event) /\ Len(o) = n
      /\ \E m \in [1 .. n -> 1 .. n] :
            /\ \A k \in 1 .. n : o[k] = w[m[k]]
            /\ \A k, l \in 1 .. n : k # l => m[k] # m[l]
            /\ \A i \in 1 .. n : \E k \in 1 .. n : m[k] = i
  BY OrderedIs
<1>3. \E f : /\ f[0] = Agents!Nobody /\ Agents!Backfill(w) = f[n]
              /\ \A k \in 1 .. n : f[k] = Agents!Ingest(f[k - 1], o[k])
  BY <1>1, BackfillBy
<1> HIDE DEF o
<1>4. PICK m \in [1 .. n -> 1 .. n] :
        /\ \A k \in 1 .. n : o[k] = w[m[k]]
        /\ \A k, l \in 1 .. n : k # l => m[k] # m[l]
        /\ \A i \in 1 .. n : \E k \in 1 .. n : m[k] = i
  BY <1>2
<1>5. Novel(o)
  <2>1. ASSUME NEW i \in 1 .. n, NEW j \in 1 .. n, i # j
        PROVE  o[i].kind # o[j].kind \/ o[i].of # o[j].of
    <3>1. m[i] \in 1 .. n /\ m[j] \in 1 .. n /\ m[i] # m[j]
      BY <1>4, <2>1
    <3>2. o[i] = w[m[i]] /\ o[j] = w[m[j]]
      BY <1>4
    <3> QED BY <3>1, <3>2 DEF Novel
  <2> QED BY <1>2, <2>1 DEF Novel
<1>6. ASSUME NEW kind PROVE Said(o, n, kind) = Said(w, n, kind)
  <2>1. ASSUME NEW x \in Said(o, n, kind) PROVE x \in Said(w, n, kind)
    <3>1. PICK k \in 1 .. n : x = o[k].of /\ o[k].kind = kind
      BY DEF Said
    <3>2. m[k] \in 1 .. n /\ o[k] = w[m[k]]
      BY <1>4
    <3> QED BY <3>1, <3>2 DEF Said
  <2>2. ASSUME NEW x \in Said(w, n, kind) PROVE x \in Said(o, n, kind)
    <3>1. PICK i \in 1 .. n : x = w[i].of /\ w[i].kind = kind
      BY DEF Said
    <3>2. PICK k \in 1 .. n : m[k] = i
      BY <1>4
    <3>3. o[k] = w[i]
      BY <1>4, <3>2
    <3> QED BY <3>1, <3>3 DEF Said
  <2> QED BY <2>1, <2>2
<1>7. PICK f : /\ f[0] = Agents!Nobody /\ Agents!Backfill(w) = f[n]
               /\ \A k \in 1 .. n : f[k] = Agents!Ingest(f[k - 1], o[k])
  BY <1>3
<1>8. SoundTracker(f[n], Said(o, n, "call"), Said(o, n, "stop"), p)
  BY <1>2, <1>5, <1>7, ReplayKeeps
<1> QED BY <1>6, <1>7, <1>8

(* loadParentage changes the parents alone.                                *)
LEMMA ParentageKeeps ==
  ASSUME NEW S, NEW D, NEW t, SoundTracker(t, S, D, parent),
         parent \in [Agent -> Agent \cup {Nil}]
  PROVE  SoundTracker(Agents!LoadParentage(t), S, D, parent)
<1>1. PICK q, b, x : q = t.records /\ b = t.byAgent /\ x = t.evicted
  OBVIOUS
<1>2. /\ t \in Tracker /\ Sound(q, b, x, S, D, parent) /\ q \in Seq(Agents!RecordType)
      /\ Unique(q, S) /\ OneToOne(q, b) /\ Lineage(q, parent) /\ Final(q, b, x, D)
  BY <1>1 DEF SoundTracker, Sound
<1>3. PICK z : z = [i \in 1 .. Len(q) |->
                      IF q[i].agent = Nil THEN q[i]
                      ELSE [q[i] EXCEPT !.parent = parent[q[i].agent]]]
  OBVIOUS
<1>4. Agents!LoadParentage(t) = [t EXCEPT !.records = z]
  <2>1. Agents!Places(t) = 1 .. Len(q)
    BY <1>1, <1>2 DEF Agents!Places
  <2>2. Agents!LoadParentage(t) =
          [t EXCEPT !.records = [i \in Agents!Places(t) |->
             IF t.records[i].agent = Nil THEN t.records[i]
             ELSE [t.records[i] EXCEPT !.parent = parent[t.records[i].agent]]]]
    BY DEF Agents!LoadParentage
  <2>3. z = [i \in Agents!Places(t) |->
             IF t.records[i].agent = Nil THEN t.records[i]
             ELSE [t.records[i] EXCEPT !.parent = parent[t.records[i].agent]]]
    BY <1>1, <1>3, <2>1, Zenon
  <2> QED BY <2>2, <2>3, Zenon
<1>5. \A i \in 1 .. Len(q) :
        /\ z[i] \in Agents!RecordType /\ z[i].id = q[i].id /\ z[i].agent = q[i].agent
        /\ z[i].status = q[i].status /\ z[i].calls = q[i].calls
        /\ z[i].parent # Nil => z[i].agent # Nil /\ z[i].parent = parent[z[i].agent]
  <2> TAKE i \in 1 .. Len(q)
  <2>1. q[i] \in Agents!RecordType
    BY <1>2
  <2>2. CASE q[i].agent = Nil
    BY <1>2, <1>3, <2>1, <2>2 DEF Lineage
  <2>3. CASE q[i].agent # Nil
    <3>1. z[i] = [q[i] EXCEPT !.parent = parent[q[i].agent]]
      BY <1>3, <2>3
    <3>2. parent[q[i].agent] \in Agent \cup {Nil}
      BY <2>1, <2>3, FieldsAre
    <3> QED BY <2>1, <2>3, <3>1, <3>2 DEF Agents!RecordType
  <2> QED BY <2>2, <2>3
<1>6. z \in Seq(Agents!RecordType) /\ Len(z) = Len(q)
  BY <1>2, <1>3, <1>5
<1>7. Unique(z, S)
  BY <1>2, <1>5, <1>6 DEF Unique
<1>8. OneToOne(z, b)
  BY <1>2, <1>5, <1>6 DEF OneToOne
<1>9. Lineage(z, parent) /\ Final(z, b, x, D)
  BY <1>2, <1>5, <1>6 DEF Lineage, Final
<1>10. Sound(z, b, x, S, D, parent)
  BY <1>2, <1>6, <1>7, <1>8, <1>9 DEF Sound
<1>11. PICK u : u = [t EXCEPT !.records = z]
  OBVIOUS
<1>12. u \in Tracker /\ u.records = z /\ u.byAgent = b /\ u.evicted = x
  BY <1>1, <1>2, <1>6, <1>11 DEF Tracker
<1>13. SoundTracker(u, S, D, parent)
  BY <1>10, <1>12 DEF SoundTracker
<1> QED BY <1>4, <1>11, <1>13

-----------------------------------------------------------------------------
Sworn ==
  /\ log \in Seq(Agents!Event) /\ Novel(log)
  /\ parent \in [Agent -> Agent \cup {Nil}] /\ Agents!Nested(parent)
  /\ SoundTracker(tracker, Said(log, Len(log), "call"), Said(log, Len(log), "stop"), parent)

LEMMA SwornInit == Agents!Init => Sworn
<1> SUFFICES ASSUME Agents!Init PROVE Sworn
  OBVIOUS
<1>1. log = <<>> /\ tracker = Agents!Nobody
  BY DEF Agents!Init
<1>2. log \in Seq(Agents!Event) /\ Len(log) = 0
  BY <1>1
<1>3. Novel(log) /\ Said(log, Len(log), "call") = {} /\ Said(log, Len(log), "stop") = {}
  BY <1>2 DEF Novel, Said
<1>4. SoundTracker(tracker, {}, {}, parent)
  BY <1>1, NobodySound
<1> QED BY <1>2, <1>3, <1>4 DEF Sworn, Agents!Init

(* One event more in the log.                                              *)
LEMMA LogMore ==
  ASSUME NEW w \in Seq(Agents!Event), Novel(w), NEW e \in Agents!Event,
         ~\E i \in DOMAIN w : w[i].kind = e.kind /\ w[i].of = e.of
  PROVE  /\ Append(w, e) \in Seq(Agents!Event) /\ Novel(Append(w, e))
         /\ \A kind : Said(Append(w, e), Len(Append(w, e)), kind) =
              Said(w, Len(w), kind) \cup (IF e.kind = kind THEN {e.of} ELSE {})
<1> DEFINE n == Len(w)
           z == Append(w, e)
<1>1. /\ z \in Seq(Agents!Event) /\ Len(z) = n + 1 /\ n \in Nat /\ z[n + 1] = e
      /\ DOMAIN w = 1 .. n
      /\ \A i \in 1 .. n : z[i] = w[i]
  OBVIOUS
<1> HIDE DEF z
<1>2. Novel(z)
  <2>1. ASSUME NEW i \in 1 .. n + 1, NEW j \in 1 .. n + 1, i # j
        PROVE  z[i].kind # z[j].kind \/ z[i].of # z[j].of
    <3>1. CASE i = n + 1
      <4>1. j \in 1 .. n /\ z[j] = w[j] /\ z[i] = e
        BY <1>1, <2>1, <3>1
      <4> QED BY <1>1, <4>1
    <3>2. CASE j = n + 1
      <4>1. i \in 1 .. n /\ z[i] = w[i] /\ z[j] = e
        BY <1>1, <2>1, <3>2
      <4> QED BY <1>1, <4>1
    <3>3. CASE i # n + 1 /\ j # n + 1
      <4>1. i \in 1 .. n /\ j \in 1 .. n /\ z[i] = w[i] /\ z[j] = w[j]
        BY <1>1, <3>3
      <4> QED BY <2>1, <4>1 DEF Novel
    <3> QED BY <3>1, <3>2, <3>3
  <2> QED BY <1>1, <2>1 DEF Novel
<1>3. ASSUME NEW kind
      PROVE  Said(z, n + 1, kind) = Said(w, n, kind) \cup (IF e.kind = kind THEN {e.of} ELSE {})
  <2>1. Said(z, n + 1, kind) =
          Said(z, n, kind) \cup (IF z[n + 1].kind = kind THEN {z[n + 1].of} ELSE {})
    BY <1>1, SaidMore
  <2>2. Said(z, n, kind) = Said(w, n, kind)
    BY <1>1 DEF Said
  <2> QED BY <1>1, <2>1, <2>2
<1> QED BY <1>1, <1>2, <1>3 DEF z

LEMMA IngestsKeeps == Sworn /\ Agents!Ingests => Sworn'
<1> SUFFICES ASSUME Sworn, Agents!Ingests PROVE Sworn'
  OBVIOUS
<1>1. PICK kind, late, of, e :
        /\ kind \in {"call", "ack", "report"} \cup Agents!Kinds
        /\ of \in IF kind \in Agents!Kinds THEN Agent ELSE Spawn
        /\ e = [kind |-> kind, of |-> of,
                stamp |-> IF late THEN 2 * (Len(log) + 1) - 3 ELSE 2 * (Len(log) + 1)]
        /\ ~\E i \in DOMAIN log : log[i].kind = kind /\ log[i].of = of
        /\ log' = Append(log, e) /\ tracker' = Agents!Ingest(tracker, e) /\ parent' = parent
  BY DEF Agents!Ingests
<1>2. log \in Seq(Agents!Event) /\ Len(log) \in Nat
  BY DEF Sworn
<1>3. PICK S, D : S = Said(log, Len(log), "call") /\ D = Said(log, Len(log), "stop")
  OBVIOUS
<1>4. e \in Agents!Event /\ e.kind = kind /\ e.of = of
  <2>1. (IF late THEN 2 * (Len(log) + 1) - 3 ELSE 2 * (Len(log) + 1)) \in Int
    <3>1. 2 * (Len(log) + 1) - 3 \in Int /\ 2 * (Len(log) + 1) \in Int
      BY <1>2
    <3> QED BY <3>1
  <2>2. kind \in Agents!Kinds => of \in Agent
    BY <1>1
  <2>3. kind \notin Agents!Kinds => of \in Spawn /\ kind \in {"call", "ack", "report"}
    BY <1>1
  <2> QED BY <1>1, <2>1, <2>2, <2>3 DEF Agents!Event
<1>5. /\ log' \in Seq(Agents!Event) /\ Novel(log')
      /\ \A k : Said(log', Len(log'), k) =
           Said(log, Len(log), k) \cup (IF e.kind = k THEN {e.of} ELSE {})
  <2>1. Novel(log) /\ ~\E i \in DOMAIN log : log[i].kind = e.kind /\ log[i].of = e.of
    BY <1>1, <1>4 DEF Sworn
  <2>2. /\ Append(log, e) \in Seq(Agents!Event) /\ Novel(Append(log, e))
        /\ \A k : Said(Append(log, e), Len(Append(log, e)), k) =
             Said(log, Len(log), k) \cup (IF e.kind = k THEN {e.of} ELSE {})
    BY <1>2, <1>4, <2>1, LogMore
  <2> QED BY <1>1, <2>2
<1>6. S \subseteq Spawn /\ D \subseteq Agent
  BY <1>2, <1>3, SaidOf
<1>7. e.kind = "call" => e.of \notin S
  BY <1>1, <1>2, <1>3, <1>4 DEF Said
<1>8. SoundTracker(tracker, S, D, parent)
  BY <1>3 DEF Sworn
<1>9. SoundTracker(tracker', S \cup (IF e.kind = "call" THEN {e.of} ELSE {}),
                   D \cup (IF e.kind = "stop" THEN {e.of} ELSE {}), parent)
  BY <1>1, <1>4, <1>6, <1>7, <1>8, IngestKeeps
<1>10. SoundTracker(tracker', Said(log', Len(log'), "call"), Said(log', Len(log'), "stop"), parent')
  BY <1>1, <1>3, <1>5, <1>9
<1> QED BY <1>1, <1>5, <1>10 DEF Sworn

LEMMA RestartsKeeps == Sworn /\ Agents!Restarts => Sworn'
<1> SUFFICES ASSUME Sworn, Agents!Restarts PROVE Sworn'
  OBVIOUS
<1>1. /\ tracker' = Agents!LoadParentage(Agents!Backfill(log)) /\ log' = log /\ parent' = parent
      /\ parent \in [Agent -> Agent \cup {Nil}] /\ log \in Seq(Agents!Event) /\ Novel(log)
  BY DEF Agents!Restarts, Sworn
<1>2. PICK S, D : S = Said(log, Len(log), "call") /\ D = Said(log, Len(log), "stop")
  OBVIOUS
<1>3. PICK t : t = Agents!Backfill(log)
  OBVIOUS
<1>4. SoundTracker(t, S, D, parent)
  BY <1>1, <1>2, <1>3, BackfillKeeps
<1>5. SoundTracker(Agents!LoadParentage(t), S, D, parent)
  BY <1>1, <1>4, ParentageKeeps
<1> QED BY <1>1, <1>2, <1>3, <1>5 DEF Sworn

LEMMA SwornNext == Sworn /\ [Agents!Next]_(Agents!vars) => Sworn'
<1> SUFFICES ASSUME Sworn, [Agents!Next]_(Agents!vars) PROVE Sworn'
  OBVIOUS
<1>1. CASE Agents!Next
  BY <1>1, IngestsKeeps, RestartsKeeps DEF Agents!Next
<1>2. CASE UNCHANGED Agents!vars
  BY <1>2 DEF Agents!vars, Sworn
<1> QED BY <1>1, <1>2

LEMMA SwornLinked == Sworn => Agents!LinkedOneToOne
<1> SUFFICES ASSUME Sworn PROVE Agents!LinkedOneToOne
  OBVIOUS
<1>1. PICK q, b, S : /\ q = tracker.records /\ b = tracker.byAgent
                     /\ q \in Seq(Agents!RecordType) /\ Unique(q, S) /\ OneToOne(q, b)
  BY DEF Sworn, SoundTracker, Sound
<1>2. Agents!Places(tracker) = 1 .. Len(q)
  BY <1>1 DEF Agents!Places
<1>3. \A i, j \in 1 .. Len(q) :
        /\ q[i].agent # Nil => b[q[i].agent] = q[i].id
        /\ i # j => q[i].agent = Nil \/ q[i].agent # q[j].agent
        /\ q[i].calls \subseteq {q[i].agent}
  BY <1>1 DEF Unique, OneToOne
<1>4. \A a \in Agent : b[a] # Nil => \E i \in 1 .. Len(q) : q[i].id = b[a] /\ q[i].agent = a
  BY <1>1 DEF OneToOne
<1> QED BY <1>1, <1>2, <1>3, <1>4 DEF Agents!LinkedOneToOne

LEMMA SwornStops == Sworn => Agents!StopEnds
<1> SUFFICES ASSUME Sworn, NEW e \in Agents!Range(log), e.kind = "stop", e.of \notin tracker.evicted,
                    NEW i \in Agents!Resolved(tracker, e.of)
             PROVE  tracker.records[i].status = "completed"
  BY DEF Agents!StopEnds
<1>1. log \in Seq(Agents!Event)
  BY DEF Sworn
<1>2. PICK k \in 1 .. Len(log) : e = log[k]
  BY <1>1 DEF Agents!Range
<1>3. PICK S, D : S = Said(log, Len(log), "call") /\ D = Said(log, Len(log), "stop")
  OBVIOUS
<1>4. e.of \in D
  BY <1>2, <1>3 DEF Said
<1>5. e.of \in Agent
  BY <1>1, <1>3, <1>4, SaidOf
<1>6. SoundTracker(tracker, S, D, parent)
  BY <1>3 DEF Sworn
<1>7. i \in 1 .. Len(tracker.records) /\ tracker.records[i].agent = e.of
  BY <1>5, <1>6, ResolvedIs
<1> QED BY <1>4, <1>6, <1>7 DEF SoundTracker, Sound, Final

-----------------------------------------------------------------------------
(* The tree of a page: what is n generations under the roots.              *)
DownTo(page, n, f) ==
  f = [k \in 0 .. n |-> IF k = 0 THEN Agents!Roots(page)
                        ELSE f[k - 1] \cup UNION {Agents!Children(page, i) : i \in f[k - 1]}]

LEMMA DownMore ==
  ASSUME NEW page, NEW m \in Nat \ {0}, NEW f, DownTo(page, m - 1, f)
  PROVE  \E g : DownTo(page, m, g)
<1> DEFINE Under(X) == X \cup UNION {Agents!Children(page, i) : i \in X}
<1>1. PICK last : last = Under(f[m - 1])
  OBVIOUS
<1>2. PICK g : g = [k \in 0 .. m |-> IF k = m THEN last ELSE f[k]]
  OBVIOUS
<1>3. \A k \in 0 .. m - 1 : f[k] = IF k = 0 THEN Agents!Roots(page) ELSE Under(f[k - 1])
  BY DEF DownTo
<1>4. \A k \in 0 .. m : g[k] = IF k = 0 THEN Agents!Roots(page) ELSE Under(g[k - 1])
  <2> HIDE DEF Under
  <2> TAKE k \in 0 .. m
  <2>1. CASE k = m
    <3>1. g[m] = last /\ g[m - 1] = f[m - 1]
      BY <1>2
    <3> QED BY <1>1, <2>1, <3>1
  <2>2. CASE k = 0
    <3>1. g[0] = f[0] /\ f[0] = Agents!Roots(page)
      BY <1>2, <1>3
    <3> QED BY <2>2, <3>1
  <2>3. CASE k # m /\ k # 0
    <3>1. k \in 0 .. m - 1 /\ g[k] = f[k] /\ g[k - 1] = f[k - 1]
      BY <1>2, <2>3
    <3> QED BY <1>3, <2>3, <3>1
  <2> QED BY <2>1, <2>2, <2>3
<1>5. g = [k \in 0 .. m |-> IF k = 0 THEN Agents!Roots(page) ELSE Under(g[k - 1])]
  <2> HIDE DEF Under
  <2> QED BY <1>2, <1>4
<1> QED BY <1>5 DEF DownTo

LEMMA DownExists ==
  ASSUME NEW page, NEW n \in Nat
  PROVE  \E f : DownTo(page, n, f)
<1> DEFINE Bad == {k \in Nat : ~\E f : DownTo(page, k, f)}
<1> SUFFICES ASSUME Bad # {} PROVE FALSE
  OBVIOUS
<1>1. PICK m \in Bad : \A k \in Bad : m <= k
  BY AgentsNatMin
<1>2. CASE m = 0
  <2>1. DownTo(page, 0, [k \in 0 .. 0 |-> Agents!Roots(page)])
    BY DEF DownTo
  <2> QED BY <1>1, <1>2, <2>1
<1>3. CASE m # 0
  <2>1. m - 1 \in Nat /\ m - 1 \notin Bad
    BY <1>1, <1>3
  <2>2. PICK f : DownTo(page, m - 1, f)
    BY <2>1
  <2> QED BY <1>1, <1>3, <2>2, DownMore
<1> QED BY <1>2, <1>3

LEMMA ShownBy ==
  ASSUME NEW page, Agents!Cardinality(page) \in Nat
  PROVE  \E f : /\ f[0] = Agents!Roots(page) /\ Agents!Shown(page) = f[Agents!Cardinality(page)]
                /\ \A k \in 1 .. Agents!Cardinality(page) :
                     f[k] = f[k - 1] \cup UNION {Agents!Children(page, i) : i \in f[k - 1]}
<1> DEFINE n == Agents!Cardinality(page)
           h == CHOOSE f : f = [k \in 0 .. n |->
                  IF k = 0 THEN Agents!Roots(page)
                  ELSE f[k - 1] \cup UNION {Agents!Children(page, i) : i \in f[k - 1]}]
<1>1. \E f : f = [k \in 0 .. n |->
                  IF k = 0 THEN Agents!Roots(page)
                  ELSE f[k - 1] \cup UNION {Agents!Children(page, i) : i \in f[k - 1]}]
  <2>1. \E f : DownTo(page, n, f)
    BY DownExists
  <2> QED BY <2>1 DEF DownTo
<1>2. h = [k \in 0 .. n |->
                  IF k = 0 THEN Agents!Roots(page)
                  ELSE h[k - 1] \cup UNION {Agents!Children(page, i) : i \in h[k - 1]}]
  BY <1>1
<1>3. Agents!Shown(page) = h[n]
  BY DEF Agents!Shown
<1> HIDE DEF h
<1>4. h[0] = Agents!Roots(page)
  BY <1>2
<1>5. \A k \in 1 .. n : h[k] = h[k - 1] \cup UNION {Agents!Children(page, i) : i \in h[k - 1]}
  <2> TAKE k \in 1 .. n
  <2>1. k \in 0 .. n /\ k # 0
    OBVIOUS
  <2> QED BY <1>2, <2>1
<1> QED BY <1>3, <1>4, <1>5

(* How deep a record's agent is; a record without an agent is on top.      *)
Depth(depth, i) ==
  IF tracker.records[i].agent = Nil THEN 0 ELSE depth[tracker.records[i].agent]

(* A record's parents on a page are less deep than the record.             *)
LEMMA ParentsAbove ==
  ASSUME Sworn
  PROVE  \E depth : /\ \A i \in Agents!Places(tracker) : Depth(depth, i) \in Int
                    /\ \A page \in SUBSET Agents!Places(tracker) : \A i \in page :
                         \A j \in Agents!ParentsOn(page, i) :
                           j \in page /\ Depth(depth, j) < Depth(depth, i)
<1>1. PICK depth \in [Agent -> Int] :
        \A a \in Agent : parent[a] # Nil => depth[parent[a]] < depth[a]
  BY DEF Sworn, Agents!Nested
<1>2. PICK q, S : /\ q = tracker.records /\ q \in Seq(Agents!RecordType)
                  /\ Unique(q, S) /\ Lineage(q, parent)
  BY DEF Sworn, SoundTracker, Sound
<1>3. Agents!Places(tracker) = 1 .. Len(q)
  BY <1>2 DEF Agents!Places
<1>4. \A a \in Agent : depth[a] \in Int
  BY <1>1
<1>5. ASSUME NEW i \in 1 .. Len(q) PROVE Depth(depth, i) \in Int
  <2>1. q[i] \in Agents!RecordType
    BY <1>2
  <2>2. q[i].agent \in Agent \cup {Nil}
    BY <2>1, FieldsAre
  <2> QED BY <1>2, <1>4, <2>2 DEF Depth
<1>6. ASSUME NEW page \in SUBSET (1 .. Len(q)), NEW i \in page, NEW j \in Agents!ParentsOn(page, i)
      PROVE  j \in page /\ Depth(depth, j) < Depth(depth, i)
  <2>1. PICK up : up = q[i].parent
    OBVIOUS
  <2>2. up # Nil /\ j \in page /\ (q[j].agent = up \/ q[j].id = up)
    BY <1>2, <2>1 DEF Agents!ParentsOn, Agents!Named
  <2>3. q[i] \in Agents!RecordType /\ q[j] \in Agents!RecordType
    BY <1>2, <2>2
  <2>4. up \in Agent
    BY <2>1, <2>2, <2>3, FieldsAre
  <2>5. q[j].agent = up
    BY <1>2, <2>2, <2>4 DEF Unique
  <2>6. q[i].agent # Nil /\ up = parent[q[i].agent] /\ q[i].agent \in Agent
    BY <1>2, <2>1, <2>2, <2>3, FieldsAre DEF Lineage
  <2>7. depth[up] < depth[q[i].agent]
    BY <1>1, <2>2, <2>6
  <2>8. Depth(depth, j) = depth[up] /\ Depth(depth, i) = depth[q[i].agent]
    BY <1>2, <2>2, <2>5, <2>6 DEF Depth
  <2> QED BY <2>2, <2>7, <2>8
<1> QED BY <1>3, <1>5, <1>6

(* A record is under a root, as many generations as records are less deep. *)
LEMMA SwornShown ==
  ASSUME Sworn, NEW page \in SUBSET Agents!Places(tracker)
  PROVE  Agents!Shown(page) = page
<1>1. PICK depth : /\ \A i \in Agents!Places(tracker) : Depth(depth, i) \in Int
                   /\ \A pg \in SUBSET Agents!Places(tracker) : \A i \in pg :
                        \A j \in Agents!ParentsOn(pg, i) :
                          j \in pg /\ Depth(depth, j) < Depth(depth, i)
  BY ParentsAbove
<1>2. IsFiniteSet(page) /\ Cardinality(page) \in Nat
  <2>1. tracker.records \in Seq(Agents!RecordType)
    BY DEF Sworn, SoundTracker, Sound
  <2>2. Agents!Places(tracker) = 1 .. Len(tracker.records) /\ Len(tracker.records) \in Nat
    BY <2>1 DEF Agents!Places
  <2>3. IsFiniteSet(Agents!Places(tracker))
    BY <2>2, IntervalIs
  <2>4. IsFiniteSet(page)
    BY <2>3, FS_Subset
  <2> QED BY <2>4, FS_CardinalityType
<1> DEFINE n == Cardinality(page)
           above(i) == {j \in page : Depth(depth, j) < Depth(depth, i)}
           rank(i) == Cardinality(above(i))
<1>3. PICK f : /\ f[0] = Agents!Roots(page) /\ Agents!Shown(page) = f[n]
               /\ \A k \in 1 .. n : f[k] = f[k - 1] \cup UNION {Agents!Children(page, i) : i \in f[k - 1]}
  <2>1. Agents!Cardinality(page) = n
    BY AgentsCardinality
  <2>2. \E f : /\ f[0] = Agents!Roots(page) /\ Agents!Shown(page) = f[Agents!Cardinality(page)]
               /\ \A k \in 1 .. Agents!Cardinality(page) :
                    f[k] = f[k - 1] \cup UNION {Agents!Children(page, i) : i \in f[k - 1]}
    BY <1>2, <2>1, ShownBy
  <2> QED BY <2>1, <2>2
<1>4. \A i \in page : Depth(depth, i) \in Int
  BY <1>1
<1>5. ASSUME NEW i \in page
      PROVE  IsFiniteSet(above(i)) /\ rank(i) \in Nat /\ rank(i) <= n
  <2>1. above(i) \in SUBSET page
    OBVIOUS
  <2>2. IsFiniteSet(above(i)) /\ Cardinality(above(i)) <= n
    BY <1>2, <2>1, FS_Subset
  <2> QED BY <2>2, FS_CardinalityType
<1>6. ASSUME NEW i \in page, NEW j \in Agents!ParentsOn(page, i)
      PROVE  j \in page /\ rank(j) < rank(i)
  <2>1. j \in page /\ Depth(depth, j) < Depth(depth, i)
    BY <1>1
  <2>2. above(j) \subseteq above(i) /\ j \in above(i) /\ j \notin above(j)
    BY <1>4, <2>1
  <2>3. above(j) \in SUBSET above(i) /\ above(j) # above(i)
    BY <2>2
  <2>4. rank(j) <= rank(i) /\ rank(j) # rank(i)
    BY <1>5, <2>3, FS_Subset
  <2> QED BY <1>5, <2>1, <2>4
<1> HIDE DEF rank
<1> DEFINE Good(k) == /\ f[k] \subseteq page /\ Agents!Roots(page) \subseteq f[k]
                      /\ \A i \in page : rank(i) <= k => i \in f[k]
           Bad == {k \in 0 .. n : ~Good(k)}
<1>7. \A i \in page : i \in Agents!Roots(page) \/ \E j \in Agents!ParentsOn(page, i) : j \in page
  BY <1>6 DEF Agents!Roots
<1>8. Good(0)
  <2>1. f[0] = Agents!Roots(page) /\ Agents!Roots(page) \subseteq page
    BY <1>3 DEF Agents!Roots
  <2>2. ASSUME NEW i \in page, rank(i) <= 0 PROVE i \in Agents!Roots(page)
    <3>1. SUFFICES ASSUME NEW j \in Agents!ParentsOn(page, i) PROVE FALSE
      BY <1>7
    <3>2. j \in page /\ rank(j) < rank(i)
      BY <1>6
    <3>3. rank(j) \in Nat /\ rank(i) \in Nat
      BY <1>5, <3>2
    <3> QED BY <2>2, <3>2, <3>3
  <2> QED BY <2>1, <2>2
<1>9. ASSUME NEW k \in 1 .. n, Good(k - 1) PROVE Good(k)
  <2>1. f[k] = f[k - 1] \cup UNION {Agents!Children(page, i) : i \in f[k - 1]}
    BY <1>3
  <2>2. f[k] \subseteq page /\ Agents!Roots(page) \subseteq f[k]
    BY <1>9, <2>1 DEF Agents!Children
  <2>3. ASSUME NEW i \in page, rank(i) <= k PROVE i \in f[k]
    <3>1. CASE i \in Agents!Roots(page)
      BY <2>2, <3>1
    <3>2. CASE i \notin Agents!Roots(page)
      <4>1. PICK j \in Agents!ParentsOn(page, i) : j \in page
        BY <1>7, <3>2
      <4>2. rank(j) <= k - 1
        <5>1. rank(j) < rank(i)
          BY <1>6
        <5>2. rank(j) \in Nat /\ rank(i) \in Nat
          BY <1>5, <4>1
        <5> QED BY <1>2, <2>3, <5>1, <5>2
      <4>3. j \in f[k - 1]
        BY <1>9, <4>1, <4>2
      <4>4. i \in Agents!Children(page, j)
        BY <4>1 DEF Agents!Children
      <4> QED BY <2>1, <4>3, <4>4
    <3> QED BY <3>1, <3>2
  <2> QED BY <2>2, <2>3
<1>10. Good(n)
  <2> SUFFICES ASSUME ~Good(n) PROVE FALSE
    OBVIOUS
  <2>1. n \in Bad /\ Bad \subseteq Nat
    BY <1>2
  <2>2. PICK m \in Bad : \A k \in Bad : m <= k
    BY <2>1, AgentsNatMin
  <2> HIDE DEF Good
  <2>3. m \in 1 .. n /\ m - 1 \in 0 .. n /\ ~Good(m)
    BY <1>2, <1>8, <2>2
  <2>4. Good(m - 1)
    BY <2>2, <2>3
  <2> QED BY <1>9, <2>3, <2>4
<1> QED BY <1>3, <1>5, <1>10

LEMMA SwornWhole == Sworn => Agents!NobodyDisappears
  BY SwornShown DEF Agents!NobodyDisappears

-----------------------------------------------------------------------------
(* The types, which are part of what was shown of the tracker.             *)
LEMMA SwornTypes == Sworn => Agents!TypeOK
<1> SUFFICES ASSUME Sworn PROVE Agents!TypeOK
  OBVIOUS
<1>1. /\ log \in Seq(Agents!Event) /\ tracker \in Tracker
      /\ tracker.records \in Seq(Agents!RecordType) /\ Len(tracker.records) <= MaxAgents
  BY DEF Sworn, SoundTracker, Sound
<1>2. \A i \in Agents!Places(tracker) : tracker.records[i] \in Agents!RecordType
  BY <1>1 DEF Agents!Places
<1>3. tracker.byAgent \in [Agent -> Spawn \cup Agent \cup {Nil}]
  BY <1>1 DEF Tracker
<1> QED BY <1>1, <1>2, <1>3 DEF Agents!TypeOK

-----------------------------------------------------------------------------
(* The pane: as long as answers come in the order of their requests, what  *)
(* is held is of the session that is selected and so is all that is due,   *)
(* or something is due that will replace it.                               *)

(* What is asked, and what is answered and not received, in order.         *)
Asks == [kind : Pane!Kind, sess : Session \cup {Nil}, delta : BOOLEAN]

AskOf(r) == Pane!Ask(r.kind, r.sess, r.delta)

DueOf(a, o) == [i \in 1 .. Len(a) + Len(o) |->
                  AskOf(IF i <= Len(a) THEN a[i] ELSE o[i - Len(a)])]

Due == DueOf(answers, open)

(* What is held is of the session s, and nothing due will change that; or  *)
(* it will be replaced by what is.                                         *)
OnlyFrom(q, i, k, s) ==
  \A j \in i .. Len(q) : q[j].kind = k => q[j].sess = s

WillBeOf(q, k, s, of) ==
  \/ of \subseteq {s} /\ OnlyFrom(q, 1, k, s)
  \/ \E i \in 1 .. Len(q) :
       q[i].kind = k /\ ~q[i].delta /\ OnlyFrom(q, i, k, s) /\ q[i].sess = s

PaneOrdered ==
  /\ open \in Seq(Asks) /\ Due \in Seq(Asks)
  /\ WillBeOf(Due, "activity", selected, feed)
  /\ WillBeOf(Due, "logs", selected, sessionLogs)
  /\ WillBeOf(Due, "transcript", transcript.sess, transcript.of)

Drawn ==
  /\ pane.sess = selected /\ pane.tab = tab /\ tab \in Pane!Tab
  /\ DOMAIN pane = {"tab", "sess", "waits", "of"}
  /\ selected = Nil => tab = "activity" /\ pane.of = {}
  /\ feed \subseteq {selected} \cup strayed
  /\ tab = "activity" => pane.of \subseteq {selected} \cup strayed
  /\ tab = "logs" => pane.of = sessionLogs
  /\ tab = "transcript" => pane.of = transcript.of /\ transcript.sess = selected
  /\ tab = "injected" => pane.of \subseteq {selected}

Held ==
  /\ selected \in Session \cup {Nil}
  /\ injections.of \subseteq {injections.sess}
  /\ "of" \in DOMAIN transcript
  /\ \E T : answers \in Seq(T)
  /\ \A i \in 1 .. Len(answers) : answers[i].of \subseteq {answers[i].sess}
  /\ overtaken \in BOOLEAN /\ refusals \in Nat

PaneIInv ==
  /\ Drawn /\ Held
  /\ ~overtaken /\ refusals = 0 => PaneOrdered

-----------------------------------------------------------------------------
LEMMA SameSeq ==
  ASSUME NEW p \in Seq(Asks), NEW n \in Nat, NEW f, f = [i \in 1 .. n |-> f[i]],
         n = Len(p), \A i \in 1 .. n : f[i] = p[i]
  PROVE  f = p
  OBVIOUS

LEMMA AskOfAsk == \A r \in Asks : AskOf(r) = r
  BY DEF Asks, AskOf, Pane!Ask

LEMMA ConcatIs ==
  ASSUME NEW p \in Seq(Asks), NEW w \in Seq(Asks)
  PROVE  /\ p \o w \in Seq(Asks) /\ Len(p \o w) = Len(p) + Len(w)
         /\ Len(p) \in Nat /\ Len(w) \in Nat
         /\ \A i \in 1 .. Len(p) : (p \o w)[i] = p[i]
         /\ \A i \in 1 .. Len(w) : (p \o w)[Len(p) + i] = w[i] /\ w[i] \in Asks
         /\ \A i \in 1 .. Len(p) + Len(w) : i > Len(p) => (p \o w)[i] = w[i - Len(p)]
  OBVIOUS

LEMMA Assoc ==
  ASSUME NEW p \in Seq(Asks), NEW q \in Seq(Asks), NEW w \in Seq(Asks)
  PROVE  p \o q \o w = p \o (q \o w)
  OBVIOUS

LEMMA TailOf ==
  ASSUME NEW T, NEW p \in Seq(T), p # <<>>
  PROVE  /\ Tail(p) \in Seq(T) /\ Len(Tail(p)) = Len(p) - 1 /\ Len(p) \in Nat \ {0}
         /\ \A i \in 1 .. Len(p) - 1 : Tail(p)[i] = p[i + 1]
         /\ Head(p) = p[1]
  OBVIOUS

LEMMA TailSplit ==
  ASSUME NEW p \in Seq(Asks), p # <<>>
  PROVE  SubSeq(p, 1, 0) \o SubSeq(p, 2, Len(p)) = Tail(p)
  OBVIOUS

(* More is asked, the first of what is due is received, or the first       *)
(* request answered.                                                       *)
LEMMA DueGrows ==
  ASSUME NEW T, NEW a \in Seq(T), NEW o \in Seq(Asks), NEW w \in Seq(Asks),
         DueOf(a, o) \in Seq(Asks)
  PROVE  DueOf(a, o \o w) = DueOf(a, o) \o w
<1> DEFINE d == DueOf(a, o)
           z == DueOf(a, o \o w)
<1> SUFFICES z = d \o w
  OBVIOUS
<1>0. Len(a) \in Nat /\ Len(o) \in Nat /\ Len(w) \in Nat
  OBVIOUS
<1>1. /\ Len(a) \in Nat /\ Len(o) \in Nat /\ Len(w) \in Nat /\ Len(o \o w) = Len(o) + Len(w)
      /\ \A i \in 1 .. Len(o) : (o \o w)[i] = o[i]
      /\ \A i \in 1 .. Len(w) : (o \o w)[Len(o) + i] = w[i] /\ w[i] \in Asks
  BY ConcatIs
<1>2. /\ d = [i \in 1 .. Len(a) + Len(o) |-> d[i]]
      /\ \A i \in 1 .. Len(a) + Len(o) : d[i] = AskOf(IF i <= Len(a) THEN a[i] ELSE o[i - Len(a)])
      /\ z = [i \in 1 .. Len(a) + Len(o) + Len(w) |-> z[i]]
      /\ \A i \in 1 .. Len(a) + Len(o) + Len(w) :
           z[i] = AskOf(IF i <= Len(a) THEN a[i] ELSE (o \o w)[i - Len(a)])
  BY <1>1 DEF DueOf
<1> HIDE DEF d, z
<1>3. d \in Seq(Asks) /\ Len(d) = Len(a) + Len(o)
  BY <1>0, <1>2 DEF d
<1> DEFINE y == d \o w
<1>4. /\ y \in Seq(Asks) /\ Len(y) = Len(d) + Len(w)
      /\ \A i \in 1 .. Len(d) : y[i] = d[i]
      /\ \A i \in 1 .. Len(d) + Len(w) : i > Len(d) => y[i] = w[i - Len(d)]
  BY <1>3, ConcatIs
<1> HIDE DEF y
<1>5. ASSUME NEW i \in 1 .. Len(a) + Len(o) + Len(w)
      PROVE  z[i] = y[i]
  <2>1. CASE i <= Len(a)
    <3>1. i \in 1 .. Len(a) + Len(o)
      BY <1>0, <2>1
    <3> QED BY <1>2, <1>3, <1>4, <2>1, <3>1
  <2>2. CASE i > Len(a) /\ i <= Len(a) + Len(o)
    <3>1. i - Len(a) \in 1 .. Len(o) /\ i \in 1 .. Len(a) + Len(o) /\ ~(i <= Len(a))
      BY <1>0, <2>2
    <3> QED BY <1>1, <1>2, <1>3, <1>4, <2>2, <3>1, ZenonT(40)
  <2>3. CASE i > Len(a) + Len(o)
    <3> DEFINE m == i - (Len(a) + Len(o))
    <3>1. m \in 1 .. Len(w) /\ i - Len(a) = Len(o) + m /\ ~(i <= Len(a))
      BY <1>0, <2>3
    <3>2. z[i] = AskOf(w[m]) /\ w[m] \in Asks
      BY <1>1, <1>2, <3>1
    <3>3. y[i] = w[m]
      BY <1>3, <1>4, <2>3
    <3> QED BY <3>2, <3>3, AskOfAsk
  <2> QED BY <1>0, <2>1, <2>2, <2>3
<1>6. Len(a) + Len(o) + Len(w) \in Nat /\ Len(y) = Len(a) + Len(o) + Len(w)
  BY <1>0, <1>3, <1>4
<1>7. z = y
  BY <1>2, <1>4, <1>5, <1>6, SameSeq
<1> QED BY <1>7 DEF y

LEMMA DueShrinks ==
  ASSUME NEW T, NEW a \in Seq(T), NEW o \in Seq(Asks), DueOf(a, o) \in Seq(Asks), a # <<>>
  PROVE  /\ DueOf(Tail(a), o) = Tail(DueOf(a, o))
         /\ DueOf(a, o) # <<>> /\ DueOf(a, o)[1] = AskOf(Head(a))
<1> DEFINE d == DueOf(a, o)
           z == DueOf(Tail(a), o)
<1> SUFFICES z = Tail(d) /\ d # <<>> /\ d[1] = AskOf(Head(a))
  OBVIOUS
<1>0. Len(a) \in Nat \ {0} /\ Len(o) \in Nat
  BY TailOf
<1>1. /\ Len(Tail(a)) = Len(a) - 1 /\ Head(a) = a[1]
      /\ \A i \in 1 .. Len(a) - 1 : Tail(a)[i] = a[i + 1]
  BY TailOf
<1>2. /\ d = [i \in 1 .. Len(a) + Len(o) |-> d[i]]
      /\ \A i \in 1 .. Len(a) + Len(o) : d[i] = AskOf(IF i <= Len(a) THEN a[i] ELSE o[i - Len(a)])
      /\ z = [i \in 1 .. (Len(a) - 1) + Len(o) |-> z[i]]
      /\ \A i \in 1 .. (Len(a) - 1) + Len(o) :
           z[i] = AskOf(IF i <= Len(a) - 1 THEN Tail(a)[i] ELSE o[i - (Len(a) - 1)])
  BY <1>0, <1>1 DEF DueOf
<1> HIDE DEF d, z
<1>3. d \in Seq(Asks) /\ Len(d) = Len(a) + Len(o) /\ d # <<>>
  BY <1>0, <1>2 DEF d
<1> DEFINE y == Tail(d)
<1>4. /\ y \in Seq(Asks) /\ Len(y) = Len(d) - 1
      /\ \A i \in 1 .. Len(d) - 1 : y[i] = d[i + 1]
  BY <1>3, TailOf
<1> HIDE DEF y
<1>5. ASSUME NEW i \in 1 .. (Len(a) - 1) + Len(o)
      PROVE  z[i] = y[i]
  <2>0. i \in 1 .. Len(d) - 1 /\ i \in Nat
    BY <1>0, <1>3
  <2>1. CASE i <= Len(a) - 1
    <3>1. i \in 1 .. Len(a) - 1 /\ i + 1 <= Len(a) /\ i + 1 \in 1 .. Len(a) + Len(o)
      BY <1>0, <2>1
    <3>2. z[i] = AskOf(a[i + 1]) /\ d[i + 1] = AskOf(a[i + 1])
      BY <1>1, <1>2, <2>1, <3>1
    <3> QED BY <1>4, <2>0, <3>2
  <2>2. CASE i > Len(a) - 1
    <3>1. /\ ~(i + 1 <= Len(a)) /\ ~(i <= Len(a) - 1) /\ i + 1 \in 1 .. Len(a) + Len(o)
          /\ i - (Len(a) - 1) = i + 1 - Len(a)
      BY <1>0, <2>2
    <3>2. z[i] = AskOf(o[i + 1 - Len(a)]) /\ d[i + 1] = AskOf(o[i + 1 - Len(a)])
      BY <1>2, <3>1
    <3> QED BY <1>4, <2>0, <3>2
  <2> QED BY <1>0, <2>1, <2>2
<1>6. d[1] = AskOf(a[1])
  <2>1. 1 \in 1 .. Len(a) + Len(o) /\ 1 <= Len(a)
    BY <1>0
  <2> QED BY <1>2, <2>1
<1>7. (Len(a) - 1) + Len(o) \in Nat /\ Len(y) = (Len(a) - 1) + Len(o)
  BY <1>0, <1>3, <1>4
<1>8. z = y
  BY <1>2, <1>4, <1>5, <1>7, SameSeq
<1> QED BY <1>1, <1>3, <1>6, <1>8 DEF y

LEMMA DueMoves ==
  ASSUME NEW T, NEW a \in Seq(T), NEW o \in Seq(Asks), o # <<>>, NEW x, AskOf(x) = AskOf(o[1]),
         DueOf(a, o) \in Seq(Asks)
  PROVE  DueOf(Append(a, x), Tail(o)) = DueOf(a, o)
<1> DEFINE d == DueOf(a, o)
           b == Append(a, x)
           z == DueOf(b, Tail(o))
<1>1. /\ Len(a) \in Nat /\ Len(o) \in Nat \ {0} /\ Len(Tail(o)) = Len(o) - 1
      /\ \A i \in 1 .. Len(o) - 1 : Tail(o)[i] = o[i + 1]
  OBVIOUS
<1>2. /\ Len(b) = Len(a) + 1 /\ b[Len(a) + 1] = x
      /\ \A i \in 1 .. Len(a) : b[i] = a[i]
  <2>1. a \in Seq(T \cup {x})
    OBVIOUS
  <2> QED BY <2>1
<1> HIDE DEF b
<1>3. /\ d = [i \in 1 .. Len(a) + Len(o) |-> d[i]]
      /\ \A i \in 1 .. Len(a) + Len(o) : d[i] = AskOf(IF i <= Len(a) THEN a[i] ELSE o[i - Len(a)])
      /\ z = [i \in 1 .. (Len(a) + 1) + (Len(o) - 1) |-> z[i]]
      /\ \A i \in 1 .. (Len(a) + 1) + (Len(o) - 1) :
           z[i] = AskOf(IF i <= Len(a) + 1 THEN b[i] ELSE Tail(o)[i - (Len(a) + 1)])
  BY <1>1, <1>2 DEF DueOf
<1> HIDE DEF d, z
<1>4. (Len(a) + 1) + (Len(o) - 1) = Len(a) + Len(o)
  BY <1>1
<1>5. ASSUME NEW i \in 1 .. Len(a) + Len(o)
      PROVE  z[i] = d[i]
  <2>1. CASE i <= Len(a)
    BY <1>1, <1>2, <1>3, <1>4, <2>1
  <2>2. CASE i = Len(a) + 1
    <3>1. i - Len(a) = 1 /\ ~(i <= Len(a)) /\ i <= Len(a) + 1
      BY <1>1, <2>2
    <3> QED BY <1>2, <1>3, <1>4, <2>2, <3>1
  <2>3. CASE i > Len(a) + 1
    <3> DEFINE m == i - (Len(a) + 1)
    <3>1. m \in 1 .. Len(o) - 1 /\ i - Len(a) = m + 1 /\ ~(i <= Len(a)) /\ ~(i <= Len(a) + 1)
      BY <1>1, <2>3
    <3>2. Tail(o)[m] = o[i - Len(a)]
      BY <1>1, <3>1
    <3> QED BY <1>3, <1>4, <3>1, <3>2
  <2> QED BY <1>1, <2>1, <2>2, <2>3
<1>6. d \in Seq(Asks) /\ Len(d) = Len(a) + Len(o) /\ Len(a) + Len(o) \in Nat
  BY <1>1, <1>3 DEF d
<1> QED BY <1>3, <1>4, <1>5, <1>6, SameSeq DEF z, d, b

-----------------------------------------------------------------------------
(* Requests that come after those that are due.                            *)
LEMMA MoreDue ==
  ASSUME NEW q \in Seq(Asks), NEW w \in Seq(Asks), NEW k, NEW s, NEW of,
         OnlyFrom(w, 1, k, s),
         \/ WillBeOf(q, k, s, of)
         \/ \E i \in 1 .. Len(w) : w[i].kind = k /\ ~w[i].delta
  PROVE  WillBeOf(q \o w, k, s, of)
<1> DEFINE z == q \o w
<1>1. /\ z \in Seq(Asks) /\ Len(z) = Len(q) + Len(w) /\ Len(q) \in Nat /\ Len(w) \in Nat
      /\ \A i \in 1 .. Len(q) : z[i] = q[i]
      /\ \A i \in 1 .. Len(w) : z[Len(q) + i] = w[i]
      /\ \A j \in 1 .. Len(z) : j > Len(q) => j - Len(q) \in 1 .. Len(w) /\ z[j] = w[j - Len(q)]
  OBVIOUS
<1> HIDE DEF z
<1>2. \A j \in 1 .. Len(z) : j > Len(q) /\ z[j].kind = k => z[j].sess = s
  BY <1>1 DEF OnlyFrom
<1>3. CASE of \subseteq {s} /\ OnlyFrom(q, 1, k, s)
  <2>1. OnlyFrom(z, 1, k, s)
    BY <1>1, <1>2, <1>3 DEF OnlyFrom
  <2> QED BY <1>3, <2>1 DEF WillBeOf, z
<1>4. ASSUME NEW i \in 1 .. Len(q), q[i].kind = k, ~q[i].delta, OnlyFrom(q, i, k, s), q[i].sess = s
      PROVE  WillBeOf(z, k, s, of)
  <2>1. OnlyFrom(z, i, k, s)
    BY <1>1, <1>2, <1>4, SMTT(30) DEF OnlyFrom
  <2>2. i \in 1 .. Len(z) /\ z[i] = q[i]
    BY <1>1
  <2> QED BY <1>4, <2>1, <2>2 DEF WillBeOf
<1>5. ASSUME NEW i \in 1 .. Len(w), w[i].kind = k, ~w[i].delta
      PROVE  WillBeOf(z, k, s, of)
  <2> DEFINE m == Len(q) + i
  <2>1. m \in 1 .. Len(z) /\ z[m] = w[i] /\ m > Len(q)
    BY <1>1
  <2> HIDE DEF m
  <2>2. OnlyFrom(z, m, k, s)
    BY <1>1, <1>2, <2>1 DEF OnlyFrom
  <2>3. z[m].sess = s
    BY <1>2, <1>5, <2>1
  <2> QED BY <1>5, <2>1, <2>2, <2>3 DEF WillBeOf
<1> QED BY <1>3, <1>4, <1>5 DEF WillBeOf, z

(* The first of them is received.                                          *)
LEMMA OneReceived ==
  ASSUME NEW q \in Seq(Asks), q # <<>>, NEW k, NEW s, NEW of, NEW of1,
         WillBeOf(q, k, s, of),
         \/ q[1].kind # k /\ of1 = of
         \/ q[1].kind = k /\ of1 \subseteq {q[1].sess}
         \/ q[1].kind = k /\ q[1].delta /\ of1 \subseteq of \cup {q[1].sess}
  PROVE  WillBeOf(Tail(q), k, s, of1)
<1> DEFINE z == Tail(q)
<1>1. /\ Len(z) = Len(q) - 1 /\ Len(q) \in Nat \ {0}
      /\ \A j \in 1 .. Len(z) : z[j] = q[j + 1]
  BY TailOf
<1> HIDE DEF z
<1>2. ASSUME OnlyFrom(q, 1, k, s)
      PROVE  OnlyFrom(z, 1, k, s) /\ (q[1].kind = k => q[1].sess = s)
  BY <1>1, <1>2 DEF OnlyFrom
<1>3. CASE of \subseteq {s} /\ OnlyFrom(q, 1, k, s)
  BY <1>2, <1>3 DEF WillBeOf, z
<1>4. ASSUME NEW i \in 1 .. Len(q), q[i].kind = k, ~q[i].delta, OnlyFrom(q, i, k, s), q[i].sess = s
      PROVE  WillBeOf(z, k, s, of1)
  <2>1. CASE i = 1
    BY <1>2, <1>4, <2>1 DEF WillBeOf
  <2>2. CASE i # 1
    <3>1. i - 1 \in 1 .. Len(z) /\ z[i - 1] = q[i]
      BY <1>1, <2>2
    <3>2. OnlyFrom(z, i - 1, k, s)
      BY <1>1, <1>4, <2>2 DEF OnlyFrom
    <3> QED BY <1>4, <3>1, <3>2 DEF WillBeOf
  <2> QED BY <2>1, <2>2
<1> QED BY <1>3, <1>4 DEF WillBeOf, z

-----------------------------------------------------------------------------
LEMMA AskIs ==
  ASSUME NEW k \in Pane!Kind, NEW s \in Session \cup {Nil}
  PROVE  /\ Pane!Ask(k, s, FALSE) \in Asks /\ Pane!Ask(k, s, FALSE).sess = s
         /\ ~Pane!Ask(k, s, FALSE).delta /\ Pane!Ask(k, s, FALSE).kind = k
  BY DEF Pane!Ask, Asks

LEMMA Optional ==
  ASSUME NEW x \in Asks, NEW a, a = <<x>> \/ a = <<>>
  PROVE  /\ a \in Seq(Asks)
         /\ \A i \in 1 .. Len(a) : a[i] = x
<1>1. <<x>> \in Seq(Asks) /\ Len(<<x>>) = 1 /\ <<x>>[1] = x
  OBVIOUS
<1>2. CASE a = <<x>>
  <2>1. \A i \in 1 .. Len(a) : i = 1
    BY <1>1, <1>2
  <2> QED BY <1>1, <1>2, <2>1
<1>3. CASE a = <<>>
  BY <1>3
<1> QED BY <1>2, <1>3

JoinOf(z, p, q) ==
  /\ z \in Seq(Asks) /\ Len(z) = Len(p) + Len(q) /\ Len(p) \in Nat /\ Len(q) \in Nat
  /\ \A i \in 1 .. Len(z) : \/ \E j \in 1 .. Len(p) : z[i] = p[j]
                            \/ \E j \in 1 .. Len(q) : z[i] = q[j]
  /\ \A i \in 1 .. Len(p) : i \in 1 .. Len(z) /\ z[i] = p[i]
  /\ \A i \in 1 .. Len(q) : Len(p) + i \in 1 .. Len(z) /\ z[Len(p) + i] = q[i]

LEMMA Joined ==
  ASSUME NEW p \in Seq(Asks), NEW q \in Seq(Asks), NEW z, z = p \o q
  PROVE  JoinOf(z, p, q)
<1>1. /\ z \in Seq(Asks) /\ Len(z) = Len(p) + Len(q) /\ Len(p) \in Nat /\ Len(q) \in Nat
      /\ \A i \in 1 .. Len(p) : z[i] = p[i]
      /\ \A i \in 1 .. Len(q) : z[Len(p) + i] = q[i]
      /\ \A i \in 1 .. Len(p) + Len(q) : i > Len(p) => z[i] = q[i - Len(p)]
  BY ConcatIs
<1>2. ASSUME NEW i \in 1 .. Len(z)
      PROVE  (\E j \in 1 .. Len(p) : z[i] = p[j]) \/ (\E j \in 1 .. Len(q) : z[i] = q[j])
  <2>1. CASE i <= Len(p)
    BY <1>1, <2>1
  <2>2. CASE i > Len(p)
    <3>1. i - Len(p) \in 1 .. Len(q) /\ z[i] = q[i - Len(p)]
      BY <1>1, <2>2
    <3> QED BY <3>1
  <2> QED BY <1>1, <2>1, <2>2
<1>3. /\ \A i \in 1 .. Len(p) : i \in 1 .. Len(z)
      /\ \A i \in 1 .. Len(q) : Len(p) + i \in 1 .. Len(z)
  BY <1>1
<1> QED BY <1>1, <1>2, <1>3 DEF JoinOf

(* What is drawn for a session, and what is asked for.                     *)
Shows(r, t, s, f, l) ==
  /\ DOMAIN r.pane = {"tab", "sess", "waits", "of"}
  /\ r.pane.sess = s /\ r.pane.tab = t
  /\ t = "activity" => r.pane.of = f
  /\ t = "logs" => r.pane.of = l
  /\ t = "transcript" => r.pane.of = r.transcript.of /\ r.transcript.sess = s
  /\ t = "injected" => r.pane.of \subseteq {s}
  /\ r.injections.of \subseteq {r.injections.sess}
  /\ "of" \in DOMAIN r.transcript

AsksFor(r, s, tr) ==
  /\ r.asks \in Seq(Asks)
  /\ \A i \in 1 .. Len(r.asks) :
       r.asks[i].sess = s /\ ~r.asks[i].delta /\ r.asks[i].kind # "activity"
  /\ \/ /\ r.transcript = tr
        /\ \A i \in 1 .. Len(r.asks) : r.asks[i].kind # "transcript"
     \/ /\ r.transcript.sess = s
        /\ \E i \in 1 .. Len(r.asks) : r.asks[i].kind = "transcript"

(* More requests for it, and all of those that are sent.                   *)
Also(more, s) ==
  /\ more \in Seq(Asks)
  /\ \A i \in 1 .. Len(more) : more[i].sess = s /\ more[i].kind # "transcript"

Sends(w, r, s, more, tr) ==
  /\ w \in Seq(Asks)
  /\ \A k : OnlyFrom(w, 1, k, s)
  /\ \A i \in 1 .. Len(more) : \E j \in 1 .. Len(w) : w[j] = more[i]
  /\ \A q \in Seq(Asks) : WillBeOf(q, "transcript", tr.sess, tr.of) =>
       WillBeOf(q \o w, "transcript", r.transcript.sess, r.transcript.of)

LEMMA RenderedIs ==
  ASSUME NEW t \in Pane!Tab, NEW s \in Session \cup {Nil}, NEW f, NEW l, NEW inj, NEW tr,
         inj.of \subseteq {inj.sess}, "of" \in DOMAIN tr,
         NEW r, r = Pane!Rendered(t, s, f, l, inj, tr)
  PROVE  Shows(r, t, s, f, l) /\ AsksFor(r, s, tr)
<1> DEFINE reset == [sess |-> s, of |-> {}, loading |-> TRUE]
           inj1 == IF t = "injected" /\ inj.sess # s THEN reset ELSE inj
           tr1 == IF t = "transcript" /\ tr.sess # s THEN reset ELSE tr
           a1 == IF inj1 # inj THEN <<Pane!Ask("injections", s, FALSE)>> ELSE <<>>
           a2 == IF tr1 # tr THEN <<Pane!Ask("transcript", s, FALSE)>> ELSE <<>>
           a3 == IF t = "logs" /\ l = {} THEN <<Pane!Ask("logs", s, FALSE)>> ELSE <<>>
<1>1. r = Pane!Asked(t, s, f, l, inj, inj1, tr, tr1)
  BY DEF Pane!Rendered
<1>2. inj1.of \subseteq {inj1.sess}
  OBVIOUS
<1>3. tr1 = tr \/ (tr1 # tr /\ tr1.sess = s)
  OBVIOUS
<1>4. (t = "transcript" => tr1.sess = s) /\ "of" \in DOMAIN tr1
  OBVIOUS
<1>5. /\ r.injections = inj1 /\ r.transcript = tr1 /\ r.asks = a1 \o a2 \o a3
      /\ r.pane = CASE t = "injected" -> Pane!Injected(s, inj1)
              [] t = "activity" -> [tab |-> t, sess |-> s, waits |-> FALSE, of |-> f]
              [] t = "logs" -> [tab |-> t, sess |-> s, waits |-> l = {}, of |-> l]
              [] OTHER -> [tab |-> t, sess |-> s, waits |-> tr1 # tr, of |-> tr1.of]
  BY <1>1 DEF Pane!Asked
<1> HIDE DEF inj1, tr1
<1>7. /\ DOMAIN r.pane = {"tab", "sess", "waits", "of"}
      /\ r.pane.sess = s /\ r.pane.tab = t
      /\ t = "activity" => r.pane.of = f
      /\ t = "logs" => r.pane.of = l
      /\ t = "transcript" => r.pane.of = r.transcript.of /\ r.transcript.sess = s
      /\ t = "injected" => r.pane.of \subseteq {s}
      /\ r.injections.of \subseteq {r.injections.sess} /\ "of" \in DOMAIN r.transcript
  BY <1>2, <1>4, <1>5 DEF Pane!Injected, Pane!Tab
<1>8. /\ a1 \in Seq(Asks) /\ a2 \in Seq(Asks) /\ a3 \in Seq(Asks)
      /\ tr1 # tr => Len(a2) = 1
      /\ tr1 = tr => Len(a2) = 0
      /\ \A i \in 1 .. Len(a1) : a1[i].kind = "injections" /\ a1[i].sess = s /\ ~a1[i].delta
      /\ \A i \in 1 .. Len(a2) : a2[i].kind = "transcript" /\ a2[i].sess = s /\ ~a2[i].delta
      /\ \A i \in 1 .. Len(a3) : a3[i].kind = "logs" /\ a3[i].sess = s /\ ~a3[i].delta
  <2>1. PICK x1, x2, x3 : /\ x1 = Pane!Ask("injections", s, FALSE)
                          /\ x2 = Pane!Ask("transcript", s, FALSE)
                          /\ x3 = Pane!Ask("logs", s, FALSE)
    OBVIOUS
  <2>2. /\ x1 \in Asks /\ x1.sess = s /\ ~x1.delta /\ x1.kind = "injections"
        /\ x2 \in Asks /\ x2.sess = s /\ ~x2.delta /\ x2.kind = "transcript"
        /\ x3 \in Asks /\ x3.sess = s /\ ~x3.delta /\ x3.kind = "logs"
    BY <2>1, AskIs DEF Pane!Kind
  <2>3. (a1 = <<x1>> \/ a1 = <<>>) /\ (a2 = <<x2>> \/ a2 = <<>>) /\ (a3 = <<x3>> \/ a3 = <<>>)
    BY <2>1
  <2>4. (tr1 # tr => Len(a2) = 1) /\ (tr1 = tr => Len(a2) = 0)
    OBVIOUS
  <2> HIDE DEF a1, a2, a3
  <2>5. /\ a1 \in Seq(Asks) /\ \A i \in 1 .. Len(a1) : a1[i] = x1
        /\ a2 \in Seq(Asks) /\ \A i \in 1 .. Len(a2) : a2[i] = x2
        /\ a3 \in Seq(Asks) /\ \A i \in 1 .. Len(a3) : a3[i] = x3
    BY <2>2, <2>3, Optional
  <2> QED BY <2>2, <2>4, <2>5
<1> HIDE DEF a1, a2, a3
<1> DEFINE b == a2 \o a3
           a == a1 \o b
<1>9. /\ b \in Seq(Asks) /\ Len(b) = Len(a2) + Len(a3)
      /\ Len(a2) \in Nat /\ Len(a3) \in Nat
      /\ \A i \in 1 .. Len(b) : \/ \E j \in 1 .. Len(a2) : b[i] = a2[j]
                                \/ \E j \in 1 .. Len(a3) : b[i] = a3[j]
      /\ \A i \in 1 .. Len(a2) : i \in 1 .. Len(b) /\ b[i] = a2[i]
  <2>1. a2 \in Seq(Asks) /\ a3 \in Seq(Asks)
    BY <1>8
  <2>2. JoinOf(b, a2, a3)
    BY <2>1, Joined
  <2> QED BY <2>2 DEF JoinOf
<1> HIDE DEF b
<1>10. /\ a \in Seq(Asks) /\ Len(a) = Len(a1) + Len(b) /\ Len(a1) \in Nat
       /\ \A i \in 1 .. Len(a) : \/ \E j \in 1 .. Len(a1) : a[i] = a1[j]
                                 \/ \E j \in 1 .. Len(b) : a[i] = b[j]
       /\ \A i \in 1 .. Len(b) : Len(a1) + i \in 1 .. Len(a) /\ a[Len(a1) + i] = b[i]
  <2>1. a1 \in Seq(Asks) /\ b \in Seq(Asks)
    BY <1>8, <1>9
  <2>2. JoinOf(a, a1, b)
    BY <2>1, Joined
  <2> QED BY <2>2 DEF JoinOf
<1>11. r.asks = a
  <2>1. a1 \o a2 \o a3 = a1 \o (a2 \o a3)
    BY <1>8, Assoc
  <2> QED BY <1>5, <2>1 DEF b
<1> HIDE DEF a
<1>12. ASSUME NEW i \in 1 .. Len(a)
       PROVE  /\ a[i].sess = s /\ ~a[i].delta /\ a[i].kind # "activity"
              /\ tr1 = tr => a[i].kind # "transcript"
  <2>1. CASE \E j \in 1 .. Len(a1) : a[i] = a1[j]
    BY <1>8, <2>1
  <2>2. CASE \E j \in 1 .. Len(b) : a[i] = b[j]
    <3>1. PICK j \in 1 .. Len(b) : a[i] = b[j]
      BY <2>2
    <3>2. CASE \E m \in 1 .. Len(a2) : b[j] = a2[m]
      <4>1. tr1 # tr
        BY <1>8, <3>2
      <4> QED BY <1>8, <3>1, <3>2, <4>1
    <3>3. CASE \E m \in 1 .. Len(a3) : b[j] = a3[m]
      BY <1>8, <3>1, <3>3
    <3> QED BY <1>9, <3>2, <3>3
  <2> QED BY <1>10, <2>1, <2>2
<1>13. tr1 # tr => \E i \in 1 .. Len(a) : a[i].kind = "transcript"
  <2>1. ASSUME tr1 # tr PROVE 1 \in 1 .. Len(a2)
    <3>1. Len(a2) = 1
      BY <1>8, <2>1
    <3> QED BY <3>1
  <2>2. tr1 # tr => b[1] = a2[1] /\ 1 \in 1 .. Len(b)
    BY <1>9, <2>1
  <2>3. tr1 # tr => a[Len(a1) + 1] = a2[1] /\ Len(a1) + 1 \in 1 .. Len(a)
    BY <1>10, <2>2
  <2> QED BY <1>8, <2>1, <2>3
<1> QED BY <1>3, <1>5, <1>7, <1>10, <1>11, <1>12, <1>13 DEF Shows, AsksFor

(* ... and what is then asked, with more for the same session.             *)
LEMMA AskedWith ==
  ASSUME NEW s, NEW tr, NEW r, AsksFor(r, s, tr), NEW more, Also(more, s),
         NEW w, w = r.asks \o more
  PROVE  Sends(w, r, s, more, tr)
<1>1. /\ r.asks \in Seq(Asks) /\ more \in Seq(Asks)
      /\ \A i \in 1 .. Len(r.asks) : r.asks[i].sess = s /\ ~r.asks[i].delta
      /\ \A i \in 1 .. Len(more) : more[i].sess = s /\ more[i].kind # "transcript"
      /\ \/ /\ r.transcript = tr
            /\ \A i \in 1 .. Len(r.asks) : r.asks[i].kind # "transcript"
         \/ /\ r.transcript.sess = s
            /\ \E i \in 1 .. Len(r.asks) : r.asks[i].kind = "transcript"
  BY DEF AsksFor, Also
<1> DEFINE a == r.asks
<1>2. /\ w \in Seq(Asks) /\ Len(w) = Len(a) + Len(more)
      /\ \A i \in 1 .. Len(w) : \/ \E j \in 1 .. Len(a) : w[i] = a[j]
                                \/ \E j \in 1 .. Len(more) : w[i] = more[j]
      /\ \A i \in 1 .. Len(a) : i \in 1 .. Len(w) /\ w[i] = a[i]
      /\ \A i \in 1 .. Len(more) : Len(a) + i \in 1 .. Len(w) /\ w[Len(a) + i] = more[i]
  <2>1. a \in Seq(Asks) /\ more \in Seq(Asks)
    BY <1>1
  <2> HIDE DEF a
  <2>2. w = a \o more
    BY DEF a
  <2>3. JoinOf(w, a, more)
    BY <2>1, <2>2, Joined
  <2> QED BY <2>3 DEF JoinOf
<1>3. \A i \in 1 .. Len(w) : w[i].sess = s
  BY <1>1, <1>2
<1>4. \A k : OnlyFrom(w, 1, k, s)
  BY <1>3 DEF OnlyFrom
<1>5. ASSUME NEW q \in Seq(Asks), WillBeOf(q, "transcript", tr.sess, tr.of)
      PROVE  WillBeOf(q \o w, "transcript", r.transcript.sess, r.transcript.of)
  <2>1. CASE r.transcript = tr /\ \A i \in 1 .. Len(a) : a[i].kind # "transcript"
    <3>1. ASSUME NEW i \in 1 .. Len(w) PROVE w[i].kind # "transcript"
      <4>1. CASE \E j \in 1 .. Len(a) : w[i] = a[j]
        BY <2>1, <4>1
      <4>2. CASE \E j \in 1 .. Len(more) : w[i] = more[j]
        BY <1>1, <4>2
      <4> QED BY <1>2, <4>1, <4>2
    <3>2. OnlyFrom(w, 1, "transcript", tr.sess)
      BY <3>1 DEF OnlyFrom
    <3> QED BY <1>2, <1>5, <2>1, <3>2, MoreDue
  <2>2. CASE r.transcript.sess = s /\ \E i \in 1 .. Len(a) : a[i].kind = "transcript"
    <3>1. PICK i \in 1 .. Len(a) : a[i].kind = "transcript"
      BY <2>2
    <3>2. i \in 1 .. Len(w) /\ w[i].kind = "transcript" /\ ~w[i].delta
      BY <1>1, <1>2, <3>1
    <3>3. OnlyFrom(w, 1, "transcript", r.transcript.sess)
      BY <1>4, <2>2
    <3> QED BY <1>2, <3>2, <3>3, MoreDue
  <2> QED BY <1>1, <2>1, <2>2
<1> QED BY <1>2, <1>4, <1>5 DEF Sends

(* What is due grows by what is sent.                                      *)
LEMMA OrderedSent ==
  ASSUME Held, PaneOrdered, NEW s, NEW tr, NEW r, AsksFor(r, s, tr), NEW more, Also(more, s),
         NEW w, w = r.asks \o more, Sends(w, r, s, more, tr),
         open' = open \o r.asks \o more, UNCHANGED answers
  PROVE  open' \in Seq(Asks) /\ Due' = Due \o w /\ Due' \in Seq(Asks)
<1>1. open \in Seq(Asks) /\ Due \in Seq(Asks) /\ r.asks \in Seq(Asks) /\ more \in Seq(Asks)
      /\ w \in Seq(Asks)
  BY DEF PaneOrdered, AsksFor, Also, Sends
<1>2. open' = open \o w
  <2>1. PICK a : a = r.asks
    OBVIOUS
  <2>2. open \o a \o more = open \o (a \o more)
    BY <1>1, <2>1, Assoc, ZenonT(40)
  <2>3. open' = open \o a \o more /\ w = a \o more
    BY <2>1
  <2> QED BY <2>2, <2>3
<1>3. PICK T : answers \in Seq(T)
  BY DEF Held
<1>4. Due' = Due \o w
  <2>1. DueOf(answers, open) \in Seq(Asks) /\ Due' = DueOf(answers, open \o w)
    BY <1>1, <1>2 DEF Due
  <2> QED BY <1>1, <1>3, <2>1, DueGrows DEF Due
<1> QED BY <1>1, <1>2, <1>4, ConcatIs

LEMMA DrawnNow ==
  ASSUME NEW t \in Pane!Tab, NEW s, NEW f, NEW l, NEW r, Shows(r, t, s, f, l),
         selected' = s, tab' = t, feed' = f, sessionLogs' = l,
         pane' = r.pane, injections' = r.injections, transcript' = r.transcript,
         f \subseteq {s} \cup strayed', s = Nil => t = "activity" /\ f = {}
  PROVE  Drawn' /\ injections'.of \subseteq {injections'.sess} /\ "of" \in DOMAIN transcript'
  BY DEF Shows, Drawn

-----------------------------------------------------------------------------
LEMMA PaneInitEstablishes == Pane!Init => PaneIInv
<1> SUFFICES ASSUME Pane!Init PROVE PaneIInv
  OBVIOUS
<1>1. /\ selected = Nil /\ tab = "activity" /\ feed = {} /\ sessionLogs = {}
      /\ injections.of = {} /\ transcript.of = {} /\ "of" \in DOMAIN transcript
      /\ pane.sess = Nil /\ pane.tab = "activity" /\ pane.of = {}
      /\ DOMAIN pane = {"tab", "sess", "waits", "of"}
      /\ open = <<>> /\ answers = <<>> /\ refusals = 0 /\ overtaken = FALSE
  BY DEF Pane!Init, Pane!NoSlice
<1>2. Due = <<>>
  BY <1>1 DEF Due, DueOf
<1>3. answers \in Seq({}) /\ open \in Seq(Asks) /\ Due \in Seq(Asks) /\ Len(Due) = 0 /\ Len(answers) = 0
  BY <1>1, <1>2
<1>4. Drawn
  BY <1>1 DEF Drawn, Pane!Tab
<1>5. Held
  <2>1. \E T : answers \in Seq(T)
    BY <1>3
  <2>2. selected \in Session \cup {Nil} /\ injections.of \subseteq {injections.sess} /\ "of" \in DOMAIN transcript
    BY <1>1
  <2>3. \A i \in 1 .. Len(answers) : answers[i].of \subseteq {answers[i].sess}
    BY <1>3
  <2>4. overtaken \in BOOLEAN /\ refusals \in Nat
    BY <1>1
  <2> QED BY <2>1, <2>2, <2>3, <2>4 DEF Held
<1>6. PaneOrdered
  BY <1>1, <1>3 DEF PaneOrdered, WillBeOf, OnlyFrom
<1> QED BY <1>4, <1>5, <1>6 DEF PaneIInv

LEMMA SelectDrawsAnew ==
  ASSUME PaneIInv, NEW s \in Session, Pane!SelectSession(s), ~(s = selected /\ tab = "activity")
  PROVE  PaneIInv'
<1>1. PICK r, x1, x2 : /\ r = Pane!Rendered("activity", s, {}, {}, injections, transcript)
                       /\ x1 = Pane!Ask("activity", s, FALSE) /\ x2 = Pane!Ask("logs", s, FALSE)
  OBVIOUS
<1>2. /\ selected' = s /\ tab' = "activity" /\ feed' = {} /\ sessionLogs' = {}
      /\ pane' = r.pane /\ injections' = r.injections /\ transcript' = r.transcript
      /\ open' = open \o r.asks \o <<x1, x2>>
      /\ UNCHANGED <<answers, refusals, overtaken>>
  BY <1>1 DEF Pane!SelectSession, Pane!Click, Pane!Draw
<1>3. /\ x1 \in Asks /\ x1.sess = s /\ ~x1.delta /\ x1.kind = "activity"
      /\ x2 \in Asks /\ x2.sess = s /\ ~x2.delta /\ x2.kind = "logs"
  BY <1>1, AskIs DEF Pane!Kind
<1>4. PICK more : more = <<x1, x2>>
  OBVIOUS
<1>5. /\ Also(more, s)
      /\ \E i \in 1 .. Len(more) : more[i] = x1
      /\ \E i \in 1 .. Len(more) : more[i] = x2
  <2>1. more \in Seq(Asks) /\ Len(more) = 2 /\ more[1] = x1 /\ more[2] = x2
    BY <1>3, <1>4
  <2>2. \A i \in 1 .. Len(more) : i = 1 \/ i = 2
    BY <2>1
  <2>3. Also(more, s)
    BY <1>3, <2>1, <2>2 DEF Also
  <2> QED BY <2>1, <2>3
<1>6. "activity" \in Pane!Tab /\ s \in Session \cup {Nil} /\ injections.of \subseteq {injections.sess}
      /\ "of" \in DOMAIN transcript
  BY DEF Pane!Tab, PaneIInv, Held
<1>7. Shows(r, "activity", s, {}, {}) /\ AsksFor(r, s, transcript)
  BY <1>1, <1>6, RenderedIs
<1>8. Drawn' /\ injections'.of \subseteq {injections'.sess} /\ "of" \in DOMAIN transcript'
  BY <1>2, <1>6, <1>7, DrawnNow
<1>9. Held'
  BY <1>2, <1>6, <1>8 DEF PaneIInv, Held
<1>10. ASSUME PaneOrdered PROVE PaneOrdered'
  <2>1. PICK w : w = r.asks \o more
    OBVIOUS
  <2>2. Sends(w, r, s, more, transcript)
    BY <1>5, <1>7, <2>1, AskedWith
  <2>3. /\ \E j \in 1 .. Len(w) : w[j].kind = "activity" /\ ~w[j].delta
        /\ \E j \in 1 .. Len(w) : w[j].kind = "logs" /\ ~w[j].delta
    BY <1>3, <1>5, <2>2 DEF Sends
  <2>4. open' = open \o r.asks \o more
    BY <1>2, <1>4
  <2>5. UNCHANGED answers
    BY <1>2
  <2>6. open' \in Seq(Asks) /\ Due' = Due \o w /\ Due' \in Seq(Asks)
    BY <1>5, <1>7, <1>10, <2>1, <2>2, <2>4, <2>5, OrderedSent DEF PaneIInv
  <2>7. w \in Seq(Asks) /\ (\A k : OnlyFrom(w, 1, k, s)) /\ Due \in Seq(Asks)
    BY <1>10, <2>2 DEF Sends, PaneOrdered
  <2>8. WillBeOf(Due \o w, "activity", s, {}) /\ WillBeOf(Due \o w, "logs", s, {})
    BY <2>3, <2>7, MoreDue
  <2>9. WillBeOf(Due \o w, "transcript", r.transcript.sess, r.transcript.of)
    BY <1>10, <2>2 DEF Sends, PaneOrdered
  <2> QED BY <1>2, <2>6, <2>8, <2>9 DEF PaneOrdered
<1> QED BY <1>2, <1>8, <1>9, <1>10 DEF PaneIInv

(* Requests for the session that is selected, when nothing is drawn.       *)
LEMMA MoreAsked ==
  ASSUME Held, PaneOrdered, NEW more, Also(more, selected),
         open' = open \o more,
         UNCHANGED <<answers, selected, feed, sessionLogs, transcript>>
  PROVE  PaneOrdered'
<1>1. PICK T : answers \in Seq(T)
  BY DEF Held
<1>2. more \in Seq(Asks) /\ open \in Seq(Asks) /\ Due \in Seq(Asks)
  BY DEF Also, PaneOrdered
<1>3. Due' = Due \o more
  <2>1. DueOf(answers, open) \in Seq(Asks) /\ Due' = DueOf(answers, open \o more)
    BY <1>2 DEF Due
  <2> QED BY <1>1, <1>2, <2>1, DueGrows DEF Due
<1>4. open' \in Seq(Asks) /\ Due' \in Seq(Asks)
  BY <1>2, <1>3, ConcatIs
<1>5. (\A k : k # "transcript" => OnlyFrom(more, 1, k, selected))
      /\ OnlyFrom(more, 1, "transcript", transcript.sess)
  BY DEF Also, OnlyFrom
<1>6. /\ WillBeOf(Due \o more, "activity", selected, feed)
      /\ WillBeOf(Due \o more, "logs", selected, sessionLogs)
      /\ WillBeOf(Due \o more, "transcript", transcript.sess, transcript.of)
  BY <1>2, <1>5, MoreDue DEF PaneOrdered
<1> QED BY <1>3, <1>4, <1>6 DEF PaneOrdered

(* ... and when the selected session is drawn.                             *)
LEMMA MoreDrawn ==
  ASSUME Held, PaneOrdered, NEW r, AsksFor(r, selected, transcript),
         NEW more, Also(more, selected),
         open' = open \o r.asks \o more, transcript' = r.transcript,
         UNCHANGED <<answers, selected, feed, sessionLogs>>
  PROVE  PaneOrdered'
<1>1. PICK w : w = r.asks \o more
  OBVIOUS
<1>2. Sends(w, r, selected, more, transcript)
  BY <1>1, AskedWith
<1>3. open' \in Seq(Asks) /\ Due' = Due \o w /\ Due' \in Seq(Asks)
  BY <1>1, <1>2, OrderedSent
<1>4. w \in Seq(Asks) /\ (\A k : OnlyFrom(w, 1, k, selected)) /\ Due \in Seq(Asks)
  BY <1>2 DEF Sends, PaneOrdered
<1>5. /\ WillBeOf(Due \o w, "activity", selected, feed)
      /\ WillBeOf(Due \o w, "logs", selected, sessionLogs)
  BY <1>4, MoreDue DEF PaneOrdered
<1>6. WillBeOf(Due \o w, "transcript", r.transcript.sess, r.transcript.of)
  BY <1>2 DEF Sends, PaneOrdered
<1> QED BY <1>3, <1>5, <1>6 DEF PaneOrdered

LEMMA NoMore == \A s : Also(<<>>, s)
  BY DEF Also

LEMMA OneMore ==
  ASSUME NEW x \in Asks, x.kind # "transcript", NEW s, x.sess = s
  PROVE  Also(<<x>>, s)
<1>1. <<x>> \in Seq(Asks) /\ Len(<<x>>) = 1 /\ <<x>>[1] = x
  OBVIOUS
<1>2. \A i \in 1 .. Len(<<x>>) : i = 1
  BY <1>1
<1> QED BY <1>1, <1>2 DEF Also

(* The session that is shown is selected again.                            *)
LEMMA SelectLeavesDrawn ==
  ASSUME PaneIInv, NEW s \in Session, Pane!SelectSession(s), s = selected, tab = "activity"
  PROVE  PaneIInv'
<1>1. PICK x1, x2, more : /\ x1 = Pane!Ask("activity", s, FALSE) /\ x2 = Pane!Ask("logs", s, FALSE)
                          /\ more = <<x1, x2>>
  OBVIOUS
<1>2. /\ selected' = s /\ tab' = "activity" /\ feed' = {} /\ sessionLogs' = {}
      /\ open' = open \o more
      /\ UNCHANGED <<pane, injections, transcript, strayed, answers, refusals, overtaken>>
  BY <1>1 DEF Pane!SelectSession, Pane!Click, Pane!Undrawn
<1>3. /\ x1 \in Asks /\ x1.sess = s /\ ~x1.delta /\ x1.kind = "activity"
      /\ x2 \in Asks /\ x2.sess = s /\ ~x2.delta /\ x2.kind = "logs"
  BY <1>1, AskIs DEF Pane!Kind
<1>4. more \in Seq(Asks) /\ Len(more) = 2 /\ more[1] = x1 /\ more[2] = x2
  <2>1. more = <<x1, x2>>
    BY <1>1
  <2>2. x1 \in Asks /\ x2 \in Asks
    BY <1>3
  <2> QED BY <2>1, <2>2
<1>5. \A i \in 1 .. Len(more) : more[i].sess = s /\ more[i].kind # "transcript"
  <2>1. \A i \in 1 .. Len(more) : i = 1 \/ i = 2
    BY <1>4
  <2> QED BY <1>3, <1>4, <2>1
<1>6. Drawn'
  BY <1>2 DEF PaneIInv, Drawn
<1>7. Held'
  BY <1>2 DEF PaneIInv, Held
<1>8. ASSUME PaneOrdered PROVE PaneOrdered'
  <2>1. PICK T : answers \in Seq(T)
    BY DEF PaneIInv, Held
  <2>2. open \in Seq(Asks) /\ Due \in Seq(Asks) /\ DueOf(answers, open) \in Seq(Asks)
    BY <1>8 DEF PaneOrdered, Due
  <2>3. Due' = Due \o more
    BY <1>2, <1>4, <2>1, <2>2, DueGrows DEF Due
  <2>4. open' \in Seq(Asks) /\ Due' \in Seq(Asks)
    BY <1>2, <1>4, <2>2, <2>3, ConcatIs
  <2>5. (\A k : OnlyFrom(more, 1, k, s)) /\ OnlyFrom(more, 1, "transcript", transcript.sess)
    BY <1>5 DEF OnlyFrom
  <2>6. /\ \E j \in 1 .. Len(more) : more[j].kind = "activity" /\ ~more[j].delta
        /\ \E j \in 1 .. Len(more) : more[j].kind = "logs" /\ ~more[j].delta
    <3>1. 1 \in 1 .. Len(more) /\ 2 \in 1 .. Len(more)
      BY <1>4
    <3> QED BY <1>3, <1>4, <3>1
  <2>7. WillBeOf(Due \o more, "activity", s, {}) /\ WillBeOf(Due \o more, "logs", s, {})
    BY <1>4, <2>2, <2>5, <2>6, MoreDue
  <2>8. WillBeOf(Due \o more, "transcript", transcript.sess, transcript.of)
    BY <1>4, <1>8, <2>2, <2>5, MoreDue DEF PaneOrdered
  <2> QED BY <1>2, <2>3, <2>4, <2>7, <2>8 DEF PaneOrdered
<1> QED BY <1>2, <1>6, <1>7, <1>8 DEF PaneIInv

LEMMA SelectPreserves ==
  ASSUME PaneIInv, NEW s \in Session, Pane!SelectSession(s)
  PROVE  PaneIInv'
  BY SelectDrawsAnew, SelectLeavesDrawn

LEMMA SwitchPreserves ==
  ASSUME PaneIInv, NEW t \in Pane!Tab, Pane!SwitchTab(t)
  PROVE  PaneIInv'
<1>1. PICK r, more : /\ r = Pane!Rendered(t, selected, feed, sessionLogs, injections, transcript)
                     /\ more = CASE t = "logs" -> <<Pane!Ask("logs", selected, FALSE)>>
                                 [] t = "activity" -> <<Pane!Ask("activity", selected, FALSE)>>
                                 [] OTHER -> <<>>
  OBVIOUS
<1>2. /\ selected # Nil /\ tab' = t
      /\ UNCHANGED <<selected, feed, sessionLogs, answers, refusals, overtaken, strayed>>
      /\ \/ /\ pane' = r.pane /\ injections' = r.injections /\ transcript' = r.transcript
            /\ open' = open \o r.asks \o more
         \/ t = tab /\ open' = open \o more /\ UNCHANGED <<pane, injections, transcript>>
  BY <1>1 DEF Pane!SwitchTab, Pane!Click, Pane!Draw, Pane!Undrawn
<1>3. selected \in Session \cup {Nil} /\ injections.of \subseteq {injections.sess}
      /\ "of" \in DOMAIN transcript
  BY DEF PaneIInv, Held
<1>4. Also(more, selected)
  <2>1. PICK x1, x2 : x1 = Pane!Ask("logs", selected, FALSE) /\ x2 = Pane!Ask("activity", selected, FALSE)
    OBVIOUS
  <2>2. /\ x1 \in Asks /\ x1.sess = selected /\ x1.kind = "logs"
        /\ x2 \in Asks /\ x2.sess = selected /\ x2.kind = "activity"
    BY <1>3, <2>1, AskIs DEF Pane!Kind
  <2>3. more = <<x1>> \/ more = <<x2>> \/ more = <<>>
    BY <1>1, <2>1 DEF Pane!Tab
  <2> QED BY <2>2, <2>3, OneMore, NoMore
<1>5. Shows(r, t, selected, feed, sessionLogs) /\ AsksFor(r, selected, transcript)
  BY <1>1, <1>3, RenderedIs
<1>6. CASE t = tab /\ open' = open \o more /\ UNCHANGED <<pane, injections, transcript>>
  <2>1. Drawn' /\ Held'
    BY <1>2, <1>6 DEF PaneIInv, Drawn, Held
  <2>2. PaneOrdered => PaneOrdered'
    BY <1>2, <1>4, <1>6, MoreAsked DEF PaneIInv
  <2> QED BY <1>2, <2>1, <2>2 DEF PaneIInv
<1>7. CASE /\ pane' = r.pane /\ injections' = r.injections /\ transcript' = r.transcript
           /\ open' = open \o r.asks \o more
  <2>1. Drawn' /\ injections'.of \subseteq {injections'.sess} /\ "of" \in DOMAIN transcript'
    <3>1. feed \subseteq {selected} \cup strayed'
      BY <1>2 DEF PaneIInv, Drawn
    <3> QED BY <1>2, <1>5, <1>7, <3>1, DrawnNow
  <2>2. Held'
    BY <1>2, <2>1 DEF PaneIInv, Held
  <2>3. PaneOrdered => PaneOrdered'
    BY <1>2, <1>4, <1>5, <1>7, MoreDrawn DEF PaneIInv
  <2> QED BY <1>2, <2>1, <2>2, <2>3 DEF PaneIInv
<1> QED BY <1>2, <1>6, <1>7

LEMMA PollPreserves == PaneIInv /\ Pane!Poll => PaneIInv'
<1> SUFFICES ASSUME PaneIInv, Pane!Poll PROVE PaneIInv'
  OBVIOUS
<1>1. PICK x : x = Pane!Ask("activity", selected, since # Nil)
  OBVIOUS
<1>2. /\ open' = open \o <<x>>
      /\ UNCHANGED <<selected, tab, feed, sessionLogs, answers, refusals, overtaken,
                     strayed, pane, injections, transcript>>
  BY <1>1 DEF Pane!Poll, Pane!Click, Pane!Undrawn
<1>3. x \in Asks /\ x.kind = "activity" /\ x.sess = selected
  <2>1. selected \in Session \cup {Nil} /\ "activity" \in Pane!Kind
    BY DEF PaneIInv, Held, Pane!Kind
  <2> QED BY <1>1, <2>1 DEF Pane!Ask, Asks
<1>4. Drawn' /\ Held'
  BY <1>2 DEF PaneIInv, Drawn, Held
<1>5. Also(<<x>>, selected)
  BY <1>3, OneMore
<1>6. PaneOrdered => PaneOrdered'
  BY <1>2, <1>5, MoreAsked DEF PaneIInv
<1> QED BY <1>2, <1>4, <1>6 DEF PaneIInv

-----------------------------------------------------------------------------
LEMMA Appended ==
  ASSUME NEW x, x.of \subseteq {x.sess}, Held, answers' = Append(answers, x)
  PROVE  /\ \E T : answers' \in Seq(T)
         /\ \A i \in 1 .. Len(answers') : answers'[i].of \subseteq {answers'[i].sess}
<1>1. PICK T : answers \in Seq(T)
  BY DEF Held
<1>2. answers \in Seq(T \cup {x})
  BY <1>1
<1>3. /\ answers' \in Seq(T \cup {x}) /\ Len(answers') = Len(answers) + 1 /\ Len(answers) \in Nat
      /\ \A i \in 1 .. Len(answers) : answers'[i] = answers[i]
      /\ answers'[Len(answers) + 1] = x
  BY <1>2
<1>4. \A i \in 1 .. Len(answers') : i \in 1 .. Len(answers) \/ i = Len(answers) + 1
  BY <1>3
<1> QED BY <1>3, <1>4 DEF Held

(* An answer that is not overtaken takes the place of its request.         *)
LEMMA AnswerPreserves ==
  ASSUME PaneIInv, NEW i \in DOMAIN open, Pane!Answer(i)
  PROVE  PaneIInv'
<1> DEFINE x == Pane!Reply(open[i])
<1>1. /\ answers' = Append(answers, x) /\ open' = Pane!RemoveAt(open, i)
      /\ overtaken' = (overtaken \/ i > 1)
      /\ UNCHANGED <<selected, tab, feed, sessionLogs, injections, transcript, pane, refusals,
                     strayed>>
  BY DEF Pane!Answer, Pane!view
<1>2. x.of \subseteq {x.sess} /\ x.kind = open[i].kind /\ x.sess = open[i].sess /\ x.delta = open[i].delta
  BY DEF Pane!Reply
<1> HIDE DEF x
<1>3. Drawn'
  BY <1>1 DEF PaneIInv, Drawn
<1>4. Held'
  BY <1>1, <1>2, Appended DEF PaneIInv, Held
<1>5. ASSUME PaneOrdered, ~(i > 1)
      PROVE  PaneOrdered'
  <2>1. open \in Seq(Asks) /\ Due \in Seq(Asks)
    BY <1>5 DEF PaneOrdered
  <2>2. i = 1 /\ open # <<>>
    BY <1>5, <2>1
  <2>3. open' = Tail(open)
    <3>1. open' = SubSeq(open, 1, 0) \o SubSeq(open, 2, Len(open))
      BY <1>1, <2>2 DEF Pane!RemoveAt
    <3> QED BY <2>1, <2>2, <3>1, TailSplit
  <2>4. AskOf(x) = AskOf(open[1])
    BY <1>2, <2>2 DEF AskOf
  <2>5. PICK T : answers \in Seq(T)
    BY DEF PaneIInv, Held
  <2>6. Due' = Due
    BY <1>1, <2>1, <2>2, <2>3, <2>4, <2>5, DueMoves DEF Due
  <2>7. open' \in Seq(Asks)
    BY <2>1, <2>2, <2>3
  <2> QED BY <1>1, <1>5, <2>6, <2>7 DEF PaneOrdered
<1> QED BY <1>1, <1>3, <1>4, <1>5 DEF PaneIInv

LEMMA RefusePreserves ==
  ASSUME PaneIInv, NEW i \in DOMAIN open, Pane!Refuse(i)
  PROVE  PaneIInv'
<1> DEFINE x == [kind |-> open[i].kind, sess |-> open[i].sess, delta |-> FALSE, of |-> {}]
<1>1. /\ answers' = Append(answers, x) \/ answers' = answers
      /\ refusals' = refusals + 1
      /\ UNCHANGED <<selected, tab, feed, sessionLogs, injections, transcript, pane, overtaken,
                     strayed>>
  BY DEF Pane!Refuse, Pane!view
<1>2. x.of \subseteq {x.sess}
  OBVIOUS
<1> HIDE DEF x
<1>3. Drawn'
  BY <1>1 DEF PaneIInv, Drawn
<1>4. Held'
  BY <1>1, <1>2, Appended DEF PaneIInv, Held
<1>5. refusals' # 0
  BY <1>1 DEF PaneIInv, Held
<1> QED BY <1>3, <1>4, <1>5 DEF PaneIInv

-----------------------------------------------------------------------------
(* The first of the answers is received, and more asked.                   *)
LEMMA Received ==
  ASSUME Held, PaneOrdered, NEW k, Pane!Receive(k), NEW w \in Seq(Asks), open' = open \o w
  PROVE  /\ Due' = Tail(Due) \o w /\ Due' \in Seq(Asks) /\ Tail(Due) \in Seq(Asks)
         /\ open' \in Seq(Asks) /\ Due # <<>>
         /\ Due[1].kind = k /\ Due[1].sess = Head(answers).sess
         /\ Due[1].delta = Head(answers).delta
<1>1. PICK T : answers \in Seq(T)
  BY DEF Held
<1>2. answers # <<>> /\ Head(answers).kind = k /\ answers' = Tail(answers)
  BY DEF Pane!Receive
<1>3. open \in Seq(Asks) /\ DueOf(answers, open) \in Seq(Asks)
  BY DEF PaneOrdered, Due
<1>4. /\ DueOf(Tail(answers), open) = Tail(DueOf(answers, open))
      /\ DueOf(answers, open) # <<>> /\ DueOf(answers, open)[1] = AskOf(Head(answers))
  BY <1>1, <1>2, <1>3, DueShrinks
<1>5. Tail(answers) \in Seq(T) /\ Tail(DueOf(answers, open)) \in Seq(Asks)
  BY <1>1, <1>2, <1>3, <1>4, TailOf
<1>6. DueOf(Tail(answers), open \o w) = DueOf(Tail(answers), open) \o w
  BY <1>3, <1>4, <1>5, DueGrows
<1>7. /\ Due' = Tail(Due) \o w /\ Tail(Due) \in Seq(Asks)
      /\ Due # <<>> /\ Due[1] = AskOf(Head(answers))
  BY <1>2, <1>4, <1>5, <1>6 DEF Due
<1>8. Due' \in Seq(Asks) /\ open' \in Seq(Asks)
  BY <1>3, <1>7, ConcatIs
<1> QED BY <1>2, <1>7, <1>8 DEF AskOf, Pane!Ask

(* What is held once the answer is in, with tr for the transcript.         *)
In(tr) ==
  /\ WillBeOf(Tail(Due), "activity", selected, feed')
  /\ WillBeOf(Tail(Due), "logs", selected, sessionLogs')
  /\ WillBeOf(Tail(Due), "transcript", tr.sess, tr.of)

LEMMA ReceivedUndrawn ==
  ASSUME Held, PaneOrdered, NEW k, Pane!Receive(k), NEW tr, In(tr), transcript' = tr,
         open' = open \o <<>> \/ UNCHANGED open
  PROVE  PaneOrdered'
<1>1. open' = open \o <<>> /\ <<>> \in Seq(Asks)
  BY DEF PaneOrdered
<1>2. /\ Due' = Tail(Due) \o <<>> /\ Due' \in Seq(Asks) /\ Tail(Due) \in Seq(Asks)
      /\ open' \in Seq(Asks)
  BY <1>1, Received
<1>3. Due' = Tail(Due)
  BY <1>2
<1> QED BY <1>2, <1>3 DEF PaneOrdered, In, Pane!Receive

LEMMA ReceivedDrawn ==
  ASSUME Held, PaneOrdered, NEW k, Pane!Receive(k), NEW tr, In(tr),
         NEW r, AsksFor(r, selected, tr),
         open' = open \o r.asks \o <<>>, transcript' = r.transcript
  PROVE  PaneOrdered'
<1>1. PICK w : w = r.asks \o <<>>
  OBVIOUS
<1>2. Sends(w, r, selected, <<>>, tr)
  BY <1>1, NoMore, AskedWith
<1>3. w \in Seq(Asks) /\ (\A n : OnlyFrom(w, 1, n, selected)) /\ open \in Seq(Asks)
      /\ r.asks \in Seq(Asks) /\ <<>> \in Seq(Asks)
  BY <1>2 DEF Sends, PaneOrdered, AsksFor
<1>4. open' = open \o w
  <2>1. PICK a : a = r.asks
    OBVIOUS
  <2>2. open \o a \o <<>> = open \o (a \o <<>>)
    BY <1>3, <2>1, Assoc
  <2>3. open' = open \o a \o <<>> /\ w = a \o <<>>
    BY <1>1, <2>1
  <2> QED BY <2>2, <2>3
<1>5. /\ Due' = Tail(Due) \o w /\ Due' \in Seq(Asks) /\ Tail(Due) \in Seq(Asks)
      /\ open' \in Seq(Asks)
  BY <1>3, <1>4, Received
<1>6. /\ WillBeOf(Tail(Due) \o w, "activity", selected, feed')
      /\ WillBeOf(Tail(Due) \o w, "logs", selected, sessionLogs')
  BY <1>3, <1>5, MoreDue DEF In
<1>7. WillBeOf(Tail(Due) \o w, "transcript", r.transcript.sess, r.transcript.of)
  BY <1>2, <1>5 DEF Sends, In
<1> QED BY <1>5, <1>6, <1>7 DEF PaneOrdered, Pane!Receive

(* What is due once the answer is in.                                      *)
LEMMA InAfter ==
  ASSUME Held, PaneOrdered, NEW k, Pane!Receive(k), NEW tr, tr.sess = transcript.sess,
         \/ k # "activity" /\ feed' = feed
         \/ k = "activity" /\ feed' \subseteq {Head(answers).sess}
         \/ k = "activity" /\ Head(answers).delta /\ feed' \subseteq feed \cup {Head(answers).sess},
         \/ k # "logs" /\ sessionLogs' = sessionLogs
         \/ k = "logs" /\ sessionLogs' \subseteq {Head(answers).sess},
         \/ k # "transcript" /\ tr.of = transcript.of
         \/ k = "transcript" /\ tr.of \subseteq {Head(answers).sess}
  PROVE  In(tr)
<1>1. /\ Due # <<>> /\ Due \in Seq(Asks)
      /\ Due[1].kind = k /\ Due[1].sess = Head(answers).sess
      /\ Due[1].delta = Head(answers).delta
  <2>1. PICK T : answers \in Seq(T)
    BY DEF Held
  <2>2. answers # <<>> /\ Head(answers).kind = k
    BY DEF Pane!Receive
  <2>3. open \in Seq(Asks) /\ DueOf(answers, open) \in Seq(Asks)
    BY DEF PaneOrdered, Due
  <2>4. DueOf(answers, open) # <<>> /\ DueOf(answers, open)[1] = AskOf(Head(answers))
    BY <2>1, <2>2, <2>3, DueShrinks
  <2> QED BY <2>2, <2>3, <2>4 DEF Due, AskOf, Pane!Ask
<1>2. WillBeOf(Tail(Due), "activity", selected, feed')
  BY <1>1, OneReceived DEF PaneOrdered
<1>3. WillBeOf(Tail(Due), "logs", selected, sessionLogs')
  BY <1>1, OneReceived DEF PaneOrdered
<1>4. WillBeOf(Tail(Due), "transcript", tr.sess, tr.of)
  BY <1>1, OneReceived DEF PaneOrdered
<1> QED BY <1>2, <1>3, <1>4 DEF In

LEMMA HeadIsOfIts ==
  ASSUME Held, NEW k, Pane!Receive(k)
  PROVE  /\ Head(answers).of \subseteq {Head(answers).sess}
         /\ \E T : answers' \in Seq(T)
         /\ \A i \in 1 .. Len(answers') : answers'[i].of \subseteq {answers'[i].sess}
<1>1. PICK T : answers \in Seq(T)
  BY DEF Held
<1>2. answers # <<>> /\ answers' = Tail(answers)
  BY DEF Pane!Receive
<1>3. /\ answers' \in Seq(T) /\ Len(answers') = Len(answers) - 1 /\ Len(answers) \in Nat \ {0}
      /\ \A i \in 1 .. Len(answers) - 1 : answers'[i] = answers[i + 1]
      /\ Head(answers) = answers[1]
  BY <1>1, <1>2, TailOf
<1>4. 1 \in 1 .. Len(answers) /\ \A i \in 1 .. Len(answers') : i + 1 \in 1 .. Len(answers)
  BY <1>3
<1> QED BY <1>3, <1>4 DEF Held

LEMMA ActivityPreserves == PaneIInv /\ Pane!SessionActivity => PaneIInv'
<1> SUFFICES ASSUME PaneIInv, Pane!SessionActivity PROVE PaneIInv'
  OBVIOUS
<1>1. PICK a : a = Head(answers)
  OBVIOUS
<1>2. /\ Pane!Receive("activity") /\ UNCHANGED <<selected, tab, sessionLogs, refusals, overtaken>>
      /\ feed' = IF a.delta THEN feed \cup a.of ELSE a.of
      /\ strayed' = strayed \cup ({a.sess} \ {selected})
      /\ UNCHANGED <<injections, transcript>>
      /\ open' = open \o <<>> \/ UNCHANGED open
  BY <1>1 DEF Pane!SessionActivity, Pane!UpdateActivityFeed, Pane!Undrawn, Pane!Receive
<1>3. /\ a.of \subseteq {a.sess}
      /\ \E T : answers' \in Seq(T)
      /\ \A i \in 1 .. Len(answers') : answers'[i].of \subseteq {answers'[i].sess}
  BY <1>1, <1>2, HeadIsOfIts DEF PaneIInv
<1>4. feed' \subseteq {selected} \cup strayed'
  BY <1>2, <1>3 DEF PaneIInv, Drawn
<1>5. ASSUME tab = "activity", selected # Nil PROVE Drawn'
  <2>1. PICK f : f \in {feed', pane.of \cup feed'} /\ pane' = [pane EXCEPT !.of = f]
    BY <1>5 DEF Pane!SessionActivity, Pane!UpdateActivityFeed
  <2>2. /\ pane'.sess = pane.sess /\ pane'.tab = pane.tab /\ pane'.of = f
        /\ DOMAIN pane' = DOMAIN pane
    BY <2>1 DEF PaneIInv, Drawn
  <2>3. f \subseteq {selected} \cup strayed'
    BY <1>2, <1>4, <1>5, <2>1 DEF PaneIInv, Drawn
  <2>4. Drawn'
    BY <1>2, <1>4, <1>5, <2>2, <2>3 DEF PaneIInv, Drawn
  <2> QED BY <2>4
<1>6. ASSUME ~(tab = "activity" /\ selected # Nil) PROVE Drawn'
  <2>1. UNCHANGED pane
    BY <1>6 DEF Pane!SessionActivity, Pane!Undrawn
  <2>2. Drawn'
    BY <1>2, <1>4, <1>6, <2>1 DEF PaneIInv, Drawn
  <2> QED BY <2>2
<1>7. Drawn'
  BY <1>5, <1>6
<1>8. Held'
  BY <1>2, <1>3 DEF PaneIInv, Held
<1>9. PaneOrdered => PaneOrdered'
  <2>1. PaneOrdered => In(transcript)
    BY <1>1, <1>2, <1>3, InAfter DEF PaneIInv
  <2> QED BY <1>2, <2>1, ReceivedUndrawn DEF PaneIInv
<1> QED BY <1>2, <1>7, <1>8, <1>9 DEF PaneIInv

LEMMA LogsPreserves == PaneIInv /\ Pane!SessionLogs => PaneIInv'
<1> SUFFICES ASSUME PaneIInv, Pane!SessionLogs PROVE PaneIInv'
  OBVIOUS
<1>1. PICK r, a : /\ r = Pane!Rendered(tab, selected, feed, sessionLogs', injections, transcript)
                  /\ a = Head(answers)
  OBVIOUS
<1>2. /\ Pane!Receive("logs") /\ UNCHANGED <<selected, tab, feed, refusals, overtaken, strayed>>
      /\ sessionLogs' = a.of
      /\ \/ /\ tab = "logs"
            /\ pane' = r.pane /\ injections' = r.injections /\ transcript' = r.transcript
            /\ open' = open \o r.asks \o <<>>
         \/ /\ tab # "logs"
            /\ open' = open \o <<>> /\ UNCHANGED <<pane, injections, transcript>>
  BY <1>1 DEF Pane!SessionLogs, Pane!Draw, Pane!Undrawn, Pane!Receive
<1>3. /\ a.of \subseteq {a.sess}
      /\ \E T : answers' \in Seq(T)
      /\ \A i \in 1 .. Len(answers') : answers'[i].of \subseteq {answers'[i].sess}
  BY <1>1, <1>2, HeadIsOfIts DEF PaneIInv
<1>4. Drawn /\ Held /\ tab \in Pane!Tab /\ selected \in Session \cup {Nil}
      /\ injections.of \subseteq {injections.sess} /\ "of" \in DOMAIN transcript
  BY DEF PaneIInv, Drawn, Held
<1>5. PaneOrdered => In(transcript)
  BY <1>1, <1>2, <1>3, <1>4, InAfter
<1>6. CASE tab = "logs"
  <2>1. Shows(r, tab, selected, feed, sessionLogs') /\ AsksFor(r, selected, transcript)
    BY <1>1, <1>4, RenderedIs
  <2>2. selected # Nil
    BY <1>4, <1>6 DEF Drawn
  <2>3. Drawn' /\ injections'.of \subseteq {injections'.sess} /\ "of" \in DOMAIN transcript'
    <3>1. feed \subseteq {selected} \cup strayed'
      BY <1>2, <1>4 DEF Drawn
    <3> QED BY <1>2, <1>4, <1>6, <2>1, <2>2, <3>1, DrawnNow
  <2>4. Held'
    BY <1>2, <1>3, <1>4, <2>3 DEF Held
  <2>5. PaneOrdered => PaneOrdered'
    BY <1>2, <1>4, <1>5, <1>6, <2>1, ReceivedDrawn
  <2> QED BY <1>2, <2>3, <2>4, <2>5 DEF PaneIInv
<1>7. CASE tab # "logs"
  <2>1. Drawn'
    BY <1>2, <1>4, <1>7 DEF Drawn
  <2>2. Held'
    BY <1>2, <1>3, <1>4, <1>7 DEF Held
  <2>3. PaneOrdered => PaneOrdered'
    BY <1>2, <1>4, <1>5, <1>7, ReceivedUndrawn
  <2> QED BY <1>2, <2>1, <2>2, <2>3 DEF PaneIInv
<1> QED BY <1>6, <1>7

LEMMA InjectionsPreserves == PaneIInv /\ Pane!ContextInjections => PaneIInv'
<1> SUFFICES ASSUME PaneIInv, Pane!ContextInjections PROVE PaneIInv'
  OBVIOUS
<1>1. /\ Pane!Receive("injections")
      /\ injections'.sess = Head(answers).sess /\ injections'.of = Head(answers).of
      /\ UNCHANGED <<selected, tab, feed, sessionLogs, transcript, pane, open, refusals, overtaken,
                     strayed>>
  BY DEF Pane!ContextInjections, Pane!Receive
<1>2. /\ Head(answers).of \subseteq {Head(answers).sess}
      /\ \E T : answers' \in Seq(T)
      /\ \A i \in 1 .. Len(answers') : answers'[i].of \subseteq {answers'[i].sess}
  BY <1>1, HeadIsOfIts DEF PaneIInv
<1>3. Drawn'
  BY <1>1 DEF PaneIInv, Drawn
<1>4. Held'
  BY <1>1, <1>2 DEF PaneIInv, Held
<1>5. PaneOrdered => In(transcript)
  BY <1>1, InAfter DEF PaneIInv
<1>6. PaneOrdered => PaneOrdered'
  BY <1>1, <1>5, ReceivedUndrawn DEF PaneIInv
<1> QED BY <1>1, <1>3, <1>4, <1>6 DEF PaneIInv

LEMMA TranscriptPreserves == PaneIInv /\ Pane!TranscriptPage => PaneIInv'
<1> SUFFICES ASSUME PaneIInv, Pane!TranscriptPage PROVE PaneIInv'
  OBVIOUS
<1>1. PICK t, r, a : /\ t = [transcript EXCEPT !.of = Head(answers).of, !.loading = FALSE]
                     /\ r = Pane!Rendered(tab, selected, feed, sessionLogs, injections, t)
                     /\ a = Head(answers)
  OBVIOUS
<1>2. /\ Pane!Receive("transcript")
      /\ UNCHANGED <<selected, tab, feed, sessionLogs, refusals, overtaken, strayed>>
      /\ \/ /\ tab = "transcript"
            /\ pane' = r.pane /\ injections' = r.injections /\ transcript' = r.transcript
            /\ open' = open \o r.asks \o <<>>
         \/ /\ tab # "transcript"
            /\ transcript' = t /\ UNCHANGED <<pane, injections, open>>
  BY <1>1 DEF Pane!TranscriptPage, Pane!Draw, Pane!Receive
<1>3. /\ a.of \subseteq {a.sess}
      /\ \E T : answers' \in Seq(T)
      /\ \A i \in 1 .. Len(answers') : answers'[i].of \subseteq {answers'[i].sess}
  BY <1>1, <1>2, HeadIsOfIts DEF PaneIInv
<1>4. Drawn /\ Held /\ tab \in Pane!Tab /\ selected \in Session \cup {Nil}
      /\ injections.of \subseteq {injections.sess} /\ "of" \in DOMAIN transcript
  BY DEF PaneIInv, Drawn, Held
<1>5. t.sess = transcript.sess /\ t.of = a.of /\ "of" \in DOMAIN t
  BY <1>1 DEF PaneIInv, Held
<1>6. PaneOrdered => In(t)
  <2>1. /\ Pane!Receive("transcript") /\ feed' = feed /\ sessionLogs' = sessionLogs
        /\ t.sess = transcript.sess /\ t.of \subseteq {Head(answers).sess}
    BY <1>1, <1>2, <1>3, <1>5
  <2> QED BY <1>4, <2>1, InAfter
<1>7. CASE tab = "transcript"
  <2>1. Shows(r, tab, selected, feed, sessionLogs) /\ AsksFor(r, selected, t)
    BY <1>1, <1>4, <1>5, RenderedIs
  <2>2. selected # Nil
    BY <1>4, <1>7 DEF Drawn
  <2>3. Drawn' /\ injections'.of \subseteq {injections'.sess} /\ "of" \in DOMAIN transcript'
    <3>1. feed \subseteq {selected} \cup strayed'
      BY <1>2, <1>4 DEF Drawn
    <3> QED BY <1>2, <1>4, <1>7, <2>1, <2>2, <3>1, DrawnNow
  <2>4. Held'
    BY <1>2, <1>3, <1>4, <2>3 DEF Held
  <2>5. PaneOrdered => PaneOrdered'
    BY <1>2, <1>4, <1>6, <1>7, <2>1, ReceivedDrawn
  <2> QED BY <1>2, <2>3, <2>4, <2>5 DEF PaneIInv
<1>8. CASE tab # "transcript"
  <2>1. Drawn'
    BY <1>2, <1>4, <1>8 DEF Drawn
  <2>2. Held'
    BY <1>2, <1>3, <1>4, <1>5, <1>8 DEF Held
  <2>3. PaneOrdered => PaneOrdered'
    BY <1>2, <1>4, <1>6, <1>8, ReceivedUndrawn
  <2> QED BY <1>2, <2>1, <2>2, <2>3 DEF PaneIInv
<1> QED BY <1>7, <1>8

LEMMA PaneStepPreserves == PaneIInv /\ [Pane!Next]_(Pane!vars) => PaneIInv'
<1>1. PaneIInv /\ UNCHANGED Pane!vars => PaneIInv'
  BY DEF PaneIInv, Pane!vars, Pane!view, Drawn, Held, PaneOrdered, Due
<1> QED BY <1>1, SelectPreserves, SwitchPreserves, PollPreserves, AnswerPreserves,
          RefusePreserves, ActivityPreserves, LogsPreserves, InjectionsPreserves,
          TranscriptPreserves DEF Pane!Next

(* Once nothing is due, what is held is of the sessions it is drawn for.   *)
LEMMA PaneInvImplies == PaneIInv => Pane!ShownIsSelected
<1> SUFFICES ASSUME PaneIInv PROVE Pane!ShownIsSelected
  OBVIOUS
<1>1. ASSUME Pane!Settled
      PROVE  /\ feed \cup sessionLogs \subseteq {selected}
             /\ pane.tab # "activity" => pane.of \subseteq {selected}
  <2>1. PaneOrdered /\ answers = <<>> /\ open = <<>>
    BY <1>1 DEF Pane!Settled, PaneIInv
  <2>2. Due = <<>> /\ Len(Due) = 0
    BY <2>1 DEF Due, DueOf
  <2>3. feed \subseteq {selected} /\ sessionLogs \subseteq {selected}
        /\ transcript.of \subseteq {transcript.sess}
    BY <2>1, <2>2 DEF PaneOrdered, WillBeOf
  <2> QED BY <2>3 DEF PaneIInv, Drawn, Pane!Tab
<1> QED BY <1>1 DEF PaneIInv, Drawn, Pane!ShownIsSelected

-----------------------------------------------------------------------------
(* The bounds of the instance and the types.  Nothing is asked for while   *)
(* no session is selected.                                                 *)
Question == [kind : Pane!Kind, sess : Session, delta : BOOLEAN]
Response == [kind : Pane!Kind, sess : Session, delta : BOOLEAN, of : SUBSET Session]

PaneBounded ==
  /\ since \in Session \cup {Nil} /\ feed \subseteq Session /\ sessionLogs \subseteq Session
  /\ injections \in Pane!Slice /\ transcript \in Pane!Slice /\ pane \in Pane!Pane
  /\ resident \subseteq Session /\ strayed \subseteq Session
  /\ open \in Seq(Question) /\ answers \in Seq(Response)
  /\ clicks \in 0 .. MaxClicks /\ refusals \in 0 .. MaxRefusals

LEMMA AskTyped ==
  ASSUME NEW k \in Pane!Kind, NEW s \in Session, NEW d \in BOOLEAN
  PROVE  Pane!Ask(k, s, d) \in Question
  BY DEF Pane!Ask, Question

LEMMA OneTyped ==
  ASSUME NEW k \in Pane!Kind, NEW s \in Session, NEW d \in BOOLEAN
  PROVE  <<Pane!Ask(k, s, d)>> \in Seq(Question)
<1>1. PICK x \in Question : x = Pane!Ask(k, s, d)
  BY AskTyped
<1>2. <<x>> \in Seq(Question)
  OBVIOUS
<1> QED BY <1>1, <1>2

LEMMA RenderedTyped ==
  ASSUME NEW t \in Pane!Tab, NEW s \in Session \cup {Nil}, NEW f \in SUBSET Session,
         NEW l \in SUBSET Session, NEW inj \in Pane!Slice, NEW tr \in Pane!Slice,
         s = Nil => t = "activity",
         NEW r, r = Pane!Rendered(t, s, f, l, inj, tr)
  PROVE  /\ r.pane \in Pane!Pane /\ r.injections \in Pane!Slice /\ r.transcript \in Pane!Slice
         /\ r.asks \in Seq(Question)
<1> DEFINE inj1 == IF t = "injected" /\ inj.sess # s
                   THEN [sess |-> s, of |-> {}, loading |-> TRUE] ELSE inj
           tr1 == IF t = "transcript" /\ tr.sess # s
                  THEN [sess |-> s, of |-> {}, loading |-> TRUE] ELSE tr
<1>1. r = Pane!Asked(t, s, f, l, inj, inj1, tr, tr1)
  BY DEF Pane!Rendered
<1>2. inj1 \in Pane!Slice /\ tr1 \in Pane!Slice
  BY DEF Pane!Slice
<1>3. (inj1 # inj => t = "injected") /\ (tr1 # tr => t = "transcript")
  OBVIOUS
<1> HIDE DEF inj1, tr1
<1>4. r.injections = inj1 /\ r.transcript = tr1
  BY <1>1 DEF Pane!Asked
<1>5. r.pane = CASE t = "injected" -> Pane!Injected(s, inj1)
                 [] t = "activity" -> [tab |-> t, sess |-> s, waits |-> FALSE, of |-> f]
                 [] t = "logs" -> [tab |-> t, sess |-> s, waits |-> l = {}, of |-> l]
                 [] OTHER -> [tab |-> t, sess |-> s, waits |-> tr1 # tr, of |-> tr1.of]
  BY <1>1 DEF Pane!Asked
<1>6. inj1.of \in SUBSET Session /\ tr1.of \in SUBSET Session /\ inj1.loading \in BOOLEAN
  BY <1>2 DEF Pane!Slice
<1>7. Pane!Injected(s, inj1) \in Pane!Pane
  <2>1. \A b, w \in BOOLEAN, o \in SUBSET Session :
          [tab |-> "injected", sess |-> s, waits |-> b, of |-> o] \in Pane!Pane
    BY DEF Pane!Pane, Pane!Tab
  <2>2. (IF inj1.sess = s THEN inj1.of ELSE {}) \in SUBSET Session
    BY <1>6
  <2>3. (inj1.loading /\ inj1.sess = s) \in BOOLEAN
    OBVIOUS
  <2> QED BY <2>1, <2>2, <2>3 DEF Pane!Injected
<1>8. \A b \in BOOLEAN, o \in SUBSET Session :
        [tab |-> t, sess |-> s, waits |-> b, of |-> o] \in Pane!Pane
  BY DEF Pane!Pane
<1>9. (l = {}) \in BOOLEAN /\ (tr1 # tr) \in BOOLEAN
  OBVIOUS
<1>10. r.pane \in Pane!Pane
  <2>1. CASE t = "injected"
    BY <1>5, <1>7, <2>1
  <2>2. CASE t = "activity"
    BY <1>5, <1>8, <2>2
  <2>3. CASE t = "logs"
    BY <1>5, <1>8, <1>9, <2>3
  <2>4. CASE t = "transcript"
    BY <1>5, <1>6, <1>8, <1>9, <2>4
  <2> QED BY <2>1, <2>2, <2>3, <2>4 DEF Pane!Tab
<1>11. r.asks = (IF inj1 # inj THEN <<Pane!Ask("injections", s, FALSE)>> ELSE <<>>)
                \o (IF tr1 # tr THEN <<Pane!Ask("transcript", s, FALSE)>> ELSE <<>>)
                \o (IF t = "logs" /\ l = {} THEN <<Pane!Ask("logs", s, FALSE)>> ELSE <<>>)
  BY <1>1 DEF Pane!Asked
<1>12. \A k \in Pane!Kind, c \in BOOLEAN : (c => t # "activity") =>
         (IF c THEN <<Pane!Ask(k, s, FALSE)>> ELSE <<>>) \in Seq(Question)
  <2> SUFFICES ASSUME NEW k \in Pane!Kind, NEW c \in BOOLEAN, c => t # "activity"
               PROVE  (IF c THEN <<Pane!Ask(k, s, FALSE)>> ELSE <<>>) \in Seq(Question)
    OBVIOUS
  <2>1. CASE c
    <3>1. <<Pane!Ask(k, s, FALSE)>> \in Seq(Question)
      BY <2>1, OneTyped
    <3> QED BY <2>1, <3>1
  <2>2. CASE ~c
    <3>1. <<>> \in Seq(Question)
      OBVIOUS
    <3> QED BY <2>2, <3>1
  <2> QED BY <2>1, <2>2
<1>13. /\ (IF inj1 # inj THEN <<Pane!Ask("injections", s, FALSE)>> ELSE <<>>) \in Seq(Question)
       /\ (IF tr1 # tr THEN <<Pane!Ask("transcript", s, FALSE)>> ELSE <<>>) \in Seq(Question)
       /\ (IF t = "logs" /\ l = {} THEN <<Pane!Ask("logs", s, FALSE)>> ELSE <<>>) \in Seq(Question)
  <2>1. (t = "logs" /\ l = {}) \in BOOLEAN /\ (inj1 # inj) \in BOOLEAN
    OBVIOUS
  <2>2. {"injections", "transcript", "logs"} \subseteq Pane!Kind
    BY DEF Pane!Kind
  <2> HIDE DEF Pane!Ask
  <2>3. (inj1 # inj => t # "activity") /\ (tr1 # tr => t # "activity")
    BY <1>3
  <2> QED BY <1>9, <1>12, <2>1, <2>2, <2>3
<1>14. \A p, q \in Seq(Question) : p \o q \in Seq(Question)
  OBVIOUS
<1>15. r.asks \in Seq(Question)
  BY <1>11, <1>13, <1>14
<1> QED BY <1>2, <1>4, <1>10, <1>15

LEMMA PaneBoundedInit == Pane!Init => PaneBounded
<1> SUFFICES ASSUME Pane!Init PROVE PaneBounded
  OBVIOUS
<1>1. Pane!NoSlice \in Pane!Slice
  BY DEF Pane!NoSlice, Pane!Slice
<1>2. pane \in Pane!Pane
  BY DEF Pane!Init, Pane!Pane, Pane!Tab
<1>3. <<>> \in Seq(Question) /\ <<>> \in Seq(Response)
  OBVIOUS
<1> QED BY <1>1, <1>2, <1>3, BoundAssumption DEF Pane!Init, PaneBounded

(* What drawing asks for, and more.                                        *)
LEMMA DrawTyped ==
  ASSUME PaneBounded, NEW t \in Pane!Tab, NEW s \in Session \cup {Nil}, NEW f \in SUBSET Session,
         NEW l \in SUBSET Session, NEW tr \in Pane!Slice, s = Nil => t = "activity",
         NEW more \in Seq(Question),
         Pane!Draw(Pane!Rendered(t, s, f, l, injections, tr), more)
  PROVE  /\ pane' \in Pane!Pane /\ injections' \in Pane!Slice /\ transcript' \in Pane!Slice
         /\ open' \in Seq(Question)
<1>1. PICK r : r = Pane!Rendered(t, s, f, l, injections, tr)
  OBVIOUS
<1>2. /\ r.pane \in Pane!Pane /\ r.injections \in Pane!Slice /\ r.transcript \in Pane!Slice
      /\ r.asks \in Seq(Question)
  BY <1>1, RenderedTyped DEF PaneBounded
<1>3. /\ pane' = r.pane /\ injections' = r.injections /\ transcript' = r.transcript
      /\ open' = open \o r.asks \o more
  BY <1>1 DEF Pane!Draw
<1>4. open \in Seq(Question)
  BY DEF PaneBounded
<1>5. \A p, q \in Seq(Question) : p \o q \in Seq(Question)
  OBVIOUS
<1> QED BY <1>2, <1>3, <1>4, <1>5

LEMMA UndrawnTyped ==
  ASSUME PaneBounded, NEW more \in Seq(Question), Pane!Undrawn(more)
  PROVE  /\ pane' \in Pane!Pane /\ injections' \in Pane!Slice /\ transcript' \in Pane!Slice
         /\ open' \in Seq(Question)
<1>1. open \in Seq(Question) /\ open' = open \o more
      /\ UNCHANGED <<pane, injections, transcript>>
  BY DEF PaneBounded, Pane!Undrawn
<1>2. \A p, q \in Seq(Question) : p \o q \in Seq(Question)
  OBVIOUS
<1> QED BY <1>1, <1>2 DEF PaneBounded

LEMMA ClickTyped ==
  ASSUME PaneBounded, Pane!Click
  PROVE  /\ clicks' \in 0 .. MaxClicks /\ refusals' \in 0 .. MaxRefusals
         /\ resident' \subseteq Session /\ answers' \in Seq(Response)
  BY BoundAssumption DEF PaneBounded, Pane!Click

LEMMA SelectTyped ==
  ASSUME PaneBounded, NEW s \in Session, Pane!SelectSession(s)
  PROVE  PaneBounded'
<1>1. PICK more : more = <<Pane!Ask("activity", s, FALSE), Pane!Ask("logs", s, FALSE)>>
  OBVIOUS
<1>2. /\ Pane!Click /\ feed' = {} /\ sessionLogs' = {} /\ since' = Nil
      /\ strayed' \in {strayed, {}}
      /\ \/ Pane!Draw(Pane!Rendered("activity", s, {}, {}, injections, transcript), more)
         \/ Pane!Undrawn(more)
  BY <1>1 DEF Pane!SelectSession
<1>3. more \in Seq(Question)
  <2>1. PICK x, y \in Question : x = Pane!Ask("activity", s, FALSE) /\ y = Pane!Ask("logs", s, FALSE)
    BY AskTyped DEF Pane!Kind
  <2>2. <<x, y>> \in Seq(Question)
    OBVIOUS
  <2> QED BY <1>1, <2>1, <2>2
<1>4. "activity" \in Pane!Tab /\ transcript \in Pane!Slice
  BY DEF Pane!Tab, PaneBounded
<1>5. /\ pane' \in Pane!Pane /\ injections' \in Pane!Slice /\ transcript' \in Pane!Slice
      /\ open' \in Seq(Question)
  BY <1>2, <1>3, <1>4, DrawTyped, UndrawnTyped
<1> QED BY <1>2, <1>5, ClickTyped DEF PaneBounded

LEMMA SwitchTyped ==
  ASSUME PaneBounded, Drawn, Held, NEW t \in Pane!Tab, Pane!SwitchTab(t)
  PROVE  PaneBounded'
<1>1. PICK more : more = CASE t = "logs" -> <<Pane!Ask("logs", selected, FALSE)>>
                           [] t = "activity" -> <<Pane!Ask("activity", selected, FALSE)>>
                           [] OTHER -> <<>>
  OBVIOUS
<1>2. /\ selected # Nil /\ Pane!Click /\ UNCHANGED <<feed, since, sessionLogs, strayed>>
      /\ \/ Pane!Draw(Pane!Rendered(t, selected, feed, sessionLogs, injections, transcript), more)
         \/ Pane!Undrawn(more)
  BY <1>1 DEF Pane!SwitchTab
<1>3. selected \in Session
  BY <1>2 DEF Held
<1>4. more \in Seq(Question)
  <2>1. <<>> \in Seq(Question)
    OBVIOUS
  <2>2. /\ <<Pane!Ask("activity", selected, FALSE)>> \in Seq(Question)
        /\ <<Pane!Ask("logs", selected, FALSE)>> \in Seq(Question)
    BY <1>3, OneTyped DEF Pane!Kind
  <2> QED BY <1>1, <2>1, <2>2
<1>5. feed \subseteq Session /\ sessionLogs \subseteq Session /\ transcript \in Pane!Slice
  BY DEF PaneBounded
<1>6. /\ pane' \in Pane!Pane /\ injections' \in Pane!Slice /\ transcript' \in Pane!Slice
      /\ open' \in Seq(Question)
  BY <1>2, <1>3, <1>4, <1>5, DrawTyped, UndrawnTyped
<1> QED BY <1>2, <1>6, ClickTyped DEF PaneBounded

LEMMA PollTyped ==
  ASSUME PaneBounded, Held, Pane!Poll
  PROVE  PaneBounded'
<1>1. /\ selected # Nil /\ Pane!Click /\ UNCHANGED <<feed, since, sessionLogs, strayed>>
      /\ Pane!Undrawn(<<Pane!Ask("activity", selected, since # Nil)>>)
  BY DEF Pane!Poll
<1>2. <<Pane!Ask("activity", selected, since # Nil)>> \in Seq(Question)
  <2>1. "activity" \in Pane!Kind /\ (since # Nil) \in BOOLEAN /\ selected \in Session
    BY <1>1 DEF Pane!Kind, Held
  <2> QED BY <2>1, OneTyped
<1>3. /\ pane' \in Pane!Pane /\ injections' \in Pane!Slice /\ transcript' \in Pane!Slice
      /\ open' \in Seq(Question)
  BY <1>1, <1>2, UndrawnTyped
<1> QED BY <1>1, <1>3, ClickTyped DEF PaneBounded

LEMMA RemovedTyped ==
  ASSUME NEW T, NEW q \in Seq(T), NEW i \in DOMAIN q
  PROVE  Pane!RemoveAt(q, i) \in Seq(T) /\ q[i] \in T
<1>1. Len(q) \in Nat /\ i \in 1 .. Len(q)
  OBVIOUS
<1>2. SubSeq(q, 1, i - 1) \in Seq(T) /\ SubSeq(q, i + 1, Len(q)) \in Seq(T)
  BY <1>1
<1>3. \A a, b \in Seq(T) : a \o b \in Seq(T)
  OBVIOUS
<1> QED BY <1>1, <1>2, <1>3 DEF Pane!RemoveAt

LEMMA AnswerTyped ==
  ASSUME PaneBounded, NEW i \in DOMAIN open, Pane!Answer(i)
  PROVE  PaneBounded'
<1>1. PICK r \in Question : r = open[i] /\ Pane!RemoveAt(open, i) \in Seq(Question)
  BY RemovedTyped DEF PaneBounded
<1>2. PICK x : x = Pane!Reply(r)
  OBVIOUS
<1>3. /\ answers' = Append(answers, x) /\ open' = Pane!RemoveAt(open, i)
      /\ resident' = IF r.kind = "activity" THEN resident \cup {r.sess} ELSE resident
      /\ UNCHANGED <<since, feed, sessionLogs, injections, transcript, pane, clicks, refusals,
                     strayed>>
  BY <1>1, <1>2 DEF Pane!Answer, Pane!view
<1>4. r.kind \in Pane!Kind /\ r.sess \in Session /\ r.delta \in BOOLEAN
  BY DEF Question
<1>5. x \in Response
  BY <1>2, <1>4 DEF Pane!Reply, Response
<1>6. answers' \in Seq(Response)
  BY <1>3, <1>5 DEF PaneBounded
<1>7. resident' \subseteq Session
  BY <1>3, <1>4 DEF PaneBounded
<1> QED BY <1>1, <1>3, <1>6, <1>7 DEF PaneBounded

LEMMA RefuseTyped ==
  ASSUME PaneBounded, NEW i \in DOMAIN open, Pane!Refuse(i)
  PROVE  PaneBounded'
<1>1. PICK r \in Question : r = open[i] /\ Pane!RemoveAt(open, i) \in Seq(Question)
  BY RemovedTyped DEF PaneBounded
<1>2. PICK x : x = [kind |-> r.kind, sess |-> r.sess, delta |-> FALSE, of |-> {}]
  OBVIOUS
<1>3. /\ answers' \in {answers, Append(answers, x)} /\ open' = Pane!RemoveAt(open, i)
      /\ refusals < MaxRefusals /\ refusals' = refusals + 1
      /\ UNCHANGED <<since, feed, sessionLogs, injections, transcript, pane, clicks, resident,
                     strayed>>
  BY <1>1, <1>2 DEF Pane!Refuse, Pane!view
<1>4. x \in Response
  BY <1>2 DEF Question, Response
<1>5. answers' \in Seq(Response)
  BY <1>3, <1>4 DEF PaneBounded
<1>6. refusals' \in 0 .. MaxRefusals
  BY <1>3, BoundAssumption DEF PaneBounded
<1> QED BY <1>1, <1>3, <1>5, <1>6 DEF PaneBounded

LEMMA ReceiveTyped ==
  ASSUME PaneBounded, NEW k, Pane!Receive(k)
  PROVE  /\ answers' \in Seq(Response)
         /\ Head(answers) \in Response
         /\ UNCHANGED <<selected, tab, resident, clicks, refusals>>
<1>1. answers \in Seq(Response) /\ answers # <<>> /\ answers' = Tail(answers)
      /\ UNCHANGED <<selected, tab, resident, clicks, refusals>>
  BY DEF PaneBounded, Pane!Receive
<1>2. \A q \in Seq(Response) : q # <<>> => Tail(q) \in Seq(Response) /\ Head(q) \in Response
  OBVIOUS
<1> QED BY <1>1, <1>2

LEMMA ActivityTyped ==
  ASSUME PaneBounded, Drawn, Held, Pane!SessionActivity
  PROVE  PaneBounded'
<1>1. PICK a : a = Head(answers)
  OBVIOUS
<1>2. /\ feed' = (IF a.delta THEN feed \cup a.of ELSE a.of) /\ since' = a.sess
      /\ strayed' = strayed \cup ({a.sess} \ {selected})
      /\ Pane!Receive("activity") /\ UNCHANGED sessionLogs
      /\ Pane!UpdateActivityFeed(feed') \/ Pane!Undrawn(<<>>)
  BY <1>1 DEF Pane!SessionActivity
<1>3. /\ answers' \in Seq(Response) /\ a \in Response
      /\ UNCHANGED <<selected, tab, resident, clicks, refusals>>
  BY <1>1, <1>2, ReceiveTyped
<1>4. /\ feed' \in SUBSET Session /\ since' \in Session \cup {Nil}
      /\ strayed' \subseteq Session
  BY <1>2, <1>3 DEF Response, PaneBounded
<1>5. /\ pane' \in Pane!Pane /\ injections' \in Pane!Slice /\ transcript' \in Pane!Slice
      /\ open' \in Seq(Question)
  <2>1. CASE Pane!UpdateActivityFeed(feed')
    <3>1. PICK f : f \in {feed', pane.of \cup feed'} /\ pane' = [pane EXCEPT !.of = f]
      BY <2>1 DEF Pane!UpdateActivityFeed
    <3>2. pane \in Pane!Pane /\ UNCHANGED <<injections, transcript, open>>
      BY <2>1 DEF PaneBounded, Pane!UpdateActivityFeed
    <3>3. f \in SUBSET Session
      BY <1>4, <3>1, <3>2 DEF Pane!Pane
    <3>4. pane' \in Pane!Pane
      BY <3>1, <3>2, <3>3 DEF Pane!Pane
    <3> QED BY <3>2, <3>4 DEF PaneBounded
  <2>2. CASE Pane!Undrawn(<<>>)
    <3>1. <<>> \in Seq(Question)
      OBVIOUS
    <3> QED BY <2>2, <3>1, UndrawnTyped
  <2> QED BY <1>2, <2>1, <2>2
<1> QED BY <1>2, <1>3, <1>4, <1>5 DEF PaneBounded

LEMMA LogsTyped ==
  ASSUME PaneBounded, Drawn, Held, Pane!SessionLogs
  PROVE  PaneBounded'
<1>1. /\ sessionLogs' = Head(answers).of /\ Pane!Receive("logs") /\ UNCHANGED <<feed, since, strayed>>
      /\ \/ Pane!Draw(Pane!Rendered(tab, selected, feed, sessionLogs', injections, transcript), <<>>)
         \/ Pane!Undrawn(<<>>)
  BY DEF Pane!SessionLogs
<1>2. /\ answers' \in Seq(Response) /\ Head(answers) \in Response
      /\ UNCHANGED <<selected, tab, resident, clicks, refusals>>
  BY <1>1, ReceiveTyped
<1>3. sessionLogs' \in SUBSET Session
  BY <1>1, <1>2 DEF Response
<1>4. /\ tab \in Pane!Tab /\ selected \in Session \cup {Nil} /\ (selected = Nil => tab = "activity")
      /\ feed \in SUBSET Session /\ transcript \in Pane!Slice /\ <<>> \in Seq(Question)
  BY DEF Drawn, Held, PaneBounded
<1>5. /\ pane' \in Pane!Pane /\ injections' \in Pane!Slice /\ transcript' \in Pane!Slice
      /\ open' \in Seq(Question)
  BY <1>1, <1>3, <1>4, DrawTyped, UndrawnTyped
<1> QED BY <1>1, <1>2, <1>3, <1>5 DEF PaneBounded

LEMMA InjectionsTyped ==
  ASSUME PaneBounded, Pane!ContextInjections
  PROVE  PaneBounded'
<1>1. /\ injections' = [sess |-> Head(answers).sess, of |-> Head(answers).of, loading |-> FALSE]
      /\ Pane!Receive("injections")
      /\ UNCHANGED <<feed, since, sessionLogs, transcript, pane, open, strayed>>
  BY DEF Pane!ContextInjections
<1>2. /\ answers' \in Seq(Response) /\ Head(answers) \in Response
      /\ UNCHANGED <<selected, tab, resident, clicks, refusals>>
  BY <1>1, ReceiveTyped
<1>3. injections' \in Pane!Slice
  BY <1>1, <1>2 DEF Response, Pane!Slice
<1> QED BY <1>1, <1>2, <1>3 DEF PaneBounded

LEMMA TranscriptTyped ==
  ASSUME PaneBounded, Drawn, Held, Pane!TranscriptPage
  PROVE  PaneBounded'
<1>1. PICK t : t = [transcript EXCEPT !.of = Head(answers).of, !.loading = FALSE]
  OBVIOUS
<1>2. /\ Pane!Receive("transcript") /\ UNCHANGED <<feed, since, sessionLogs, strayed>>
      /\ \/ Pane!Draw(Pane!Rendered(tab, selected, feed, sessionLogs, injections, t), <<>>)
         \/ transcript' = t /\ UNCHANGED <<pane, injections, open>>
  BY <1>1 DEF Pane!TranscriptPage
<1>3. /\ answers' \in Seq(Response) /\ Head(answers) \in Response
      /\ UNCHANGED <<selected, tab, resident, clicks, refusals>>
  BY <1>2, ReceiveTyped
<1>4. t \in Pane!Slice
  BY <1>1, <1>3 DEF Response, Pane!Slice, PaneBounded
<1>5. /\ tab \in Pane!Tab /\ selected \in Session \cup {Nil} /\ (selected = Nil => tab = "activity")
      /\ feed \in SUBSET Session /\ sessionLogs \in SUBSET Session /\ <<>> \in Seq(Question)
  BY DEF Drawn, Held, PaneBounded
<1>6. /\ pane' \in Pane!Pane /\ injections' \in Pane!Slice /\ transcript' \in Pane!Slice
      /\ open' \in Seq(Question)
  <2>1. CASE Pane!Draw(Pane!Rendered(tab, selected, feed, sessionLogs, injections, t), <<>>)
    BY <1>4, <1>5, <2>1, DrawTyped
  <2>2. CASE transcript' = t /\ UNCHANGED <<pane, injections, open>>
    BY <1>4, <2>2 DEF PaneBounded
  <2> QED BY <1>2, <2>1, <2>2
<1> QED BY <1>2, <1>3, <1>6 DEF PaneBounded

LEMMA PaneBoundedStep == PaneIInv /\ PaneBounded /\ [Pane!Next]_(Pane!vars) => PaneBounded'
<1>1. PaneBounded /\ UNCHANGED Pane!vars => PaneBounded'
  BY DEF Pane!vars, Pane!view, PaneBounded
<1>2. PaneIInv => Drawn /\ Held
  BY DEF PaneIInv
<1> QED BY <1>1, <1>2, SelectTyped, SwitchTyped, PollTyped, AnswerTyped, RefuseTyped,
          ActivityTyped, LogsTyped, InjectionsTyped, TranscriptTyped DEF Pane!Next

LEMMA PaneBoundedTypes == PaneIInv /\ PaneBounded => Pane!TypeOK
<1> SUFFICES ASSUME PaneIInv, PaneBounded PROVE Pane!TypeOK
  OBVIOUS
<1>1. \A i \in DOMAIN open : open[i] \in Question
  BY DEF PaneBounded
<1>2. \A i \in DOMAIN open : open[i].kind \in Pane!Kind
  BY <1>1 DEF Question
<1> QED BY <1>2 DEF PaneIInv, Held, Drawn, PaneBounded, Pane!TypeOK

-----------------------------------------------------------------------------
(* Of this part, the specification of Parts is the part's own.             *)
LEMMA SweepRuns ==
  /\ Init /\ part = "Retention" => Sweep!Init
  /\ [Next]_vars /\ part' = "Retention" =>
       part = "Retention" /\ [Sweep!Next]_(Sweep!vars)
<1>1. Init /\ part = "Retention" => Sweep!Init
  BY DEF Init
<1>2. Next /\ part' = "Retention" => part = "Retention" /\ Sweep!Next
  BY DEF Next
<1>3. UNCHANGED vars => part' = part /\ UNCHANGED Sweep!vars
  BY DEF vars, Sweep!vars, Sweep!recordVars, Sweep!textVars, Sweep!historyVars
<1> QED BY <1>1, <1>2, <1>3

LEMMA SweepInvariant ==
  Spec => [](part = "Retention" => SweepIInv /\ LogsFinite)
<1> DEFINE I == part = "Retention" => SweepIInv /\ LogsFinite
<1>0. Parameters
  BY NilAssumption, WindowAssumption DEF Parameters, AnyRecord
<1>1. Init => I
  BY <1>0, SweepRuns, SweepInitEstablishes
<1>2. I /\ [Next]_vars => I'
  BY <1>0, SweepRuns, SweepStepPreserves, LogsStayFinite
<1> QED BY <1>1, <1>2, PTL DEF Spec

(* cleanup(): for any number of sessions, sweeps and crashes, what a sweep *)
(* deleted of a session is in the session's summary, unless a save came    *)
(* between the sweep's reading and its deletion.                           *)
THEOREM DeletionLeavesSummary == Spec => []PrunedIsPreserved
<1>1. (part = "Retention" => SweepIInv /\ LogsFinite) => PrunedIsPreserved
  BY DEF SweepIInv, IsPreserved, PrunedIsPreserved, Sweep!PrunedIsPreserved
<1> QED BY <1>1, SweepInvariant, PTL

(* cleanup(): whatever the window, a sweep deletes no session that has     *)
(* been active within it, with the same exception.                         *)
THEOREM SweepSparesActive == Spec => ActiveSessionsStay
<1>1. (part = "Retention" => SweepIInv /\ LogsFinite) /\ [Next]_vars =>
        [part = "Retention" => Sweep!SparesActive]_vars
  <2>1. part = "Retention" /\ Next => Sweep!Next
    BY DEF Next
  <2>2. SweepIInv /\ Sweep!Next => Sweep!SparesActive
    BY DeletionIsExpired DEF Sweep!SparesActive
  <2> QED BY <2>1, <2>2
<1> QED BY <1>1, SweepInvariant, PTL DEF Spec, ActiveSessionsStay

LEMMA DeliveryRuns ==
  /\ Init /\ part = "ContextDelivery" => Delivery!Init
  /\ [Next]_vars /\ part' = "ContextDelivery" =>
       part = "ContextDelivery" /\ [Delivery!Next]_(Delivery!vars)
<1>1. Init /\ part = "ContextDelivery" => Delivery!Init
  BY DEF Init
<1>2. Next /\ part' = "ContextDelivery" => part = "ContextDelivery" /\ Delivery!Next
  BY DEF Next
<1>3. UNCHANGED vars => part' = part /\ UNCHANGED Delivery!vars
  BY DEF vars, Delivery!vars
<1> QED BY <1>1, <1>2, <1>3

(* Of this part, the specification of Parts is the part's own.             *)
LEMMA ResearchRuns ==
  /\ Init /\ part = "ResearchIndex" => Research!Init
  /\ [Next]_vars /\ part' = "ResearchIndex" =>
       part = "ResearchIndex" /\ [Research!Next]_(Research!vars)
<1>1. Init /\ part = "ResearchIndex" => Research!Init
  BY DEF Init
<1>2. Next /\ part' = "ResearchIndex" => part = "ResearchIndex" /\ Research!Next
  BY DEF Next
<1>3. UNCHANGED vars => part' = part /\ UNCHANGED Research!vars
  BY DEF vars, Research!vars, Research!indexVars
<1> QED BY <1>1, <1>2, <1>3

(* inspector-context.sh and inspector-prompt-context.sh: whatever hooks    *)
(* run side by side, die, and meet payloads armed anew, a one-shot payload *)
(* that was printed is in no file, so no hook that starts now prints it.   *)
THEOREM PrintedIsSpent == Spec => []SpentStaysSpent
<1> DEFINE I == part = "ContextDelivery" => DeliveryIInv
<1>1. Init => I
  BY DeliveryRuns, DeliveryInitEstablishes
<1>2. I /\ [Next]_vars => I'
  BY DeliveryRuns, DeliveryStepPreserves
<1>3. I => SpentStaysSpent
  BY DEF DeliveryIInv, SpentStaysSpent
<1> QED BY <1>1, <1>2, <1>3, PTL DEF Spec

LEMMA ResearchInvariant == Spec => [](part = "ResearchIndex" => Inv)
<1> DEFINE I == part = "ResearchIndex" => Inv
<1>1. Init => I
  BY ResearchRuns, InitIsWellFormed
<1>2. I /\ [Next]_vars => I'
  BY ResearchRuns, ResearchStepPreserves
<1> QED BY <1>1, <1>2, PTL DEF Spec

(* What a search ranks is what the index holds: no posting outlives its    *)
(* item and none is missing, through trimming, saving, loading, rebuilding *)
(* and backfilling, for every corpus (Bm25Index, ResearchIndex).           *)
THEOREM SearchAgrees == Spec => []IndexAgrees
<1>1. (part = "ResearchIndex" => Inv) => IndexAgrees
  BY DEF Inv, IndexInv, WellFormed, Agrees, Research!Snapshot, IndexAgrees,
     Research!IndexAgrees, Research!Hits
<1> QED BY ResearchInvariant, <1>1, PTL

(* An index with nothing left to save has been saved, failed saves and     *)
(* restarts included, unless an item or another save came during a save.   *)
THEOREM CleanMeansSaved == Spec => []CleanIsSaved
<1>1. (part = "ResearchIndex" => Inv) => CleanIsSaved
  BY DEF Inv, CleanIsSaved
<1> QED BY ResearchInvariant, <1>1, PTL

(* Of this part, the specification of Parts is the part's own.             *)
LEMMA AgentsRuns ==
  /\ Init /\ part = "AgentTracker" => Agents!Init
  /\ [Next]_vars /\ part' = "AgentTracker" =>
       part = "AgentTracker" /\ [Agents!Next]_(Agents!vars)
<1>1. Init /\ part = "AgentTracker" => Agents!Init
  BY DEF Init
<1>2. Next /\ part' = "AgentTracker" => part = "AgentTracker" /\ Agents!Next
  BY DEF Next
<1>3. UNCHANGED vars => part' = part /\ UNCHANGED Agents!vars
  BY DEF vars, Agents!vars
<1> QED BY <1>1, <1>2, <1>3

LEMMA AgentsInvariant == Spec => [](part = "AgentTracker" => Sworn)
<1> DEFINE I == part = "AgentTracker" => Sworn
<1>1. Init => I
  BY AgentsRuns, SwornInit
<1>2. I /\ [Next]_vars => I'
  BY AgentsRuns, SwornNext
<1> QED BY <1>1, <1>2, PTL DEF Spec

(* AgentTracker: for any number of agents, records kept and restarts, and  *)
(* whatever order the log is replayed in, an agent has one record, the one *)
(* its id leads to, and that record's calls are its own.                   *)
THEOREM AgentsStayLinked == Spec => []LinkedOneToOne
<1>1. (part = "AgentTracker" => Sworn) => LinkedOneToOne
  BY SwornLinked DEF LinkedOneToOne
<1> QED BY <1>1, AgentsInvariant, PTL

(* AgentTracker: an agent whose stop has come is not running afterwards,   *)
(* whatever comes late or is replayed, unless its record was evicted.      *)
THEOREM StopIsLast == Spec => []StopEnds
<1>1. (part = "AgentTracker" => Sworn) => StopEnds
  BY SwornStops DEF StopEnds
<1> QED BY <1>1, AgentsInvariant, PTL

(* getTree: every record of every page is under one of the page's roots,   *)
(* wherever the page ends and whoever was evicted.                         *)
THEOREM NobodyIsMissing == Spec => []NobodyDisappears
<1>1. (part = "AgentTracker" => Sworn) => NobodyDisappears
  BY SwornWhole DEF NobodyDisappears
<1> QED BY <1>1, AgentsInvariant, PTL

LEMMA PaneRuns ==
  /\ Init /\ part = "SessionPane" => Pane!Init
  /\ [Next]_vars /\ part' = "SessionPane" =>
       part = "SessionPane" /\ [Pane!Next]_(Pane!vars)
<1>1. Init /\ part = "SessionPane" => Pane!Init
  BY DEF Init
<1>2. Next /\ part' = "SessionPane" => part = "SessionPane" /\ Pane!Next
  BY DEF Next
<1>3. UNCHANGED vars => part' = part /\ UNCHANGED Pane!vars
  BY DEF vars, Pane!vars, Pane!view
<1> QED BY <1>1, <1>2, <1>3

(* The detail pane (views/sessions.js) attributes to a session nothing     *)
(* that was injected into another, though answers come in any order and    *)
(* for sessions left long ago.  Logs and transcript are its own once all   *)
(* that was asked is answered, in the order asked.  Activity of another    *)
(* session is only drawn where it arrived after this one was selected, and *)
(* then may stay, updateActivityFeed appending to what is drawn; but not   *)
(* in State, so that the tab entered again is the session's own.           *)
THEOREM PaneIsOfSelected == Spec => []ShownIsSelected
<1> DEFINE I == part = "SessionPane" => PaneIInv
<1>1. Init => I
  BY PaneRuns, PaneInitEstablishes
<1>2. I /\ [Next]_vars => I'
  BY PaneRuns, PaneStepPreserves
<1>3. I => ShownIsSelected
  BY PaneInvImplies DEF ShownIsSelected
<1> QED BY <1>1, <1>2, <1>3, PTL DEF Spec

-----------------------------------------------------------------------------
LEMMA SweepTyped ==
  Spec => [](part = "Retention" => Sweep!TypeOK)
<1> DEFINE I == part = "Retention" => SweepIInv /\ LogsFinite /\ SweepBounded
<1>0. Parameters
  BY NilAssumption, WindowAssumption DEF Parameters, AnyRecord
<1>1. Init => I
  BY <1>0, SweepRuns, SweepInitEstablishes, SweepBoundedInit
<1>2. I /\ [Next]_vars => I'
  BY <1>0, SweepRuns, SweepStepPreserves, LogsStayFinite, SweepBoundedStep
<1>3. I => (part = "Retention" => Sweep!TypeOK)
  BY SweepBoundedTypes
<1> QED BY <1>1, <1>2, <1>3, PTL DEF Spec

LEMMA DeliveryTyped ==
  Spec => [](part = "ContextDelivery" => Delivery!TypeOK)
<1> DEFINE I == part = "ContextDelivery" => DeliveryIInv /\ DeliveryBounded
<1>1. Init => I
  BY DeliveryRuns, DeliveryInitEstablishes, DeliveryBoundedInit
<1>2. I /\ [Next]_vars => I'
  BY DeliveryRuns, DeliveryStepPreserves, DeliveryBoundedStep
<1>3. I => (part = "ContextDelivery" => Delivery!TypeOK)
  BY DeliveryBoundedTypes
<1> QED BY <1>1, <1>2, <1>3, PTL DEF Spec

LEMMA ResearchTyped ==
  Spec => [](part = "ResearchIndex" => Research!TypeOK)
<1> DEFINE I == part = "ResearchIndex" => Inv /\ ResearchBounded
<1>1. Init => I
  BY ResearchRuns, InitIsWellFormed, ResearchBoundedInit
<1>2. I /\ [Next]_vars => I'
  BY ResearchRuns, ResearchStepPreserves, ResearchBoundedStep
<1>3. I => (part = "ResearchIndex" => Research!TypeOK)
  BY ResearchBoundedTypes
<1> QED BY <1>1, <1>2, <1>3, PTL DEF Spec

LEMMA AgentsTyped ==
  Spec => [](part = "AgentTracker" => Agents!TypeOK)
<1>1. (part = "AgentTracker" => Sworn) => (part = "AgentTracker" => Agents!TypeOK)
  BY SwornTypes
<1> QED BY <1>1, AgentsInvariant, PTL

LEMMA PaneTyped ==
  Spec => [](part = "SessionPane" => Pane!TypeOK)
<1> DEFINE I == part = "SessionPane" => PaneIInv /\ PaneBounded
<1>1. Init => I
  BY PaneRuns, PaneInitEstablishes, PaneBoundedInit
<1>2. I /\ [Next]_vars => I'
  BY PaneRuns, PaneStepPreserves, PaneBoundedStep
<1>3. I => (part = "SessionPane" => Pane!TypeOK)
  BY PaneBoundedTypes
<1> QED BY <1>1, <1>2, <1>3, PTL DEF Spec

(* Retention, deliveries, the research index, the agents and the pane keep *)
(* their types and their limits: no summary counts more prompts than there *)
(* are days, the index holds MaxItems items and the tracker MAX_AGENTS     *)
(* records, and a hook still at work has a payload to deal with.           *)
THEOREM SessionPartsTyped ==
  Spec => [](part \in {"Retention", "ContextDelivery", "ResearchIndex",
           "AgentTracker", "SessionPane"} => TypeOK)
<1> DEFINE I ==
      /\ (part = "Retention" => Sweep!TypeOK)
      /\ (part = "ContextDelivery" => Delivery!TypeOK)
      /\ (part = "ResearchIndex" => Research!TypeOK)
      /\ (part = "AgentTracker" => Agents!TypeOK)
      /\ (part = "SessionPane" => Pane!TypeOK)
<1>1. I => (part \in {"Retention", "ContextDelivery", "ResearchIndex",
           "AgentTracker", "SessionPane"} => TypeOK)
  BY DEF TypeOK
<1> QED BY <1>1, SweepTyped, DeliveryTyped, ResearchTyped, AgentsTyped, PaneTyped, PTL

=============================================================================
