--------------------------- MODULE VersionHistory ---------------------------
(***************************************************************************)
(* The numbered versions of one file (FileTracker.addVersion and the       *)
(* methods that read, delete and restore versions, managers/file-          *)
(* tracker.ts): a history object in memory, the history file that a save   *)
(* puts in place, and one content file per version, which outlives its     *)
(* entry in the history when the history is trimmed.                       *)
(*                                                                         *)
(* Every deletion of the whole history, and every restart, begins a new    *)
(* era: a handler that is still at an await works on the object of its     *)
(* own era.                                                                *)
(***************************************************************************)
EXTENDS Integers, Sequences, FiniteSets, SequencesExt, Arrays

CONSTANTS
  Content,      \* contents of the file; "" among them is falsy
  Empty,        \* the empty content
  NoContent,    \* no such file
  MaxVersions,  \* maxVersionsPerFile
  MaxNumber,    \* bound: versions added in all
  MaxEdits,     \* bound: deletions of a version or of the history
  MaxRestarts   \* bound: restarts

VARIABLES
  history,      \* history[era]: versions, lastVersionNumber and existence
  era,          \* the era this.history refers to
  stored,       \* the history file
  files,        \* the content file of each number
  tasks,        \* handlers at an await
  names,        \* history: the content each number was given in this era
  added, edits, restarts,
  reordered,    \* history: eras whose saves were overtaken or lost
  mixed         \* history: eras whose handlers met those of another

memoryVars == <<history, era, names>>
diskVars == <<stored, files>>
countVars == <<added, edits, restarts>>
historyVars == <<reordered, mixed>>
vars == <<memoryVars, diskVars, tasks, countVars, historyVars>>

-----------------------------------------------------------------------------
Number == 1 .. MaxNumber
Era == 1 .. MaxEdits + MaxRestarts + 1
Version == [number : Number, content : Content]
None == [exists |-> FALSE, versions |-> <<>>, last |-> 0]

Current == history[era]
Numbers(h) == {h.versions[i].number : i \in DOMAIN h.versions}

(* A handler: what it does, to which version of which era, the await it is *)
(* at, the numbers it still has to deal with, the document it is saving.   *)
Task(kind, number, step, left) ==
  [kind |-> kind, number |-> number, era |-> era, step |-> step,
   content |-> NoContent, left |-> left, doc |-> None]

(* Broken: numbered by what is retained.                                   *)
NextByCount(h) == Len(h.versions) + 1

(* The monotonic counter, which no deletion rolls back.                    *)
NextNumber(h) == h.last + 1

Trimmed(versions) ==
  IF Len(versions) <= MaxVersions THEN versions
  ELSE SubSeq(versions, Len(versions) - MaxVersions + 1, Len(versions))

Repeats(h, c) == h.versions # <<>> /\ Last(h.versions).content = c

(* addVersion: the part before its first await; content that the newest    *)
(* version has already is not added.  A tracked edit, a revert and both    *)
(* restores call it.                                                       *)
AddsVersion(c) ==
  LET n == NextNumber(Current)
      version == [number |-> n, content |-> c]
  IN /\ added < MaxNumber
     /\ ~Repeats(Current, c)
     /\ added' = added + 1
     /\ history' = [history EXCEPT ![era] =
          [exists |-> TRUE, last |-> n,
           versions |-> Trimmed(Append(Current.versions, version))]]
     /\ names' = [names EXCEPT ![n] = IF @ = NoContent THEN c ELSE @]
     /\ tasks' = tasks \cup {[Task("add", n, "content", <<>>) EXCEPT !.content = c]}
     /\ mixed' = IF \E t \in tasks : t.era # era THEN mixed \cup {era} ELSE mixed
     /\ UNCHANGED <<era, diskVars, edits, restarts, reordered>>

Becomes(t, new) == (tasks \ {t}) \cup {new}

(* saveVersion: the content file is written.                               *)
ContentLands(t) ==
  /\ t \in tasks /\ t.step = "content"
  /\ files' = [files EXCEPT ![t.number] = t.content]
  /\ tasks' = Becomes(t, [t EXCEPT !.step = "save"])
  /\ UNCHANGED <<memoryVars, stored, countVars, historyVars>>

(* saveJSON: the history is written out as it is now ...                   *)
SaveBegins(t) ==
  /\ t \in tasks /\ t.step = "save"
  /\ tasks' = Becomes(t, [t EXCEPT !.step = "land", !.doc = history[t.era]])
  /\ UNCHANGED <<memoryVars, diskVars, countVars, historyVars>>

(* ... and takes the place of the file when the rename lands.              *)
SaveLands(t) ==
  /\ t \in tasks /\ t.step = "land"
  /\ stored' = t.doc
  /\ tasks' = tasks \ {t}
  /\ reordered' = IF t.era # era \/ t.doc # history[era] THEN reordered \cup {era}
                  ELSE reordered
  /\ mixed' = IF t.era # era THEN mixed \cup {era} ELSE mixed
  /\ UNCHANGED <<memoryVars, files, countVars>>

-----------------------------------------------------------------------------
Others(h, n) == Filter(h.versions, {v \in Range(h.versions) : v.number # n})

(* Broken: the counter follows the newest version that is left.            *)
ShortenedRollsBack(h, n) ==
  LET left == Others(h, n)
  IN [h EXCEPT !.versions = left,
               !.last = IF left = <<>> THEN 0 ELSE Last(left).number]

(* deleteVersion: the retained versions, the counter left alone.           *)
Shortened(h, n) == [h EXCEPT !.versions = Others(h, n)]

DeletesVersion(n) ==
  /\ edits < MaxEdits
  /\ n \in Numbers(Current)
  /\ edits' = edits + 1
  /\ history' = [history EXCEPT ![era] = Shortened(Current, n)]
  /\ tasks' = tasks \cup {Task("delete", n, "unlink", <<>>)}
  /\ UNCHANGED <<era, names, diskVars, added, restarts, historyVars>>

(* PersistenceStore.deleteVersion.                                         *)
ContentGoes(t) ==
  /\ t \in tasks /\ t.step = "unlink"
  /\ files' = [files EXCEPT ![t.number] = NoContent]
  /\ tasks' = Becomes(t, [t EXCEPT !.step = "save"])
  /\ UNCHANGED <<memoryVars, stored, countVars, historyVars>>

(* deleteFileHistory: the object is forgotten ...                          *)
DeletesHistory ==
  /\ edits < MaxEdits
  /\ Current.exists
  /\ edits' = edits + 1
  /\ era' = era + 1
  /\ names' = [n \in Number |-> NoContent]
  /\ tasks' = tasks \cup
       {Task("purge", 0, "forget", [i \in DOMAIN Current.versions |->
                                      Current.versions[i].number])}
  /\ UNCHANGED <<history, diskVars, added, restarts, historyVars>>

(* ... its file deleted ...                                                *)
HistoryFileGoes(t) ==
  /\ t \in tasks /\ t.step = "forget"
  /\ stored' = None
  /\ tasks' = Becomes(t, [t EXCEPT !.step = "purge"])
  /\ reordered' = IF Current.exists THEN reordered \cup {era} ELSE reordered
  /\ UNCHANGED <<memoryVars, files, countVars, mixed>>

(* ... and then the content files of the versions it retained.             *)
Purged(t) == [files EXCEPT ![Head(t.left)] = NoContent]

PurgeGoesOn(t) ==
  /\ t \in tasks /\ t.step = "purge"
  /\ IF t.left = <<>>
       THEN tasks' = tasks \ {t} /\ UNCHANGED files
       ELSE tasks' = Becomes(t, [t EXCEPT !.left = Tail(@)]) /\ files' = Purged(t)
  /\ UNCHANGED <<memoryVars, stored, countVars, historyVars>>

(* The core is killed and another one loads the history file.              *)
Restarts ==
  /\ restarts < MaxRestarts
  /\ restarts' = restarts + 1
  /\ era' = era + 1
  /\ history' = [history EXCEPT ![era + 1] = stored]
  /\ names' = [n \in Number |->
       IF n \in Numbers(stored)
         THEN (CHOOSE v \in Range(stored.versions) : v.number = n).content
         ELSE NoContent]
  /\ mixed' = IF mixed # {} \/ (\E t \in tasks : t.step = "content")
            THEN mixed \cup {era + 1} ELSE mixed
  /\ reordered' = IF tasks # {} \/ stored # Current THEN reordered \cup {era + 1}
                  ELSE reordered
  /\ tasks' = {}
  /\ UNCHANGED <<diskVars, added, edits>>

-----------------------------------------------------------------------------
(* getVersionContent: what memory holds under the number, unless it is     *)
(* empty, else what the content file holds.                                *)
VersionContent(n) ==
  LET held == {v \in Range(Current.versions) : v.number = n /\ v.content # Empty}
  IN IF held # {} THEN (CHOOSE v \in held : TRUE).content ELSE files[n]

Init ==
  /\ history = [e \in Era |-> None] /\ era = 1
  /\ stored = None /\ files = [n \in Number |-> NoContent]
  /\ tasks = {} /\ names = [n \in Number |-> NoContent]
  /\ added = 0 /\ edits = 0 /\ restarts = 0
  /\ reordered = {} /\ mixed = {}

Next ==
  \/ \E c \in Content : AddsVersion(c)
  \/ \E n \in Number : DeletesVersion(n)
  \/ DeletesHistory \/ Restarts
  \/ \E t \in tasks : \/ ContentLands(t) \/ SaveBegins(t) \/ SaveLands(t)
                      \/ ContentGoes(t) \/ HistoryFileGoes(t) \/ PurgeGoesOn(t)

Spec == Init /\ [][Next]_vars

-----------------------------------------------------------------------------
History == [exists : BOOLEAN, versions : Seq(Version), last : Number \cup {0}]

TypeOK ==
  /\ history \in [Era -> History] /\ stored \in History /\ era \in Era
  /\ files \in [Number -> Content \cup {NoContent}]
  /\ names \in [Number -> Content \cup {NoContent}]
  /\ \A e \in Era : Len(history[e].versions) <= MaxVersions
  /\ \A t \in tasks : t.step \in {"content", "save", "land", "unlink", "forget", "purge"}

(* A number names one content for as long as the history lives: reading a  *)
(* version that is listed, trimmed or deleted yields the content it was    *)
(* given or nothing, once that is written - unless handlers of a deleted   *)
(* history were still at work when versions were added to the next, or the *)
(* core was killed before a content was written.                           *)
NumberNamesOneContent ==
  \A n \in Number :
    /\ names[n] # NoContent /\ era \notin mixed
    /\ ~\E t \in tasks : t.number = n /\ t.step = "content"
    => VersionContent(n) \in {names[n], NoContent}

(* Once every handler is done the history file is what memory holds,       *)
(* unless a save was overtaken by another or the core was killed.          *)
HistoryOnDisk ==
  tasks = {} /\ era \notin reordered => stored = Current

(* ... and then every version that is listed can be read.                  *)
ListedIsReadable ==
  tasks = {} /\ era \notin mixed /\ reordered = {} =>
    \A n \in Numbers(Current) : VersionContent(n) = names[n]

(* What is left of a history when its handlers are done: the file matches  *)
(* memory and each listed version reads as what it was added as, the empty *)
(* one and the ones a restart brought back included.                       *)
HistoryKept == HistoryOnDisk /\ ListedIsReadable

=============================================================================
