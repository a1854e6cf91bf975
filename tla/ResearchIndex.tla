---------------------------- MODULE ResearchIndex ----------------------------
(***************************************************************************)
(* The research index (research/research-index.ts with research/bm25.ts):  *)
(* items taken from the log, postings derived from them, vectors computed  *)
(* in the background, and one snapshot file that a timer and stop() save.  *)
(***************************************************************************)
EXTENDS Integers, FiniteSets

CONSTANTS
  Doc,          \* the items that log entries yield, by their age: 1 is oldest
  Term,
  TermsOf,      \* the terms of an item's title and text
  MaxItems,     \* maxItems
  MaxRuns       \* bound: runs of the core

VARIABLES
  items, postings, indexed,   \* items, term -> ids, ids with a length
  vectors,      \* ids with a vector
  dirty,
  saves,        \* snapshots on their way to the file
  file,         \* the snapshot file
  embedding,    \* the items a batch of embeddings was begun for
  logged,       \* what the log on disk yields
  runs,
  overtaken     \* history: an item came, or a save landed, during another save

indexVars == <<items, postings, indexed, vectors, dirty>>
vars == <<indexVars, saves, file, embedding, logged, runs, overtaken>>

-----------------------------------------------------------------------------
NoIndex == [items |-> {}, postings |-> [t \in Term |-> {}], indexed |-> {}]
Snapshot == [items |-> items, postings |-> postings, indexed |-> indexed]

(* Bm25Index.add and remove.                                               *)
Added(x, d) ==
  [items |-> x.items \cup {d}, indexed |-> x.indexed \cup {d},
   postings |-> [t \in Term |-> IF t \in TermsOf[d] THEN x.postings[t] \cup {d}
                                ELSE x.postings[t] \ {d}]]

(* Broken: the postings of a dropped item stay.                            *)
DroppedItemOnly(x, S) == [x EXCEPT !.items = @ \ S]

Dropped(x, S) ==
  [items |-> x.items \ S, indexed |-> x.indexed \ S,
   postings |-> [t \in Term |-> x.postings[t] \ S]]

(* trim: the oldest go, which may be the one that has just come.           *)
Oldest(S, n) == CHOOSE T \in SUBSET S :
  Cardinality(T) = n /\ \A d \in T, e \in S \ T : d < e

Trimmed(x) ==
  IF Cardinality(x.items) <= MaxItems THEN x
  ELSE Dropped(x, Oldest(x.items, Cardinality(x.items) - MaxItems))

Holds(x) == items' = x.items /\ postings' = x.postings /\ indexed' = x.indexed

Ingest(d) ==
  /\ d \notin logged
  /\ logged' = logged \cup {d}
  /\ Holds(Trimmed(Added(Snapshot, d)))
  /\ dirty' = TRUE
  /\ overtaken' = (overtaken \/ saves # {})
  /\ UNCHANGED <<vectors, saves, file, embedding, runs>>

-----------------------------------------------------------------------------
(* embedPending: what has no vector is embedded, however long that takes,  *)
(* and stored whether or not the item is still there.                      *)
EmbedBegins ==
  /\ embedding = {} /\ items \ vectors # {}
  /\ embedding' = items \ vectors
  /\ UNCHANGED <<indexVars, saves, file, logged, runs, overtaken>>

EmbedEnds ==
  /\ embedding # {}
  /\ vectors' = vectors \cup embedding
  /\ embedding' = {}
  /\ UNCHANGED <<items, postings, indexed, dirty, saves, file, logged, runs, overtaken>>

(* flush, on the timer: nothing to do unless something changed.            *)
FlushBegins ==
  /\ dirty
  /\ saves' = saves \cup {Snapshot}
  /\ overtaken' = (overtaken \/ \E s \in saves : s # Snapshot)
  /\ UNCHANGED <<indexVars, file, embedding, logged, runs>>

(* Broken: the flag is cleared when the save begins and it fails.          *)
AfterSaveFails == FALSE

AfterFailure == dirty

FlushLands(s) ==
  /\ s \in saves
  /\ saves' = saves \ {s}
  /\ \/ file' = s /\ dirty' = FALSE
     \/ file' = file /\ dirty' = AfterFailure
  /\ UNCHANGED <<items, postings, indexed, vectors, embedding, logged, runs, overtaken>>

(* load: postings that do not go with the items are built anew from them;  *)
(* an index with no items is filled from the log, in whatever order.       *)
Loaded(snapshot) ==
  IF Cardinality(snapshot.indexed) = Cardinality(snapshot.items) THEN snapshot
  ELSE [items |-> snapshot.items, indexed |-> snapshot.items,
        postings |-> [t \in Term |-> {d \in snapshot.items : t \in TermsOf[d]}]]

Backfilled ==
  [items |-> logged, indexed |-> logged,
   postings |-> [t \in Term |-> {d \in logged : t \in TermsOf[d]}]]

(* The core is killed, and the next one loads what is on disk.             *)
Restarts ==
  /\ runs < MaxRuns
  /\ runs' = runs + 1
  /\ LET x == IF file.items = {} THEN Trimmed(Backfilled) ELSE Loaded(file)
     IN Holds(x) /\ dirty' = (x # file)
  /\ vectors' \in {vectors, {}}
  /\ saves' = {} /\ embedding' = {} /\ overtaken' = FALSE
  /\ UNCHANGED <<file, logged>>

(* search: the ids a term's postings name, as far as there are items.      *)
Hits(t) == postings[t] \cap items

Init ==
  /\ items = {} /\ postings = NoIndex.postings /\ indexed = {} /\ vectors = {}
  /\ dirty = FALSE /\ saves = {} /\ file = NoIndex /\ embedding = {}
  /\ logged = {} /\ runs = 1 /\ overtaken = FALSE

Next ==
  \/ \E d \in Doc : Ingest(d)
  \/ EmbedBegins \/ EmbedEnds \/ FlushBegins \/ Restarts
  \/ \E s \in saves : FlushLands(s)

Spec == Init /\ [][Next]_vars

-----------------------------------------------------------------------------
Index == [items : SUBSET Doc, postings : [Term -> SUBSET Doc], indexed : SUBSET Doc]

TypeOK ==
  /\ Snapshot \in Index /\ file \in Index /\ saves \subseteq Index
  /\ vectors \subseteq Doc /\ embedding \subseteq Doc /\ logged \subseteq Doc
  /\ Cardinality(items) <= MaxItems

(* What search ranks is what there is: the postings and the lengths are    *)
(* those of the items, after trimming out of order, saving and loading.    *)
IndexAgrees ==
  /\ indexed = items
  /\ \A t \in Term : Hits(t) = {d \in items : t \in TermsOf[d]} /\ postings[t] \subseteq items

(* An index that says it has nothing to save has been saved: only an item  *)
(* that comes while a save is under way, or a save that another overtakes, *)
(* can be missing from the file.                                           *)
CleanIsSaved == ~dirty /\ ~overtaken => file = Snapshot

=============================================================================
