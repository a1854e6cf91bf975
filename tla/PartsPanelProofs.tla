-------------------------- MODULE PartsPanelProofs ----------------------------
(***************************************************************************)
(* Proofs about the activity feed and the list of pending changes of the   *)
(* webview, for every value of the constants of Parts.  Each part has an   *)
(* inductive invariant of its own, and the specification of Parts is, of a *)
(* part, that part's.                                                      *)
(***************************************************************************)
EXTENDS Parts, Sequences, FiniteSets, WellFoundedInduction, FiniteSetTheorems, TLAPS

(* The slots of Parts, under the names the parts give them.                *)
answers == v1
work == v1
coreUp == v2
logs == v2
asked == v3
crossed == v3
exits == v4
feed == v4
fetch == v5
since == v5
flying == v6
known == v6
fresh == v7
opens == v7
now == v8
panel == v8
pending == v9
requests == v9
pipe == v10
posted == v11
queue == v12
rows == v13
told == v14
missed == v15

USE DEF answers, work, coreUp, logs, asked, crossed, exits, feed, fetch,
  since, flying, known, fresh, opens, now, panel, pending, requests, pipe,
  posted, queue, rows, told, missed

-----------------------------------------------------------------------------
(* The activity feed: what the assembly makes of the logs is put as which  *)
(* completion joined which call; two moments' assemblies are compared over *)
(* the calls whose logs arrived in time and are still shown; and what the  *)
(* webview holds is what a full answer of some moment shows, and answers   *)
(* are due in the order of theirs.                                         *)

(* The part counts as this module does.                                    *)
LEMMA FeedCardinality ==
  ASSUME NEW S PROVE Feed!Cardinality(S) = Cardinality(S)
  BY DEF Feed!Cardinality, Cardinality

LEMMA NatMin ==
  ASSUME NEW T, T \subseteq Nat, T # {}
  PROVE  \E m \in T : \A n \in T : m <= n
<1>1. PICK x \in T : \A y \in T : ~ (<<y, x>> \in OpToRel(<,Nat))
  BY NatLessThanWellFounded, WFMin
<1>2. \A y \in T : ~(y < x)
  BY <1>1, Zenon DEF OpToRel
<1>3. \A y \in T : x <= y
  BY <1>2
<1> QED BY <1>3

IsPre(l) == Feed!Phase(l.id) = "pre"
IsPost(l) == Feed!Phase(l.id) = "post"
IsPrompt(l) == Feed!Phase(l.id) = "prompt"

LEMMA LogsAre ==
  ASSUME NEW l \in Feed!Log
  PROVE  /\ l.id \in Feed!Event /\ l.ts \in 1 .. MaxFeedTime /\ l.ts \in Nat \ {0}
         /\ IsPre(l) \/ IsPost(l) \/ IsPrompt(l)
         /\ IsPre(l) => ~IsPost(l) /\ ~IsPrompt(l)
         /\ IsPost(l) => ~IsPre(l) /\ ~IsPrompt(l)
<1>1. l.id \in Feed!Event /\ l.ts \in 1 .. MaxFeedTime
  BY DEF Feed!Log
<1>2. l.ts \in Nat \ {0}
  BY <1>1, FeedAssumption
<1>3. Feed!Phase(l.id) \in {"pre", "post", "prompt"}
  BY <1>1 DEF Feed!Event, Feed!Phase
<1> QED BY <1>1, <1>2, <1>3 DEF IsPre, IsPost, IsPrompt

-----------------------------------------------------------------------------
(* What the assembly makes of the first n logs of s, put without its       *)
(* history: ends[a] is the completion that joined the call a, 0 if none    *)
(* did.  A completion joins one call, and one that could have had a has    *)
(* joined a or an earlier one, unless a was taken before.                  *)
Ends(s, n, ends) ==
  /\ ends \in [1 .. n -> 0 .. n]
  /\ \A a \in 1 .. n : ends[a] # 0 =>
       /\ a < ends[a] /\ IsPre(s[a]) /\ IsPost(s[ends[a]])
       /\ Feed!Fits(s[a].id, s[ends[a]].id)
  /\ \A a, b \in 1 .. n : ends[a] # 0 /\ ends[a] = ends[b] => a = b
  /\ \A a, c \in 1 .. n :
       /\ a < c /\ IsPre(s[a]) /\ IsPost(s[c]) /\ Feed!Fits(s[a].id, s[c].id)
       /\ ends[a] = 0 \/ ends[a] >= c
       => \E m \in 1 .. a : ends[m] = c

(* The entry the assembly has for the log at a.                            *)
EntryIs(s, n, ends, a, e) ==
  /\ e \in Feed!Item /\ e.id = s[a].id /\ e.ts = s[a].ts
  /\ IsPrompt(s[a]) => e.status = "said" /\ e.upd = s[a].ts
  /\ IsPre(s[a]) => \/ ends[a] = 0 /\ e.status = "running" /\ e.upd = s[a].ts
                    \/ ends[a] # 0 /\ e.status = "completed" /\ e.upd = s[ends[a]].ts
  /\ IsPost(s[a]) => /\ e.upd = s[a].ts
                     /\ e.status = IF \E m \in 1 .. n : ends[m] = a THEN "joined"
                                                                    ELSE "completed"

Assembles(s, n, ends, q) ==
  /\ Ends(s, n, ends) /\ q \in Seq(Feed!Item) /\ Len(q) = n
  /\ \A a \in 1 .. n : EntryIs(s, n, ends, a, q[a])

(* One log more that opens no call of another: the ends stay.              *)
LEMMA AssembleAppends ==
  ASSUME NEW s \in Seq(Feed!Log), NEW n \in Nat, n + 1 <= Len(s), NEW ends, NEW q,
         Assembles(s, n, ends, q), NEW e, e \in Feed!Item, e.id = s[n + 1].id,
         e.ts = s[n + 1].ts, e.upd = s[n + 1].ts,
         IsPrompt(s[n + 1]) => e.status = "said",
         IsPre(s[n + 1]) => e.status = "running",
         IsPost(s[n + 1]) => /\ e.status = "completed"
                             /\ \A a \in 1 .. n : ~Feed!Matches(q[a], s[n + 1])
  PROVE  \E more : Assembles(s, n + 1, more, Append(q, e))
<1>1. PICK more : more = [a \in 1 .. n + 1 |-> IF a = n + 1 THEN 0 ELSE ends[a]]
  OBVIOUS
<1>2. /\ ends \in [1 .. n -> 0 .. n] /\ more[n + 1] = 0
      /\ \A a \in 1 .. n : more[a] = ends[a] /\ ends[a] \in 0 .. n
  BY <1>1 DEF Assembles, Ends
<1>3. /\ Append(q, e) \in Seq(Feed!Item) /\ Len(Append(q, e)) = n + 1
      /\ Append(q, e)[n + 1] = e /\ \A a \in 1 .. n : Append(q, e)[a] = q[a]
  BY DEF Assembles
<1>4. /\ \A a \in 1 .. n + 1 : s[a] \in Feed!Log
      /\ \A a \in 1 .. n + 1 : a \in 1 .. n \/ a = n + 1
  OBVIOUS
<1>5. Ends(s, n + 1, more)
  <2>1. more \in [1 .. n + 1 -> 0 .. n + 1]
    BY <1>1, <1>2
  <2>2. ASSUME NEW a \in 1 .. n + 1, more[a] # 0
        PROVE  /\ a < more[a] /\ IsPre(s[a]) /\ IsPost(s[more[a]])
               /\ Feed!Fits(s[a].id, s[more[a]].id)
    <3>1. a \in 1 .. n /\ more[a] = ends[a]
      BY <1>2, <1>4, <2>2
    <3> QED BY <2>2, <3>1 DEF Assembles, Ends
  <2>3. ASSUME NEW a \in 1 .. n + 1, NEW b \in 1 .. n + 1, more[a] # 0, more[a] = more[b]
        PROVE  a = b
    <3>1. a \in 1 .. n /\ b \in 1 .. n /\ more[a] = ends[a] /\ more[b] = ends[b]
      BY <1>2, <1>4, <2>3
    <3>2. \A i, j \in 1 .. n : ends[i] # 0 /\ ends[i] = ends[j] => i = j
      BY DEF Assembles, Ends
    <3> QED BY <2>3, <3>1, <3>2
  <2>4. ASSUME NEW a \in 1 .. n + 1, NEW c \in 1 .. n + 1, a < c, IsPre(s[a]), IsPost(s[c]),
               Feed!Fits(s[a].id, s[c].id), more[a] = 0 \/ more[a] >= c
        PROVE  \E m \in 1 .. a : more[m] = c
    <3>1. a \in 1 .. n /\ more[a] = ends[a] /\ ends[a] \in 0 .. n
      BY <1>2, <1>4, <2>4
    <3>2. CASE c = n + 1
      <4>1. ends[a] = 0
        BY <2>4, <3>1, <3>2
      <4>2. EntryIs(s, n, ends, a, q[a])
        BY <3>1 DEF Assembles
      <4>3. q[a].status = "running" /\ q[a].id = s[a].id
        BY <2>4, <4>1, <4>2 DEF EntryIs
      <4>4. Feed!Matches(q[a], s[n + 1])
        BY <2>4, <3>2, <4>3 DEF Feed!Matches
      <4> QED BY <2>4, <3>1, <3>2, <4>4
    <3>3. CASE c # n + 1
      <4>1. c \in 1 .. n
        BY <1>4, <3>3
      <4>2. \E m \in 1 .. a : ends[m] = c
        BY <2>4, <3>1, <4>1 DEF Assembles, Ends
      <4> QED BY <1>2, <3>1, <4>2
    <3> QED BY <3>2, <3>3
  <2> QED BY <2>1, <2>2, <2>3, <2>4 DEF Ends
<1>6. ASSUME NEW a \in 1 .. n PROVE EntryIs(s, n + 1, more, a, q[a])
  <2>1. EntryIs(s, n, ends, a, q[a])
    BY DEF Assembles
  <2>2. (\E m \in 1 .. n : ends[m] = a) <=> (\E m \in 1 .. n + 1 : more[m] = a)
    BY <1>2, <1>4
  <2>3. more[a] = ends[a]
    BY <1>2
  <2> QED BY <2>1, <2>2, <2>3 DEF EntryIs
<1>7. EntryIs(s, n + 1, more, n + 1, e)
  <2>1. ~\E m \in 1 .. n + 1 : more[m] = n + 1
    BY <1>2, <1>4
  <2>2. s[n + 1] \in Feed!Log
    BY <1>4
  <2>3. /\ IsPre(s[n + 1]) => ~IsPost(s[n + 1]) /\ ~IsPrompt(s[n + 1])
        /\ IsPost(s[n + 1]) => ~IsPre(s[n + 1]) /\ ~IsPrompt(s[n + 1])
    BY <2>2, LogsAre
  <2> QED BY <1>2, <2>1, <2>3 DEF EntryIs
<1> QED BY <1>3, <1>4, <1>5, <1>6, <1>7 DEF Assembles

(* A completion that the call at a takes: the first that is running and    *)
(* that it fits.                                                           *)
LEMMA AssembleJoins ==
  ASSUME NEW s \in Seq(Feed!Log), NEW n \in Nat, n + 1 <= Len(s), NEW ends, NEW q,
         Assembles(s, n, ends, q), IsPost(s[n + 1]),
         NEW a \in 1 .. n, Feed!Matches(q[a], s[n + 1]),
         \A b \in 1 .. n : Feed!Matches(q[b], s[n + 1]) => a <= b,
         NEW d, d \in Feed!Item, d.id = q[a].id, d.ts = q[a].ts, d.status = "completed",
         d.upd = s[n + 1].ts,
         NEW e, e \in Feed!Item, e.id = s[n + 1].id, e.ts = s[n + 1].ts, e.upd = s[n + 1].ts,
         e.status = "joined"
  PROVE  \E more : Assembles(s, n + 1, more, Append([q EXCEPT ![a] = d], e))
<1>1. PICK more : more = [b \in 1 .. n + 1 |-> IF b = n + 1 THEN 0 ELSE
                                               IF b = a THEN n + 1 ELSE ends[b]]
  OBVIOUS
<1>2. /\ ends \in [1 .. n -> 0 .. n] /\ more[n + 1] = 0 /\ more[a] = n + 1
      /\ \A b \in 1 .. n : ends[b] \in 0 .. n /\ ends[b] # n + 1
      /\ \A b \in 1 .. n : b # a => more[b] = ends[b]
  <2>1. ends \in [1 .. n -> 0 .. n]
    BY DEF Assembles, Ends
  <2>2. \A b \in 1 .. n : ends[b] \in 0 .. n /\ ends[b] # n + 1
    BY <2>1
  <2>3. more[n + 1] = 0 /\ more[a] = n + 1 /\ \A b \in 1 .. n : b # a => more[b] = ends[b]
    BY <1>1
  <2> QED BY <2>1, <2>2, <2>3
<1>3. PICK r : r = Append([q EXCEPT ![a] = d], e)
  OBVIOUS
<1>4. /\ r \in Seq(Feed!Item) /\ Len(r) = n + 1 /\ r[n + 1] = e /\ r[a] = d
      /\ \A b \in 1 .. n : b # a => r[b] = q[b]
  <2>1. q \in Seq(Feed!Item) /\ Len(q) = n
    BY DEF Assembles
  <2> QED BY <1>3, <2>1
<1>5. /\ \A b \in 1 .. n + 1 : s[b] \in Feed!Log
      /\ \A b \in 1 .. n + 1 : b \in 1 .. n \/ b = n + 1
      /\ n + 1 \in 1 .. n + 1 /\ \A b \in 1 .. n : b \in 1 .. n + 1 /\ b < n + 1
  OBVIOUS
<1>6. /\ q[a].status = "running" /\ Feed!Fits(q[a].id, s[n + 1].id) /\ EntryIs(s, n, ends, a, q[a])
  BY DEF Feed!Matches, Assembles
<1>7. IsPre(s[a]) /\ ends[a] = 0 /\ q[a].id = s[a].id /\ q[a].ts = s[a].ts
  <2>1. s[a] \in Feed!Log
    BY <1>5
  <2>2. IsPre(s[a]) \/ IsPost(s[a]) \/ IsPrompt(s[a])
    BY <2>1, LogsAre
  <2>3. ~IsPost(s[a]) /\ ~IsPrompt(s[a])
    BY <1>6 DEF EntryIs
  <2> QED BY <1>6, <2>2, <2>3 DEF EntryIs
<1>8. Ends(s, n + 1, more)
  <2>1. more \in [1 .. n + 1 -> 0 .. n + 1]
    <3>1. \A b \in 1 .. n + 1 : more[b] \in 0 .. n + 1
      BY <1>2, <1>5
    <3> QED BY <1>1, <3>1
  <2>2. ASSUME NEW b \in 1 .. n + 1, more[b] # 0
        PROVE  /\ b < more[b] /\ IsPre(s[b]) /\ IsPost(s[more[b]])
               /\ Feed!Fits(s[b].id, s[more[b]].id)
    <3>1. CASE b = a
      BY <1>2, <1>6, <1>7, <3>1
    <3>2. CASE b # a
      <4>1. b \in 1 .. n /\ more[b] = ends[b]
        BY <1>2, <1>5, <2>2, <3>2
      <4> QED BY <2>2, <4>1 DEF Assembles, Ends
    <3> QED BY <3>1, <3>2
  <2>3. ASSUME NEW b \in 1 .. n + 1, NEW c \in 1 .. n + 1, more[b] # 0, more[b] = more[c]
        PROVE  b = c
    <3>1. \A i, j \in 1 .. n : ends[i] # 0 /\ ends[i] = ends[j] => i = j
      BY DEF Assembles, Ends
    <3>2. b \in 1 .. n /\ c \in 1 .. n
      BY <1>2, <1>5, <2>3
    <3> QED BY <1>2, <2>3, <3>1, <3>2
  <2>4. ASSUME NEW b \in 1 .. n + 1, NEW c \in 1 .. n + 1, b < c, IsPre(s[b]), IsPost(s[c]),
               Feed!Fits(s[b].id, s[c].id), more[b] = 0 \/ more[b] >= c
        PROVE  \E m \in 1 .. b : more[m] = c
    <3>1. b \in 1 .. n
      BY <1>5, <2>4
    <3>2. CASE c = n + 1
      <4>1. CASE b = a
        BY <1>2, <3>1, <3>2, <4>1
      <4>2. CASE b # a
        <5>1. ends[b] = 0
          BY <1>2, <2>4, <3>1, <3>2, <4>2
        <5>2. EntryIs(s, n, ends, b, q[b])
          BY <3>1 DEF Assembles
        <5>3. q[b].status = "running" /\ q[b].id = s[b].id
          BY <2>4, <5>1, <5>2 DEF EntryIs
        <5>4. Feed!Matches(q[b], s[n + 1])
          BY <2>4, <3>2, <5>3 DEF Feed!Matches
        <5>5. a \in 1 .. b
          BY <3>1, <5>4
        <5> QED BY <1>2, <3>2, <5>5
      <4> QED BY <4>1, <4>2
    <3>3. CASE c # n + 1
      <4>1. c \in 1 .. n
        BY <1>5, <3>3
      <4>2. ends[b] = 0 \/ ends[b] >= c
        BY <1>2, <1>7, <2>4, <3>1
      <4>3. PICK m \in 1 .. b : ends[m] = c
        BY <2>4, <3>1, <4>1, <4>2 DEF Assembles, Ends
      <4>4. m \in 1 .. n /\ m # a
        BY <1>7, <3>1, <4>1, <4>3
      <4> QED BY <1>2, <4>3, <4>4
    <3> QED BY <3>2, <3>3
  <2> QED BY <2>1, <2>2, <2>3, <2>4 DEF Ends
<1>9. ASSUME NEW b \in 1 .. n, b # a PROVE EntryIs(s, n + 1, more, b, q[b])
  <2>1. EntryIs(s, n, ends, b, q[b])
    BY DEF Assembles
  <2>2. (\E m \in 1 .. n : ends[m] = b) <=> (\E m \in 1 .. n + 1 : more[m] = b)
    <3>1. ASSUME NEW m \in 1 .. n, ends[m] = b PROVE \E i \in 1 .. n + 1 : more[i] = b
      <4>1. m # a /\ m \in 1 .. n + 1
        BY <1>5, <1>7, <3>1
      <4> QED BY <1>2, <3>1, <4>1
    <3>2. ASSUME NEW m \in 1 .. n + 1, more[m] = b PROVE \E i \in 1 .. n : ends[i] = b
      <4>1. m # a /\ m \in 1 .. n
        BY <1>2, <1>5, <3>2
      <4> QED BY <1>2, <3>2, <4>1
    <3> QED BY <3>1, <3>2
  <2>3. more[b] = ends[b]
    BY <1>2, <1>9
  <2> QED BY <2>1, <2>2, <2>3 DEF EntryIs
<1>10. EntryIs(s, n + 1, more, a, d)
  <2>1. s[a] \in Feed!Log
    BY <1>5
  <2>2. ~IsPost(s[a]) /\ ~IsPrompt(s[a])
    BY <1>7, <2>1, LogsAre
  <2> QED BY <1>2, <1>7, <2>2 DEF EntryIs
<1>11. EntryIs(s, n + 1, more, n + 1, e)
  <2>1. \E m \in 1 .. n + 1 : more[m] = n + 1
    BY <1>2, <1>5
  <2>2. s[n + 1] \in Feed!Log
    BY <1>5
  <2>3. ~IsPre(s[n + 1]) /\ ~IsPrompt(s[n + 1])
    BY <2>2, LogsAre
  <2> QED BY <2>1, <2>3 DEF EntryIs
<1>12. \A b \in 1 .. n + 1 : EntryIs(s, n + 1, more, b, r[b])
  BY <1>4, <1>5, <1>9, <1>10, <1>11
<1>13. Assembles(s, n + 1, more, r)
  BY <1>4, <1>8, <1>12 DEF Assembles
<1> QED BY <1>3, <1>13

LEMMA ItemsAre ==
  ASSUME NEW l \in Feed!Log, NEW st \in {"said", "running", "completed", "joined"}
  PROVE  /\ Feed!ItemOf(l, st) \in Feed!Item /\ Feed!ItemOf(l, st).id = l.id /\ Feed!ItemOf(l, st).ts = l.ts
         /\ Feed!ItemOf(l, st).upd = l.ts /\ Feed!ItemOf(l, st).status = st
BY LogsAre DEF Feed!ItemOf, Feed!Item

(* One step of the assembly.                                               *)
LEMMA AssembleMore ==
  ASSUME NEW s \in Seq(Feed!Log), NEW n \in Nat, n + 1 <= Len(s), NEW ends, NEW q,
         Assembles(s, n, ends, q)
  PROVE  \E more : Assembles(s, n + 1, more, Feed!Assemble(q, s[n + 1]))
<1>1. PICK l : l = s[n + 1]
  OBVIOUS
<1>2. l \in Feed!Log
  BY <1>1
<1>3. /\ q \in Seq(Feed!Item) /\ DOMAIN q = 1 .. n /\ Len(q) = n
      /\ \A a \in 1 .. n : q[a] \in Feed!Item
  BY DEF Assembles
<1>4. CASE IsPrompt(l)
  <2>1. PICK e : e = Feed!ItemOf(l, "said")
    OBVIOUS
  <2>2. Feed!Assemble(q, l) = Append(q, e)
    BY <1>4, <2>1 DEF Feed!Assemble, IsPrompt
  <2>3. /\ e \in Feed!Item /\ e.id = l.id /\ e.ts = l.ts /\ e.upd = l.ts /\ e.status = "said"
    BY <1>2, <2>1, ItemsAre
  <2>4. ~IsPre(l) /\ ~IsPost(l)
    BY <1>2, <1>4, LogsAre
  <2> QED BY <1>1, <2>2, <2>3, <2>4, AssembleAppends
<1>5. CASE IsPre(l)
  <2>1. PICK e : e = Feed!ItemOf(l, "running")
    OBVIOUS
  <2>2. Feed!Assemble(q, l) = Append(q, e)
    BY <1>5, <2>1 DEF Feed!Assemble, IsPre
  <2>3. /\ e \in Feed!Item /\ e.id = l.id /\ e.ts = l.ts /\ e.upd = l.ts /\ e.status = "running"
    BY <1>2, <2>1, ItemsAre
  <2>4. ~IsPrompt(l) /\ ~IsPost(l)
    BY <1>2, <1>5, LogsAre
  <2> QED BY <1>1, <2>2, <2>3, <2>4, AssembleAppends
<1>6. CASE IsPost(l)
  <2>1. PICK fitting : fitting = {i \in DOMAIN q : Feed!Matches(q[i], l)}
    OBVIOUS
  <2>2. fitting \subseteq 1 .. n /\ \A a \in 1 .. n : a \in fitting <=> Feed!Matches(q[a], l)
    BY <1>3, <2>1
  <2>3. Feed!Phase(l.id) # "prompt" /\ Feed!Phase(l.id) # "pre" /\ ~IsPrompt(l) /\ ~IsPre(l)
    BY <1>2, <1>6, LogsAre DEF IsPrompt, IsPre
  <2>4. CASE fitting = {}
    <3>1. PICK e : e = Feed!ItemOf(l, "completed")
      OBVIOUS
    <3>2. Feed!Assemble(q, l) = Append(q, e)
      BY <2>1, <2>3, <2>4, <3>1 DEF Feed!Assemble
    <3>3. /\ e \in Feed!Item /\ e.id = l.id /\ e.ts = l.ts /\ e.upd = l.ts
          /\ e.status = "completed"
      BY <1>2, <3>1, ItemsAre
    <3>4. \A a \in 1 .. n : ~Feed!Matches(q[a], l)
      BY <2>2, <2>4
    <3> QED BY <1>1, <2>3, <3>2, <3>3, <3>4, AssembleAppends
  <2>5. CASE fitting # {}
    <3>1. PICK a : a = CHOOSE i \in fitting : \A j \in fitting : i <= j
      OBVIOUS
    <3>2. \E i \in fitting : \A j \in fitting : i <= j
      <4>1. fitting \subseteq Nat
        BY <2>2
      <4> QED BY <2>5, <4>1, NatMin
    <3>3. a \in fitting /\ \A j \in fitting : a <= j
      BY <3>1, <3>2
    <3>4. /\ a \in 1 .. n /\ Feed!Matches(q[a], l)
          /\ \A b \in 1 .. n : Feed!Matches(q[b], l) => a <= b
      BY <2>2, <3>3
    <3>5. PICK d : d = [q[a] EXCEPT !.status = "completed", !.upd = l.ts]
      OBVIOUS
    <3>6. PICK e : e = Feed!ItemOf(l, "joined")
      OBVIOUS
    <3>7. Feed!Assemble(q, l) = Append([q EXCEPT ![a] = d], e)
      BY <2>1, <2>3, <2>5, <3>1, <3>5, <3>6 DEF Feed!Assemble
    <3>8. /\ e \in Feed!Item /\ e.id = l.id /\ e.ts = l.ts /\ e.upd = l.ts
          /\ e.status = "joined"
      BY <1>2, <3>6, ItemsAre
    <3>9. /\ d \in Feed!Item /\ d.id = q[a].id /\ d.ts = q[a].ts
          /\ d.status = "completed" /\ d.upd = l.ts
      <4>1. PICK i, t : i = q[a] /\ t = l.ts
        OBVIOUS
      <4>2. i \in Feed!Item /\ t \in 1 .. MaxFeedTime
        BY <1>2, <1>3, <3>4, <4>1, LogsAre
      <4>3. d = [i EXCEPT !.status = "completed", !.upd = t]
        BY <3>5, <4>1
      <4>4. /\ d \in Feed!Item /\ d.id = i.id /\ d.ts = i.ts
            /\ d.status = "completed" /\ d.upd = t
        BY <4>2, <4>3 DEF Feed!Item
      <4> QED BY <4>1, <4>4
    <3>10. \E more : Assembles(s, n + 1, more, Append([q EXCEPT ![a] = d], e))
      BY <1>1, <1>6, <3>4, <3>8, <3>9, AssembleJoins
    <3> QED BY <1>1, <3>7, <3>10
  <2> QED BY <2>4, <2>5
<1> QED BY <1>2, <1>4, <1>5, <1>6, LogsAre

-----------------------------------------------------------------------------
(* The assembly of the first n logs, as its recursion defines it ...       *)
AssemblyTo(s, n, f) ==
  f = [k \in 0 .. n |-> IF k = 0 THEN <<>> ELSE Feed!Assemble(f[k - 1], s[k])]

(* ... exists ...                                                          *)
LEMMA AssemblyMore ==
  ASSUME NEW s, NEW m \in Nat \ {0}, NEW f, AssemblyTo(s, m - 1, f)
  PROVE  \E g : AssemblyTo(s, m, g)
<1>1. PICK last : last = Feed!Assemble(f[m - 1], s[m])
  OBVIOUS
<1>2. PICK g : g = [k \in 0 .. m |-> IF k = m THEN last ELSE f[k]]
  OBVIOUS
<1>3. \A k \in 0 .. m - 1 : f[k] = IF k = 0 THEN <<>> ELSE Feed!Assemble(f[k - 1], s[k])
  BY DEF AssemblyTo
<1>4. \A k \in 0 .. m : g[k] = IF k = 0 THEN <<>> ELSE Feed!Assemble(g[k - 1], s[k])
  <2> TAKE k \in 0 .. m
  <2>1. CASE k = m
    <3>1. g[m] = last /\ g[m - 1] = f[m - 1]
      BY <1>2
    <3> QED BY <1>1, <2>1, <3>1
  <2>2. CASE k = 0
    <3>1. g[0] = f[0] /\ f[0] = <<>>
      BY <1>2, <1>3
    <3> QED BY <2>2, <3>1
  <2>3. CASE k # m /\ k # 0
    <3>1. k \in 0 .. m - 1 /\ g[k] = f[k] /\ g[k - 1] = f[k - 1]
      BY <1>2, <2>3
    <3> QED BY <1>3, <2>3, <3>1
  <2> QED BY <2>1, <2>2, <2>3
<1>5. g = [k \in 0 .. m |-> IF k = 0 THEN <<>> ELSE Feed!Assemble(g[k - 1], s[k])]
  BY <1>2, <1>4
<1> QED BY <1>5 DEF AssemblyTo

LEMMA AssemblyExists ==
  ASSUME NEW s, NEW n \in Nat
  PROVE  \E f : AssemblyTo(s, n, f)
<1> DEFINE Bad == {k \in Nat : ~\E f : AssemblyTo(s, k, f)}
<1> SUFFICES ASSUME Bad # {} PROVE FALSE
  OBVIOUS
<1>1. PICK m \in Bad : \A k \in Bad : m <= k
  BY NatMin
<1>2. CASE m = 0
  <2>1. AssemblyTo(s, 0, [k \in 0 .. 0 |-> <<>>])
    BY DEF AssemblyTo
  <2> QED BY <1>1, <1>2, <2>1
<1>3. CASE m # 0
  <2>1. m - 1 \in Nat /\ m - 1 \notin Bad
    BY <1>1, <1>3
  <2>2. PICK f : AssemblyTo(s, m - 1, f)
    BY <2>1
  <2> QED BY <1>1, <1>3, <2>2, AssemblyMore
<1> QED BY <1>2, <1>3

(* ... and its last value is what Assembled stands for.                    *)
LEMMA AssembledBy ==
  ASSUME NEW s, Len(s) \in Nat
  PROVE  \E f : /\ f[0] = <<>> /\ Feed!Assembled(s) = f[Len(s)]
                /\ \A k \in 1 .. Len(s) : f[k] = Feed!Assemble(f[k - 1], s[k])
<1> DEFINE h == CHOOSE f : f = [k \in 0 .. Len(s) |->
                  IF k = 0 THEN <<>> ELSE Feed!Assemble(f[k - 1], s[k])]
<1>1. \E f : f = [k \in 0 .. Len(s) |-> IF k = 0 THEN <<>> ELSE Feed!Assemble(f[k - 1], s[k])]
  <2>1. \E f : AssemblyTo(s, Len(s), f)
    BY AssemblyExists
  <2> QED BY <2>1 DEF AssemblyTo
<1>2. h = [k \in 0 .. Len(s) |-> IF k = 0 THEN <<>> ELSE Feed!Assemble(h[k - 1], s[k])]
  BY <1>1
<1>3. Feed!Assembled(s) = h[Len(s)]
  BY DEF Feed!Assembled
<1> HIDE DEF h
<1>4. h[0] = <<>>
  BY <1>2
<1>5. \A k \in 1 .. Len(s) : h[k] = Feed!Assemble(h[k - 1], s[k])
  <2> TAKE k \in 1 .. Len(s)
  <2>1. k \in 0 .. Len(s) /\ k # 0
    OBVIOUS
  <2> QED BY <1>2, <2>1
<1> QED BY <1>3, <1>4, <1>5

(* What the assembly makes of the logs s.                                  *)
LEMMA AssembledIs ==
  ASSUME NEW s \in Seq(Feed!Log)
  PROVE  \E ends : Assembles(s, Len(s), ends, Feed!Assembled(s))
<1>1. PICK f : /\ f[0] = <<>> /\ Feed!Assembled(s) = f[Len(s)]
               /\ \A k \in 1 .. Len(s) : f[k] = Feed!Assemble(f[k - 1], s[k])
  BY AssembledBy
<1> DEFINE Bad == {k \in Nat : k <= Len(s) /\ ~\E ends : Assembles(s, k, ends, f[k])}
<1>2. ASSUME Bad # {} PROVE FALSE
  <2>1. PICK m \in Bad : \A k \in Bad : m <= k
    BY <1>2, NatMin
  <2>2. CASE m = 0
    <3>1. PICK none : none = [a \in 1 .. 0 |-> 0]
      OBVIOUS
    <3>2. none \in [1 .. 0 -> 0 .. 0] /\ \A a \in 1 .. 0 : FALSE
      BY <3>1
    <3>3. Ends(s, 0, none)
      BY <3>2 DEF Ends
    <3>4. f[0] \in Seq(Feed!Item) /\ Len(f[0]) = 0
      BY <1>1
    <3>5. Assembles(s, 0, none, f[0])
      BY <3>2, <3>3, <3>4 DEF Assembles
    <3> QED BY <2>1, <2>2, <3>5
  <2>3. CASE m # 0
    <3>1. PICK n \in Nat : m = n + 1
      <4>1. m - 1 \in Nat /\ m = (m - 1) + 1
        BY <2>3
      <4> QED BY <4>1
    <3>2. n + 1 <= Len(s) /\ n \notin Bad /\ n <= Len(s) /\ n + 1 \in 1 .. Len(s)
          /\ (n + 1) - 1 = n
      BY <2>1, <3>1
    <3>3. PICK ends : Assembles(s, n, ends, f[n])
      BY <3>2
    <3>4. f[n + 1] = Feed!Assemble(f[n], s[n + 1])
      BY <1>1, <3>2
    <3>5. \E more : Assembles(s, n + 1, more, f[n + 1])
      BY <3>2, <3>3, <3>4, AssembleMore
    <3> QED BY <2>1, <3>1, <3>5
  <2> QED BY <2>2, <2>3
<1>3. Len(s) \in Nat /\ Len(s) <= Len(s)
  OBVIOUS
<1>4. \E ends : Assembles(s, Len(s), ends, f[Len(s)])
  BY <1>2, <1>3
<1> QED BY <1>1, <1>4

-----------------------------------------------------------------------------
(* Two sequences s and t that share the logs of the sources R up to a      *)
(* time: what has joined a call in one has done so in the other.           *)
Of(l) == Feed!SourceOf(l.id)

Steady(s) == \A a, b \in 1 .. Len(s) : a <= b => s[a].ts <= s[b].ts

IdsOnce(s) == \A a, b \in 1 .. Len(s) : s[a].id = s[b].id => a = b

(* R has, with a call, whatever could complete it, and the other way.      *)
Closed(R) == \A k, l \in Feed!Log :
  IsPre(k) /\ IsPost(l) /\ Feed!Fits(k.id, l.id) => (Of(k) \in R <=> Of(l) \in R)

SameOrder(s, t) == \A a, b \in 1 .. Len(s), x, y \in 1 .. Len(t) :
  s[a] = t[x] /\ s[b] = t[y] => (a < b <=> x < y)

Carries(s, t, R, T) == \A a \in 1 .. Len(s) :
  Of(s[a]) \in R /\ s[a].ts < T => \E x \in 1 .. Len(t) : t[x] = s[a]

(* A call a that c has joined in s, of which t shows another thing.        *)
Astray(s, t, R, T, U, f, g, c, a, z, x) ==
  /\ f[a] = c /\ Of(s[a]) \in R /\ s[c].ts < T /\ s[a].ts < U
  /\ t[z] = s[c] /\ t[x] = s[a]
  /\ g[x] = 0 \/ g[x] > z

LEMMA FitsOf ==
  ASSUME NEW R, Closed(R), NEW k \in Feed!Log, NEW l \in Feed!Log, IsPre(k), IsPost(l),
         Feed!Fits(k.id, l.id)
  PROVE  Of(k) \in R <=> Of(l) \in R
BY DEF Closed

LEMMA EndsOnce ==
  ASSUME NEW s, NEW n, NEW f, Ends(s, n, f), NEW a \in 1 .. n, NEW b \in 1 .. n,
         f[a] # 0, f[a] = f[b]
  PROVE  a = b
BY DEF Ends

LEMMA NoneAstray ==
  ASSUME NEW s \in Seq(Feed!Log), NEW t \in Seq(Feed!Log), Steady(s), Steady(t),
         NEW f, Ends(s, Len(s), f), NEW g, Ends(t, Len(t), g),
         NEW R, Closed(R), SameOrder(s, t), NEW T \in Nat, NEW U \in Nat,
         Carries(s, t, R, T), Carries(t, s, R, U),
         NEW c \in 1 .. Len(s), NEW a \in 1 .. Len(s),
         NEW z \in 1 .. Len(t), NEW x \in 1 .. Len(t),
         Astray(s, t, R, T, U, f, g, c, a, z, x)
  PROVE  \E d, b \in 1 .. Len(s), w, y \in 1 .. Len(t) :
           d < c /\ Astray(s, t, R, T, U, f, g, d, b, w, y)
<1>1. /\ Len(s) \in Nat /\ Len(t) \in Nat
      /\ \A i \in 1 .. Len(s) : s[i] \in Feed!Log /\ s[i].ts \in Nat
      /\ \A i \in 1 .. Len(t) : t[i] \in Feed!Log /\ t[i].ts \in Nat
  BY LogsAre
<1>2. /\ f[a] = c /\ Of(s[a]) \in R /\ s[c].ts < T /\ s[a].ts < U /\ t[z] = s[c]
      /\ t[x] = s[a] /\ (g[x] = 0 \/ g[x] > z) /\ g \in [1 .. Len(t) -> 0 .. Len(t)]
      /\ f \in [1 .. Len(s) -> 0 .. Len(s)]
  BY DEF Astray, Ends
<1>3. a < c /\ IsPre(s[a]) /\ IsPost(s[c]) /\ Feed!Fits(s[a].id, s[c].id)
  BY <1>2 DEF Ends
<1>4. x < z
  BY <1>2, <1>3 DEF SameOrder
<1>5. PICK m \in 1 .. x : g[m] = z
  <2>1. /\ IsPre(t[x]) /\ IsPost(t[z]) /\ Feed!Fits(t[x].id, t[z].id)
        /\ g[x] = 0 \/ g[x] >= z
    BY <1>1, <1>2, <1>3
  <2> QED BY <1>4, <2>1 DEF Ends
<1>6. m \in 1 .. Len(t) /\ m < x
  BY <1>1, <1>2, <1>5
<1>7. IsPre(t[m]) /\ IsPost(t[z]) /\ Feed!Fits(t[m].id, t[z].id)
  BY <1>4, <1>5, <1>6 DEF Ends
<1>8. Of(s[c]) \in R
  BY <1>1, <1>2, <1>3, FitsOf
<1>9. Of(t[m]) \in R
  <2>1. Of(t[z]) \in R
    BY <1>2, <1>8
  <2> QED BY <1>1, <1>6, <1>7, <2>1, FitsOf
<1>10. t[m].ts < U
  <2>1. t[m].ts <= t[x].ts
    BY <1>6 DEF Steady
  <2> QED BY <1>1, <1>2, <1>6, <2>1
<1>11. PICK b \in 1 .. Len(s) : s[b] = t[m]
  BY <1>6, <1>9, <1>10 DEF Carries
<1>12. b < a
  BY <1>2, <1>6, <1>11 DEF SameOrder
<1>13. f[b] # 0 /\ f[b] < c
  <2>1. SUFFICES ASSUME f[b] = 0 \/ f[b] >= c PROVE FALSE
    BY <1>1, <1>2
  <2>2. b < c /\ IsPre(s[b]) /\ Feed!Fits(s[b].id, s[c].id)
    BY <1>1, <1>2, <1>3, <1>7, <1>11, <1>12
  <2>3. PICK i \in 1 .. b : f[i] = c
    BY <1>3, <2>1, <2>2 DEF Ends
  <2>4. i \in 1 .. Len(s) /\ f[i] = f[a] /\ f[i] # 0 /\ i # a
    BY <1>1, <1>2, <1>12, <2>3
  <2> QED BY <2>4, EndsOnce
<1>14. PICK d \in 1 .. Len(s) : d = f[b]
  <2>1. f[b] \in 0 .. Len(s)
    BY <1>2
  <2> QED BY <1>13, <2>1
<1>15. b < d /\ IsPre(s[b]) /\ IsPost(s[d]) /\ Feed!Fits(s[b].id, s[d].id)
  BY <1>13, <1>14 DEF Ends
<1>16. Of(s[b]) \in R /\ Of(s[d]) \in R
  <2>1. Of(s[b]) \in R
    BY <1>9, <1>11
  <2> QED BY <1>1, <1>15, <2>1, FitsOf
<1>17. d < c /\ s[d].ts < T /\ s[b].ts < U
  <2>1. s[d].ts <= s[c].ts
    BY <1>13, <1>14 DEF Steady
  <2> QED BY <1>1, <1>2, <1>10, <1>11, <1>13, <1>14, <2>1
<1>18. PICK w \in 1 .. Len(t) : t[w] = s[d]
  BY <1>16, <1>17 DEF Carries
<1>19. w < z
  BY <1>2, <1>17, <1>18 DEF SameOrder
<1>20. Astray(s, t, R, T, U, f, g, d, b, w, m)
  BY <1>1, <1>5, <1>11, <1>14, <1>16, <1>17, <1>18, <1>19 DEF Astray
<1> QED BY <1>6, <1>17, <1>20

LEMMA JoinedInBoth ==
  ASSUME NEW s \in Seq(Feed!Log), NEW t \in Seq(Feed!Log), Steady(s), Steady(t),
         NEW f, Ends(s, Len(s), f), NEW g, Ends(t, Len(t), g),
         NEW R, Closed(R), SameOrder(s, t), NEW T \in Nat, NEW U \in Nat,
         Carries(s, t, R, T), Carries(t, s, R, U),
         NEW c \in 1 .. Len(s), NEW a \in 1 .. Len(s),
         NEW z \in 1 .. Len(t), NEW x \in 1 .. Len(t),
         f[a] = c, Of(s[a]) \in R, s[c].ts < T, s[a].ts < U, t[z] = s[c], t[x] = s[a]
  PROVE  g[x] \in 1 .. z
<1> DEFINE Bad == {d \in 1 .. Len(s) : \E b \in 1 .. Len(s), w, y \in 1 .. Len(t) :
                     Astray(s, t, R, T, U, f, g, d, b, w, y)}
<1>1. Bad = {}
  <2>1. SUFFICES ASSUME Bad # {} PROVE FALSE
    OBVIOUS
  <2>2. PICK d \in Bad : \A e \in Bad : d <= e
    <3>1. Bad \subseteq Nat
      OBVIOUS
    <3> QED BY <2>1, <3>1, NatMin
  <2>3. PICK b \in 1 .. Len(s), w \in 1 .. Len(t), y \in 1 .. Len(t) :
          Astray(s, t, R, T, U, f, g, d, b, w, y)
    OBVIOUS
  <2>4. \E e, i \in 1 .. Len(s), j, k \in 1 .. Len(t) :
          e < d /\ Astray(s, t, R, T, U, f, g, e, i, j, k)
    BY <2>3, NoneAstray
  <2>5. PICK e \in Bad : e < d
    BY <2>4
  <2>6. d <= e
    BY <2>2, Zenon
  <2>7. d \in 1 .. Len(s) /\ e \in 1 .. Len(s)
    BY Zenon
  <2> HIDE DEF Bad
  <2> QED BY <2>5, <2>6, <2>7
<1>2. ~Astray(s, t, R, T, U, f, g, c, a, z, x)
  BY <1>1
<1>3. g[x] \in 0 .. Len(t)
  BY DEF Ends
<1>4. ~(g[x] = 0 \/ g[x] > z)
  BY <1>2 DEF Astray
<1> QED BY <1>3, <1>4

LEMMA SameItem ==
  ASSUME NEW i \in Feed!Item, NEW j \in Feed!Item, i.id = j.id, i.ts = j.ts, i.upd = j.upd,
         i.status = j.status
  PROVE  i = j
BY DEF Feed!Item

(* Two assemblies that share the sources R, s all that is older than U.    *)
Twins(s, t, R, U) ==
  /\ s \in Seq(Feed!Log) /\ t \in Seq(Feed!Log) /\ Steady(s) /\ Steady(t)
  /\ SameOrder(s, t) /\ SameOrder(t, s) /\ Closed(R) /\ U \in Nat
  /\ Carries(s, t, R, MaxFeedTime + 1) /\ Carries(t, s, R, U)

(* What joined a call in s has joined it in t ...                          *)
LEMMA JoinedLater ==
  ASSUME NEW s, NEW t, NEW R, NEW U, Twins(s, t, R, U),
         NEW f, Ends(s, Len(s), f), NEW g, Ends(t, Len(t), g),
         NEW a \in 1 .. Len(s), NEW x \in 1 .. Len(t), t[x] = s[a],
         Of(s[a]) \in R, s[a].ts < U, f[a] # 0
  PROVE  /\ f[a] \in 1 .. Len(s) /\ Of(s[f[a]]) \in R
         /\ \E z \in 1 .. Len(t) : t[z] = s[f[a]] /\ g[x] \in 1 .. z
<1>1. PICK c \in 1 .. Len(s) : c = f[a]
  <2>1. f \in [1 .. Len(s) -> 0 .. Len(s)] /\ s \in Seq(Feed!Log)
    BY DEF Ends, Twins
  <2>2. f[a] \in 0 .. Len(s) /\ Len(s) \in Nat
    BY <2>1
  <2> QED BY <2>2
<1>2. IsPre(s[a]) /\ IsPost(s[c]) /\ Feed!Fits(s[a].id, s[c].id)
  BY <1>1 DEF Ends
<1>3. s[a] \in Feed!Log /\ s[c] \in Feed!Log /\ MaxFeedTime + 1 \in Nat
  BY FeedAssumption DEF Twins
<1>4. Of(s[c]) \in R
  BY <1>2, <1>3, FitsOf DEF Twins
<1>5. s[c].ts < MaxFeedTime + 1
  <2>1. s[c].ts \in 1 .. MaxFeedTime
    BY <1>3, LogsAre
  <2> QED BY <2>1, FeedAssumption
<1>6. PICK z \in 1 .. Len(t) : t[z] = s[c]
  BY <1>4, <1>5 DEF Twins, Carries
<1>7. g[x] \in 1 .. z
  BY <1>1, <1>3, <1>5, <1>6, JoinedInBoth DEF Twins
<1> QED BY <1>1, <1>4, <1>6, <1>7

(* ... and what has joined it in t by U had joined it in s.                *)
LEMMA JoinedBefore ==
  ASSUME NEW s, NEW t, NEW R, NEW U, Twins(s, t, R, U),
         NEW f, Ends(s, Len(s), f), NEW g, Ends(t, Len(t), g),
         NEW a \in 1 .. Len(s), NEW x \in 1 .. Len(t), t[x] = s[a],
         Of(t[x]) \in R, NEW z \in 1 .. Len(t), g[x] = z, t[z].ts < U
  PROVE  \E c \in 1 .. Len(s) : s[c] = t[z] /\ f[a] \in 1 .. c
<1>1. z # 0 /\ Len(t) \in Nat
  BY DEF Twins
<1>2. IsPre(t[x]) /\ IsPost(t[z]) /\ Feed!Fits(t[x].id, t[z].id)
  BY <1>1 DEF Ends
<1>3. t[x] \in Feed!Log /\ t[z] \in Feed!Log /\ MaxFeedTime + 1 \in Nat
  BY FeedAssumption DEF Twins
<1>4. Of(t[z]) \in R
  BY <1>2, <1>3, FitsOf DEF Twins
<1>5. t[x].ts < MaxFeedTime + 1
  <2>1. t[x].ts \in 1 .. MaxFeedTime
    BY <1>3, LogsAre
  <2> QED BY <2>1, FeedAssumption
<1>6. PICK c \in 1 .. Len(s) : s[c] = t[z]
  BY <1>4 DEF Twins, Carries
<1>7. f[a] \in 1 .. c
  BY <1>3, <1>5, <1>6, JoinedInBoth DEF Twins
<1> QED BY <1>6, <1>7

(* An item of t that last changed before U is one of s.                    *)
LEMMA EntryKept ==
  ASSUME NEW s, NEW t, NEW R, NEW U, Twins(s, t, R, U),
         NEW f, NEW p, Assembles(s, Len(s), f, p), NEW g, NEW q, Assembles(t, Len(t), g, q),
         NEW x \in 1 .. Len(t), Of(t[x]) \in R, q[x].status # "joined", q[x].upd < U
  PROVE  \E a \in 1 .. Len(s) : p[a] = q[x]
<1>1. /\ Len(s) \in Nat /\ Len(t) \in Nat
      /\ \A i \in 1 .. Len(s) : s[i] \in Feed!Log /\ s[i].ts \in Nat
      /\ \A i \in 1 .. Len(t) : t[i] \in Feed!Log /\ t[i].ts \in Nat
  BY LogsAre DEF Twins
<1>2. Ends(s, Len(s), f) /\ Ends(t, Len(t), g) /\ EntryIs(t, Len(t), g, x, q[x])
  BY DEF Assembles
<1>3. /\ f \in [1 .. Len(s) -> 0 .. Len(s)] /\ g \in [1 .. Len(t) -> 0 .. Len(t)]
  BY <1>2 DEF Ends
<1>0. Steady(s) /\ Steady(t)
  BY DEF Twins
<1>4. t[x].ts < U
  <2>1. CASE IsPre(t[x]) /\ g[x] # 0
    <3>1. g[x] \in 1 .. Len(t) /\ x < g[x]
      BY <1>2, <1>3, <2>1 DEF Ends
    <3>2. t[x].ts <= t[g[x]].ts
      BY <1>0, <3>1 DEF Steady
    <3>3. q[x].upd = t[g[x]].ts
      BY <1>2, <2>1 DEF EntryIs
    <3> QED BY <1>1, <3>1, <3>2, <3>3 DEF Twins
  <2>2. CASE ~(IsPre(t[x]) /\ g[x] # 0)
    <3>1. t[x] \in Feed!Log
      BY <1>1
    <3>2. IsPre(t[x]) \/ IsPost(t[x]) \/ IsPrompt(t[x])
      BY <3>1, LogsAre
    <3>3. q[x].upd = t[x].ts
      BY <1>2, <2>2, <3>2 DEF EntryIs
    <3> QED BY <3>3
  <2> QED BY <2>1, <2>2
<1>5. PICK a \in 1 .. Len(s) : s[a] = t[x]
  BY <1>4 DEF Twins, Carries
<1>6. EntryIs(s, Len(s), f, a, p[a])
  BY DEF Assembles
<1>7. p[a] \in Feed!Item /\ q[x] \in Feed!Item /\ p[a].id = q[x].id /\ p[a].ts = q[x].ts
  BY <1>2, <1>5, <1>6 DEF EntryIs
<1>8. t[x] \in Feed!Log /\ s[a] \in Feed!Log /\ Of(s[a]) \in R /\ s[a].ts < U
  BY <1>1, <1>4, <1>5
<1>9. CASE IsPrompt(t[x])
  <2>1. p[a].upd = q[x].upd /\ p[a].status = q[x].status
    BY <1>2, <1>5, <1>6, <1>9 DEF EntryIs
  <2> QED BY <1>7, <2>1, SameItem
<1>10. CASE IsPre(t[x]) /\ g[x] = 0
  <2>1. f[a] = 0
    <3>1. SUFFICES ASSUME f[a] # 0 PROVE FALSE
      OBVIOUS
    <3>2. \E z \in 1 .. Len(t) : g[x] \in 1 .. z
      BY <1>2, <1>5, <1>8, <3>1, JoinedLater
    <3> QED BY <1>10, <3>2
  <2>2. p[a].upd = q[x].upd /\ p[a].status = q[x].status
    BY <1>2, <1>5, <1>6, <1>10, <2>1 DEF EntryIs
  <2> QED BY <1>7, <2>2, SameItem
<1>11. CASE IsPre(t[x]) /\ g[x] # 0
  <2>1. PICK z \in 1 .. Len(t) : z = g[x]
    BY <1>1, <1>3, <1>11
  <2>2. q[x].upd = t[z].ts /\ q[x].status = "completed"
    BY <1>2, <1>11, <2>1 DEF EntryIs
  <2>3. t[z].ts < U
    BY <2>2
  <2>4. PICK c \in 1 .. Len(s) : s[c] = t[z] /\ f[a] \in 1 .. c
    BY <1>2, <1>5, <2>1, <2>3, JoinedBefore
  <2>5. f[a] # 0
    BY <2>4
  <2>6. PICK d \in 1 .. Len(s) : d = f[a]
    BY <2>4
  <2>7. PICK w \in 1 .. Len(t) : t[w] = s[d] /\ g[x] \in 1 .. w
    BY <1>2, <1>5, <1>8, <2>5, <2>6, JoinedLater
  <2>8. ~(d < c)
    <3>1. d < c <=> w < z
      BY <2>4, <2>7 DEF Twins, SameOrder
    <3> QED BY <2>1, <2>7, <3>1
  <2>9. d = c
    BY <2>4, <2>6, <2>8
  <2>10. p[a].upd = s[d].ts /\ p[a].status = "completed"
    BY <1>5, <1>6, <1>11, <2>5, <2>6 DEF EntryIs
  <2> QED BY <1>7, <2>2, <2>4, <2>9, <2>10, SameItem
<1>12. CASE IsPost(t[x])
  <2>1. ~\E m \in 1 .. Len(t) : g[m] = x
    BY <1>2, <1>12 DEF EntryIs
  <2>2. ~\E m \in 1 .. Len(s) : f[m] = a
    <3>1. SUFFICES ASSUME NEW m \in 1 .. Len(s), f[m] = a PROVE FALSE
      OBVIOUS
    <3>2. f[m] # 0 /\ m < a /\ IsPre(s[m]) /\ IsPost(s[a]) /\ Feed!Fits(s[m].id, s[a].id)
      BY <1>2, <3>1 DEF Ends
    <3>3. Of(s[m]) \in R
      BY <1>1, <1>8, <3>2, FitsOf DEF Twins
    <3>4. s[m].ts <= s[a].ts /\ s[m].ts < U /\ s[m].ts < MaxFeedTime + 1
      <4>1. s[m].ts <= s[a].ts
        BY <1>0, <3>2 DEF Steady
      <4>2. s[m].ts \in 1 .. MaxFeedTime
        BY <1>1, LogsAre
      <4> QED BY <1>1, <1>8, <4>1, <4>2, FeedAssumption DEF Twins
    <3>5. PICK y \in 1 .. Len(t) : t[y] = s[m]
      BY <3>3, <3>4 DEF Twins, Carries
    <3>6. PICK z \in 1 .. Len(t) : t[z] = s[a] /\ g[y] \in 1 .. z
      BY <1>2, <3>1, <3>2, <3>3, <3>4, <3>5, JoinedLater
    <3>7. z = x
      BY <1>5, <3>6 DEF Twins, SameOrder
    <3>8. PICK d \in 1 .. Len(t) : d = g[y] /\ d < x
      BY <2>1, <3>6, <3>7
    <3>9. t[d].ts < U
      <4>1. t[d].ts <= t[x].ts
        BY <1>0, <3>8 DEF Steady
      <4>2. U \in Nat
        BY DEF Twins
      <4>3. t[d].ts \in Nat /\ t[x].ts \in Nat
        BY <1>1, <3>8
      <4> QED BY <1>4, <4>1, <4>2, <4>3
    <3>10. Of(t[y]) \in R
      BY <3>3, <3>5
    <3>11. PICK e \in 1 .. Len(s) : s[e] = t[d] /\ f[m] \in 1 .. e
      BY <1>2, <3>5, <3>8, <3>9, <3>10, JoinedBefore
    <3>12. e < a
      BY <1>5, <3>8, <3>11 DEF Twins, SameOrder
    <3> QED BY <3>1, <3>11, <3>12
  <2>3. IsPost(s[a])
    BY <1>5, <1>12
  <2>4. p[a].upd = q[x].upd /\ p[a].status = q[x].status
    BY <1>2, <1>5, <1>6, <1>12, <2>1, <2>2, <2>3 DEF EntryIs
  <2> QED BY <1>7, <2>4, SameItem
<1> QED BY <1>8, <1>9, <1>10, <1>11, <1>12, LogsAre

-----------------------------------------------------------------------------
(* The order of the logs, and the window: among the logs I the rank of one *)
(* is the number of those that are older.                                  *)
LEMMA IntervalIs ==
  ASSUME NEW n \in Nat
  PROVE  /\ IsFiniteSet(1 .. n) /\ Cardinality(1 .. n) = n
         /\ IsFiniteSet(0 .. n - 1) /\ Cardinality(0 .. n - 1) = n
<1>1. \A a, b \in Int : /\ IsFiniteSet(a .. b)
                         /\ Cardinality(a .. b) = IF a > b THEN 0 ELSE b - a + 1
  BY FS_Interval
<1>2. Cardinality(1 .. n) = (IF 1 > n THEN 0 ELSE n - 1 + 1) /\ IsFiniteSet(1 .. n)
  BY <1>1
<1>3. n - 1 \in Int /\ 0 \in Int
  OBVIOUS
<1>4. /\ Cardinality(0 .. n - 1) = (IF 0 > n - 1 THEN 0 ELSE n - 1 - 0 + 1)
      /\ IsFiniteSet(0 .. n - 1)
  BY <1>1, <1>3
<1> QED BY <1>2, <1>4

LEMMA NewerOrders ==
  ASSUME NEW w \in Seq(Feed!Log)
  PROVE  /\ \A i \in 1 .. Len(w) : ~Feed!Newer(w, i, i)
         /\ \A i, j \in 1 .. Len(w) : i # j => Feed!Newer(w, i, j) \/ Feed!Newer(w, j, i)
         /\ \A i, j \in 1 .. Len(w) : Feed!Newer(w, i, j) => ~Feed!Newer(w, j, i)
         /\ \A i, j, k \in 1 .. Len(w) :
              Feed!Newer(w, i, j) /\ Feed!Newer(w, j, k) => Feed!Newer(w, i, k)
         /\ \A i, j \in 1 .. Len(w) : Feed!Newer(w, i, j) => w[j].ts <= w[i].ts
<1>1. \A i \in 1 .. Len(w) : w[i].ts \in Nat /\ i \in Nat
  BY LogsAre
<1> QED BY <1>1 DEF Feed!Newer

Olders(w, I, i) == {j \in I : Feed!Newer(w, i, j)}
Rank(w, I, i) == Feed!Cardinality(Olders(w, I, i))

LEMMA RankIs ==
  ASSUME NEW w, NEW I, NEW i PROVE Rank(w, I, i) = Cardinality(Olders(w, I, i))
  BY FeedCardinality DEF Rank

LEMMA RanksAre ==
  ASSUME NEW w \in Seq(Feed!Log), NEW I \in SUBSET (1 .. Len(w))
  PROVE  /\ IsFiniteSet(I) /\ Cardinality(I) \in Nat
         /\ \A i \in I : Rank(w, I, i) \in 0 .. Cardinality(I) - 1
         /\ \A i, j \in I : Feed!Newer(w, j, i) => Rank(w, I, i) < Rank(w, I, j)
         /\ \A i, j \in I : i # j => Rank(w, I, i) # Rank(w, I, j)
<1>1. IsFiniteSet(I) /\ Cardinality(I) \in Nat
  <2>1. IsFiniteSet(1 .. Len(w))
    BY IntervalIs
  <2> QED BY <2>1, FS_Subset, FS_CardinalityType
<1>2. \A i \in I : /\ Olders(w, I, i) \in SUBSET I /\ i \notin Olders(w, I, i)
                   /\ IsFiniteSet(Olders(w, I, i)) /\ Rank(w, I, i) \in Nat
  <2> TAKE i \in I
  <2>1. Olders(w, I, i) \in SUBSET I /\ i \notin Olders(w, I, i)
    BY NewerOrders DEF Olders
  <2>2. IsFiniteSet(Olders(w, I, i))
    BY <1>1, <2>1, FS_Subset
  <2> QED BY <2>1, <2>2, FS_CardinalityType, RankIs
<1>3. ASSUME NEW i \in I PROVE Rank(w, I, i) \in 0 .. Cardinality(I) - 1
  <2>1. Olders(w, I, i) \in SUBSET I /\ Olders(w, I, i) # I
    BY <1>2
  <2>2. Rank(w, I, i) <= Cardinality(I) /\ Rank(w, I, i) # Cardinality(I)
    BY <1>1, <2>1, FS_Subset, RankIs
  <2> QED BY <1>1, <1>2, <2>2
<1>4. ASSUME NEW i \in I, NEW j \in I, Feed!Newer(w, j, i)
      PROVE  Rank(w, I, i) < Rank(w, I, j)
  <2>1. i \in Olders(w, I, j)
    BY <1>4 DEF Olders
  <2>2. Olders(w, I, i) \in SUBSET Olders(w, I, j)
    <3>1. \A k \in I : Feed!Newer(w, i, k) => Feed!Newer(w, j, k)
      BY <1>4, NewerOrders
    <3> QED BY <3>1 DEF Olders
  <2>3. Olders(w, I, i) # Olders(w, I, j)
    BY <1>2, <2>1
  <2>4. Rank(w, I, i) <= Rank(w, I, j) /\ Rank(w, I, i) # Rank(w, I, j)
    BY <1>2, <2>2, <2>3, FS_Subset, RankIs
  <2> QED BY <1>2, <2>4
<1>5. ASSUME NEW i \in I, NEW j \in I, i # j PROVE Rank(w, I, i) # Rank(w, I, j)
  <2>1. Feed!Newer(w, i, j) \/ Feed!Newer(w, j, i)
    BY <1>5, NewerOrders
  <2>2. Rank(w, I, i) < Rank(w, I, j) \/ Rank(w, I, j) < Rank(w, I, i)
    BY <1>4, <2>1
  <2> QED BY <1>2, <2>2
<1> QED BY <1>1, <1>3, <1>4, <1>5

LEMMA RanksTaken ==
  ASSUME NEW w \in Seq(Feed!Log), NEW I \in SUBSET (1 .. Len(w)), NEW k \in 1 .. Cardinality(I)
  PROVE  \E i \in I : Rank(w, I, i) = k - 1
<1> SUFFICES ASSUME \A i \in I : Rank(w, I, i) # k - 1 PROVE FALSE
  OBVIOUS
<1> DEFINE n == Cardinality(I)
           T == 0 .. n - 1
<1>1. /\ n \in Nat /\ IsFiniteSet(I) /\ IsFiniteSet(T) /\ Cardinality(T) = n
  BY RanksAre, IntervalIs
<1>2. IsFiniteSet(T \ {k - 1}) /\ Cardinality(T \ {k - 1}) = n - 1
  <2>1. PICK U, x : U = T /\ x = k - 1
    OBVIOUS
  <2>2. x \in U /\ IsFiniteSet(U) /\ Cardinality(U) = n
    BY <1>1, <2>1
  <2>3. IsFiniteSet(U \ {x}) /\ Cardinality(U \ {x}) = n - 1
    BY <2>2, FS_RemoveElement
  <2> QED BY <2>1, <2>3
<1>3. PICK f : f = [i \in I |-> Rank(w, I, i)]
  OBVIOUS
<1>4. f \in [I -> T \ {k - 1}]
  BY <1>3, RanksAre
<1>5. Cardinality(T \ {k - 1}) < Cardinality(I)
  BY <1>1, <1>2
<1>6. \E i, j \in I : i # j /\ f[i] = f[j]
  BY <1>1, <1>2, <1>4, <1>5, FS_PigeonHole
<1> QED BY <1>3, <1>6, RanksAre

(* The logs in order: where each comes from.                               *)
Places(w, I, m) ==
  /\ m \in [1 .. Cardinality(I) -> I] /\ Cardinality(I) \in Nat
  /\ \A k \in 1 .. Cardinality(I) : Feed!Chronological(w, I)[k] = w[m[k]]
  /\ \A k, l \in 1 .. Cardinality(I) : k < l <=> Feed!Newer(w, m[l], m[k])
  /\ \A i \in I : \E k \in 1 .. Cardinality(I) : m[k] = i

LEMMA ChronologicalIs ==
  ASSUME NEW w \in Seq(Feed!Log), NEW I \in SUBSET (1 .. Len(w))
  PROVE  /\ Feed!Chronological(w, I) \in Seq(Feed!Log) /\ Len(Feed!Chronological(w, I)) = Cardinality(I)
         /\ \E m : Places(w, I, m)
<1> DEFINE n == Cardinality(I)
           at(k) == CHOOSE i \in I : Rank(w, I, i) = k - 1
           m == [k \in 1 .. n |-> at(k)]
<1>1. DOMAIN w = 1 .. Len(w) /\ n \in Nat /\ \A i \in I : w[i] \in Feed!Log
  BY RanksAre
<1>2. \A k \in 1 .. n : at(k) \in I /\ Rank(w, I, at(k)) = k - 1
  BY RanksTaken
<1>3. Feed!Chronological(w, I) = [k \in 1 .. n |-> w[at(k)]]
  <2>1. Feed!Chronological(w, I) = [k \in 1 .. Feed!Cardinality(I) |-> w[at(k)]]
    BY DEF Feed!Chronological, Rank, Olders
  <2> QED BY <2>1, FeedCardinality
<1> HIDE DEF at
<1>4. m \in [1 .. n -> I] /\ \A k \in 1 .. n : m[k] = at(k)
  BY <1>2
<1>5. \A k \in 1 .. n : Feed!Chronological(w, I)[k] = w[m[k]]
  BY <1>3, <1>4
<1>6. Feed!Chronological(w, I) \in Seq(Feed!Log) /\ Len(Feed!Chronological(w, I)) = n
  <2>1. PICK c : c = Feed!Chronological(w, I)
    OBVIOUS
  <2>2. \A k \in 1 .. n : w[at(k)] \in Feed!Log
    BY <1>1, <1>2
  <2>3. c \in [1 .. n -> Feed!Log]
    BY <1>3, <2>1, <2>2
  <2>4. c \in Seq(Feed!Log) /\ Len(c) = n
    BY <1>1, <2>3
  <2> QED BY <2>1, <2>4
<1>7. ASSUME NEW k \in 1 .. n, NEW l \in 1 .. n PROVE k < l <=> Feed!Newer(w, m[l], m[k])
  <2>1. m[k] = at(k) /\ m[l] = at(l) /\ at(k) \in I /\ at(l) \in I
    BY <1>2, <1>4
  <2>2. Rank(w, I, at(k)) = k - 1 /\ Rank(w, I, at(l)) = l - 1
    BY <1>2
  <2>3. Feed!Newer(w, at(l), at(k)) => Rank(w, I, at(k)) < Rank(w, I, at(l))
    BY <2>1, RanksAre
  <2>4. Feed!Newer(w, at(k), at(l)) => Rank(w, I, at(l)) < Rank(w, I, at(k))
    BY <2>1, RanksAre
  <2>5. k < l => Feed!Newer(w, at(l), at(k))
    <3>1. SUFFICES ASSUME k < l PROVE Feed!Newer(w, at(l), at(k))
      OBVIOUS
    <3>2. at(k) # at(l)
      BY <2>2, <3>1
    <3>3. Feed!Newer(w, at(l), at(k)) \/ Feed!Newer(w, at(k), at(l))
      BY <2>1, <3>2, NewerOrders
    <3> QED BY <2>2, <2>4, <3>1, <3>3
  <2> QED BY <2>1, <2>2, <2>3, <2>5
<1>8. ASSUME NEW i \in I PROVE \E k \in 1 .. n : m[k] = i
  <2>1. PICK k \in 1 .. n : k = Rank(w, I, i) + 1
    BY <1>1, RanksAre
  <2>2. Rank(w, I, at(k)) = Rank(w, I, i) /\ at(k) \in I
    <3>1. Rank(w, I, i) \in Nat
      BY <1>1, RanksAre
    <3> QED BY <1>2, <2>1, <3>1
  <2>3. at(k) = i
    BY <2>2, RanksAre
  <2> QED BY <1>4, <2>3
<1> HIDE DEF m
<1>9. Places(w, I, m)
  BY <1>1, <1>4, <1>5, <1>7, <1>8 DEF Places
<1> QED BY <1>6, <1>9

-----------------------------------------------------------------------------
(* The first k logs, as they were when these were all.                     *)
Prefix(w, k) == SubSeq(w, 1, k)

LEMMA PrefixIs ==
  ASSUME NEW w \in Seq(Feed!Log), NEW k \in 0 .. Len(w)
  PROVE  /\ Prefix(w, k) \in Seq(Feed!Log) /\ Len(Prefix(w, k)) = k
         /\ DOMAIN Prefix(w, k) = 1 .. k
         /\ \A i \in 1 .. k : Prefix(w, k)[i] = w[i] /\ i \in 1 .. Len(w) /\ w[i] \in Feed!Log
         /\ \A i, j \in 1 .. k : Feed!Newer(Prefix(w, k), i, j) <=> Feed!Newer(w, i, j)
<1>1. k \in Nat /\ k <= Len(w)
  OBVIOUS
<1>2. /\ Prefix(w, k) \in Seq(Feed!Log) /\ Len(Prefix(w, k)) = k
      /\ DOMAIN Prefix(w, k) = 1 .. k
      /\ \A i \in 1 .. k : Prefix(w, k)[i] = w[i] /\ i \in 1 .. Len(w) /\ w[i] \in Feed!Log
  BY <1>1 DEF Prefix
<1>3. \A i, j \in 1 .. k : Feed!Newer(Prefix(w, k), i, j) <=> Feed!Newer(w, i, j)
  BY <1>2 DEF Feed!Newer
<1> QED BY <1>2, <1>3

Seen(w) == Feed!Newest(w, Window)

LEMMA WindowIs ==
  ASSUME NEW w \in Seq(Feed!Log)
  PROVE  /\ Seen(w) \in SUBSET (1 .. Len(w))
         /\ \A i \in 1 .. Len(w) :
              i \in Seen(w) <=> Cardinality({j \in 1 .. Len(w) : Feed!Newer(w, j, i)}) < Window
<1>1. DOMAIN w = 1 .. Len(w)
  OBVIOUS
<1>2. \A i : {j \in DOMAIN w : Feed!Newer(w, j, i)} = {j \in 1 .. Len(w) : Feed!Newer(w, j, i)}
  BY <1>1
<1>3. \A i \in 1 .. Len(w) : i \in Seen(w) <=>
        Feed!Cardinality({j \in 1 .. Len(w) : Feed!Newer(w, j, i)}) < Window
  BY <1>1, <1>2 DEF Seen, Feed!Newest
<1>4. Seen(w) \in SUBSET (1 .. Len(w))
  BY <1>1 DEF Seen, Feed!Newest
<1> QED BY <1>3, <1>4, FeedCardinality

(* What the window still holds it held before.                             *)
LEMMA WindowBefore ==
  ASSUME NEW w \in Seq(Feed!Log), NEW u \in 0 .. Len(w), NEW k \in 0 .. u,
         NEW i \in 1 .. k, i \in Seen(Prefix(w, u))
  PROVE  i \in Seen(Prefix(w, k))
<1>1. k \in 0 .. Len(w) /\ i \in 1 .. u /\ u \in Nat /\ k \in Nat
  OBVIOUS
<1> DEFINE A == {j \in 1 .. k : Feed!Newer(Prefix(w, k), j, i)}
           B == {j \in 1 .. u : Feed!Newer(Prefix(w, u), j, i)}
<1>2. Cardinality(B) < Window
  <2>1. Prefix(w, u) \in Seq(Feed!Log) /\ Len(Prefix(w, u)) = u
    BY PrefixIs
  <2> QED BY <1>1, <2>1, WindowIs
<1>3. A \in SUBSET B
  <2>1. ASSUME NEW j \in A PROVE j \in B
    <3>1. j \in 1 .. k /\ j \in 1 .. u /\ Feed!Newer(w, j, i)
      BY <1>1, PrefixIs
    <3> QED BY <1>1, <3>1, PrefixIs
  <2> QED BY <2>1
<1>4. IsFiniteSet(B)
  <2>1. IsFiniteSet(1 .. u) /\ B \in SUBSET (1 .. u)
    BY <1>1, IntervalIs
  <2> QED BY <2>1, FS_Subset
<1>5. Cardinality(A) <= Cardinality(B) /\ Cardinality(A) \in Nat /\ Cardinality(B) \in Nat
  BY <1>3, <1>4, FS_Subset, FS_CardinalityType
<1>6. Cardinality(A) < Window
  BY <1>2, <1>5, FeedAssumption
<1>7. Prefix(w, k) \in Seq(Feed!Log) /\ Len(Prefix(w, k)) = k
  BY <1>1, PrefixIs
<1> QED BY <1>6, <1>7, WindowIs

(* The newest log is in the window.                                        *)
LEMMA NewestHeld ==
  ASSUME NEW w \in Seq(Feed!Log), Len(w) # 0
  PROVE  \E i \in Seen(w) : \A j \in 1 .. Len(w) : j # i => Feed!Newer(w, i, j)
<1> DEFINE I == 1 .. Len(w)
<1>1. I \in SUBSET (1 .. Len(w)) /\ Cardinality(I) = Len(w) /\ Len(w) \in 1 .. Len(w)
  BY IntervalIs
<1>2. PICK m : Places(w, I, m)
  BY <1>1, ChronologicalIs
<1>3. PICK n : n = Len(w)
  OBVIOUS
<1>4. PICK i \in 1 .. Len(w) : i = m[n]
  BY <1>1, <1>2, <1>3 DEF Places
<1>5. \A j \in 1 .. Len(w) : j # i => Feed!Newer(w, i, j)
  <2> SUFFICES ASSUME NEW j \in 1 .. Len(w), j # i PROVE Feed!Newer(w, i, j)
    OBVIOUS
  <2>1. PICK k \in 1 .. n : m[k] = j
    BY <1>1, <1>2, <1>3 DEF Places
  <2>2. k # n /\ k < n /\ n \in 1 .. n
    BY <1>1, <1>3, <1>4, <2>1
  <2> QED BY <1>1, <1>2, <1>3, <1>4, <2>1, <2>2 DEF Places
<1>6. {j \in 1 .. Len(w) : Feed!Newer(w, j, i)} = {}
  <2>1. ASSUME NEW j \in 1 .. Len(w), Feed!Newer(w, j, i) PROVE FALSE
    <3>1. j # i
      BY <2>1, NewerOrders
    <3>2. Feed!Newer(w, i, j)
      BY <1>5, <3>1
    <3> QED BY <2>1, <3>2, NewerOrders
  <2> QED BY <2>1
<1>7. Cardinality({j \in 1 .. Len(w) : Feed!Newer(w, j, i)}) < Window
  <2>1. PICK B : B = {j \in 1 .. Len(w) : Feed!Newer(w, j, i)}
    OBVIOUS
  <2>2. B = {}
    BY <1>6, <2>1
  <2>3. Cardinality(B) = 0
    BY <2>2, FS_EmptySet
  <2>4. Cardinality(B) < Window
    BY <2>3, FeedAssumption
  <2> QED BY <2>1, <2>4
<1>8. i \in Seen(w)
  BY <1>7, WindowIs
<1> QED BY <1>5, <1>8

-----------------------------------------------------------------------------
(* The logs the window shows, in order, and their assembly.                *)
Shown(w) == Feed!Chronological(w, Seen(w))

Shows(w, m, ends) ==
  /\ Places(w, Seen(w), m) /\ Assembles(Shown(w), Len(Shown(w)), ends, Feed!Assembled(Shown(w)))
  /\ Shown(w) \in Seq(Feed!Log) /\ Len(Shown(w)) = Cardinality(Seen(w))
  /\ m \in [1 .. Len(Shown(w)) -> 1 .. Len(w)]
  /\ \A k \in 1 .. Len(Shown(w)) : m[k] \in Seen(w) /\ Shown(w)[k] = w[m[k]]
  /\ Steady(Shown(w))

LEMMA ShowsSome ==
  ASSUME NEW w \in Seq(Feed!Log)
  PROVE  \E m, ends : Shows(w, m, ends)
<1>1. Seen(w) \in SUBSET (1 .. Len(w))
  BY WindowIs
<1>2. /\ Shown(w) \in Seq(Feed!Log) /\ Len(Shown(w)) = Cardinality(Seen(w))
      /\ \E m : Places(w, Seen(w), m)
  BY <1>1, ChronologicalIs DEF Shown
<1>3. PICK m : Places(w, Seen(w), m)
  BY <1>2
<1>4. PICK ends : Assembles(Shown(w), Len(Shown(w)), ends, Feed!Assembled(Shown(w)))
  BY <1>2, AssembledIs
<1>5. /\ m \in [1 .. Len(Shown(w)) -> Seen(w)]
      /\ \A k \in 1 .. Len(Shown(w)) : m[k] \in Seen(w) /\ Shown(w)[k] = w[m[k]]
  BY <1>2, <1>3 DEF Places, Shown
<1>6. m \in [1 .. Len(Shown(w)) -> 1 .. Len(w)]
  BY <1>1, <1>5
<1>7. Steady(Shown(w))
  <2> SUFFICES ASSUME NEW a \in 1 .. Len(Shown(w)), NEW b \in 1 .. Len(Shown(w)), a <= b
               PROVE  Shown(w)[a].ts <= Shown(w)[b].ts
    BY DEF Steady
  <2>1. m[a] \in 1 .. Len(w) /\ m[b] \in 1 .. Len(w)
    BY <1>6
  <2>2. Shown(w)[a] = w[m[a]] /\ Shown(w)[b] = w[m[b]]
    BY <1>5
  <2>3. CASE a = b
    <3>1. w[m[a]] \in Feed!Log
      BY <2>1
    <3>2. w[m[a]].ts \in Nat
      BY <3>1, LogsAre
    <3> QED BY <2>2, <2>3, <3>2
  <2>4. CASE a # b
    <3>1. a < b
      BY <2>4
    <3>2. Feed!Newer(w, m[b], m[a])
      BY <1>2, <1>3, <3>1 DEF Places
    <3> QED BY <2>1, <2>2, <3>2, NewerOrders
  <2> QED BY <2>3, <2>4
<1> QED BY <1>2, <1>3, <1>4, <1>5, <1>6, <1>7 DEF Shows

LEMMA ActivityIs ==
  ASSUME NEW w \in Seq(Feed!Log), NEW m, NEW ends, Shows(w, m, ends)
  PROVE  /\ \A x \in 1 .. Len(Shown(w)) : Feed!Assembled(Shown(w))[x].status # "joined" =>
                Feed!Assembled(Shown(w))[x] \in Feed!Activity(w)
         /\ \A i \in Feed!Activity(w) : /\ i \in Feed!Item
              /\ \E x \in 1 .. Len(Shown(w)) : /\ Feed!Assembled(Shown(w))[x] = i
                                              /\ i.status # "joined"
                                              /\ i.id = Shown(w)[x].id
                                              /\ i.ts = Shown(w)[x].ts
<1>1. PICK q, s : q = Feed!Assembled(Shown(w)) /\ s = Shown(w)
  OBVIOUS
<1>2. Assembles(s, Len(s), ends, q)
  BY <1>1 DEF Shows
<1>3. q \in Seq(Feed!Item) /\ DOMAIN q = 1 .. Len(s) /\ \A x \in 1 .. Len(s) : q[x] \in Feed!Item
  <2>1. q \in Seq(Feed!Item) /\ Len(q) = Len(s)
    BY <1>2 DEF Assembles
  <2> QED BY <2>1
<1>4. Feed!Activity(w) = {i \in Feed!Range(q) : i.status # "joined"}
  BY <1>1 DEF Feed!Activity, Shown, Seen
<1>5. Feed!Range(q) = {q[x] : x \in 1 .. Len(s)}
  BY <1>3 DEF Feed!Range
<1>6. \A x \in 1 .. Len(s) : q[x].id = s[x].id /\ q[x].ts = s[x].ts
  BY <1>2 DEF Assembles, EntryIs
<1>7. \A x \in 1 .. Len(s) : q[x].status # "joined" => q[x] \in Feed!Activity(w)
  BY <1>4, <1>5
<1>8. ASSUME NEW i \in Feed!Activity(w)
      PROVE  i \in Feed!Item /\ \E x \in 1 .. Len(s) : /\ q[x] = i /\ i.status # "joined"
                                                /\ i.id = s[x].id /\ i.ts = s[x].ts
  <2>1. PICK x \in 1 .. Len(s) : q[x] = i
    BY <1>4, <1>5
  <2>2. i.status # "joined"
    BY <1>4
  <2> QED BY <1>3, <1>6, <2>1, <2>2
<1> QED BY <1>1, <1>7, <1>8

(* The last log shown is the newest there is.                              *)
LEMMA LastShown ==
  ASSUME NEW w \in Seq(Feed!Log), Len(w) # 0, NEW m, NEW ends, Shows(w, m, ends)
  PROVE  /\ Len(Shown(w)) \in 1 .. Len(Shown(w)) /\ m[Len(Shown(w))] \in 1 .. Len(w)
         /\ \A j \in 1 .. Len(w) : w[j].ts <= Shown(w)[Len(Shown(w))].ts
<1>1. PICK n : n = Len(Shown(w))
  OBVIOUS
<1>2. n \in Nat /\ m \in [1 .. n -> 1 .. Len(w)] /\ Places(w, Seen(w), m)
      /\ n = Cardinality(Seen(w))
  BY <1>1 DEF Shows
<1>3. PICK i \in Seen(w) : \A j \in 1 .. Len(w) : j # i => Feed!Newer(w, i, j)
  BY NewestHeld
<1>4. i \in 1 .. Len(w)
  BY WindowIs
<1>5. PICK k \in 1 .. n : m[k] = i
  BY <1>2 DEF Places
<1>6. n \in 1 .. n /\ m[n] \in 1 .. Len(w)
  BY <1>2, <1>5
<1>7. m[n] = i
  <2>1. SUFFICES ASSUME m[n] # i PROVE FALSE
    OBVIOUS
  <2>2. k < n
    BY <1>2, <1>5, <2>1
  <2>3. Feed!Newer(w, m[n], i)
    BY <1>2, <1>5, <1>6, <2>2 DEF Places
  <2>4. Feed!Newer(w, i, m[n])
    BY <1>3, <1>6, <2>1
  <2> QED BY <1>4, <1>6, <2>3, <2>4, NewerOrders
<1>8. Shown(w)[n] = w[i]
  BY <1>1, <1>6, <1>7 DEF Shows
<1>9. ASSUME NEW j \in 1 .. Len(w) PROVE w[j].ts <= w[i].ts
  <2>1. CASE j = i
    <3>1. w[i] \in Feed!Log
      BY <1>4
    <3>2. w[i].ts \in Nat
      BY <3>1, LogsAre
    <3> QED BY <2>1, <3>2
  <2>2. CASE j # i
    BY <1>3, <1>4, <2>2, NewerOrders
  <2> QED BY <2>1, <2>2
<1> QED BY <1>1, <1>6, <1>8, <1>9

(* The cursor is the instant of the newest log, and no item is newer.      *)
LEMMA UpdatesBounded ==
  ASSUME NEW w \in Seq(Feed!Log), Len(w) # 0, NEW i \in Feed!Activity(w)
  PROVE  /\ i \in Feed!Item /\ i.upd \in Nat /\ \E j \in 1 .. Len(w) : i.upd = w[j].ts
<1>1. PICK m, ends : Shows(w, m, ends)
  BY ShowsSome
<1>2. PICK s, q : s = Shown(w) /\ q = Feed!Assembled(Shown(w))
  OBVIOUS
<1>3. /\ i \in Feed!Item
      /\ \E x \in 1 .. Len(s) : q[x] = i
  BY <1>1, <1>2, ActivityIs
<1>4. PICK x \in 1 .. Len(s) : q[x] = i
  BY <1>3
<1>5. Assembles(s, Len(s), ends, q) /\ s \in Seq(Feed!Log)
  BY <1>1, <1>2 DEF Shows
<1>6. EntryIs(s, Len(s), ends, x, i)
  BY <1>4, <1>5 DEF Assembles
<1>7. \E y \in 1 .. Len(s) : i.upd = s[y].ts
  <2>1. CASE IsPre(s[x]) /\ ends[x] # 0
    <3>1. ends \in [1 .. Len(s) -> 0 .. Len(s)] /\ Len(s) \in Nat
      BY <1>5 DEF Assembles, Ends
    <3>2. ends[x] \in 1 .. Len(s)
      BY <2>1, <3>1
    <3>3. i.upd = s[ends[x]].ts
      BY <1>6, <2>1 DEF EntryIs
    <3> QED BY <3>2, <3>3
  <2>2. CASE ~(IsPre(s[x]) /\ ends[x] # 0)
    <3>1. s[x] \in Feed!Log
      BY <1>5
    <3>2. IsPre(s[x]) \/ IsPost(s[x]) \/ IsPrompt(s[x])
      BY <3>1, LogsAre
    <3>3. i.upd = s[x].ts
      BY <1>6, <2>2, <3>2 DEF EntryIs
    <3> QED BY <3>3
  <2> QED BY <2>1, <2>2
<1>8. PICK y \in 1 .. Len(s) : i.upd = s[y].ts
  BY <1>7
<1>9. m[y] \in 1 .. Len(w) /\ s[y] = w[m[y]]
  BY <1>1, <1>2 DEF Shows
<1>10. s[y].ts \in Nat
  <2>1. s[y] \in Feed!Log
    BY <1>5
  <2> QED BY <2>1, LogsAre
<1> QED BY <1>3, <1>8, <1>9, <1>10

LEMMA LastChange ==
  ASSUME NEW w \in Seq(Feed!Log), Len(w) # 0
  PROVE  \E j \in 1 .. Len(w) : /\ \A k \in 1 .. Len(w) : w[k].ts <= w[j].ts
                                /\ \E i \in Feed!Activity(w) : i.upd = w[j].ts
<1>1. PICK m, ends : Shows(w, m, ends)
  BY ShowsSome
<1>2. PICK s, q, n : s = Shown(w) /\ q = Feed!Assembled(Shown(w)) /\ n = Len(Shown(w))
  OBVIOUS
<1>3. /\ n \in 1 .. n /\ n = Len(s) /\ m[n] \in 1 .. Len(w)
      /\ \A j \in 1 .. Len(w) : w[j].ts <= s[n].ts
  BY <1>1, <1>2, LastShown
<1>4. s[n] = w[m[n]] /\ Assembles(s, n, ends, q) /\ s \in Seq(Feed!Log)
  BY <1>1, <1>2, <1>3 DEF Shows
<1>5. \A x \in 1 .. n : q[x].status # "joined" => q[x] \in Feed!Activity(w)
  BY <1>1, <1>2, ActivityIs
<1>6. \A x \in 1 .. n : EntryIs(s, n, ends, x, q[x])
  BY <1>4 DEF Assembles
<1>7. ends \in [1 .. n -> 0 .. n] /\ \A x \in 1 .. n : ends[x] # 0 => x < ends[x]
  BY <1>4 DEF Assembles, Ends
<1>8. s[n] \in Feed!Log
  BY <1>3, <1>4
<1>9. \E i \in Feed!Activity(w) : i.upd = s[n].ts
  <2>1. CASE IsPost(s[n]) /\ \E x \in 1 .. n : ends[x] = n
    <3>1. PICK x \in 1 .. n : ends[x] = n
      BY <2>1
    <3>2. IsPre(s[x])
      <4>1. Ends(s, n, ends)
        BY <1>4 DEF Assembles
      <4>2. ends[x] # 0
        BY <1>3, <3>1
      <4> QED BY <4>1, <4>2 DEF Ends
    <3>3. q[x].status = "completed" /\ q[x].upd = s[n].ts
      BY <1>3, <1>6, <3>1, <3>2 DEF EntryIs
    <3> QED BY <1>5, <3>3
  <2>2. CASE IsPost(s[n]) /\ ~\E x \in 1 .. n : ends[x] = n
    <3>1. q[n].status = "completed" /\ q[n].upd = s[n].ts
      BY <1>3, <1>6, <2>2 DEF EntryIs
    <3> QED BY <1>3, <1>5, <3>1
  <2>3. CASE IsPre(s[n])
    <3>1. ends[n] = 0
      BY <1>3, <1>7
    <3>2. q[n].status = "running" /\ q[n].upd = s[n].ts
      BY <1>3, <1>6, <2>3, <3>1 DEF EntryIs
    <3> QED BY <1>3, <1>5, <3>2
  <2>4. CASE IsPrompt(s[n])
    <3>1. q[n].status = "said" /\ q[n].upd = s[n].ts
      BY <1>3, <1>6, <2>4 DEF EntryIs
    <3> QED BY <1>3, <1>5, <3>1
  <2> QED BY <1>8, <2>1, <2>2, <2>3, <2>4, LogsAre
<1> QED BY <1>3, <1>4, <1>9

LEMMA CursorIs ==
  ASSUME NEW w \in Seq(Feed!Log)
  PROVE  /\ Len(w) = 0 => Feed!Activity(w) = {} /\ Feed!Cursor(Feed!Activity(w)) = 0
         /\ Len(w) # 0 => \E j \in 1 .. Len(w) : Feed!Cursor(Feed!Activity(w)) = w[j].ts
         /\ \A j \in 1 .. Len(w) : w[j].ts <= Feed!Cursor(Feed!Activity(w))
         /\ \A i \in Feed!Activity(w) : i.upd <= Feed!Cursor(Feed!Activity(w))
         /\ Feed!Cursor(Feed!Activity(w)) \in Nat
<1>1. CASE Len(w) = 0
  <2>1. PICK m, ends : Shows(w, m, ends)
    BY ShowsSome
  <2>2. 1 .. Len(w) = {}
    BY <1>1
  <2>3. Seen(w) = {}
    BY <2>2, WindowIs
  <2>4. Len(Shown(w)) = 0
    BY <2>1, <2>3, FS_EmptySet DEF Shows
  <2>5. 1 .. Len(Shown(w)) = {}
    BY <2>4
  <2>6. Feed!Activity(w) = {}
    BY <2>1, <2>5, ActivityIs
  <2>7. Feed!Cursor(Feed!Activity(w)) = 0
    BY <2>6 DEF Feed!Cursor
  <2> QED BY <1>1, <2>2, <2>6, <2>7
<1>2. CASE Len(w) # 0
  <2>1. PICK j \in 1 .. Len(w) : /\ \A k \in 1 .. Len(w) : w[k].ts <= w[j].ts
                                 /\ \E i \in Feed!Activity(w) : i.upd = w[j].ts
    BY <1>2, LastChange
  <2>2. PICK A, t : A = Feed!Activity(w) /\ t = w[j].ts
    OBVIOUS
  <2>3. t \in Nat
    <3>1. w[j] \in Feed!Log
      OBVIOUS
    <3> QED BY <2>2, <3>1, LogsAre
  <2>4. \A i \in A : i.upd \in Nat /\ i.upd <= t
    <3> SUFFICES ASSUME NEW i \in A PROVE i.upd \in Nat /\ i.upd <= t
      OBVIOUS
    <3>1. i.upd \in Nat /\ \E k \in 1 .. Len(w) : i.upd = w[k].ts
      BY <1>2, <2>2, UpdatesBounded
    <3> QED BY <2>1, <2>2, <3>1
  <2>5. PICK U : U = {i.upd : i \in A}
    OBVIOUS
  <2>6. t \in U /\ A # {}
    BY <2>1, <2>2, <2>5
  <2>7. Feed!Cursor(A) = CHOOSE c \in U : \A i \in A : i.upd <= c
    BY <2>5, <2>6 DEF Feed!Cursor
  <2>8. Feed!Cursor(A) \in U /\ \A i \in A : i.upd <= Feed!Cursor(A)
    BY <2>4, <2>6, <2>7
  <2>9. Feed!Cursor(A) <= t /\ t <= Feed!Cursor(A) /\ Feed!Cursor(A) \in Nat
    <3>1. PICK h \in A : h.upd = Feed!Cursor(A)
      BY <2>5, <2>8
    <3>2. PICK k \in A : k.upd = t
      BY <2>5, <2>6
    <3> QED BY <2>4, <2>8, <3>1, <3>2
  <2>10. Feed!Cursor(A) = t
    BY <2>3, <2>9
  <2> QED BY <1>2, <2>1, <2>2, <2>3, <2>4, <2>10
<1> QED BY <1>1, <1>2

-----------------------------------------------------------------------------
(* Two moments, at k and at u logs, compared.                              *)
LEMMA PrefixOnce ==
  ASSUME NEW w \in Seq(Feed!Log), IdsOnce(w), NEW k \in 0 .. Len(w)
  PROVE  IdsOnce(Prefix(w, k))
<1>1. Len(Prefix(w, k)) = k /\ \A i \in 1 .. k : Prefix(w, k)[i] = w[i] /\ i \in 1 .. Len(w)
  BY PrefixIs
<1> QED BY <1>1 DEF IdsOnce

(* No id is listed twice.                                                  *)
LEMMA OneItemEach ==
  ASSUME NEW w \in Seq(Feed!Log), IdsOnce(w), NEW i \in Feed!Activity(w), NEW h \in Feed!Activity(w),
         i.id = h.id
  PROVE  i = h
<1>1. PICK m, ends : Shows(w, m, ends)
  BY ShowsSome
<1>2. PICK s, q : s = Shown(w) /\ q = Feed!Assembled(Shown(w))
  OBVIOUS
<1>3. PICK x \in 1 .. Len(s) : q[x] = i /\ i.id = s[x].id
  BY <1>1, <1>2, ActivityIs
<1>4. PICK y \in 1 .. Len(s) : q[y] = h /\ h.id = s[y].id
  BY <1>1, <1>2, ActivityIs
<1>5. /\ m[x] \in 1 .. Len(w) /\ m[y] \in 1 .. Len(w) /\ s[x] = w[m[x]] /\ s[y] = w[m[y]]
      /\ Places(w, Seen(w), m) /\ Len(s) = Cardinality(Seen(w))
  BY <1>1, <1>2 DEF Shows
<1>6. m[x] = m[y]
  <2>1. w[m[x]].id = w[m[y]].id
    BY <1>3, <1>4, <1>5
  <2> QED BY <1>5, <2>1 DEF IdsOnce
<1>7. ~Feed!Newer(w, m[x], m[y]) /\ ~Feed!Newer(w, m[y], m[x])
  BY <1>5, <1>6, NewerOrders
<1>8. ~(x < y) /\ ~(y < x)
  BY <1>5, <1>7 DEF Places
<1> QED BY <1>3, <1>4, <1>8

LEMMA ShownInOrder ==
  ASSUME NEW w \in Seq(Feed!Log), IdsOnce(w), NEW k \in 0 .. Len(w), NEW u \in 0 .. Len(w)
  PROVE  SameOrder(Shown(Prefix(w, k)), Shown(Prefix(w, u)))
<1>1. Prefix(w, k) \in Seq(Feed!Log) /\ Prefix(w, u) \in Seq(Feed!Log)
  BY PrefixIs
<1>2. PICK m, f : Shows(Prefix(w, k), m, f)
  BY <1>1, ShowsSome
<1>3. PICK n, g : Shows(Prefix(w, u), n, g)
  BY <1>1, ShowsSome
<1>4. PICK s, t : s = Shown(Prefix(w, k)) /\ t = Shown(Prefix(w, u))
  OBVIOUS
<1>5. \A a \in 1 .. Len(s) : m[a] \in 1 .. k /\ m[a] \in 1 .. Len(w) /\ s[a] = w[m[a]]
  <2> SUFFICES ASSUME NEW a \in 1 .. Len(s)
               PROVE  m[a] \in 1 .. k /\ m[a] \in 1 .. Len(w) /\ s[a] = w[m[a]]
    OBVIOUS
  <2>1. m[a] \in 1 .. Len(Prefix(w, k)) /\ s[a] = Prefix(w, k)[m[a]]
    BY <1>2, <1>4 DEF Shows
  <2> QED BY <2>1, PrefixIs
<1>6. \A x \in 1 .. Len(t) : n[x] \in 1 .. u /\ n[x] \in 1 .. Len(w) /\ t[x] = w[n[x]]
  <2> SUFFICES ASSUME NEW x \in 1 .. Len(t)
               PROVE  n[x] \in 1 .. u /\ n[x] \in 1 .. Len(w) /\ t[x] = w[n[x]]
    OBVIOUS
  <2>1. n[x] \in 1 .. Len(Prefix(w, u)) /\ t[x] = Prefix(w, u)[n[x]]
    BY <1>3, <1>4 DEF Shows
  <2> QED BY <2>1, PrefixIs
<1>7. \A a, b \in 1 .. Len(s) : a < b <=> Feed!Newer(w, m[b], m[a])
  <2> SUFFICES ASSUME NEW a \in 1 .. Len(s), NEW b \in 1 .. Len(s)
               PROVE  a < b <=> Feed!Newer(w, m[b], m[a])
    OBVIOUS
  <2>1. a < b <=> Feed!Newer(Prefix(w, k), m[b], m[a])
    BY <1>2, <1>4 DEF Shows, Places
  <2> QED BY <1>5, <2>1, PrefixIs
<1>8. \A x, y \in 1 .. Len(t) : x < y <=> Feed!Newer(w, n[y], n[x])
  <2> SUFFICES ASSUME NEW x \in 1 .. Len(t), NEW y \in 1 .. Len(t)
               PROVE  x < y <=> Feed!Newer(w, n[y], n[x])
    OBVIOUS
  <2>1. x < y <=> Feed!Newer(Prefix(w, u), n[y], n[x])
    BY <1>3, <1>4 DEF Shows, Places
  <2> QED BY <1>6, <2>1, PrefixIs
<1>9. \A a \in 1 .. Len(s), x \in 1 .. Len(t) : s[a] = t[x] => m[a] = n[x]
  <2> SUFFICES ASSUME NEW a \in 1 .. Len(s), NEW x \in 1 .. Len(t), s[a] = t[x]
               PROVE  m[a] = n[x]
    OBVIOUS
  <2>1. w[m[a]].id = w[n[x]].id /\ m[a] \in 1 .. Len(w) /\ n[x] \in 1 .. Len(w)
    BY <1>5, <1>6
  <2> QED BY <2>1 DEF IdsOnce
<1>10. SameOrder(s, t)
  <2> SUFFICES ASSUME NEW a \in 1 .. Len(s), NEW b \in 1 .. Len(s),
                      NEW x \in 1 .. Len(t), NEW y \in 1 .. Len(t), s[a] = t[x], s[b] = t[y]
               PROVE  a < b <=> x < y
    BY DEF SameOrder
  <2>1. m[a] = n[x] /\ m[b] = n[y]
    BY <1>9
  <2> QED BY <1>7, <1>8, <2>1
<1> QED BY <1>4, <1>10

(* The sources whose logs say what becomes of the item i.                  *)
Related(i) == IF Anonymous = {} THEN {Feed!SourceOf(i.id)} ELSE Call \cup {Feed!SourceOf(i.id)}

LEMMA RelatedClosed ==
  ASSUME NEW i
  PROVE  Closed(Related(i)) /\ Feed!SourceOf(i.id) \in Related(i)
<1>1. Feed!SourceOf(i.id) \in Related(i)
  BY DEF Related
<1>2. ASSUME NEW k \in Feed!Log, NEW l \in Feed!Log, IsPre(k), IsPost(l), Feed!Fits(k.id, l.id)
      PROVE  Of(k) \in Related(i) <=> Of(l) \in Related(i)
  <2>1. CASE Anonymous = {}
    <3>1. Feed!SourceOf(k.id) \notin Anonymous /\ Feed!SourceOf(l.id) \notin Anonymous
      BY <2>1
    <3>2. Feed!SourceOf(k.id) = Feed!SourceOf(l.id)
      BY <1>2, <3>1 DEF Feed!Fits
    <3> QED BY <3>2 DEF Of
  <2>2. CASE Anonymous # {}
    <3>1. k.id \in Feed!Event /\ l.id \in Feed!Event
      BY LogsAre
    <3>2. k.id[2] = "pre" /\ l.id[2] = "post"
      BY <1>2 DEF IsPre, IsPost, Feed!Phase
    <3>3. k.id[1] \in Call
      <4>1. PICK e : e = k.id
        OBVIOUS
      <4>2. e \in (Call \X {"pre", "post"}) \cup (Prompt \X {"prompt"}) /\ e[2] = "pre"
        BY <3>1, <3>2, <4>1 DEF Feed!Event
      <4>3. e[1] \in Call
        BY <4>2
      <4> QED BY <4>1, <4>3
    <3>4. l.id[1] \in Call
      <4>1. PICK e : e = l.id
        OBVIOUS
      <4>2. e \in (Call \X {"pre", "post"}) \cup (Prompt \X {"prompt"}) /\ e[2] = "post"
        BY <3>1, <3>2, <4>1 DEF Feed!Event
      <4>3. e[1] \in Call
        BY <4>2
      <4> QED BY <4>1, <4>3
    <3> QED BY <2>2, <3>3, <3>4 DEF Related, Of, Feed!SourceOf
  <2> QED BY <2>1, <2>2
<1> QED BY <1>1, <1>2 DEF Closed

LEMMA RelatedWhole ==
  ASSUME NEW w, NEW i, Feed!Comparable(w, i), NEW x \in Related(i)
  PROVE  Feed!Whole(w, x)
BY DEF Feed!Comparable, Related

(* A log whose source is whole at u is in the window at u ...              *)
LEMMA WholeHeld ==
  ASSUME NEW w \in Seq(Feed!Log), IdsOnce(w), NEW u \in 0 .. Len(w), NEW j \in 1 .. u,
         Feed!Whole(Prefix(w, u), Of(w[j]))
  PROVE  j \in Seen(Prefix(w, u)) /\ Feed!InTime(Prefix(w, u), w[j].id)
<1>1. PICK v : v = Prefix(w, u)
  OBVIOUS
<1>2. /\ v \in Seq(Feed!Log) /\ Len(v) = u /\ DOMAIN v = 1 .. u /\ v[j] = w[j]
      /\ j \in 1 .. Len(w) /\ w[j] \in Feed!Log
  BY <1>1, PrefixIs
<1>3. PICK id : id = w[j].id
  OBVIOUS
<1>4. id \in Feed!Event /\ Feed!SourceOf(id) = Of(w[j])
  BY <1>2, <1>3, LogsAre DEF Of
<1>5. Feed!Arrived(v, id)
  BY <1>2, <1>3 DEF Feed!Arrived
<1>6. Feed!InTime(v, id) /\ Feed!Held(v, id)
  BY <1>1, <1>4, <1>5 DEF Feed!Whole
<1>7. PICK i \in Seen(v) : v[i].id = id
  BY <1>6 DEF Feed!Held, Seen
<1>8. i \in 1 .. u
  BY <1>2, WindowIs
<1>9. i = j
  <2>1. IdsOnce(v)
    BY <1>1, PrefixOnce
  <2> QED BY <1>2, <1>3, <1>7, <1>8, <2>1 DEF IdsOnce
<1> QED BY <1>1, <1>3, <1>6, <1>7, <1>9

(* ... so that the window at k shows nothing of i that u does not ...      *)
LEMMA CarriesOn ==
  ASSUME NEW w \in Seq(Feed!Log), IdsOnce(w), NEW u \in 0 .. Len(w), NEW k \in 0 .. u,
         NEW R, \A x \in R : Feed!Whole(Prefix(w, u), x)
  PROVE  Carries(Shown(Prefix(w, k)), Shown(Prefix(w, u)), R, MaxFeedTime + 1)
<1>1. PICK l, v, s, t : /\ l = Prefix(w, k) /\ v = Prefix(w, u)
                         /\ s = Shown(Prefix(w, k)) /\ t = Shown(Prefix(w, u))
  OBVIOUS
<1>2. k \in 0 .. Len(w) /\ u \in Nat /\ k \in Nat
  OBVIOUS
<1>3. l \in Seq(Feed!Log) /\ v \in Seq(Feed!Log) /\ Len(l) = k /\ Len(v) = u
  BY <1>1, <1>2, PrefixIs
<1>4. PICK m, f : Shows(l, m, f)
  BY <1>3, ShowsSome
<1>5. PICK n, g : Shows(v, n, g)
  BY <1>3, ShowsSome
<1>6. SUFFICES ASSUME NEW a \in 1 .. Len(s), Of(s[a]) \in R
               PROVE  \E x \in 1 .. Len(t) : t[x] = s[a]
  BY <1>1 DEF Carries
<1>7. PICK j \in 1 .. k : j = m[a] /\ s[a] = l[j]
  BY <1>1, <1>3, <1>4 DEF Shows
<1>8. j \in 1 .. u /\ l[j] = w[j] /\ v[j] = w[j]
  <2>1. j \in 1 .. u
    BY <1>2
  <2> QED BY <1>1, <1>2, <2>1, PrefixIs
<1>9. j \in Seen(v)
  <2>1. Feed!Whole(v, Of(w[j]))
    BY <1>1, <1>6, <1>7, <1>8
  <2> QED BY <1>1, <1>8, <2>1, WholeHeld
<1>10. PICK x \in 1 .. Len(t) : n[x] = j
  BY <1>1, <1>5, <1>9 DEF Shows, Places
<1>11. t[x] = v[j]
  BY <1>1, <1>5, <1>10 DEF Shows
<1> QED BY <1>7, <1>8, <1>11

(* ... and has all of it that is older than the newest log at k.           *)
LEMMA CarriedBack ==
  ASSUME NEW w \in Seq(Feed!Log), IdsOnce(w), NEW u \in 0 .. Len(w), NEW k \in 0 .. u,
         NEW R, \A x \in R : Feed!Whole(Prefix(w, u), x)
  PROVE  Carries(Shown(Prefix(w, u)), Shown(Prefix(w, k)), R, Feed!Cursor(Feed!Activity(Prefix(w, k))))
<1>1. PICK l, v, s, t, U : /\ l = Prefix(w, k) /\ v = Prefix(w, u)
                            /\ s = Shown(Prefix(w, k)) /\ t = Shown(Prefix(w, u))
                            /\ U = Feed!Cursor(Feed!Activity(Prefix(w, k)))
  OBVIOUS
<1>2. k \in 0 .. Len(w) /\ u \in Nat /\ k \in Nat
  OBVIOUS
<1>3. /\ l \in Seq(Feed!Log) /\ v \in Seq(Feed!Log) /\ Len(l) = k /\ Len(v) = u
      /\ DOMAIN v = 1 .. u
  BY <1>1, <1>2, PrefixIs
<1>4. PICK m, f : Shows(l, m, f)
  BY <1>3, ShowsSome
<1>5. PICK n, g : Shows(v, n, g)
  BY <1>3, ShowsSome
<1>6. SUFFICES ASSUME NEW x \in 1 .. Len(t), Of(t[x]) \in R, t[x].ts < U
               PROVE  \E a \in 1 .. Len(s) : s[a] = t[x]
  BY <1>1 DEF Carries
<1>7. PICK j \in 1 .. u : j = n[x] /\ t[x] = v[j] /\ j \in Seen(v)
  BY <1>1, <1>3, <1>5 DEF Shows
<1>8. v[j] = w[j] /\ w[j] \in Feed!Log
  BY <1>1, PrefixIs
<1>9. t[x].ts \in Nat \ {0} /\ U \in Nat
  <2>1. w[j].ts \in Nat \ {0}
    BY <1>8, LogsAre
  <2> QED BY <1>1, <1>3, <1>7, <1>8, <2>1, CursorIs
<1>10. PICK i \in 1 .. k : l[i].ts = U
  <2>1. k # 0
    <3>1. k = 0 => U = 0
      BY <1>1, <1>3, CursorIs
    <3> QED BY <1>6, <1>9, <3>1
  <2>2. \E i \in 1 .. Len(l) : Feed!Cursor(Feed!Activity(l)) = l[i].ts
    BY <1>3, <2>1, CursorIs
  <2> QED BY <1>1, <1>3, <2>2
<1>11. j \in 1 .. k
  <2>1. SUFFICES ASSUME k < j PROVE FALSE
    BY <1>2
  <2>2. Feed!InTime(v, w[j].id)
    <3>1. Feed!Whole(v, Of(w[j]))
      BY <1>1, <1>6, <1>7, <1>8
    <3> QED BY <1>1, <3>1, WholeHeld
  <2>3. i \in 1 .. u /\ i \in 1 .. j - 1
    BY <1>2, <2>1
  <2>4. v[i].ts <= v[j].ts
    BY <1>3, <1>8, <2>2, <2>3 DEF Feed!InTime
  <2>5. v[i] = w[i] /\ l[i] = w[i]
    BY <1>1, <1>2, <2>3, PrefixIs
  <2> QED BY <1>6, <1>7, <1>9, <1>10, <2>4, <2>5
<1>12. j \in Seen(l)
  BY <1>1, <1>7, <1>11, WindowBefore
<1>13. PICK a \in 1 .. Len(s) : m[a] = j
  BY <1>1, <1>4, <1>12 DEF Shows, Places
<1>14. s[a] = l[j] /\ l[j] = w[j]
  <2>1. s[a] = l[j]
    BY <1>1, <1>4, <1>13 DEF Shows
  <2> QED BY <1>1, <1>2, <1>11, <2>1, PrefixIs
<1> QED BY <1>7, <1>8, <1>14

(* An item older than the newest log at k was what it is now.              *)
LEMMA ItemKept ==
  ASSUME NEW w \in Seq(Feed!Log), IdsOnce(w), NEW u \in 0 .. Len(w), NEW k \in 0 .. u,
         NEW i \in Feed!Activity(Prefix(w, u)), Feed!Comparable(Prefix(w, u), i),
         i.upd < Feed!Cursor(Feed!Activity(Prefix(w, k)))
  PROVE  i \in Feed!Activity(Prefix(w, k))
<1>1. PICK l, v, s, t, p, q, U :
        /\ l = Prefix(w, k) /\ v = Prefix(w, u)
        /\ s = Shown(Prefix(w, k)) /\ t = Shown(Prefix(w, u))
        /\ p = Feed!Assembled(Shown(Prefix(w, k))) /\ q = Feed!Assembled(Shown(Prefix(w, u)))
        /\ U = Feed!Cursor(Feed!Activity(Prefix(w, k)))
  OBVIOUS
<1>2. k \in 0 .. Len(w)
  OBVIOUS
<1>3. l \in Seq(Feed!Log) /\ v \in Seq(Feed!Log)
  BY <1>1, <1>2, PrefixIs
<1>4. PICK m, f : Shows(l, m, f)
  BY <1>3, ShowsSome
<1>5. PICK n, g : Shows(v, n, g)
  BY <1>3, ShowsSome
<1>6. PICK R : R = Related(i)
  OBVIOUS
<1>7. \A x \in R : Feed!Whole(Prefix(w, u), x)
  BY <1>6, RelatedWhole
<1>8. Carries(s, t, R, MaxFeedTime + 1) /\ Carries(t, s, R, U)
  BY <1>1, <1>7, CarriesOn, CarriedBack
<1>9. SameOrder(s, t) /\ SameOrder(t, s)
  BY <1>1, <1>2, ShownInOrder
<1>10. U \in Nat
  BY <1>1, <1>3, CursorIs
<1>11. Closed(R) /\ Feed!SourceOf(i.id) \in R
  BY <1>6, RelatedClosed
<1>12. /\ s \in Seq(Feed!Log) /\ t \in Seq(Feed!Log) /\ Steady(s) /\ Steady(t)
       /\ Assembles(s, Len(s), f, p) /\ Assembles(t, Len(t), g, q)
  BY <1>1, <1>4, <1>5 DEF Shows
<1>13. Twins(s, t, R, U)
  BY <1>8, <1>9, <1>10, <1>11, <1>12 DEF Twins
<1>14. PICK x \in 1 .. Len(t) : q[x] = i /\ i.status # "joined" /\ i.id = t[x].id
  BY <1>1, <1>3, <1>5, ActivityIs
<1>15. Of(t[x]) \in R /\ q[x].status # "joined" /\ q[x].upd < U
  BY <1>1, <1>11, <1>14 DEF Of
<1>16. PICK a \in 1 .. Len(s) : p[a] = q[x]
  BY <1>12, <1>13, <1>15, EntryKept
<1>17. p[a].status # "joined"
  BY <1>15, <1>16
<1>18. p[a] \in Feed!Activity(l)
  BY <1>1, <1>3, <1>4, <1>17, ActivityIs
<1> QED BY <1>1, <1>14, <1>16, <1>18

(* What is whole has been whole.                                           *)
LEMMA ComparableBefore ==
  ASSUME NEW w \in Seq(Feed!Log), IdsOnce(w), NEW u \in 0 .. Len(w), NEW k \in 0 .. u,
         NEW i, Feed!Comparable(Prefix(w, u), i)
  PROVE  Feed!Comparable(Prefix(w, k), i)
<1>1. k \in 0 .. Len(w) /\ u \in Nat /\ k \in Nat /\ \A j \in 1 .. k : j \in 1 .. u
  OBVIOUS
<1>2. PICK l, v : l = Prefix(w, k) /\ v = Prefix(w, u)
  OBVIOUS
<1>3. /\ DOMAIN l = 1 .. k /\ DOMAIN v = 1 .. u
      /\ \A j \in 1 .. k : l[j] = w[j] /\ v[j] = w[j] /\ j \in 1 .. u
  BY <1>1, <1>2, PrefixIs
<1>4. ASSUME NEW x, Feed!Whole(v, x) PROVE Feed!Whole(l, x)
  <2> SUFFICES ASSUME NEW id \in Feed!Event, Feed!SourceOf(id) = x, Feed!Arrived(l, id)
               PROVE  Feed!InTime(l, id) /\ Feed!Held(l, id)
    BY DEF Feed!Whole
  <2>1. PICK j \in 1 .. k : w[j].id = id
    BY <1>3 DEF Feed!Arrived
  <2>2. Of(w[j]) = x /\ j \in 1 .. u
    BY <1>1, <2>1 DEF Of
  <2>3. j \in Seen(v) /\ Feed!InTime(v, id)
    BY <1>2, <1>4, <2>1, <2>2, WholeHeld
  <2>4. j \in Seen(l)
    BY <1>2, <2>3, WindowBefore
  <2>5. Feed!Held(l, id)
    BY <1>3, <2>1, <2>4 DEF Feed!Held, Seen
  <2>6. Feed!InTime(l, id)
    <3> SUFFICES ASSUME NEW a \in 1 .. k, l[a].id = id, NEW b \in 1 .. a - 1
                 PROVE  l[b].ts <= l[a].ts
      BY <1>3 DEF Feed!InTime
    <3>1. b \in 1 .. k
      BY <1>1
    <3>2. a \in DOMAIN v /\ v[a].id = id
      BY <1>3
    <3>3. v[b].ts <= v[a].ts
      BY <2>3, <3>2 DEF Feed!InTime
    <3> QED BY <1>3, <3>1, <3>3
  <2> QED BY <2>5, <2>6
<1>5. Feed!Comparable(v, i)
  BY <1>2
<1>6. Feed!Comparable(l, i)
  BY <1>4, <1>5 DEF Feed!Comparable
<1> QED BY <1>2, <1>6

-----------------------------------------------------------------------------
(* The inductive invariant: what the webview holds and its cursor are what *)
(* they would be had it followed the log up to some moment c, and the      *)
(* answers that are due are of moments from c on, in order.                *)
Act(w, k) == Feed!Activity(Prefix(w, k))
Mark(w, k) == Feed!Cursor(Act(w, k))

Grasp(w, f, s, c) ==
  /\ c \in 0 .. Len(w) /\ s = Mark(w, c)
  /\ \A i \in f : \E k \in 0 .. c : i \in Act(w, k)
  /\ \A i \in Act(w, c) : Feed!Comparable(Prefix(w, c), i) => i \in f

Answer == [since : Nat, items : SUBSET Feed!Item, next : Nat, upTo : Nat]

Truthful(w, a) == /\ a.upTo \in 0 .. Len(w) /\ a.next = Mark(w, a.upTo)
                  /\ a.items = Feed!Visible(Act(w, a.upTo), a.since)

Due(w, s, q, d, c) ==
  /\ q \in Seq(Nat) /\ \A n \in 1 .. Len(q) : q[n] <= s
  /\ d \in Seq(Answer)
  /\ \A n \in 1 .. Len(d) : Truthful(w, d[n]) /\ d[n].since <= s /\ c <= d[n].upTo
  /\ \A n, m \in 1 .. Len(d) : n < m => d[n].upTo <= d[m].upTo

Abreast(w, r, c) == r => c = Len(w)

SoundLogs ==
  /\ now \in 1 .. MaxFeedTime /\ logs \in Seq(Feed!Log) /\ IdsOnce(logs) /\ flying \in SUBSET Feed!Log
  /\ \A l, k \in flying : l.id = k.id => l = k
  /\ \A l \in flying, i \in 1 .. Len(logs) : logs[i].id # l.id

Sworn ==
  /\ SoundLogs
  /\ \E c \in 0 .. Len(logs) : /\ Grasp(logs, feed, since, c)
                               /\ Due(logs, since, asked, answers, c)
                               /\ Abreast(logs, fresh, c)

LEMMA PrefixMore ==
  ASSUME NEW w \in Seq(Feed!Log), NEW l \in Feed!Log
  PROVE  /\ \A k \in 0 .. Len(w) : Prefix(Append(w, l), k) = Prefix(w, k)
         /\ Prefix(w, Len(w)) = w
<1>1. Prefix(w, Len(w)) = w
  BY DEF Prefix
<1>2. ASSUME NEW k \in 0 .. Len(w) PROVE Prefix(Append(w, l), k) = Prefix(w, k)
  <2>1. PICK x : x = Append(w, l)
    OBVIOUS
  <2>2. x \in Seq(Feed!Log) /\ Len(x) = Len(w) + 1 /\ \A i \in 1 .. Len(w) : x[i] = w[i]
    BY <2>1
  <2>3. k \in 0 .. Len(x)
    BY <2>2
  <2>4. /\ Prefix(x, k) \in Seq(Feed!Log) /\ Len(Prefix(x, k)) = k
        /\ \A i \in 1 .. k : Prefix(x, k)[i] = x[i]
    BY <2>2, <2>3, PrefixIs
  <2>5. /\ Prefix(w, k) \in Seq(Feed!Log) /\ Len(Prefix(w, k)) = k
        /\ \A i \in 1 .. k : Prefix(w, k)[i] = w[i]
    BY PrefixIs
  <2>6. \A i \in 1 .. k : Prefix(x, k)[i] = Prefix(w, k)[i]
    BY <2>2, <2>4, <2>5
  <2>7. Prefix(x, k) = Prefix(w, k)
    BY <2>4, <2>5, <2>6
  <2> QED BY <2>1, <2>7
<1> QED BY <1>1, <1>2

(* The cursor only advances with the log.                                  *)
LEMMA MarksRise ==
  ASSUME NEW w \in Seq(Feed!Log), NEW u \in 0 .. Len(w), NEW k \in 0 .. u
  PROVE  /\ Mark(w, k) \in Nat /\ Mark(w, u) \in Nat /\ Mark(w, k) <= Mark(w, u)
         /\ Mark(w, u) = 0 => u = 0
<1>1. PICK l, v : l = Prefix(w, k) /\ v = Prefix(w, u)
  OBVIOUS
<1>2. k \in 0 .. Len(w) /\ u \in Nat /\ k \in Nat /\ \A j \in 1 .. k : j \in 1 .. u
  OBVIOUS
<1>3. /\ l \in Seq(Feed!Log) /\ v \in Seq(Feed!Log) /\ Len(l) = k /\ Len(v) = u
      /\ \A j \in 1 .. k : l[j] = v[j]
  BY <1>1, <1>2, PrefixIs
<1>4. Mark(w, k) = Feed!Cursor(Feed!Activity(l)) /\ Mark(w, u) = Feed!Cursor(Feed!Activity(v))
  BY <1>1 DEF Mark, Act
<1>5. Mark(w, k) \in Nat /\ Mark(w, u) \in Nat
  BY <1>3, <1>4, CursorIs
<1>6. Mark(w, u) = 0 => u = 0
  <2>1. SUFFICES ASSUME u # 0 PROVE Mark(w, u) # 0
    OBVIOUS
  <2>2. 1 \in 1 .. u /\ v[1] \in Feed!Log
    BY <1>2, <1>3, <2>1
  <2>3. v[1].ts \in Nat \ {0}
    BY <2>2, LogsAre
  <2>4. v[1].ts <= Mark(w, u)
    BY <1>3, <1>4, <2>2, CursorIs
  <2> QED BY <1>5, <2>3, <2>4
<1>7. Mark(w, k) <= Mark(w, u)
  <2>1. CASE k = 0
    <3>1. Mark(w, k) = 0
      BY <1>3, <1>4, <2>1, CursorIs
    <3> QED BY <1>5, <3>1
  <2>2. CASE k # 0
    <3>1. PICK j \in 1 .. k : Mark(w, k) = l[j].ts
      BY <1>3, <1>4, <2>2, CursorIs
    <3>2. j \in 1 .. u /\ l[j] = v[j]
      BY <1>2, <1>3
    <3>3. v[j].ts <= Mark(w, u)
      BY <1>3, <1>4, <3>2, CursorIs
    <3> QED BY <3>1, <3>2, <3>3
  <2> QED BY <2>1, <2>2
<1> QED BY <1>5, <1>6, <1>7

LEMMA ActIs ==
  ASSUME NEW w \in Seq(Feed!Log), NEW k \in 0 .. Len(w), NEW i \in Act(w, k)
  PROVE  /\ i \in Feed!Item /\ i.upd \in Nat /\ i.upd <= Mark(w, k)
<1>1. PICK l : l = Prefix(w, k)
  OBVIOUS
<1>2. l \in Seq(Feed!Log) /\ Len(l) = k
  BY <1>1, PrefixIs
<1>3. i \in Feed!Activity(l) /\ Mark(w, k) = Feed!Cursor(Feed!Activity(l))
  BY <1>1 DEF Mark, Act
<1>4. Len(l) # 0
  BY <1>2, <1>3, CursorIs
<1>5. i \in Feed!Item /\ i.upd \in Nat
  BY <1>2, <1>3, <1>4, UpdatesBounded
<1> QED BY <1>2, <1>3, <1>5, CursorIs

(* An answer of a moment u takes the view there: what it does not show is  *)
(* what it was, and so is held; and no copy that is held is of an item     *)
(* that has changed since.                                                 *)
LEMMA MergeKeeps ==
  ASSUME NEW w \in Seq(Feed!Log), IdsOnce(w), NEW f, NEW s, NEW c, Grasp(w, f, s, c),
         NEW u \in 0 .. Len(w), c <= u, NEW z \in Nat, z <= s,
         NEW items, items = Feed!Visible(Act(w, u), z),
         NEW g, g = (IF z # 0 THEN Feed!Merge(f, items) ELSE items),
         NEW r, r = (IF Mark(w, u) # 0 THEN Mark(w, u) ELSE s)
  PROVE  Grasp(w, g, r, u) /\ s <= r
<1>1. c \in 0 .. u /\ c \in 0 .. Len(w) /\ u \in Nat /\ s = Mark(w, c)
  BY DEF Grasp
<1>2. /\ Mark(w, c) \in Nat /\ Mark(w, u) \in Nat /\ Mark(w, c) <= Mark(w, u)
      /\ Mark(w, u) = 0 => u = 0
  BY <1>1, MarksRise
<1>3. r = Mark(w, u) /\ s <= r
  <2>1. CASE Mark(w, u) # 0
    BY <1>1, <1>2, <2>1
  <2>2. CASE Mark(w, u) = 0
    <3>1. s = 0
      BY <1>1, <1>2, <2>2
    <3> QED BY <2>2, <3>1
  <2> QED BY <2>1, <2>2
<1>4. PICK A : A = Act(w, u)
  OBVIOUS
<1>5. \A i \in A : i \in Feed!Item /\ i.upd \in Nat
  BY <1>4, ActIs
<1>6. items = {i \in A : i.upd >= z}
  BY <1>4 DEF Feed!Visible
<1>7. \A i \in f : \E k \in 0 .. c : i \in Act(w, k)
  BY DEF Grasp
<1>8. ASSUME NEW i \in g PROVE \E k \in 0 .. u : i \in Act(w, k)
  <2>1. i \in items \/ i \in f
    BY DEF Feed!Merge
  <2>2. CASE i \in items
    <3>1. i \in Act(w, u) /\ u \in 0 .. u
      BY <1>1, <1>4, <1>6, <2>2
    <3> QED BY <3>1
  <2>3. CASE i \in f
    <3>1. PICK k \in 0 .. c : i \in Act(w, k)
      BY <1>7, <2>3
    <3>2. k \in 0 .. u
      BY <1>1
    <3> QED BY <3>1, <3>2
  <2> QED BY <2>1, <2>2, <2>3
<1>9. ASSUME NEW i \in A, Feed!Comparable(Prefix(w, u), i) PROVE i \in g
  <2>1. \A k \in 0 .. u : i.upd < Mark(w, k) => i \in Act(w, k)
    <3> SUFFICES ASSUME NEW k \in 0 .. u, i.upd < Mark(w, k) PROVE i \in Act(w, k)
      OBVIOUS
    <3>1. /\ i \in Feed!Activity(Prefix(w, u)) /\ Feed!Comparable(Prefix(w, u), i)
          /\ i.upd < Feed!Cursor(Feed!Activity(Prefix(w, k)))
      BY <1>4, <1>9 DEF Act, Mark
    <3>2. i \in Feed!Activity(Prefix(w, k))
      BY <3>1, ItemKept
    <3> QED BY <3>2 DEF Act
  <2>2. CASE i.upd >= z
    <3>1. i \in items
      BY <1>6, <2>2
    <3>2. CASE z = 0
      BY <3>1, <3>2
    <3>3. CASE z # 0
      <4>1. ASSUME NEW h \in f, h.id = i.id PROVE i.upd >= h.upd
        <5>1. PICK k \in 0 .. c : h \in Act(w, k)
          BY <1>7
        <5>2. k \in 0 .. u /\ k \in 0 .. Len(w)
          BY <1>1
        <5>3. h.upd \in Nat /\ h.upd <= Mark(w, k)
          BY <5>1, <5>2, ActIs
        <5>4. Mark(w, k) \in Nat
          BY <5>2, MarksRise
        <5>5. SUFFICES ASSUME i.upd < h.upd PROVE FALSE
          BY <1>5, <5>3
        <5>6. i \in Act(w, k)
          BY <1>5, <2>1, <5>2, <5>3, <5>4, <5>5
        <5>7. Prefix(w, k) \in Seq(Feed!Log) /\ IdsOnce(Prefix(w, k))
          BY <5>2, PrefixIs, PrefixOnce
        <5>8. i \in Feed!Activity(Prefix(w, k)) /\ h \in Feed!Activity(Prefix(w, k)) /\ i.id = h.id
          BY <4>1, <5>1, <5>6 DEF Act
        <5>9. i = h
          BY <5>7, <5>8, OneItemEach
        <5> QED BY <5>3, <5>5, <5>9
      <4>2. i \in Feed!Merge(f, items)
        BY <3>1, <4>1 DEF Feed!Merge
      <4> QED BY <3>3, <4>2
    <3> QED BY <3>2, <3>3
  <2>3. CASE ~(i.upd >= z)
    <3>1. z # 0 /\ i.upd < z
      BY <1>5, <2>3
    <3>2. i.upd < Mark(w, c)
      BY <1>1, <1>2, <1>5, <3>1
    <3>3. i \in Act(w, c)
      BY <1>1, <2>1, <3>2
    <3>4. Feed!Comparable(Prefix(w, c), i)
      BY <1>1, <1>9, ComparableBefore
    <3>5. i \in f
      BY <3>3, <3>4 DEF Grasp
    <3>6. ASSUME NEW h \in items, h.id = i.id PROVE FALSE
      <4>1. h \in A /\ h.upd >= z
        BY <1>6
      <4>2. Prefix(w, u) \in Seq(Feed!Log) /\ IdsOnce(Prefix(w, u))
        BY PrefixIs, PrefixOnce
      <4>3. i \in Feed!Activity(Prefix(w, u)) /\ h \in Feed!Activity(Prefix(w, u)) /\ i.id = h.id
        BY <1>4, <3>6, <4>1 DEF Act
      <4>4. i = h
        BY <4>2, <4>3, OneItemEach
      <4> QED BY <2>3, <4>1, <4>4
    <3>7. i \in Feed!Merge(f, items)
      BY <3>5, <3>6 DEF Feed!Merge
    <3> QED BY <3>1, <3>7
  <2> QED BY <2>2, <2>3
<1> QED BY <1>3, <1>4, <1>8, <1>9 DEF Grasp

LEMMA GraspMore ==
  ASSUME NEW w \in Seq(Feed!Log), NEW l \in Feed!Log, NEW f, NEW s, NEW c, Grasp(w, f, s, c)
  PROVE  Grasp(Append(w, l), f, s, c) /\ c \in 0 .. Len(Append(w, l))
<1>1. PICK x : x = Append(w, l)
  OBVIOUS
<1>2. x \in Seq(Feed!Log) /\ Len(x) = Len(w) + 1 /\ Len(w) \in Nat
  BY <1>1
<1>3. c \in 0 .. Len(w) /\ c \in 0 .. Len(x) /\ \A k \in 0 .. c : k \in 0 .. Len(w)
  BY <1>2 DEF Grasp
<1>4. \A k \in 0 .. Len(w) : Prefix(x, k) = Prefix(w, k)
  BY <1>1, PrefixMore
<1>5. \A k \in 0 .. Len(w) : Act(x, k) = Act(w, k) /\ Mark(x, k) = Mark(w, k)
  BY <1>4 DEF Act, Mark
<1>6. s = Mark(x, c)
  BY <1>3, <1>5 DEF Grasp
<1>7. \A i \in f : \E k \in 0 .. c : i \in Act(x, k)
  <2> SUFFICES ASSUME NEW i \in f PROVE \E k \in 0 .. c : i \in Act(x, k)
    OBVIOUS
  <2>1. PICK k \in 0 .. c : i \in Act(w, k)
    BY DEF Grasp
  <2>2. Act(x, k) = Act(w, k)
    BY <1>3, <1>5
  <2> QED BY <2>1, <2>2
<1>8. \A i \in Act(x, c) : Feed!Comparable(Prefix(x, c), i) => i \in f
  <2>1. Act(x, c) = Act(w, c) /\ Prefix(x, c) = Prefix(w, c)
    BY <1>3, <1>4, <1>5
  <2>2. \A i \in Act(w, c) : Feed!Comparable(Prefix(w, c), i) => i \in f
    BY DEF Grasp
  <2> QED BY <2>1, <2>2
<1>9. Grasp(x, f, s, c)
  BY <1>3, <1>6, <1>7, <1>8 DEF Grasp
<1> QED BY <1>1, <1>3, <1>9

LEMMA DueMore ==
  ASSUME NEW w \in Seq(Feed!Log), NEW l \in Feed!Log, NEW s, NEW q, NEW d, NEW c, Due(w, s, q, d, c)
  PROVE  Due(Append(w, l), s, q, d, c)
<1>1. PICK x : x = Append(w, l)
  OBVIOUS
<1>2. x \in Seq(Feed!Log) /\ Len(x) = Len(w) + 1 /\ Len(w) \in Nat
  BY <1>1
<1>3. \A k \in 0 .. Len(w) : /\ k \in 0 .. Len(x) /\ Act(x, k) = Act(w, k)
                             /\ Mark(x, k) = Mark(w, k)
  <2> SUFFICES ASSUME NEW k \in 0 .. Len(w)
               PROVE  k \in 0 .. Len(x) /\ Act(x, k) = Act(w, k) /\ Mark(x, k) = Mark(w, k)
    OBVIOUS
  <2>1. Prefix(x, k) = Prefix(w, k)
    BY <1>1, PrefixMore
  <2> QED BY <1>2, <2>1 DEF Act, Mark
<1>4. \A a : Truthful(w, a) => Truthful(x, a)
  <2> SUFFICES ASSUME NEW a, Truthful(w, a) PROVE Truthful(x, a)
    OBVIOUS
  <2>1. PICK k \in 0 .. Len(w) : k = a.upTo
    BY DEF Truthful
  <2>2. k \in 0 .. Len(x) /\ Act(x, k) = Act(w, k) /\ Mark(x, k) = Mark(w, k)
    BY <1>3
  <2>3. a.next = Mark(w, k) /\ a.items = Feed!Visible(Act(w, k), a.since)
    BY <2>1 DEF Truthful
  <2> QED BY <2>1, <2>2, <2>3 DEF Truthful
<1>5. Due(x, s, q, d, c)
  BY <1>4 DEF Due
<1> QED BY <1>1, <1>5

(* A request, with the cursor or without; an answer to the oldest request  *)
(* due; the oldest answer taken in.                                        *)
LEMMA DueAsked ==
  ASSUME NEW w, NEW s, NEW q, NEW d, NEW c, Due(w, s, q, d, c), NEW z \in Nat, z <= s
  PROVE  Due(w, s, Append(q, z), d, c)
<1>1. PICK p : p = Append(q, z)
  OBVIOUS
<1>2. q \in Seq(Nat) /\ \A n \in 1 .. Len(q) : q[n] <= s
  BY DEF Due
<1>3. p \in Seq(Nat) /\ \A n \in 1 .. Len(p) : p[n] <= s
  <2>1. p \in Seq(Nat) /\ Len(p) = Len(q) + 1 /\ p[Len(q) + 1] = z
        /\ \A n \in 1 .. Len(q) : p[n] = q[n]
    BY <1>1, <1>2
  <2>2. \A n \in 1 .. Len(p) : n \in 1 .. Len(q) \/ n = Len(q) + 1
    BY <1>2, <2>1
  <2> QED BY <1>2, <2>1, <2>2
<1>4. Due(w, s, p, d, c)
  BY <1>3 DEF Due
<1> QED BY <1>1, <1>4

LEMMA DueAnswered ==
  ASSUME NEW w \in Seq(Feed!Log), NEW s, NEW q, NEW d, NEW c, Due(w, s, q, d, c),
         c \in 0 .. Len(w), q # <<>>, NEW a,
         a = [since |-> Head(q), items |-> Feed!Visible(Feed!Activity(w), Head(q)),
              next |-> Feed!Cursor(Feed!Activity(w)), upTo |-> Len(w)]
  PROVE  Due(w, s, Tail(q), Append(d, a), c)
<1>1. q \in Seq(Nat) /\ d \in Seq(Answer) /\ \A n \in 1 .. Len(q) : q[n] <= s
  BY DEF Due
<1>2. Head(q) \in Nat /\ Head(q) <= s /\ Tail(q) \in Seq(Nat)
      /\ \A n \in 1 .. Len(Tail(q)) : Tail(q)[n] <= s
  <2>1. Len(q) \in Nat /\ 1 \in 1 .. Len(q) /\ Head(q) = q[1]
    BY <1>1
  <2>2. /\ Tail(q) \in Seq(Nat) /\ Len(Tail(q)) = Len(q) - 1
        /\ \A n \in 1 .. Len(Tail(q)) : Tail(q)[n] = q[n + 1] /\ n + 1 \in 1 .. Len(q)
    BY <1>1, <2>1
  <2> QED BY <1>1, <2>1, <2>2
<1>3. PICK u : u = Len(w)
  OBVIOUS
<1>4. u \in 0 .. Len(w) /\ Prefix(w, u) = w
  BY <1>3 DEF Prefix
<1>5. Act(w, u) = Feed!Activity(w) /\ Mark(w, u) = Feed!Cursor(Feed!Activity(w))
  BY <1>4 DEF Act, Mark
<1>6. /\ a.since = Head(q) /\ a.items = Feed!Visible(Feed!Activity(w), Head(q))
      /\ a.next = Feed!Cursor(Feed!Activity(w)) /\ a.upTo = Len(w)
  OBVIOUS
<1>7. Truthful(w, a)
  BY <1>3, <1>4, <1>5, <1>6 DEF Truthful
<1>8. a \in Answer
  <2>1. PICK z, I, t : z = Head(q) /\ I = Feed!Visible(Feed!Activity(w), Head(q))
                       /\ t = Feed!Cursor(Feed!Activity(w))
    OBVIOUS
  <2>2. a = [since |-> z, items |-> I, next |-> t, upTo |-> u]
    BY <1>3, <2>1
  <2>3. t \in Nat
    BY <1>4, <1>5, <2>1, MarksRise
  <2>4. I \in SUBSET Feed!Item
    <3>1. \A i \in Act(w, u) : i \in Feed!Item
      BY <1>4, ActIs
    <3> QED BY <1>5, <2>1, <3>1 DEF Feed!Visible
  <2>5. u \in Nat /\ z \in Nat
    BY <1>2, <1>3, <2>1
  <2> QED BY <2>2, <2>3, <2>4, <2>5 DEF Answer
<1>9. PICK e : e = Append(d, a)
  OBVIOUS
<1>10. /\ e \in Seq(Answer) /\ Len(d) \in Nat /\ Len(e) = Len(d) + 1 /\ e[Len(d) + 1] = a
       /\ \A n \in 1 .. Len(d) : e[n] = d[n]
       /\ \A n \in 1 .. Len(e) : n \in 1 .. Len(d) \/ n = Len(d) + 1
  BY <1>1, <1>8, <1>9
<1>11. \A n \in 1 .. Len(d) : Truthful(w, d[n]) /\ d[n].since <= s /\ c <= d[n].upTo
  BY DEF Due
<1>12. \A n \in 1 .. Len(e) : Truthful(w, e[n]) /\ e[n].since <= s /\ c <= e[n].upTo
  <2> SUFFICES ASSUME NEW n \in 1 .. Len(e)
               PROVE  Truthful(w, e[n]) /\ e[n].since <= s /\ c <= e[n].upTo
    OBVIOUS
  <2>1. CASE n \in 1 .. Len(d)
    BY <1>10, <1>11, <2>1
  <2>2. CASE n = Len(d) + 1
    <3>1. e[n] = a /\ c <= Len(w)
      BY <1>10, <2>2
    <3> QED BY <1>2, <1>6, <1>7, <3>1
  <2> QED BY <1>10, <2>1, <2>2
<1>13. \A n, m \in 1 .. Len(e) : n < m => e[n].upTo <= e[m].upTo
  <2> SUFFICES ASSUME NEW n \in 1 .. Len(e), NEW m \in 1 .. Len(e), n < m
               PROVE  e[n].upTo <= e[m].upTo
    OBVIOUS
  <2>1. n \in 1 .. Len(d) /\ e[n] = d[n]
    BY <1>10
  <2>2. CASE m \in 1 .. Len(d)
    <3>1. d[n].upTo <= d[m].upTo
      BY <2>1, <2>2 DEF Due
    <3> QED BY <1>10, <2>1, <2>2, <3>1
  <2>3. CASE m = Len(d) + 1
    <3>1. d[n].upTo \in 0 .. Len(w)
      BY <1>11, <2>1 DEF Truthful
    <3> QED BY <1>6, <1>10, <2>1, <2>3, <3>1
  <2> QED BY <1>10, <2>2, <2>3
<1>14. Due(w, s, Tail(q), e, c)
  BY <1>2, <1>10, <1>12, <1>13 DEF Due
<1> QED BY <1>9, <1>14

LEMMA DueTaken ==
  ASSUME NEW w \in Seq(Feed!Log), NEW s \in Nat, NEW q, NEW d, NEW c, Due(w, s, q, d, c),
         d # <<>>, NEW r \in Nat, s <= r
  PROVE  /\ Head(d) \in Answer /\ Truthful(w, Head(d)) /\ Head(d).since <= s
         /\ c <= Head(d).upTo /\ Due(w, r, q, Tail(d), Head(d).upTo)
<1>1. /\ q \in Seq(Nat) /\ d \in Seq(Answer) /\ \A n \in 1 .. Len(q) : q[n] <= s
      /\ \A n \in 1 .. Len(d) : Truthful(w, d[n]) /\ d[n].since <= s /\ c <= d[n].upTo
      /\ \A n, m \in 1 .. Len(d) : n < m => d[n].upTo <= d[m].upTo
  BY DEF Due
<1>2. Len(d) \in Nat /\ 1 \in 1 .. Len(d) /\ Head(d) = d[1] /\ Head(d) \in Answer
  BY <1>1
<1>3. PICK e : e = Tail(d)
  OBVIOUS
<1>4. /\ e \in Seq(Answer) /\ Len(e) = Len(d) - 1
      /\ \A n \in 1 .. Len(e) : e[n] = d[n + 1] /\ n + 1 \in 1 .. Len(d)
  BY <1>1, <1>2, <1>3
<1>5. \A n \in 1 .. Len(q) : q[n] <= r
  <2>1. \A n \in 1 .. Len(q) : q[n] \in Nat /\ q[n] <= s
    BY <1>1
  <2> QED BY <2>1
<1>6. \A n \in 1 .. Len(d) : d[n].since \in Nat
  <2>1. \A n \in 1 .. Len(d) : d[n] \in Answer
    BY <1>1
  <2> QED BY <2>1 DEF Answer
<1>7. \A n \in 1 .. Len(e) : /\ Truthful(w, e[n]) /\ e[n].since <= r
                            /\ d[1].upTo <= e[n].upTo
  <2> SUFFICES ASSUME NEW n \in 1 .. Len(e)
               PROVE  Truthful(w, e[n]) /\ e[n].since <= r /\ d[1].upTo <= e[n].upTo
    OBVIOUS
  <2>1. e[n] = d[n + 1] /\ n + 1 \in 1 .. Len(d) /\ 1 < n + 1
    BY <1>4
  <2>2. d[n + 1].since <= r
    BY <1>1, <1>6, <2>1
  <2>3. d[1].upTo <= d[n + 1].upTo
    BY <1>1, <1>2, <2>1
  <2> QED BY <1>1, <2>1, <2>2, <2>3
<1>8. \A n, m \in 1 .. Len(e) : n < m => e[n].upTo <= e[m].upTo
  <2> SUFFICES ASSUME NEW n \in 1 .. Len(e), NEW m \in 1 .. Len(e), n < m
               PROVE  e[n].upTo <= e[m].upTo
    OBVIOUS
  <2>1. n + 1 \in 1 .. Len(d) /\ m + 1 \in 1 .. Len(d) /\ n + 1 < m + 1
    BY <1>4
  <2>2. d[n + 1].upTo <= d[m + 1].upTo
    BY <1>1, <2>1
  <2> QED BY <1>4, <2>2
<1>9. Due(w, r, q, e, d[1].upTo)
  BY <1>1, <1>4, <1>5, <1>7, <1>8 DEF Due
<1> QED BY <1>1, <1>2, <1>3, <1>9

-----------------------------------------------------------------------------
LEMMA SwornInit ==
  ASSUME Feed!Init
  PROVE  Sworn
<1>1. logs = <<>> /\ asked = <<>> /\ answers = <<>> /\ feed = {} /\ since = 0 /\ flying = {}
      /\ now = 1
  BY DEF Feed!Init
<1>2. logs \in Seq(Feed!Log) /\ Len(logs) = 0 /\ 0 \in 0 .. Len(logs) /\ now \in 1 .. MaxFeedTime
  BY <1>1, FeedAssumption
<1>3. SoundLogs
  BY <1>1, <1>2 DEF SoundLogs, IdsOnce
<1>4. Prefix(logs, 0) \in Seq(Feed!Log) /\ Len(Prefix(logs, 0)) = 0
  BY <1>2, PrefixIs
<1>5. Act(logs, 0) = {} /\ Mark(logs, 0) = 0
  BY <1>4, CursorIs DEF Act, Mark
<1>6. Grasp(logs, feed, since, 0)
  BY <1>1, <1>2, <1>5 DEF Grasp
<1>7. Due(logs, since, asked, answers, 0)
  BY <1>1 DEF Due
<1>8. Abreast(logs, fresh, 0)
  BY <1>2 DEF Abreast
<1> QED BY <1>2, <1>3, <1>6, <1>7, <1>8 DEF Sworn

(* The events: those that are logged or on their way have ids of their own.*)
LEMMA TickKeeps == SoundLogs /\ Feed!Tick => SoundLogs'
<1> SUFFICES ASSUME SoundLogs, Feed!Tick PROVE SoundLogs'
  OBVIOUS
<1>1. now' \in 1 .. MaxFeedTime /\ flying' = flying /\ logs' = logs
  BY FeedAssumption DEF Feed!Tick, SoundLogs
<1> QED BY <1>1 DEF SoundLogs

LEMMA FireKeeps == \A id \in Feed!Event : SoundLogs /\ Feed!Fire(id) => SoundLogs'
<1> SUFFICES ASSUME NEW id \in Feed!Event, SoundLogs, Feed!Fire(id) PROVE SoundLogs'
  OBVIOUS
<1>1. PICK k : k = [id |-> id, ts |-> now]
  OBVIOUS
<1>2. k.id = id /\ k.ts = now
  BY <1>1
<1>3. /\ now' = now /\ logs' = logs /\ flying' = flying \cup {k} /\ ~Feed!Sent(id)
  BY <1>1 DEF Feed!Fire
<1>4. k \in Feed!Log
  BY <1>1 DEF Feed!Log, SoundLogs
<1>5. /\ \A l \in flying : l.id # id
      /\ \A i \in 1 .. Len(logs) : logs[i].id # id
  <2>1. DOMAIN logs = 1 .. Len(logs)
    BY DEF SoundLogs
  <2> QED BY <1>3, <2>1 DEF Feed!Sent, Feed!Arrived
<1>6. flying' \in SUBSET Feed!Log
  BY <1>3, <1>4 DEF SoundLogs
<1>7. \A l, h \in flying' : l.id = h.id => l = h
  BY <1>2, <1>3, <1>5 DEF SoundLogs
<1>8. \A l \in flying', i \in 1 .. Len(logs') : logs'[i].id # l.id
  BY <1>2, <1>3, <1>5 DEF SoundLogs
<1> QED BY <1>3, <1>6, <1>7, <1>8 DEF SoundLogs

LEMMA AddLogKeeps == \A l \in flying : SoundLogs /\ Feed!AddLog(l) => SoundLogs'
<1> SUFFICES ASSUME NEW l \in flying, SoundLogs, Feed!AddLog(l) PROVE SoundLogs'
  OBVIOUS
<1>1. now' = now /\ logs' = Append(logs, l) /\ flying' = flying \ {l} /\ l \in Feed!Log
  BY DEF Feed!AddLog, SoundLogs
<1>2. logs \in Seq(Feed!Log) /\ Len(logs) \in Nat
  BY DEF SoundLogs
<1>3. /\ logs' \in Seq(Feed!Log) /\ Len(logs') = Len(logs) + 1 /\ logs'[Len(logs) + 1] = l
      /\ \A i \in 1 .. Len(logs) : logs'[i] = logs[i]
      /\ \A i \in 1 .. Len(logs') : i \in 1 .. Len(logs) \/ i = Len(logs) + 1
  BY <1>1, <1>2
<1>4. \A i \in 1 .. Len(logs) : logs[i].id # l.id
  BY DEF SoundLogs
<1>5. IdsOnce(logs')
  <2> SUFFICES ASSUME NEW a \in 1 .. Len(logs'), NEW b \in 1 .. Len(logs'),
                      logs'[a].id = logs'[b].id
               PROVE  a = b
    BY DEF IdsOnce
  <2>1. CASE a \in 1 .. Len(logs) /\ b \in 1 .. Len(logs)
    <3>1. logs[a].id = logs[b].id
      BY <1>3, <2>1
    <3> QED BY <2>1, <3>1 DEF SoundLogs, IdsOnce
  <2>2. CASE a \in 1 .. Len(logs) /\ b = Len(logs) + 1
    BY <1>3, <1>4, <2>2
  <2>3. CASE a = Len(logs) + 1 /\ b \in 1 .. Len(logs)
    BY <1>3, <1>4, <2>3
  <2> QED BY <1>3, <2>1, <2>2, <2>3
<1>6. flying' \in SUBSET Feed!Log /\ \A k, h \in flying' : k.id = h.id => k = h
  BY <1>1 DEF SoundLogs
<1>7. ASSUME NEW k \in flying', NEW i \in 1 .. Len(logs') PROVE logs'[i].id # k.id
  <2>1. k \in flying /\ k # l
    BY <1>1
  <2>2. k.id # l.id
    BY <2>1 DEF SoundLogs
  <2>3. CASE i \in 1 .. Len(logs)
    <3>1. logs[i].id # k.id
      BY <2>1, <2>3 DEF SoundLogs
    <3> QED BY <1>3, <2>3, <3>1
  <2>4. CASE i = Len(logs) + 1
    BY <1>3, <2>2, <2>4
  <2> QED BY <1>3, <2>3, <2>4
<1> QED BY <1>1, <1>3, <1>5, <1>6, <1>7 DEF SoundLogs

LEMMA SoundStays ==
  SoundLogs /\ now' = now /\ flying' = flying /\ logs' = logs => SoundLogs'
BY DEF SoundLogs

LEMMA SwornSent ==
  ASSUME Sworn, NEW z, z = since \/ z = 0, Feed!Send(z)
  PROVE  Sworn'
<1>1. /\ now' = now /\ flying' = flying /\ logs' = logs /\ answers' = answers /\ feed' = feed
      /\ since' = since /\ fresh' = fresh /\ asked' = Append(asked, z)
  BY DEF Feed!Send
<1>2. PICK c \in 0 .. Len(logs) : /\ Grasp(logs, feed, since, c) /\ Abreast(logs, fresh, c)
                                  /\ Due(logs, since, asked, answers, c)
  BY DEF Sworn
<1>3. since \in Nat
  <2>1. logs \in Seq(Feed!Log) /\ c \in 0 .. c
    BY DEF Sworn, SoundLogs
  <2>2. since = Mark(logs, c)
    BY <1>2 DEF Grasp
  <2> QED BY <2>1, <2>2, MarksRise
<1>4. z \in Nat /\ z <= since
  BY <1>3
<1>5. Due(logs, since, Append(asked, z), answers, c)
  BY <1>2, <1>4, DueAsked
<1>6. SoundLogs'
  BY <1>1, SoundStays DEF Sworn
<1> QED BY <1>1, <1>2, <1>5, <1>6 DEF Sworn

LEMMA SwornAnswers == Sworn /\ Feed!GetActivity => Sworn'
<1> SUFFICES ASSUME Sworn, Feed!GetActivity PROVE Sworn'
  OBVIOUS
<1>1. PICK a : a = [since |-> Head(asked), items |-> Feed!Visible(Feed!Activity(logs), Head(asked)),
                    next |-> Feed!Cursor(Feed!Activity(logs)), upTo |-> Len(logs)]
  OBVIOUS
<1>2. /\ now' = now /\ flying' = flying /\ logs' = logs /\ feed' = feed /\ since' = since
      /\ fresh' = fresh /\ asked' = Tail(asked) /\ asked # <<>>
      /\ answers' = Append(answers, a)
  BY <1>1 DEF Feed!GetActivity
<1>3. PICK c \in 0 .. Len(logs) : /\ Grasp(logs, feed, since, c) /\ Abreast(logs, fresh, c)
                                  /\ Due(logs, since, asked, answers, c)
  BY DEF Sworn
<1>4. logs \in Seq(Feed!Log)
  BY DEF Sworn, SoundLogs
<1>5. Due(logs, since, Tail(asked), Append(answers, a), c)
  BY <1>1, <1>2, <1>3, <1>4, DueAnswered
<1>6. SoundLogs'
  BY <1>2, SoundStays DEF Sworn
<1> QED BY <1>2, <1>3, <1>5, <1>6 DEF Sworn

LEMMA SwornTakes == Sworn /\ Feed!SessionActivity => Sworn'
<1> SUFFICES ASSUME Sworn, Feed!SessionActivity PROVE Sworn'
  OBVIOUS
<1>1. PICK a : a = Head(answers)
  OBVIOUS
<1>2. PICK z, u : z = a.since /\ u = a.upTo
  OBVIOUS
<1>3. PICK c \in 0 .. Len(logs) : /\ Grasp(logs, feed, since, c)
                                  /\ Due(logs, since, asked, answers, c)
  BY DEF Sworn
<1>4. /\ now' = now /\ flying' = flying /\ logs' = logs /\ asked' = asked /\ answers # <<>>
      /\ answers' = Tail(answers) /\ fresh' = (u = Len(logs))
      /\ feed' = (IF z # 0 THEN Feed!Merge(feed, a.items) ELSE a.items)
      /\ since' = (IF a.next # 0 THEN a.next ELSE since)
  BY <1>1, <1>2 DEF Feed!SessionActivity
<1>5. logs \in Seq(Feed!Log) /\ IdsOnce(logs)
  BY DEF Sworn, SoundLogs
<1>6. since \in Nat
  <2>1. since = Mark(logs, c) /\ c \in 0 .. c
    BY <1>3 DEF Grasp
  <2> QED BY <1>5, <2>1, MarksRise
<1>7. /\ a \in Answer /\ Truthful(logs, a) /\ z <= since /\ c <= u
  <2>1. since <= since
    BY <1>6
  <2>2. /\ Head(answers) \in Answer /\ Truthful(logs, Head(answers))
        /\ Head(answers).since <= since /\ c <= Head(answers).upTo
    BY <1>3, <1>4, <1>5, <1>6, <2>1, DueTaken
  <2> QED BY <1>1, <1>2, <2>2
<1>8. /\ z \in Nat /\ u \in 0 .. Len(logs) /\ a.next = Mark(logs, u)
      /\ a.items = Feed!Visible(Act(logs, u), z)
  BY <1>2, <1>7 DEF Truthful, Answer
<1>9. PICK items : items = a.items
  OBVIOUS
<1>10. /\ items = Feed!Visible(Act(logs, u), z)
       /\ feed' = (IF z # 0 THEN Feed!Merge(feed, items) ELSE items)
       /\ since' = (IF Mark(logs, u) # 0 THEN Mark(logs, u) ELSE since)
  BY <1>4, <1>8, <1>9
<1>11. Grasp(logs, feed', since', u) /\ since <= since'
  BY <1>3, <1>5, <1>7, <1>8, <1>10, MergeKeeps
<1>12. since' \in Nat
  <2>1. since' = Mark(logs, u) /\ u \in 0 .. u
    BY <1>8, <1>11 DEF Grasp
  <2> QED BY <1>5, <1>8, <2>1, MarksRise
<1>13. Due(logs, since', asked, Tail(answers), u)
  <2>1. Due(logs, since', asked, Tail(answers), Head(answers).upTo)
    BY <1>3, <1>4, <1>5, <1>6, <1>11, <1>12, DueTaken
  <2> QED BY <1>1, <1>2, <2>1
<1>14. SoundLogs'
  BY <1>4, SoundStays DEF Sworn
<1>15. Abreast(logs, fresh', u)
  BY <1>4, Zenon DEF Abreast
<1> QED BY <1>4, <1>8, <1>11, <1>13, <1>14, <1>15 DEF Sworn

LEMMA SwornLogged == \A l \in flying : Sworn /\ Feed!AddLog(l) => Sworn'
<1> SUFFICES ASSUME NEW l \in flying, Sworn, Feed!AddLog(l) PROVE Sworn'
  OBVIOUS
<1>1. /\ logs' = Append(logs, l) /\ fresh' = FALSE /\ asked' = asked /\ answers' = answers
      /\ feed' = feed /\ since' = since
  BY DEF Feed!AddLog
<1>2. logs \in Seq(Feed!Log) /\ l \in Feed!Log
  BY DEF Sworn, SoundLogs
<1>3. PICK c \in 0 .. Len(logs) : /\ Grasp(logs, feed, since, c)
                                  /\ Due(logs, since, asked, answers, c)
  BY DEF Sworn
<1>4. /\ Grasp(Append(logs, l), feed, since, c) /\ c \in 0 .. Len(Append(logs, l))
      /\ Due(Append(logs, l), since, asked, answers, c)
  BY <1>2, <1>3, GraspMore, DueMore
<1>5. SoundLogs'
  BY AddLogKeeps DEF Sworn
<1>6. Abreast(Append(logs, l), fresh', c)
  BY <1>1 DEF Abreast
<1> QED BY <1>1, <1>4, <1>5, <1>6 DEF Sworn

LEMMA SwornNext == Sworn /\ [Feed!Next]_(Feed!vars) => Sworn'
<1> SUFFICES ASSUME Sworn, [Feed!Next]_(Feed!vars) PROVE Sworn'
  OBVIOUS
<1>1. ASSUME SoundLogs', logs' = logs, feed' = feed, since' = since, asked' = asked,
             answers' = answers, fresh' = fresh
      PROVE  Sworn'
  BY <1>1 DEF Sworn
<1>2. CASE Feed!Tick
  <2>1. SoundLogs'
    BY <1>2, TickKeeps DEF Sworn
  <2> QED BY <1>1, <1>2, <2>1 DEF Feed!Tick
<1>3. ASSUME NEW id \in Feed!Event, Feed!Fire(id) PROVE Sworn'
  <2>1. SoundLogs'
    BY <1>3, FireKeeps DEF Sworn
  <2> QED BY <1>1, <1>3, <2>1 DEF Feed!Fire
<1>4. ASSUME NEW l \in flying, Feed!AddLog(l) PROVE Sworn'
  BY <1>4, SwornLogged
<1>5. CASE Feed!Poll
  BY <1>5, SwornSent DEF Feed!Poll
<1>6. CASE Feed!SwitchTab
  BY <1>6, SwornSent DEF Feed!SwitchTab
<1>7. CASE Feed!GetActivity
  BY <1>7, SwornAnswers
<1>8. CASE Feed!SessionActivity
  BY <1>8, SwornTakes
<1>9. CASE UNCHANGED Feed!vars
  <2>1. SoundLogs'
    BY <1>9 DEF Sworn, SoundLogs, Feed!vars
  <2> QED BY <1>1, <1>9, <2>1 DEF Feed!vars
<1> QED BY <1>2, <1>3, <1>4, <1>5, <1>6, <1>7, <1>8, <1>9 DEF Feed!Next

LEMMA SwornAgrees == Sworn => Feed!FeedAgrees
<1> SUFFICES ASSUME Sworn, fresh, NEW i \in Feed!Activity(logs), Feed!Comparable(logs, i)
             PROVE  i \in feed
  BY DEF Feed!FeedAgrees
<1>1. PICK c \in 0 .. Len(logs) : Grasp(logs, feed, since, c) /\ c = Len(logs)
  BY DEF Sworn, Abreast
<1>2. Prefix(logs, c) = logs
  <2>1. logs \in Seq(Feed!Log)
    BY DEF Sworn, SoundLogs
  <2> QED BY <1>1, <2>1 DEF Prefix
<1>3. i \in Act(logs, c) /\ Feed!Comparable(Prefix(logs, c), i)
  BY <1>2 DEF Act
<1> QED BY <1>1, <1>3 DEF Grasp

-----------------------------------------------------------------------------
(* The bounds of the instance and the types.                               *)
FeedBounded == fresh \in BOOLEAN /\ requests \in 0 .. MaxAsked

LEMMA FeedBoundedInit == Feed!Init => FeedBounded
  BY BoundAssumption DEF Feed!Init, FeedBounded

LEMMA FeedBoundedStep == FeedBounded /\ [Feed!Next]_(Feed!vars) => FeedBounded'
<1> SUFFICES ASSUME FeedBounded, [Feed!Next]_(Feed!vars) PROVE FeedBounded'
  OBVIOUS
<1>1. ASSUME NEW s, Feed!Send(s) PROVE FeedBounded'
  BY <1>1, BoundAssumption DEF Feed!Send, FeedBounded
<1>2. CASE Feed!Tick \/ (\E id \in Feed!Event : Feed!Fire(id)) \/ Feed!GetActivity
  BY <1>2 DEF Feed!Tick, Feed!Fire, Feed!GetActivity, FeedBounded
<1>3. CASE (\E l \in flying : Feed!AddLog(l)) \/ Feed!SessionActivity
  <2>1. requests' = requests /\ fresh' \in BOOLEAN
    BY <1>3 DEF Feed!AddLog, Feed!SessionActivity
  <2> QED BY <2>1 DEF FeedBounded
<1>4. CASE UNCHANGED Feed!vars
  BY <1>4 DEF Feed!vars, FeedBounded
<1> QED BY <1>1, <1>2, <1>3, <1>4 DEF Feed!Next, Feed!Poll, Feed!SwitchTab

LEMMA FeedBoundedTypes == Sworn /\ FeedBounded => Feed!TypeOK
<1> SUFFICES ASSUME Sworn, FeedBounded PROVE Feed!TypeOK
  OBVIOUS
<1>1. now \in 1 .. MaxFeedTime /\ logs \in Seq(Feed!Log) /\ flying \in SUBSET Feed!Log
  BY DEF Sworn, SoundLogs
<1>2. PICK c \in 0 .. Len(logs) : Grasp(logs, feed, since, c)
  BY DEF Sworn
<1>3. \A k \in 0 .. c : k \in 0 .. Len(logs)
  BY <1>1, <1>2
<1>4. feed \subseteq Feed!Item
  BY <1>1, <1>2, <1>3, ActIs DEF Grasp
<1>5. since \in 0 .. MaxFeedTime
  <2>1. PICK w : w = Prefix(logs, c)
    OBVIOUS
  <2>2. w \in Seq(Feed!Log) /\ Len(w) \in Nat
    BY <1>1, <1>2, <2>1, PrefixIs
  <2>3. since = Feed!Cursor(Feed!Activity(w))
    BY <1>2, <2>1 DEF Grasp, Mark, Act
  <2>4. since = 0 \/ \E j \in 1 .. Len(w) : since = w[j].ts
    BY <2>2, <2>3, CursorIs
  <2>5. \A j \in 1 .. Len(w) : w[j].ts \in 1 .. MaxFeedTime
    <3>1. \A j \in 1 .. Len(w) : w[j] \in Feed!Log
      BY <2>2
    <3> QED BY <3>1 DEF Feed!Log
  <2> QED BY <2>4, <2>5, FeedAssumption
<1>6. Feed!Range(logs) \subseteq Feed!Log
  BY <1>1 DEF Feed!Range
<1> QED BY <1>1, <1>4, <1>5, <1>6 DEF FeedBounded, Feed!TypeOK

-----------------------------------------------------------------------------
(* The list of pending changes: for each change, the last thing on its way *)
(* that is about it, or else the list, is right, as long as no event       *)
(* overtakes what is queued or the init; an init that is still awaited is  *)
(* right in its place.                                                     *)

(* What a message says of a change: that it is pending, that it is not, or *)
(* nothing.                                                                *)
Concerns(m, c) == m.type = "init" \/ (m.type \in {"tracked", "kept", "version"} /\ m.id = c)

Tells(m, c) ==
  CASE m.type = "init" -> c \in m.rows
    [] m.type = "kept" -> FALSE
    [] OTHER -> TRUE

IsRight(m, c, p) == Concerns(m, c) /\ (Tells(m, c) <=> c \in p)

(* The last of the messages q about c says whether it is among p; none is  *)
(* about it.                                                               *)
Silent(q, c) == \A i \in 1 .. Len(q) : ~Concerns(q[i], c)

Right(q, c, p) ==
  \E i \in 1 .. Len(q) :
    IsRight(q[i], c, p) /\ \A j \in i + 1 .. Len(q) : ~Concerns(q[j], c)

-----------------------------------------------------------------------------
Message ==
  Link!Event \cup [type : {"init"}, rows : SUBSET ListChange]
        \cup [type : {"core-status", "unclaimed"}]

(* Nothing that the bridge only drops reaches the webview.                 *)
Sendable(q) == \A i \in 1 .. Len(q) : q[i].type # "unclaimed"

HasInit(q) == \E i \in 1 .. Len(q) : q[i].type = "init"

OneInit(q) ==
  \A i, j \in 1 .. Len(q) : q[i].type = "init" /\ q[j].type = "init" => i = j

(* No event comes before the init in q, and what it says is right at c.    *)
Quiet(q) ==
  \E k \in 1 .. Len(q) :
    q[k].type = "init" /\ \A j \in 1 .. k - 1 : q[j].type = "unclaimed"

RowsRight(q, c, p) ==
  \A k \in 1 .. Len(q) : q[k].type = "init" => (c \in q[k].rows <=> c \in p)

Types ==
  /\ pipe \in Seq(Message) /\ queue \in Seq(Message) /\ posted \in Seq(Message)
  /\ Sendable(queue) /\ Sendable(posted)
  /\ pending \subseteq ListChange /\ rows \subseteq ListChange \cup {Nil}
  /\ panel \in {"none", "loading", "ready"} /\ crossed \in BOOLEAN /\ told \in BOOLEAN
  /\ fetch \in [stage : {"none", "asked", "answered", "have", "failed"},
                flush : BOOLEAN, snap : SUBSET ListChange]

(* One reply is under way while the fetch waits for it.                    *)
Replies == OneInit(pipe) /\ (HasInit(pipe) <=> fetch.stage = "answered")

(* The queue is emptied by the first fetch of a panel that is ready.       *)
Queues ==
  /\ panel = "none" => fetch = Link!NoFetch /\ queue = <<>> /\ posted = <<>>
  /\ panel = "ready" /\ (fetch.stage = "none" \/ ~fetch.flush) => queue = <<>>
  /\ panel = "loading" => ~fetch.flush

(* The last event on its way is the latest.                                *)
RightOrSilent(q, c, p) == Right(q, c, p) \/ Silent(q, c)

(* Of these the core has not said what became of them.                     *)
Unsure == missed \cup Link!Resolving

EventsRight == \A c \in ListChange \ Unsure : RightOrSilent(Link!Unclaimed(pipe), c, pending)

Listed(c) == told => (c \in rows <=> c \in pending)

Posted(c) == Right(posted, c, pending) \/ (Silent(posted, c) /\ Listed(c))

Queued(c) == Right(queue, c, pending) \/ (Silent(queue, c) /\ Posted(c))

Piped(c) == Right(pipe, c, pending) \/ (Silent(pipe, c) /\ Queued(c))

Snapped(c) == c \in fetch.snap <=> c \in pending

(* The init that the fetch has goes before the queue, if the panel is      *)
(* ready.                                                                  *)
Had(c) ==
  \/ Right(pipe, c, pending)
  \/ /\ Silent(pipe, c)
     /\ \/ panel = "ready" /\ Right(queue, c, pending)
        \/ (panel = "ready" => Silent(queue, c)) /\ Snapped(c)

(* ... and so does the one in the pipe, if no event overtakes the queue.   *)
Replied(c) ==
  \/ Right(Link!Unclaimed(pipe), c, pending)
  \/ /\ Silent(Link!Unclaimed(pipe), c)
     /\ \/ Right(queue, c, pending)
        \/ Silent(queue, c) /\ RowsRight(pipe, c, pending)

Overtaken == fetch.stage = "answered" /\ panel = "ready" /\ queue # <<>>

WillAgree(c) ==
  /\ fetch.stage = "have" => Had(c)
  /\ Overtaken /\ Quiet(pipe) => Replied(c)
  /\ fetch.stage # "have" /\ ~Overtaken => Piped(c)

Agreeing == panel # "none" /\ ~crossed => \A c \in ListChange \ Unsure : WillAgree(c)

Carried == Types /\ Replies /\ Queues /\ EventsRight /\ Agreeing

(* What is being archived has left the map.                                *)
Leaving == pending \subseteq known /\ Link!Resolving \subseteq known \ pending

LinkIInv == Carried /\ Leaving

-----------------------------------------------------------------------------
(* One more message, one less, and two sequences of them.                  *)
LEMMA AppendIs ==
  ASSUME NEW q \in Seq(Message), NEW m \in Message
  PROVE  /\ Append(q, m) \in Seq(Message) /\ Len(q) \in Nat
         /\ Len(Append(q, m)) = Len(q) + 1 /\ Append(q, m)[Len(q) + 1] = m
         /\ \A i \in 1 .. Len(q) : Append(q, m)[i] = q[i]
  OBVIOUS

LEMMA OneMore ==
  ASSUME NEW q \in Seq(Message), NEW m \in Message, NEW c, NEW p
  PROVE  /\ Silent(Append(q, m), c) <=> Silent(q, c) /\ ~Concerns(m, c)
         /\ Right(Append(q, m), c, p) <=>
              IsRight(m, c, p) \/ (~Concerns(m, c) /\ Right(q, c, p))
<1> DEFINE z == Append(q, m)
<1>1. /\ Len(q) \in Nat /\ Len(z) = Len(q) + 1 /\ z[Len(q) + 1] = m
      /\ \A i \in 1 .. Len(q) : z[i] = q[i]
  BY AppendIs
<1> HIDE DEF z
<1>2. \A i \in 1 .. Len(z) : i \in 1 .. Len(q) \/ i = Len(q) + 1
  BY <1>1
<1>3. Silent(z, c) <=> Silent(q, c) /\ ~Concerns(m, c)
  <2>1. Silent(z, c) => Silent(q, c) /\ ~Concerns(m, c)
    BY <1>1 DEF Silent
  <2>2. Silent(q, c) /\ ~Concerns(m, c) => Silent(z, c)
    BY <1>1, <1>2 DEF Silent
  <2> QED BY <2>1, <2>2
<1>4. ASSUME Right(z, c, p) PROVE IsRight(m, c, p) \/ (~Concerns(m, c) /\ Right(q, c, p))
  <2>1. PICK i \in 1 .. Len(z) : IsRight(z[i], c, p) /\ \A j \in i + 1 .. Len(z) : ~Concerns(z[j], c)
    BY <1>4 DEF Right
  <2>2. CASE i = Len(q) + 1
    BY <1>1, <2>1, <2>2
  <2>3. CASE i \in 1 .. Len(q)
    <3>1. Len(q) + 1 \in i + 1 .. Len(z) /\ \A j \in i + 1 .. Len(q) : j \in i + 1 .. Len(z) /\ j \in 1 .. Len(q)
      BY <1>1, <2>3
    <3>2. ~Concerns(m, c) /\ IsRight(q[i], c, p) /\ \A j \in i + 1 .. Len(q) : ~Concerns(q[j], c)
      BY <1>1, <2>1, <2>3, <3>1
    <3> QED BY <2>3, <3>2 DEF Right
  <2> QED BY <1>2, <2>2, <2>3
<1>5. ASSUME IsRight(m, c, p) PROVE Right(z, c, p)
  <2>1. Len(q) + 1 \in 1 .. Len(z) /\ \A j \in (Len(q) + 1) + 1 .. Len(z) : FALSE
    BY <1>1
  <2> QED BY <1>1, <1>5, <2>1 DEF Right
<1>6. ASSUME ~Concerns(m, c), Right(q, c, p) PROVE Right(z, c, p)
  <2>1. PICK i \in 1 .. Len(q) : IsRight(q[i], c, p) /\ \A j \in i + 1 .. Len(q) : ~Concerns(q[j], c)
    BY <1>6 DEF Right
  <2>2. i \in 1 .. Len(z) /\ z[i] = q[i]
    BY <1>1
  <2>3. \A j \in i + 1 .. Len(z) : (j \in i + 1 .. Len(q) /\ j \in 1 .. Len(q)) \/ j = Len(q) + 1
    BY <1>1
  <2>4. \A j \in i + 1 .. Len(z) : ~Concerns(z[j], c)
    BY <1>1, <1>6, <2>1, <2>3
  <2> QED BY <2>1, <2>2, <2>4 DEF Right
<1> QED BY <1>3, <1>4, <1>5, <1>6 DEF z

LEMMA TailOf ==
  ASSUME NEW q \in Seq(Message), q # <<>>
  PROVE  /\ Tail(q) \in Seq(Message) /\ Len(Tail(q)) = Len(q) - 1 /\ Len(q) \in Nat \ {0}
         /\ \A i \in 1 .. Len(q) - 1 : Tail(q)[i] = q[i + 1]
         /\ Head(q) = q[1] /\ q[1] \in Message
  OBVIOUS

LEMMA OneLess ==
  ASSUME NEW q \in Seq(Message), q # <<>>, NEW c, NEW p
  PROVE  /\ Silent(q, c) <=> Silent(Tail(q), c) /\ ~Concerns(Head(q), c)
         /\ Right(q, c, p) <=>
              Right(Tail(q), c, p) \/ (Silent(Tail(q), c) /\ IsRight(Head(q), c, p))
<1> DEFINE z == Tail(q)
<1>1. /\ Len(z) = Len(q) - 1 /\ Len(q) \in Nat \ {0} /\ Head(q) = q[1]
      /\ \A i \in 1 .. Len(q) - 1 : z[i] = q[i + 1]
  BY TailOf
<1> HIDE DEF z
<1>2. \A i \in 1 .. Len(q) : i = 1 \/ (i - 1 \in 1 .. Len(z) /\ q[i] = z[i - 1])
  BY <1>1
<1>3. \A i \in 1 .. Len(z) : i + 1 \in 1 .. Len(q) /\ z[i] = q[i + 1] /\ i + 1 \in 2 .. Len(q)
  BY <1>1
<1>0. 1 \in 1 .. Len(q)
  BY <1>1
<1>4. Silent(q, c) <=> Silent(z, c) /\ ~Concerns(Head(q), c)
  <2>1. Silent(q, c) => Silent(z, c) /\ ~Concerns(Head(q), c)
    BY <1>0, <1>1, <1>3 DEF Silent
  <2>2. Silent(z, c) /\ ~Concerns(Head(q), c) => Silent(q, c)
    BY <1>1, <1>2 DEF Silent
  <2> QED BY <2>1, <2>2
<1>5. ASSUME Right(q, c, p) PROVE Right(z, c, p) \/ (Silent(z, c) /\ IsRight(Head(q), c, p))
  <2>1. PICK i \in 1 .. Len(q) : IsRight(q[i], c, p) /\ \A j \in i + 1 .. Len(q) : ~Concerns(q[j], c)
    BY <1>5 DEF Right
  <2>2. CASE i = 1
    BY <1>1, <1>3, <2>1, <2>2 DEF Silent
  <2>3. CASE i # 1
    <3>1. i - 1 \in 1 .. Len(z) /\ q[i] = z[i - 1]
      BY <1>2, <2>3
    <3>2. \A j \in (i - 1) + 1 .. Len(z) : j + 1 \in i + 1 .. Len(q) /\ z[j] = q[j + 1]
      BY <1>1, <3>1
    <3>3. \A j \in (i - 1) + 1 .. Len(z) : ~Concerns(z[j], c)
      BY <2>1, <3>2
    <3> QED BY <2>1, <3>1, <3>3 DEF Right
  <2> QED BY <2>2, <2>3
<1>6. ASSUME Right(z, c, p) PROVE Right(q, c, p)
  <2>1. PICK i \in 1 .. Len(z) : IsRight(z[i], c, p) /\ \A j \in i + 1 .. Len(z) : ~Concerns(z[j], c)
    BY <1>6 DEF Right
  <2>2. i + 1 \in 1 .. Len(q) /\ z[i] = q[i + 1]
    BY <1>3
  <2>3. \A j \in (i + 1) + 1 .. Len(q) : j - 1 \in i + 1 .. Len(z) /\ q[j] = z[j - 1]
    BY <1>1
  <2>4. \A j \in (i + 1) + 1 .. Len(q) : ~Concerns(q[j], c)
    BY <2>1, <2>3
  <2> QED BY <2>1, <2>2, <2>4 DEF Right
<1>7. ASSUME Silent(z, c), IsRight(Head(q), c, p) PROVE Right(q, c, p)
  <2>1. \A j \in 1 + 1 .. Len(q) : j - 1 \in 1 .. Len(z) /\ q[j] = z[j - 1]
    BY <1>1
  <2>2. \A j \in 1 + 1 .. Len(q) : ~Concerns(q[j], c)
    BY <1>7, <2>1 DEF Silent
  <2> QED BY <1>0, <1>1, <1>7, <2>2 DEF Right
<1> QED BY <1>4, <1>5, <1>6, <1>7 DEF z

LEMMA ConcatIs ==
  ASSUME NEW q \in Seq(Message), NEW w \in Seq(Message)
  PROVE  /\ q \o w \in Seq(Message) /\ Len(q \o w) = Len(q) + Len(w)
         /\ Len(q) \in Nat /\ Len(w) \in Nat
         /\ \A i \in 1 .. Len(q) : (q \o w)[i] = q[i]
         /\ \A i \in 1 .. Len(w) : (q \o w)[Len(q) + i] = w[i]
         /\ \A i \in 1 .. Len(q) + Len(w) : i > Len(q) => (q \o w)[i] = w[i - Len(q)]
  OBVIOUS

LEMMA Two ==
  ASSUME NEW q \in Seq(Message), NEW w \in Seq(Message), NEW c, NEW p
  PROVE  /\ Silent(q \o w, c) <=> Silent(q, c) /\ Silent(w, c)
         /\ Right(q \o w, c, p) <=> Right(w, c, p) \/ (Silent(w, c) /\ Right(q, c, p))
<1> DEFINE z == q \o w
<1>1. /\ Len(z) = Len(q) + Len(w) /\ Len(q) \in Nat /\ Len(w) \in Nat
      /\ \A i \in 1 .. Len(q) : z[i] = q[i]
      /\ \A i \in 1 .. Len(w) : z[Len(q) + i] = w[i]
      /\ \A i \in 1 .. Len(q) + Len(w) : i > Len(q) => z[i] = w[i - Len(q)]
  BY ConcatIs
<1> HIDE DEF z
<1>2. \A i \in 1 .. Len(z) :
        (i \in 1 .. Len(q) /\ z[i] = q[i]) \/ (i - Len(q) \in 1 .. Len(w) /\ z[i] = w[i - Len(q)])
  <2> TAKE i \in 1 .. Len(z)
  <2>1. CASE i <= Len(q)
    BY <1>1, <2>1
  <2>2. CASE i > Len(q)
    BY <1>1, <2>2
  <2> QED BY <1>1, <2>1, <2>2
<1>3. /\ \A i \in 1 .. Len(q) : i \in 1 .. Len(z) /\ z[i] = q[i]
      /\ \A i \in 1 .. Len(w) : Len(q) + i \in 1 .. Len(z) /\ z[Len(q) + i] = w[i]
  BY <1>1
<1>4. Silent(z, c) <=> Silent(q, c) /\ Silent(w, c)
  <2>1. Silent(z, c) => Silent(q, c) /\ Silent(w, c)
    BY <1>3 DEF Silent
  <2>2. Silent(q, c) /\ Silent(w, c) => Silent(z, c)
    BY <1>2 DEF Silent
  <2> QED BY <2>1, <2>2
<1>5. ASSUME Right(z, c, p) PROVE Right(w, c, p) \/ (Silent(w, c) /\ Right(q, c, p))
  <2>1. PICK i \in 1 .. Len(z) : IsRight(z[i], c, p) /\ \A j \in i + 1 .. Len(z) : ~Concerns(z[j], c)
    BY <1>5 DEF Right
  <2>2. CASE i \in 1 .. Len(q) /\ z[i] = q[i]
    <3>1. /\ \A j \in 1 .. Len(w) : Len(q) + j \in i + 1 .. Len(z)
          /\ \A j \in i + 1 .. Len(q) : j \in i + 1 .. Len(z) /\ j \in 1 .. Len(q)
      BY <1>1, <2>2
    <3>2. Silent(w, c)
      BY <1>3, <2>1, <3>1 DEF Silent
    <3>3. \A j \in i + 1 .. Len(q) : ~Concerns(q[j], c)
      BY <1>3, <2>1, <3>1
    <3> QED BY <2>1, <2>2, <3>2, <3>3 DEF Right
  <2>3. CASE i - Len(q) \in 1 .. Len(w) /\ z[i] = w[i - Len(q)]
    <3>1. \A j \in (i - Len(q)) + 1 .. Len(w) : Len(q) + j \in i + 1 .. Len(z) /\ j \in 1 .. Len(w)
      BY <1>1, <2>3
    <3>2. \A j \in (i - Len(q)) + 1 .. Len(w) : ~Concerns(w[j], c)
      BY <1>3, <2>1, <3>1
    <3> QED BY <2>1, <2>3, <3>2 DEF Right
  <2> QED BY <1>2, <2>2, <2>3
<1>6. ASSUME Right(w, c, p) PROVE Right(z, c, p)
  <2>1. PICK i \in 1 .. Len(w) : IsRight(w[i], c, p) /\ \A j \in i + 1 .. Len(w) : ~Concerns(w[j], c)
    BY <1>6 DEF Right
  <2>2. Len(q) + i \in 1 .. Len(z) /\ z[Len(q) + i] = w[i]
    BY <1>3
  <2>3. \A j \in (Len(q) + i) + 1 .. Len(z) :
          j - Len(q) \in i + 1 .. Len(w) /\ j > Len(q) /\ j \in 1 .. Len(q) + Len(w)
    BY <1>1
  <2>4. \A j \in (Len(q) + i) + 1 .. Len(z) : ~Concerns(z[j], c)
    BY <1>1, <2>1, <2>3
  <2> QED BY <2>1, <2>2, <2>4 DEF Right
<1>7. ASSUME Silent(w, c), Right(q, c, p) PROVE Right(z, c, p)
  <2>1. PICK i \in 1 .. Len(q) : IsRight(q[i], c, p) /\ \A j \in i + 1 .. Len(q) : ~Concerns(q[j], c)
    BY <1>7 DEF Right
  <2>2. i \in 1 .. Len(z) /\ z[i] = q[i]
    BY <1>3
  <2>3. ASSUME NEW j \in i + 1 .. Len(z) PROVE ~Concerns(z[j], c)
    <3>1. j \in 1 .. Len(z)
      BY <1>1
    <3>2. CASE j \in 1 .. Len(q) /\ z[j] = q[j]
      <4>1. j \in i + 1 .. Len(q)
        BY <1>1, <3>2
      <4> QED BY <2>1, <3>2, <4>1
    <3>3. CASE j - Len(q) \in 1 .. Len(w) /\ z[j] = w[j - Len(q)]
      BY <1>7, <3>3 DEF Silent
    <3> QED BY <1>2, <3>1, <3>2, <3>3
  <2> QED BY <2>1, <2>2, <2>3 DEF Right
<1> QED BY <1>4, <1>5, <1>6, <1>7 DEF z

LEMMA NothingSaid == \A c, p : Silent(<<>>, c) /\ ~Right(<<>>, c, p)
  BY DEF Silent, Right

(* What is pending matters at the change alone.                            *)
LEMMA SameAt ==
  ASSUME NEW q, NEW c, NEW p, NEW p1, c \in p <=> c \in p1
  PROVE  Right(q, c, p) <=> Right(q, c, p1)
  BY DEF Right, IsRight

LEMMA UnclaimedIs ==
  ASSUME NEW q \in Seq(Message)
  PROVE  /\ Link!Unclaimed(q) \in Seq(Message) /\ Len(Link!Unclaimed(q)) = Len(q)
         /\ \A i \in 1 .. Len(q) : Link!Unclaimed(q)[i] =
              IF q[i].type = "init" THEN [type |-> "unclaimed"] ELSE q[i]
         /\ DOMAIN Link!Unclaimed(q) = 1 .. Len(q)
<1>1. [type |-> "unclaimed"] \in Message
  BY DEF Message
<1>2. DOMAIN q = 1 .. Len(q) /\ Len(q) \in Nat /\ \A i \in 1 .. Len(q) : q[i] \in Message
  OBVIOUS
<1>3. Link!Unclaimed(q) = [i \in 1 .. Len(q) |-> IF q[i].type = "init" THEN [type |-> "unclaimed"] ELSE q[i]]
  BY <1>2 DEF Link!Unclaimed
<1>4. \A i \in 1 .. Len(q) : (IF q[i].type = "init" THEN [type |-> "unclaimed"] ELSE q[i]) \in Message
  BY <1>1, <1>2
<1> QED BY <1>2, <1>3, <1>4

LEMMA SameSeq ==
  ASSUME NEW q \in Seq(Message), NEW w \in Seq(Message), Len(q) = Len(w),
         \A i \in 1 .. Len(q) : q[i] = w[i]
  PROVE  q = w
  OBVIOUS

Plain(m) == IF m.type = "init" THEN [type |-> "unclaimed"] ELSE m

LEMMA PlainIs ==
  ASSUME NEW m \in Message
  PROVE  /\ Plain(m) \in Message /\ Plain(m).type # "init"
         /\ m.type = "init" => \A c : ~Concerns(Plain(m), c)
         /\ m.type # "init" => Plain(m) = m
<1>1. [type |-> "unclaimed"] \in Message
  BY DEF Message
<1> QED BY <1>1 DEF Plain, Concerns

LEMMA UnclaimedMore ==
  ASSUME NEW q \in Seq(Message), NEW m \in Message
  PROVE  Link!Unclaimed(Append(q, m)) = Append(Link!Unclaimed(q), Plain(m))
<1> DEFINE z == Append(q, m)
           u == Link!Unclaimed(q)
           w == Append(u, Plain(m))
<1>1. /\ z \in Seq(Message) /\ Len(q) \in Nat /\ Len(z) = Len(q) + 1 /\ z[Len(q) + 1] = m
      /\ \A i \in 1 .. Len(q) : z[i] = q[i]
  BY AppendIs
<1>2. u \in Seq(Message) /\ Len(u) = Len(q) /\ \A i \in 1 .. Len(q) : u[i] = Plain(q[i])
  BY UnclaimedIs DEF Plain
<1> HIDE DEF z, u
<1>3. /\ w \in Seq(Message) /\ Len(w) = Len(q) + 1 /\ w[Len(q) + 1] = Plain(m)
      /\ \A i \in 1 .. Len(q) : w[i] = u[i]
  BY <1>2, PlainIs, AppendIs
<1> HIDE DEF w
<1>4. /\ Link!Unclaimed(z) \in Seq(Message) /\ Len(Link!Unclaimed(z)) = Len(z)
      /\ \A i \in 1 .. Len(z) : Link!Unclaimed(z)[i] = Plain(z[i])
  BY <1>1, UnclaimedIs DEF Plain
<1>5. \A i \in 1 .. Len(z) : i \in 1 .. Len(q) \/ i = Len(q) + 1
  BY <1>1
<1>6. \A i \in 1 .. Len(Link!Unclaimed(z)) : Link!Unclaimed(z)[i] = w[i]
  BY <1>1, <1>2, <1>3, <1>4, <1>5
<1>7. Link!Unclaimed(z) = w
  BY <1>1, <1>3, <1>4, <1>6, SameSeq
<1> QED BY <1>7 DEF z, w, u

LEMMA UnclaimedLess ==
  ASSUME NEW q \in Seq(Message), q # <<>>
  PROVE  /\ Link!Unclaimed(Tail(q)) = Tail(Link!Unclaimed(q)) /\ Link!Unclaimed(q) # <<>>
         /\ Head(Link!Unclaimed(q)) = Plain(Head(q))
<1> DEFINE z == Tail(q)
           u == Link!Unclaimed(q)
<1>1. /\ z \in Seq(Message) /\ Len(z) = Len(q) - 1 /\ Len(q) \in Nat \ {0}
      /\ \A i \in 1 .. Len(q) - 1 : z[i] = q[i + 1]
      /\ Head(q) = q[1]
  BY TailOf
<1>2. u \in Seq(Message) /\ Len(u) = Len(q) /\ \A i \in 1 .. Len(q) : u[i] = Plain(q[i])
  BY UnclaimedIs DEF Plain
<1> HIDE DEF z, u
<1>3. u # <<>>
  BY <1>1, <1>2
<1>4. /\ Tail(u) \in Seq(Message) /\ Len(Tail(u)) = Len(u) - 1 /\ Head(u) = u[1]
      /\ \A i \in 1 .. Len(u) - 1 : Tail(u)[i] = u[i + 1]
  BY <1>2, <1>3, TailOf
<1>5. /\ Link!Unclaimed(z) \in Seq(Message) /\ Len(Link!Unclaimed(z)) = Len(z)
      /\ \A i \in 1 .. Len(z) : Link!Unclaimed(z)[i] = Plain(z[i])
  BY <1>1, UnclaimedIs DEF Plain
<1>6. \A i \in 1 .. Len(z) : i + 1 \in 1 .. Len(q) /\ i \in 1 .. Len(q) - 1
  BY <1>1
<1>7. \A i \in 1 .. Len(Link!Unclaimed(z)) : Link!Unclaimed(z)[i] = Tail(u)[i]
  BY <1>1, <1>2, <1>4, <1>5, <1>6
<1>8. Link!Unclaimed(z) = Tail(u)
  BY <1>1, <1>2, <1>4, <1>5, <1>7, SameSeq
<1>9. 1 \in 1 .. Len(q)
  BY <1>1
<1> QED BY <1>1, <1>2, <1>3, <1>4, <1>8, <1>9 DEF z, u

LEMMA NothingUnclaimed ==
  ASSUME NEW q \in Seq(Message), ~HasInit(q)
  PROVE  Link!Unclaimed(q) = q
<1>1. /\ Link!Unclaimed(q) \in Seq(Message) /\ Len(Link!Unclaimed(q)) = Len(q)
      /\ \A i \in 1 .. Len(q) : Link!Unclaimed(q)[i] = q[i]
  BY UnclaimedIs DEF HasInit
<1> QED BY <1>1, SameSeq

LEMMA AllUnclaimed ==
  ASSUME NEW q \in Seq(Message)
  PROVE  /\ ~HasInit(Link!Unclaimed(q)) /\ OneInit(Link!Unclaimed(q))
         /\ Link!Unclaimed(Link!Unclaimed(q)) = Link!Unclaimed(q)
<1>1. /\ Link!Unclaimed(q) \in Seq(Message) /\ Len(Link!Unclaimed(q)) = Len(q)
      /\ \A i \in 1 .. Len(q) : Link!Unclaimed(q)[i].type # "init"
  BY UnclaimedIs
<1>2. ~HasInit(Link!Unclaimed(q)) /\ OneInit(Link!Unclaimed(q))
  BY <1>1 DEF HasInit, OneInit
<1> QED BY <1>1, <1>2, NothingUnclaimed

(* The init in a sequence, and the sendable ones, with one message more or *)
(* less.                                                                   *)
LEMMA InitMore ==
  ASSUME NEW q \in Seq(Message), NEW m \in Message
  PROVE  /\ HasInit(Append(q, m)) <=> HasInit(q) \/ m.type = "init"
         /\ OneInit(q) /\ (m.type = "init" => ~HasInit(q)) => OneInit(Append(q, m))
         /\ Sendable(q) /\ m.type # "unclaimed" => Sendable(Append(q, m))
<1> DEFINE z == Append(q, m)
<1>1. /\ Len(q) \in Nat /\ Len(z) = Len(q) + 1 /\ z[Len(q) + 1] = m
      /\ \A i \in 1 .. Len(q) : z[i] = q[i]
  BY AppendIs
<1> HIDE DEF z
<1>2. /\ \A i \in 1 .. Len(z) : i \in 1 .. Len(q) \/ i = Len(q) + 1
      /\ Len(q) + 1 \in 1 .. Len(z) /\ \A i \in 1 .. Len(q) : i \in 1 .. Len(z)
  BY <1>1
<1>3. HasInit(z) => HasInit(q) \/ m.type = "init"
  BY <1>1, <1>2 DEF HasInit
<1>4. HasInit(q) => HasInit(z)
  BY <1>1, <1>2 DEF HasInit
<1>5. m.type = "init" => HasInit(z)
  BY <1>1, <1>2 DEF HasInit
<1>6. Sendable(q) /\ m.type # "unclaimed" => Sendable(z)
  BY <1>1, <1>2 DEF Sendable
<1>7. ASSUME OneInit(q), m.type = "init" => ~HasInit(q) PROVE OneInit(z)
  <2> SUFFICES ASSUME NEW i \in 1 .. Len(z), NEW j \in 1 .. Len(z),
                      z[i].type = "init", z[j].type = "init"
               PROVE  i = j
    BY DEF OneInit
  <2>1. CASE i \in 1 .. Len(q) /\ j \in 1 .. Len(q)
    BY <1>1, <1>7, <2>1 DEF OneInit
  <2>2. CASE i = Len(q) + 1
    BY <1>1, <1>2, <1>7, <2>2 DEF HasInit
  <2>3. CASE j = Len(q) + 1
    BY <1>1, <1>2, <1>7, <2>3 DEF HasInit
  <2> QED BY <1>2, <2>1, <2>2, <2>3
<1> QED BY <1>3, <1>4, <1>5, <1>6, <1>7 DEF z

LEMMA InitLess ==
  ASSUME NEW q \in Seq(Message), q # <<>>
  PROVE  /\ HasInit(q) <=> HasInit(Tail(q)) \/ Head(q).type = "init"
         /\ OneInit(q) => OneInit(Tail(q)) /\ (Head(q).type = "init" => ~HasInit(Tail(q)))
         /\ Sendable(q) => Sendable(Tail(q)) /\ Head(q).type # "unclaimed"
<1> DEFINE z == Tail(q)
<1>1. /\ Len(z) = Len(q) - 1 /\ Len(q) \in Nat \ {0} /\ Head(q) = q[1]
      /\ \A i \in 1 .. Len(q) - 1 : z[i] = q[i + 1]
  BY TailOf
<1> HIDE DEF z
<1>2. /\ \A i \in 1 .. Len(q) : i = 1 \/ (i - 1 \in 1 .. Len(z) /\ q[i] = z[i - 1])
      /\ \A i \in 1 .. Len(z) : i + 1 \in 1 .. Len(q) /\ z[i] = q[i + 1] /\ i + 1 # 1
      /\ 1 \in 1 .. Len(q)
  BY <1>1
<1>3. HasInit(q) => HasInit(z) \/ Head(q).type = "init"
  BY <1>1, <1>2 DEF HasInit
<1>4. HasInit(z) => HasInit(q)
  BY <1>2 DEF HasInit
<1>5. Head(q).type = "init" => HasInit(q)
  BY <1>1, <1>2 DEF HasInit
<1>6. Sendable(q) => Sendable(z) /\ Head(q).type # "unclaimed"
  BY <1>1, <1>2 DEF Sendable
<1>7. ASSUME OneInit(q) PROVE OneInit(z)
  <2> SUFFICES ASSUME NEW i \in 1 .. Len(z), NEW j \in 1 .. Len(z),
                      z[i].type = "init", z[j].type = "init"
               PROVE  i = j
    BY DEF OneInit
  <2>1. i + 1 = j + 1
    BY <1>2, <1>7 DEF OneInit
  <2> QED BY <2>1
<1>8. ASSUME OneInit(q), Head(q).type = "init" PROVE ~HasInit(z)
  BY <1>1, <1>2, <1>8 DEF HasInit, OneInit
<1> QED BY <1>3, <1>4, <1>5, <1>6, <1>7, <1>8 DEF z

(* A quiet sequence, with one message more or less.                        *)
LEMMA QuietMore ==
  ASSUME NEW q \in Seq(Message), NEW m \in Message, NEW c, NEW p
  PROVE  /\ m.type # "init" /\ Quiet(Append(q, m)) => Quiet(q)
         /\ RowsRight(Append(q, m), c, p) <=>
              RowsRight(q, c, p) /\ (m.type = "init" => (c \in m.rows <=> c \in p))
         /\ ~HasInit(q) /\ m.type = "init" /\ Quiet(Append(q, m)) => Silent(q, c)
<1> DEFINE z == Append(q, m)
<1>1. /\ Len(q) \in Nat /\ Len(z) = Len(q) + 1 /\ z[Len(q) + 1] = m
      /\ \A i \in 1 .. Len(q) : z[i] = q[i]
  BY AppendIs
<1> HIDE DEF z
<1>2. /\ \A i \in 1 .. Len(z) : i \in 1 .. Len(q) \/ i = Len(q) + 1
      /\ Len(q) + 1 \in 1 .. Len(z) /\ \A i \in 1 .. Len(q) : i \in 1 .. Len(z)
  BY <1>1
<1>3. ASSUME m.type # "init", Quiet(z) PROVE Quiet(q)
  <2>1. PICK k \in 1 .. Len(z) : z[k].type = "init" /\ \A j \in 1 .. k - 1 : z[j].type = "unclaimed"
    BY <1>3 DEF Quiet
  <2>2. k \in 1 .. Len(q)
    BY <1>1, <1>2, <1>3, <2>1
  <2>3. \A j \in 1 .. k - 1 : j \in 1 .. Len(q)
    BY <1>1, <2>2
  <2> QED BY <1>1, <2>1, <2>2, <2>3 DEF Quiet
<1>4. RowsRight(z, c, p) => RowsRight(q, c, p) /\ (m.type = "init" => (c \in m.rows <=> c \in p))
  BY <1>1, <1>2 DEF RowsRight
<1>5. RowsRight(q, c, p) /\ (m.type = "init" => (c \in m.rows <=> c \in p)) => RowsRight(z, c, p)
  BY <1>1, <1>2 DEF RowsRight
<1>6. ASSUME ~HasInit(q), m.type = "init", Quiet(z) PROVE Silent(q, c)
  <2>1. PICK k \in 1 .. Len(z) : z[k].type = "init" /\ \A j \in 1 .. k - 1 : z[j].type = "unclaimed"
    BY <1>6 DEF Quiet
  <2>2. k = Len(q) + 1
    BY <1>1, <1>2, <1>6, <2>1 DEF HasInit
  <2>3. \A j \in 1 .. Len(q) : j \in 1 .. k - 1
    BY <1>1, <2>2
  <2>4. \A j \in 1 .. Len(q) : q[j].type = "unclaimed"
    BY <1>1, <2>1, <2>3
  <2> QED BY <2>4 DEF Silent, Concerns
<1> QED BY <1>3, <1>4, <1>5, <1>6 DEF z

LEMMA QuietLess ==
  ASSUME NEW q \in Seq(Message), q # <<>>, NEW c, NEW p
  PROVE  /\ Head(q).type = "unclaimed" /\ Quiet(Tail(q)) => Quiet(q)
         /\ Head(q).type = "init" => Quiet(q)
         /\ RowsRight(q, c, p) =>
              RowsRight(Tail(q), c, p)
              /\ (Head(q).type = "init" => (c \in Head(q).rows <=> c \in p))
<1> DEFINE z == Tail(q)
<1>1. /\ Len(z) = Len(q) - 1 /\ Len(q) \in Nat \ {0} /\ Head(q) = q[1]
      /\ \A i \in 1 .. Len(q) - 1 : z[i] = q[i + 1]
  BY TailOf
<1> HIDE DEF z
<1>2. /\ \A i \in 1 .. Len(q) : i = 1 \/ (i - 1 \in 1 .. Len(z) /\ q[i] = z[i - 1])
      /\ \A i \in 1 .. Len(z) : i + 1 \in 1 .. Len(q) /\ z[i] = q[i + 1]
      /\ 1 \in 1 .. Len(q)
  BY <1>1
<1>3. ASSUME Head(q).type = "unclaimed", Quiet(z) PROVE Quiet(q)
  <2>1. PICK k \in 1 .. Len(z) : z[k].type = "init" /\ \A j \in 1 .. k - 1 : z[j].type = "unclaimed"
    BY <1>3 DEF Quiet
  <2>2. k + 1 \in 1 .. Len(q) /\ q[k + 1].type = "init"
    BY <1>2, <2>1
  <2>3. ASSUME NEW j \in 1 .. (k + 1) - 1 PROVE q[j].type = "unclaimed"
    <3>1. CASE j = 1
      BY <1>1, <1>3, <3>1
    <3>2. CASE j # 1
      <4>1. j - 1 \in 1 .. k - 1 /\ j \in 1 .. Len(q)
        BY <1>1, <2>1, <2>2, <3>2
      <4> QED BY <1>2, <2>1, <3>2, <4>1
    <3> QED BY <3>1, <3>2
  <2> QED BY <2>2, <2>3 DEF Quiet
<1>4. ASSUME Head(q).type = "init" PROVE Quiet(q)
  <2>1. \A j \in 1 .. 1 - 1 : FALSE
    OBVIOUS
  <2> QED BY <1>1, <1>2, <1>4, <2>1 DEF Quiet
<1>5. RowsRight(q, c, p) => RowsRight(z, c, p)
  BY <1>2 DEF RowsRight
<1>6. RowsRight(q, c, p) /\ Head(q).type = "init" => (c \in Head(q).rows <=> c \in p)
  BY <1>1, <1>2 DEF RowsRight
<1> QED BY <1>3, <1>4, <1>5, <1>6 DEF z

LEMMA NotBoth ==
  ASSUME NEW q, NEW c, NEW p, Right(q, c, p)
  PROVE  ~Silent(q, c)
  BY DEF Right, Silent, IsRight

LEMMA RowsSameAt ==
  ASSUME NEW q, NEW c, NEW p, NEW p1, c \in p <=> c \in p1
  PROVE  RowsRight(q, c, p) <=> RowsRight(q, c, p1)
  BY DEF RowsRight

-----------------------------------------------------------------------------
(* The pipe with an event more, or with a line less, at a change.          *)
Gains(z, q, m, c, p) ==
  /\ Silent(z, c) <=> Silent(q, c) /\ ~Concerns(m, c)
  /\ Right(z, c, p) <=> IsRight(m, c, p) \/ (~Concerns(m, c) /\ Right(q, c, p))
  /\ Silent(Link!Unclaimed(z), c) <=> Silent(Link!Unclaimed(q), c) /\ ~Concerns(m, c)
  /\ Right(Link!Unclaimed(z), c, p) <=>
       IsRight(m, c, p) \/ (~Concerns(m, c) /\ Right(Link!Unclaimed(q), c, p))
  /\ Quiet(z) => Quiet(q)
  /\ RowsRight(z, c, p) <=> RowsRight(q, c, p)

LEMMA EventGains ==
  ASSUME NEW q \in Seq(Message), NEW m \in Link!Event
  PROVE  /\ Append(q, m) \in Seq(Message)
         /\ HasInit(Append(q, m)) <=> HasInit(q)
         /\ OneInit(q) => OneInit(Append(q, m))
         /\ \A c, p : Gains(Append(q, m), q, m, c, p)
<1>1. m \in Message /\ m.type \in {"tracked", "kept", "version"}
  BY DEF Message, Link!Event
<1>2. Append(q, m) \in Seq(Message)
  BY <1>1, AppendIs
<1>3. Link!Unclaimed(q) \in Seq(Message) /\ Link!Unclaimed(Append(q, m)) = Append(Link!Unclaimed(q), m)
  BY <1>1, UnclaimedIs, UnclaimedMore, PlainIs
<1>4. ASSUME NEW c, NEW p PROVE Gains(Append(q, m), q, m, c, p)
  <2>1. /\ Silent(Append(q, m), c) <=> Silent(q, c) /\ ~Concerns(m, c)
        /\ Right(Append(q, m), c, p) <=> IsRight(m, c, p) \/ (~Concerns(m, c) /\ Right(q, c, p))
    BY <1>1, OneMore
  <2>2. /\ Silent(Append(Link!Unclaimed(q), m), c) <=> Silent(Link!Unclaimed(q), c) /\ ~Concerns(m, c)
        /\ Right(Append(Link!Unclaimed(q), m), c, p) <=>
             IsRight(m, c, p) \/ (~Concerns(m, c) /\ Right(Link!Unclaimed(q), c, p))
    BY <1>1, <1>3, OneMore
  <2>3. /\ Quiet(Append(q, m)) => Quiet(q)
        /\ RowsRight(Append(q, m), c, p) <=> RowsRight(q, c, p)
    BY <1>1, QuietMore
  <2> QED BY <1>3, <2>1, <2>2, <2>3 DEF Gains
<1>5. /\ HasInit(Append(q, m)) <=> HasInit(q)
      /\ OneInit(q) => OneInit(Append(q, m))
  BY <1>1, InitMore
<1> QED BY <1>2, <1>4, <1>5

(* What agrees at a change, after the core announced it or said nothing of *)
(* it.                                                                     *)
Said(c) ==
  /\ \/ Right(pipe', c, pending') /\ Right(Link!Unclaimed(pipe'), c, pending')
     \/ /\ c \notin Unsure /\ (c \in pending' <=> c \in pending)
        /\ Silent(pipe', c) <=> Silent(pipe, c)
        /\ Right(pipe', c, pending') <=> Right(pipe, c, pending)
        /\ Silent(Link!Unclaimed(pipe'), c) <=> Silent(Link!Unclaimed(pipe), c)
        /\ Right(Link!Unclaimed(pipe'), c, pending') <=> Right(Link!Unclaimed(pipe), c, pending)
        /\ RowsRight(pipe', c, pending') <=> RowsRight(pipe, c, pending)
  /\ Quiet(pipe') => Quiet(pipe)

LEMMA SayingKeeps ==
  ASSUME Carried, \A c \in ListChange \ Unsure' : Said(c),
         pipe' \in Seq(Message), pending' \subseteq ListChange,
         OneInit(pipe'), HasInit(pipe') <=> HasInit(pipe),
         UNCHANGED <<panel, queue, fetch, posted, Link!webview, crossed>>
  PROVE  Carried'
<1>1. Types /\ Replies /\ Queues /\ EventsRight /\ Agreeing
  BY DEF Carried
<1>2. Types'
  BY <1>1 DEF Types, Link!webview
<1>3. Replies'
  BY <1>1 DEF Replies
<1>4. Queues'
  BY <1>1 DEF Queues
<1>5. ASSUME NEW c \in ListChange \ Unsure' PROVE RightOrSilent(Link!Unclaimed(pipe'), c, pending')
  BY <1>1, <1>5 DEF EventsRight, RightOrSilent, Said
<1>6. ASSUME NEW c \in ListChange \ Unsure', c \in Unsure \/ WillAgree(c) PROVE WillAgree(c)'
  <2>1. CASE Right(pipe', c, pending') /\ Right(Link!Unclaimed(pipe'), c, pending')
    BY <2>1 DEF WillAgree, Had, Replied, Piped
  <2>2. CASE /\ c \notin Unsure /\ (c \in pending' <=> c \in pending)
             /\ Silent(pipe', c) <=> Silent(pipe, c)
             /\ Right(pipe', c, pending') <=> Right(pipe, c, pending)
             /\ Silent(Link!Unclaimed(pipe'), c) <=> Silent(Link!Unclaimed(pipe), c)
             /\ Right(Link!Unclaimed(pipe'), c, pending') <=> Right(Link!Unclaimed(pipe), c, pending)
             /\ RowsRight(pipe', c, pending') <=> RowsRight(pipe, c, pending)
    <3>1. /\ Right(queue, c, pending') <=> Right(queue, c, pending)
          /\ Right(posted, c, pending') <=> Right(posted, c, pending)
      BY <2>2, SameAt
    <3>2. /\ Right(queue, c, pending)' <=> Right(queue, c, pending)
          /\ Right(posted, c, pending)' <=> Right(posted, c, pending)
          /\ Silent(queue, c)' <=> Silent(queue, c)
          /\ Silent(posted, c)' <=> Silent(posted, c)
      BY <3>1
    <3>3. (Snapped(c)' <=> Snapped(c)) /\ (Listed(c)' <=> Listed(c))
      BY <2>2 DEF Snapped, Listed, Link!webview
    <3>4. Queued(c)' <=> Queued(c)
      BY <3>2, <3>3 DEF Queued, Posted
    <3>5. fetch.stage = "have" => Had(c)'
      BY <1>6, <2>2, <3>2, <3>3 DEF WillAgree, Had
    <3>6. (Overtaken' <=> Overtaken) /\ (Quiet(pipe') => Quiet(pipe))
      BY DEF Overtaken, Said
    <3>7. Overtaken /\ Quiet(pipe') => Replied(c)'
      BY <1>6, <2>2, <3>2, <3>6 DEF WillAgree, Replied
    <3>8. fetch.stage # "have" /\ ~Overtaken => Piped(c)'
      BY <1>6, <2>2, <3>4 DEF WillAgree, Piped
    <3> QED BY <3>5, <3>6, <3>7, <3>8 DEF WillAgree
  <2> QED BY <2>1, <2>2 DEF Said
<1> QED BY <1>1, <1>2, <1>3, <1>4, <1>5, <1>6 DEF Carried, EventsRight, Agreeing

LEMMA Nothing ==
  ASSUME NEW q \in Seq(Message)
  PROVE  q \o <<>> = q
  OBVIOUS

LEMMA TrackKeeps ==
  ASSUME Carried, NEW d \in ListChange, Link!Track(d)
  PROVE  Carried'
<1>0. Types /\ Replies
  BY DEF Carried
<1> DEFINE t == [type |-> "tracked", id |-> d]
           v == [type |-> "version", id |-> Nil]
           q == Append(pipe, t)
<1>1. t \in Link!Event /\ v \in Link!Event
  BY DEF Link!Event
<1>2. pipe \in Seq(Message) /\ pending \subseteq ListChange /\ OneInit(pipe)
  BY <1>0 DEF Types, Replies
<1>3. /\ q \in Seq(Message) /\ (HasInit(q) <=> HasInit(pipe)) /\ OneInit(q)
      /\ \A c, p : Gains(q, pipe, t, c, p)
  BY <1>1, <1>2, EventGains
<1>4. /\ Append(q, v) \in Seq(Message) /\ (HasInit(Append(q, v)) <=> HasInit(q))
      /\ OneInit(Append(q, v))
      /\ \A c, p : Gains(Append(q, v), q, v, c, p)
  BY <1>1, <1>3, EventGains
<1>5. pipe' = Append(q, v)
  BY <1>2 DEF Link!Track, Link!Says, Link!Tracked
<1>6. pending' = pending \cup {d} /\ UNCHANGED <<panel, queue, fetch, posted, Link!webview, crossed>>
  BY DEF Link!Track, Link!Says
<1>61. Unsure' = Unsure
  BY DEF Link!Track, Unsure, Link!Resolving
<1>7. ASSUME NEW c \in ListChange \ Unsure' PROVE Said(c)
  <2>1. ~Concerns(v, c)
    BY NilAssumption DEF Concerns
  <2> DEFINE p == pending'
             z == Append(q, v)
  <2>2. Gains(z, q, v, c, p) /\ Gains(q, pipe, t, c, p)
    BY <1>3, <1>4
  <2>3. c = d => IsRight(t, c, p)
    BY <1>6 DEF IsRight, Concerns, Tells
  <2>4. c # d => ~Concerns(t, c) /\ (c \in p <=> c \in pending)
    BY <1>6 DEF Concerns
  <2>5. ~Concerns(t, c) => ~IsRight(t, c, p)
    BY DEF IsRight
  <2>51. ~IsRight(v, c, p)
    BY <2>1 DEF IsRight
  <2> HIDE DEF p, q, t, v, z
  <2>6. c = d => Right(z, c, p) /\ Right(Link!Unclaimed(z), c, p)
    BY <2>1, <2>2, <2>3 DEF Gains
  <2>7. c # d => /\ Silent(z, c) <=> Silent(pipe, c)
                 /\ Right(z, c, p) <=> Right(pipe, c, p)
                 /\ Silent(Link!Unclaimed(z), c) <=> Silent(Link!Unclaimed(pipe), c)
                 /\ Right(Link!Unclaimed(z), c, p) <=> Right(Link!Unclaimed(pipe), c, p)
                 /\ RowsRight(z, c, p) <=> RowsRight(pipe, c, p)
    BY <2>1, <2>2, <2>4, <2>5, <2>51 DEF Gains
  <2>8. c # d => /\ Right(pipe, c, p) <=> Right(pipe, c, pending)
                 /\ Right(Link!Unclaimed(pipe), c, p) <=> Right(Link!Unclaimed(pipe), c, pending)
                 /\ RowsRight(pipe, c, p) <=> RowsRight(pipe, c, pending)
    BY <2>4, SameAt, RowsSameAt
  <2>9. Quiet(z) => Quiet(pipe)
    BY <2>2 DEF Gains
  <2>10. pipe' = z /\ pending' = p
    BY <1>5 DEF z, p
  <2> QED BY <1>61, <2>4, <2>6, <2>7, <2>8, <2>9, <2>10 DEF Said
<1> QED BY <1>2, <1>3, <1>4, <1>5, <1>6, <1>7, SayingKeeps

(* Nothing is said, of none that is sure before and after.                 *)
LEMMA SilenceKeeps ==
  ASSUME Carried, pending' \subseteq ListChange,
         UNCHANGED <<pipe, panel, queue, fetch, posted, Link!webview, crossed>>,
         \A c \in ListChange \ Unsure' : c \notin Unsure /\ (c \in pending' <=> c \in pending)
  PROVE  Carried'
<1>1. pipe \in Seq(Message) /\ OneInit(pipe)
  BY DEF Carried, Types, Replies
<1>2. ASSUME NEW c \in ListChange \ Unsure' PROVE Said(c)
  <2>1. c \notin Unsure /\ (c \in pending' <=> c \in pending) /\ pipe' = pipe
    BY <1>2
  <2>2. /\ Right(pipe, c, pending') <=> Right(pipe, c, pending)
        /\ Right(Link!Unclaimed(pipe), c, pending') <=> Right(Link!Unclaimed(pipe), c, pending)
        /\ RowsRight(pipe, c, pending') <=> RowsRight(pipe, c, pending)
    BY <2>1, SameAt, RowsSameAt
  <2> QED BY <2>1, <2>2 DEF Said
<1> QED BY <1>1, <1>2, SayingKeeps

(* An event is said that is right about the change it concerns.            *)
LEMMA AnnounceKeeps ==
  ASSUME Carried, NEW m \in Link!Event, pipe' = Append(pipe, m), pending' = pending,
         UNCHANGED <<panel, queue, fetch, posted, Link!webview, crossed>>,
         \A c \in ListChange \ Unsure' :
           IsRight(m, c, pending) \/ (~Concerns(m, c) /\ c \notin Unsure)
  PROVE  Carried'
<1> DEFINE z == Append(pipe, m)
<1>1. pipe \in Seq(Message) /\ pending \subseteq ListChange /\ OneInit(pipe)
  BY DEF Carried, Types, Replies
<1>2. /\ z \in Seq(Message) /\ (HasInit(z) <=> HasInit(pipe)) /\ OneInit(z)
      /\ \A c, p : Gains(z, pipe, m, c, p)
  BY <1>1, EventGains
<1>3. pipe' = z
  OBVIOUS
<1> HIDE DEF z
<1>4. ASSUME NEW c \in ListChange \ Unsure' PROVE Said(c)
  <2>1. Gains(z, pipe, m, c, pending)
    BY <1>2
  <2>2. CASE IsRight(m, c, pending)
    BY <1>3, <2>1, <2>2 DEF Gains, Said
  <2>3. CASE ~Concerns(m, c) /\ c \notin Unsure
    <3>1. ~IsRight(m, c, pending)
      BY <2>3 DEF IsRight
    <3> QED BY <1>3, <2>1, <2>3, <3>1 DEF Gains, Said
  <2> QED BY <2>2, <2>3
<1> QED BY <1>1, <1>2, <1>3, <1>4, SayingKeeps

LEMMA EditKeeps ==
  ASSUME Carried, NEW d \in ListChange, Link!Edit(d)
  PROVE  Carried'
<1>1. /\ UNCHANGED <<pending, missed, panel, queue, fetch, posted, Link!webview, crossed>>
      /\ work' = work \cup {<<"edit", d>>} /\ pipe' = pipe \o <<>>
  BY DEF Link!Edit, Link!Says
<1>2. pending \subseteq ListChange /\ pipe' = pipe
  BY <1>1, Nothing DEF Carried, Types
<1>3. \A c : <<"resolve", c>> \in work' <=> <<"resolve", c>> \in work
  BY <1>1
<1>4. Unsure' = Unsure
  BY <1>1, <1>3 DEF Unsure, Link!Resolving
<1> QED BY <1>1, <1>2, <1>4, SilenceKeeps

LEMMA EditedKeeps ==
  ASSUME Carried, NEW d \in ListChange, Link!Edited(d)
  PROVE  Carried'
<1>1. /\ UNCHANGED <<pending, panel, queue, fetch, posted, Link!webview, crossed>>
      /\ work' = work \ {<<"edit", d>>} /\ missed' = missed \cup ({d} \ pending)
      /\ pipe' = pipe \o <<Link!Tracked(d)>>
  BY DEF Link!Edited, Link!Says
<1>2. PICK m : m = Link!Tracked(d)
  OBVIOUS
<1>3. m \in Link!Event /\ m.type = "tracked" /\ m.id = d
  BY <1>2 DEF Link!Event, Link!Tracked
<1>4. pipe' = Append(pipe, m)
  BY <1>1, <1>2 DEF Carried, Types
<1>5. \A c : <<"resolve", c>> \in work' <=> <<"resolve", c>> \in work
  BY <1>1
<1>6. Unsure' = Unsure \cup ({d} \ pending)
  BY <1>1, <1>5 DEF Unsure, Link!Resolving
<1>7. ASSUME NEW c \in ListChange \ Unsure'
      PROVE  IsRight(m, c, pending) \/ (~Concerns(m, c) /\ c \notin Unsure)
  BY <1>3, <1>6 DEF IsRight, Concerns, Tells
<1> QED BY <1>1, <1>3, <1>4, <1>7, AnnounceKeeps

LEMMA ResolveKeeps ==
  ASSUME Carried, NEW d \in ListChange, Link!Resolve(d)
  PROVE  Carried'
<1>1. /\ UNCHANGED <<missed, panel, queue, fetch, posted, Link!webview, crossed>>
      /\ pending' = pending \ {d} /\ work' = work \cup {<<"resolve", d>>}
      /\ pipe' = pipe \o <<>>
  BY DEF Link!Resolve, Link!Says
<1>2. pending' \subseteq ListChange /\ pipe' = pipe
  BY <1>1, Nothing DEF Carried, Types
<1>3. \A c : <<"resolve", c>> \in work' <=> <<"resolve", c>> \in work \/ c = d
  BY <1>1
<1>4. Unsure' = Unsure \cup {d}
  BY <1>1, <1>3 DEF Unsure, Link!Resolving
<1> QED BY <1>1, <1>2, <1>4, SilenceKeeps

LEMMA ResolvedKeeps ==
  ASSUME Carried, Leaving, NEW d \in ListChange, Link!Resolved(d)
  PROVE  Carried'
<1>1. /\ UNCHANGED <<pending, missed, panel, queue, fetch, posted, Link!webview, crossed>>
      /\ <<"resolve", d>> \in work /\ work' = work \ {<<"resolve", d>>}
      /\ pipe' = pipe \o <<[type |-> "kept", id |-> d]>>
  BY DEF Link!Resolved, Link!Says
<1>2. PICK m : m = [type |-> "kept", id |-> d]
  OBVIOUS
<1>3. m \in Link!Event /\ m.type = "kept" /\ m.id = d
  BY <1>2 DEF Link!Event
<1>4. pipe' = Append(pipe, m)
  BY <1>1, <1>2 DEF Carried, Types
<1>5. \A c : <<"resolve", c>> \in work => <<"resolve", c>> \in work' \/ c = d
  BY <1>1
<1>6. d \notin pending /\ \A c \in Unsure : c \in Unsure' \/ c = d
  BY <1>1, <1>5 DEF Leaving, Unsure, Link!Resolving
<1>7. ASSUME NEW c \in ListChange \ Unsure'
      PROVE  IsRight(m, c, pending) \/ (~Concerns(m, c) /\ c \notin Unsure)
  <2>1. CASE c = d
    BY <1>3, <1>6, <2>1 DEF IsRight, Concerns, Tells
  <2>2. CASE c # d
    BY <1>3, <1>6, <1>7, <2>2 DEF Concerns
  <2> QED BY <2>1, <2>2
<1> QED BY <1>1, <1>3, <1>4, <1>7, AnnounceKeeps

LEMMA FailsKeeps ==
  ASSUME Carried, NEW w \in work, Link!Fails(w)
  PROVE  Carried'
<1>1. /\ UNCHANGED <<pending, panel, queue, fetch, posted, Link!webview, crossed>>
      /\ work' = work \ {w} /\ pipe' = pipe \o <<>>
      /\ missed' = IF w[1] = "resolve" THEN missed \cup {w[2]} ELSE missed
  BY DEF Link!Fails, Link!Says
<1>2. pending \subseteq ListChange /\ pipe' = pipe
  BY <1>1, Nothing DEF Carried, Types
<1>3. \A c : <<"resolve", c>> \in work => <<"resolve", c>> \in work' \/ c \in missed'
  BY <1>1
<1>4. missed \subseteq missed'
  BY <1>1
<1>5. Unsure \subseteq Unsure'
  BY <1>3, <1>4 DEF Unsure, Link!Resolving
<1> QED BY <1>1, <1>2, <1>5, SilenceKeeps

LEMMA DeleteKeeps ==
  ASSUME Carried, NEW d \in ListChange, Link!Delete(d)
  PROVE  Carried'
<1>1. /\ UNCHANGED <<work, panel, queue, fetch, posted, Link!webview, crossed>>
      /\ pending' = pending \ {d} /\ missed' = missed \cup {d} /\ pipe' = pipe \o <<>>
  BY DEF Link!Delete, Link!Says
<1>2. pending' \subseteq ListChange /\ pipe' = pipe
  BY <1>1, Nothing DEF Carried, Types
<1>3. Unsure' = Unsure \cup {d}
  BY <1>1 DEF Unsure, Link!Resolving
<1> QED BY <1>1, <1>2, <1>3, SilenceKeeps

LEMMA AnswerKeeps ==
  ASSUME Carried, Link!Answer
  PROVE  Carried'
<1>0. Types /\ Replies /\ Queues /\ EventsRight /\ Agreeing
  BY DEF Carried
<1> DEFINE m == Link!Init0(pending)
           z == Append(pipe, m)
<1>1. /\ pipe \in Seq(Message) /\ m \in Message /\ m.type = "init" /\ m.rows = pending
  BY <1>0 DEF Types, Message, Link!Init0
<1>2. /\ fetch.stage = "asked" /\ pipe' = z /\ fetch' = [fetch EXCEPT !.stage = "answered"]
      /\ UNCHANGED <<pending, panel, queue, posted, rows, told, crossed>>
  BY DEF Link!Answer, Link!core, Link!webview
<1>21. ASSUME NEW c \in Unsure, c \in ListChange \ Unsure' PROVE Silent(pipe, c) /\ Silent(queue, c)
  <2>1. missed' = missed \cap (Link!Concerned(pipe) \cup Link!Concerned(queue)) /\ work' = work
    BY DEF Link!Answer
  <2>2. c \notin Link!Concerned(pipe) /\ c \notin Link!Concerned(queue)
    BY <1>21, <2>1 DEF Unsure, Link!Resolving
  <2>3. DOMAIN pipe = 1 .. Len(pipe) /\ DOMAIN queue = 1 .. Len(queue)
    BY <1>0 DEF Types
  <2> QED BY <1>21, <2>2, <2>3 DEF Link!Concerned, Silent, Concerns
<1>3. /\ fetch'.stage = "answered" /\ fetch'.flush = fetch.flush /\ fetch'.snap = fetch.snap
      /\ fetch' \in [stage : {"none", "asked", "answered", "have", "failed"},
                     flush : BOOLEAN, snap : SUBSET ListChange]
  BY <1>0, <1>2 DEF Types
<1>4. ~HasInit(pipe) /\ OneInit(pipe)
  BY <1>0, <1>2 DEF Replies
<1>5. z \in Seq(Message) /\ HasInit(z) /\ OneInit(z)
  BY <1>1, <1>4, InitMore, AppendIs
<1> HIDE DEF z, m
<1>6. Types'
  BY <1>0, <1>2, <1>3, <1>5 DEF Types
<1>7. Replies'
  BY <1>2, <1>3, <1>5 DEF Replies
<1>8. Queues'
  BY <1>0, <1>2, <1>3 DEF Queues, Link!NoFetch
<1>9. ASSUME NEW c \in ListChange
      PROVE  /\ Silent(Link!Unclaimed(z), c) <=> Silent(pipe, c)
             /\ Right(Link!Unclaimed(z), c, pending) <=> Right(pipe, c, pending)
             /\ Right(z, c, pending) /\ (Quiet(z) => Silent(pipe, c))
             /\ RowsRight(z, c, pending)
  <2>1. Link!Unclaimed(z) = Append(pipe, Plain(m)) /\ Plain(m) \in Message /\ ~Concerns(Plain(m), c)
    BY <1>1, <1>4, UnclaimedMore, PlainIs, NothingUnclaimed DEF z
  <2>2. ~IsRight(Plain(m), c, pending) /\ IsRight(m, c, pending)
    BY <1>1, <2>1 DEF IsRight, Concerns, Tells
  <2>3. /\ Silent(Link!Unclaimed(z), c) <=> Silent(pipe, c)
        /\ Right(Link!Unclaimed(z), c, pending) <=> Right(pipe, c, pending)
    BY <1>1, <2>1, <2>2, OneMore
  <2>4. Right(z, c, pending)
    BY <1>1, <2>2, OneMore DEF z
  <2>5. RowsRight(pipe, c, pending)
    BY <1>4 DEF RowsRight, HasInit
  <2>6. (Quiet(z) => Silent(pipe, c)) /\ RowsRight(z, c, pending)
    BY <1>1, <1>4, <2>5, QuietMore DEF z
  <2> QED BY <2>3, <2>4, <2>6
<1>10. EventsRight'
  <2>1. \A c \in ListChange \ Unsure : RightOrSilent(Link!Unclaimed(pipe), c, pending)
    BY <1>0 DEF EventsRight
  <2>2. Link!Unclaimed(pipe) = pipe
    BY <1>1, <1>4, NothingUnclaimed
  <2>3. ASSUME NEW c \in ListChange \ Unsure' PROVE RightOrSilent(Link!Unclaimed(z), c, pending)
    <3>1. Right(pipe, c, pending) \/ Silent(pipe, c)
      BY <1>21, <2>1, <2>2 DEF RightOrSilent
    <3> QED BY <1>9, <3>1 DEF RightOrSilent
  <2> QED BY <1>2, <2>3 DEF EventsRight
<1>11. ASSUME NEW c \in ListChange \ Unsure', c \in Unsure \/ WillAgree(c) PROVE WillAgree(c)'
  <2>1. Piped(c) \/ (Silent(pipe, c) /\ Silent(queue, c))
    BY <1>2, <1>11, <1>21 DEF WillAgree, Overtaken
  <2>2. Quiet(z) => Silent(pipe, c) /\ ~Right(pipe, c, pending)
    BY <1>9, NotBoth
  <2>3. Quiet(pipe') => Replied(c)'
    BY <1>2, <1>9, <2>1, <2>2 DEF Replied, Piped, Queued
  <2>4. Piped(c)'
    BY <1>2, <1>9 DEF Piped
  <2> QED BY <1>3, <2>3, <2>4 DEF WillAgree
<1> QED BY <1>0, <1>2, <1>6, <1>7, <1>8, <1>10, <1>11 DEF Carried, Agreeing

LEMMA ExitKeeps ==
  ASSUME Carried, Link!Exit
  PROVE  Carried'
<1>0. Types /\ Replies /\ Queues /\ EventsRight /\ Agreeing
  BY DEF Carried
<1> DEFINE m == [type |-> "core-status"]
<1>1. m \in Message /\ m.type # "unclaimed" /\ \A c, p : ~Concerns(m, c) /\ ~IsRight(m, c, p)
  BY DEF Message, Concerns, IsRight
<1>2. UNCHANGED <<pending, pipe, panel, fetch, rows, told, crossed>>
  BY DEF Link!Exit, Link!webview
<1>21. Unsure' = Unsure
  BY DEF Link!Exit, Unsure, Link!Resolving
<1>3. \/ UNCHANGED <<queue, posted>>
      \/ panel = "loading" /\ queue' = Append(queue, m) /\ posted' = posted
      \/ panel = "ready" /\ posted' = Append(posted, m) /\ queue' = queue
  BY <1>0 DEF Link!Exit, Link!Sent, Types
<1> HIDE DEF m
<1>4. queue \in Seq(Message) /\ posted \in Seq(Message)
  BY <1>0 DEF Types
<1>5. /\ queue' \in Seq(Message) /\ posted' \in Seq(Message)
      /\ Sendable(queue') /\ Sendable(posted')
  <2>1. /\ Append(queue, m) \in Seq(Message) /\ Append(posted, m) \in Seq(Message)
    BY <1>1, <1>4, AppendIs
  <2>2. Sendable(queue) /\ Sendable(posted)
    BY <1>0 DEF Types
  <2>3. Sendable(Append(queue, m)) /\ Sendable(Append(posted, m))
    BY <1>1, <1>4, <2>2, InitMore
  <2> QED BY <1>3, <1>4, <2>1, <2>2, <2>3
<1>6. Types'
  BY <1>0, <1>2, <1>5 DEF Types
<1>7. Replies' /\ EventsRight'
  BY <1>0, <1>2, <1>21 DEF Replies, EventsRight
<1>8. Queues'
  <2>1. panel' = panel /\ fetch' = fetch
    BY <1>2
  <2>2. CASE UNCHANGED <<queue, posted>>
    BY <1>0, <2>1, <2>2 DEF Queues
  <2>3. CASE panel = "loading"
    BY <1>0, <2>1, <2>3 DEF Queues
  <2>4. CASE panel = "ready" /\ queue' = queue
    BY <1>0, <2>1, <2>4 DEF Queues
  <2> QED BY <1>3, <2>2, <2>3, <2>4
<1>9. ASSUME NEW c \in ListChange
      PROVE  /\ Silent(queue', c) <=> Silent(queue, c)
             /\ Silent(posted', c) <=> Silent(posted, c)
             /\ Right(queue', c, pending') <=> Right(queue, c, pending)
             /\ Right(posted', c, pending') <=> Right(posted, c, pending)
  <2>1. /\ Silent(Append(queue, m), c) <=> Silent(queue, c)
        /\ Right(Append(queue, m), c, pending) <=> Right(queue, c, pending)
        /\ Silent(Append(posted, m), c) <=> Silent(posted, c)
        /\ Right(Append(posted, m), c, pending) <=> Right(posted, c, pending)
    BY <1>1, <1>4, OneMore
  <2>2. pending' = pending
    BY <1>2
  <2>3. CASE UNCHANGED <<queue, posted>>
    BY <2>2, <2>3
  <2>4. CASE queue' = Append(queue, m) /\ posted' = posted
    BY <2>1, <2>2, <2>4
  <2>5. CASE posted' = Append(posted, m) /\ queue' = queue
    BY <2>1, <2>2, <2>5
  <2> QED BY <1>3, <2>3, <2>4, <2>5
<1>10. ASSUME NEW c \in ListChange, WillAgree(c), panel # "none" PROVE WillAgree(c)'
  <2>1. /\ Silent(pipe', c) <=> Silent(pipe, c)
        /\ Right(pipe', c, pending') <=> Right(pipe, c, pending)
        /\ Silent(Link!Unclaimed(pipe'), c) <=> Silent(Link!Unclaimed(pipe), c)
        /\ Right(Link!Unclaimed(pipe'), c, pending') <=> Right(Link!Unclaimed(pipe), c, pending)
        /\ RowsRight(pipe', c, pending') <=> RowsRight(pipe, c, pending)
        /\ Quiet(pipe') <=> Quiet(pipe)
    BY <1>2
  <2>2. (Listed(c)' <=> Listed(c)) /\ (Snapped(c)' <=> Snapped(c))
    BY <1>2 DEF Listed, Snapped
  <2>3. Queued(c)' <=> Queued(c)
    BY <1>9, <2>2 DEF Queued, Posted
  <2>4. Had(c)' <=> Had(c)
    BY <1>2, <1>9, <2>1, <2>2 DEF Had
  <2>5. Replied(c)' <=> Replied(c)
    BY <1>9, <2>1 DEF Replied
  <2>6. Overtaken' <=> Overtaken
    BY <1>2, <1>3 DEF Overtaken
  <2>7. Piped(c)' <=> Piped(c)
    BY <2>1, <2>3 DEF Piped
  <2> QED BY <1>2, <1>10, <2>1, <2>4, <2>5, <2>6, <2>7 DEF WillAgree
<1> QED BY <1>0, <1>2, <1>21, <1>6, <1>7, <1>8, <1>10 DEF Carried, Agreeing

LEMMA OpenPanelKeeps ==
  ASSUME Carried, Link!OpenPanel
  PROVE  Carried'
<1>0. Types /\ Replies /\ Queues /\ EventsRight /\ Agreeing
  BY DEF Carried
<1>01. Unsure' = Unsure
  BY DEF Link!OpenPanel, Link!core, Unsure, Link!Resolving
<1>1. /\ panel = "none" /\ panel' = "loading" /\ rows' = {} /\ told' = FALSE /\ crossed' = FALSE
      /\ UNCHANGED <<pending, pipe, queue, fetch, posted>>
  BY DEF Link!OpenPanel, Link!core
<1>2. /\ fetch = Link!NoFetch /\ fetch.stage = "none" /\ ~fetch.flush
      /\ queue = <<>> /\ posted = <<>>
  BY <1>0, <1>1 DEF Queues, Link!NoFetch
<1>3. Types'
  BY <1>0, <1>1 DEF Types
<1>4. Replies' /\ EventsRight' /\ Queues'
  BY <1>0, <1>01, <1>1, <1>2 DEF Replies, EventsRight, Queues
<1>5. Link!Unclaimed(pipe) = pipe
  BY <1>0, <1>2, NothingUnclaimed DEF Replies, Types
<1>6. ASSUME NEW c \in ListChange \ Unsure PROVE WillAgree(c)'
  <2>1. Right(pipe, c, pending) \/ Silent(pipe, c)
    BY <1>0, <1>5 DEF EventsRight, RightOrSilent
  <2>2. Silent(queue', c) /\ Silent(posted', c) /\ Listed(c)'
    BY <1>1, <1>2, NothingSaid DEF Listed
  <2>3. Piped(c)'
    BY <1>1, <2>1, <2>2 DEF Piped, Queued, Posted
  <2> QED BY <1>1, <1>2, <2>3 DEF WillAgree, Overtaken
<1> QED BY <1>01, <1>3, <1>4, <1>6 DEF Carried, Agreeing

(* A fetch that starts or fails leaves everything on its way.              *)
LEMMA WaitingKeeps ==
  ASSUME Carried, Queues', panel # "none", ~HasInit(pipe),
         fetch.stage # "have", fetch.stage # "answered",
         fetch'.stage \in {"asked", "failed"},
         fetch' \in [stage : {"none", "asked", "answered", "have", "failed"},
                    flush : BOOLEAN, snap : SUBSET ListChange],
         panel' \in {"none", "loading", "ready"},
         UNCHANGED <<pending, Unsure, pipe, queue, posted, rows, told, crossed>>
  PROVE  Carried'
<1>0. Types /\ Replies /\ EventsRight /\ Agreeing
  BY DEF Carried
<1>1. Types'
  BY <1>0 DEF Types
<1>2. Replies' /\ EventsRight'
  BY <1>0 DEF Replies, EventsRight
<1>3. ASSUME NEW c \in ListChange, WillAgree(c) PROVE WillAgree(c)'
  <2>1. Piped(c)
    BY <1>3 DEF WillAgree, Overtaken
  <2>2. Piped(c)'
    BY <2>1 DEF Piped, Queued, Posted, Listed
  <2> QED BY <2>2 DEF WillAgree, Overtaken
<1> QED BY <1>0, <1>1, <1>2, <1>3 DEF Carried, Agreeing

LEMMA AskingKeeps ==
  ASSUME Carried, NEW s \in BOOLEAN, Link!WebviewReady(s) \/ Link!Refresh(s)
  PROVE  Carried'
<1>0. Types /\ Replies /\ Queues
  BY DEF Carried
<1>01. Unsure' = Unsure
  BY DEF Link!WebviewReady, Link!Refresh, Link!SendInitData, Unsure, Link!Resolving
<1>1. PICK f \in BOOLEAN :
        /\ Link!SendInitData(s, f) /\ panel # "none"
        /\ (f /\ panel' = "ready") \/ (~f /\ panel' = panel)
  BY DEF Link!WebviewReady, Link!Refresh
<1>2. /\ fetch.stage = "none"
      /\ UNCHANGED <<pending, pipe, queue, posted, rows, told, crossed>>
  BY <1>1 DEF Link!SendInitData, Link!webview
<1>3. fetch' = [Link!NoFetch EXCEPT !.stage = IF coreUp' THEN "asked" ELSE "failed", !.flush = f]
  BY <1>1 DEF Link!SendInitData
<1>4. /\ fetch'.stage \in {"asked", "failed"} /\ fetch'.flush = f
      /\ fetch' \in [stage : {"none", "asked", "answered", "have", "failed"},
                     flush : BOOLEAN, snap : SUBSET ListChange]
  BY <1>3 DEF Link!NoFetch
<1>5. Queues'
  BY <1>0, <1>1, <1>2, <1>4 DEF Queues, Types
<1>6. ~HasInit(pipe)
  BY <1>0, <1>2 DEF Replies
<1>7. panel' \in {"none", "loading", "ready"}
  BY <1>0, <1>1 DEF Types
<1> QED BY <1>01, <1>1, <1>2, <1>4, <1>5, <1>6, <1>7, WaitingKeeps

LEMMA FetchFailsKeeps ==
  ASSUME Carried, Link!FetchFails
  PROVE  Carried'
<1>0. Types /\ Replies /\ Queues
  BY DEF Carried
<1>01. Unsure' = Unsure
  BY DEF Link!FetchFails, Link!core, Unsure, Link!Resolving
<1>1. /\ fetch.stage \in {"asked", "answered"} /\ pipe = <<>>
      /\ fetch' = [fetch EXCEPT !.stage = "failed"]
      /\ UNCHANGED <<pending, pipe, panel, queue, posted, rows, told, crossed>>
  BY DEF Link!FetchFails, Link!core, Link!webview
<1>2. ~HasInit(pipe)
  BY <1>1 DEF HasInit
<1>3. fetch.stage = "asked" /\ panel # "none"
  BY <1>0, <1>1, <1>2 DEF Replies, Queues, Link!NoFetch
<1>4. /\ fetch'.stage = "failed" /\ fetch'.flush = fetch.flush
      /\ fetch' \in [stage : {"none", "asked", "answered", "have", "failed"},
                     flush : BOOLEAN, snap : SUBSET ListChange]
  BY <1>0, <1>1 DEF Types
<1>5. Queues'
  BY <1>0, <1>1, <1>3, <1>4 DEF Queues
<1>6. panel' \in {"none", "loading", "ready"}
  BY <1>0, <1>1 DEF Types
<1> QED BY <1>01, <1>1, <1>2, <1>3, <1>4, <1>5, <1>6, WaitingKeeps

LEMMA DisposeKeeps ==
  ASSUME Carried, Link!Dispose
  PROVE  Carried'
<1>0. Types /\ EventsRight
  BY DEF Carried
<1>01. Unsure' = Unsure
  BY DEF Link!Dispose, Link!core, Unsure, Link!Resolving
<1>1. /\ panel' = "none" /\ queue' = <<>> /\ posted' = <<>> /\ fetch' = Link!NoFetch
      /\ pipe' = Link!Unclaimed(pipe) /\ UNCHANGED <<pending, rows, told, crossed>>
  BY DEF Link!Dispose, Link!core, Link!webview
<1>2. pipe \in Seq(Message)
  BY <1>0 DEF Types
<1>3. /\ pipe' \in Seq(Message) /\ ~HasInit(pipe') /\ OneInit(pipe') /\ Link!Unclaimed(pipe') = pipe'
  BY <1>1, <1>2, UnclaimedIs, AllUnclaimed
<1>4. <<>> \in Seq(Message) /\ Sendable(<<>>)
  BY DEF Sendable
<1>5. Types'
  BY <1>0, <1>1, <1>3, <1>4 DEF Types, Link!NoFetch
<1>6. Replies' /\ Queues'
  BY <1>1, <1>3 DEF Replies, Queues, Link!NoFetch
<1>7. EventsRight'
  BY <1>0, <1>01, <1>1, <1>3 DEF EventsRight
<1> QED BY <1>1, <1>5, <1>6, <1>7 DEF Carried, Agreeing

-----------------------------------------------------------------------------
(* The pipe without its first line, at a change.                           *)
Loses(c, p) ==
  LET q == pipe
      m == Head(pipe)
      z == Tail(pipe)
  IN  /\ Silent(q, c) <=> Silent(z, c) /\ ~Concerns(m, c)
      /\ Right(q, c, p) <=> Right(z, c, p) \/ (Silent(z, c) /\ IsRight(m, c, p))
      /\ Silent(Link!Unclaimed(q), c) <=>
           Silent(Link!Unclaimed(z), c) /\ (m.type # "init" => ~Concerns(m, c))
      /\ Right(Link!Unclaimed(q), c, p) <=>
           \/ Right(Link!Unclaimed(z), c, p)
           \/ m.type # "init" /\ Silent(Link!Unclaimed(z), c) /\ IsRight(m, c, p)
      /\ m.type = "unclaimed" /\ Quiet(z) => Quiet(q)
      /\ m.type = "init" => Quiet(q)
      /\ RowsRight(q, c, p) =>
           RowsRight(z, c, p) /\ (m.type = "init" => (c \in m.rows <=> c \in p))

LEMMA LineLost ==
  ASSUME pipe \in Seq(Message), pipe # <<>>, NEW c
  PROVE  Loses(c, pending)
<1> DEFINE m == Head(pipe)
           z == Tail(pipe)
           u == Link!Unclaimed(pipe)
<1>1. m \in Message /\ z \in Seq(Message)
  BY TailOf
<1>2. u \in Seq(Message) /\ u # <<>> /\ Tail(u) = Link!Unclaimed(z) /\ Head(u) = Plain(m)
  BY UnclaimedIs, UnclaimedLess
<1>3. /\ Silent(pipe, c) <=> Silent(z, c) /\ ~Concerns(m, c)
      /\ Right(pipe, c, pending) <=> Right(z, c, pending) \/ (Silent(z, c) /\ IsRight(m, c, pending))
  BY OneLess
<1>4. /\ Silent(u, c) <=> Silent(Tail(u), c) /\ ~Concerns(Head(u), c)
      /\ Right(u, c, pending) <=>
           Right(Tail(u), c, pending) \/ (Silent(Tail(u), c) /\ IsRight(Head(u), c, pending))
  BY <1>2, OneLess
<1>5. /\ m.type = "init" => ~Concerns(Plain(m), c) /\ ~IsRight(Plain(m), c, pending)
      /\ m.type # "init" => Plain(m) = m
  BY <1>1, PlainIs DEF IsRight
<1>6. /\ m.type = "unclaimed" /\ Quiet(z) => Quiet(pipe)
      /\ m.type = "init" => Quiet(pipe)
      /\ RowsRight(pipe, c, pending) =>
           RowsRight(z, c, pending) /\ (m.type = "init" => (c \in m.rows <=> c \in pending))
  BY QuietLess
<1> HIDE DEF m, z, u
<1>7. /\ Silent(u, c) <=> Silent(Link!Unclaimed(z), c) /\ (m.type # "init" => ~Concerns(m, c))
      /\ Right(u, c, pending) <=>
           \/ Right(Link!Unclaimed(z), c, pending)
           \/ m.type # "init" /\ Silent(Link!Unclaimed(z), c) /\ IsRight(m, c, pending)
  BY <1>2, <1>4, <1>5
<1> QED BY <1>3, <1>6, <1>7 DEF Loses, m, z, u

LEMMA ReadEventsRight ==
  ASSUME pipe \in Seq(Message), pipe # <<>>, EventsRight, pipe' = Tail(pipe), pending' = pending,
         Unsure' = Unsure
  PROVE  EventsRight'
<1> SUFFICES ASSUME NEW c \in ListChange \ Unsure PROVE RightOrSilent(Link!Unclaimed(Tail(pipe)), c, pending)
  BY DEF EventsRight
<1>1. RightOrSilent(Link!Unclaimed(pipe), c, pending)
  BY DEF EventsRight
<1>2. Loses(c, pending)
  BY LineLost
<1> QED BY <1>1, <1>2 DEF RightOrSilent, Loses

(* The reply is read.                                                      *)
LEMMA ReadInitKeeps ==
  ASSUME Carried, Link!ReadLine, Head(pipe).type = "init"
  PROVE  Carried'
<1>0. Types /\ Replies /\ Queues /\ EventsRight /\ Agreeing
  BY DEF Carried
<1>01. Unsure' = Unsure
  BY DEF Link!ReadLine, Link!core, Unsure, Link!Resolving
<1> DEFINE m == Head(pipe)
<1>1. /\ pipe # <<>> /\ pipe' = Tail(pipe)
      /\ fetch' = IF fetch.stage = "answered"
                  THEN [fetch EXCEPT !.stage = "have", !.snap = m.rows] ELSE fetch
      /\ UNCHANGED <<pending, panel, queue, posted, rows, told, crossed>>
  BY DEF Link!ReadLine, Link!core, Link!webview
<1>2. pipe \in Seq(Message) /\ m \in Message /\ pipe' \in Seq(Message)
  BY <1>0, <1>1, TailOf DEF Types
<1>3. HasInit(pipe) /\ ~HasInit(pipe') /\ OneInit(pipe')
  BY <1>0, <1>1, <1>2, InitLess DEF Replies
<1>4. fetch.stage = "answered" /\ m.rows \in SUBSET ListChange
  BY <1>0, <1>2, <1>3 DEF Replies, Message, Link!Event
<1>5. /\ fetch'.stage = "have" /\ fetch'.flush = fetch.flush /\ fetch'.snap = m.rows
      /\ fetch' \in [stage : {"none", "asked", "answered", "have", "failed"},
                     flush : BOOLEAN, snap : SUBSET ListChange]
  BY <1>0, <1>1, <1>4 DEF Types
<1>6. Types'
  BY <1>0, <1>1, <1>2, <1>5 DEF Types
<1>7. Replies'
  BY <1>3, <1>5 DEF Replies
<1>8. panel # "none"
  BY <1>0, <1>4 DEF Queues, Link!NoFetch
<1>9. Queues'
  BY <1>0, <1>1, <1>4, <1>5, <1>8 DEF Queues
<1>10. EventsRight'
  BY <1>0, <1>01, <1>1, <1>2, ReadEventsRight
<1>11. ASSUME NEW c \in ListChange, WillAgree(c) PROVE WillAgree(c)'
  <2>1. Loses(c, pending)
    BY <1>1, <1>2, LineLost
  <2>2. Link!Unclaimed(pipe') = pipe'
    BY <1>2, <1>3, NothingUnclaimed
  <2>3. /\ Quiet(pipe)
        /\ Silent(Link!Unclaimed(pipe), c) <=> Silent(pipe', c)
        /\ Right(Link!Unclaimed(pipe), c, pending) <=> Right(pipe', c, pending)
        /\ RowsRight(pipe, c, pending) => (c \in m.rows <=> c \in pending)
        /\ ~Silent(pipe, c)
        /\ Right(pipe, c, pending) =>
             \/ Right(pipe', c, pending)
             \/ Silent(pipe', c) /\ (c \in m.rows <=> c \in pending)
    BY <1>1, <2>1, <2>2 DEF Loses, Concerns, IsRight, Tells
  <2>4. Snapped(c)' <=> (c \in m.rows <=> c \in pending)
    BY <1>1, <1>5 DEF Snapped
  <2>5. CASE Overtaken
    <3>1. Replied(c)
      BY <1>11, <2>3, <2>5 DEF WillAgree
    <3> QED BY <1>1, <1>5, <2>3, <2>4, <2>5, <3>1 DEF WillAgree, Replied, Had, Overtaken
  <2>6. CASE ~Overtaken
    <3>1. Piped(c)
      BY <1>4, <1>11, <2>6 DEF WillAgree
    <3>2. Right(pipe, c, pending)
      BY <2>3, <3>1 DEF Piped
    <3>3. panel = "ready" => Silent(queue', c)
      BY <1>1, <1>4, <2>6, NothingSaid DEF Overtaken
    <3>4. Had(c)'
      BY <1>1, <2>3, <2>4, <3>2, <3>3 DEF Had
    <3> QED BY <1>5, <3>4 DEF WillAgree, Overtaken
  <2> QED BY <2>5, <2>6
<1> QED BY <1>0, <1>01, <1>1, <1>6, <1>7, <1>9, <1>10, <1>11 DEF Carried, Agreeing

(* A line is dropped.                                                      *)
LEMMA ReadNothingKeeps ==
  ASSUME Carried, Link!ReadLine, Head(pipe).type # "init",
         Head(pipe).type = "unclaimed" \/ panel = "none"
  PROVE  Carried'
<1>0. Types /\ Replies /\ Queues /\ EventsRight /\ Agreeing
  BY DEF Carried
<1>01. Unsure' = Unsure
  BY DEF Link!ReadLine, Link!core, Unsure, Link!Resolving
<1> DEFINE m == Head(pipe)
<1>1. /\ pipe # <<>> /\ pipe' = Tail(pipe)
      /\ UNCHANGED <<pending, panel, fetch, queue, posted, rows, told, crossed>>
  BY DEF Link!ReadLine, Link!core, Link!webview
<1>2. pipe \in Seq(Message) /\ m \in Message /\ pipe' \in Seq(Message)
  BY <1>0, <1>1, TailOf DEF Types
<1>3. (HasInit(pipe') <=> HasInit(pipe)) /\ OneInit(pipe')
  BY <1>0, <1>1, <1>2, InitLess DEF Replies
<1>4. Types'
  BY <1>0, <1>1, <1>2 DEF Types
<1>5. Replies' /\ Queues'
  BY <1>0, <1>1, <1>3 DEF Replies, Queues
<1>6. EventsRight'
  BY <1>0, <1>01, <1>1, <1>2, ReadEventsRight
<1>7. ASSUME NEW c \in ListChange, WillAgree(c), panel # "none" PROVE WillAgree(c)'
  <2>1. Loses(c, pending)
    BY <1>1, <1>2, LineLost
  <2>2. m.type = "unclaimed" /\ ~Concerns(m, c) /\ ~IsRight(m, c, pending)
    BY <1>7 DEF Concerns, IsRight
  <2>3. /\ Silent(pipe', c) <=> Silent(pipe, c)
        /\ Right(pipe', c, pending) <=> Right(pipe, c, pending)
        /\ Silent(Link!Unclaimed(pipe'), c) <=> Silent(Link!Unclaimed(pipe), c)
        /\ Right(Link!Unclaimed(pipe'), c, pending) <=> Right(Link!Unclaimed(pipe), c, pending)
        /\ Quiet(pipe') => Quiet(pipe)
        /\ RowsRight(pipe, c, pending) => RowsRight(pipe', c, pending)
    BY <1>1, <2>1, <2>2 DEF Loses
  <2>4. /\ pending' = pending /\ queue' = queue /\ panel' = panel
        /\ (Queued(c)' <=> Queued(c)) /\ (Snapped(c)' <=> Snapped(c))
        /\ (Overtaken' <=> Overtaken) /\ fetch' = fetch
    BY <1>1 DEF Queued, Posted, Listed, Snapped, Overtaken
  <2>5. fetch.stage = "have" => Had(c)'
    BY <1>7, <2>3, <2>4 DEF WillAgree, Had
  <2>6. Overtaken /\ Quiet(pipe') => Replied(c)'
    BY <1>7, <2>3, <2>4 DEF WillAgree, Replied
  <2>7. fetch.stage # "have" /\ ~Overtaken => Piped(c)'
    BY <1>7, <2>3, <2>4 DEF WillAgree, Piped
  <2> QED BY <2>4, <2>5, <2>6, <2>7 DEF WillAgree
<1> QED BY <1>0, <1>01, <1>1, <1>4, <1>5, <1>6, <1>7 DEF Carried, Agreeing

(* An event reaches the panel.                                             *)
LEMMA ReadEventKeeps ==
  ASSUME Carried, Link!ReadLine, Head(pipe).type \notin {"init", "unclaimed"}, panel # "none"
  PROVE  Carried'
<1>0. Types /\ Replies /\ Queues /\ EventsRight /\ Agreeing
  BY DEF Carried
<1>01. Unsure' = Unsure
  BY DEF Link!ReadLine, Link!core, Unsure, Link!Resolving
<1> DEFINE m == Head(pipe)
<1>1. /\ pipe # <<>> /\ pipe' = Tail(pipe)
      /\ UNCHANGED <<pending, panel, fetch, rows, told>>
  BY DEF Link!ReadLine, Link!core, Link!webview
<1>2. /\ Link!Sent(m)
      /\ crossed' = (crossed \/ fetch.stage = "have" \/ (panel = "ready" /\ queue # <<>>))
  BY DEF Link!ReadLine
<1>3. pipe \in Seq(Message) /\ m \in Message /\ pipe' \in Seq(Message)
  BY <1>0, <1>1, TailOf DEF Types
<1>4. (HasInit(pipe') <=> HasInit(pipe)) /\ OneInit(pipe')
  BY <1>0, <1>1, <1>3, InitLess DEF Replies
<1>5. \/ panel = "loading" /\ queue' = Append(queue, m) /\ posted' = posted
      \/ panel = "ready" /\ posted' = Append(posted, m) /\ queue' = queue
  BY <1>0, <1>2 DEF Link!Sent, Types
<1>6. queue \in Seq(Message) /\ posted \in Seq(Message) /\ Sendable(queue) /\ Sendable(posted)
  BY <1>0 DEF Types
<1>7. /\ Append(queue, m) \in Seq(Message) /\ Append(posted, m) \in Seq(Message)
      /\ Sendable(Append(queue, m)) /\ Sendable(Append(posted, m))
  BY <1>3, <1>6, AppendIs, InitMore
<1>8. Types'
  <2>1. /\ queue' \in Seq(Message) /\ posted' \in Seq(Message)
        /\ Sendable(queue') /\ Sendable(posted')
    BY <1>5, <1>6, <1>7
  <2>2. crossed' \in BOOLEAN
    BY <1>0, <1>2 DEF Types
  <2> QED BY <1>0, <1>1, <1>3, <2>1, <2>2 DEF Types
<1>9. Replies'
  BY <1>0, <1>1, <1>4 DEF Replies
<1>10. Queues'
  <2>1. panel' = panel /\ fetch' = fetch
    BY <1>1
  <2>2. CASE panel = "loading"
    BY <1>0, <2>1, <2>2 DEF Queues
  <2>3. CASE panel = "ready" /\ queue' = queue
    BY <1>0, <2>1, <2>3 DEF Queues
  <2> QED BY <1>5, <2>2, <2>3
<1>11. EventsRight'
  BY <1>0, <1>01, <1>1, <1>3, ReadEventsRight
<1>12. ASSUME NEW c \in ListChange, WillAgree(c), ~crossed' PROVE WillAgree(c)'
  <2>1. fetch.stage # "have" /\ (panel = "ready" => queue = <<>>)
    BY <1>2, <1>12
  <2>2. Piped(c)
    BY <1>12, <2>1 DEF WillAgree, Overtaken
  <2>3. Loses(c, pending)
    BY <1>1, <1>3, LineLost
  <2>4. /\ Silent(pipe, c) <=> Silent(pipe', c) /\ ~Concerns(m, c)
        /\ Right(pipe, c, pending) <=>
             Right(pipe', c, pending) \/ (Silent(pipe', c) /\ IsRight(m, c, pending))
    BY <1>1, <2>3 DEF Loses
  <2>5. pending' = pending /\ fetch' = fetch /\ panel' = panel /\ (Listed(c)' <=> Listed(c))
    BY <1>1 DEF Listed
  <2>6. /\ Silent(Append(queue, m), c) <=> Silent(queue, c) /\ ~Concerns(m, c)
        /\ Right(Append(queue, m), c, pending) <=>
             IsRight(m, c, pending) \/ (~Concerns(m, c) /\ Right(queue, c, pending))
        /\ Silent(Append(posted, m), c) <=> Silent(posted, c) /\ ~Concerns(m, c)
        /\ Right(Append(posted, m), c, pending) <=>
             IsRight(m, c, pending) \/ (~Concerns(m, c) /\ Right(posted, c, pending))
    BY <1>3, <1>6, OneMore
  <2>7. CASE panel = "loading" /\ queue' = Append(queue, m) /\ posted' = posted
    <3>1. IsRight(m, c, pending) => Queued(c)'
      BY <2>5, <2>6, <2>7 DEF Queued
    <3>2. Posted(c)' <=> Posted(c)
      BY <2>5, <2>7 DEF Posted
    <3>3. ~Concerns(m, c) /\ Queued(c) => Queued(c)'
      BY <2>5, <2>6, <2>7, <3>2 DEF Queued
    <3>4. Piped(c)'
      BY <2>2, <2>4, <2>5, <3>1, <3>3 DEF Piped
    <3> QED BY <2>1, <2>5, <2>7, <3>4 DEF WillAgree, Overtaken
  <2>8. CASE panel = "ready" /\ posted' = Append(posted, m) /\ queue' = queue
    <3>1. queue = <<>> /\ queue' = <<>>
      BY <2>1, <2>8
    <3>2. ~Right(queue, c, pending) /\ Silent(queue', c)
      BY <3>1, NothingSaid
    <3>3. IsRight(m, c, pending) => Posted(c)'
      BY <2>5, <2>6, <2>8 DEF Posted
    <3>4. ~Concerns(m, c) /\ Posted(c) => Posted(c)'
      BY <2>5, <2>6, <2>8 DEF Posted
    <3>5. Piped(c)'
      BY <2>2, <2>4, <2>5, <3>2, <3>3, <3>4 DEF Piped, Queued
    <3> QED BY <2>1, <2>5, <3>1, <3>5 DEF WillAgree, Overtaken
  <2> QED BY <1>5, <2>7, <2>8
<1>13. ~crossed' => ~crossed
  BY <1>2
<1> QED BY <1>0, <1>01, <1>1, <1>8, <1>9, <1>10, <1>11, <1>12, <1>13 DEF Carried, Agreeing

LEMMA ReadLineKeeps ==
  ASSUME Carried, Link!ReadLine
  PROVE  Carried'
  BY ReadInitKeeps, ReadNothingKeeps, ReadEventKeeps

-----------------------------------------------------------------------------
LEMMA SendableTwo ==
  ASSUME NEW q \in Seq(Message), NEW w \in Seq(Message), Sendable(q), Sendable(w)
  PROVE  Sendable(q \o w)
<1>1. /\ Len(q \o w) = Len(q) + Len(w)
      /\ Len(q) \in Nat /\ Len(w) \in Nat
      /\ \A i \in 1 .. Len(q) : (q \o w)[i] = q[i]
      /\ \A i \in 1 .. Len(q) + Len(w) : i > Len(q) => (q \o w)[i] = w[i - Len(q)]
  BY ConcatIs
<1> SUFFICES ASSUME NEW i \in 1 .. Len(q \o w) PROVE (q \o w)[i].type # "unclaimed"
  BY DEF Sendable
<1>2. CASE i <= Len(q)
  BY <1>1, <1>2 DEF Sendable
<1>3. CASE i > Len(q)
  <2>1. i - Len(q) \in 1 .. Len(w)
    BY <1>1, <1>3
  <2> QED BY <1>1, <1>3, <2>1 DEF Sendable
<1> QED BY <1>1, <1>2, <1>3

(* The end of a fetch leaves on its way to the webview what the fetch had  *)
(* and what was queued.                                                    *)
EndOf(init) ==
  \/ panel = "loading" /\ queue' = queue \o init /\ posted' = posted
  \/ panel = "ready" /\ posted' = (posted \o init) \o queue /\ queue' = <<>>

LEMMA FetchEndsSo ==
  ASSUME Types, Queues, Link!FetchEnds,
         NEW init, init = IF fetch.stage = "have" THEN <<Link!Init0(fetch.snap)>> ELSE <<>>,
         init \in Seq(Message)
  PROVE  EndOf(init)
<1>1. /\ fetch.stage \in {"have", "failed"}
      /\ IF panel = "loading"
         THEN /\ queue' = queue \o init /\ posted' = posted
         ELSE /\ posted' = posted \o init \o (IF fetch.flush THEN queue ELSE <<>>)
              /\ queue' = IF fetch.flush THEN <<>> ELSE queue
  BY DEF Link!FetchEnds, Link!Flushed
<1>2. panel \in {"loading", "ready"}
  BY <1>1 DEF Types, Queues, Link!NoFetch
<1>3. panel = "ready" /\ ~fetch.flush => queue = <<>>
  BY DEF Queues
<1> QED BY <1>1, <1>2, <1>3 DEF EndOf

LEMMA FetchEndsKeeps ==
  ASSUME Carried, Link!FetchEnds
  PROVE  Carried'
<1>0. Types /\ Replies /\ Queues /\ EventsRight /\ Agreeing
  BY DEF Carried
<1>01. Unsure' = Unsure
  BY DEF Link!FetchEnds, Link!core, Unsure, Link!Resolving
<1>1. PICK init : init = IF fetch.stage = "have" THEN <<Link!Init0(fetch.snap)>> ELSE <<>>
  OBVIOUS
<1>2. /\ fetch.stage \in {"have", "failed"} /\ fetch' = Link!NoFetch
      /\ UNCHANGED <<pending, pipe, panel, rows, told, crossed>>
  BY DEF Link!FetchEnds, Link!core, Link!webview
<1> DEFINE m == Link!Init0(fetch.snap)
<1>3. m \in Message /\ m.type = "init" /\ m.rows = fetch.snap
  BY <1>0 DEF Types, Message, Link!Init0
<1>4. <<m>> \in Seq(Message) /\ <<>> \in Seq(Message) /\ <<m>> = Append(<<>>, m)
  BY <1>3
<1>5. Sendable(<<m>>) /\ Sendable(<<>>)
  <2>1. Sendable(<<>>)
    BY DEF Sendable
  <2> QED BY <1>3, <1>4, <2>1, InitMore
<1>6. init \in Seq(Message) /\ Sendable(init)
  BY <1>1, <1>4, <1>5
<1>7. EndOf(init)
  BY <1>0, <1>1, <1>6, FetchEndsSo
<1>8. queue \in Seq(Message) /\ posted \in Seq(Message) /\ Sendable(queue) /\ Sendable(posted)
  BY <1>0 DEF Types
<1>9. /\ queue \o init \in Seq(Message) /\ Sendable(queue \o init)
      /\ posted \o init \in Seq(Message) /\ Sendable(posted \o init)
  BY <1>6, <1>8, ConcatIs, SendableTwo
<1>10. (posted \o init) \o queue \in Seq(Message) /\ Sendable((posted \o init) \o queue)
  BY <1>8, <1>9, ConcatIs, SendableTwo
<1>11. Types'
  <2>1. /\ queue' \in Seq(Message) /\ posted' \in Seq(Message)
        /\ Sendable(queue') /\ Sendable(posted')
    BY <1>4, <1>5, <1>7, <1>8, <1>9, <1>10 DEF EndOf
  <2>2. fetch' \in [stage : {"none", "asked", "answered", "have", "failed"},
                   flush : BOOLEAN, snap : SUBSET ListChange]
    BY <1>2 DEF Link!NoFetch
  <2> QED BY <1>0, <1>2, <2>1, <2>2 DEF Types
<1>12. Replies' /\ EventsRight'
  BY <1>0, <1>01, <1>2 DEF Replies, EventsRight, Link!NoFetch
<1>13. Queues'
  BY <1>2, <1>7 DEF Queues, EndOf, Link!NoFetch
<1>14. ASSUME NEW c \in ListChange, WillAgree(c) PROVE WillAgree(c)'
  <2> DEFINE p == pending
  <2>1. /\ Right(pipe, c, p)' <=> Right(pipe, c, p)
        /\ Silent(pipe, c)' <=> Silent(pipe, c)
        /\ Listed(c)' <=> Listed(c)
        /\ pending' = pending
    BY <1>2 DEF Listed
  <2>11. Right(init, c, p) => Right(queue \o init, c, p) /\ Right(posted \o init, c, p)
    BY <1>6, <1>8, Two
  <2>12. /\ Right(queue, c, p) => Right((posted \o init) \o queue, c, p)
         /\ Silent(queue, c) /\ Right(posted \o init, c, p) =>
              Right((posted \o init) \o queue, c, p)
    BY <1>8, <1>9, Two
  <2>13. /\ panel = "loading" => queue' = queue \o init
         /\ panel = "ready" => posted' = (posted \o init) \o queue /\ queue' = <<>>
         /\ panel \in {"loading", "ready"}
    BY <1>7 DEF EndOf
  <2>2. CASE fetch.stage = "have"
    <3>1. init = <<m>>
      BY <1>1, <2>2
    <3>2. Snapped(c) => Right(init, c, p)
      <4>1. Snapped(c) => IsRight(m, c, p)
        BY <1>3 DEF Snapped, IsRight, Concerns, Tells
      <4> QED BY <1>3, <1>4, <3>1, <4>1, OneMore
    <3>3. Had(c)
      BY <1>14, <2>2 DEF WillAgree
    <3>4. panel = "loading" /\ Snapped(c) => Right(queue', c, p)
      BY <2>11, <2>13, <3>2
    <3>5. panel = "ready" /\ Right(queue, c, p) => Right(posted', c, p)
      BY <2>12, <2>13
    <3>6. panel = "ready" /\ Silent(queue, c) /\ Snapped(c) => Right(posted', c, p)
      BY <2>11, <2>12, <2>13, <3>2
    <3>7. panel = "ready" => Silent(queue', c)
      BY <2>13, NothingSaid
    <3>8. panel \in {"loading", "ready"}
      BY <2>13
    <3>9. Piped(c)'
      BY <2>1, <3>3, <3>4, <3>5, <3>6, <3>7, <3>8 DEF Piped, Queued, Posted, Had
    <3> QED BY <1>2, <3>9 DEF WillAgree, Overtaken, Link!NoFetch
  <2>3. CASE fetch.stage = "failed"
    <3>1. init = <<>>
      BY <1>1, <2>3
    <3>2. Piped(c)
      BY <1>14, <2>3 DEF WillAgree, Overtaken
    <3>3. queue \o init = queue /\ posted \o init = posted
      BY <1>8, <3>1, Nothing
    <3>4. CASE panel = "loading"
      <4>1. queue' = queue /\ posted' = posted
        BY <1>7, <3>3, <3>4 DEF EndOf
      <4>2. Piped(c)'
        BY <1>2, <3>2, <4>1 DEF Piped, Queued, Posted, Listed
      <4> QED BY <1>2, <4>2 DEF WillAgree, Overtaken, Link!NoFetch
    <3>5. CASE panel = "ready"
      <4>1. posted' = posted \o queue /\ queue' = <<>>
        BY <1>7, <3>3, <3>5 DEF EndOf
      <4>2. /\ Silent(posted \o queue, c) <=> Silent(posted, c) /\ Silent(queue, c)
            /\ Right(posted \o queue, c, p) <=>
                 Right(queue, c, p) \/ (Silent(queue, c) /\ Right(posted, c, p))
        BY <1>8, Two
      <4>3. Silent(queue', c)
        BY <4>1, NothingSaid
      <4>4. Queued(c) => Posted(c)'
        BY <2>1, <4>1, <4>2 DEF Queued, Posted
      <4>5. Piped(c)'
        BY <2>1, <3>2, <4>3, <4>4 DEF Piped, Queued
      <4> QED BY <1>2, <4>5 DEF WillAgree, Overtaken, Link!NoFetch
    <3> QED BY <1>7, <3>4, <3>5 DEF EndOf
  <2> QED BY <1>2, <2>2, <2>3
<1> QED BY <1>0, <1>01, <1>2, <1>11, <1>12, <1>13, <1>14 DEF Carried, Agreeing

LEMMA HandleKeeps ==
  ASSUME Carried, Link!Handle
  PROVE  Carried'
<1>0. Types /\ Replies /\ Queues /\ EventsRight /\ Agreeing
  BY DEF Carried
<1>01. Unsure' = Unsure
  BY DEF Link!Handle, Link!core, Unsure, Link!Resolving
<1> DEFINE m == Head(posted)
<1>1. /\ posted # <<>> /\ posted' = Tail(posted)
      /\ UNCHANGED <<pending, pipe, panel, queue, fetch, crossed>>
  BY DEF Link!Handle, Link!core
<1>2. rows' = Link!Applied(m) /\ told' = (told \/ m.type = "init")
  BY DEF Link!Handle
<1>3. posted \in Seq(Message) /\ m \in Message /\ posted' \in Seq(Message)
  BY <1>0, <1>1, TailOf DEF Types
<1>4. Sendable(posted') /\ m.type # "unclaimed"
  BY <1>0, <1>1, <1>3, InitLess DEF Types
<1>5. \/ m.type = "init" /\ m.rows \subseteq ListChange /\ rows' = m.rows
      \/ m.type = "kept" /\ rows' = rows \ {m.id}
      \/ m.type = "core-status" /\ rows' = rows
      \/ m.type \in {"tracked", "version"} /\ m.id \in ListChange \cup {Nil}
         /\ rows' = rows \cup {m.id}
  BY <1>2, <1>3, <1>4 DEF Message, Link!Event, Link!Applied
<1>6. Types'
  <2>1. rows' \subseteq ListChange \cup {Nil}
    BY <1>0, <1>5 DEF Types
  <2>2. told' \in BOOLEAN
    BY <1>0, <1>2 DEF Types
  <2> QED BY <1>0, <1>1, <1>3, <1>4, <2>1, <2>2 DEF Types
<1>7. Replies' /\ EventsRight'
  BY <1>0, <1>01, <1>1 DEF Replies, EventsRight
<1>8. Queues'
  BY <1>0, <1>1 DEF Queues
<1>9. ASSUME NEW c \in ListChange, Posted(c) PROVE Posted(c)'
  <2>1. /\ Silent(posted, c) <=> Silent(posted', c) /\ ~Concerns(m, c)
        /\ Right(posted, c, pending) <=>
             Right(posted', c, pending) \/ (Silent(posted', c) /\ IsRight(m, c, pending))
    BY <1>1, <1>3, OneLess
  <2>2. IsRight(m, c, pending) => Listed(c)'
    BY <1>1, <1>5 DEF IsRight, Concerns, Tells, Listed
  <2>3. ASSUME ~Concerns(m, c), Listed(c) PROVE Listed(c)'
    <3>1. m.type # "init" /\ (c \in rows' <=> c \in rows)
      BY <1>5, <2>3 DEF Concerns
    <3> QED BY <1>1, <1>2, <2>3, <3>1 DEF Listed
  <2>4. pending' = pending
    BY <1>1
  <2> QED BY <1>9, <2>1, <2>2, <2>3, <2>4 DEF Posted
<1>10. ASSUME NEW c \in ListChange, WillAgree(c) PROVE WillAgree(c)'
  <2>1. (Had(c)' <=> Had(c)) /\ (Replied(c)' <=> Replied(c)) /\ (Overtaken' <=> Overtaken)
    BY <1>1 DEF Had, Snapped, Replied, Overtaken
  <2>2. Piped(c) => Piped(c)'
    BY <1>1, <1>9 DEF Piped, Queued
  <2> QED BY <1>1, <1>10, <2>1, <2>2 DEF WillAgree
<1> QED BY <1>0, <1>01, <1>1, <1>6, <1>7, <1>8, <1>10 DEF Carried, Agreeing

-----------------------------------------------------------------------------
LEMMA InitCarries == Link!Init => Carried
<1> SUFFICES ASSUME Link!Init PROVE Carried
  OBVIOUS
<1>1. /\ pending \subseteq ListChange /\ pipe = <<>> /\ panel = "none" /\ queue = <<>>
      /\ posted = <<>> /\ fetch = Link!NoFetch /\ rows = {} /\ told = FALSE /\ crossed = FALSE
  BY DEF Link!Init
<1>2. Types
  <2>1. <<>> \in Seq(Message) /\ Sendable(<<>>)
    BY DEF Sendable
  <2> QED BY <1>1, <2>1 DEF Types, Link!NoFetch
<1>3. Replies
  BY <1>1 DEF Replies, OneInit, HasInit, Link!NoFetch
<1>4. Queues /\ Agreeing
  BY <1>1 DEF Queues, Agreeing, Link!NoFetch
<1>5. EventsRight
  <2>1. <<>> \in Seq(Message) /\ ~HasInit(<<>>)
    BY DEF HasInit
  <2>2. Link!Unclaimed(<<>>) = <<>>
    BY <2>1, NothingUnclaimed
  <2> QED BY <1>1, <2>2, NothingSaid DEF EventsRight, RightOrSilent
<1> QED BY <1>2, <1>3, <1>4, <1>5 DEF Carried

LEMMA StepCarries == LinkIInv /\ [Link!Next]_(Link!vars) => Carried'
<1> SUFFICES ASSUME Carried, Leaving, [Link!Next]_(Link!vars) PROVE Carried'
  BY DEF LinkIInv
<1>1. CASE \E c \in ListChange : Link!Track(c) \/ Link!Edit(c) \/ Link!Edited(c)
  BY <1>1, TrackKeeps, EditKeeps, EditedKeeps
<1>2. CASE \E c \in ListChange : Link!Resolve(c) \/ Link!Resolved(c) \/ Link!Delete(c)
  BY <1>2, ResolveKeeps, ResolvedKeeps, DeleteKeeps
<1>3. CASE \E w \in work : Link!Fails(w)
  BY <1>3, FailsKeeps
<1>4. CASE Link!Answer \/ Link!Exit
  BY <1>4, AnswerKeeps, ExitKeeps
<1>5. CASE Link!ReadLine \/ Link!OpenPanel \/ Link!FetchFails \/ Link!FetchEnds \/ Link!Dispose
  BY <1>5, ReadLineKeeps, OpenPanelKeeps, FetchFailsKeeps, FetchEndsKeeps, DisposeKeeps
<1>6. CASE \E s \in BOOLEAN : Link!WebviewReady(s) \/ Link!Refresh(s)
  BY <1>6, AskingKeeps
<1>7. CASE Link!Handle
  BY <1>7, HandleKeeps
<1>8. CASE UNCHANGED Link!vars
  <2>1. UNCHANGED <<pending, missed, work, pipe, panel, queue, fetch, posted, rows, told, crossed>>
    BY <1>8 DEF Link!vars, Link!core, Link!webview
  <2> QED BY <2>1 DEF Carried, Types, Replies, Queues, EventsRight, Agreeing, WillAgree, Had,
                      Replied, Piped, Queued, Posted, Listed, Snapped, Overtaken, Unsure, Link!Resolving
<1> QED BY <1>1, <1>2, <1>3, <1>4, <1>5, <1>6, <1>7, <1>8 DEF Link!Next

LEMMA StepLeaves ==
  ASSUME Leaving, [Link!Next]_(Link!vars)
  PROVE  Leaving'
<1>1. ASSUME NEW c \in ListChange, Link!Track(c) PROVE Leaving'
  BY <1>1 DEF Link!Track, Leaving, Link!Resolving
<1>2. ASSUME NEW c \in ListChange, Link!Edit(c) \/ Link!Edited(c) PROVE Leaving'
  <2>1. UNCHANGED <<pending, known>> /\ work' \subseteq work \cup {<<"edit", c>>}
    BY <1>2 DEF Link!Edit, Link!Edited
  <2>2. \A d : <<"resolve", d>> \in work' => <<"resolve", d>> \in work
    BY <2>1
  <2> QED BY <2>1, <2>2 DEF Leaving, Link!Resolving
<1>3. ASSUME NEW c \in ListChange, Link!Resolve(c) PROVE Leaving'
  <2>1. /\ UNCHANGED known /\ work' = work \cup {<<"resolve", c>>}
        /\ c \in pending /\ pending' = pending \ {c}
    BY <1>3 DEF Link!Resolve
  <2>2. \A d : <<"resolve", d>> \in work' => <<"resolve", d>> \in work \/ d = c
    BY <2>1
  <2> QED BY <2>1, <2>2 DEF Leaving, Link!Resolving
<1>4. ASSUME NEW c \in ListChange, Link!Resolved(c) \/ Link!Delete(c) PROVE Leaving'
  BY <1>4 DEF Link!Resolved, Link!Delete, Leaving, Link!Resolving
<1>5. ASSUME NEW w \in work, Link!Fails(w) PROVE Leaving'
  BY <1>5 DEF Link!Fails, Leaving, Link!Resolving
<1>6. CASE Link!Answer \/ Link!Exit
  BY <1>6 DEF Link!Answer, Link!Exit, Leaving, Link!Resolving
<1>7. CASE Link!ReadLine \/ Link!OpenPanel \/ Link!FetchFails \/ Link!FetchEnds \/ Link!Dispose \/ Link!Handle
  BY <1>7 DEF Link!ReadLine, Link!OpenPanel, Link!FetchFails, Link!FetchEnds, Link!Dispose, Link!Handle, Link!core, Leaving, Link!Resolving
<1>8. CASE \E s \in BOOLEAN : Link!WebviewReady(s) \/ Link!Refresh(s)
  BY <1>8 DEF Link!WebviewReady, Link!Refresh, Link!SendInitData, Leaving, Link!Resolving
<1>9. CASE UNCHANGED Link!vars
  BY <1>9 DEF Link!vars, Link!core, Leaving, Link!Resolving
<1> QED BY <1>1, <1>2, <1>3, <1>4, <1>5, <1>6, <1>7, <1>8, <1>9 DEF Link!Next

LEMMA LinkInitEstablishes == Link!Init => LinkIInv
<1>1. Link!Init => Leaving
  BY DEF Link!Init, Leaving, Link!Resolving
<1> QED BY <1>1, InitCarries DEF LinkIInv

LEMMA LinkStepPreserves == LinkIInv /\ [Link!Next]_(Link!vars) => LinkIInv'
  BY StepCarries, StepLeaves DEF LinkIInv

LEMMA LinkInvImplies == LinkIInv => Link!ListAgrees
<1> SUFFICES ASSUME LinkIInv, Link!Settled, NEW c \in ListChange \ missed PROVE c \in rows <=> c \in pending
  BY DEF Link!ListAgrees
<1>1. /\ panel = "ready" /\ told /\ ~crossed /\ pipe = <<>> /\ queue = <<>> /\ posted = <<>>
      /\ fetch.stage = "none" /\ Link!Resolving = {}
  BY DEF Link!Settled, Link!NoFetch
<1>2. c \notin Unsure
  BY <1>1 DEF Unsure
<1>3. Piped(c)
  BY <1>1, <1>2 DEF LinkIInv, Carried, Agreeing, WillAgree, Overtaken
<1>4. Listed(c)
  BY <1>1, <1>3, NothingSaid DEF Piped, Queued, Posted
<1> QED BY <1>1, <1>4 DEF Listed

-----------------------------------------------------------------------------
(* The bounds of the instance and the types.  The core writes no status of *)
(* its own.                                                                *)
Line ==
  Link!Event \cup [type : {"init"}, rows : SUBSET ListChange] \cup [type : {"unclaimed"}]

LinkBounded ==
  /\ pending \subseteq known /\ known \subseteq ListChange /\ coreUp \in BOOLEAN
  /\ pipe \in Seq(Line)
  /\ missed \subseteq known /\ work \subseteq {"edit", "resolve"} \X known
  /\ opens \in 0 .. MaxOpens /\ exits \in 0 .. MaxExits

LEMMA LinkBoundedInit == Link!Init => LinkBounded
<1>1. <<>> \in Seq(Line)
  OBVIOUS
<1>2. Link!Init => /\ pending \subseteq ListChange /\ known = pending /\ coreUp = TRUE /\ pipe = <<>>
              /\ work = {} /\ missed = {} /\ opens = 0 /\ exits = 0
  BY DEF Link!Init
<1>3. 0 \in 0 .. MaxOpens /\ 0 \in 0 .. MaxExits
  BY BoundAssumption
<1> QED BY <1>1, <1>2, <1>3 DEF LinkBounded

LEMMA LinesTyped ==
  ASSUME NEW q \in Seq(Line)
  PROVE  /\ \A m \in Line : Append(q, m) \in Seq(Line)
         /\ \A p \in Seq(Line) : q \o p \in Seq(Line)
         /\ q # <<>> => Tail(q) \in Seq(Line)
<1>1. \A p \in Seq(Line) : q \o p \in Seq(Line)
  OBVIOUS
<1>2. \A m \in Line : Append(q, m) \in Seq(Line)
  OBVIOUS
<1>3. q # <<>> => Tail(q) \in Seq(Line)
  OBVIOUS
<1> QED BY <1>1, <1>2, <1>3

LEMMA UnclaimedTyped ==
  ASSUME NEW q \in Seq(Line)
  PROVE  Link!Unclaimed(q) \in Seq(Line)
<1>1. DOMAIN q = 1 .. Len(q) /\ Len(q) \in Nat /\ \A i \in 1 .. Len(q) : q[i] \in Line
  OBVIOUS
<1>2. [type |-> "unclaimed"] \in Line
  BY DEF Line
<1>3. Link!Unclaimed(q) = [i \in 1 .. Len(q) |-> IF q[i].type = "init" THEN [type |-> "unclaimed"] ELSE q[i]]
  BY <1>1 DEF Link!Unclaimed
<1>4. \A i \in 1 .. Len(q) : (IF q[i].type = "init" THEN [type |-> "unclaimed"] ELSE q[i]) \in Line
  BY <1>1, <1>2
<1> QED BY <1>1, <1>3, <1>4

(* What the core does and says.                                            *)
LEMMA SaysTyped ==
  ASSUME LinkBounded, NEW q \in Seq(Line), Link!Says(q)
  PROVE  pipe' \in Seq(Line) /\ coreUp' \in BOOLEAN /\ exits' \in 0 .. MaxExits
<1>1. pipe' = pipe \o q /\ coreUp' = coreUp /\ exits' = exits
  BY DEF Link!Says
<1> QED BY <1>1, LinesTyped DEF LinkBounded

LEMMA SayingTyped ==
  /\ <<>> \in Seq(Line)
  /\ \A c \in ListChange :
       /\ <<Link!Tracked(c), [type |-> "version", id |-> Nil]>> \in Seq(Line)
       /\ <<Link!Tracked(c)>> \in Seq(Line) /\ <<[type |-> "kept", id |-> c]>> \in Seq(Line)
<1>1. \A m, n \in Line : <<m, n>> \in Seq(Line)
  OBVIOUS
<1>2. \A m \in Line : <<m>> \in Seq(Line)
  OBVIOUS
<1>3. <<>> \in Seq(Line)
  OBVIOUS
<1>4. ASSUME NEW c \in ListChange
      PROVE  /\ Link!Tracked(c) \in Line /\ [type |-> "version", id |-> Nil] \in Line
             /\ [type |-> "kept", id |-> c] \in Line
  BY DEF Link!Tracked, Line, Link!Event
<1> QED BY <1>1, <1>2, <1>3, <1>4

LEMMA CoreSays ==
  ASSUME LinkBounded,
         NEW c \in ListChange, Link!Track(c) \/ Link!Edit(c) \/ Link!Edited(c) \/ Link!Resolve(c) \/ Link!Resolved(c) \/ Link!Delete(c)
  PROVE  LinkBounded'
<1>1. PICK q \in Seq(Line) : Link!Says(q)
  BY SayingTyped DEF Link!Track, Link!Edit, Link!Edited, Link!Resolve, Link!Resolved, Link!Delete
<1>2. pipe' \in Seq(Line) /\ coreUp' \in BOOLEAN /\ exits' \in 0 .. MaxExits
  BY <1>1, SaysTyped
<1>3. opens' \in 0 .. MaxOpens
  <2>1. opens' = opens \/ (opens < MaxOpens /\ opens' = opens + 1)
    BY DEF Link!Track, Link!Edit, Link!Edited, Link!Resolve, Link!Resolved, Link!Delete
  <2> QED BY <2>1, BoundAssumption DEF LinkBounded
<1>4. pending' \subseteq known' /\ known' \subseteq ListChange
  BY DEF Link!Track, Link!Edit, Link!Edited, Link!Resolve, Link!Resolved, Link!Delete, LinkBounded
<1>5. /\ known \subseteq known' /\ missed' \subseteq missed \cup {c}
      /\ work' \subseteq work \cup {<<"edit", c>>, <<"resolve", c>>}
      /\ (missed' # missed \/ ~(work' \subseteq work)) => c \in known
  BY DEF Link!Track, Link!Edit, Link!Edited, Link!Resolve, Link!Resolved, Link!Delete, LinkBounded
<1>6. missed' \subseteq known'
  BY <1>5 DEF LinkBounded
<1>7. work' \subseteq {"edit", "resolve"} \X known'
  BY <1>5 DEF LinkBounded
<1> QED BY <1>2, <1>3, <1>4, <1>6, <1>7 DEF LinkBounded

LEMMA CoreTyped ==
  ASSUME LinkBounded, (\E w \in work : Link!Fails(w)) \/ Link!Answer \/ Link!Exit
  PROVE  LinkBounded'
<1>0. pipe \in Seq(Line) /\ pending \subseteq ListChange
  BY DEF LinkBounded
<1>1. ASSUME NEW w \in work, Link!Fails(w) PROVE LinkBounded'
  <2>1. pipe' \in Seq(Line) /\ coreUp' \in BOOLEAN /\ exits' \in 0 .. MaxExits
    BY <1>1, SayingTyped, SaysTyped DEF Link!Fails
  <2>2. /\ UNCHANGED <<pending, known, opens>> /\ work' = work \ {w}
        /\ missed' \subseteq missed \cup {w[2]}
    BY <1>1 DEF Link!Fails
  <2>3. w[2] \in known
    BY DEF LinkBounded
  <2> QED BY <2>1, <2>2, <2>3 DEF LinkBounded
<1>3. CASE Link!Answer
  <2>1. PICK m : m = Link!Init0(pending)
    OBVIOUS
  <2>2. m \in Line
    BY <1>0, <2>1 DEF Line, Link!Init0
  <2>3. /\ pipe' = Append(pipe, m) /\ missed' \subseteq missed
        /\ UNCHANGED <<pending, known, coreUp, work, opens, exits>>
    BY <1>3, <2>1 DEF Link!Answer
  <2> QED BY <1>0, <2>2, <2>3, LinesTyped DEF LinkBounded
<1>4. CASE Link!Exit
  <2>1. /\ exits < MaxExits /\ exits' = exits + 1 /\ coreUp' = FALSE
        /\ work' = {} /\ missed' = missed \cup Link!Resolving
        /\ UNCHANGED <<pending, known, pipe, opens>>
    BY <1>4 DEF Link!Exit
  <2>2. exits' \in 0 .. MaxExits
    BY <2>1, BoundAssumption DEF LinkBounded
  <2>3. Link!Resolving \subseteq known
    BY DEF Link!Resolving, LinkBounded
  <2> QED BY <2>1, <2>2, <2>3 DEF LinkBounded
<1> QED BY <1>1, <1>3, <1>4

LEMMA PanelTyped ==
  ASSUME LinkBounded, Link!OpenPanel \/ \E s \in BOOLEAN : Link!WebviewReady(s) \/ Link!Refresh(s)
  PROVE  LinkBounded'
<1>1. /\ opens' \in {opens, opens + 1} /\ (opens' # opens => opens < MaxOpens)
      /\ coreUp' \in BOOLEAN
      /\ UNCHANGED <<pending, known, work, missed, pipe, exits>>
  BY DEF Link!OpenPanel, Link!WebviewReady, Link!Refresh, Link!SendInitData, Link!core, Link!webview, LinkBounded
<1>2. opens' \in 0 .. MaxOpens
  BY <1>1, BoundAssumption DEF LinkBounded
<1> QED BY <1>1, <1>2 DEF LinkBounded

LEMMA RestTyped ==
  ASSUME LinkBounded, Link!ReadLine \/ Link!FetchFails \/ Link!FetchEnds \/ Link!Dispose \/ Link!Handle
  PROVE  LinkBounded'
<1>0. pipe \in Seq(Line)
  BY DEF LinkBounded
<1>1. CASE Link!ReadLine
  <2>1. /\ pipe # <<>> /\ pipe' = Tail(pipe)
        /\ UNCHANGED <<pending, known, coreUp, exits, work, missed, opens>>
    BY <1>1 DEF Link!ReadLine, Link!core, Link!webview
  <2> QED BY <1>0, <2>1, LinesTyped DEF LinkBounded
<1>2. CASE Link!FetchFails \/ Link!FetchEnds
  <2>1. UNCHANGED <<pending, known, coreUp, exits, work, missed, opens, pipe>>
    BY <1>2 DEF Link!FetchFails, Link!FetchEnds, Link!core, Link!webview
  <2> QED BY <2>1 DEF LinkBounded
<1>3. CASE Link!Dispose
  <2>1. pipe' = Link!Unclaimed(pipe) /\ UNCHANGED <<pending, known, coreUp, exits, work, missed, opens>>
    BY <1>3 DEF Link!Dispose, Link!core, Link!webview
  <2> QED BY <1>0, <2>1, UnclaimedTyped DEF LinkBounded
<1>4. CASE Link!Handle
  <2>1. UNCHANGED <<pending, known, coreUp, exits, work, missed, opens, pipe>>
    BY <1>4 DEF Link!Handle, Link!core, LinkBounded
  <2> QED BY <2>1 DEF LinkBounded
<1> QED BY <1>1, <1>2, <1>3, <1>4

LEMMA LinkBoundedStep == LinkBounded /\ [Link!Next]_(Link!vars) => LinkBounded'
<1>1. LinkBounded /\ UNCHANGED Link!vars => LinkBounded'
  BY DEF Link!vars, Link!core, Link!webview, LinkBounded
<1> QED BY <1>1, CoreSays, CoreTyped, PanelTyped, RestTyped DEF Link!Next

LEMMA LinkBoundedTypes == LinkIInv /\ LinkBounded => Link!TypeOK
<1> SUFFICES ASSUME LinkIInv, LinkBounded PROVE Link!TypeOK
  OBVIOUS
<1>1. \A i \in DOMAIN pipe : pipe[i] \in Line
  BY DEF LinkBounded
<1>2. \A m \in Line : m.type \in {"init", "unclaimed"} \/ m \in Link!Event
  BY DEF Line
<1>3. fetch.stage \in {"none", "asked", "answered", "have", "failed"}
  BY DEF LinkIInv, Carried, Types
<1> QED BY <1>1, <1>2, <1>3 DEF LinkIInv, Carried, Types, LinkBounded, Link!TypeOK

-----------------------------------------------------------------------------
(* Of this part, the specification of Parts is the part's own.             *)
LEMMA FeedRuns ==
  /\ Init /\ part = "ActivityFeed" => Feed!Init
  /\ [Next]_vars /\ part' = "ActivityFeed" =>
       part = "ActivityFeed" /\ [Feed!Next]_(Feed!vars)
<1>1. Init /\ part = "ActivityFeed" => Feed!Init
  BY DEF Init
<1>2. Next /\ part' = "ActivityFeed" => part = "ActivityFeed" /\ Feed!Next
  BY DEF Next
<1>3. UNCHANGED vars => part' = part /\ UNCHANGED Feed!vars
  BY DEF vars, Feed!vars
<1> QED BY <1>1, <1>2, <1>3

(* The activity feed (sessions.getActivity, inbound-sessions.js): what the *)
(* increments leave in the webview is what a full answer would show, for   *)
(* every call whose logs arrived in the order of their timestamps and are  *)
(* in the window, whatever instants events share and however polls, tab    *)
(* switches and answers interleave.                                        *)
THEOREM FeedIsWhole == Spec => []FeedAgrees
<1> DEFINE I == part = "ActivityFeed" => Sworn
<1>1. Init => I
  BY FeedRuns, SwornInit
<1>2. I /\ [Next]_vars => I'
  BY FeedRuns, SwornNext
<1>3. I => FeedAgrees
  BY SwornAgrees DEF FeedAgrees
<1> QED BY <1>1, <1>2, <1>3, PTL DEF Spec

LEMMA LinkRuns ==
  /\ Init /\ part = "PanelLink" => Link!Init
  /\ [Next]_vars /\ part' = "PanelLink" =>
       part = "PanelLink" /\ [Link!Next]_(Link!vars)
<1>1. Init /\ part = "PanelLink" => Link!Init
  BY DEF Init
<1>2. Next /\ part' = "PanelLink" => part = "PanelLink" /\ Link!Next
  BY DEF Next
<1>3. UNCHANGED vars => part' = part /\ UNCHANGED Link!vars
  BY DEF vars, Link!vars, Link!core, Link!webview
<1> QED BY <1>1, <1>2, <1>3

(* The list of pending changes (panel.ts, api/inbound-changes.js): when    *)
(* nothing is on its way any more, and no event overtook a queued message  *)
(* or the reply, the webview lists of the changes the core has told of     *)
(* those that are pending, whatever was edited, queued, fetched again,     *)
(* disposed of or restarted meanwhile.  Not told of are a change deleted,  *)
(* one whose archiving failed or was cut short, and one announced again    *)
(* after it was resolved, each until it is in a reply.                     *)
THEOREM ListIsOfCore == Spec => []ListAgrees
<1> DEFINE I == part = "PanelLink" => LinkIInv
<1>1. Init => I
  BY LinkRuns, LinkInitEstablishes
<1>2. I /\ [Next]_vars => I'
  BY LinkRuns, LinkStepPreserves
<1>3. I => ListAgrees
  BY LinkInvImplies DEF ListAgrees
<1> QED BY <1>1, <1>2, <1>3, PTL DEF Spec

-----------------------------------------------------------------------------
LEMMA FeedTyped ==
  Spec => [](part = "ActivityFeed" => Feed!TypeOK)
<1> DEFINE I == part = "ActivityFeed" => Sworn /\ FeedBounded
<1>1. Init => I
  BY FeedRuns, SwornInit, FeedBoundedInit
<1>2. I /\ [Next]_vars => I'
  BY FeedRuns, SwornNext, FeedBoundedStep
<1>3. I => (part = "ActivityFeed" => Feed!TypeOK)
  BY FeedBoundedTypes
<1> QED BY <1>1, <1>2, <1>3, PTL DEF Spec

LEMMA LinkTyped ==
  Spec => [](part = "PanelLink" => Link!TypeOK)
<1> DEFINE I == part = "PanelLink" => LinkIInv /\ LinkBounded
<1>1. Init => I
  BY LinkRuns, LinkInitEstablishes, LinkBoundedInit
<1>2. I /\ [Next]_vars => I'
  BY LinkRuns, LinkStepPreserves, LinkBoundedStep
<1>3. I => (part = "PanelLink" => Link!TypeOK)
  BY LinkBoundedTypes
<1> QED BY <1>1, <1>2, <1>3, PTL DEF Spec

(* The activity feed and the list of pending changes keep their types:     *)
(* every instant, log and item is one of the program's, what is pending is *)
(* known, and only messages the handlers know are on the pipe.             *)
THEOREM PanelPartsTyped ==
  Spec => [](part \in {"ActivityFeed", "PanelLink"} => TypeOK)
<1> DEFINE I ==
      /\ (part = "ActivityFeed" => Feed!TypeOK)
      /\ (part = "PanelLink" => Link!TypeOK)
<1>1. I => (part \in {"ActivityFeed", "PanelLink"} => TypeOK)
  BY DEF TypeOK
<1> QED BY <1>1, FeedTyped, LinkTyped, PTL

=============================================================================
