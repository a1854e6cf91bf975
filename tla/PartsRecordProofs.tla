-------------------------- MODULE PartsRecordProofs ---------------------------
(***************************************************************************)
(* Proofs about what is kept in files - the logs, the versions of files    *)
(* and the tray -, for every value of the constants of Parts.  Each part   *)
(* has an inductive invariant of its own, and the specification of Parts   *)
(* is, of a part, that part's.                                             *)
(***************************************************************************)
EXTENDS Parts, Sequences, FiniteSets, WellFoundedInduction, FiniteSetTheorems,
  TLAPS

(* The slots of Parts, under the names the parts give them.                *)
crashes == v1
restarts == v1
added == v2
begun == v2
logs == v2
delivered == v3
edits == v3
expected == v3
acked == v4
inodes == v4
stored == v4
era == v5
live == v5
ops == v5
files == v6
overlapped == v6
sweep == v6
appends == v7
history == v7
target == v7
discarded == v8
mixed == v8
temp == v8
entryOf == v9
names == v9
exposed == v10
reordered == v10
forgotten == v11
tasks == v11
lingering == v12
recentDeliveries == v13
rotated == v14
sweeps == v15

USE DEF crashes, restarts, added, begun, logs, delivered, edits, expected,
  acked, inodes, stored, era, live, ops, files, overlapped, sweep, appends,
  history, target, discarded, mixed, temp, entryOf, names, exposed, reordered,
  forgotten, tasks, lingering, recentDeliveries, rotated, sweeps

-----------------------------------------------------------------------------
(* What a filter leaves of an array, by induction on the array's length.   *)

(* Induction: a set of naturals has a least element.                       *)
LEMMA NatMin ==
  ASSUME NEW T, T \subseteq Nat, T # {}
  PROVE  \E m \in T : \A n \in T : m <= n
<1>1. PICK x \in T : \A y \in T : ~ (<<y, x>> \in OpToRel(<,Nat))
  BY NatLessThanWellFounded, WFMin
<1>2. \A y \in T : ~(y < x)
  BY <1>1, Zenon DEF OpToRel
<1>3. \A y \in T : x <= y
  BY <1>2
<1> QED BY <1>3

(* The function that the recursion of Filter defines, up to n.             *)
FilterTo(s, S, n, f) ==
  f = [i \in 0 .. n |-> IF i = 0 THEN <<>>
                        ELSE IF s[i] \in S THEN Append(f[i - 1], s[i]) ELSE f[i - 1]]

(* There is such a function ...                                            *)
LEMMA FilterExists ==
  ASSUME NEW s, NEW S, NEW n \in Nat
  PROVE  \E f : FilterTo(s, S, n, f)
<1> DEFINE Bad == {k \in Nat : ~\E f : FilterTo(s, S, k, f)}
<1> SUFFICES ASSUME Bad # {} PROVE FALSE
  OBVIOUS
<1>1. PICK m \in Bad : \A k \in Bad : m <= k
  BY NatMin
<1>2. CASE m = 0
  <2>1. FilterTo(s, S, 0, [i \in 0 .. 0 |-> <<>>])
    BY DEF FilterTo
  <2> QED BY <1>1, <1>2, <2>1
<1>3. CASE m # 0
  <2>1. m - 1 \in Nat /\ m - 1 \notin Bad
    BY <1>1, <1>3
  <2>2. PICK f : FilterTo(s, S, m - 1, f)
    BY <2>1
  <2>3. PICK last : last = IF s[m] \in S THEN Append(f[m - 1], s[m]) ELSE f[m - 1]
    OBVIOUS
  <2>4. PICK g : g = [i \in 0 .. m |-> IF i = m THEN last ELSE f[i]]
    OBVIOUS
  <2>5. \A i \in 0 .. m - 1 : f[i] = IF i = 0 THEN <<>>
                        ELSE IF s[i] \in S THEN Append(f[i - 1], s[i]) ELSE f[i - 1]
    BY <2>1, <2>2 DEF FilterTo
  <2>6. \A i \in 0 .. m : g[i] = IF i = 0 THEN <<>>
                        ELSE IF s[i] \in S THEN Append(g[i - 1], s[i]) ELSE g[i - 1]
    <3> TAKE i \in 0 .. m
    <3>1. CASE i = m
      <4>1. g[m] = last /\ g[m - 1] = f[m - 1]
        BY <1>1, <1>3, <2>4
      <4> QED BY <1>3, <2>3, <3>1, <4>1
    <3>2. CASE i = 0
      <4>1. g[0] = f[0] /\ f[0] = <<>>
        BY <1>1, <1>3, <2>4, <2>5
      <4> QED BY <3>2, <4>1
    <3>3. CASE i # m /\ i # 0
      <4>1. i \in 0 .. m - 1 /\ g[i] = f[i] /\ g[i - 1] = f[i - 1]
        BY <1>1, <1>3, <2>4, <3>3
      <4> QED BY <2>5, <3>3, <4>1
    <3> QED BY <3>1, <3>2, <3>3
  <2>7. g = [i \in 0 .. m |-> IF i = 0 THEN <<>>
                        ELSE IF s[i] \in S THEN Append(g[i - 1], s[i]) ELSE g[i - 1]]
    BY <2>4, <2>6
  <2> QED BY <1>1, <2>7 DEF FilterTo
<1> QED BY <1>2, <1>3

(* ... and the filter is its last value.                                   *)
LEMMA FilterBy ==
  ASSUME NEW T, NEW s \in Seq(T), NEW S
  PROVE  \E f : /\ f[0] = <<>> /\ Logs!Filter(s, S) = f[Len(s)]
                /\ \A i \in 1 .. Len(s) :
                     f[i] = IF s[i] \in S THEN Append(f[i - 1], s[i]) ELSE f[i - 1]
<1>0. Len(s) \in Nat
  OBVIOUS
<1> DEFINE h == CHOOSE f : f = [i \in 0 .. Len(s) |-> IF i = 0 THEN <<>>
                        ELSE IF s[i] \in S THEN Append(f[i - 1], s[i]) ELSE f[i - 1]]
<1>1. \E f : f = [i \in 0 .. Len(s) |-> IF i = 0 THEN <<>>
                        ELSE IF s[i] \in S THEN Append(f[i - 1], s[i]) ELSE f[i - 1]]
  <2>1. \E f : FilterTo(s, S, Len(s), f)
    BY <1>0, FilterExists
  <2> QED BY <2>1 DEF FilterTo
<1>2. h = [i \in 0 .. Len(s) |-> IF i = 0 THEN <<>>
                        ELSE IF s[i] \in S THEN Append(h[i - 1], s[i]) ELSE h[i - 1]]
  BY <1>1
<1>3. Logs!Filter(s, S) = h[Len(s)]
  BY DEF Logs!Filter
<1> HIDE DEF h
<1>4. h[0] = <<>>
  BY <1>0, <1>2
<1>5. \A i \in 1 .. Len(s) :
                     h[i] = IF s[i] \in S THEN Append(h[i - 1], s[i]) ELSE h[i - 1]
  <2> TAKE i \in 1 .. Len(s)
  <2>1. i \in 0 .. Len(s) /\ i # 0
    BY <1>0
  <2> QED BY <1>2, <2>1
<1> QED BY <1>3, <1>4, <1>5

(* w is the subsequence of the first n of s that are in S.                 *)
Selects(e, w, s, n, S) ==
  /\ e \in [1 .. Len(w) -> 1 .. n]
  /\ \A i, j \in 1 .. Len(w) : i < j => e[i] < e[j]
  /\ \A i \in 1 .. Len(w) : w[i] = s[e[i]] /\ w[i] \in S
  /\ \A j \in 1 .. n : s[j] \in S => \E i \in 1 .. Len(w) : e[i] = j

IsFilter(w, s, n, S, T) == w \in Seq(T) /\ Len(w) <= n /\ \E e : Selects(e, w, s, n, S)

(* One more element, taken or left out.                                    *)
LEMMA FilterMore ==
  ASSUME NEW T, NEW s \in Seq(T), NEW S, NEW n \in Nat, n + 1 \in 1 .. Len(s),
         NEW w, IsFilter(w, s, n, S, T)
  PROVE  IsFilter(IF s[n + 1] \in S THEN Append(w, s[n + 1]) ELSE w, s, n + 1, S, T)
<1>1. w \in Seq(T) /\ Len(w) \in Nat /\ Len(w) <= n /\ s[n + 1] \in T
  BY DEF IsFilter
<1>2. PICK e : Selects(e, w, s, n, S)
  BY DEF IsFilter
<1>3. /\ e \in [1 .. Len(w) -> 1 .. n]
      /\ \A i, j \in 1 .. Len(w) : i < j => e[i] < e[j]
      /\ \A i \in 1 .. Len(w) : w[i] = s[e[i]] /\ w[i] \in S
      /\ \A j \in 1 .. n : s[j] \in S => \E i \in 1 .. Len(w) : e[i] = j
  BY <1>2 DEF Selects
<1>4. \A j \in 1 .. n + 1 : j \in 1 .. n \/ j = n + 1
  OBVIOUS
<1>5. CASE s[n + 1] \notin S
  <2>1. e \in [1 .. Len(w) -> 1 .. n + 1]
    BY <1>3
  <2>2. \A j \in 1 .. n + 1 : s[j] \in S => \E i \in 1 .. Len(w) : e[i] = j
    BY <1>3, <1>4, <1>5
  <2>3. Selects(e, w, s, n + 1, S)
    BY <1>3, <2>1, <2>2 DEF Selects
  <2>4. Len(w) <= n + 1
    BY <1>1
  <2> QED BY <1>1, <1>5, <2>3, <2>4 DEF IsFilter
<1>6. CASE s[n + 1] \in S
  <2>1. PICK z : z = Append(w, s[n + 1])
    OBVIOUS
  <2>2. PICK d : d = [i \in 1 .. Len(w) + 1 |-> IF i = Len(w) + 1 THEN n + 1 ELSE e[i]]
    OBVIOUS
  <2>3. /\ z \in Seq(T) /\ Len(z) = Len(w) + 1 /\ z[Len(w) + 1] = s[n + 1]
        /\ \A i \in 1 .. Len(w) : z[i] = w[i]
    BY <1>1, <2>1
  <2>4. /\ d[Len(w) + 1] = n + 1 /\ \A i \in 1 .. Len(w) : d[i] = e[i]
        /\ DOMAIN d = 1 .. Len(w) + 1
    BY <1>1, <2>2
  <2>5. \A i \in 1 .. Len(w) + 1 : i \in 1 .. Len(w) \/ i = Len(w) + 1
    BY <1>1
  <2>6. \A i \in 1 .. Len(w) : d[i] \in 1 .. n
    BY <1>3, <2>4
  <2>7. d \in [1 .. Len(z) -> 1 .. n + 1]
    <3>1. \A i \in 1 .. Len(w) + 1 : d[i] \in 1 .. n + 1
      BY <2>4, <2>5, <2>6
    <3>2. d = [i \in 1 .. Len(w) + 1 |-> d[i]]
      BY <2>2
    <3> QED BY <2>3, <3>1, <3>2
  <2>8. ASSUME NEW i \in 1 .. Len(z), NEW j \in 1 .. Len(z), i < j PROVE d[i] < d[j]
    <3>1. i \in 1 .. Len(w)
      BY <1>1, <2>3, <2>8
    <3>2. CASE j \in 1 .. Len(w)
      BY <1>3, <2>4, <2>8, <3>1, <3>2
    <3>3. CASE j = Len(w) + 1
      <4>1. d[i] \in 1 .. n /\ d[j] = n + 1
        BY <2>4, <2>6, <3>1, <3>3
      <4> QED BY <4>1
    <3> QED BY <2>3, <2>5, <3>2, <3>3
  <2>9. \A i \in 1 .. Len(z) : z[i] = s[d[i]] /\ z[i] \in S
    BY <1>3, <1>6, <2>3, <2>4, <2>5
  <2>10. ASSUME NEW j \in 1 .. n + 1, s[j] \in S PROVE \E i \in 1 .. Len(z) : d[i] = j
    <3>1. CASE j = n + 1
      <4>1. Len(w) + 1 \in 1 .. Len(z)
        BY <1>1, <2>3
      <4> QED BY <2>4, <3>1, <4>1
    <3>2. CASE j \in 1 .. n
      <4>1. PICK i \in 1 .. Len(w) : e[i] = j
        BY <1>3, <2>10, <3>2
      <4>2. i \in 1 .. Len(z)
        BY <1>1, <2>3
      <4> QED BY <2>4, <4>1, <4>2
    <3> QED BY <1>4, <3>1, <3>2
  <2>11. Selects(d, z, s, n + 1, S)
    BY <2>7, <2>8, <2>9, <2>10 DEF Selects
  <2>12. Len(z) <= n + 1
    BY <1>1, <2>3
  <2> QED BY <1>6, <2>1, <2>3, <2>11, <2>12 DEF IsFilter
<1> QED BY <1>5, <1>6

(* The filter is the subsequence of the elements to keep.                  *)
LEMMA FilterIs ==
  ASSUME NEW T, NEW s \in Seq(T), NEW S
  PROVE  IsFilter(Logs!Filter(s, S), s, Len(s), S, T)
<1>0. Len(s) \in Nat
  OBVIOUS
<1>1. PICK f : /\ f[0] = <<>> /\ Logs!Filter(s, S) = f[Len(s)]
               /\ \A i \in 1 .. Len(s) :
                     f[i] = IF s[i] \in S THEN Append(f[i - 1], s[i]) ELSE f[i - 1]
  BY FilterBy
<1> DEFINE Bad == {n \in 0 .. Len(s) : ~IsFilter(f[n], s, n, S, T)}
<1>2. SUFFICES ASSUME Bad # {} PROVE FALSE
  BY <1>0, <1>1
<1>3. PICK m \in Bad : \A n \in Bad : m <= n
  <2>1. Bad \subseteq Nat
    BY <1>0
  <2> QED BY <1>2, <2>1, NatMin
<1>4. CASE m = 0
  <2>1. <<>> \in Seq(T) /\ Len(<<>>) = 0
    OBVIOUS
  <2>2. Selects(<<>>, <<>>, s, 0, S)
    BY DEF Selects
  <2> QED BY <1>1, <1>3, <1>4, <2>1, <2>2 DEF IsFilter
<1>5. CASE m # 0
  <2>1. m - 1 \in Nat /\ (m - 1) + 1 = m /\ m \in 1 .. Len(s) /\ m - 1 \in 0 .. Len(s)
    BY <1>0, <1>3, <1>5
  <2>2. IsFilter(f[m - 1], s, m - 1, S, T)
    BY <1>3, <2>1
  <2>3. IsFilter(f[m], s, m, S, T)
    <3>1. f[m] = IF s[m] \in S THEN Append(f[m - 1], s[m]) ELSE f[m - 1]
      BY <1>1, <2>1
    <3>2. PICK n \in Nat : n = m - 1
      BY <2>1
    <3>3. n + 1 = m /\ n + 1 \in 1 .. Len(s) /\ IsFilter(f[n], s, n, S, T)
      BY <2>1, <2>2, <3>2
    <3>4. IsFilter(IF s[n + 1] \in S THEN Append(f[n], s[n + 1]) ELSE f[n], s, n + 1, S, T)
      BY <3>3, FilterMore
    <3> QED BY <3>1, <3>2, <3>3, <3>4
  <2> QED BY <1>3, <2>3
<1> QED BY <1>4, <1>5

(* The two facts that most uses need: what is in it, and what is last.     *)
LEMMA FilterLines ==
  ASSUME NEW T, NEW s \in Seq(T), NEW S
  PROVE  /\ Logs!Filter(s, S) \in Seq(T) /\ Len(Logs!Filter(s, S)) <= Len(s)
         /\ \A x : (\E i \in 1 .. Len(Logs!Filter(s, S)) : Logs!Filter(s, S)[i] = x) <=>
                  (x \in S /\ \E i \in 1 .. Len(s) : s[i] = x)
<1>1. PICK w : w = Logs!Filter(s, S)
  OBVIOUS
<1>2. w \in Seq(T) /\ Len(w) <= Len(s) /\ \E e : Selects(e, w, s, Len(s), S)
  BY <1>1, FilterIs DEF IsFilter
<1>3. PICK e : Selects(e, w, s, Len(s), S)
  BY <1>2
<1>4. /\ e \in [1 .. Len(w) -> 1 .. Len(s)]
      /\ \A i \in 1 .. Len(w) : w[i] = s[e[i]] /\ w[i] \in S
      /\ \A j \in 1 .. Len(s) : s[j] \in S => \E i \in 1 .. Len(w) : e[i] = j
  BY <1>3 DEF Selects
<1>5. \A x : (\E i \in 1 .. Len(w) : w[i] = x) <=> (x \in S /\ \E i \in 1 .. Len(s) : s[i] = x)
  <2>1. ASSUME NEW i \in 1 .. Len(w) PROVE w[i] \in S /\ \E j \in 1 .. Len(s) : s[j] = w[i]
    BY <1>4
  <2>2. ASSUME NEW j \in 1 .. Len(s), s[j] \in S PROVE \E i \in 1 .. Len(w) : w[i] = s[j]
    BY <1>4, <2>2
  <2> QED BY <2>1, <2>2
<1> QED BY <1>1, <1>2, <1>5

LEMMA FilterLast ==
  ASSUME NEW T, NEW s \in Seq(T), NEW S, s # <<>>, s[Len(s)] \in S
  PROVE  /\ Len(Logs!Filter(s, S)) \in 1 .. Len(s)
         /\ Logs!Filter(s, S)[Len(Logs!Filter(s, S))] = s[Len(s)]
<1>1. PICK w : w = Logs!Filter(s, S)
  OBVIOUS
<1>2. w \in Seq(T) /\ Len(w) <= Len(s) /\ \E e : Selects(e, w, s, Len(s), S)
  BY <1>1, FilterIs DEF IsFilter
<1>3. PICK e : Selects(e, w, s, Len(s), S)
  BY <1>2
<1>4. /\ e \in [1 .. Len(w) -> 1 .. Len(s)]
      /\ \A i, j \in 1 .. Len(w) : i < j => e[i] < e[j]
      /\ \A i \in 1 .. Len(w) : w[i] = s[e[i]] /\ w[i] \in S
      /\ \A j \in 1 .. Len(s) : s[j] \in S => \E i \in 1 .. Len(w) : e[i] = j
  BY <1>3 DEF Selects
<1>5. Len(s) \in Nat /\ Len(s) \in 1 .. Len(s) /\ Len(w) \in Nat
  BY <1>2
<1>6. PICK i \in 1 .. Len(w) : e[i] = Len(s)
  BY <1>4, <1>5
<1>7. Len(w) \in 1 .. Len(w)
  BY <1>5, <1>6
<1>8. i = Len(w)
  <2>1. e[Len(w)] \in 1 .. Len(s)
    BY <1>4, <1>7
  <2>2. i < Len(w) => e[i] < e[Len(w)]
    BY <1>4, <1>7
  <2> QED BY <1>5, <1>6, <2>1, <2>2
<1>9. w[Len(w)] = s[Len(s)]
  BY <1>4, <1>6, <1>7, <1>8
<1>10. Len(w) \in 1 .. Len(s)
  BY <1>2, <1>5, <1>7
<1> QED BY <1>1, <1>9, <1>10

-----------------------------------------------------------------------------
(* The log store: an acknowledged entry that is not excused is in a file   *)
(* and survives the clear under way; what a clear discarded in its sight   *)
(* is nowhere that a restart can read; and a stored firing is recognised   *)
(* by its key and its entry in memory, or counted as forgotten.            *)

(* The elements of a sequence, and what the array operations do to them.   *)
LEMMA LinesOf ==
  ASSUME NEW T, NEW s \in Seq(T)
  PROVE  /\ Logs!Lines(s) \subseteq T
         /\ \A x : x \in Logs!Lines(s) <=> \E i \in 1 .. Len(s) : s[i] = x
         /\ Len(s) \in Nat
         /\ Logs!Lines(<<>>) = {}
  BY DEF Logs!Lines

LEMMA LinesMore ==
  ASSUME NEW T, NEW s \in Seq(T), NEW x \in T
  PROVE  /\ Append(s, x) \in Seq(T) /\ Logs!Lines(Append(s, x)) = Logs!Lines(s) \cup {x}
         /\ Len(Append(s, x)) = Len(s) + 1
<1>1. /\ Append(s, x) \in Seq(T) /\ Len(Append(s, x)) = Len(s) + 1 /\ Len(s) \in Nat
      /\ Append(s, x)[Len(s) + 1] = x /\ \A i \in 1 .. Len(s) : Append(s, x)[i] = s[i]
  OBVIOUS
<1>2. \A i \in 1 .. Len(s) + 1 : i \in 1 .. Len(s) \/ i = Len(s) + 1
  BY <1>1
<1>3. \A i \in 1 .. Len(s) : i \in 1 .. Len(s) + 1
  BY <1>1
<1>4. Len(s) + 1 \in 1 .. Len(s) + 1
  BY <1>1
<1>5. \A y : y \in Logs!Lines(Append(s, x)) <=> \E i \in 1 .. Len(s) + 1 : Append(s, x)[i] = y
  <2>1. PICK w \in Seq(T) : w = Append(s, x) /\ Len(w) = Len(s) + 1
    BY <1>1
  <2>2. \A y : y \in Logs!Lines(w) <=> \E i \in 1 .. Len(w) : w[i] = y
    BY LinesOf
  <2> QED BY <2>1, <2>2
<1>6. \A y : y \in Logs!Lines(s) <=> \E i \in 1 .. Len(s) : s[i] = y
  BY LinesOf
<1>7. \A y : y \in Logs!Lines(Append(s, x)) <=> y \in Logs!Lines(s) \/ y = x
  BY <1>1, <1>2, <1>3, <1>4, <1>5, <1>6
<1> QED BY <1>1, <1>7

LEMMA SubSeqIs ==
  ASSUME NEW T, NEW s \in Seq(T), NEW a \in Nat \ {0}, NEW b \in Int, b <= Len(s)
  PROVE  /\ SubSeq(s, a, b) \in Seq(T)
         /\ Len(SubSeq(s, a, b)) = IF a <= b THEN b - a + 1 ELSE 0
         /\ \A i \in 1 .. Len(SubSeq(s, a, b)) : SubSeq(s, a, b)[i] = s[a + i - 1]
  OBVIOUS

LEMMA NewestIs ==
  ASSUME NEW T, NEW s \in Seq(T), NEW n \in Int
  PROVE  /\ Logs!Newest(s, n) \in Seq(T) /\ Logs!Lines(Logs!Newest(s, n)) \subseteq Logs!Lines(s)
         /\ n \in Nat => Len(Logs!Newest(s, n)) <= n
         /\ n \in Nat \ {0} /\ s # <<>> => s[Len(s)] \in Logs!Lines(Logs!Newest(s, n))
<1>0. Len(s) \in Nat
  OBVIOUS
<1>1. CASE Len(s) <= n
  <2>1. Logs!Newest(s, n) = s
    BY <1>1 DEF Logs!Newest
  <2>2. s # <<>> => s[Len(s)] \in Logs!Lines(s)
    BY <1>0, LinesOf
  <2> QED BY <1>0, <1>1, <2>1, <2>2
<1>2. CASE Len(s) > n
  <2> DEFINE a == Len(s) - n + 1
             w == SubSeq(s, a, Len(s))
  <2>1. a \in Nat \ {0} /\ Logs!Newest(s, n) = w
    BY <1>0, <1>2 DEF Logs!Newest
  <2>2. /\ w \in Seq(T) /\ Len(w) = IF a <= Len(s) THEN Len(s) - a + 1 ELSE 0
        /\ \A i \in 1 .. Len(w) : w[i] = s[a + i - 1]
    BY <1>0, <2>1, SubSeqIs
  <2> HIDE DEF w
  <2>3. \A i \in 1 .. Len(w) : a + i - 1 \in 1 .. Len(s)
    BY <1>0, <2>1, <2>2
  <2>4. Logs!Lines(w) \subseteq Logs!Lines(s)
    <3>1. \A x : x \in Logs!Lines(w) <=> \E i \in 1 .. Len(w) : w[i] = x
      BY <2>2, LinesOf
    <3>2. \A x : x \in Logs!Lines(s) <=> \E i \in 1 .. Len(s) : s[i] = x
      BY LinesOf
    <3> HIDE DEF a
    <3> QED BY <2>2, <2>3, <3>1, <3>2
  <2>5. n \in Nat => Len(w) <= n
    BY <1>0, <1>2, <2>2
  <2>6. ASSUME n \in Nat \ {0} PROVE s[Len(s)] \in Logs!Lines(w)
    <3>1. Len(w) = n /\ n \in 1 .. Len(w) /\ a + n - 1 = Len(s)
      BY <1>0, <1>2, <2>2, <2>6
    <3>2. w[n] = s[Len(s)]
      BY <2>2, <3>1
    <3> QED BY <2>2, <3>1, <3>2, LinesOf
  <2> QED BY <2>1, <2>2, <2>4, <2>5, <2>6
<1> QED BY <1>0, <1>1, <1>2

LEMMA FrontAndLast ==
  ASSUME NEW T, NEW s \in Seq(T), s # <<>>
  PROVE  /\ Logs!Front(s) \in Seq(T) /\ Logs!Last(s) \in T
         /\ Logs!Lines(s) = Logs!Lines(Logs!Front(s)) \cup {Logs!Last(s)}
<1>1. Len(s) \in Nat \ {0} /\ Len(s) \in 1 .. Len(s)
  OBVIOUS
<1> DEFINE w == SubSeq(s, 1, Len(s) - 1)
<1>2. /\ w \in Seq(T) /\ Len(w) = Len(s) - 1
      /\ \A i \in 1 .. Len(w) : w[i] = s[1 + i - 1]
  <2>1. 1 \in Nat \ {0} /\ Len(s) - 1 \in Int /\ Len(s) - 1 <= Len(s)
    BY <1>1
  <2>2. /\ w \in Seq(T) /\ Len(w) = IF 1 <= Len(s) - 1 THEN Len(s) - 1 - 1 + 1 ELSE 0
        /\ \A i \in 1 .. Len(w) : w[i] = s[1 + i - 1]
    BY <2>1, SubSeqIs
  <2> HIDE DEF w
  <2>3. \A n \in Nat \ {0} : (IF 1 <= n - 1 THEN n - 1 - 1 + 1 ELSE 0) = n - 1
    OBVIOUS
  <2>4. Len(w) = Len(s) - 1
    BY <1>1, <2>2, <2>3
  <2> QED BY <2>2, <2>4
<1> HIDE DEF w
<1>3. \A i \in 1 .. Len(w) : w[i] = s[i] /\ i \in 1 .. Len(s)
  BY <1>1, <1>2
<1>4. \A i \in 1 .. Len(s) : i \in 1 .. Len(w) \/ i = Len(s)
  BY <1>1, <1>2
<1>5. /\ \A x : x \in Logs!Lines(w) <=> \E i \in 1 .. Len(w) : w[i] = x
      /\ \A x : x \in Logs!Lines(s) <=> \E i \in 1 .. Len(s) : s[i] = x
  BY <1>2, LinesOf
<1>6. \A x : x \in Logs!Lines(s) <=> x \in Logs!Lines(w) \/ x = s[Len(s)]
  BY <1>1, <1>3, <1>4, <1>5
<1>7. Logs!Front(s) = w /\ Logs!Last(s) = s[Len(s)]
  BY DEF Logs!Front, Logs!Last, w
<1> QED BY <1>1, <1>2, <1>6, <1>7

(* What is left of a file or a buffer by a filter.                         *)
LEMMA FilterHas ==
  ASSUME NEW T, NEW s \in Seq(T), NEW S
  PROVE  /\ Logs!Filter(s, S) \in Seq(T) /\ Len(Logs!Filter(s, S)) <= Len(s)
         /\ Logs!Lines(Logs!Filter(s, S)) = Logs!Lines(s) \cap S
<1>1. PICK w : w = Logs!Filter(s, S)
  OBVIOUS
<1>2. /\ w \in Seq(T) /\ Len(w) <= Len(s)
      /\ \A x : (\E i \in 1 .. Len(w) : w[i] = x) <=> (x \in S /\ \E i \in 1 .. Len(s) : s[i] = x)
  BY <1>1, FilterLines
<1>3. /\ \A x : x \in Logs!Lines(w) <=> \E i \in 1 .. Len(w) : w[i] = x
      /\ \A x : x \in Logs!Lines(s) <=> \E i \in 1 .. Len(s) : s[i] = x
  BY <1>2, LinesOf
<1>4. Logs!Lines(w) = Logs!Lines(s) \cap S
  BY <1>2, <1>3
<1> QED BY <1>1, <1>2, <1>4

LEMMA WithoutIs ==
  ASSUME NEW T, NEW s \in Seq(T), NEW drops, NEW upto
  PROVE  /\ Logs!Without(s, drops, upto) \in Seq(T) /\ Len(Logs!Without(s, drops, upto)) <= Len(s)
         /\ \A n : n \in Logs!Lines(Logs!Without(s, drops, upto)) <=>
                     n \in Logs!Lines(s) /\ (n = 0 \/ ~Logs!Meets(n, drops, upto))
<1> DEFINE S == {n \in Logs!Lines(s) : n = 0 \/ ~Logs!Meets(n, drops, upto)}
<1>1. Logs!Without(s, drops, upto) = Logs!Filter(s, S)
  BY DEF Logs!Without
<1>2. \A n : n \in S <=> n \in Logs!Lines(s) /\ (n = 0 \/ ~Logs!Meets(n, drops, upto))
  OBVIOUS
<1> HIDE DEF S
<1> QED BY <1>1, <1>2, FilterHas

-----------------------------------------------------------------------------
TableEntry == [key : Firing \cup {"session"}, old : BOOLEAN]

(* What a file can hold, and what a clear of some step is like.            *)
File == Seq(Nat)
Holds(file) == Logs!Lines(file) \subseteq Logs!Stored \cup {0}

Sweeping ==
  [step : {"idle", "read", "write", "truncate"}, drops : SUBSET Firing, upto : Nat,
   aged : BOOLEAN, read : File]

(* The calls of appendLog for some entries.                                *)
Tasks(S) ==
  [entry : S, step : {"check", "list", "rotate", "append"}, near : BOOLEAN, doomed : Nat]

LogsTypes ==
  /\ entryOf \in Seq(Firing)
  /\ logs \in File /\ Logs!Lines(logs) \subseteq Logs!Stored
  /\ recentDeliveries \in Seq(TableEntry) /\ Len(recentDeliveries) <= MaxKeys
  /\ live \in File /\ Holds(live)
  /\ rotated \in Seq(File) /\ \A f \in Logs!Lines(rotated) : Holds(f)
  /\ appends \subseteq Tasks(Logs!Stored)
  /\ sweep \in Sweeping /\ (sweep.step = "idle" => sweep = Logs!Idle)
  /\ sweep.upto <= Len(entryOf)
  /\ Holds(sweep.read) /\ 0 \notin Logs!Lines(sweep.read)
  /\ acked \subseteq Logs!Stored /\ discarded \subseteq Logs!Stored

(* The entries of one more event.                                          *)
LEMMA EntryMore ==
  ASSUME LogsTypes, NEW f \in Firing, entryOf' = Append(entryOf, f)
  PROVE  /\ entryOf' \in Seq(Firing) /\ Len(entryOf') = Len(entryOf) + 1 /\ Len(entryOf) \in Nat
         /\ Len(entryOf) + 1 \in Logs!Stored' /\ Len(entryOf) + 1 \notin Logs!Stored
         /\ Logs!Stored \subseteq Logs!Stored' /\ Logs!Stored' = Logs!Stored \cup {Len(entryOf) + 1}
         /\ entryOf'[Len(entryOf) + 1] = f
         /\ \A n \in Logs!Stored : entryOf'[n] = entryOf[n]
<1>1. entryOf \in Seq(Firing) /\ Len(entryOf) \in Nat
  BY DEF LogsTypes
<1>2. /\ entryOf' \in Seq(Firing) /\ Len(entryOf') = Len(entryOf) + 1
      /\ entryOf'[Len(entryOf) + 1] = f
      /\ \A n \in 1 .. Len(entryOf) : entryOf'[n] = entryOf[n]
  BY <1>1
<1> QED BY <1>1, <1>2 DEF Logs!Stored

(* A key that is in the window.                                            *)
Young(table, k) == \E d \in Logs!Lines(table) : d.key = k /\ ~d.old

LEMMA RecentIs ==
  ASSUME LogsTypes
  PROVE  \A k : Logs!IsRecent(k) <=> Young(recentDeliveries, k)
<1>1. recentDeliveries \in Seq(TableEntry)
  BY DEF LogsTypes
<1>2. /\ DOMAIN recentDeliveries = 1 .. Len(recentDeliveries)
      /\ \A x : x \in Logs!Lines(recentDeliveries) <=>
           \E i \in 1 .. Len(recentDeliveries) : recentDeliveries[i] = x
  BY <1>1, LinesOf
<1> QED BY <1>2 DEF Logs!IsRecent, Young

(* A key that is set is in the window, and no other leaves it.             *)
LEMMA SetKeyIs ==
  ASSUME LogsTypes, NEW k \in Firing \cup {"session"}
  PROVE  /\ Logs!SetKey(k) \in Seq(TableEntry)
         /\ \A c : c = k \/ Young(recentDeliveries, c) => Young(Logs!SetKey(k), c)
         /\ \/ Len(Logs!SetKey(k)) = Len(recentDeliveries)
            \/ Logs!SetKey(k) # <<>> /\ Logs!SetKey(k)[Len(Logs!SetKey(k))] = [key |-> k, old |-> FALSE]
<1>1. /\ recentDeliveries \in Seq(TableEntry) /\ Len(recentDeliveries) \in Nat
      /\ DOMAIN recentDeliveries = 1 .. Len(recentDeliveries)
      /\ \A i \in 1 .. Len(recentDeliveries) : recentDeliveries[i] \in TableEntry
  BY DEF LogsTypes
<1>2. PICK e : e = [key |-> k, old |-> FALSE]
  OBVIOUS
<1>3. e \in TableEntry /\ e.key = k /\ ~e.old
  BY <1>2 DEF TableEntry
<1>4. CASE \E i \in DOMAIN recentDeliveries : recentDeliveries[i].key = k
  <2>1. Logs!SetKey(k) = [i \in DOMAIN recentDeliveries |->
                       IF recentDeliveries[i].key = k THEN e ELSE recentDeliveries[i]]
    BY <1>2, <1>4 DEF Logs!SetKey
  <2>2. PICK t : t = Logs!SetKey(k)
    OBVIOUS
  <2>3. /\ t \in Seq(TableEntry) /\ Len(t) = Len(recentDeliveries)
        /\ \A i \in 1 .. Len(t) :
             t[i] = IF recentDeliveries[i].key = k THEN e ELSE recentDeliveries[i]
    BY <1>1, <1>3, <2>1, <2>2
  <2>4. /\ \A x : x \in Logs!Lines(t) <=> \E i \in 1 .. Len(t) : t[i] = x
        /\ \A x : x \in Logs!Lines(recentDeliveries) <=>
             \E i \in 1 .. Len(recentDeliveries) : recentDeliveries[i] = x
    BY <1>1, <2>3, LinesOf
  <2>5. PICK i \in 1 .. Len(t) : recentDeliveries[i].key = k
    BY <1>1, <1>4, <2>3
  <2>6. Young(t, k)
    BY <1>3, <2>3, <2>4, <2>5 DEF Young
  <2>7. ASSUME NEW c, Young(recentDeliveries, c), c # k PROVE Young(t, c)
    <3>1. PICK j \in 1 .. Len(t) : recentDeliveries[j].key = c /\ ~recentDeliveries[j].old
      BY <2>3, <2>4, <2>7 DEF Young
    <3>2. t[j] = recentDeliveries[j]
      BY <2>3, <2>7, <3>1
    <3> QED BY <2>4, <3>1, <3>2 DEF Young
  <2> QED BY <2>2, <2>3, <2>6, <2>7
<1>5. CASE ~\E i \in DOMAIN recentDeliveries : recentDeliveries[i].key = k
  <2>1. Logs!SetKey(k) = Append(recentDeliveries, e)
    BY <1>2, <1>5 DEF Logs!SetKey
  <2>2. PICK t : t = Logs!SetKey(k)
    OBVIOUS
  <2>3. /\ t \in Seq(TableEntry) /\ Len(t) = Len(recentDeliveries) + 1
        /\ Logs!Lines(t) = Logs!Lines(recentDeliveries) \cup {e}
    BY <1>1, <1>3, <2>1, <2>2, LinesMore
  <2>4. t # <<>> /\ t[Len(t)] = e
    BY <1>1, <1>3, <2>1, <2>2, <2>3
  <2>5. \A c : c = k \/ Young(recentDeliveries, c) => Young(t, c)
    BY <1>3, <2>3 DEF Young
  <2> QED BY <1>2, <2>2, <2>3, <2>4, <2>5
<1> QED BY <1>4, <1>5

(* The pruned table: only what is in the window, and the key just set.     *)
LEMMA RememberedIs ==
  ASSUME LogsTypes, NEW k \in Firing \cup {"session"}
  PROVE  /\ Logs!Remembered(k) \in Seq(TableEntry) /\ Len(Logs!Remembered(k)) <= MaxKeys
         /\ Young(Logs!Remembered(k), k)
         /\ \A c : Young(recentDeliveries, c) /\ c \in Logs!Keys(Logs!Remembered(k)) =>
              Young(Logs!Remembered(k), c)
<1>1. PICK all : all = Logs!SetKey(k)
  OBVIOUS
<1>2. PICK young : young = {d \in Logs!Lines(all) : ~d.old}
  OBVIOUS
<1>3. Logs!Remembered(k) = IF Len(all) <= MaxKeys THEN all ELSE Logs!Newest(Logs!Filter(all, young), MaxKeys)
  BY <1>1, <1>2 DEF Logs!Remembered
<1>4. /\ all \in Seq(TableEntry)
      /\ \A c : c = k \/ Young(recentDeliveries, c) => Young(all, c)
      /\ \/ Len(all) = Len(recentDeliveries)
         \/ all # <<>> /\ all[Len(all)] = [key |-> k, old |-> FALSE]
  BY <1>1, SetKeyIs
<1>5. CASE Len(all) <= MaxKeys
  BY <1>3, <1>4, <1>5
<1>6. CASE ~(Len(all) <= MaxKeys)
  <2>1. PICK w : w = Logs!Filter(all, young)
    OBVIOUS
  <2>2. PICK t : t = Logs!Newest(w, MaxKeys)
    OBVIOUS
  <2>3. Logs!Remembered(k) = t
    BY <1>3, <1>6, <2>1, <2>2
  <2>4. w \in Seq(TableEntry) /\ Logs!Lines(w) = Logs!Lines(all) \cap young
    BY <1>4, <2>1, FilterHas
  <2>5. MaxKeys \in Int /\ MaxKeys \in Nat \ {0}
    BY LimitAssumption
  <2>6. /\ t \in Seq(TableEntry) /\ Len(t) <= MaxKeys /\ Logs!Lines(t) \subseteq Logs!Lines(w)
        /\ w # <<>> => w[Len(w)] \in Logs!Lines(t)
    BY <2>2, <2>4, <2>5, NewestIs
  <2>7. all # <<>> /\ all[Len(all)] = [key |-> k, old |-> FALSE]
    BY <1>4, <1>6 DEF LogsTypes
  <2>8. all[Len(all)] \in young
    <3>1. Len(all) \in 1 .. Len(all)
      BY <1>4, <2>7
    <3> QED BY <1>2, <1>4, <2>7, <3>1, LinesOf
  <2>9. Len(w) \in 1 .. Len(all) /\ w[Len(w)] = [key |-> k, old |-> FALSE]
    BY <1>4, <2>1, <2>7, <2>8, FilterLast
  <2>10. Young(t, k)
    <3>1. w # <<>>
      BY <2>9
    <3> QED BY <2>6, <2>9, <3>1 DEF Young
  <2>11. ASSUME NEW c, c \in Logs!Keys(t) PROVE Young(t, c)
    <3>1. PICK i \in 1 .. Len(t) : t[i].key = c
      BY <2>6, <2>11 DEF Logs!Keys
    <3>2. t[i] \in Logs!Lines(t)
      BY <2>6, LinesOf
    <3> QED BY <1>2, <2>4, <2>6, <3>1, <3>2 DEF Young
  <2> QED BY <2>3, <2>6, <2>10, <2>11
<1> QED BY <1>5, <1>6

(* Every action keeps the types; the event's first.                        *)
LEMMA EventTypes ==
  ASSUME LogsTypes, NEW f \in Firing, Logs!EventArrives(f)
  PROVE  LogsTypes'
<1> DEFINE n == Len(entryOf) + 1
           k == Logs!Key(f)
           left == Logs!Newest(Append(logs, n), MaxInMemory)
<1>1. /\ entryOf' = Append(entryOf, f) /\ logs' = left
      /\ appends' = appends \cup
           {[entry |-> n, step |-> "check", near |-> FALSE, doomed |-> 0]}
      /\ recentDeliveries' = IF k = Nil \/ Logs!IsRecent(k) THEN recentDeliveries ELSE Logs!Remembered(k)
      /\ UNCHANGED <<live, rotated, sweep, acked, discarded>>
  BY DEF Logs!EventArrives, Logs!fileVars
<1>2. /\ entryOf' \in Seq(Firing) /\ Len(entryOf') = Len(entryOf) + 1 /\ Len(entryOf) \in Nat
      /\ n \in Logs!Stored' /\ Logs!Stored \subseteq Logs!Stored' /\ n \in Nat
  BY <1>1, EntryMore
<1>3. logs' \in File /\ Logs!Lines(logs') \subseteq Logs!Stored'
  <2>1. logs \in Seq(Nat) /\ Logs!Lines(logs) \subseteq Logs!Stored
    BY DEF LogsTypes, File
  <2>2. Append(logs, n) \in Seq(Nat) /\ Logs!Lines(Append(logs, n)) = Logs!Lines(logs) \cup {n}
    BY <1>2, <2>1, LinesMore
  <2>3. left \in Seq(Nat) /\ Logs!Lines(left) \subseteq Logs!Lines(Append(logs, n))
    <3>1. MaxInMemory \in Int
      BY LimitAssumption
    <3> QED BY <2>2, <3>1, NewestIs
  <2> QED BY <1>1, <1>2, <2>1, <2>2, <2>3 DEF File
<1>4. recentDeliveries' \in Seq(TableEntry) /\ Len(recentDeliveries') <= MaxKeys
  <2>1. recentDeliveries \in Seq(TableEntry) /\ Len(recentDeliveries) <= MaxKeys
    BY DEF LogsTypes
  <2>2. k # Nil => Logs!Remembered(k) \in Seq(TableEntry) /\ Len(Logs!Remembered(k)) <= MaxKeys
    <3>1. k # Nil => k \in Firing \cup {"session"}
      BY DEF Logs!Key
    <3> QED BY <3>1, RememberedIs
  <2> QED BY <1>1, <2>1, <2>2
<1>5. appends' \subseteq Tasks(Logs!Stored')
  <2>1. [entry |-> n, step |-> "check", near |-> FALSE, doomed |-> 0] \in Tasks(Logs!Stored')
    BY <1>2 DEF Tasks
  <2>2. \A a \in appends : a \in Tasks(Logs!Stored')
    BY <1>2 DEF LogsTypes, Tasks
  <2> QED BY <1>1, <2>1, <2>2
<1>6. /\ live' \in File /\ Holds(live)' /\ rotated' \in Seq(File)
      /\ (\A g \in Logs!Lines(rotated) : Holds(g))' /\ Holds(sweep.read)'
      /\ acked' \subseteq Logs!Stored' /\ discarded' \subseteq Logs!Stored'
  BY <1>1, <1>2 DEF LogsTypes, Holds
<1>7. /\ sweep' \in Sweeping /\ (sweep'.step = "idle" => sweep' = Logs!Idle)
      /\ sweep'.upto <= Len(entryOf') /\ 0 \notin Logs!Lines(sweep'.read)
  BY <1>1, <1>2 DEF LogsTypes, Sweeping
<1>8. Tasks(Logs!Stored)' = Tasks(Logs!Stored')
  BY DEF Tasks
<1> QED BY <1>2, <1>3, <1>4, <1>5, <1>6, <1>7, <1>8 DEF LogsTypes

(* The other actions store no entry.                                       *)
LEMMA StepTypes ==
  ASSUME LogsTypes, UNCHANGED entryOf,
         logs' \in File, Logs!Lines(logs') \subseteq Logs!Stored,
         recentDeliveries' \in Seq(TableEntry), Len(recentDeliveries') <= MaxKeys,
         live' \in File, Holds(live'), rotated' \in Seq(File),
         \A f \in Logs!Lines(rotated') : Holds(f),
         appends' \subseteq Tasks(Logs!Stored),
         sweep' \in Sweeping, sweep'.step = "idle" => sweep' = Logs!Idle,
         sweep'.upto <= Len(entryOf), Holds(sweep'.read), 0 \notin Logs!Lines(sweep'.read),
         acked' \subseteq Logs!Stored, discarded' \subseteq Logs!Stored
  PROVE  LogsTypes'
<1>1. Logs!Stored' = Logs!Stored /\ Len(entryOf') = Len(entryOf)
  BY DEF Logs!Stored
<1>2. \A f : Holds(f)' <=> Holds(f)
  BY <1>1 DEF Holds
<1>3. Tasks(Logs!Stored)' = Tasks(Logs!Stored)
  BY <1>1 DEF Tasks
<1> QED BY <1>1, <1>2, <1>3 DEF LogsTypes, Holds

LEMMA IdleIs ==
  /\ Logs!Idle \in Sweeping /\ Logs!Idle.upto = 0 /\ Logs!Idle.read = <<>> /\ Logs!Idle.step = "idle"
  /\ Logs!Lines(<<>>) = {}
  BY DEF Logs!Idle, Sweeping, File, Logs!Lines

LEMMA WindowTypes ==
  ASSUME LogsTypes, Logs!WindowPasses
  PROVE  LogsTypes'
<1>1. PICK i \in DOMAIN recentDeliveries :
        recentDeliveries' = [recentDeliveries EXCEPT ![i].old = TRUE]
  BY DEF Logs!WindowPasses
<1>2. UNCHANGED <<entryOf, logs, live, rotated, appends, sweep, acked, discarded>>
  BY DEF Logs!WindowPasses, Logs!fileVars
<1>3. recentDeliveries' \in Seq(TableEntry) /\ Len(recentDeliveries') <= MaxKeys
  <2>1. /\ recentDeliveries \in Seq(TableEntry) /\ Len(recentDeliveries) <= MaxKeys
        /\ i \in 1 .. Len(recentDeliveries) /\ recentDeliveries[i] \in TableEntry
    BY <1>1 DEF LogsTypes
  <2>2. [recentDeliveries[i] EXCEPT !.old = TRUE] \in TableEntry
    BY <2>1 DEF TableEntry
  <2>3. recentDeliveries' = [recentDeliveries EXCEPT ![i] = [recentDeliveries[i] EXCEPT !.old = TRUE]]
    BY <1>1
  <2> QED BY <2>1, <2>2, <2>3
<1> QED BY <1>2, <1>3, StepTypes DEF LogsTypes

LEMMA MovesTypes ==
  ASSUME LogsTypes, NEW a \in appends, NEW step \in {"list", "append"}
  PROVE  /\ Logs!Moves(a, step) \subseteq Tasks(Logs!Stored)
         /\ \A c \in Logs!Moves(a, step) : \E b \in appends :
              c.entry = b.entry /\ c.near = b.near /\ c.doomed = b.doomed
              /\ c.step \in {b.step, step}
<1>1. PICK t : t = [a EXCEPT !.step = step]
  OBVIOUS
<1>2. a \in Tasks(Logs!Stored) /\ appends \subseteq Tasks(Logs!Stored)
  BY DEF LogsTypes
<1>3. /\ t \in Tasks(Logs!Stored) /\ t.entry = a.entry /\ t.near = a.near
      /\ t.doomed = a.doomed /\ t.step = step
  BY <1>1, <1>2 DEF Tasks
<1>4. Logs!Moves(a, step) = (appends \ {a}) \cup {t}
  BY <1>1 DEF Logs!Moves
<1> QED BY <1>2, <1>3, <1>4

LEMMA CheckTypes ==
  ASSUME LogsTypes, NEW a \in appends, Logs!AppendChecks(a)
  PROVE  LogsTypes'
<1>1. PICK step \in {"list", "append"} : appends' = Logs!Moves(a, step)
  BY DEF Logs!AppendChecks
<1>2. UNCHANGED <<entryOf, logs, recentDeliveries, live, rotated, sweep, acked, discarded>>
  BY DEF Logs!AppendChecks, Logs!memoryVars, Logs!fileVars, Logs!historyVars
<1> QED BY <1>1, <1>2, MovesTypes, StepTypes DEF LogsTypes

(* How many files go is how many are too many.                             *)
LEMMA DoomedIs ==
  ASSUME NEW n \in Nat
  PROVE  /\ Logs!Doomed(n) \in Nat
         /\ Logs!Doomed(n + 1) <= n /\ Logs!Doomed(n) <= n
         /\ n - Logs!Doomed(n + 1) <= MaxLogFiles - 2
<1>1. MaxLogFiles \in Nat /\ MaxLogFiles >= 2
  BY LimitAssumption
<1> QED BY <1>1 DEF Logs!Doomed

(* A rotation lists the files: it learns how many go.                      *)
LEMMA ListIs ==
  ASSUME LogsTypes, NEW a \in appends, Logs!Lists(a)
  PROVE  \E t \in Tasks(Logs!Stored) :
           /\ appends' = (appends \ {a}) \cup {t}
           /\ t.entry = a.entry /\ t.near = a.near /\ t.step = "rotate"
           /\ t.doomed <= Len(rotated)
           /\ ~a.near => Len(rotated) - t.doomed <= MaxLogFiles - 2
<1>1. PICK present \in Logs!Presence(a) :
        LET listed == Len(rotated) + (IF present THEN 1 ELSE 0)
        IN appends' = (appends \ {a}) \cup
                        {[a EXCEPT !.step = "rotate", !.doomed = Logs!Doomed(listed)]}
  BY DEF Logs!Lists
<1>2. PICK n : n = Len(rotated) + (IF present THEN 1 ELSE 0)
  OBVIOUS
<1>3. PICK t : t = [a EXCEPT !.step = "rotate", !.doomed = Logs!Doomed(n)]
  OBVIOUS
<1>4. appends' = (appends \ {a}) \cup {t}
  BY <1>1, <1>2, <1>3
<1>5. Len(rotated) \in Nat /\ a \in Tasks(Logs!Stored)
  BY DEF LogsTypes
<1>6. present \in BOOLEAN /\ (~a.near => present)
  BY <1>1, <1>5 DEF Logs!Presence, Tasks
<1>7. n = Len(rotated) \/ n = Len(rotated) + 1
  BY <1>2, <1>5
<1>8. ~a.near => n = Len(rotated) + 1
  BY <1>2, <1>6
<1>9. /\ Logs!Doomed(n) \in Nat /\ Logs!Doomed(n) <= Len(rotated)
      /\ ~a.near => Len(rotated) - Logs!Doomed(n) <= MaxLogFiles - 2
  <2>1. PICK m \in Nat : m = Len(rotated)
    BY <1>5
  <2>2. /\ Logs!Doomed(m) \in Nat /\ Logs!Doomed(m) <= m
        /\ Logs!Doomed(m + 1) <= m /\ m - Logs!Doomed(m + 1) <= MaxLogFiles - 2
    BY <2>1, DoomedIs
  <2>3. m + 1 \in Nat
    BY <2>1
  <2>4. Logs!Doomed(m + 1) \in Nat
    BY <2>3, DoomedIs
  <2>5. CASE n = m
    <3>1. m # m + 1 /\ a.near
      BY <1>5, <1>6, <1>8, <2>1, <2>5
    <3> QED BY <2>1, <2>2, <2>5, <3>1
  <2>6. CASE n = m + 1
    BY <2>1, <2>2, <2>4, <2>6
  <2> QED BY <1>7, <2>1, <2>5, <2>6
<1>10. /\ t \in Tasks(Logs!Stored) /\ t.entry = a.entry /\ t.near = a.near /\ t.step = "rotate"
       /\ t.doomed = Logs!Doomed(n)
  BY <1>3, <1>5, <1>9 DEF Tasks
<1> QED BY <1>4, <1>9, <1>10

LEMMA ListTypes ==
  ASSUME LogsTypes, NEW a \in appends, Logs!Lists(a)
  PROVE  LogsTypes'
<1>1. PICK t \in Tasks(Logs!Stored) : appends' = (appends \ {a}) \cup {t}
  BY ListIs
<1>2. UNCHANGED <<entryOf, logs, recentDeliveries, live, rotated, sweep, acked, discarded>>
  BY DEF Logs!Lists, Logs!memoryVars, Logs!fileVars, Logs!historyVars
<1> QED BY <1>1, <1>2, StepTypes DEF LogsTypes

(* No rotation has more files to unlink than there are, and one that no    *)
(* other overtakes leaves room for the file it is about to make.           *)
Counted ==
  \A a \in appends :
    /\ a.doomed <= Len(rotated)
    /\ a.step = "rotate" /\ ~a.near => Len(rotated) - a.doomed <= MaxLogFiles - 2

(* The oldest file goes, and whoever else was about to unlink it gives up. *)
LEMMA UnlinkIs ==
  ASSUME LogsTypes, Counted, NEW a \in appends, Logs!Unlinks(a)
  PROVE  /\ rotated # <<>> /\ rotated' \in Seq(File) /\ Len(rotated') = Len(rotated) - 1
         /\ Logs!Lines(rotated) = Logs!Lines(rotated') \cup {Head(rotated)}
         /\ appends' \subseteq Tasks(Logs!Stored)
         /\ \A c \in appends' : \E b \in appends :
              /\ c.entry = b.entry /\ c.near = b.near
              /\ \/ c.doomed = b.doomed - 1 /\ c.step = b.step /\ b.doomed > 0
                 \/ c.doomed = 0 /\ b.doomed = 0 /\ c.step = b.step
                 \/ c.doomed = 0 /\ c.step = "append"
         /\ discarded' = discarded \cup (Logs!Lines(Head(rotated)) \ {0})
         /\ lingering' = lingering \cup (Logs!Lines(Head(rotated)) \ {0})
         /\ UNCHANGED <<Logs!memoryVars, live, sweep, sweeps, crashes, acked, exposed, forgotten>>
<1>1. /\ a.step = "rotate" /\ a.doomed > 0 /\ rotated' = Tail(rotated)
      /\ appends' = {IF b = a THEN [a EXCEPT !.doomed = @ - 1]
                     ELSE IF b.doomed = 0 THEN b
                     ELSE [b EXCEPT !.step = "append", !.doomed = 0] : b \in appends}
      /\ discarded' = discarded \cup (Logs!Lines(Head(rotated)) \ {0})
      /\ lingering' = lingering \cup (Logs!Lines(Head(rotated)) \ {0})
      /\ UNCHANGED <<Logs!memoryVars, live, sweep, sweeps, crashes, acked, exposed, forgotten>>
  BY DEF Logs!Unlinks
<1>2. rotated \in Seq(File) /\ Len(rotated) \in Nat /\ a.doomed \in Nat
  BY DEF LogsTypes, Tasks
<1>3. rotated # <<>>
  <2>1. a.doomed <= Len(rotated)
    BY DEF Counted
  <2>2. PICK m \in Nat : m = Len(rotated)
    BY <1>2
  <2>3. a.doomed > 0
    BY <1>1
  <2>4. m > 0
    BY <1>2, <2>1, <2>2, <2>3
  <2>5. Len(rotated) # 0
    BY <2>2, <2>4
  <2>6. Len(<<>>) = 0
    OBVIOUS
  <2> QED BY <2>5, <2>6
<1>4. PICK s \in Seq(File) : s = rotated /\ s # <<>>
  BY <1>2, <1>3
<1>5. PICK u : u = Tail(s)
  OBVIOUS
<1>6. /\ u \in Seq(File) /\ Len(u) = Len(s) - 1 /\ Len(s) \in Nat \ {0} /\ Head(s) = s[1]
      /\ \A i \in 1 .. Len(u) : u[i] = s[i + 1]
  BY <1>4, <1>5
<1>7. Logs!Lines(s) = Logs!Lines(u) \cup {Head(s)}
  <2>1. /\ \A x : x \in Logs!Lines(s) <=> \E i \in 1 .. Len(s) : s[i] = x
        /\ \A x : x \in Logs!Lines(u) <=> \E i \in 1 .. Len(u) : u[i] = x
    BY <1>4, <1>6, LinesOf
  <2>2. \A i \in 1 .. Len(s) : i = 1 \/ (i - 1 \in 1 .. Len(u) /\ u[i - 1] = s[i])
    BY <1>6
  <2>3. \A i \in 1 .. Len(u) : i + 1 \in 1 .. Len(s) /\ u[i] = s[i + 1]
    BY <1>6
  <2>4. 1 \in 1 .. Len(s)
    BY <1>6
  <2>5. \A x \in Logs!Lines(s) : x \in Logs!Lines(u) \/ x = Head(s)
    BY <1>6, <2>1, <2>2
  <2>6. \A x \in Logs!Lines(u) : x \in Logs!Lines(s)
    BY <2>1, <2>3
  <2>7. Head(s) \in Logs!Lines(s)
    BY <1>6, <2>1, <2>4
  <2> QED BY <2>5, <2>6, <2>7
<1>8. ASSUME NEW c \in appends'
      PROVE  /\ c \in Tasks(Logs!Stored)
             /\ \E b \in appends :
                  /\ c.entry = b.entry /\ c.near = b.near
                  /\ \/ c.doomed = b.doomed - 1 /\ c.step = b.step /\ b.doomed > 0
                     \/ c.doomed = 0 /\ b.doomed = 0 /\ c.step = b.step
                     \/ c.doomed = 0 /\ c.step = "append"
  <2>1. PICK b \in appends : c = IF b = a THEN [a EXCEPT !.doomed = @ - 1]
                                 ELSE IF b.doomed = 0 THEN b
                                 ELSE [b EXCEPT !.step = "append", !.doomed = 0]
    BY <1>1
  <2>2. b \in Tasks(Logs!Stored) /\ a \in Tasks(Logs!Stored)
    BY DEF LogsTypes
  <2>3. CASE b = a
    <3>1. c = [b EXCEPT !.doomed = b.doomed - 1] /\ b.doomed > 0 /\ b.doomed \in Nat
      BY <1>1, <1>2, <2>1, <2>3
    <3>2. b.doomed - 1 \in Nat
      BY <3>1
    <3> QED BY <2>2, <3>1, <3>2 DEF Tasks
  <2>4. CASE b # a /\ b.doomed = 0
    BY <2>1, <2>2, <2>4
  <2>5. CASE b # a /\ b.doomed # 0
    <3>1. c = [b EXCEPT !.step = "append", !.doomed = 0]
      BY <2>1, <2>5
    <3> QED BY <2>2, <3>1 DEF Tasks
  <2> QED BY <2>3, <2>4, <2>5
<1> QED BY <1>1, <1>3, <1>4, <1>5, <1>6, <1>7, <1>8

LEMMA UnlinkTypes ==
  ASSUME LogsTypes, Counted, NEW a \in appends, Logs!Unlinks(a)
  PROVE  LogsTypes'
<1>1. /\ rotated' \in Seq(File) /\ Logs!Lines(rotated) = Logs!Lines(rotated') \cup {Head(rotated)}
      /\ appends' \subseteq Tasks(Logs!Stored)
      /\ discarded' = discarded \cup (Logs!Lines(Head(rotated)) \ {0})
      /\ UNCHANGED <<entryOf, logs, recentDeliveries, live, sweep, acked>>
  BY UnlinkIs DEF Logs!memoryVars
<1>2. /\ \A f \in Logs!Lines(rotated') : Holds(f)
      /\ discarded' \subseteq Logs!Stored
  BY <1>1 DEF LogsTypes, Holds
<1> QED BY <1>1, <1>2, StepTypes DEF LogsTypes

(* A rename loses no line but those of a file that it replaces.            *)
LEMMA RenameIs ==
  ASSUME LogsTypes, NEW a \in appends, Logs!Renames(a)
  PROVE  /\ rotated' \in Seq(File) /\ Len(rotated') >= Len(rotated)
         /\ \/ live = <<>> /\ rotated' = rotated
            \/ Logs!Lines(rotated') = Logs!Lines(rotated) \cup {live}
            \/ /\ rotated # <<>> /\ Logs!Lines(rotated') = Logs!Lines(Logs!Front(rotated)) \cup {live}
               /\ Logs!Lines(rotated) = Logs!Lines(Logs!Front(rotated)) \cup {Logs!Last(rotated)}
               /\ Logs!Lines(Logs!Last(rotated)) \ {0} \subseteq exposed'
         /\ exposed \subseteq exposed'
         /\ \A n \in exposed' : n \in exposed \/ n \in Logs!Stored
         /\ sweep # Logs!Idle => Logs!Lines(live) \ {0} \subseteq exposed'
         /\ lingering' = lingering \cup (IF sweep = Logs!Idle THEN {} ELSE Logs!Stored)
         /\ live' = <<>>
         /\ appends' \subseteq Tasks(Logs!Stored)
         /\ \A c \in appends' : \E b \in appends :
              /\ c.entry = b.entry /\ c.doomed = b.doomed
              /\ c.step \in {b.step, "append"}
              /\ ~c.near => ~b.near
              /\ c.step \in {"list", "rotate"} => c.near \/ rotated' = rotated
         /\ UNCHANGED <<Logs!memoryVars, sweep, sweeps, crashes, acked, discarded, forgotten>>
<1>1. PICK present \in Logs!Presence(a),
           sameName \in IF a.near /\ rotated # <<>> THEN BOOLEAN ELSE {FALSE} :
        LET replaced == present /\ sameName
            older == IF replaced THEN Logs!Front(rotated) ELSE rotated
        IN /\ rotated' = IF present THEN Append(older, live) ELSE rotated
           /\ exposed' = exposed \cup
                (IF replaced THEN Logs!Lines(Logs!Last(rotated)) \ {0} ELSE {})
                \cup (IF sweep = Logs!Idle THEN {} ELSE Logs!Lines(live) \ {0})
           /\ appends' = {[b EXCEPT !.near = @ \/ (present /\ b.step \in {"list", "rotate"})]
                            : b \in Logs!Moves(a, "append")}
  BY DEF Logs!Renames
<1>2. /\ rotated' = IF present
                      THEN Append(IF present /\ sameName THEN Logs!Front(rotated) ELSE rotated, live)
                      ELSE rotated
      /\ exposed' = exposed \cup
           (IF present /\ sameName THEN Logs!Lines(Logs!Last(rotated)) \ {0} ELSE {})
           \cup (IF sweep = Logs!Idle THEN {} ELSE Logs!Lines(live) \ {0})
      /\ appends' = {[b EXCEPT !.near = @ \/ (present /\ b.step \in {"list", "rotate"})]
                       : b \in Logs!Moves(a, "append")}
  BY <1>1
<1>3. /\ present \in BOOLEAN /\ sameName \in BOOLEAN
      /\ sameName => rotated # <<>>
      /\ ~present => live = <<>>
  BY <1>1 DEF Logs!Presence
<1>4. /\ live' = <<>> /\ lingering' = lingering \cup (IF sweep = Logs!Idle THEN {} ELSE Logs!Stored)
      /\ UNCHANGED <<Logs!memoryVars, sweep, sweeps, crashes, acked, discarded, forgotten>>
  BY DEF Logs!Renames
<1>5. rotated \in Seq(File) /\ live \in File /\ Len(rotated) \in Nat
  BY DEF LogsTypes
<1>6. /\ Append(rotated, live) \in Seq(File) /\ Len(Append(rotated, live)) = Len(rotated) + 1
      /\ Logs!Lines(Append(rotated, live)) = Logs!Lines(rotated) \cup {live}
  BY <1>5, LinesMore
<1>7. ASSUME sameName
      PROVE  /\ Append(Logs!Front(rotated), live) \in Seq(File)
             /\ Len(Append(Logs!Front(rotated), live)) = Len(rotated)
             /\ Logs!Lines(Append(Logs!Front(rotated), live)) = Logs!Lines(Logs!Front(rotated)) \cup {live}
             /\ Logs!Lines(rotated) = Logs!Lines(Logs!Front(rotated)) \cup {Logs!Last(rotated)}
  <2>1. PICK s \in Seq(File) : s = rotated /\ s # <<>>
    BY <1>3, <1>5, <1>7
  <2>2. PICK u : u = Logs!Front(s)
    OBVIOUS
  <2>3. u \in Seq(File) /\ Logs!Lines(s) = Logs!Lines(u) \cup {Logs!Last(s)} /\ Len(u) = Len(s) - 1
    <3>1. u \in Seq(File) /\ Logs!Lines(s) = Logs!Lines(u) \cup {Logs!Last(s)}
      BY <2>1, <2>2, FrontAndLast
    <3>2. PICK n \in Nat : n + 1 = Len(s)
      <4>1. Len(s) \in Nat /\ Len(s) > 0
        BY <2>1
      <4> QED BY <4>1
    <3>3. n <= Len(s) /\ 1 \in Nat \ {0} /\ n \in Int /\ n = Len(s) - 1
      BY <3>2
    <3>4. Len(SubSeq(s, 1, n)) = IF 1 <= n THEN n - 1 + 1 ELSE 0
      BY <2>1, <3>3, SubSeqIs
    <3>5. Len(SubSeq(s, 1, n)) = n
      BY <3>2, <3>4
    <3> QED BY <2>2, <3>1, <3>3, <3>5 DEF Logs!Front
  <2>4. /\ Append(u, live) \in Seq(File) /\ Len(Append(u, live)) = Len(u) + 1
        /\ Logs!Lines(Append(u, live)) = Logs!Lines(u) \cup {live}
    BY <1>5, <2>3, LinesMore
  <2>5. Len(u) + 1 = Len(rotated)
    BY <1>5, <2>1, <2>3
  <2> QED BY <2>1, <2>2, <2>3, <2>4, <2>5
<1>8. /\ rotated' \in Seq(File) /\ Len(rotated') >= Len(rotated)
      /\ \/ live = <<>> /\ rotated' = rotated
         \/ Logs!Lines(rotated') = Logs!Lines(rotated) \cup {live}
         \/ /\ rotated # <<>> /\ Logs!Lines(rotated') = Logs!Lines(Logs!Front(rotated)) \cup {live}
            /\ Logs!Lines(rotated) = Logs!Lines(Logs!Front(rotated)) \cup {Logs!Last(rotated)}
            /\ Logs!Lines(Logs!Last(rotated)) \ {0} \subseteq exposed'
  <2>1. CASE ~present
    BY <1>2, <1>3, <1>5, <2>1
  <2>2. CASE present /\ ~sameName
    BY <1>2, <1>5, <1>6, <2>2
  <2>3. CASE present /\ sameName
    BY <1>2, <1>3, <1>5, <1>7, <2>3
  <2> QED BY <1>3, <2>1, <2>2, <2>3
<1>9. \A n \in exposed' : n \in exposed \/ n \in Logs!Stored
  <2>1. Logs!Lines(live) \ {0} \subseteq Logs!Stored
    BY DEF LogsTypes, Holds
  <2>2. sameName => Logs!Lines(Logs!Last(rotated)) \ {0} \subseteq Logs!Stored
    BY <1>7 DEF LogsTypes, Holds
  <2> QED BY <1>2, <2>1, <2>2
<1>10. ASSUME NEW c \in appends'
       PROVE  /\ c \in Tasks(Logs!Stored)
              /\ \E b \in appends :
                   /\ c.entry = b.entry /\ c.doomed = b.doomed
                   /\ c.step \in {b.step, "append"}
                   /\ ~c.near => ~b.near
                   /\ c.step \in {"list", "rotate"} => c.near \/ rotated' = rotated
  <2>1. PICK d \in Logs!Moves(a, "append") :
          c = [d EXCEPT !.near = d.near \/ (present /\ d.step \in {"list", "rotate"})]
    BY <1>2
  <2>2. /\ d \in Tasks(Logs!Stored)
        /\ \E b \in appends :
              d.entry = b.entry /\ d.near = b.near /\ d.doomed = b.doomed
              /\ d.step \in {b.step, "append"}
    BY <2>1, MovesTypes
  <2>3. PICK w \in BOOLEAN : w <=> (d.near \/ (present /\ d.step \in {"list", "rotate"}))
    OBVIOUS
  <2>4. c = [d EXCEPT !.near = w]
    BY <1>3, <2>1, <2>2, <2>3 DEF Tasks
  <2>5. /\ c \in Tasks(Logs!Stored) /\ c.entry = d.entry /\ c.doomed = d.doomed
        /\ c.step = d.step /\ c.near = w
    BY <2>2, <2>4 DEF Tasks
  <2>6. ~present => rotated' = rotated
    BY <1>2
  <2>7. ~c.near => ~d.near
    BY <2>3, <2>5
  <2>8. c.step \in {"list", "rotate"} => c.near \/ rotated' = rotated
    BY <2>3, <2>5, <2>6
  <2> QED BY <2>2, <2>5, <2>7, <2>8
<1>11. /\ exposed \subseteq exposed'
       /\ sweep # Logs!Idle => Logs!Lines(live) \ {0} \subseteq exposed'
  BY <1>2
<1> QED BY <1>4, <1>8, <1>9, <1>10, <1>11

LEMMA RenameTypes ==
  ASSUME LogsTypes, NEW a \in appends, Logs!Renames(a)
  PROVE  LogsTypes'
<1>1. /\ rotated' \in Seq(File) /\ live' = <<>>
      /\ \/ live = <<>> /\ rotated' = rotated
         \/ Logs!Lines(rotated') = Logs!Lines(rotated) \cup {live}
         \/ /\ Logs!Lines(rotated') = Logs!Lines(Logs!Front(rotated)) \cup {live}
            /\ Logs!Lines(rotated) = Logs!Lines(Logs!Front(rotated)) \cup {Logs!Last(rotated)}
      /\ appends' \subseteq Tasks(Logs!Stored)
      /\ UNCHANGED <<entryOf, logs, recentDeliveries, sweep, acked, discarded>>
  BY RenameIs DEF Logs!memoryVars
<1>2. \A f \in Logs!Lines(rotated') : Holds(f)
  BY <1>1 DEF LogsTypes
<1>3. <<>> \in File /\ Holds(<<>>)
  BY IdleIs DEF File, Holds
<1> QED BY <1>1, <1>2, <1>3, StepTypes DEF LogsTypes

LEMMA AppendTypes ==
  ASSUME LogsTypes, NEW a \in appends, Logs!Appends(a)
  PROVE  LogsTypes' /\ a.entry \in Logs!Stored /\ Logs!Lines(live') = Logs!Lines(live) \cup {a.entry}
<1>1. /\ live' = Append(live, a.entry) /\ appends' = appends \ {a}
      /\ acked' = acked \cup {a.entry}
      /\ UNCHANGED <<entryOf, logs, recentDeliveries, rotated, sweep, discarded>>
  BY DEF Logs!Appends, Logs!memoryVars
<1>2. a.entry \in Logs!Stored /\ a.entry \in Nat /\ live \in Seq(Nat)
  <2>1. a \in Tasks(Logs!Stored) /\ live \in Seq(Nat)
    BY DEF LogsTypes, File
  <2> QED BY <2>1 DEF Tasks, Logs!Stored
<1>3. live' \in Seq(Nat) /\ Logs!Lines(live') = Logs!Lines(live) \cup {a.entry}
  BY <1>1, <1>2, LinesMore
<1>4. live' \in File /\ Holds(live')
  BY <1>2, <1>3 DEF LogsTypes, File, Holds
<1> QED BY <1>1, <1>2, <1>3, <1>4, StepTypes DEF LogsTypes

(* What a clear begins with.                                               *)
Begins(drops, upto) ==
  drops \subseteq Firing /\ upto \in 0 .. Len(entryOf)

LEMMA BeginTypes ==
  ASSUME LogsTypes, NEW drops, NEW upto, Begins(drops, upto), NEW aged \in BOOLEAN,
         NEW step \in {"read", "truncate"}, Logs!SweepBegins(drops, upto, aged, step)
  PROVE  LogsTypes'
<1>1. /\ sweep' = [step |-> step, drops |-> drops, upto |-> upto, aged |-> aged, read |-> <<>>]
      /\ logs' = Logs!Without(logs, drops, upto)
      /\ discarded' = discarded \cup {n \in Logs!Stored : Logs!Meets(n, drops, upto)}
      /\ UNCHANGED <<entryOf, recentDeliveries, live, rotated, appends, acked>>
  BY DEF Logs!SweepBegins, Logs!fileVars
<1>2. Len(entryOf) \in Nat
  BY DEF LogsTypes
<1>3. /\ sweep' \in Sweeping /\ sweep'.step # "idle"
      /\ sweep'.upto <= Len(entryOf) /\ sweep'.read = <<>>
  BY <1>1, <1>2, IdleIs DEF Sweeping, Begins, File
<1>4. logs' \in Seq(Nat) /\ Logs!Lines(logs') \subseteq Logs!Lines(logs)
  BY <1>1, WithoutIs DEF LogsTypes, File
<1>5. Holds(sweep'.read) /\ 0 \notin Logs!Lines(sweep'.read)
  BY <1>3, IdleIs DEF Holds
<1>6. discarded' \subseteq Logs!Stored
  BY <1>1 DEF LogsTypes
<1> QED BY <1>1, <1>3, <1>4, <1>5, <1>6, StepTypes DEF LogsTypes, File

(* A clear is begun in one of three ways.                                  *)
LEMMA BeginsSo ==
  ASSUME LogsTypes, Logs!ClearsAll \/ Logs!ClearsSession \/ Logs!Retires
  PROVE  \E drops, upto : \E aged \in BOOLEAN, step \in {"read", "truncate"} :
           /\ Begins(drops, upto) /\ Logs!SweepBegins(drops, upto, aged, step)
           /\ step = "truncate" => upto = Len(entryOf) /\ ~aged
<1>1. Len(entryOf) \in Nat
  BY DEF LogsTypes
<1>2. CASE Logs!ClearsAll
  <2>1. Logs!SweepBegins({}, Len(entryOf), FALSE, "truncate")
    BY <1>2 DEF Logs!ClearsAll
  <2>2. Begins({}, Len(entryOf))
    BY <1>1 DEF Begins
  <2> QED BY <2>1, <2>2
<1>3. CASE Logs!ClearsSession
  <2>1. PICK f \in Firing : Logs!SweepBegins({f}, 0, FALSE, "read")
    BY <1>3 DEF Logs!ClearsSession
  <2>2. Begins({f}, 0)
    BY <1>1 DEF Begins
  <2> QED BY <2>1, <2>2
<1>4. CASE Logs!Retires
  <2>1. PICK n \in Logs!Stored : Logs!SweepBegins({}, n, TRUE, "read")
    BY <1>4 DEF Logs!Retires
  <2>2. Begins({}, n)
    BY <1>1 DEF Begins, Logs!Stored
  <2> QED BY <2>1, <2>2
<1> QED BY <1>2, <1>3, <1>4

(* What a clear makes of a file.                                           *)
LEMMA FilteredIs ==
  ASSUME NEW file \in File
  PROVE  /\ Logs!Filtered(file) \in File /\ Logs!Readable(file) \in File
         /\ \A n : n \in Logs!Lines(Logs!Readable(file)) <=> n \in Logs!Lines(file) /\ 0 \notin Logs!Lines(file)
         /\ \A n : n \in Logs!Lines(Logs!Filtered(file)) <=>
              n \in Logs!Lines(file) /\ 0 \notin Logs!Lines(file) /\ ~Logs!Meets(n, sweep.drops, sweep.upto)
<1>1. /\ Logs!Readable(file) \in File
      /\ \A n : n \in Logs!Lines(Logs!Readable(file)) <=> n \in Logs!Lines(file) /\ 0 \notin Logs!Lines(file)
  BY IdleIs DEF Logs!Readable, File
<1>2. /\ Logs!Filtered(file) \in File
      /\ \A n : n \in Logs!Lines(Logs!Filtered(file)) <=>
           n \in Logs!Lines(Logs!Readable(file)) /\ (n = 0 \/ ~Logs!Meets(n, sweep.drops, sweep.upto))
  BY <1>1, WithoutIs DEF Logs!Filtered, File
<1> QED BY <1>1, <1>2

(* A clear that reads takes from the rotated files what it selects, and    *)
(* leaves in them what it does not.                                        *)
LEMMA ReadIs ==
  ASSUME LogsTypes, Logs!SweepReads
  PROVE  /\ sweep.step = "read"
         /\ \/ sweep' = Logs!Idle /\ Logs!Filtered(live) = Logs!Readable(live)
            \/ /\ sweep' = [sweep EXCEPT !.step = "write", !.read = Logs!Filtered(live)]
               /\ 0 \notin Logs!Lines(live)
         /\ rotated' \in Seq(File)
         /\ \A n : (\E f \in Logs!Lines(rotated') : n \in Logs!Lines(f)) =>
                      \E f \in Logs!Lines(rotated) : n \in Logs!Lines(f)
         /\ \A f \in Logs!Lines(rotated) : ~sweep.aged \/ 0 \in Logs!Lines(f) => f \in Logs!Lines(rotated')
         /\ sweep.aged =>
              \A f \in Logs!Lines(rotated) : 0 \notin Logs!Lines(f) => Logs!Filtered(f) \in Logs!Lines(rotated')
         /\ \A g \in Logs!Lines(rotated') :
              \/ g \in Logs!Lines(rotated) /\ (sweep.aged => 0 \in Logs!Lines(g))
              \/ sweep.aged /\ \E f \in Logs!Lines(rotated) : 0 \notin Logs!Lines(f) /\ g = Logs!Filtered(f)
         /\ UNCHANGED <<Logs!memoryVars, live, appends, sweeps, crashes, Logs!historyVars>>
<1>1. /\ sweep.step = "read"
      /\ sweep' = IF Logs!Filtered(live) = Logs!Readable(live) THEN Logs!Idle
                  ELSE [sweep EXCEPT !.step = "write", !.read = Logs!Filtered(live)]
      /\ rotated' = IF ~sweep.aged THEN rotated
                    ELSE [i \in DOMAIN rotated |->
                            IF 0 \in Logs!Lines(rotated[i]) THEN rotated[i]
                            ELSE Logs!Filtered(rotated[i])]
      /\ UNCHANGED <<Logs!memoryVars, live, appends, sweeps, crashes, Logs!historyVars>>
  BY DEF Logs!SweepReads
<1>2. rotated \in Seq(File) /\ live \in File
  BY DEF LogsTypes
<1>3. ASSUME 0 \in Logs!Lines(live) PROVE Logs!Filtered(live) = Logs!Readable(live)
  <2>1. Logs!Readable(live) = <<>> /\ <<>> \in Seq(Nat)
    BY <1>3 DEF Logs!Readable
  <2>2. /\ Logs!Filtered(live) \in Seq(Nat) /\ Len(Logs!Filtered(live)) <= Len(<<>>)
        /\ Len(<<>>) = 0
    BY <2>1, WithoutIs DEF Logs!Filtered
  <2>3. Logs!Filtered(live) = <<>>
    BY <2>2
  <2> QED BY <2>1, <2>3
<1>4. CASE ~sweep.aged
  BY <1>1, <1>2, <1>3, <1>4
<1>5. CASE sweep.aged
  <2> DEFINE g(f) == IF 0 \in Logs!Lines(f) THEN f ELSE Logs!Filtered(f)
  <2>1. DOMAIN rotated = 1 .. Len(rotated) /\ Len(rotated) \in Nat
        /\ \A i \in 1 .. Len(rotated) : rotated[i] \in File
    BY <1>2
  <2>2. rotated' = [i \in 1 .. Len(rotated) |-> g(rotated[i])]
    BY <1>1, <1>5, <2>1
  <2>3. \A f \in File : g(f) \in File
    BY FilteredIs
  <2> HIDE DEF g
  <2>4. rotated' \in Seq(File) /\ Len(rotated') = Len(rotated)
        /\ \A i \in 1 .. Len(rotated) : rotated'[i] = g(rotated[i])
    BY <2>1, <2>2, <2>3
  <2>5. /\ \A x : x \in Logs!Lines(rotated') <=> \E i \in 1 .. Len(rotated') : rotated'[i] = x
        /\ \A x : x \in Logs!Lines(rotated) <=> \E i \in 1 .. Len(rotated) : rotated[i] = x
    BY <1>2, <2>4, LinesOf
  <2>6. \A x : x \in Logs!Lines(rotated') <=> \E f \in Logs!Lines(rotated) : x = g(f)
    BY <2>4, <2>5
  <2>7. \A f \in Logs!Lines(rotated) : f \in File /\ \A n : n \in Logs!Lines(g(f)) => n \in Logs!Lines(f)
    <3> SUFFICES ASSUME NEW f \in Logs!Lines(rotated)
                 PROVE  f \in File /\ \A n : n \in Logs!Lines(g(f)) => n \in Logs!Lines(f)
      OBVIOUS
    <3>1. f \in File
      BY <1>2, LinesOf
    <3> QED BY <3>1, FilteredIs DEF g
  <2>8. \A f : (0 \in Logs!Lines(f) => g(f) = f) /\ (0 \notin Logs!Lines(f) => g(f) = Logs!Filtered(f))
    BY DEF g
  <2>9. \A x \in Logs!Lines(rotated') :
              \/ x \in Logs!Lines(rotated) /\ 0 \in Logs!Lines(x)
              \/ \E f \in Logs!Lines(rotated) : 0 \notin Logs!Lines(f) /\ x = Logs!Filtered(f)
    BY <2>6, <2>8
  <2>10. \A n : (\E f \in Logs!Lines(rotated') : n \in Logs!Lines(f)) =>
                      \E f \in Logs!Lines(rotated) : n \in Logs!Lines(f)
    BY <2>6, <2>7
  <2>11. \A f \in Logs!Lines(rotated) : 0 \in Logs!Lines(f) => f \in Logs!Lines(rotated')
    BY <2>6, <2>8
  <2>12. \A f \in Logs!Lines(rotated) : 0 \notin Logs!Lines(f) => Logs!Filtered(f) \in Logs!Lines(rotated')
    BY <2>6, <2>8
  <2> QED BY <1>1, <1>3, <1>5, <2>4, <2>9, <2>10, <2>11, <2>12
<1> QED BY <1>4, <1>5

LEMMA ReadTypes ==
  ASSUME LogsTypes, Logs!SweepReads
  PROVE  LogsTypes'
<1>1. /\ sweep.step = "read"
      /\ \/ sweep' = Logs!Idle
         \/ /\ sweep' = [sweep EXCEPT !.step = "write", !.read = Logs!Filtered(live)]
            /\ 0 \notin Logs!Lines(live)
      /\ rotated' \in Seq(File)
      /\ \A n : (\E f \in Logs!Lines(rotated') : n \in Logs!Lines(f)) =>
                      \E f \in Logs!Lines(rotated) : n \in Logs!Lines(f)
      /\ UNCHANGED <<entryOf, logs, recentDeliveries, live, appends, acked, discarded>>
  BY ReadIs DEF Logs!memoryVars, Logs!historyVars
<1>2. \A f \in Logs!Lines(rotated') : Holds(f)
  <2>1. \A f \in Logs!Lines(rotated') : \A n \in Logs!Lines(f) : n \in Logs!Stored \cup {0}
    BY <1>1 DEF LogsTypes, Holds
  <2> QED BY <2>1 DEF Holds
<1>3. live \in File /\ Holds(live) /\ Len(entryOf) \in Nat
  BY DEF LogsTypes
<1>4. /\ Logs!Filtered(live) \in File /\ Holds(Logs!Filtered(live))
      /\ 0 \notin Logs!Lines(Logs!Filtered(live))
  BY <1>3, FilteredIs DEF Holds
<1>5. /\ sweep' \in Sweeping /\ (sweep'.step = "idle" => sweep' = Logs!Idle)
      /\ sweep'.upto <= Len(entryOf) /\ Holds(sweep'.read) /\ 0 \notin Logs!Lines(sweep'.read)
  <2>1. CASE sweep' = Logs!Idle
    BY <1>3, <2>1, IdleIs DEF Holds
  <2>2. CASE sweep' = [sweep EXCEPT !.step = "write", !.read = Logs!Filtered(live)]
    <3>1. /\ sweep' \in Sweeping /\ sweep'.step = "write" /\ sweep'.upto = sweep.upto
          /\ sweep'.read = Logs!Filtered(live) /\ sweep.upto <= Len(entryOf)
      BY <1>4, <2>2 DEF LogsTypes, Sweeping
    <3> QED BY <1>4, <3>1
  <2> QED BY <1>1, <2>1, <2>2
<1> QED BY <1>1, <1>2, <1>5, StepTypes DEF LogsTypes

LEMMA WriteTypes ==
  ASSUME LogsTypes, Logs!SweepWrites
  PROVE  LogsTypes'
<1>1. /\ live' = IF sweep.step = "write" THEN sweep.read ELSE <<>>
      /\ sweep' = Logs!Idle
      /\ UNCHANGED <<entryOf, logs, recentDeliveries, rotated, appends, acked, discarded>>
  BY DEF Logs!SweepWrites, Logs!Retained, Logs!memoryVars, Logs!historyVars
<1>2. live' \in File /\ Holds(live') /\ Holds(<<>>)
  BY <1>1, IdleIs DEF LogsTypes, Sweeping, Holds, File
<1>3. /\ sweep' \in Sweeping /\ sweep'.upto <= Len(entryOf)
      /\ Holds(sweep'.read) /\ 0 \notin Logs!Lines(sweep'.read)
  BY <1>1, <1>2, IdleIs DEF LogsTypes
<1> QED BY <1>1, <1>2, <1>3, StepTypes DEF LogsTypes

(* What a restart loads comes from readable files.                         *)
FlatTo(s, n, f) ==
  f = [i \in 1 .. n |-> IF i = 1 THEN s[i] ELSE f[i - 1] \o s[i]]

LEMMA FlatExists ==
  ASSUME NEW s, NEW n \in Nat
  PROVE  \E f : FlatTo(s, n, f)
<1> DEFINE Bad == {k \in Nat : ~\E f : FlatTo(s, k, f)}
<1> SUFFICES ASSUME Bad # {} PROVE FALSE
  OBVIOUS
<1>1. PICK m \in Bad : \A k \in Bad : m <= k
  BY NatMin
<1>2. CASE m = 0
  <2>1. FlatTo(s, 0, [i \in 1 .. 0 |-> <<>>])
    BY DEF FlatTo
  <2> QED BY <1>1, <1>2, <2>1
<1>3. CASE m # 0
  <2>1. m - 1 \in Nat /\ m - 1 \notin Bad
    BY <1>1, <1>3
  <2>2. PICK f : FlatTo(s, m - 1, f)
    BY <2>1
  <2>3. PICK last : last = IF m = 1 THEN s[m] ELSE f[m - 1] \o s[m]
    OBVIOUS
  <2>4. PICK g : g = [i \in 1 .. m |-> IF i = m THEN last ELSE f[i]]
    OBVIOUS
  <2>5. \A i \in 1 .. m - 1 : f[i] = IF i = 1 THEN s[i] ELSE f[i - 1] \o s[i]
    BY <2>1, <2>2 DEF FlatTo
  <2>6. \A i \in 1 .. m : g[i] = IF i = 1 THEN s[i] ELSE g[i - 1] \o s[i]
    <3> TAKE i \in 1 .. m
    <3>1. CASE i = m
      <4>1. g[m] = last /\ (m # 1 => g[m - 1] = f[m - 1])
        BY <1>1, <1>3, <2>4
      <4> QED BY <1>3, <2>3, <3>1, <4>1
    <3>2. CASE i = 1 /\ i # m
      <4>1. 1 \in 1 .. m - 1 /\ g[1] = f[1]
        BY <1>1, <1>3, <2>4, <3>2
      <4> QED BY <2>5, <3>2, <4>1
    <3>3. CASE i # m /\ i # 1
      <4>1. i \in 1 .. m - 1 /\ g[i] = f[i] /\ g[i - 1] = f[i - 1]
        BY <1>1, <1>3, <2>4, <3>3
      <4> QED BY <2>5, <3>3, <4>1
    <3> QED BY <3>1, <3>2, <3>3
  <2>7. g = [i \in 1 .. m |-> IF i = 1 THEN s[i] ELSE g[i - 1] \o s[i]]
    BY <2>4, <2>6
  <2> QED BY <1>1, <2>7 DEF FlatTo
<1> QED BY <1>2, <1>3

LEMMA FlatBy ==
  ASSUME NEW T, NEW s \in Seq(Seq(T)), s # <<>>
  PROVE  \E f : /\ Logs!FlattenSeq(s) = f[Len(s)] /\ f[1] = s[1]
                /\ \A i \in 2 .. Len(s) : f[i] = f[i - 1] \o s[i]
<1>0. Len(s) \in Nat /\ Len(s) # 0
  OBVIOUS
<1> DEFINE h == CHOOSE f : f = [i \in 1 .. Len(s) |-> IF i = 1 THEN s[i] ELSE f[i - 1] \o s[i]]
<1>1. \E f : f = [i \in 1 .. Len(s) |-> IF i = 1 THEN s[i] ELSE f[i - 1] \o s[i]]
  <2>1. \E f : FlatTo(s, Len(s), f)
    BY <1>0, FlatExists
  <2> QED BY <2>1 DEF FlatTo
<1>2. h = [i \in 1 .. Len(s) |-> IF i = 1 THEN s[i] ELSE h[i - 1] \o s[i]]
  BY <1>1
<1>3. Logs!FlattenSeq(s) = h[Len(s)]
  BY <1>0 DEF Logs!FlattenSeq
<1> HIDE DEF h
<1>4. h[1] = s[1]
  BY <1>0, <1>2
<1>5. \A i \in 2 .. Len(s) : h[i] = h[i - 1] \o s[i]
  <2> TAKE i \in 2 .. Len(s)
  <2>1. i \in 1 .. Len(s) /\ i # 1
    BY <1>0
  <2> QED BY <1>2, <2>1
<1> QED BY <1>3, <1>4, <1>5

LEMMA LinesBoth ==
  ASSUME NEW T, NEW s \in Seq(T), NEW t \in Seq(T)
  PROVE  s \o t \in Seq(T) /\ Logs!Lines(s \o t) = Logs!Lines(s) \cup Logs!Lines(t)
<1>1. /\ s \o t \in Seq(T) /\ Len(s \o t) = Len(s) + Len(t) /\ Len(s) \in Nat /\ Len(t) \in Nat
      /\ \A i \in 1 .. Len(s) : (s \o t)[i] = s[i]
      /\ \A i \in 1 .. Len(t) : (s \o t)[i + Len(s)] = t[i]
  OBVIOUS
<1>2. /\ \A i \in 1 .. Len(s) : i \in 1 .. Len(s) + Len(t)
      /\ \A i \in 1 .. Len(t) : i + Len(s) \in 1 .. Len(s) + Len(t)
      /\ \A i \in 1 .. Len(s) + Len(t) : i \in 1 .. Len(s) \/ \E j \in 1 .. Len(t) : i = j + Len(s)
  <2>1. \A p, q \in Nat : /\ \A i \in 1 .. p : i \in 1 .. p + q
                          /\ \A i \in 1 .. q : i + p \in 1 .. p + q
    OBVIOUS
  <2>2. \A p, q \in Nat : \A i \in 1 .. p + q :
          i \in 1 .. p \/ (i - p \in 1 .. q /\ i = (i - p) + p)
    OBVIOUS
  <2>3. \A p, q \in Nat : \A i \in 1 .. p + q : i \in 1 .. p \/ \E j \in 1 .. q : i = j + p
    BY <2>2
  <2> QED BY <1>1, <2>1, <2>3
<1>3. /\ \A x : x \in Logs!Lines(s \o t) <=> \E i \in 1 .. Len(s) + Len(t) : (s \o t)[i] = x
      /\ \A x : x \in Logs!Lines(s) <=> \E i \in 1 .. Len(s) : s[i] = x
      /\ \A x : x \in Logs!Lines(t) <=> \E i \in 1 .. Len(t) : t[i] = x
  <2>1. PICK w : w = s \o t
    OBVIOUS
  <2>2. w \in Seq(T) /\ Len(w) = Len(s) + Len(t)
    BY <1>1, <2>1
  <2>3. \A x : x \in Logs!Lines(w) <=> \E i \in 1 .. Len(w) : w[i] = x
    BY <2>2, LinesOf
  <2>4. \A x : x \in Logs!Lines(s \o t) <=> \E i \in 1 .. Len(s) + Len(t) : (s \o t)[i] = x
    BY <2>1, <2>2, <2>3
  <2> QED BY <2>4, LinesOf
<1>4. \A x : x \in Logs!Lines(s \o t) <=> x \in Logs!Lines(s) \/ x \in Logs!Lines(t)
  BY <1>1, <1>2, <1>3
<1> QED BY <1>1, <1>4

LEMMA FlattenIs ==
  ASSUME NEW T, NEW s \in Seq(Seq(T))
  PROVE  /\ Logs!FlattenSeq(s) \in Seq(T)
         /\ \A x : x \in Logs!Lines(Logs!FlattenSeq(s)) => \E f \in Logs!Lines(s) : x \in Logs!Lines(f)
<1>0. Len(s) \in Nat /\ \A i \in 1 .. Len(s) : s[i] \in Seq(T) /\ s[i] \in Logs!Lines(s)
  BY LinesOf
<1>1. CASE s = <<>>
  <2>1. Logs!FlattenSeq(s) = <<>>
    BY <1>1 DEF Logs!FlattenSeq
  <2>2. Logs!Lines(<<>>) = {}
    BY DEF Logs!Lines
  <2> QED BY <2>1, <2>2
<1>2. CASE s # <<>>
  <2>1. PICK f : /\ Logs!FlattenSeq(s) = f[Len(s)] /\ f[1] = s[1]
                 /\ \A i \in 2 .. Len(s) : f[i] = f[i - 1] \o s[i]
    BY <1>2, FlatBy
  <2> DEFINE P(i) == /\ f[i] \in Seq(T)
                     /\ \A x : x \in Logs!Lines(f[i]) => \E g \in Logs!Lines(s) : x \in Logs!Lines(g)
             Bad == {i \in 1 .. Len(s) : ~P(i)}
  <2>2. Bad = {}
    <3> SUFFICES ASSUME Bad # {} PROVE FALSE
      OBVIOUS
    <3>1. PICK m \in Bad : \A k \in Bad : m <= k
      <4>1. Bad \subseteq Nat
        BY <1>0
      <4> QED BY <4>1, NatMin
    <3>2. m \in 1 .. Len(s) /\ ~P(m)
      OBVIOUS
    <3>3. m # 1
      BY <1>0, <2>1, <3>2
    <3>4. m \in 2 .. Len(s) /\ m - 1 \in 1 .. Len(s) /\ m - 1 \notin Bad
      <4>1. m \in 2 .. Len(s) /\ m - 1 \in 1 .. Len(s) /\ ~(m <= m - 1)
        BY <1>0, <3>2, <3>3
      <4> HIDE DEF Bad
      <4> QED BY <3>1, <4>1
    <3>5. P(m - 1) /\ f[m] = f[m - 1] \o s[m]
      BY <2>1, <3>4
    <3>6. P(m)
      <4>1. f[m - 1] \in Seq(T) /\ s[m] \in Seq(T) /\ s[m] \in Logs!Lines(s)
        BY <1>0, <3>2, <3>5
      <4>2. f[m] \in Seq(T) /\ Logs!Lines(f[m]) = Logs!Lines(f[m - 1]) \cup Logs!Lines(s[m])
        BY <3>5, <4>1, LinesBoth
      <4> QED BY <3>5, <4>1, <4>2
    <3> QED BY <3>2, <3>6
  <2>3. Len(s) \in 1 .. Len(s)
    BY <1>0, <1>2
  <2>4. P(Len(s))
    BY <2>2, <2>3
  <2> QED BY <2>1, <2>4
<1> QED BY <1>1, <1>2

(* A restart loads nothing that a torn line makes unreadable.              *)
LEMMA LoadedIs ==
  ASSUME LogsTypes, NEW file \in File
  PROVE  /\ Logs!Loaded(file) \in File /\ Len(Logs!Loaded(file)) <= MaxInMemory
         /\ \A n \in Logs!Lines(Logs!Loaded(file)) :
              \/ n \in Logs!Lines(file) /\ 0 \notin Logs!Lines(file)
              \/ \E f \in Logs!Lines(rotated) : n \in Logs!Lines(f) /\ 0 \notin Logs!Lines(f)
<1>1. rotated \in Seq(File) /\ Len(rotated) \in Nat
      /\ \A i \in 1 .. Len(rotated) : rotated[i] \in File /\ rotated[i] \in Logs!Lines(rotated)
  BY LinesOf DEF LogsTypes
<1> DEFINE r == [i \in DOMAIN rotated |-> Logs!Readable(rotated[i])]
<1>2. \A i \in 1 .. Len(rotated) : Logs!Readable(rotated[i]) \in File
  BY <1>1, FilteredIs
<1>3. r = [i \in 1 .. Len(rotated) |-> Logs!Readable(rotated[i])]
  BY <1>1
<1>4. /\ r \in Seq(File) /\ Len(r) = Len(rotated)
      /\ \A i \in 1 .. Len(r) : r[i] = Logs!Readable(rotated[i])
  BY <1>1, <1>2, <1>3
<1>10. Logs!Loaded(file) = Logs!Newest(Logs!FlattenSeq(r) \o Logs!Readable(file), MaxInMemory)
  BY DEF Logs!Loaded
<1> HIDE DEF r
<1>5. /\ Logs!FlattenSeq(r) \in Seq(Nat)
      /\ \A x : x \in Logs!Lines(Logs!FlattenSeq(r)) => \E f \in Logs!Lines(r) : x \in Logs!Lines(f)
  BY <1>4, FlattenIs DEF File
<1>6. \A x : x \in Logs!Lines(r) <=> \E i \in 1 .. Len(r) : r[i] = x
  BY <1>4, LinesOf
<1>7. \A x : x \in Logs!Lines(Logs!FlattenSeq(r)) =>
        \E f \in Logs!Lines(rotated) : x \in Logs!Lines(f) /\ 0 \notin Logs!Lines(f)
  <2> SUFFICES ASSUME NEW x \in Logs!Lines(Logs!FlattenSeq(r))
               PROVE  \E f \in Logs!Lines(rotated) : x \in Logs!Lines(f) /\ 0 \notin Logs!Lines(f)
    OBVIOUS
  <2>1. PICK i \in 1 .. Len(rotated) : x \in Logs!Lines(Logs!Readable(rotated[i]))
    BY <1>4, <1>5, <1>6
  <2>2. rotated[i] \in File /\ rotated[i] \in Logs!Lines(rotated)
    BY <1>1
  <2> QED BY <2>1, <2>2, FilteredIs
<1>8. /\ Logs!Readable(file) \in Seq(Nat)
      /\ \A n : n \in Logs!Lines(Logs!Readable(file)) <=>
           n \in Logs!Lines(file) /\ 0 \notin Logs!Lines(file)
  BY FilteredIs DEF File
<1>9. /\ Logs!FlattenSeq(r) \o Logs!Readable(file) \in Seq(Nat)
      /\ Logs!Lines(Logs!FlattenSeq(r) \o Logs!Readable(file)) = Logs!Lines(Logs!FlattenSeq(r)) \cup Logs!Lines(Logs!Readable(file))
  BY <1>5, <1>8, LinesBoth
<1>Limit. MaxInMemory \in Int /\ MaxInMemory \in Nat
  BY LimitAssumption
<1>11. /\ Logs!Loaded(file) \in Seq(Nat) /\ Len(Logs!Loaded(file)) <= MaxInMemory
       /\ Logs!Lines(Logs!Loaded(file)) \subseteq Logs!Lines(Logs!FlattenSeq(r)) \cup Logs!Lines(Logs!Readable(file))
  <2>1. PICK w : w = Logs!FlattenSeq(r) \o Logs!Readable(file)
    OBVIOUS
  <2>2. w \in Seq(Nat) /\ Logs!Lines(w) = Logs!Lines(Logs!FlattenSeq(r)) \cup Logs!Lines(Logs!Readable(file))
    BY <1>9, <2>1
  <2>3. Logs!Loaded(file) = Logs!Newest(w, MaxInMemory)
    BY <1>10, <2>1, Zenon
  <2>4. /\ Logs!Newest(w, MaxInMemory) \in Seq(Nat) /\ Len(Logs!Newest(w, MaxInMemory)) <= MaxInMemory
        /\ Logs!Lines(Logs!Newest(w, MaxInMemory)) \subseteq Logs!Lines(w)
    BY <1>Limit, <2>2, NewestIs
  <2> QED BY <2>2, <2>3, <2>4
<1> QED BY <1>7, <1>8, <1>11 DEF File

LEMMA RestartIs ==
  ASSUME LogsTypes, Logs!Restarts
  PROVE  \E torn \in BOOLEAN : \E file \in File :
           /\ live' = file /\ logs' = Logs!Loaded(file)
           /\ Logs!Lines(file) = Logs!Lines(live) \cup (IF torn THEN {0} ELSE {})
           /\ exposed' = exposed \cup (IF torn THEN Logs!Lines(live) \ {0} ELSE {})
           /\ recentDeliveries' = <<>> /\ appends' = {} /\ sweep' = Logs!Idle
           /\ lingering' = lingering \cup (IF sweep = Logs!Idle THEN {} ELSE Logs!Stored)
           /\ forgotten' = Firing
           /\ UNCHANGED <<entryOf, delivered, rotated, sweeps, acked, discarded>>
<1>1. PICK torn \in BOOLEAN :
         /\ live' = IF torn THEN Append(live, 0) ELSE live
         /\ logs' = Logs!Loaded(IF torn THEN Append(live, 0) ELSE live)
         /\ exposed' = exposed \cup (IF torn THEN Logs!Lines(live) \ {0} ELSE {})
  BY DEF Logs!Restarts
<1>2. /\ recentDeliveries' = <<>> /\ appends' = {} /\ sweep' = Logs!Idle
      /\ lingering' = lingering \cup (IF sweep = Logs!Idle THEN {} ELSE Logs!Stored)
      /\ forgotten' = Firing
      /\ UNCHANGED <<entryOf, delivered, rotated, sweeps, acked, discarded>>
  BY DEF Logs!Restarts
<1>3. live \in File /\ 0 \in Nat
  BY DEF LogsTypes
<1>4. Append(live, 0) \in File /\ Logs!Lines(Append(live, 0)) = Logs!Lines(live) \cup {0}
  BY <1>3, LinesMore DEF File
<1>5. CASE torn
  BY <1>1, <1>2, <1>4, <1>5
<1>6. CASE ~torn
  BY <1>1, <1>2, <1>3, <1>6
<1> QED BY <1>5, <1>6

LEMMA RestartTypes ==
  ASSUME LogsTypes, Logs!Restarts
  PROVE  LogsTypes'
<1>1. PICK torn \in BOOLEAN, file \in File :
           /\ live' = file /\ logs' = Logs!Loaded(file)
           /\ Logs!Lines(file) = Logs!Lines(live) \cup (IF torn THEN {0} ELSE {})
           /\ recentDeliveries' = <<>> /\ appends' = {} /\ sweep' = Logs!Idle
           /\ UNCHANGED <<entryOf, rotated, acked, discarded>>
  BY RestartIs
<1>2. Holds(live') /\ live' \in File
  BY <1>1 DEF LogsTypes, Holds
<1>3. Len(entryOf) \in Nat /\ \A f \in Logs!Lines(rotated) : Holds(f)
  BY DEF LogsTypes
<1>4. logs' \in File /\ Logs!Lines(logs') \subseteq Logs!Stored
  <2>1. /\ Logs!Loaded(file) \in File
        /\ \A n \in Logs!Lines(Logs!Loaded(file)) :
              \/ n \in Logs!Lines(file) /\ 0 \notin Logs!Lines(file)
              \/ \E f \in Logs!Lines(rotated) : n \in Logs!Lines(f) /\ 0 \notin Logs!Lines(f)
    BY LoadedIs
  <2>2. \A n \in Logs!Lines(Logs!Loaded(file)) : n \in Logs!Stored
    BY <1>1, <1>2, <1>3, <2>1 DEF Holds
  <2> QED BY <1>1, <2>1, <2>2
<1>5. recentDeliveries' \in Seq(TableEntry) /\ Len(recentDeliveries') <= MaxKeys
  <2>1. <<>> \in Seq(TableEntry) /\ Len(<<>>) = 0 /\ 0 <= MaxKeys
    BY LimitAssumption
  <2> QED BY <1>1, <2>1
<1>6. /\ sweep' \in Sweeping /\ sweep'.upto <= Len(entryOf)
      /\ Holds(sweep'.read) /\ 0 \notin Logs!Lines(sweep'.read)
  BY <1>1, <1>3, IdleIs DEF Holds
<1> QED BY <1>1, <1>2, <1>3, <1>4, <1>5, <1>6, StepTypes DEF LogsTypes

(* The lines of many files.                                                *)
LEMMA UnionOf ==
  ASSUME NEW group
  PROVE  \A n : n \in UNION {Logs!Lines(f) : f \in group} <=> \E f \in group : n \in Logs!Lines(f)
<1>1. ASSUME NEW f \in group, NEW n \in Logs!Lines(f) PROVE n \in UNION {Logs!Lines(g) : g \in group}
  <2>1. Logs!Lines(f) \in {Logs!Lines(g) : g \in group}
    OBVIOUS
  <2> QED BY <2>1
<1>2. ASSUME NEW n \in UNION {Logs!Lines(g) : g \in group} PROVE \E f \in group : n \in Logs!Lines(f)
  OBVIOUS
<1> QED BY <1>1, <1>2

-----------------------------------------------------------------------------
OnFile(n) == n \in Logs!Lines(live) \/ \E f \in Logs!Lines(rotated) : n \in Logs!Lines(f)
Covered == discarded \cup exposed

(* An acknowledged entry that is not excused is in a file, is not selected *)
(* by the clear under way, and is in what that clear will write back.      *)
Durable ==
  \A n \in acked \ Covered :
    /\ OnFile(n)
    /\ sweep.step = "read" => ~Logs!Meets(n, sweep.drops, sweep.upto)
    /\ sweep.step # "truncate"
    /\ sweep.step = "write" /\ n \in Logs!Lines(live) => n \in Logs!Lines(sweep.read)

(* What is in a live file with a torn line counts as exposed.              *)
Torn == 0 \in Logs!Lines(live) => Logs!Lines(live) \ {0} \subseteq exposed

(* Durable says more than the property.                                    *)
LEMMA DurableSaves ==
  ASSUME LogsTypes, Durable
  PROVE  Logs!NothingStoredLost
<1>1. 0 \notin acked
  BY DEF LogsTypes, Logs!Stored
<1>2. ASSUME NEW n \in acked \ Covered PROVE n \in Logs!OnDisk
  <2>1. n # 0 /\ OnFile(n)
    BY <1>1, <1>2 DEF Durable
  <2>2. PICK f \in Logs!Lines(rotated) \cup {live} : n \in Logs!Lines(f)
    BY <2>1 DEF OnFile
  <2>3. PICK group : group = Logs!Lines(rotated) \cup {live}
    OBVIOUS
  <2>4. n \in UNION {Logs!Lines(g) : g \in group}
    BY <2>2, <2>3, UnionOf, Zenon
  <2> QED BY <2>1, <2>3, <2>4, Zenon DEF Logs!OnDisk
<1> QED BY <1>2 DEF Logs!NothingStoredLost, Covered

(* The predicate of a clear is the same for the entries there are.         *)
LEMMA MeetsSame ==
  ASSUME LogsTypes, NEW f \in Firing, Logs!EventArrives(f)
  PROVE  /\ UNCHANGED <<live, rotated, sweep, acked, discarded, exposed, lingering>>
         /\ \A n \in Logs!Stored : \A drops, upto : Logs!Meets(n, drops, upto)' <=> Logs!Meets(n, drops, upto)
<1>1. /\ entryOf' = Append(entryOf, f)
      /\ UNCHANGED <<live, rotated, sweep, acked, discarded, exposed, lingering>>
  BY DEF Logs!EventArrives, Logs!fileVars
<1>2. \A n \in Logs!Stored : entryOf'[n] = entryOf[n]
  BY <1>1, EntryMore
<1> QED BY <1>1, <1>2 DEF Logs!Meets

(* One lemma for each action: it keeps what is acknowledged in the files.  *)
LEMMA EventDurable ==
  ASSUME LogsTypes, Durable, Torn, NEW f \in Firing, Logs!EventArrives(f)
  PROVE  Durable' /\ Torn'
<1>1. UNCHANGED <<live, rotated, sweep, acked, discarded, exposed>>
  BY MeetsSame
<1>2. \A n \in acked : Logs!Meets(n, sweep.drops, sweep.upto)' <=> Logs!Meets(n, sweep.drops, sweep.upto)
  BY <1>1, MeetsSame DEF LogsTypes, Logs!Meets
<1> QED BY <1>1, <1>2 DEF Durable, Torn, OnFile, Covered

LEMMA SameDurable ==
  ASSUME Durable, Torn, UNCHANGED <<entryOf, live, rotated, sweep, acked, discarded, exposed>>
  PROVE  Durable' /\ Torn'
  BY DEF Durable, Torn, OnFile, Covered, Logs!Meets

LEMMA UnlinkDurable ==
  ASSUME LogsTypes, Counted, Durable, Torn, NEW a \in appends, Logs!Unlinks(a)
  PROVE  Durable' /\ Torn'
<1>1. /\ Logs!Lines(rotated) = Logs!Lines(rotated') \cup {Head(rotated)}
      /\ discarded' = discarded \cup (Logs!Lines(Head(rotated)) \ {0})
      /\ UNCHANGED <<entryOf, live, sweep, acked, exposed>>
  BY UnlinkIs DEF Logs!memoryVars
<1>2. 0 \notin acked
  BY DEF LogsTypes, Logs!Stored
<1>3. ASSUME NEW n \in acked' \ Covered'
      PROVE  n \in acked \ Covered /\ n \notin Logs!Lines(Head(rotated))
  BY <1>1, <1>2, <1>3 DEF Covered
<1>4. ASSUME NEW n \in acked' \ Covered' PROVE OnFile(n)'
  <2>1. n \in acked \ Covered /\ n \notin Logs!Lines(Head(rotated))
    BY <1>3, <1>4
  <2> QED BY <1>1, <2>1 DEF Durable, OnFile
<1> QED BY <1>1, <1>3, <1>4 DEF Durable, Torn, Logs!Meets

LEMMA RenameDurable ==
  ASSUME LogsTypes, Durable, Torn, NEW a \in appends, Logs!Renames(a)
  PROVE  Durable' /\ Torn'
<1>1. /\ \/ live = <<>> /\ rotated' = rotated
         \/ Logs!Lines(rotated') = Logs!Lines(rotated) \cup {live}
         \/ /\ Logs!Lines(rotated') = Logs!Lines(Logs!Front(rotated)) \cup {live}
            /\ Logs!Lines(rotated) = Logs!Lines(Logs!Front(rotated)) \cup {Logs!Last(rotated)}
            /\ Logs!Lines(Logs!Last(rotated)) \ {0} \subseteq exposed'
      /\ exposed \subseteq exposed'
      /\ sweep # Logs!Idle => Logs!Lines(live) \ {0} \subseteq exposed'
      /\ live' = <<>>
      /\ UNCHANGED <<entryOf, sweep, acked, discarded>>
  BY RenameIs DEF Logs!memoryVars
<1>2. Logs!Lines(live') = {} /\ 0 \notin acked
  BY <1>1, IdleIs DEF LogsTypes, Logs!Stored
<1>3. ASSUME NEW n \in acked \ Covered'
      PROVE  /\ n \in acked \ Covered /\ \E f \in Logs!Lines(rotated') : n \in Logs!Lines(f)
  <2>1. n \in acked \ Covered /\ n # 0 /\ OnFile(n)
    BY <1>1, <1>2, <1>3 DEF Covered, Durable
  <2>2. CASE n \in Logs!Lines(live)
    <3>1. live # <<>>
      BY <2>2, IdleIs
    <3>2. live \in Logs!Lines(rotated')
      BY <1>1, <3>1
    <3> QED BY <2>1, <2>2, <3>2
  <2>3. CASE \E f \in Logs!Lines(rotated) : n \in Logs!Lines(f)
    <3>1. PICK f \in Logs!Lines(rotated) : n \in Logs!Lines(f)
      BY <2>3
    <3>2. Logs!Lines(Logs!Last(rotated)) \ {0} \subseteq exposed' => n \notin Logs!Lines(Logs!Last(rotated))
      BY <1>3, <2>1 DEF Covered
    <3>3. f \in Logs!Lines(rotated')
      BY <1>1, <3>1, <3>2
    <3> QED BY <2>1, <3>1, <3>3
  <2> QED BY <2>1, <2>2, <2>3 DEF OnFile
<1>4. ASSUME NEW n \in acked' \ Covered'
      PROVE  /\ OnFile(n)'
             /\ sweep'.step = "read" => ~Logs!Meets(n, sweep.drops, sweep.upto)'
             /\ sweep'.step # "truncate"
             /\ n \notin Logs!Lines(live')
  <2>1. n \in acked \ Covered /\ \E f \in Logs!Lines(rotated') : n \in Logs!Lines(f)
    BY <1>1, <1>3, <1>4
  <2> QED BY <1>1, <1>2, <2>1 DEF OnFile, Durable, Logs!Meets
<1> QED BY <1>2, <1>4 DEF Durable, Torn

LEMMA AppendDurable ==
  ASSUME LogsTypes, Durable, Torn, NEW a \in appends, Logs!Appends(a)
  PROVE  Durable' /\ Torn'
<1>1. /\ acked' = acked \cup {a.entry}
      /\ exposed' = exposed \cup (IF sweep # Logs!Idle \/ 0 \in Logs!Lines(live) THEN {a.entry} ELSE {})
      /\ UNCHANGED <<entryOf, rotated, sweep, discarded>>
  BY DEF Logs!Appends, Logs!memoryVars
<1>2. a.entry \in Logs!Stored /\ Logs!Lines(live') = Logs!Lines(live) \cup {a.entry} /\ a.entry # 0
  BY AppendTypes DEF Logs!Stored
<1>3. Torn'
  BY <1>1, <1>2 DEF Torn
<1>4. ASSUME NEW n \in acked' \ Covered'
      PROVE  /\ OnFile(n)'
             /\ sweep.step = "read" => ~Logs!Meets(n, sweep.drops, sweep.upto)
             /\ sweep.step # "truncate"
             /\ sweep.step = "write" /\ n \in Logs!Lines(live') => n \in Logs!Lines(sweep.read)
  <2>1. CASE n = a.entry
    <3>1. sweep = Logs!Idle
      BY <1>1, <1>4, <2>1 DEF Covered
    <3> QED BY <1>2, <2>1, <3>1, IdleIs DEF OnFile
  <2>2. CASE n # a.entry
    <3>1. n \in acked \ Covered
      BY <1>1, <1>4, <2>2 DEF Covered
    <3> QED BY <1>1, <1>2, <2>2, <3>1 DEF Durable, OnFile
  <2> QED BY <2>1, <2>2
<1>5. \A n : Logs!Meets(n, sweep.drops, sweep.upto)' <=> Logs!Meets(n, sweep.drops, sweep.upto)
  BY <1>1 DEF Logs!Meets
<1> QED BY <1>1, <1>3, <1>4, <1>5 DEF Durable

LEMMA BeginDurable ==
  ASSUME LogsTypes, Durable, Torn, NEW drops, NEW upto, NEW aged, NEW step \in {"read", "truncate"},
         Logs!SweepBegins(drops, upto, aged, step), step = "truncate" => upto = Len(entryOf)
  PROVE  Durable' /\ Torn'
<1>1. /\ sweep' = [step |-> step, drops |-> drops, upto |-> upto, aged |-> aged, read |-> <<>>]
      /\ discarded' = discarded \cup {n \in Logs!Stored : Logs!Meets(n, drops, upto)}
      /\ exposed \subseteq exposed'
      /\ UNCHANGED <<entryOf, live, rotated, acked>>
  BY DEF Logs!SweepBegins, Logs!fileVars
<1>2. ASSUME NEW n \in acked' \ Covered'
      PROVE  OnFile(n)' /\ step # "truncate" /\ ~Logs!Meets(n, drops, upto)'
  <2>1. n \in Logs!Stored /\ n \in acked \ Covered /\ ~Logs!Meets(n, drops, upto)
    BY <1>1, <1>2 DEF Covered, LogsTypes
  <2>2. step # "truncate"
    BY <2>1 DEF Logs!Meets, Logs!Stored
  <2> QED BY <1>1, <2>1, <2>2 DEF Durable, OnFile, Logs!Meets
<1>3. Torn'
  BY <1>1 DEF Torn
<1> QED BY <1>1, <1>2, <1>3 DEF Durable

LEMMA ReadDurable ==
  ASSUME LogsTypes, Durable, Torn, Logs!SweepReads
  PROVE  Durable' /\ Torn'
<1>1. /\ sweep.step = "read"
      /\ \/ sweep' = Logs!Idle
         \/ /\ sweep' = [sweep EXCEPT !.step = "write", !.read = Logs!Filtered(live)]
            /\ 0 \notin Logs!Lines(live)
      /\ \A f \in Logs!Lines(rotated) : ~sweep.aged \/ 0 \in Logs!Lines(f) => f \in Logs!Lines(rotated')
      /\ sweep.aged => \A f \in Logs!Lines(rotated) : 0 \notin Logs!Lines(f) => Logs!Filtered(f) \in Logs!Lines(rotated')
      /\ UNCHANGED <<entryOf, live, acked, discarded, exposed>>
  BY ReadIs DEF Logs!memoryVars, Logs!historyVars
<1>2. live \in File /\ \A f \in Logs!Lines(rotated) : f \in File
  BY LinesOf DEF LogsTypes
<1>3. Torn' /\ Covered' = Covered
  BY <1>1 DEF Torn, Covered
<1>4. ASSUME NEW n \in acked \ Covered
      PROVE  /\ OnFile(n)'
             /\ 0 \notin Logs!Lines(live) /\ n \in Logs!Lines(live) => n \in Logs!Lines(Logs!Filtered(live))
  <2>1. ~Logs!Meets(n, sweep.drops, sweep.upto) /\ OnFile(n)
    BY <1>1, <1>4 DEF Durable
  <2>2. 0 \notin Logs!Lines(live) /\ n \in Logs!Lines(live) => n \in Logs!Lines(Logs!Filtered(live))
    BY <1>2, <2>1, FilteredIs
  <2>3. ASSUME NEW f \in Logs!Lines(rotated), n \in Logs!Lines(f)
        PROVE  \E g \in Logs!Lines(rotated') : n \in Logs!Lines(g)
    <3>1. CASE ~sweep.aged \/ 0 \in Logs!Lines(f)
      BY <1>1, <2>3, <3>1
    <3>2. CASE sweep.aged /\ 0 \notin Logs!Lines(f)
      <4>1. n \in Logs!Lines(Logs!Filtered(f))
        BY <1>2, <2>1, <2>3, <3>2, FilteredIs
      <4> QED BY <1>1, <3>2, <4>1
    <3> QED BY <3>1, <3>2
  <2> QED BY <1>1, <2>1, <2>2, <2>3 DEF OnFile
<1>5. CASE sweep' = Logs!Idle
  BY <1>1, <1>3, <1>4, <1>5, IdleIs DEF Durable
<1>6. CASE sweep' = [sweep EXCEPT !.step = "write", !.read = Logs!Filtered(live)] /\ 0 \notin Logs!Lines(live)
  <2>1. sweep'.step = "write" /\ sweep'.read = Logs!Filtered(live)
    BY <1>6 DEF LogsTypes, Sweeping
  <2> QED BY <1>1, <1>3, <1>4, <1>6, <2>1 DEF Durable
<1> QED BY <1>1, <1>5, <1>6

LEMMA WriteDurable ==
  ASSUME LogsTypes, Durable, Torn, Logs!SweepWrites
  PROVE  Durable' /\ Torn'
<1>1. /\ sweep.step \in {"write", "truncate"}
      /\ live' = IF sweep.step = "write" THEN sweep.read ELSE <<>>
      /\ sweep' = Logs!Idle
      /\ UNCHANGED <<entryOf, rotated, acked, discarded, exposed>>
  BY DEF Logs!SweepWrites, Logs!Retained, Logs!memoryVars, Logs!historyVars
<1>2. 0 \notin Logs!Lines(live')
  BY <1>1, IdleIs DEF LogsTypes
<1>3. ASSUME NEW n \in acked \ Covered
      PROVE  OnFile(n)'
  <2>1. sweep.step = "write" /\ live' = sweep.read
    BY <1>1, <1>3 DEF Durable
  <2> QED BY <1>1, <1>3, <2>1 DEF Durable, OnFile
<1>4. Covered' = Covered
  BY <1>1 DEF Covered
<1> QED BY <1>1, <1>2, <1>3, <1>4, IdleIs DEF Durable, Torn

LEMMA RestartDurable ==
  ASSUME LogsTypes, Durable, Torn, Logs!Restarts
  PROVE  Durable' /\ Torn'
<1>1. PICK torn \in BOOLEAN :
           /\ Logs!Lines(live') = Logs!Lines(live) \cup (IF torn THEN {0} ELSE {})
           /\ exposed' = exposed \cup (IF torn THEN Logs!Lines(live) \ {0} ELSE {})
           /\ sweep' = Logs!Idle
           /\ UNCHANGED <<entryOf, rotated, acked, discarded>>
  BY RestartIs
<1>2. Torn'
  BY <1>1 DEF Torn
<1>3. ASSUME NEW n \in acked' \ Covered'
      PROVE  OnFile(n)'
  BY <1>1, <1>3 DEF Durable, OnFile, Covered
<1> QED BY <1>1, <1>2, <1>3, IdleIs DEF Durable

-----------------------------------------------------------------------------
(* An entry that was discarded where the clear could see it is not in      *)
(* memory nor about to be appended, and a file that can be read has it     *)
(* only while the clear has still to come to that file.                    *)
Cleared ==
  \A n \in discarded \ lingering :
    /\ n \notin Logs!Lines(logs)
    /\ \A a \in appends : a.entry # n
    /\ \A f \in Logs!Lines(rotated) : n \in Logs!Lines(f) /\ 0 \notin Logs!Lines(f) =>
         sweep.step = "read" /\ sweep.aged /\ Logs!Meets(n, sweep.drops, sweep.upto)
    /\ n \in Logs!Lines(live) /\ 0 \notin Logs!Lines(live) =>
         \/ sweep.step = "read" /\ Logs!Meets(n, sweep.drops, sweep.upto)
         \/ sweep.step \in {"write", "truncate"}
    /\ sweep.step = "write" => n \notin Logs!Lines(sweep.read)

LEMMA ClearedStays ==
  ASSUME Cleared
  PROVE  Logs!ClearedStaysCleared
  BY DEF Cleared, Logs!ClearedStaysCleared

(* Steps that take no entry to where it was not.                           *)
LEMMA SameCleared ==
  ASSUME Cleared, Logs!Lines(logs') \subseteq Logs!Lines(logs),
         \A a \in appends' : \E b \in appends : a.entry = b.entry,
         UNCHANGED <<entryOf, live, rotated, sweep, discarded, lingering>>
  PROVE  Cleared'
  BY DEF Cleared, Logs!Meets

(* One lemma for each action: it brings nothing back.                      *)
LEMMA EventCleared ==
  ASSUME LogsTypes, Cleared, NEW f \in Firing, Logs!EventArrives(f)
  PROVE  Cleared'
<1> DEFINE n == Len(entryOf) + 1
           left == Logs!Newest(Append(logs, n), MaxInMemory)
<1>1. /\ UNCHANGED <<live, rotated, sweep, discarded, lingering>>
      /\ \A m \in Logs!Stored : \A drops, upto : Logs!Meets(m, drops, upto)' <=> Logs!Meets(m, drops, upto)
  BY MeetsSame
<1>2. /\ entryOf' = Append(entryOf, f) /\ logs' = left
      /\ appends' = appends \cup
           {[entry |-> n, step |-> "check", near |-> FALSE, doomed |-> 0]}
  BY DEF Logs!EventArrives
<1>3. n \notin Logs!Stored /\ n \in Nat
  BY <1>2, EntryMore
<1>4. Logs!Lines(logs') \subseteq Logs!Lines(logs) \cup {n}
  <2>1. logs \in Seq(Nat) /\ MaxInMemory \in Int
    BY LimitAssumption DEF LogsTypes, File
  <2>2. Append(logs, n) \in Seq(Nat) /\ Logs!Lines(Append(logs, n)) = Logs!Lines(logs) \cup {n}
    BY <1>3, <2>1, LinesMore
  <2> HIDE DEF n
  <2>3. Logs!Lines(left) \subseteq Logs!Lines(Append(logs, n))
    BY <2>1, <2>2, NewestIs
  <2> QED BY <1>2, <2>2, <2>3
<1> HIDE DEF n, left
<1>5. \A a \in appends' : a \in appends \/ a.entry = n
  BY <1>2
<1>6. discarded \subseteq Logs!Stored
  BY DEF LogsTypes
<1>7. ASSUME NEW m \in discarded' \ lingering'
      PROVE  /\ m \in discarded \ lingering /\ m # n
             /\ Logs!Meets(m, sweep.drops, sweep.upto)' <=> Logs!Meets(m, sweep.drops, sweep.upto)
  <2>1. m \in discarded \ lingering /\ m # n /\ m \in Logs!Stored
    BY <1>1, <1>3, <1>6, <1>7
  <2>2. Logs!Meets(m, sweep.drops, sweep.upto)' <=> Logs!Meets(m, sweep.drops, sweep.upto)
    BY <1>1, <2>1 DEF Logs!Meets
  <2> QED BY <2>1, <2>2
<1> QED BY <1>1, <1>4, <1>5, <1>7 DEF Cleared

LEMMA UnlinkCleared ==
  ASSUME LogsTypes, Counted, Cleared, NEW a \in appends, Logs!Unlinks(a)
  PROVE  Cleared'
<1>1. /\ Logs!Lines(rotated) = Logs!Lines(rotated') \cup {Head(rotated)}
      /\ discarded' = discarded \cup (Logs!Lines(Head(rotated)) \ {0})
      /\ lingering' = lingering \cup (Logs!Lines(Head(rotated)) \ {0})
      /\ UNCHANGED <<entryOf, logs, live, sweep>>
  BY UnlinkIs DEF Logs!memoryVars
<1>2. \A c \in appends' : \E b \in appends : c.entry = b.entry
  BY UnlinkIs
<1>3. ASSUME NEW n \in discarded' \ lingering' PROVE n \in discarded \ lingering
  BY <1>1, <1>3
<1> QED BY <1>1, <1>2, <1>3 DEF Cleared, Logs!Meets

LEMMA RenameCleared ==
  ASSUME LogsTypes, Cleared, NEW a \in appends, Logs!Renames(a)
  PROVE  Cleared'
<1>1. /\ \/ live = <<>> /\ rotated' = rotated
         \/ Logs!Lines(rotated') = Logs!Lines(rotated) \cup {live}
         \/ /\ Logs!Lines(rotated') = Logs!Lines(Logs!Front(rotated)) \cup {live}
            /\ Logs!Lines(rotated) = Logs!Lines(Logs!Front(rotated)) \cup {Logs!Last(rotated)}
      /\ lingering' = lingering \cup (IF sweep = Logs!Idle THEN {} ELSE Logs!Stored)
      /\ live' = <<>>
      /\ UNCHANGED <<entryOf, logs, sweep, discarded>>
  BY RenameIs DEF Logs!memoryVars
<1>2. Logs!Lines(live') = {}
  BY <1>1, IdleIs
<1>4. \A c \in appends' : \E b \in appends : c.entry = b.entry
  BY RenameIs
<1>5. ASSUME NEW n \in discarded' \ lingering'
      PROVE  n \in discarded \ lingering /\ sweep = Logs!Idle
  <2>1. n \in discarded \ lingering
    BY <1>1, <1>5
  <2> QED BY <1>1, <1>5, <2>1 DEF LogsTypes
<1>6. \A f \in Logs!Lines(rotated') : f \in Logs!Lines(rotated) \/ f = live
  BY <1>1
<1>7. ASSUME NEW n \in discarded' \ lingering', NEW f \in Logs!Lines(rotated')
      PROVE  ~(n \in Logs!Lines(f) /\ 0 \notin Logs!Lines(f))
  BY <1>5, <1>6, <1>7, IdleIs DEF Cleared
<1> QED BY <1>1, <1>2, <1>4, <1>5, <1>7, IdleIs DEF Cleared

LEMMA AppendCleared ==
  ASSUME LogsTypes, Cleared, NEW a \in appends, Logs!Appends(a)
  PROVE  Cleared'
<1>1. /\ appends' = appends \ {a}
      /\ UNCHANGED <<entryOf, logs, rotated, sweep, discarded, lingering>>
  BY DEF Logs!Appends, Logs!memoryVars
<1>2. Logs!Lines(live') = Logs!Lines(live) \cup {a.entry} /\ a.entry # 0
  BY AppendTypes DEF Logs!Stored
<1>3. ASSUME NEW n \in discarded \ lingering PROVE n # a.entry
  BY <1>3 DEF Cleared
<1>4. \A n : n # a.entry => (n \in Logs!Lines(live') <=> n \in Logs!Lines(live))
  BY <1>2
<1>5. 0 \in Logs!Lines(live') <=> 0 \in Logs!Lines(live)
  BY <1>2
<1> QED BY <1>1, <1>3, <1>4, <1>5 DEF Cleared, Logs!Meets

LEMMA BeginCleared ==
  ASSUME LogsTypes, Cleared, NEW drops, NEW upto, NEW aged \in BOOLEAN, NEW step \in {"read", "truncate"},
         Logs!SweepBegins(drops, upto, aged, step), step = "truncate" => ~aged
  PROVE  Cleared'
<1>1. /\ sweep = Logs!Idle
      /\ sweep' = [step |-> step, drops |-> drops, upto |-> upto, aged |-> aged, read |-> <<>>]
      /\ logs' = Logs!Without(logs, drops, upto)
      /\ discarded' = discarded \cup {n \in Logs!Stored : Logs!Meets(n, drops, upto)}
      /\ UNCHANGED <<entryOf, live, rotated, appends>>
  BY DEF Logs!SweepBegins, Logs!fileVars
<1>Lingers. ASSUME NEW n,
                   n \in lingering \/ (\E a \in appends : n = a.entry)
                     \/ (~aged /\ n # 0 /\ \E f \in Logs!Lines(rotated) : n \in Logs!Lines(f))
            PROVE  n \in lingering'
  <2>1. PICK old : old = UNION {Logs!Lines(f) : f \in Logs!Lines(rotated)}
    OBVIOUS
  <2>2. PICK coming : coming = {a.entry : a \in appends}
    OBVIOUS
  <2>3. lingering' = lingering \cup coming \cup (IF aged THEN {} ELSE old \ {0})
           \cup (IF 0 \in Logs!Lines(live) THEN Logs!Stored ELSE {})
    BY <2>1, <2>2, Zenon DEF Logs!SweepBegins
  <2>4. \A m : (\E f \in Logs!Lines(rotated) : m \in Logs!Lines(f)) => m \in old
    BY <2>1, UnionOf, Zenon
  <2>5. \A m : (\E a \in appends : m = a.entry) => m \in coming
    BY <2>2
  <2>6. /\ lingering \subseteq lingering' /\ coming \subseteq lingering'
        /\ ~aged => old \ {0} \subseteq lingering'
    BY <2>3
  <2>7. CASE n \in lingering \/ \E a \in appends : n = a.entry
    BY <2>5, <2>6, <2>7
  <2>8. CASE ~aged /\ n # 0 /\ \E f \in Logs!Lines(rotated) : n \in Logs!Lines(f)
    BY <2>4, <2>6, <2>8
  <2> QED BY <1>Lingers, <2>7, <2>8
<1>2. \A n : n \in Logs!Lines(logs') <=> n \in Logs!Lines(logs) /\ (n = 0 \/ ~Logs!Meets(n, drops, upto))
  <2>1. logs \in Seq(Nat)
    BY DEF LogsTypes, File
  <2>2. \A n : n \in Logs!Lines(Logs!Without(logs, drops, upto)) <=>
                 n \in Logs!Lines(logs) /\ (n = 0 \/ ~Logs!Meets(n, drops, upto))
    BY <2>1, WithoutIs
  <2> QED BY <1>1, <2>2
<1>3. \A n : Logs!Meets(n, sweep.drops, sweep.upto)' <=> Logs!Meets(n, drops, upto)
  <2>1. sweep'.drops = drops /\ sweep'.upto = upto /\ entryOf' = entryOf
    BY <1>1
  <2> QED BY <2>1 DEF Logs!Meets
<1>4. discarded' \subseteq Logs!Stored /\ 0 \notin Logs!Stored
  <2>1. discarded \subseteq Logs!Stored /\ 0 \notin Logs!Stored
    BY DEF LogsTypes, Logs!Stored
  <2> QED BY <1>1, <2>1
<1>5. ASSUME NEW n \in discarded' \ lingering'
      PROVE  /\ n \notin Logs!Lines(logs') /\ \A a \in appends : a.entry # n
             /\ \A f \in Logs!Lines(rotated) : n \in Logs!Lines(f) /\ 0 \notin Logs!Lines(f) =>
                  step = "read" /\ aged /\ Logs!Meets(n, drops, upto)
             /\ n \in Logs!Lines(live) /\ 0 \notin Logs!Lines(live) =>
                  step = "truncate" \/ Logs!Meets(n, drops, upto)
  <2>1. /\ n # 0 /\ \A a \in appends : a.entry # n
        /\ n \in discarded \ lingering \/ Logs!Meets(n, drops, upto)
        /\ aged \/ \A f \in Logs!Lines(rotated) : n \notin Logs!Lines(f)
    <3>1. n # 0 /\ n \notin lingering' /\ n \in discarded'
      BY <1>4, <1>5
    <3>2. n \in discarded \/ Logs!Meets(n, drops, upto)
      BY <1>1, <3>1
    <3> QED BY <1>Lingers, <3>1, <3>2
  <2>2. CASE n \in discarded \ lingering
    <3>1. /\ n \notin Logs!Lines(logs)
          /\ \A f \in Logs!Lines(rotated) : ~(n \in Logs!Lines(f) /\ 0 \notin Logs!Lines(f))
          /\ ~(n \in Logs!Lines(live) /\ 0 \notin Logs!Lines(live))
      BY <1>1, <2>2, IdleIs DEF Cleared
    <3> QED BY <1>2, <2>1, <3>1
  <2>3. CASE Logs!Meets(n, drops, upto)
    BY <1>2, <2>1, <2>3
  <2> QED BY <2>1, <2>2, <2>3
<1>6. sweep'.step = step /\ sweep'.aged = aged /\ sweep'.step # "write"
  BY <1>1
<1> QED BY <1>1, <1>3, <1>5, <1>6 DEF Cleared

LEMMA ReadCleared ==
  ASSUME LogsTypes, Cleared, Logs!SweepReads
  PROVE  Cleared'
<1>1. /\ sweep.step = "read"
      /\ \/ sweep' = Logs!Idle /\ Logs!Filtered(live) = Logs!Readable(live)
         \/ sweep' = [sweep EXCEPT !.step = "write", !.read = Logs!Filtered(live)]
      /\ \A g \in Logs!Lines(rotated') :
              \/ g \in Logs!Lines(rotated) /\ (sweep.aged => 0 \in Logs!Lines(g))
              \/ sweep.aged /\ \E f \in Logs!Lines(rotated) : 0 \notin Logs!Lines(f) /\ g = Logs!Filtered(f)
      /\ UNCHANGED <<entryOf, logs, live, appends, discarded, lingering>>
  BY ReadIs DEF Logs!memoryVars, Logs!historyVars
<1>2. live \in File /\ \A f \in Logs!Lines(rotated) : f \in File
  BY LinesOf DEF LogsTypes
<1>3. ASSUME NEW n \in discarded \ lingering, NEW g \in Logs!Lines(rotated'),
             n \in Logs!Lines(g), 0 \notin Logs!Lines(g)
      PROVE  FALSE
  <2>1. CASE g \in Logs!Lines(rotated) /\ (sweep.aged => 0 \in Logs!Lines(g))
    BY <1>3, <2>1 DEF Cleared
  <2>2. CASE sweep.aged /\ \E f \in Logs!Lines(rotated) : 0 \notin Logs!Lines(f) /\ g = Logs!Filtered(f)
    <3>1. PICK f \in Logs!Lines(rotated) : 0 \notin Logs!Lines(f) /\ g = Logs!Filtered(f)
      BY <2>2
    <3>2. n \in Logs!Lines(f) /\ ~Logs!Meets(n, sweep.drops, sweep.upto)
      BY <1>2, <1>3, <3>1, FilteredIs
    <3> QED BY <1>3, <3>1, <3>2 DEF Cleared
  <2> QED BY <1>1, <2>1, <2>2
<1>4. ASSUME NEW n \in discarded \ lingering
      PROVE  /\ n \notin Logs!Lines(Logs!Filtered(live))
             /\ Logs!Filtered(live) = Logs!Readable(live) => ~(n \in Logs!Lines(live) /\ 0 \notin Logs!Lines(live))
  <2>1. /\ n \in Logs!Lines(Logs!Readable(live)) <=> n \in Logs!Lines(live) /\ 0 \notin Logs!Lines(live)
        /\ n \in Logs!Lines(Logs!Filtered(live)) <=>
             n \in Logs!Lines(live) /\ 0 \notin Logs!Lines(live) /\ ~Logs!Meets(n, sweep.drops, sweep.upto)
    BY <1>2, FilteredIs
  <2>2. n \in Logs!Lines(live) /\ 0 \notin Logs!Lines(live) => Logs!Meets(n, sweep.drops, sweep.upto)
    BY <1>1, <1>4 DEF Cleared
  <2> QED BY <2>1, <2>2
<1>5. CASE sweep' = Logs!Idle /\ Logs!Filtered(live) = Logs!Readable(live)
  BY <1>1, <1>3, <1>4, <1>5, IdleIs DEF Cleared
<1>6. CASE sweep' = [sweep EXCEPT !.step = "write", !.read = Logs!Filtered(live)]
  <2>1. sweep'.step = "write" /\ sweep'.read = Logs!Filtered(live)
    BY <1>6 DEF LogsTypes, Sweeping
  <2> QED BY <1>1, <1>3, <1>4, <2>1 DEF Cleared
<1> QED BY <1>1, <1>5, <1>6

LEMMA WriteCleared ==
  ASSUME LogsTypes, Cleared, Logs!SweepWrites
  PROVE  Cleared'
<1>1. /\ sweep.step \in {"write", "truncate"}
      /\ live' = IF sweep.step = "write" THEN sweep.read ELSE <<>>
      /\ sweep' = Logs!Idle
      /\ UNCHANGED <<entryOf, logs, rotated, appends, discarded, lingering>>
  BY DEF Logs!SweepWrites, Logs!Retained, Logs!memoryVars, Logs!historyVars
<1>2. ASSUME NEW n \in discarded \ lingering
      PROVE  /\ n \notin Logs!Lines(live')
             /\ \A f \in Logs!Lines(rotated) : ~(n \in Logs!Lines(f) /\ 0 \notin Logs!Lines(f))
  BY <1>1, <1>2, IdleIs DEF Cleared
<1> QED BY <1>1, <1>2, IdleIs DEF Cleared

LEMMA RestartCleared ==
  ASSUME LogsTypes, Cleared, Logs!Restarts
  PROVE  Cleared'
<1>1. PICK torn \in BOOLEAN, file \in File :
           /\ live' = file /\ logs' = Logs!Loaded(file)
           /\ Logs!Lines(file) = Logs!Lines(live) \cup (IF torn THEN {0} ELSE {})
           /\ appends' = {} /\ sweep' = Logs!Idle
           /\ lingering' = lingering \cup (IF sweep = Logs!Idle THEN {} ELSE Logs!Stored)
           /\ UNCHANGED <<entryOf, rotated, discarded>>
  BY RestartIs
<1>2. ASSUME NEW n \in discarded' \ lingering'
      PROVE  /\ n \notin Logs!Lines(file) \/ 0 \in Logs!Lines(file)
             /\ \A f \in Logs!Lines(rotated) : ~(n \in Logs!Lines(f) /\ 0 \notin Logs!Lines(f))
  <2>1. n \in discarded \ lingering /\ sweep = Logs!Idle
    BY <1>1, <1>2 DEF LogsTypes
  <2>2. ~(n \in Logs!Lines(live) /\ 0 \notin Logs!Lines(live))
        /\ \A f \in Logs!Lines(rotated) : ~(n \in Logs!Lines(f) /\ 0 \notin Logs!Lines(f))
    BY <2>1, IdleIs DEF Cleared
  <2>3. n # 0
    BY <2>1 DEF LogsTypes, Logs!Stored
  <2> QED BY <1>1, <2>2, <2>3
<1>3. \A n \in Logs!Lines(logs') :
              \/ n \in Logs!Lines(file) /\ 0 \notin Logs!Lines(file)
              \/ \E f \in Logs!Lines(rotated) : n \in Logs!Lines(f) /\ 0 \notin Logs!Lines(f)
  BY <1>1, LoadedIs
<1>4. \A n \in discarded' \ lingering' : n \notin Logs!Lines(logs')
  BY <1>2, <1>3
<1> QED BY <1>1, <1>2, <1>4, IdleIs DEF Cleared

-----------------------------------------------------------------------------
(* A firing whose record is to be found: its key is in the window and its  *)
(* entry in memory.                                                        *)
Known(n) ==
  \/ KindOf[entryOf[n]] = "bare" \/ entryOf[n] \in forgotten
  \/ Logs!IsRecent(Logs!Key(entryOf[n])) /\ n \in Logs!Lines(logs)

AllKnown == \A n \in Logs!Stored : Known(n)

(* Only firings of kind "bare" have no key.                                *)
LEMMA KeyIs ==
  ASSUME NEW f
  PROVE  Logs!Key(f) = Nil /\ f \in Firing => KindOf[f] = "bare"
  BY NilAssumption DEF Logs!Key

(* While the records are known, a stored firing that comes again is either *)
(* recognised or excused.                                                  *)
LEMMA NewIsNew ==
  ASSUME LogsTypes, AllKnown, NEW f \in Firing, Logs!EventArrives(f), NEW n \in Logs!Stored, entryOf[n] = f
  PROVE  KindOf[f] = "bare" \/ f \in forgotten
<1> SUFFICES ASSUME ~(KindOf[f] = "bare" \/ f \in forgotten) PROVE FALSE
  OBVIOUS
<1>1. Logs!IsRecent(Logs!Key(f)) /\ n \in Logs!Lines(logs)
  BY DEF AllKnown, Known
<1>2. Logs!Key(f) # Nil
  BY KeyIs
<1>3. \E i \in DOMAIN logs : logs[i] = n
  BY <1>1 DEF Logs!Lines
<1>4. Logs!IsRepeat(f)
  BY <1>1, <1>2, <1>3 DEF Logs!IsRepeat
<1> QED BY <1>4 DEF Logs!EventArrives

(* The table that an event leaves.                                         *)
LEMMA EventTable ==
  ASSUME LogsTypes, NEW f \in Firing, Logs!EventArrives(f)
  PROVE  /\ Logs!Key(f) # Nil => Logs!IsRecent(Logs!Key(f))'
         /\ \A g \in Firing : Logs!IsRecent(Logs!Key(g)) => Logs!IsRecent(Logs!Key(g))' \/ g \in forgotten'
         /\ forgotten \subseteq forgotten'
<1> DEFINE k == Logs!Key(f)
           table == IF k = Nil \/ Logs!IsRecent(k) THEN recentDeliveries ELSE Logs!Remembered(k)
           left == Logs!Newest(Append(logs, Len(entryOf) + 1), MaxInMemory)
<1>1. /\ recentDeliveries' = table
      /\ forgotten' = forgotten \cup Logs!Forgets(table) \cup Logs!Dropped(left)
  BY DEF Logs!EventArrives
<1>2. /\ recentDeliveries \in Seq(TableEntry)
      /\ \A c : Logs!IsRecent(c) <=> Young(recentDeliveries, c)
  BY RecentIs DEF LogsTypes
<1>3. recentDeliveries' \in Seq(TableEntry)
  BY EventTypes DEF LogsTypes
<1>4. \A c : Logs!IsRecent(c)' <=> Young(recentDeliveries', c)
  <2>1. /\ DOMAIN recentDeliveries' = 1 .. Len(recentDeliveries')
        /\ \A x : x \in Logs!Lines(recentDeliveries') <=>
             \E i \in 1 .. Len(recentDeliveries') : recentDeliveries'[i] = x
    BY <1>3, LinesOf
  <2> QED BY <2>1 DEF Logs!IsRecent, Young
<1>5. forgotten \subseteq forgotten' /\ Logs!Forgets(table) \subseteq forgotten'
  BY <1>1
<1>6. CASE k = Nil \/ Logs!IsRecent(k)
  <2>1. recentDeliveries' = recentDeliveries
    BY <1>1, <1>6
  <2> QED BY <1>2, <1>4, <1>5, <1>6, <2>1
<1>7. CASE ~(k = Nil \/ Logs!IsRecent(k))
  <2>1. k \in Firing \cup {"session"}
    BY <1>7 DEF Logs!Key
  <2>2. table = Logs!Remembered(k)
    BY <1>7
  <2>3. /\ Young(Logs!Remembered(k), k)
        /\ \A c : Young(recentDeliveries, c) /\ c \in Logs!Keys(Logs!Remembered(k)) =>
              Young(Logs!Remembered(k), c)
    BY <2>1, RememberedIs
  <2>4. Logs!IsRecent(k)'
    BY <1>1, <1>4, <2>2, <2>3
  <2>5. ASSUME NEW g \in Firing, Logs!IsRecent(Logs!Key(g)), Logs!Key(g) \notin Logs!Keys(table)
        PROVE  g \in Logs!Forgets(table)
    <3>1. PICK i \in DOMAIN recentDeliveries : recentDeliveries[i].key = Logs!Key(g)
      BY <2>5 DEF Logs!IsRecent
    <3>2. Logs!Key(g) \in Logs!Keys(recentDeliveries)
      BY <3>1 DEF Logs!Keys
    <3> QED BY <2>5, <3>2 DEF Logs!Forgets
  <2>6. \A g \in Firing : Logs!IsRecent(Logs!Key(g)) => Logs!IsRecent(Logs!Key(g))' \/ g \in forgotten'
    BY <1>1, <1>2, <1>4, <1>5, <2>2, <2>3, <2>5
  <2> QED BY <1>5, <2>4, <2>6
<1> QED BY <1>6, <1>7

(* An event makes its record known, or finds it known already.             *)
LEMMA EventKnown ==
  ASSUME LogsTypes, AllKnown, Logs!OnePerFiring, NEW f \in Firing, Logs!EventArrives(f)
  PROVE  AllKnown' /\ Logs!OnePerFiring'
<1>0. PICK n : n = Len(entryOf) + 1
  OBVIOUS
<1> DEFINE left == Logs!Newest(Append(logs, n), MaxInMemory)
<1>1. /\ entryOf' = Append(entryOf, f) /\ logs' = left
      /\ Logs!Dropped(left) \subseteq forgotten'
  BY <1>0 DEF Logs!EventArrives
<1>2. /\ Logs!Stored' = Logs!Stored \cup {n} /\ n \notin Logs!Stored /\ n \in Nat
      /\ entryOf'[n] = f /\ \A m \in Logs!Stored : entryOf'[m] = entryOf[m] /\ entryOf[m] \in Firing
  <2>1. \A m \in Logs!Stored : entryOf[m] \in Firing
    BY DEF LogsTypes, Logs!Stored
  <2>2. /\ Logs!Stored' = Logs!Stored \cup {Len(entryOf) + 1} /\ Len(entryOf) + 1 \notin Logs!Stored
        /\ Len(entryOf) \in Nat /\ entryOf'[Len(entryOf) + 1] = f
        /\ \A m \in Logs!Stored : entryOf'[m] = entryOf[m]
    BY <1>1, EntryMore
  <2> QED BY <1>0, <2>1, <2>2
<1>3. n \in Logs!Lines(logs')
  <2>1. logs \in Seq(Nat) /\ MaxInMemory \in Int /\ MaxInMemory \in Nat \ {0}
    BY LimitAssumption DEF LogsTypes, File
  <2>2. PICK w : w = Append(logs, n)
    OBVIOUS
  <2>3. /\ w \in Seq(Nat) /\ Len(w) = Len(logs) + 1 /\ Len(logs) \in Nat
        /\ w # <<>> /\ w[Len(w)] = n
    BY <1>2, <2>1, <2>2
  <2>4. w[Len(w)] \in Logs!Lines(Logs!Newest(w, MaxInMemory))
    BY <2>1, <2>3, NewestIs
  <2> QED BY <1>1, <2>2, <2>3, <2>4
<1>4. /\ Logs!Key(f) # Nil => Logs!IsRecent(Logs!Key(f))'
      /\ \A g \in Firing : Logs!IsRecent(Logs!Key(g)) => Logs!IsRecent(Logs!Key(g))' \/ g \in forgotten'
      /\ forgotten \subseteq forgotten'
  BY EventTable
<1>5. ASSUME NEW m \in Logs!Stored PROVE Known(m)'
  <2>1. CASE KindOf[entryOf[m]] = "bare" \/ entryOf[m] \in forgotten
    BY <1>2, <1>4, <2>1 DEF Known
  <2>2. CASE Logs!IsRecent(Logs!Key(entryOf[m])) /\ m \in Logs!Lines(logs)
    <3>1. m \in Logs!Lines(left) \/ entryOf[m] \in forgotten'
      <4>1. m \notin Logs!Lines(left) => entryOf[m] \in Logs!Dropped(left)
        BY <2>2 DEF Logs!Dropped
      <4> QED BY <1>1, <4>1
    <3>2. Logs!IsRecent(Logs!Key(entryOf[m]))' \/ entryOf[m] \in forgotten'
      <4>1. entryOf[m] \in Firing /\ entryOf'[m] = entryOf[m]
        BY <1>2
      <4>2. PICK g \in Firing : g = entryOf[m]
        BY <4>1
      <4>3. Logs!IsRecent(Logs!Key(g))' \/ g \in forgotten'
        BY <1>4, <2>2, <4>2
      <4>4. Logs!Key(g) = Logs!Key(entryOf[m]) /\ Logs!Key(g) = Logs!Key(entryOf'[m])
        BY <4>1, <4>2
      <4> QED BY <4>1, <4>2, <4>3 DEF Logs!IsRecent, Logs!Key
    <3> QED BY <1>1, <1>2, <3>1, <3>2 DEF Known
  <2> QED BY <2>1, <2>2 DEF AllKnown, Known
<1>6. Known(n)'
  <2>1. Logs!Key(f) = Nil => KindOf[f] = "bare"
    BY KeyIs
  <2>2. entryOf'[n] = f
    BY <1>2
  <2>3. Logs!Key(f) # Nil => Logs!IsRecent(Logs!Key(entryOf[n]))'
    BY <1>4, <2>2 DEF Logs!IsRecent, Logs!Key
  <2> QED BY <1>3, <2>1, <2>2, <2>3 DEF Known
<1>7. ASSUME NEW m \in Logs!Stored', NEW o \in Logs!Stored', m # o, entryOf'[m] = entryOf'[o]
      PROVE  KindOf[entryOf'[m]] = "bare" \/ entryOf'[m] \in forgotten'
  <2>1. CASE m \in Logs!Stored /\ o \in Logs!Stored
    BY <1>2, <1>4, <1>7, <2>1 DEF Logs!OnePerFiring
  <2>2. CASE m = n
    <3>1. o \in Logs!Stored /\ entryOf[o] = f /\ entryOf'[m] = f
      BY <1>2, <1>7, <2>2
    <3> QED BY <1>4, <3>1, NewIsNew
  <2>3. CASE o = n
    <3>1. m \in Logs!Stored /\ entryOf[m] = f /\ entryOf'[m] = f
      BY <1>2, <1>7, <2>3
    <3> QED BY <1>4, <3>1, NewIsNew
  <2> QED BY <1>2, <2>1, <2>2, <2>3
<1> QED BY <1>2, <1>5, <1>6, <1>7 DEF AllKnown, Logs!OnePerFiring

(* The other steps only forget, and say so.                                *)
LEMMA LessKnown ==
  ASSUME AllKnown, Logs!OnePerFiring, UNCHANGED <<entryOf, recentDeliveries>>,
         forgotten \subseteq forgotten', Logs!Dropped(logs') \subseteq forgotten'
  PROVE  AllKnown' /\ Logs!OnePerFiring'
<1>1. Logs!Stored' = Logs!Stored /\ \A k : Logs!IsRecent(k)' <=> Logs!IsRecent(k)
  BY DEF Logs!Stored, Logs!IsRecent
<1>2. ASSUME NEW n \in Logs!Stored PROVE Known(n)'
  <2>1. n \in Logs!Lines(logs) \ Logs!Lines(logs') => entryOf[n] \in forgotten'
    BY DEF Logs!Dropped
  <2>2. Known(n)
    BY DEF AllKnown
  <2>3. Logs!IsRecent(Logs!Key(entryOf[n])) => Logs!IsRecent(Logs!Key(entryOf[n]))'
    BY DEF Logs!IsRecent, Logs!Key
  <2> QED BY <2>1, <2>2, <2>3 DEF Known
<1> QED BY <1>1, <1>2 DEF AllKnown, Logs!OnePerFiring

LEMMA WindowKnown ==
  ASSUME LogsTypes, AllKnown, Logs!OnePerFiring, Logs!WindowPasses
  PROVE  AllKnown' /\ Logs!OnePerFiring'
<1>1. PICK i \in DOMAIN recentDeliveries :
        /\ recentDeliveries' = [recentDeliveries EXCEPT ![i].old = TRUE]
        /\ forgotten' = forgotten \cup {f \in Firing : Logs!Key(f) = recentDeliveries[i].key}
        /\ UNCHANGED <<entryOf, logs>>
  BY DEF Logs!WindowPasses
<1>2. \A j \in DOMAIN recentDeliveries : j # i => recentDeliveries'[j] = recentDeliveries[j]
  BY <1>1
<1>3. DOMAIN recentDeliveries' = DOMAIN recentDeliveries
  BY <1>1
<1>4. ASSUME NEW f \in Firing, Logs!IsRecent(Logs!Key(f)) PROVE Logs!IsRecent(Logs!Key(f))' \/ f \in forgotten'
  <2>1. PICK j \in DOMAIN recentDeliveries :
          recentDeliveries[j].key = Logs!Key(f) /\ ~recentDeliveries[j].old
    BY <1>4 DEF Logs!IsRecent
  <2>2. CASE j = i
    BY <1>1, <2>1, <2>2
  <2>3. CASE j # i
    <3>1. recentDeliveries'[j] = recentDeliveries[j]
      BY <1>2, <2>3
    <3> QED BY <1>3, <2>1, <3>1 DEF Logs!IsRecent
  <2> QED BY <2>2, <2>3
<1>5. ASSUME NEW n \in Logs!Stored PROVE Known(n)'
  <2>1. Known(n) /\ entryOf[n] \in Firing
    BY DEF AllKnown, LogsTypes, Logs!Stored
  <2>2. Logs!IsRecent(Logs!Key(entryOf[n])) => Logs!IsRecent(Logs!Key(entryOf[n]))' \/ entryOf[n] \in forgotten'
    <3>1. PICK f \in Firing : f = entryOf[n] /\ f = entryOf'[n]
      BY <1>1, <2>1
    <3>2. Logs!IsRecent(Logs!Key(f)) => Logs!IsRecent(Logs!Key(f))' \/ f \in forgotten'
      BY <1>4
    <3> QED BY <3>1, <3>2 DEF Logs!IsRecent, Logs!Key
  <2> QED BY <1>1, <2>1, <2>2 DEF Known
<1>6. Logs!Stored' = Logs!Stored /\ forgotten \subseteq forgotten'
  BY <1>1 DEF Logs!Stored
<1> QED BY <1>1, <1>5, <1>6 DEF AllKnown, Logs!OnePerFiring

LEMMA RestartKnown ==
  ASSUME LogsTypes, Logs!Restarts
  PROVE  AllKnown' /\ Logs!OnePerFiring'
<1>1. forgotten' = Firing /\ entryOf' = entryOf
  BY DEF Logs!Restarts
<1>2. \A n \in Logs!Stored' : entryOf'[n] \in forgotten'
  BY <1>1 DEF LogsTypes, Logs!Stored
<1> QED BY <1>2 DEF AllKnown, Known, Logs!OnePerFiring

-----------------------------------------------------------------------------
Held == LogsTypes /\ Torn /\ Durable /\ Cleared /\ AllKnown /\ Logs!OnePerFiring

LEMMA HeldInit ==
  ASSUME Logs!Init
  PROVE  Held
<1>1. /\ entryOf = <<>> /\ logs = <<>> /\ recentDeliveries = <<>>
      /\ live = <<>> /\ rotated = <<>> /\ appends = {} /\ sweep = Logs!Idle
      /\ acked = {} /\ discarded = {}
  BY DEF Logs!Init
<1>2. /\ <<>> \in Seq(Firing) /\ <<>> \in File /\ <<>> \in Seq(TableEntry) /\ <<>> \in Seq(File)
      /\ Logs!Lines(<<>>) = {} /\ Len(<<>>) = 0 /\ 0 <= MaxKeys
  BY LimitAssumption DEF File, Logs!Lines
<1>3. Logs!Stored = {}
  BY <1>1, <1>2 DEF Logs!Stored
<1>4. LogsTypes
  BY <1>1, <1>2, IdleIs DEF LogsTypes, Holds
<1>5. Torn /\ Durable /\ Cleared
  BY <1>1, <1>2 DEF Torn, Durable, Cleared
<1>6. AllKnown /\ Logs!OnePerFiring
  BY <1>3 DEF AllKnown, Logs!OnePerFiring
<1> QED BY <1>4, <1>5, <1>6 DEF Held

LEMMA Quiet ==
  ASSUME Held, UNCHANGED <<entryOf, logs, recentDeliveries, live, rotated, appends, sweep,
                           acked, discarded, lingering, exposed, forgotten>>
  PROVE  Held'
<1>1. LogsTypes /\ Torn /\ Durable /\ Cleared /\ AllKnown /\ Logs!OnePerFiring
  BY DEF Held
<1>2. LogsTypes'
  BY <1>1, StepTypes DEF LogsTypes
<1>3. Torn' /\ Durable'
  BY <1>1, SameDurable
<1>4. Cleared'
  BY <1>1, SameCleared
<1>5. Logs!Dropped(logs') \subseteq forgotten'
  BY DEF Logs!Dropped
<1>6. AllKnown' /\ Logs!OnePerFiring'
  BY <1>1, <1>5, LessKnown
<1> QED BY <1>2, <1>3, <1>4, <1>6 DEF Held

LEMMA EventPreserves ==
  ASSUME Held, NEW f \in Firing, Logs!EventArrives(f)
  PROVE  Held'
<1>1. LogsTypes /\ Torn /\ Durable /\ Cleared /\ AllKnown /\ Logs!OnePerFiring
  BY DEF Held
<1>2. LogsTypes' /\ Torn' /\ Durable' /\ Cleared'
  BY <1>1, EventTypes, EventDurable, EventCleared
<1>3. AllKnown' /\ Logs!OnePerFiring'
  BY <1>1, EventKnown
<1> QED BY <1>2, <1>3 DEF Held

(* What the other steps have in common: nothing leaves memory.             *)
LEMMA OtherPreserves ==
  ASSUME Held, LogsTypes', Torn', Durable', Cleared',
         UNCHANGED <<entryOf, recentDeliveries, logs, forgotten>>
  PROVE  Held'
<1>1. Logs!Dropped(logs') \subseteq forgotten'
  BY DEF Logs!Dropped
<1>2. AllKnown' /\ Logs!OnePerFiring'
  BY <1>1, LessKnown DEF Held
<1> QED BY <1>2 DEF Held

LEMMA AppendPreserves ==
  ASSUME Held, Counted, NEW a \in appends,
         Logs!AppendChecks(a) \/ Logs!Lists(a) \/ Logs!Unlinks(a) \/ Logs!Renames(a) \/ Logs!Appends(a)
  PROVE  Held'
<1>1. LogsTypes /\ Torn /\ Durable /\ Cleared /\ AllKnown /\ Logs!OnePerFiring
  BY DEF Held
<1>2. UNCHANGED <<entryOf, recentDeliveries, logs, forgotten>>
  BY DEF Logs!AppendChecks, Logs!Lists, Logs!Unlinks, Logs!Renames, Logs!Appends, Logs!memoryVars, Logs!historyVars
<1>3. CASE Logs!AppendChecks(a)
  <2>1. UNCHANGED <<live, rotated, sweep, acked, discarded, lingering, exposed>>
    BY <1>3 DEF Logs!AppendChecks, Logs!fileVars, Logs!historyVars
  <2>2. \A c \in appends' : \E b \in appends : c.entry = b.entry
    <3>1. PICK step \in {"list", "append"} : appends' = Logs!Moves(a, step)
      BY <1>3 DEF Logs!AppendChecks
    <3> QED BY <1>1, <3>1, MovesTypes
  <2>3. LogsTypes'
    BY <1>1, <1>3, CheckTypes
  <2>4. Torn' /\ Durable'
    BY <1>1, <1>2, <2>1, SameDurable
  <2>5. Cleared'
    BY <1>1, <1>2, <2>1, <2>2, SameCleared
  <2> QED BY <1>2, <2>3, <2>4, <2>5, OtherPreserves
<1>4. CASE Logs!Lists(a)
  <2>1. UNCHANGED <<live, rotated, sweep, acked, discarded, lingering, exposed>>
    BY <1>4 DEF Logs!Lists, Logs!fileVars, Logs!historyVars
  <2>2. \A c \in appends' : \E b \in appends : c.entry = b.entry
    BY <1>1, <1>4, ListIs
  <2>3. LogsTypes'
    BY <1>1, <1>4, ListTypes
  <2>4. Torn' /\ Durable'
    BY <1>1, <1>2, <2>1, SameDurable
  <2>5. Cleared'
    BY <1>1, <1>2, <2>1, <2>2, SameCleared
  <2> QED BY <1>2, <2>3, <2>4, <2>5, OtherPreserves
<1>6. CASE Logs!Unlinks(a)
  <2>1. LogsTypes' /\ Torn' /\ Durable' /\ Cleared'
    BY <1>1, <1>6, UnlinkTypes, UnlinkDurable, UnlinkCleared
  <2> QED BY <1>2, <2>1, OtherPreserves
<1>7. CASE Logs!Renames(a)
  <2>1. LogsTypes' /\ Torn' /\ Durable' /\ Cleared'
    BY <1>1, <1>7, RenameTypes, RenameDurable, RenameCleared
  <2> QED BY <1>2, <2>1, OtherPreserves
<1>5. CASE Logs!Appends(a)
  <2>1. LogsTypes' /\ Torn' /\ Durable' /\ Cleared'
    BY <1>1, <1>5, AppendTypes, AppendDurable, AppendCleared
  <2> QED BY <1>2, <2>1, OtherPreserves
<1> QED BY <1>3, <1>4, <1>5, <1>6, <1>7

LEMMA BeginPreserves ==
  ASSUME Held, Logs!ClearsAll \/ Logs!ClearsSession \/ Logs!Retires
  PROVE  Held'
<1>1. LogsTypes /\ Torn /\ Durable /\ Cleared /\ AllKnown /\ Logs!OnePerFiring
  BY DEF Held
<1>2. PICK drops, upto : \E aged \in BOOLEAN, step \in {"read", "truncate"} :
        /\ Begins(drops, upto) /\ Logs!SweepBegins(drops, upto, aged, step)
        /\ step = "truncate" => upto = Len(entryOf) /\ ~aged
  BY <1>1, BeginsSo
<1>begun. PICK aged \in BOOLEAN, step \in {"read", "truncate"} :
        /\ Begins(drops, upto) /\ Logs!SweepBegins(drops, upto, aged, step)
        /\ step = "truncate" => upto = Len(entryOf) /\ ~aged
  BY <1>2
<1>3. LogsTypes'
  BY <1>1, <1>begun, BeginTypes
<1>4. Torn' /\ Durable'
  BY <1>1, <1>begun, BeginDurable
<1>5. Cleared'
  BY <1>1, <1>begun, BeginCleared
<1>6. /\ UNCHANGED <<entryOf, recentDeliveries>>
      /\ forgotten \subseteq forgotten' /\ Logs!Dropped(logs') \subseteq forgotten'
  BY <1>begun DEF Logs!SweepBegins
<1>7. AllKnown' /\ Logs!OnePerFiring'
  BY <1>1, <1>6, LessKnown
<1> QED BY <1>3, <1>4, <1>5, <1>7 DEF Held

LEMMA SweepPreserves ==
  ASSUME Held, Logs!SweepReads \/ Logs!SweepWrites
  PROVE  Held'
<1>1. LogsTypes /\ Torn /\ Durable /\ Cleared
  BY DEF Held
<1>2. UNCHANGED <<entryOf, recentDeliveries, logs, forgotten>>
  BY DEF Logs!SweepReads, Logs!SweepWrites, Logs!memoryVars, Logs!historyVars
<1>3. LogsTypes' /\ Torn' /\ Durable' /\ Cleared'
  BY <1>1, ReadTypes, ReadDurable, ReadCleared, WriteTypes, WriteDurable, WriteCleared
<1> QED BY <1>2, <1>3, OtherPreserves

(* The other steps keep what the rotations count on.                       *)
LEMMA SameCounted ==
  ASSUME Counted, Len(rotated') = Len(rotated),
         \A c \in appends' : \E b \in appends :
           /\ c.doomed = b.doomed /\ c.near = b.near
           /\ c.step = "rotate" => b.step = "rotate"
  PROVE  Counted'
  BY DEF Counted

LEMMA EventCounted ==
  ASSUME LogsTypes, Counted, NEW f \in Firing, Logs!EventArrives(f)
  PROVE  Counted'
<1>1. PICK t : t = [entry |-> Len(entryOf) + 1, step |-> "check", near |-> FALSE, doomed |-> 0]
  OBVIOUS
<1>2. appends' = appends \cup {t} /\ rotated' = rotated
  BY <1>1 DEF Logs!EventArrives, Logs!fileVars
<1>3. t.doomed = 0 /\ t.step = "check" /\ Len(rotated) \in Nat
  BY <1>1 DEF LogsTypes
<1> QED BY <1>2, <1>3 DEF Counted

LEMMA ListCounted ==
  ASSUME LogsTypes, Counted, NEW a \in appends, Logs!Lists(a)
  PROVE  Counted'
<1>1. PICK t \in Tasks(Logs!Stored) :
        /\ appends' = (appends \ {a}) \cup {t}
        /\ t.entry = a.entry /\ t.near = a.near /\ t.step = "rotate"
        /\ t.doomed <= Len(rotated)
        /\ ~a.near => Len(rotated) - t.doomed <= MaxLogFiles - 2
  BY ListIs
<1>2. rotated' = rotated
  BY DEF Logs!Lists, Logs!fileVars
<1> QED BY <1>1, <1>2 DEF Counted

(* One file fewer, and one fewer to unlink for the rotation that did it.   *)
LEMMA UnlinkCounted ==
  ASSUME LogsTypes, Counted, NEW a \in appends, Logs!Unlinks(a)
  PROVE  Counted'
<1>1. /\ Len(rotated') = Len(rotated) - 1 /\ rotated # <<>>
      /\ \A c \in appends' : \E b \in appends :
           /\ c.entry = b.entry /\ c.near = b.near
           /\ \/ c.doomed = b.doomed - 1 /\ c.step = b.step /\ b.doomed > 0
              \/ c.doomed = 0 /\ b.doomed = 0 /\ c.step = b.step
              \/ c.doomed = 0 /\ c.step = "append"
  BY UnlinkIs
<1>2. Len(rotated) \in Nat /\ Len(rotated) > 0 /\ MaxLogFiles \in Nat
  <2>1. rotated \in Seq(File)
    BY DEF LogsTypes
  <2> QED BY <1>1, <2>1, LimitAssumption
<1>3. ASSUME NEW c \in appends'
      PROVE  /\ c.doomed <= Len(rotated')
             /\ c.step = "rotate" /\ ~c.near => Len(rotated') - c.doomed <= MaxLogFiles - 2
  <2>1. PICK b \in appends :
           /\ c.near = b.near
           /\ \/ c.doomed = b.doomed - 1 /\ c.step = b.step /\ b.doomed > 0
              \/ c.doomed = 0 /\ b.doomed = 0 /\ c.step = b.step
              \/ c.doomed = 0 /\ c.step = "append"
    BY <1>1
  <2>2. /\ b.doomed \in Nat /\ b.doomed <= Len(rotated)
        /\ b.step = "rotate" /\ ~b.near => Len(rotated) - b.doomed <= MaxLogFiles - 2
    BY DEF LogsTypes, Tasks, Counted
  <2> QED BY <1>1, <1>2, <2>1, <2>2
<1> QED BY <1>3 DEF Counted

(* One file more, of which every other rotation under way is told.         *)
LEMMA RenameCounted ==
  ASSUME LogsTypes, Counted, NEW a \in appends, Logs!Renames(a)
  PROVE  Counted'
<1>1. /\ Len(rotated') >= Len(rotated) /\ rotated' \in Seq(File)
      /\ \A c \in appends' : \E b \in appends :
           /\ c.entry = b.entry /\ c.doomed = b.doomed
           /\ c.step \in {b.step, "append"}
           /\ ~c.near => ~b.near
           /\ c.step \in {"list", "rotate"} => c.near \/ rotated' = rotated
  BY RenameIs
<1>2. Len(rotated) \in Nat /\ Len(rotated') \in Nat
  BY <1>1 DEF LogsTypes
<1>3. ASSUME NEW c \in appends'
      PROVE  /\ c.doomed <= Len(rotated')
             /\ c.step = "rotate" /\ ~c.near => Len(rotated') - c.doomed <= MaxLogFiles - 2
  <2>1. PICK b \in appends :
           /\ c.doomed = b.doomed
           /\ c.step \in {b.step, "append"}
           /\ ~c.near => ~b.near
           /\ c.step \in {"list", "rotate"} => c.near \/ rotated' = rotated
    BY <1>1
  <2>2. /\ b.doomed \in Nat /\ b.doomed <= Len(rotated)
        /\ b.step = "rotate" /\ ~b.near => Len(rotated) - b.doomed <= MaxLogFiles - 2
    BY DEF LogsTypes, Tasks, Counted
  <2>3. c.doomed <= Len(rotated')
    BY <1>1, <1>2, <2>1, <2>2
  <2>4. ASSUME c.step = "rotate", ~c.near
        PROVE  Len(rotated') - c.doomed <= MaxLogFiles - 2
    BY <2>1, <2>2, <2>4
  <2> QED BY <2>3, <2>4
<1> QED BY <1>3 DEF Counted

LEMMA ReadCounted ==
  ASSUME LogsTypes, Counted, Logs!SweepReads
  PROVE  Counted' /\ Len(rotated') = Len(rotated)
<1>1. /\ rotated' = IF ~sweep.aged THEN rotated
                    ELSE [i \in DOMAIN rotated |->
                            IF 0 \in Logs!Lines(rotated[i]) THEN rotated[i]
                            ELSE Logs!Filtered(rotated[i])]
      /\ appends' = appends
  BY DEF Logs!SweepReads
<1>2. rotated' \in Seq(File) /\ rotated \in Seq(File)
  BY ReadIs DEF LogsTypes
<1>3. DOMAIN rotated' = DOMAIN rotated
  BY <1>1
<1>4. Len(rotated') = Len(rotated)
  BY <1>2, <1>3
<1> QED BY <1>1, <1>4, SameCounted

LEMMA StepCounted ==
  ASSUME LogsTypes, Counted, [Logs!Next]_(Logs!vars)
  PROVE  Counted'
<1>1. ASSUME appends' = appends, rotated' = rotated PROVE Counted'
  BY <1>1 DEF Counted
<1>2. ASSUME NEW f \in Firing, Logs!RepeatArrives(f) PROVE Counted'
  BY <1>1, <1>2 DEF Logs!RepeatArrives, Logs!fileVars
<1>3. ASSUME NEW a \in appends, Logs!AppendChecks(a) PROVE Counted'
  <2>1. PICK step \in {"list", "append"} : appends' = Logs!Moves(a, step)
    BY <1>3 DEF Logs!AppendChecks
  <2>2. \A c \in appends' : \E b \in appends :
           /\ c.doomed = b.doomed /\ c.near = b.near
           /\ c.step = "rotate" => b.step = "rotate"
    BY <2>1, MovesTypes
  <2>3. rotated' = rotated
    BY <1>3 DEF Logs!AppendChecks, Logs!fileVars
  <2> QED BY <2>2, <2>3, SameCounted
<1>4. ASSUME NEW a \in appends, Logs!Appends(a) PROVE Counted'
  BY <1>4 DEF Logs!Appends, Counted
<1>5. CASE Logs!WindowPasses
  BY <1>1, <1>5 DEF Logs!WindowPasses, Logs!fileVars
<1>6. CASE Logs!ClearsAll \/ Logs!ClearsSession \/ Logs!Retires
  <2>1. appends' = appends /\ rotated' = rotated
    BY <1>6 DEF Logs!ClearsAll, Logs!ClearsSession, Logs!Retires, Logs!SweepBegins, Logs!fileVars
  <2> QED BY <1>1, <2>1
<1>7. CASE Logs!SweepWrites
  BY <1>1, <1>7 DEF Logs!SweepWrites
<1>8. CASE Logs!Restarts
  BY <1>8 DEF Logs!Restarts, Counted
<1>9. CASE UNCHANGED Logs!vars
  BY <1>1, <1>9 DEF Logs!vars, Logs!fileVars
<1> QED
  BY <1>2, <1>3, <1>4, <1>5, <1>6, <1>7, <1>8, <1>9, EventCounted, ListCounted,
     UnlinkCounted, RenameCounted, ReadCounted DEF Logs!Next

(* Every step of the log store keeps what is held.                         *)
LEMMA StepHeld ==
  ASSUME Held, Counted, [Logs!Next]_(Logs!vars)
  PROVE  Held'
<1>1. LogsTypes /\ Torn /\ Durable /\ Cleared /\ AllKnown /\ Logs!OnePerFiring
  BY DEF Held
<1>2. ASSUME NEW f \in Firing, Logs!RepeatArrives(f) PROVE Held'
  BY <1>2, Quiet DEF Logs!RepeatArrives, Logs!fileVars, Logs!historyVars
<1>3. ASSUME NEW f \in Firing, Logs!EventArrives(f) PROVE Held'
  BY <1>3, EventPreserves
<1>4. CASE Logs!WindowPasses
  <2>1. UNCHANGED <<entryOf, logs, live, rotated, appends, sweep, acked, discarded,
                    lingering, exposed>>
    BY <1>4 DEF Logs!WindowPasses, Logs!fileVars
  <2>2. LogsTypes'
    BY <1>1, <1>4, WindowTypes
  <2>3. Torn' /\ Durable'
    BY <1>1, <2>1, SameDurable
  <2>4. Cleared'
    BY <1>1, <2>1, SameCleared
  <2>5. AllKnown' /\ Logs!OnePerFiring'
    BY <1>1, <1>4, WindowKnown
  <2> QED BY <2>2, <2>3, <2>4, <2>5 DEF Held
<1>5. ASSUME NEW a \in appends, Logs!AppendChecks(a) \/ Logs!Lists(a) \/ Logs!Unlinks(a)
                              \/ Logs!Renames(a) \/ Logs!Appends(a) PROVE Held'
  BY <1>5, AppendPreserves
<1>6. CASE Logs!ClearsAll \/ Logs!ClearsSession \/ Logs!Retires
  BY <1>6, BeginPreserves
<1>7. CASE Logs!SweepReads \/ Logs!SweepWrites
  BY <1>7, SweepPreserves
<1>8. CASE Logs!Restarts
  BY <1>1, <1>8, RestartTypes, RestartDurable, RestartCleared, RestartKnown DEF Held
<1>9. CASE UNCHANGED Logs!vars
  BY <1>9, Quiet DEF Logs!vars, Logs!memoryVars, Logs!fileVars, Logs!historyVars
<1> QED
  BY <1>2, <1>3, <1>4, <1>5, <1>6, <1>7, <1>8, <1>9 DEF Logs!Next

(* The invariant is inductive.                                             *)
LogsIInv == Held /\ Counted

LEMMA LogsInitEstablishes ==
  ASSUME Logs!Init
  PROVE  LogsIInv
<1>1. appends = {}
  BY DEF Logs!Init
<1> QED BY <1>1, HeldInit DEF LogsIInv, Counted

LEMMA LogsStepPreserves ==
  ASSUME LogsIInv, [Logs!Next]_(Logs!vars)
  PROVE  LogsIInv'
<1>1. Held /\ Counted /\ LogsTypes
  BY DEF LogsIInv, Held
<1> QED BY <1>1, StepHeld, StepCounted DEF LogsIInv

-----------------------------------------------------------------------------
(* The bounds of the instance and the types: how much is in memory, and    *)
(* that the histories speak of stored entries.                             *)
LogsBounded ==
  /\ Len(entryOf) <= MaxEntries /\ Len(logs) <= MaxInMemory
  /\ delivered \in [Firing -> 0 .. 2]
  /\ lingering \subseteq Logs!Stored /\ exposed \subseteq Logs!Stored

LEMMA LogsBoundedInit == Logs!Init => LogsBounded
<1> SUFFICES ASSUME Logs!Init PROVE LogsBounded
  OBVIOUS
<1>1. /\ Len(entryOf) = 0 /\ Len(logs) = 0
      /\ lingering = {} /\ exposed = {} /\ delivered = [f \in Firing |-> 0]
  BY DEF Logs!Init
<1>2. 0 <= MaxEntries /\ 0 <= MaxInMemory
  BY BoundAssumption, LimitAssumption
<1> QED BY <1>1, <1>2 DEF LogsBounded

(* The entries named by files and by appends are stored.                   *)
LEMMA NamedAreStored ==
  ASSUME LogsTypes
  PROVE  /\ \A f \in Logs!Lines(rotated) : Logs!Lines(f) \ {0} \subseteq Logs!Stored
         /\ Logs!Lines(live) \ {0} \subseteq Logs!Stored
         /\ \A a \in appends : a.entry \in Logs!Stored
<1>1. appends \subseteq Tasks(Logs!Stored)
  BY DEF LogsTypes
<1>2. \A a \in Tasks(Logs!Stored) : a.entry \in Logs!Stored
  BY DEF Tasks
<1> QED BY <1>1, <1>2 DEF LogsTypes, Holds

(* The steps that store no entry and change no count of a delivery.        *)
LEMMA OtherBounded ==
  ASSUME LogsBounded, UNCHANGED <<entryOf, delivered>>,
         Len(logs') <= MaxInMemory, lingering' \subseteq Logs!Stored, exposed' \subseteq Logs!Stored
  PROVE  LogsBounded'
  BY DEF LogsBounded, Logs!Stored

LEMMA EventBounded ==
  ASSUME LogsTypes, LogsBounded, NEW f \in Firing, Logs!EventArrives(f)
  PROVE  LogsBounded'
<1>1. PICK n : n = Len(entryOf) + 1
  OBVIOUS
<1>2. /\ entryOf' = Append(entryOf, f) /\ n <= MaxEntries
      /\ logs' = Logs!Newest(Append(logs, n), MaxInMemory)
      /\ delivered[f] < 2 /\ delivered' = [delivered EXCEPT ![f] = @ + 1]
      /\ UNCHANGED <<lingering, exposed>>
  BY <1>1 DEF Logs!EventArrives, Logs!fileVars
<1>3. Len(entryOf') = n /\ Logs!Stored \subseteq Logs!Stored' /\ n \in Nat
  BY <1>1, <1>2, EntryMore
<1>4. Len(logs') <= MaxInMemory
  <2>1. logs \in Seq(Nat)
    BY DEF LogsTypes, File
  <2>2. Append(logs, n) \in Seq(Nat)
    BY <1>3, <2>1
  <2>3. MaxInMemory \in Int /\ MaxInMemory \in Nat
    BY LimitAssumption
  <2> QED BY <1>2, <2>2, <2>3, NewestIs
<1>5. delivered' \in [Firing -> 0 .. 2]
  <2>1. delivered[f] \in 0 .. 2 /\ delivered[f] + 1 \in 0 .. 2
    BY <1>2 DEF LogsBounded
  <2> QED BY <1>2, <2>1 DEF LogsBounded
<1> QED BY <1>2, <1>3, <1>4, <1>5 DEF LogsBounded

LEMMA RotateBounded ==
  ASSUME LogsTypes, Counted, LogsBounded, NEW a \in appends, Logs!Unlinks(a) \/ Logs!Renames(a)
  PROVE  LogsBounded'
<1>1. UNCHANGED <<entryOf, delivered, logs>>
  BY DEF Logs!Unlinks, Logs!Renames, Logs!memoryVars
<1>2. CASE Logs!Unlinks(a)
  <2>1. /\ lingering' = lingering \cup (Logs!Lines(Head(rotated)) \ {0}) /\ exposed' = exposed
        /\ Head(rotated) \in Logs!Lines(rotated)
    BY <1>2, UnlinkIs
  <2> QED BY <1>1, <2>1, NamedAreStored, OtherBounded DEF LogsBounded
<1>3. CASE Logs!Renames(a)
  <2>1. /\ \A n \in exposed' : n \in exposed \/ n \in Logs!Stored
        /\ lingering' = lingering \cup (IF sweep = Logs!Idle THEN {} ELSE Logs!Stored)
    BY <1>3, RenameIs
  <2> QED BY <1>1, <2>1, OtherBounded DEF LogsBounded
<1> QED BY <1>2, <1>3

LEMMA BeginBounded ==
  ASSUME LogsTypes, LogsBounded, Logs!ClearsAll \/ Logs!ClearsSession \/ Logs!Retires
  PROVE  LogsBounded'
<1>1. PICK drops, upto : \E aged \in BOOLEAN, step \in {"read", "truncate"} :
        Logs!SweepBegins(drops, upto, aged, step)
  BY BeginsSo
<1>2. PICK aged \in BOOLEAN, step \in {"read", "truncate"} :
        Logs!SweepBegins(drops, upto, aged, step)
  BY <1>1
<1>3. /\ logs' = Logs!Without(logs, drops, upto)
      /\ lingering' = lingering \cup {a.entry : a \in appends}
           \cup (IF aged THEN {} ELSE (UNION {Logs!Lines(f) : f \in Logs!Lines(rotated)}) \ {0})
           \cup (IF 0 \in Logs!Lines(live) THEN Logs!Stored ELSE {})
      /\ exposed' = exposed \cup {a.entry : a \in appends}
      /\ UNCHANGED <<entryOf, delivered>>
  BY <1>2 DEF Logs!SweepBegins
<1>4. Len(logs') <= MaxInMemory
  <2>1. logs \in Seq(Nat)
    BY DEF LogsTypes, File
  <2>2. /\ Logs!Without(logs, drops, upto) \in Seq(Nat)
        /\ Len(Logs!Without(logs, drops, upto)) <= Len(logs)
    BY <2>1, WithoutIs
  <2> QED BY <1>3, <2>1, <2>2, LimitAssumption DEF LogsBounded
<1>5. {a.entry : a \in appends} \subseteq Logs!Stored
  BY NamedAreStored
<1>6. (UNION {Logs!Lines(f) : f \in Logs!Lines(rotated)}) \ {0} \subseteq Logs!Stored
  BY NamedAreStored
<1>7. lingering' \subseteq Logs!Stored /\ exposed' \subseteq Logs!Stored
  BY <1>3, <1>5, <1>6 DEF LogsBounded
<1> QED BY <1>3, <1>4, <1>7, OtherBounded DEF LogsBounded

LEMMA ReadBounded ==
  ASSUME LogsTypes, LogsBounded, Logs!SweepReads
  PROVE  LogsBounded'
<1>1. UNCHANGED <<entryOf, delivered, logs, lingering, exposed>>
  BY DEF Logs!SweepReads, Logs!memoryVars, Logs!historyVars
<1> QED BY <1>1, OtherBounded DEF LogsBounded

LEMMA RestartBounded ==
  ASSUME LogsTypes, LogsBounded, Logs!Restarts
  PROVE  LogsBounded'
<1>1. PICK torn \in BOOLEAN, file \in File :
        /\ logs' = Logs!Loaded(file)
        /\ exposed' = exposed \cup (IF torn THEN Logs!Lines(live) \ {0} ELSE {})
        /\ lingering' = lingering \cup (IF sweep = Logs!Idle THEN {} ELSE Logs!Stored)
        /\ UNCHANGED <<entryOf, delivered, rotated>>
  BY RestartIs
<1>2. Len(logs') <= MaxInMemory
  BY <1>1, LoadedIs
<1>3. exposed' \subseteq Logs!Stored /\ lingering' \subseteq Logs!Stored
  BY <1>1, NamedAreStored DEF LogsBounded
<1> QED BY <1>1, <1>2, <1>3, OtherBounded DEF LogsBounded

LEMMA LogsBoundedStep == LogsIInv /\ LogsBounded /\ [Logs!Next]_(Logs!vars) => LogsBounded'
<1> SUFFICES ASSUME LogsIInv, LogsBounded, [Logs!Next]_(Logs!vars) PROVE LogsBounded'
  OBVIOUS
<1>1. LogsTypes /\ Counted
  BY DEF LogsIInv, Held
<1>2. ASSUME NEW f \in Firing, Logs!RepeatArrives(f) PROVE LogsBounded'
  <2>1. /\ delivered[f] < 2 /\ delivered' = [delivered EXCEPT ![f] = @ + 1]
        /\ UNCHANGED <<entryOf, logs, rotated, lingering, exposed>>
    BY <1>2 DEF Logs!RepeatArrives, Logs!fileVars, Logs!historyVars
  <2>2. delivered[f] \in 0 .. 2 /\ delivered[f] + 1 \in 0 .. 2
    BY <2>1 DEF LogsBounded
  <2>3. delivered' \in [Firing -> 0 .. 2]
    BY <2>1, <2>2 DEF LogsBounded
  <2> QED BY <2>1, <2>3 DEF LogsBounded, Logs!Stored
<1>3. CASE Logs!WindowPasses
  BY <1>3, OtherBounded DEF Logs!WindowPasses, Logs!fileVars, LogsBounded
<1>4. ASSUME NEW a \in appends, Logs!AppendChecks(a) PROVE LogsBounded'
  BY <1>4, OtherBounded DEF Logs!AppendChecks, Logs!memoryVars, Logs!fileVars, Logs!historyVars, LogsBounded
<1>8. ASSUME NEW a \in appends, Logs!Lists(a) PROVE LogsBounded'
  BY <1>8, OtherBounded DEF Logs!Lists, Logs!memoryVars, Logs!historyVars, LogsBounded
<1>5. ASSUME NEW a \in appends, Logs!Appends(a) PROVE LogsBounded'
  <2>1. a.entry \in Logs!Stored
    BY <1>1, NamedAreStored
  <2>2. UNCHANGED <<entryOf, delivered, logs, rotated, lingering>>
        /\ exposed' \subseteq exposed \cup {a.entry}
    BY <1>5 DEF Logs!Appends, Logs!memoryVars
  <2> QED BY <2>1, <2>2, OtherBounded DEF LogsBounded
<1>6. CASE Logs!SweepWrites
  BY <1>6, OtherBounded DEF Logs!SweepWrites, Logs!memoryVars, Logs!historyVars, LogsBounded
<1>7. CASE UNCHANGED Logs!vars
  BY <1>7, OtherBounded DEF Logs!vars, Logs!memoryVars, Logs!fileVars, Logs!historyVars, LogsBounded
<1> QED
  BY <1>1, <1>2, <1>3, <1>4, <1>5, <1>6, <1>7, <1>8, EventBounded, RotateBounded, BeginBounded,
     ReadBounded, RestartBounded DEF Logs!Next

LEMMA LogsBoundedTypes == LogsIInv /\ LogsBounded => Logs!TypeOK
<1> SUFFICES ASSUME LogsIInv, LogsBounded PROVE Logs!TypeOK
  OBVIOUS
<1>1. LogsTypes /\ Counted
  BY DEF LogsIInv, Held
<1>2. Logs!Stored \subseteq Logs!Entry /\ Len(rotated) \in Nat
  BY <1>1, BoundAssumption DEF LogsTypes, LogsBounded, Logs!Stored, Logs!Entry
<1>3. ASSUME NEW s \in Seq(Nat), NEW S, Logs!Lines(s) \subseteq S PROVE s \in Seq(S)
  <2>1. \A i \in 1 .. Len(s) : s[i] \in S
    BY <1>3, LinesOf
  <2> QED BY <2>1
<1>4. logs \in Seq(Logs!Entry)
  <2>1. logs \in Seq(Nat) /\ Logs!Lines(logs) \subseteq Logs!Entry
    BY <1>1, <1>2 DEF LogsTypes, File
  <2> QED BY <1>3, <2>1
<1>5. \A f : f \in Seq(Nat) /\ Holds(f) => f \in Seq(Logs!Entry \cup {0})
  <2>1. \A f : Holds(f) => Logs!Lines(f) \subseteq Logs!Entry \cup {0}
    BY <1>2 DEF Holds
  <2> QED BY <1>3, <2>1
<1>6. live \in Seq(Logs!Entry \cup {0})
  BY <1>1, <1>5 DEF LogsTypes, File
<1>7. rotated \in Seq(Seq(Logs!Entry \cup {0}))
  <2>1. \A i \in 1 .. Len(rotated) : rotated[i] \in Seq(Logs!Entry \cup {0})
    <3>1. \A i \in 1 .. Len(rotated) : rotated[i] \in File /\ rotated[i] \in Logs!Lines(rotated)
      BY <1>1, LinesOf DEF LogsTypes
    <3> QED BY <1>1, <1>5, <3>1 DEF LogsTypes, File
  <2> QED BY <1>1, <2>1 DEF LogsTypes
<1>8. appends \subseteq [entry : Logs!Entry, step : {"check", "list", "rotate", "append"},
                           near : BOOLEAN, doomed : Nat]
  BY <1>1, <1>2 DEF LogsTypes, Tasks
<1>9. /\ \A i \in DOMAIN recentDeliveries : recentDeliveries[i].old \in BOOLEAN
      /\ Len(recentDeliveries) <= MaxKeys
  <2>1. recentDeliveries \in Seq(TableEntry) /\ Len(recentDeliveries) <= MaxKeys
    BY <1>1 DEF LogsTypes
  <2>2. \A d \in TableEntry : d.old \in BOOLEAN
    BY DEF TableEntry
  <2> QED BY <2>1, <2>2
<1>12. sweep.step \in {"idle", "read", "write", "truncate"}
  BY <1>1 DEF LogsTypes, Sweeping
<1>10. acked \cup discarded \cup lingering \cup exposed \subseteq Logs!Entry
  BY <1>1, <1>2 DEF LogsTypes, LogsBounded
<1>11. \A a \in appends : Logs!RotatesAlone(a) => Len(rotated) < MaxLogFiles - 1
  BY <1>1, <1>2, LimitAssumption DEF Counted, Logs!RotatesAlone
<1> QED
  BY <1>1, <1>4, <1>6, <1>7, <1>8, <1>9, <1>10, <1>11, <1>12 DEF LogsTypes, LogsBounded, Logs!TypeOK

-----------------------------------------------------------------------------
(* The versions: within an era a number is given once, so what the handlers*)
(* at work write under it is its content; handlers of a former era are at  *)
(* work only while nothing is named in this one; and the history file lists*)
(* what is named, or is about to go.                                       *)

Lists(h, v) == \E i \in 1 .. Len(h.versions) : h.versions[i] = v

Steps == {"content", "save", "land", "unlink", "forget", "purge"}

TaskType == [kind : {"add", "delete", "purge"}, number : Versions!Number \cup {0},
             era : Versions!Era, step : Steps, content : Content \cup {NoContent},
             left : Seq(Versions!Number), doc : Versions!History]

VersionsTypes ==
  /\ history \in [Versions!Era -> Versions!History] /\ stored \in Versions!History /\ era \in Versions!Era
  /\ files \in [Versions!Number -> Content \cup {NoContent}]
  /\ names \in [Versions!Number -> Content \cup {NoContent}]
  /\ added \in 0 .. MaxNumber /\ edits \in 0 .. MaxEdits
  /\ restarts \in 0 .. MaxRestarts /\ era <= edits + restarts + 1
  /\ tasks \subseteq TaskType
  /\ \A t \in tasks : t.era <= era

(* The content of a number is written or deleted by a handler of it; what  *)
(* a deleted history left is deleted by one of its era.                    *)
Handlers ==
  \A t \in tasks :
    /\ t.step \in {"content", "unlink"} => t.number \in Versions!Number
    /\ t.step = "content" => t.content \in Content
    /\ t.step \in {"forget", "purge"} => t.era < era

(* A history gives a number once, and none above its counter.              *)
Tidy(h, k) ==
  /\ h.last <= k /\ (h.exists \/ h = Versions!None)
  /\ \A v \in Versions!Version : Lists(h, v) => v.number <= h.last
  /\ \A v, w \in Versions!Version : Lists(h, v) /\ Lists(h, w) /\ v.number = w.number => v = w

AllTidy ==
  /\ \A e \in Versions!Era : Tidy(history[e], added) /\ (e > era => history[e] = Versions!None)
  /\ Tidy(stored, added) /\ \A t \in tasks : Tidy(t.doc, added)

Writes(n) == \E t \in tasks : t.step = "content" /\ t.number = n

Named ==
  /\ \A v \in Versions!Version : Lists(Versions!Current, v) => names[v.number] = v.content
  /\ \A n \in Versions!Number : n > Versions!Current.last => names[n] = NoContent

Unnamed == \A n \in Versions!Number : names[n] = NoContent

(* Handlers of a former era, as long as nothing is named in this one.      *)
Apart == era \notin mixed => Unnamed \/ \A t \in tasks : t.era = era

WritesNamed ==
  era \notin mixed =>
    \A t \in tasks : t.step = "content" /\ t.era = era => names[t.number] = t.content

Gone ==
  \A t \in tasks : t.step = "unlink" /\ t.era = era =>
    /\ t.number <= Versions!Current.last
    /\ \A v \in Versions!Version : Lists(Versions!Current, v) => v.number # t.number

FilesRight ==
  era \notin mixed => \A n \in Versions!Number :
    names[n] # NoContent => Writes(n) \/ files[n] \in {names[n], NoContent}

Reloads ==
  mixed = {} => \A v \in Versions!Version : Lists(stored, v) =>
    /\ Writes(v.number) \/ files[v.number] \in {v.content, NoContent}
    /\ \A t \in tasks : t.step = "content" /\ t.number = v.number => t.content = v.content
    /\ \/ names[v.number] = v.content
       \/ \E t \in tasks : t.step = "forget"

Saves ==
  era \notin mixed => \A t \in tasks : t.era = era /\ t.step = "land" =>
    \A v \in Versions!Version : Lists(t.doc, v) => names[v.number] = v.content

Readable ==
  era \notin mixed /\ reordered = {} => \A v \in Versions!Version :
    Lists(Versions!Current, v) => Writes(v.number) \/ files[v.number] = v.content

WillSave ==
  \E t \in tasks :
    \/ t.era = era /\ t.step \in {"content", "save", "unlink"}
    \/ t.era = era /\ t.step = "land" /\ t.doc = Versions!Current
    \/ t.step = "forget" /\ Versions!Current = Versions!None

Saved == era \notin reordered => stored = Versions!Current \/ WillSave

VersionsIInv ==
  /\ VersionsTypes /\ Handlers /\ AllTidy /\ Named /\ Apart /\ WritesNamed /\ Gone
  /\ FilesRight /\ Reloads /\ Saves /\ Readable /\ Saved

-----------------------------------------------------------------------------
LEMMA NumberFacts ==
  /\ Versions!Number \subseteq Nat /\ 0 \notin Versions!Number
  /\ \A n \in Nat : n > 0 /\ n <= MaxNumber => n \in Versions!Number
  /\ \A n \in Versions!Number : n > 0 /\ n <= MaxNumber
BY BoundAssumption DEF Versions!Number

LEMMA NoneIsTidy ==
  /\ Versions!None \in Versions!History /\ \A v : ~Lists(Versions!None, v)
  /\ added \in Nat => Tidy(Versions!None, added)
BY NumberFacts DEF Versions!None, Versions!History, Lists, Tidy

(* Range and Numbers, as the invariant speaks of them.                     *)
LEMMA Ranges ==
  ASSUME NEW h \in Versions!History
  PROVE  /\ \A v : v \in Versions!Range(h.versions) <=> Lists(h, v)
         /\ \A v : Lists(h, v) => v \in Versions!Version
         /\ \A n : n \in Versions!Numbers(h) <=> \E v \in Versions!Version : Lists(h, v) /\ v.number = n
<1>1. h.versions \in Seq(Versions!Version) /\ DOMAIN h.versions = 1 .. Len(h.versions)
  BY DEF Versions!History
<1>2. \A v : v \in Versions!Range(h.versions) <=> Lists(h, v)
  BY <1>1 DEF Versions!Range, Lists
<1>3. \A v : Lists(h, v) => v \in Versions!Version
  BY <1>1 DEF Lists
<1>4. ASSUME NEW n PROVE n \in Versions!Numbers(h) <=> \E v \in Versions!Version : Lists(h, v) /\ v.number = n
  BY <1>1 DEF Versions!Numbers, Lists
<1> QED BY <1>2, <1>3, <1>4

(* The retained versions after the newest was added: those before, and it. *)
LEMMA TrimmedLists ==
  ASSUME NEW s \in Seq(Versions!Version), NEW v \in Versions!Version
  PROVE  /\ Versions!Trimmed(Append(s, v)) \in Seq(Versions!Version)
         /\ \A i \in 1 .. Len(Versions!Trimmed(Append(s, v))) :
              \/ Versions!Trimmed(Append(s, v))[i] = v
              \/ \E j \in 1 .. Len(s) : s[j] = Versions!Trimmed(Append(s, v))[i]
<1>0. MaxVersions \in Nat /\ MaxVersions > 0
  BY LimitAssumption
<1>1. PICK w : w = Append(s, v)
  OBVIOUS
<1>2. /\ w \in Seq(Versions!Version) /\ Len(w) = Len(s) + 1 /\ Len(s) \in Nat
      /\ \A i \in 1 .. Len(w) : w[i] = v \/ \E j \in 1 .. Len(s) : s[j] = w[i]
  <2>1. \A i \in 1 .. Len(s) + 1 : i \in 1 .. Len(s) \/ i = Len(s) + 1
    OBVIOUS
  <2> QED BY <1>1, <2>1
<1>3. CASE Len(w) <= MaxVersions
  BY <1>0, <1>1, <1>2, <1>3 DEF Versions!Trimmed
<1>4. CASE ~(Len(w) <= MaxVersions)
  <2>0. Len(w) \in Nat /\ Len(w) > MaxVersions
    BY <1>0, <1>2, <1>4
  <2>a. Len(w) - MaxVersions + 1 \in 1 .. Len(w)
    BY <1>0, <2>0
  <2>1. PICK k \in 1 .. Len(w) : k = Len(w) - MaxVersions + 1
    BY <2>a, Zenon
  <2>2. PICK z : z = SubSeq(w, k, Len(w))
    OBVIOUS
  <2>3. /\ z \in Seq(Versions!Version) /\ Len(z) = Len(w) - k + 1
        /\ \A i \in 1 .. Len(w) - k + 1 : z[i] = w[k + i - 1]
    BY <1>2, <2>1, <2>2
  <2>4. \A i \in 1 .. Len(z) : k + i - 1 \in 1 .. Len(w)
    BY <1>2, <2>1, <2>3
  <2>5. Versions!Trimmed(Append(s, v)) = z
    BY <1>1, <1>2, <1>4, <2>1, <2>2, Zenon DEF Versions!Trimmed
  <2> QED BY <1>2, <2>3, <2>4, <2>5
<1> QED BY <1>3, <1>4

(* addVersion, to a history.                                               *)
Added(h, n, v) == [exists |-> TRUE, last |-> n, versions |-> Versions!Trimmed(Append(h.versions, v))]

LEMMA AddedLists ==
  ASSUME NEW h \in Versions!History, NEW n \in Versions!Number, NEW v \in Versions!Version
  PROVE  /\ Added(h, n, v) \in Versions!History /\ Added(h, n, v).last = n
         /\ Added(h, n, v).exists
         /\ \A u : Lists(Added(h, n, v), u) => u = v \/ Lists(h, u)
<1>1. h.versions \in Seq(Versions!Version)
  BY DEF Versions!History
<1>2. PICK z : z = Versions!Trimmed(Append(h.versions, v))
  OBVIOUS
<1>3. /\ z \in Seq(Versions!Version)
      /\ \A i \in 1 .. Len(z) : z[i] = v \/ \E j \in 1 .. Len(h.versions) : h.versions[j] = z[i]
  BY <1>1, <1>2, TrimmedLists
<1>4. Added(h, n, v) = [exists |-> TRUE, last |-> n, versions |-> z]
  BY <1>2 DEF Added
<1> QED BY <1>3, <1>4 DEF Versions!History, Lists

(* The part filters as the log store does.                                 *)
LEMMA FilterIsShared ==
  ASSUME NEW s, NEW S PROVE Versions!Filter(s, S) = Logs!Filter(s, S)
  BY DEF Versions!Filter, Logs!Filter

(* deleteVersion, of a history.                                            *)
LEMMA ShortenedLists ==
  ASSUME NEW h \in Versions!History, NEW n
  PROVE  /\ Versions!Shortened(h, n) \in Versions!History /\ Versions!Shortened(h, n).last = h.last
         /\ Versions!Shortened(h, n).exists = h.exists
         /\ \A v : Lists(Versions!Shortened(h, n), v) <=> Lists(h, v) /\ v.number # n
<1>1. h.versions \in Seq(Versions!Version)
  BY DEF Versions!History
<1>2. PICK S : S = {v \in Versions!Range(h.versions) : v.number # n}
  OBVIOUS
<1>3. \A v : v \in S <=> Lists(h, v) /\ v.number # n
  BY <1>2, Ranges
<1>4. PICK z : z = Versions!Filter(h.versions, S)
  OBVIOUS
<1>5. z \in Seq(Versions!Version) /\ \A v : (\E i \in 1 .. Len(z) : z[i] = v) <=>
                  (v \in S /\ \E i \in 1 .. Len(h.versions) : h.versions[i] = v)
  <2>1. PICK s \in Seq(Versions!Version) : s = h.versions
    BY <1>1
  <2>2. z = Logs!Filter(s, S)
    BY <1>4, <2>1, FilterIsShared, Zenon
  <2>3. /\ Logs!Filter(s, S) \in Seq(Versions!Version)
        /\ \A v : (\E i \in 1 .. Len(Logs!Filter(s, S)) : Logs!Filter(s, S)[i] = v) <=>
                  (v \in S /\ \E i \in 1 .. Len(s) : s[i] = v)
    BY FilterLines
  <2>4. z \in Seq(Versions!Version) /\ \A v : (\E i \in 1 .. Len(z) : z[i] = v) <=>
                  (v \in S /\ \E i \in 1 .. Len(s) : s[i] = v)
    BY <2>2, <2>3, ZenonT(30)
  <2> QED BY <2>1, <2>4, Zenon
<1>6. Versions!Others(h, n) = z
  BY <1>2, <1>4, Zenon DEF Versions!Others
<1>7. Versions!Shortened(h, n) = [h EXCEPT !.versions = z]
  BY <1>6 DEF Versions!Shortened
<1>8. Versions!Shortened(h, n) \in Versions!History /\ Versions!Shortened(h, n).last = h.last
      /\ Versions!Shortened(h, n).exists = h.exists /\ Versions!Shortened(h, n).versions = z
  BY <1>5, <1>7 DEF Versions!History
<1> QED BY <1>3, <1>5, <1>8 DEF Lists

-----------------------------------------------------------------------------
LEMMA VersionsInitEstablishes == Versions!Init => VersionsIInv
<1> SUFFICES ASSUME Versions!Init PROVE VersionsIInv
  OBVIOUS
<1>1. /\ history = [e \in Versions!Era |-> Versions!None] /\ era = 1 /\ stored = Versions!None
      /\ files = [n \in Versions!Number |-> NoContent] /\ tasks = {}
      /\ names = [n \in Versions!Number |-> NoContent]
      /\ added = 0 /\ edits = 0 /\ restarts = 0
  BY DEF Versions!Init
<1>2. 1 \in Versions!Era /\ Versions!Current = Versions!None
  BY <1>1, BoundAssumption DEF Versions!Era, Versions!Current
<1>3. /\ Versions!None \in Versions!History /\ Tidy(Versions!None, added) /\ \A v : ~Lists(Versions!None, v)
  BY <1>1, NoneIsTidy
<1>4. VersionsTypes /\ Handlers
  BY <1>1, <1>2, <1>3, BoundAssumption DEF VersionsTypes, Handlers
<1>5. AllTidy
  BY <1>1, <1>3 DEF AllTidy
<1>6. Named /\ Apart /\ WritesNamed /\ Gone /\ FilesRight /\ Reloads /\ Saves /\ Readable
  BY <1>1, <1>2, <1>3 DEF Named, Apart, WritesNamed, Gone, FilesRight, Reloads,
     Saves, Readable
<1>7. Saved
  BY <1>1, <1>2 DEF Saved
<1> QED BY <1>4, <1>5, <1>6, <1>7 DEF VersionsIInv

(* The content file is written.                                            *)
LEMMA ContentLandsPreserves ==
  ASSUME VersionsIInv, NEW t \in tasks, Versions!ContentLands(t) PROVE VersionsIInv'
<1>1. /\ VersionsTypes /\ Handlers /\ AllTidy /\ Named /\ Apart /\ WritesNamed /\ Gone
      /\ FilesRight /\ Reloads /\ Saves /\ Readable /\ Saved
  BY DEF VersionsIInv
<1>2. /\ t.step = "content" /\ files' = [files EXCEPT ![t.number] = t.content]
      /\ history' = history /\ era' = era /\ names' = names /\ stored' = stored
      /\ added' = added /\ edits' = edits /\ restarts' = restarts
      /\ reordered' = reordered /\ mixed' = mixed
  BY DEF Versions!ContentLands, Versions!memoryVars, Versions!countVars, Versions!historyVars
<1>3. /\ t \in TaskType /\ t.number \in Versions!Number /\ t.content \in Content /\ t.era <= era
  BY <1>1, <1>2 DEF VersionsTypes, Handlers
<1>4. PICK u : u = [t EXCEPT !.step = "save"]
  OBVIOUS
<1>5. /\ u \in TaskType /\ u.number = t.number /\ u.era = t.era /\ u.content = t.content
      /\ u.doc = t.doc /\ u.step = "save"
  BY <1>3, <1>4 DEF TaskType, Steps
<1>6. \A x : x \in tasks' <=> (x \in tasks /\ x # t) \/ x = u
  BY <1>4 DEF Versions!ContentLands, Versions!Becomes
<1>7. Versions!Current' = Versions!Current
  BY <1>2 DEF Versions!Current
<1>8. \A n \in Versions!Number : files'[n] = IF n = t.number THEN t.content ELSE files[n]
  BY <1>1, <1>2 DEF VersionsTypes
<1>9. \A n \in Versions!Number : n # t.number /\ Writes(n) => Writes(n)'
  BY <1>6 DEF Writes
<1>10. VersionsTypes'
  <2>1. files' \in [Versions!Number -> Content \cup {NoContent}]
    BY <1>1, <1>2, <1>3 DEF VersionsTypes
  <2>2. tasks' \subseteq TaskType /\ \A x \in tasks' : x.era <= era
    BY <1>1, <1>3, <1>5, <1>6 DEF VersionsTypes
  <2> QED BY <1>1, <1>2, <2>1, <2>2 DEF VersionsTypes
<1>11. Handlers'
  BY <1>1, <1>2, <1>5, <1>6 DEF Handlers
<1>12. AllTidy'
  BY <1>1, <1>2, <1>5, <1>6 DEF AllTidy, Tidy
<1>13. Named' /\ Apart' /\ WritesNamed' /\ Gone'
  BY <1>1, <1>2, <1>5, <1>6, <1>7 DEF Named, Unnamed, Apart, WritesNamed, Gone
<1>14. FilesRight'
  <2>1. ASSUME era \notin mixed, names[t.number] # NoContent
        PROVE  files'[t.number] = names[t.number]
    BY <1>1, <1>2, <1>3, <1>8, <2>1 DEF Apart, Unnamed, WritesNamed
  <2> QED BY <1>1, <1>2, <1>8, <1>9, <2>1 DEF FilesRight
<1>15. Reloads'
  <2> SUFFICES ASSUME mixed = {}, NEW v \in Versions!Version, Lists(stored, v)
               PROVE  /\ Writes(v.number)' \/ files'[v.number] \in {v.content, NoContent}
                      /\ \A x \in tasks' : x.step = "content" /\ x.number = v.number => x.content = v.content
                      /\ \/ names[v.number] = v.content
                         \/ \E x \in tasks' : x.step = "forget"
    BY <1>2 DEF Reloads
  <2>1. v.number \in Versions!Number
    BY DEF Versions!Version
  <2>2. /\ Writes(v.number) \/ files[v.number] \in {v.content, NoContent}
        /\ \A x \in tasks : x.step = "content" /\ x.number = v.number => x.content = v.content
        /\ \/ names[v.number] = v.content
           \/ \E x \in tasks : x.step = "forget"
    BY <1>1 DEF Reloads
  <2>3. Writes(v.number)' \/ files'[v.number] \in {v.content, NoContent}
    BY <1>2, <1>8, <1>9, <2>1, <2>2
  <2> QED BY <1>2, <1>5, <1>6, <2>2, <2>3
<1>16. Saves'
  BY <1>1, <1>2, <1>5, <1>6 DEF Saves
<1>17. Readable'
  <2> SUFFICES ASSUME era \notin mixed, reordered = {}, NEW v \in Versions!Version, Lists(Versions!Current, v)
               PROVE  Writes(v.number)' \/ files'[v.number] = v.content
    BY <1>2, <1>7 DEF Readable
  <2>1. v.number \in Versions!Number /\ v.content \in Content
    BY DEF Versions!Version
  <2>2. names[v.number] = v.content
    BY <1>1 DEF Named
  <2>3. Writes(v.number) \/ files[v.number] = v.content
    BY <1>1 DEF Readable
  <2>4. v.number = t.number => t.content = v.content
    BY <1>1, <1>2, <2>1, <2>2, NilAssumption DEF Apart, Unnamed, WritesNamed
  <2> QED BY <1>8, <1>9, <2>1, <2>3, <2>4
<1>18. Saved'
  <2>1. WillSave => WillSave'
    BY <1>2, <1>5, <1>6, <1>7 DEF WillSave
  <2> QED BY <1>1, <1>2, <1>7, <2>1 DEF Saved
<1> QED
  BY <1>10, <1>11, <1>12, <1>13, <1>14, <1>15, <1>16, <1>17, <1>18 DEF VersionsIInv

(* The history is written out ...                                          *)
LEMMA SaveBeginsPreserves ==
  ASSUME VersionsIInv, NEW t \in tasks, Versions!SaveBegins(t) PROVE VersionsIInv'
<1>1. /\ VersionsTypes /\ Handlers /\ AllTidy /\ Named /\ Apart /\ WritesNamed /\ Gone
      /\ FilesRight /\ Reloads /\ Saves /\ Readable /\ Saved
  BY DEF VersionsIInv
<1>2. /\ t.step = "save" /\ files' = files
      /\ history' = history /\ era' = era /\ names' = names /\ stored' = stored
      /\ added' = added /\ edits' = edits /\ restarts' = restarts
      /\ reordered' = reordered /\ mixed' = mixed
  BY DEF Versions!SaveBegins, Versions!memoryVars, Versions!diskVars, Versions!countVars, Versions!historyVars
<1>3. t \in TaskType /\ t.era <= era /\ t.era \in Versions!Era /\ history[t.era] \in Versions!History
  BY <1>1 DEF VersionsTypes, TaskType
<1>4. PICK u : u = [t EXCEPT !.step = "land", !.doc = history[t.era]]
  OBVIOUS
<1>5. /\ u \in TaskType /\ u.number = t.number /\ u.era = t.era /\ u.content = t.content
      /\ u.doc = history[t.era] /\ u.step = "land"
  BY <1>3, <1>4 DEF TaskType, Steps
<1>6. \A x : x \in tasks' <=> (x \in tasks /\ x # t) \/ x = u
  BY <1>4 DEF Versions!SaveBegins, Versions!Becomes
<1>7. Versions!Current' = Versions!Current
  BY <1>2 DEF Versions!Current
<1>8. \A n : Writes(n)' <=> Writes(n)
  BY <1>2, <1>5, <1>6 DEF Writes
<1>9. VersionsTypes' /\ Handlers'
  <2>1. tasks' \subseteq TaskType /\ \A x \in tasks' : x.era <= era
    BY <1>1, <1>3, <1>5, <1>6 DEF VersionsTypes
  <2>2. VersionsTypes'
    BY <1>1, <1>2, <2>1 DEF VersionsTypes
  <2>3. Handlers'
    BY <1>1, <1>2, <1>5, <1>6 DEF Handlers
  <2> QED BY <2>2, <2>3
<1>10. AllTidy'
  BY <1>1, <1>2, <1>3, <1>5, <1>6 DEF AllTidy, Tidy
<1>11. Named' /\ Apart' /\ WritesNamed' /\ Gone'
  BY <1>1, <1>2, <1>5, <1>6, <1>7 DEF Named, Unnamed, Apart, WritesNamed, Gone
<1>12. FilesRight' /\ Readable'
  BY <1>1, <1>2, <1>7, <1>8 DEF FilesRight, Readable
<1>13. Reloads'
  BY <1>1, <1>2, <1>5, <1>6, <1>8 DEF Reloads
<1>14. Saves'
  <2>1. t.era = era => \A v \in Versions!Version : Lists(u.doc, v) => names[v.number] = v.content
    BY <1>1, <1>5 DEF Named, Versions!Current
  <2> QED BY <1>1, <1>2, <1>5, <1>6, <2>1 DEF Saves
<1>15. Saved'
  <2>1. WillSave => WillSave'
    BY <1>2, <1>5, <1>6, <1>7 DEF WillSave, Versions!Current
  <2> QED BY <1>1, <1>2, <1>7, <2>1 DEF Saved
<1> QED
  BY <1>9, <1>10, <1>11, <1>12, <1>13, <1>14, <1>15 DEF VersionsIInv

(* ... and lands: what is stored is named, as long as no eras met.         *)
LEMMA SaveLandsPreserves ==
  ASSUME VersionsIInv, NEW t \in tasks, Versions!SaveLands(t) PROVE VersionsIInv'
<1>1. /\ VersionsTypes /\ Handlers /\ AllTidy /\ Named /\ Apart /\ WritesNamed /\ Gone
      /\ FilesRight /\ Reloads /\ Saves /\ Readable /\ Saved
  BY DEF VersionsIInv
<1>2. /\ t.step = "land" /\ files' = files /\ stored' = t.doc
      /\ history' = history /\ era' = era /\ names' = names
      /\ added' = added /\ edits' = edits /\ restarts' = restarts
      /\ (t.era # era \/ t.doc # Versions!Current => era \in reordered')
      /\ (t.era # era => era \in mixed') /\ (t.era = era => mixed' = mixed)
      /\ mixed \subseteq mixed' /\ reordered \subseteq reordered'
  BY DEF Versions!SaveLands, Versions!memoryVars, Versions!countVars, Versions!Current
<1>3. t \in TaskType /\ t.doc \in Versions!History
  BY <1>1 DEF VersionsTypes, TaskType
<1>4. \A x : x \in tasks' <=> x \in tasks /\ x # t
  BY DEF Versions!SaveLands
<1>5. Versions!Current' = Versions!Current
  BY <1>2 DEF Versions!Current
<1>6. \A n : Writes(n)' <=> Writes(n)
  BY <1>2, <1>4 DEF Writes
<1>7. era \notin mixed' => era \notin mixed /\ t.era = era
  BY <1>2
<1>8. VersionsTypes' /\ Handlers'
  <2>1. tasks' \subseteq TaskType /\ \A x \in tasks' : x.era <= era
    BY <1>1, <1>4 DEF VersionsTypes
  <2>2. VersionsTypes'
    BY <1>1, <1>2, <1>3, <2>1 DEF VersionsTypes
  <2>3. Handlers'
    BY <1>1, <1>2, <1>4 DEF Handlers
  <2> QED BY <2>2, <2>3
<1>9. AllTidy'
  BY <1>1, <1>2, <1>4 DEF AllTidy, Tidy
<1>10. Named' /\ Apart' /\ WritesNamed' /\ Gone'
  BY <1>1, <1>2, <1>4, <1>5, <1>7 DEF Named, Unnamed, Apart, WritesNamed, Gone
<1>11. FilesRight' /\ Readable'
  BY <1>1, <1>2, <1>5, <1>6, <1>7 DEF FilesRight, Readable
<1>12. Saves'
  BY <1>1, <1>2, <1>4, <1>7 DEF Saves
<1>13. Reloads'
  <2> SUFFICES ASSUME mixed' = {}, NEW v \in Versions!Version, Lists(t.doc, v)
               PROVE  /\ Writes(v.number) \/ files[v.number] \in {v.content, NoContent}
                      /\ \A x \in tasks : x.step = "content" /\ x.number = v.number => x.content = v.content
                      /\ names[v.number] = v.content
    BY <1>2, <1>4, <1>6 DEF Reloads
  <2>1. era \notin mixed /\ t.era = era
    BY <1>7
  <2>2. v.number \in Versions!Number /\ v.content \in Content
    BY DEF Versions!Version
  <2>3. names[v.number] = v.content
    BY <1>1, <1>2, <2>1 DEF Saves
  <2>4. ~Unnamed
    BY <2>2, <2>3, NilAssumption DEF Unnamed
  <2>5. \A x \in tasks : x.era = era
    BY <1>1, <2>1, <2>4 DEF Apart
  <2>6. \A x \in tasks : x.step = "content" /\ x.number = v.number => x.content = v.content
    BY <1>1, <2>1, <2>3, <2>5 DEF WritesNamed
  <2>7. Writes(v.number) \/ files[v.number] \in {v.content, NoContent}
    BY <1>1, <2>1, <2>2, <2>3, NilAssumption DEF FilesRight
  <2> QED BY <2>3, <2>6, <2>7
<1>14. Saved'
  BY <1>2, <1>5 DEF Saved
<1> QED
  BY <1>8, <1>9, <1>10, <1>11, <1>12, <1>13, <1>14 DEF VersionsIInv

(* A content file goes: not one that is listed.                            *)
LEMMA ContentGoesPreserves ==
  ASSUME VersionsIInv, NEW t \in tasks, Versions!ContentGoes(t) PROVE VersionsIInv'
<1>1. /\ VersionsTypes /\ Handlers /\ AllTidy /\ Named /\ Apart /\ WritesNamed /\ Gone
      /\ FilesRight /\ Reloads /\ Saves /\ Readable /\ Saved
  BY DEF VersionsIInv
<1>2. /\ t.step = "unlink" /\ files' = [files EXCEPT ![t.number] = NoContent]
      /\ history' = history /\ era' = era /\ names' = names /\ stored' = stored
      /\ added' = added /\ edits' = edits /\ restarts' = restarts
      /\ reordered' = reordered /\ mixed' = mixed
  BY DEF Versions!ContentGoes, Versions!memoryVars, Versions!countVars, Versions!historyVars
<1>3. /\ t \in TaskType /\ t.number \in Versions!Number /\ t.era <= era
  BY <1>1, <1>2 DEF VersionsTypes, Handlers
<1>4. PICK u : u = [t EXCEPT !.step = "save"]
  OBVIOUS
<1>5. /\ u \in TaskType /\ u.number = t.number /\ u.era = t.era /\ u.content = t.content
      /\ u.doc = t.doc /\ u.step = "save"
  BY <1>3, <1>4 DEF TaskType, Steps
<1>6. \A x : x \in tasks' <=> (x \in tasks /\ x # t) \/ x = u
  BY <1>4 DEF Versions!ContentGoes, Versions!Becomes
<1>7. Versions!Current' = Versions!Current
  BY <1>2 DEF Versions!Current
<1>8. \A n \in Versions!Number : files'[n] = IF n = t.number THEN NoContent ELSE files[n]
  BY <1>1, <1>2 DEF VersionsTypes
<1>9. \A n : Writes(n)' <=> Writes(n)
  BY <1>2, <1>5, <1>6 DEF Writes
<1>10. VersionsTypes'
  <2>1. files' \in [Versions!Number -> Content \cup {NoContent}]
    BY <1>1, <1>2, <1>3 DEF VersionsTypes
  <2>2. tasks' \subseteq TaskType /\ \A x \in tasks' : x.era <= era
    BY <1>1, <1>3, <1>5, <1>6 DEF VersionsTypes
  <2> QED BY <1>1, <1>2, <2>1, <2>2 DEF VersionsTypes
<1>11. Handlers'
  BY <1>1, <1>2, <1>5, <1>6 DEF Handlers
<1>12. AllTidy'
  BY <1>1, <1>2, <1>5, <1>6 DEF AllTidy, Tidy
<1>13. Named' /\ Apart' /\ WritesNamed' /\ Gone'
  BY <1>1, <1>2, <1>5, <1>6, <1>7 DEF Named, Unnamed, Apart, WritesNamed, Gone
<1>14. FilesRight'
  BY <1>1, <1>2, <1>8, <1>9 DEF FilesRight
<1>15. Reloads'
  <2>1. \A v \in Versions!Version : v.number \in Versions!Number
    BY DEF Versions!Version
  <2> QED BY <1>1, <1>2, <1>5, <1>6, <1>8, <1>9, <2>1 DEF Reloads
<1>16. Saves'
  BY <1>1, <1>2, <1>5, <1>6 DEF Saves
<1>17. Readable'
  <2> SUFFICES ASSUME era \notin mixed, reordered = {}, NEW v \in Versions!Version, Lists(Versions!Current, v)
               PROVE  Writes(v.number)' \/ files'[v.number] = v.content
    BY <1>2, <1>7 DEF Readable
  <2>1. v.number \in Versions!Number /\ v.content \in Content
    BY DEF Versions!Version
  <2>2. ~Unnamed
    BY <1>1, <2>1, NilAssumption DEF Named, Unnamed
  <2>3. t.era = era
    BY <1>1, <2>2 DEF Apart
  <2>4. v.number # t.number
    BY <1>1, <1>2, <2>3 DEF Gone
  <2> QED BY <1>1, <1>8, <1>9, <2>1, <2>4 DEF Readable
<1>18. Saved'
  <2>1. WillSave => WillSave'
    BY <1>2, <1>5, <1>6, <1>7 DEF WillSave
  <2> QED BY <1>1, <1>2, <1>7, <2>1 DEF Saved
<1> QED
  BY <1>10, <1>11, <1>12, <1>13, <1>14, <1>15, <1>16, <1>17, <1>18 DEF VersionsIInv

(* The history file goes: memory has none, or the next save is overtaken.  *)
LEMMA HistoryFileGoesPreserves ==
  ASSUME VersionsIInv, NEW t \in tasks, Versions!HistoryFileGoes(t) PROVE VersionsIInv'
<1>1. /\ VersionsTypes /\ Handlers /\ AllTidy /\ Named /\ Apart /\ WritesNamed /\ Gone
      /\ FilesRight /\ Reloads /\ Saves /\ Readable /\ Saved
  BY DEF VersionsIInv
<1>2. /\ t.step = "forget" /\ files' = files /\ stored' = Versions!None
      /\ history' = history /\ era' = era /\ names' = names
      /\ added' = added /\ edits' = edits /\ restarts' = restarts
      /\ (Versions!Current.exists => era \in reordered') /\ reordered \subseteq reordered'
      /\ mixed' = mixed
  BY DEF Versions!HistoryFileGoes, Versions!memoryVars, Versions!countVars
<1>3. t \in TaskType /\ t.era < era
  BY <1>1, <1>2 DEF VersionsTypes, Handlers
<1>4. PICK u : u = [t EXCEPT !.step = "purge"]
  OBVIOUS
<1>5. /\ u \in TaskType /\ u.number = t.number /\ u.era = t.era /\ u.content = t.content
      /\ u.doc = t.doc /\ u.step = "purge"
  BY <1>3, <1>4 DEF TaskType, Steps
<1>6. \A x : x \in tasks' <=> (x \in tasks /\ x # t) \/ x = u
  BY <1>4 DEF Versions!HistoryFileGoes, Versions!Becomes
<1>7. Versions!Current' = Versions!Current
  BY <1>2 DEF Versions!Current
<1>8. \A n : Writes(n)' <=> Writes(n)
  BY <1>2, <1>5, <1>6 DEF Writes
<1>9. Versions!None \in Versions!History /\ Tidy(Versions!None, added) /\ \A v : ~Lists(Versions!None, v)
  BY <1>1, NoneIsTidy DEF VersionsTypes
<1>10. VersionsTypes' /\ Handlers'
  <2>1. tasks' \subseteq TaskType /\ \A x \in tasks' : x.era <= era
    BY <1>1, <1>5, <1>6 DEF VersionsTypes
  <2>2. VersionsTypes'
    BY <1>1, <1>2, <1>9, <2>1 DEF VersionsTypes
  <2>3. Handlers'
    BY <1>1, <1>2, <1>3, <1>5, <1>6 DEF Handlers
  <2> QED BY <2>2, <2>3
<1>11. AllTidy'
  BY <1>1, <1>2, <1>5, <1>6, <1>9 DEF AllTidy, Tidy
<1>12. Named' /\ Apart' /\ WritesNamed' /\ Gone'
  BY <1>1, <1>2, <1>5, <1>6, <1>7 DEF Named, Unnamed, Apart, WritesNamed, Gone
<1>13. FilesRight' /\ Readable'
  BY <1>1, <1>2, <1>7, <1>8 DEF FilesRight, Readable
<1>14. Reloads'
  BY <1>2, <1>9 DEF Reloads
<1>15. Saves'
  BY <1>1, <1>2, <1>5, <1>6 DEF Saves
<1>16. Saved'
  <2>1. Tidy(Versions!Current, added)
    BY <1>1 DEF AllTidy, VersionsTypes, Versions!Current
  <2>2. ~Versions!Current.exists => Versions!Current = Versions!None
    BY <2>1 DEF Tidy
  <2> QED BY <1>2, <1>7, <2>2 DEF Saved
<1> QED
  BY <1>10, <1>11, <1>12, <1>13, <1>14, <1>15, <1>16 DEF VersionsIInv

(* The content files of a deleted history go: nothing is listed that the   *)
(* history named.                                                          *)
LEMMA PurgeGoesOnPreserves ==
  ASSUME VersionsIInv, NEW t \in tasks, Versions!PurgeGoesOn(t) PROVE VersionsIInv'
<1>1. /\ VersionsTypes /\ Handlers /\ AllTidy /\ Named /\ Apart /\ WritesNamed /\ Gone
      /\ FilesRight /\ Reloads /\ Saves /\ Readable /\ Saved
  BY DEF VersionsIInv
<1>2. /\ t.step = "purge"
      /\ history' = history /\ era' = era /\ names' = names /\ stored' = stored
      /\ added' = added /\ edits' = edits /\ restarts' = restarts
      /\ reordered' = reordered /\ mixed' = mixed
  BY DEF Versions!PurgeGoesOn, Versions!memoryVars, Versions!countVars, Versions!historyVars
<1>3. /\ t \in TaskType /\ t.left \in Seq(Versions!Number) /\ t.era < era
  BY <1>1, <1>2 DEF VersionsTypes, Handlers, TaskType
<1>4. PICK u : u = IF t.left = <<>> THEN t ELSE [t EXCEPT !.left = Tail(@)]
  OBVIOUS
<1>5. /\ u \in TaskType /\ u.number = t.number /\ u.era = t.era /\ u.content = t.content
      /\ u.doc = t.doc /\ u.step = "purge"
  <2>1. CASE t.left = <<>>
    BY <1>2, <1>3, <1>4, <2>1
  <2>2. CASE t.left # <<>>
    <3>1. Tail(t.left) \in Seq(Versions!Number)
      BY <1>3, <2>2
    <3> QED BY <1>2, <1>3, <1>4, <2>2, <3>1 DEF TaskType
  <2> QED BY <2>1, <2>2
<1>6. /\ \A x \in tasks' : x \in tasks \/ x = u
      /\ \A x \in tasks : x # t => x \in tasks'
  BY <1>4 DEF Versions!PurgeGoesOn, Versions!Becomes
<1>7. Versions!Current' = Versions!Current
  BY <1>2 DEF Versions!Current
<1>8. /\ files' \in [Versions!Number -> Content \cup {NoContent}]
      /\ \A n \in Versions!Number : files'[n] = files[n] \/ files'[n] = NoContent
  <2>0. files \in [Versions!Number -> Content \cup {NoContent}]
    BY <1>1 DEF VersionsTypes
  <2>1. CASE t.left = <<>>
    BY <2>0, <2>1 DEF Versions!PurgeGoesOn
  <2>2. CASE t.left # <<>>
    <3>1. Head(t.left) \in Versions!Number
      BY <1>3, <2>2
    <3>2. files' = [files EXCEPT ![Head(t.left)] = NoContent]
      BY <2>2 DEF Versions!PurgeGoesOn, Versions!Purged
    <3> QED BY <2>0, <3>1, <3>2
  <2> QED BY <2>1, <2>2
<1>9. \A n : Writes(n)' <=> Writes(n)
  BY <1>2, <1>5, <1>6 DEF Writes
<1>10. VersionsTypes' /\ Handlers'
  <2>1. tasks' \subseteq TaskType /\ \A x \in tasks' : x.era <= era
    BY <1>1, <1>5, <1>6 DEF VersionsTypes
  <2>2. VersionsTypes'
    BY <1>1, <1>2, <1>8, <2>1 DEF VersionsTypes
  <2>3. Handlers'
    BY <1>1, <1>2, <1>3, <1>5, <1>6 DEF Handlers
  <2> QED BY <2>2, <2>3
<1>11. AllTidy'
  BY <1>1, <1>2, <1>5, <1>6 DEF AllTidy, Tidy
<1>12. Named' /\ Apart' /\ WritesNamed' /\ Gone'
  BY <1>1, <1>2, <1>5, <1>6, <1>7 DEF Named, Unnamed, Apart, WritesNamed, Gone
<1>13. FilesRight'
  BY <1>1, <1>2, <1>8, <1>9 DEF FilesRight
<1>14. Reloads'
  <2>1. \A v \in Versions!Version : v.number \in Versions!Number
    BY DEF Versions!Version
  <2> QED BY <1>1, <1>2, <1>5, <1>6, <1>8, <1>9, <2>1 DEF Reloads
<1>15. Saves'
  BY <1>1, <1>2, <1>5, <1>6 DEF Saves
<1>16. Readable'
  <2> SUFFICES ASSUME era \notin mixed, NEW v \in Versions!Version, Lists(Versions!Current, v)
               PROVE  FALSE
    BY <1>2, <1>7 DEF Readable
  <2>1. v.number \in Versions!Number /\ v.content \in Content
    BY DEF Versions!Version
  <2>2. ~Unnamed
    BY <1>1, <2>1, NilAssumption DEF Named, Unnamed
  <2>3. t.era = era
    BY <1>1, <2>2 DEF Apart
  <2>4. era \in Nat
    BY <1>1, BoundAssumption DEF VersionsTypes, Versions!Era
  <2> QED BY <1>3, <2>3, <2>4
<1>17. Saved'
  <2>1. WillSave => WillSave'
    BY <1>2, <1>5, <1>6, <1>7 DEF WillSave
  <2> QED BY <1>1, <1>2, <1>7, <2>1 DEF Saved
<1> QED
  BY <1>10, <1>11, <1>12, <1>13, <1>14, <1>15, <1>16, <1>17 DEF VersionsIInv

(* A version is added: its number is new to the era, and a handler writes  *)
(* its content.                                                            *)
LEMMA AddsVersionPreserves ==
  ASSUME VersionsIInv, NEW c \in Content, Versions!AddsVersion(c) PROVE VersionsIInv'
<1>1. /\ VersionsTypes /\ Handlers /\ AllTidy /\ Named /\ Apart /\ WritesNamed /\ Gone
      /\ FilesRight /\ Reloads /\ Saves /\ Readable /\ Saved
  BY DEF VersionsIInv
<1>2. PICK n : n = Versions!NextNumber(Versions!Current)
  OBVIOUS
<1>3. PICK v : v = [number |-> n, content |-> c]
  OBVIOUS
<1>4. Versions!Current \in Versions!History /\ Tidy(Versions!Current, added) /\ Versions!Current.last \in Nat /\ added \in Nat
  <2>1. Versions!Current \in Versions!History /\ Tidy(Versions!Current, added) /\ added \in Nat
    BY <1>1 DEF VersionsTypes, AllTidy, Versions!Current
  <2>2. Versions!Current.last \in Versions!Number \cup {0}
    BY <2>1 DEF Versions!History
  <2> QED BY <2>1, <2>2, BoundAssumption DEF Versions!Number
<1>5. /\ n = Versions!Current.last + 1 /\ n \in Versions!Number /\ n <= added + 1
      /\ added' = added + 1 /\ added < MaxNumber
  <2>1. MaxNumber \in Nat
    BY BoundAssumption
  <2> QED BY <1>2, <1>4, <2>1, NumberFacts DEF Versions!AddsVersion, Versions!NextNumber, Tidy
<1>6. v \in Versions!Version /\ v.number = n /\ v.content = c
  BY <1>3, <1>5 DEF Versions!Version
<1>7. PICK h : h = Added(Versions!Current, n, v)
  OBVIOUS
<1>8. /\ h \in Versions!History /\ h.last = n /\ h.exists
      /\ \A w : Lists(h, w) => w = v \/ Lists(Versions!Current, w)
  BY <1>4, <1>5, <1>6, <1>7, AddedLists
<1>9. /\ history' = [history EXCEPT ![era] = h]
      /\ era' = era /\ stored' = stored /\ files' = files
      /\ edits' = edits /\ restarts' = restarts /\ reordered' = reordered
  BY <1>2, <1>3, <1>7 DEF Versions!AddsVersion, Added, Versions!diskVars
<1>10. Versions!Current' = h /\ history' \in [Versions!Era -> Versions!History]
       /\ \A e \in Versions!Era : e # era => history'[e] = history[e]
  BY <1>1, <1>8, <1>9 DEF Versions!Current, VersionsTypes
<1>11. names[n] = NoContent
  BY <1>1, <1>4, <1>5 DEF Named
<1>12. /\ names' \in [Versions!Number -> Content \cup {NoContent}] /\ names'[n] = c
       /\ \A k \in Versions!Number : k # n => names'[k] = names[k]
  <2>1. names' = [names EXCEPT ![n] = c]
    BY <1>2, <1>11 DEF Versions!AddsVersion
  <2> QED BY <1>1, <1>5, <2>1 DEF VersionsTypes
<1>13. PICK u : u = [Versions!Task("add", n, "content", <<>>) EXCEPT !.content = c]
  OBVIOUS
<1>14. /\ u \in TaskType /\ u.number = n /\ u.era = era /\ u.content = c
       /\ u.step = "content" /\ u.doc = Versions!None
  <2>1. /\ u = [kind |-> "add", number |-> n, era |-> era, step |-> "content",
                content |-> c, left |-> <<>>, doc |-> Versions!None]
        /\ era \in Versions!Era /\ <<>> \in Seq(Versions!Number) /\ Versions!None \in Versions!History
    BY <1>1, <1>13, NoneIsTidy DEF Versions!Task, VersionsTypes
  <2> QED BY <1>5, <2>1 DEF TaskType, Steps
<1>15. \A x : x \in tasks' <=> x \in tasks \/ x = u
  BY <1>2, <1>13 DEF Versions!AddsVersion
<1>16. era \notin mixed' => mixed' = mixed /\ era \notin mixed /\ \A x \in tasks : x.era = era
  BY DEF Versions!AddsVersion
<1>17. mixed' = {} => mixed = {} /\ era \notin mixed /\ \A x \in tasks : x.era = era
  BY DEF Versions!AddsVersion
<1>18. /\ \A k \in Versions!Number : Writes(k)' <=> Writes(k) \/ k = n
  BY <1>14, <1>15 DEF Writes
<1>19. \A w \in Versions!Version : w.number \in Versions!Number /\ w.content \in Content
  BY DEF Versions!Version
<1>20. VersionsTypes' /\ Handlers'
  <2>1. tasks' \subseteq TaskType /\ \A x \in tasks' : x.era <= era
    BY <1>1, <1>14, <1>15 DEF VersionsTypes, Versions!Era
  <2>2. added' \in 0 .. MaxNumber
    BY <1>4, <1>5, BoundAssumption
  <2>3. VersionsTypes'
    BY <1>1, <1>9, <1>10, <1>12, <2>1, <2>2 DEF VersionsTypes
  <2>4. Handlers'
    BY <1>1, <1>5, <1>9, <1>14, <1>15 DEF Handlers
  <2> QED BY <2>3, <2>4
<1>21. AllTidy'
  <2>1. ASSUME NEW g \in Versions!History, Tidy(g, added) PROVE Tidy(g, added')
    <3>1. g.last \in Nat
      <4>1. g.last \in Versions!Number \cup {0}
        BY DEF Versions!History
      <4> QED BY <4>1, BoundAssumption DEF Versions!Number
    <3> QED BY <1>4, <1>5, <2>1, <3>1 DEF Tidy
  <2>2. Tidy(h, added')
    <3>1. h.last <= added'
      BY <1>5, <1>8
    <3>2. \A w \in Versions!Version : Lists(h, w) => w = v \/ w.number <= Versions!Current.last
      BY <1>4, <1>8 DEF Tidy
    <3>3. \A w \in Versions!Version : Lists(h, w) => w.number <= h.last
      BY <1>4, <1>5, <1>6, <1>8, <1>19, <3>2, BoundAssumption DEF Versions!Number
    <3>4. \A w, x \in Versions!Version : Lists(h, w) /\ Lists(h, x) /\ w.number = x.number => w = x
      <4> SUFFICES ASSUME NEW w \in Versions!Version, NEW x \in Versions!Version, Lists(h, w), Lists(h, x),
                          w.number = x.number
                   PROVE  w = x
        OBVIOUS
      <4>1. CASE w = v /\ x # v
        BY <1>4, <1>5, <1>6, <3>2, <4>1
      <4>2. CASE x = v /\ w # v
        BY <1>4, <1>5, <1>6, <3>2, <4>2
      <4>3. CASE w # v /\ x # v
        BY <1>4, <1>8, <4>3 DEF Tidy
      <4> QED BY <4>1, <4>2, <4>3
    <3> QED BY <1>8, <3>1, <3>3, <3>4 DEF Tidy
  <2>3. \A e \in Versions!Era : Tidy(history'[e], added') /\ (e > era => history'[e] = Versions!None)
    <3> SUFFICES ASSUME NEW e \in Versions!Era
                 PROVE  Tidy(history'[e], added') /\ (e > era => history'[e] = Versions!None)
      OBVIOUS
    <3>1. CASE e = era
      BY <1>9, <1>10, <2>2, <3>1 DEF Versions!Current, Versions!Era
    <3>2. CASE e # era
      <4>1. history[e] \in Versions!History /\ Tidy(history[e], added)
        BY <1>1 DEF VersionsTypes, AllTidy
      <4>2. PICK g \in Versions!History : g = history[e] /\ Tidy(g, added)
        BY <4>1
      <4>3. history'[e] = g
        BY <1>10, <3>2, <4>2
      <4>4. Tidy(g, added')
        BY <2>1, <4>2
      <4>5. e > era => g = Versions!None
        BY <1>1, <4>2 DEF AllTidy
      <4> QED BY <4>3, <4>4, <4>5
    <3> QED BY <3>1, <3>2
  <2>4. Tidy(stored, added)'
    <3>1. PICK g \in Versions!History : g = stored /\ Tidy(g, added)
      BY <1>1 DEF VersionsTypes, AllTidy
    <3>2. Tidy(g, added')
      BY <2>1, <3>1
    <3> QED BY <1>9, <3>1, <3>2 DEF Tidy
  <2>5. \A x \in tasks' : Tidy(x.doc, added)'
    <3> SUFFICES ASSUME NEW x \in tasks' PROVE Tidy(x.doc, added)'
      OBVIOUS
    <3>1. CASE x = u
      BY <1>14, <2>1, <1>4, NoneIsTidy, <3>1
    <3>2. CASE x \in tasks
      <4>1. x.doc \in Versions!History /\ Tidy(x.doc, added)
        BY <1>1, <3>2 DEF VersionsTypes, AllTidy, TaskType
      <4> QED BY <2>1, <4>1
    <3> QED BY <1>15, <3>1, <3>2
  <2> QED BY <1>9, <2>3, <2>4, <2>5 DEF AllTidy
<1>22. Named'
  <2>1. \A w \in Versions!Version : Lists(h, w) => names'[w.number] = w.content
    <3> SUFFICES ASSUME NEW w \in Versions!Version, Lists(h, w) PROVE names'[w.number] = w.content
      OBVIOUS
    <3>1. CASE w = v
      BY <1>6, <1>12, <3>1
    <3>2. CASE Lists(Versions!Current, w)
      <4>1. w.number # n
        BY <1>4, <1>5, <1>19, <3>2, NumberFacts DEF Tidy
      <4> QED BY <1>1, <1>12, <1>19, <3>2, <4>1 DEF Named
    <3> QED BY <1>8, <3>1, <3>2
  <2>2. \A k \in Versions!Number : k > n => names'[k] = NoContent
    BY <1>1, <1>4, <1>5, <1>12, NumberFacts DEF Named
  <2> QED BY <1>8, <1>10, <2>1, <2>2 DEF Named
<1>23. Apart' /\ WritesNamed'
  <2>1. Apart'
    BY <1>9, <1>14, <1>15, <1>16 DEF Apart
  <2>2. ASSUME era \notin mixed', NEW x \in tasks', x.step = "content", x.era = era
        PROVE  names'[x.number] = x.content
    <3>1. CASE x = u
      BY <1>12, <1>14, <3>1
    <3>2. CASE x \in tasks
      <4>1. x.number \in Versions!Number /\ x.content \in Content
        BY <1>1, <2>2, <3>2 DEF Handlers
      <4>2. names[x.number] = x.content
        BY <1>1, <1>16, <2>2, <3>2 DEF WritesNamed
      <4> QED BY <1>11, <1>12, <4>1, <4>2, NilAssumption
    <3> QED BY <1>15, <2>2, <3>1, <3>2
  <2> QED BY <1>9, <2>1, <2>2 DEF WritesNamed
<1>24. Gone'
  <2> SUFFICES ASSUME NEW x \in tasks', x.step = "unlink", x.era = era
               PROVE  /\ x.number <= h.last
                      /\ \A w \in Versions!Version : Lists(h, w) => w.number # x.number
    BY <1>9, <1>10 DEF Gone
  <2>1. x \in tasks /\ x.number \in Versions!Number
    BY <1>1, <1>14, <1>15 DEF Handlers
  <2>2. x.number <= Versions!Current.last /\ \A w \in Versions!Version : Lists(Versions!Current, w) => w.number # x.number
    BY <1>1, <2>1 DEF Gone
  <2> QED BY <1>4, <1>5, <1>6, <1>8, <2>1, <2>2, BoundAssumption DEF Versions!Number
<1>25. FilesRight'
  BY <1>1, <1>9, <1>12, <1>16, <1>18 DEF FilesRight
<1>26. Reloads'
  <2> SUFFICES ASSUME mixed' = {}, NEW w \in Versions!Version, Lists(stored, w)
               PROVE  /\ Writes(w.number)' \/ files[w.number] \in {w.content, NoContent}
                      /\ \A x \in tasks' : x.step = "content" /\ x.number = w.number => x.content = w.content
                      /\ names'[w.number] = w.content
    BY <1>9 DEF Reloads
  <2>1. \A x \in tasks : x.step # "forget"
    BY <1>1, <1>17 DEF Handlers, VersionsTypes, Versions!Era
  <2>2. names[w.number] = w.content /\ w.number # n
    BY <1>1, <1>11, <1>17, <1>19, <2>1, NilAssumption DEF Reloads
  <2>3. /\ Writes(w.number) \/ files[w.number] \in {w.content, NoContent}
        /\ \A x \in tasks : x.step = "content" /\ x.number = w.number => x.content = w.content
    BY <1>1, <1>17 DEF Reloads
  <2> QED BY <1>12, <1>14, <1>15, <1>18, <1>19, <2>2, <2>3
<1>27. Saves'
  <2> SUFFICES ASSUME era \notin mixed', NEW x \in tasks', x.era = era, x.step = "land",
                      NEW w \in Versions!Version, Lists(x.doc, w)
               PROVE  names'[w.number] = w.content
    BY <1>9 DEF Saves
  <2>1. x \in tasks
    BY <1>14, <1>15
  <2>2. names[w.number] = w.content
    BY <1>1, <1>16, <2>1 DEF Saves
  <2> QED BY <1>11, <1>12, <1>19, <2>2, NilAssumption
<1>28. Readable'
  BY <1>1, <1>6, <1>8, <1>9, <1>10, <1>16, <1>18, <1>19 DEF Readable
<1>29. Saved'
  BY <1>9, <1>14, <1>15 DEF Saved, WillSave
<1> QED
  BY <1>20, <1>21, <1>22, <1>23, <1>24, <1>25, <1>26, <1>27, <1>28, <1>29 DEF VersionsIInv

(* A version is deleted: its number stays below the counter, so no other   *)
(* version of the era will have it when its content file goes.             *)
LEMMA DeletesVersionPreserves ==
  ASSUME VersionsIInv, NEW k \in Versions!Number, Versions!DeletesVersion(k) PROVE VersionsIInv'
<1>1. /\ VersionsTypes /\ Handlers /\ AllTidy /\ Named /\ Apart /\ WritesNamed /\ Gone
      /\ FilesRight /\ Reloads /\ Saves /\ Readable /\ Saved
  BY DEF VersionsIInv
<1>2. Versions!Current \in Versions!History /\ Tidy(Versions!Current, added)
  BY <1>1 DEF VersionsTypes, AllTidy, Versions!Current
<1>3. PICK h : h = Versions!Shortened(Versions!Current, k)
  OBVIOUS
<1>4. /\ h \in Versions!History /\ h.last = Versions!Current.last /\ h.exists = Versions!Current.exists
      /\ \A v : Lists(h, v) <=> Lists(Versions!Current, v) /\ v.number # k
  BY <1>2, <1>3, ShortenedLists
<1>5. /\ history' = [history EXCEPT ![era] = h]
      /\ era' = era /\ stored' = stored /\ files' = files /\ names' = names
      /\ edits' = edits + 1 /\ edits < MaxEdits /\ added' = added
      /\ restarts' = restarts /\ reordered' = reordered /\ mixed' = mixed
  BY <1>3 DEF Versions!DeletesVersion, Versions!diskVars, Versions!historyVars
<1>6. Versions!Current' = h /\ history' \in [Versions!Era -> Versions!History]
       /\ \A e \in Versions!Era : e # era => history'[e] = history[e]
  BY <1>1, <1>4, <1>5 DEF Versions!Current, VersionsTypes
<1>7. PICK v \in Versions!Version : Lists(Versions!Current, v) /\ v.number = k
  BY <1>2, Ranges DEF Versions!DeletesVersion
<1>8. k <= h.last /\ h.exists
  <2>1. Versions!Current.exists
    <3>1. Versions!Current # Versions!None
      BY <1>7, NoneIsTidy
    <3> QED BY <1>2, <3>1 DEF Tidy
  <2> QED BY <1>2, <1>4, <1>7, <2>1 DEF Tidy
<1>9. PICK u : u = Versions!Task("delete", k, "unlink", <<>>)
  OBVIOUS
<1>10. /\ u \in TaskType /\ u.number = k /\ u.era = era
       /\ u.step = "unlink" /\ u.doc = Versions!None
  <2>1. /\ u = [kind |-> "delete", number |-> k, era |-> era, step |-> "unlink",
                content |-> NoContent, left |-> <<>>, doc |-> Versions!None]
        /\ era \in Versions!Era /\ <<>> \in Seq(Versions!Number) /\ Versions!None \in Versions!History
    BY <1>1, <1>9, NoneIsTidy DEF Versions!Task, VersionsTypes
  <2> QED BY <2>1 DEF TaskType, Steps
<1>11. \A x : x \in tasks' <=> x \in tasks \/ x = u
  BY <1>9 DEF Versions!DeletesVersion
<1>12. \A n : Writes(n)' <=> Writes(n)
  BY <1>10, <1>11 DEF Writes
<1>13. VersionsTypes' /\ Handlers'
  <2>1. tasks' \subseteq TaskType /\ \A x \in tasks' : x.era <= era
    BY <1>1, <1>10, <1>11 DEF VersionsTypes, Versions!Era
  <2>2. edits' \in 0 .. MaxEdits /\ era <= edits' + restarts + 1
    BY <1>1, <1>5, BoundAssumption DEF VersionsTypes, Versions!Era
  <2>3. VersionsTypes'
    BY <1>1, <1>5, <1>6, <2>1, <2>2 DEF VersionsTypes
  <2>4. Handlers'
    BY <1>1, <1>5, <1>10, <1>11 DEF Handlers
  <2> QED BY <2>3, <2>4
<1>14. AllTidy'
  <2>1. Tidy(h, added) /\ Tidy(Versions!None, added)
    <3>1. Tidy(h, added)
      BY <1>2, <1>4, <1>8 DEF Tidy
    <3> QED BY <1>1, <3>1, NoneIsTidy DEF VersionsTypes
  <2>2. \A e \in Versions!Era : Tidy(history'[e], added) /\ (e > era => history'[e] = Versions!None)
    BY <1>1, <1>5, <1>6, <2>1 DEF AllTidy, Versions!Current, VersionsTypes, Versions!Era
  <2> QED BY <1>1, <1>5, <1>10, <1>11, <2>1, <2>2 DEF AllTidy
<1>15. Named'
  BY <1>1, <1>4, <1>5, <1>6 DEF Named
<1>16. Apart' /\ WritesNamed'
  BY <1>1, <1>5, <1>10, <1>11 DEF Apart, Unnamed, WritesNamed
<1>17. Gone'
  BY <1>1, <1>4, <1>5, <1>6, <1>8, <1>10, <1>11 DEF Gone
<1>18. FilesRight'
  BY <1>1, <1>5, <1>12 DEF FilesRight
<1>19. Reloads'
  BY <1>1, <1>5, <1>10, <1>11, <1>12 DEF Reloads
<1>20. Saves'
  BY <1>1, <1>5, <1>10, <1>11 DEF Saves
<1>21. Readable'
  BY <1>1, <1>4, <1>5, <1>6, <1>12 DEF Readable
<1>22. Saved'
  BY <1>5, <1>10, <1>11 DEF Saved, WillSave
<1> QED
  BY <1>13, <1>14, <1>15, <1>16, <1>17, <1>18, <1>19, <1>20, <1>21, <1>22 DEF VersionsIInv

(* The history is deleted: the next era has named nothing.                 *)
LEMMA DeletesHistoryPreserves ==
  ASSUME VersionsIInv, Versions!DeletesHistory PROVE VersionsIInv'
<1>1. /\ VersionsTypes /\ Handlers /\ AllTidy /\ Named /\ Apart /\ WritesNamed /\ Gone
      /\ FilesRight /\ Reloads /\ Saves /\ Readable /\ Saved
  BY DEF VersionsIInv
<1>2. Versions!Current \in Versions!History /\ era \in Versions!Era /\ era \in Nat /\ era + 1 \in Versions!Era
  BY <1>1, BoundAssumption DEF VersionsTypes, Versions!Current, Versions!Era, Versions!DeletesHistory
<1>3. /\ history' = history /\ era' = era + 1 /\ stored' = stored /\ files' = files
      /\ names' = [n \in Versions!Number |-> NoContent]
      /\ edits' = edits + 1 /\ edits < MaxEdits /\ added' = added
      /\ restarts' = restarts /\ reordered' = reordered /\ mixed' = mixed
  BY DEF Versions!DeletesHistory, Versions!diskVars, Versions!historyVars
<1>4. Versions!Current' = Versions!None /\ \A v : ~Lists(Versions!None, v)
  BY <1>1, <1>2, <1>3, NoneIsTidy DEF Versions!Current, AllTidy
<1>5. PICK left : left = [i \in DOMAIN Versions!Current.versions |-> Versions!Current.versions[i].number]
  OBVIOUS
<1>6. left \in Seq(Versions!Number)
  <2>1. Versions!Current.versions \in Seq(Versions!Version) /\ DOMAIN Versions!Current.versions = 1 .. Len(Versions!Current.versions)
        /\ Len(Versions!Current.versions) \in Nat
    BY <1>2 DEF Versions!History
  <2>2. PICK s \in Seq(Versions!Version) : s = Versions!Current.versions
    BY <2>1
  <2>3. left = [i \in 1 .. Len(s) |-> s[i].number]
    <3>1. left = [i \in DOMAIN s |-> s[i].number]
      BY <1>5, <2>2, Zenon
    <3>2. DOMAIN s = 1 .. Len(s)
      OBVIOUS
    <3> QED BY <3>1, <3>2, Zenon
  <2>4. ASSUME NEW i \in 1 .. Len(s) PROVE s[i].number \in Versions!Number
    <3>1. s[i] \in Versions!Version
      OBVIOUS
    <3> QED BY <3>1 DEF Versions!Version
  <2>5. Len(s) \in Nat /\ left \in [1 .. Len(s) -> Versions!Number]
    BY <2>3, <2>4
  <2> QED BY <2>5
<1>7. PICK u : u = Versions!Task("purge", 0, "forget", left)
  OBVIOUS
<1>8. u \in TaskType /\ u.era = era /\ u.step = "forget" /\ u.doc = Versions!None
  <2>1. /\ u = [kind |-> "purge", number |-> 0, era |-> era, step |-> "forget",
                content |-> NoContent, left |-> left, doc |-> Versions!None]
        /\ Versions!None \in Versions!History
    BY <1>7, NoneIsTidy DEF Versions!Task
  <2> QED BY <1>2, <1>6, <2>1 DEF TaskType, Steps
<1>9. \A x : x \in tasks' <=> x \in tasks \/ x = u
  BY <1>5, <1>7 DEF Versions!DeletesHistory
<1>10. \A n : Writes(n)' <=> Writes(n)
  BY <1>8, <1>9 DEF Writes
<1>11. \A x \in tasks' : x \in TaskType /\ x.era \in Nat /\ x.era <= era
  BY <1>1, <1>2, <1>8, <1>9, BoundAssumption DEF VersionsTypes, TaskType, Versions!Era
<1>12. VersionsTypes' /\ Handlers'
  <2>1. tasks' \subseteq TaskType /\ \A x \in tasks' : x.era <= era + 1 /\ x.era < era + 1
    BY <1>2, <1>11
  <2>2. edits' \in 0 .. MaxEdits /\ era + 1 <= edits' + restarts + 1
    BY <1>1, <1>2, <1>3, BoundAssumption DEF VersionsTypes
  <2>3. VersionsTypes'
    BY <1>1, <1>2, <1>3, <2>1, <2>2 DEF VersionsTypes
  <2>4. Handlers'
    BY <1>1, <1>3, <1>8, <1>9, <2>1 DEF Handlers
  <2> QED BY <2>3, <2>4
<1>13. AllTidy'
  <2>1. Tidy(Versions!None, added)
    BY <1>1, NoneIsTidy DEF VersionsTypes
  <2>2. \A e \in Versions!Era : Tidy(history[e], added) /\ (e > era + 1 => history[e] = Versions!None)
    BY <1>1, <1>2, BoundAssumption DEF AllTidy, Versions!Era
  <2> QED BY <1>1, <1>3, <1>8, <1>9, <2>1, <2>2 DEF AllTidy
<1>14. Unnamed'
  BY <1>3 DEF Unnamed
<1>15. Named' /\ Apart' /\ FilesRight'
  BY <1>3, <1>4, <1>14 DEF Named, Apart, Unnamed, FilesRight
<1>16. WritesNamed' /\ Gone' /\ Saves'
  <2>1. \A x \in tasks' : x.era # era'
    BY <1>2, <1>3, <1>11
  <2> QED BY <2>1 DEF WritesNamed, Gone, Saves
<1>17. Reloads'
  BY <1>1, <1>3, <1>8, <1>9, <1>10 DEF Reloads
<1>18. Readable'
  BY <1>4 DEF Readable
<1>19. Saved'
  BY <1>4, <1>8, <1>9 DEF Saved, WillSave
<1> QED
  BY <1>12, <1>13, <1>15, <1>16, <1>17, <1>18, <1>19 DEF VersionsIInv

(* A restart: what is stored names what it lists.                          *)
LEMMA RestartsPreserves ==
  ASSUME VersionsIInv, Versions!Restarts PROVE VersionsIInv'
<1>1. /\ VersionsTypes /\ Handlers /\ AllTidy /\ Named /\ Apart /\ WritesNamed /\ Gone
      /\ FilesRight /\ Reloads /\ Saves /\ Readable /\ Saved
  BY DEF VersionsIInv
<1>2. /\ era \in Versions!Era /\ era \in Nat /\ era + 1 \in Versions!Era
      /\ stored \in Versions!History /\ Tidy(stored, added)
  BY <1>1, BoundAssumption DEF VersionsTypes, Versions!Era, AllTidy, Versions!Restarts
<1>3. /\ history' = [history EXCEPT ![era + 1] = stored] /\ era' = era + 1
      /\ stored' = stored /\ files' = files /\ edits' = edits /\ added' = added
      /\ restarts' = restarts + 1 /\ restarts < MaxRestarts /\ tasks' = {}
  BY DEF Versions!Restarts, Versions!diskVars
<1>4. /\ Versions!Current' = stored /\ history' \in [Versions!Era -> Versions!History]
      /\ \A e \in Versions!Era : e # era + 1 => history'[e] = history[e]
  BY <1>1, <1>2, <1>3 DEF VersionsTypes, Versions!Current
<1>5. /\ era' \notin mixed' => mixed = {} /\ ~\E t \in tasks : t.step = "content"
      /\ mixed' = {} => era' \notin mixed'
  BY <1>3 DEF Versions!Restarts
<1>6. reordered' = {} => reordered = {} /\ tasks = {} /\ stored = Versions!Current
  BY DEF Versions!Restarts
<1>7. ASSUME NEW v \in Versions!Version, Lists(stored, v)
      PROVE  v.number \in Versions!Number /\ v.content \in Content /\ names'[v.number] = v.content
  <2>1. v.number \in Versions!Number /\ v.content \in Content
    BY DEF Versions!Version
  <2>2. v.number \in Versions!Numbers(stored) /\ v \in Versions!Range(stored.versions)
    BY <1>2, <1>7, Ranges
  <2>3. \A w : w \in Versions!Range(stored.versions) => w \in Versions!Version /\ Lists(stored, w)
    BY <1>2, Ranges
  <2>4. PICK w : w = CHOOSE x \in Versions!Range(stored.versions) : x.number = v.number
    OBVIOUS
  <2>5. w \in Versions!Range(stored.versions) /\ w.number = v.number
    BY <2>2, <2>4
  <2>6. w = v
    BY <1>2, <1>7, <2>3, <2>5 DEF Tidy
  <2>7. names'[v.number] = w.content
    BY <2>1, <2>2, <2>4 DEF Versions!Restarts
  <2> QED BY <2>1, <2>6, <2>7
<1>8. ASSUME NEW n \in Versions!Number
      PROVE  \/ names'[n] = NoContent
             \/ \E v \in Versions!Version : Lists(stored, v) /\ v.number = n
  <2>1. CASE n \in Versions!Numbers(stored)
    BY <1>2, <2>1, Ranges
  <2>2. CASE n \notin Versions!Numbers(stored)
    BY <2>2 DEF Versions!Restarts
  <2> QED BY <2>1, <2>2
<1>9. VersionsTypes' /\ Handlers'
  <2>1. names' \in [Versions!Number -> Content \cup {NoContent}]
    <3>1. \A n \in Versions!Number : names'[n] \in Content \cup {NoContent}
      BY <1>7, <1>8
    <3>2. \E f : names' = [n \in Versions!Number |-> f[n]]
      <4>1. names' = [n \in Versions!Number |-> names'[n]]
        BY DEF Versions!Restarts
      <4> QED BY <4>1
    <3> QED BY <3>1, <3>2
  <2>2. restarts' \in 0 .. MaxRestarts /\ era + 1 <= edits + restarts' + 1
    BY <1>1, <1>2, <1>3, BoundAssumption DEF VersionsTypes
  <2>3. VersionsTypes'
    BY <1>1, <1>2, <1>3, <1>4, <2>1, <2>2 DEF VersionsTypes
  <2>4. Handlers'
    BY <1>3 DEF Handlers
  <2> QED BY <2>3, <2>4
<1>10. AllTidy'
  <2>1. ASSUME NEW e \in Versions!Era
        PROVE  Tidy(history'[e], added) /\ (e > era + 1 => history'[e] = Versions!None)
    <3>1. CASE e = era + 1
      BY <1>2, <1>3, <1>4, <3>1 DEF Versions!Current
    <3>2. CASE e # era + 1
      <4>1. history'[e] = history[e]
        BY <1>4, <3>2
      <4>2. e > era + 1 => e > era
        BY <1>2, BoundAssumption DEF Versions!Era
      <4> QED BY <1>1, <4>1, <4>2 DEF AllTidy
    <3> QED BY <3>1, <3>2
  <2> QED BY <1>2, <1>3, <2>1 DEF AllTidy
<1>11. Named'
  <2>1. ASSUME NEW n \in Versions!Number, n > stored.last PROVE names'[n] = NoContent
    <3>1. stored.last \in Versions!Number \cup {0}
      BY <1>2 DEF Versions!History
    <3> QED BY <1>2, <1>8, <2>1, <3>1, BoundAssumption DEF Tidy, Versions!Number
  <2> QED BY <1>4, <1>7, <2>1 DEF Named
<1>12. Apart' /\ WritesNamed' /\ Gone' /\ Saves'
  BY <1>3 DEF Apart, WritesNamed, Gone, Saves
<1>13. ASSUME era' \notin mixed', NEW v \in Versions!Version, Lists(stored, v)
       PROVE  files[v.number] \in {v.content, NoContent}
  BY <1>1, <1>5, <1>13 DEF Reloads, Writes
<1>14. FilesRight'
  BY <1>3, <1>7, <1>8, <1>13 DEF FilesRight
<1>15. Reloads'
  BY <1>3, <1>5, <1>7, <1>13 DEF Reloads
<1>16. Readable'
  <2> SUFFICES ASSUME era' \notin mixed', reordered' = {}, NEW v \in Versions!Version, Lists(stored, v)
               PROVE  files[v.number] = v.content
    BY <1>3, <1>4 DEF Readable
  <2> QED BY <1>1, <1>5, <1>6 DEF Readable, Writes
<1>17. Saved'
  BY <1>3, <1>4 DEF Saved
<1> QED
  BY <1>9, <1>10, <1>11, <1>12, <1>14, <1>15, <1>16, <1>17 DEF VersionsIInv

LEMMA VersionsStepPreserves == VersionsIInv /\ [Versions!Next]_(Versions!vars) => VersionsIInv'
<1> SUFFICES ASSUME VersionsIInv, [Versions!Next]_(Versions!vars) PROVE VersionsIInv'
  OBVIOUS
<1>1. CASE \E c \in Content : Versions!AddsVersion(c)
  BY <1>1, AddsVersionPreserves
<1>2. CASE \E k \in Versions!Number : Versions!DeletesVersion(k)
  BY <1>2, DeletesVersionPreserves
<1>3. CASE Versions!DeletesHistory
  BY <1>3, DeletesHistoryPreserves
<1>4. CASE Versions!Restarts
  BY <1>4, RestartsPreserves
<1>5. ASSUME NEW t \in tasks,
             \/ Versions!ContentLands(t) \/ Versions!SaveBegins(t) \/ Versions!SaveLands(t)
             \/ Versions!ContentGoes(t) \/ Versions!HistoryFileGoes(t) \/ Versions!PurgeGoesOn(t)
      PROVE  VersionsIInv'
  BY <1>5, ContentLandsPreserves, SaveBeginsPreserves, SaveLandsPreserves,
     ContentGoesPreserves, HistoryFileGoesPreserves, PurgeGoesOnPreserves
<1>6. CASE UNCHANGED Versions!vars
  <2>1. /\ history' = history /\ era' = era /\ stored' = stored /\ files' = files
        /\ tasks' = tasks /\ names' = names /\ added' = added /\ edits' = edits
        /\ restarts' = restarts /\ reordered' = reordered /\ mixed' = mixed
    BY <1>6 DEF Versions!vars, Versions!memoryVars, Versions!diskVars, Versions!countVars, Versions!historyVars
  <2> QED
    BY <2>1 DEF VersionsIInv, VersionsTypes, Handlers, AllTidy, Named, Apart, Unnamed, WritesNamed,
       Gone, FilesRight, Reloads, Saves, Readable, Saved, WillSave, Writes, Versions!Current
<1> QED BY <1>1, <1>2, <1>3, <1>4, <1>5, <1>6 DEF Versions!Next

(* The content read under a number: memory's, which is the name, or the    *)
(* file's.                                                                 *)
LEMMA ContentIs ==
  ASSUME VersionsIInv, NEW n \in Versions!Number
  PROVE  \/ Versions!VersionContent(n) = names[n]
         \/ /\ Versions!VersionContent(n) = files[n]
            /\ \A v \in Versions!Version : Lists(Versions!Current, v) /\ v.number = n => v.content = EmptyContent
<1>1. Versions!Current \in Versions!History
  BY DEF VersionsIInv, VersionsTypes, Versions!Current
<1> DEFINE held == {v \in Versions!Range(Versions!Current.versions) : v.number = n /\ v.content # EmptyContent}
<1>3. \A v : v \in held <=> Lists(Versions!Current, v) /\ v.number = n /\ v.content # EmptyContent
  BY <1>1, Ranges
<1>4. Versions!VersionContent(n) = IF held # {} THEN (CHOOSE v \in held : TRUE).content ELSE files[n]
  BY DEF Versions!VersionContent
<1> HIDE DEF held
<1>5. CASE held = {}
  BY <1>3, <1>4, <1>5
<1>6. CASE held # {}
  <2>1. PICK v : v = CHOOSE x \in held : TRUE
    OBVIOUS
  <2>2. v \in held
    BY <1>6, <2>1
  <2>3. v \in Versions!Version /\ Lists(Versions!Current, v) /\ v.number = n
    BY <1>1, <1>3, <2>2, Ranges
  <2> QED BY <1>4, <1>6, <2>1, <2>3 DEF VersionsIInv, Named
<1> QED BY <1>5, <1>6

LEMMA NamesOneContent == VersionsIInv => Versions!NumberNamesOneContent
<1> SUFFICES ASSUME VersionsIInv, NEW n \in Versions!Number, names[n] # NoContent, era \notin mixed,
                    ~\E t \in tasks : t.number = n /\ t.step = "content"
             PROVE  Versions!VersionContent(n) \in {names[n], NoContent}
  BY DEF Versions!NumberNamesOneContent
<1>1. files[n] \in {names[n], NoContent}
  BY DEF VersionsIInv, FilesRight, Writes
<1> QED BY <1>1, ContentIs

LEMMA KeepsHistory == VersionsIInv => Versions!HistoryKept
<1> SUFFICES ASSUME VersionsIInv PROVE Versions!HistoryKept
  OBVIOUS
<1>1. Versions!HistoryOnDisk
  BY DEF VersionsIInv, Saved, WillSave, Versions!HistoryOnDisk
<1>2. ASSUME tasks = {}, era \notin mixed, reordered = {}, NEW n \in Versions!Numbers(Versions!Current)
      PROVE  Versions!VersionContent(n) = names[n]
  <2>1. Versions!Current \in Versions!History
    BY DEF VersionsIInv, VersionsTypes, Versions!Current
  <2>2. PICK v \in Versions!Version : Lists(Versions!Current, v) /\ v.number = n
    BY <2>1, Ranges
  <2>3. n \in Versions!Number
    BY <2>2 DEF Versions!Version
  <2>4. files[n] = v.content /\ names[n] = v.content
    BY <1>2, <2>2 DEF VersionsIInv, Readable, Writes, Named
  <2> QED BY <2>3, <2>4, ContentIs
<1>3. Versions!ListedIsReadable
  BY <1>2 DEF Versions!ListedIsReadable
<1> QED BY <1>1, <1>3 DEF Versions!HistoryKept

-----------------------------------------------------------------------------
(* The bounds of the instance and the types: no history, in memory, on     *)
(* disk or on its way there, lists more than MaxVersions versions.         *)
Short(h) == Len(h.versions) <= MaxVersions

VersionsBounded ==
  (\A e \in Versions!Era : Short(history[e])) /\ Short(stored) /\ \A t \in tasks : Short(t.doc)

LEMMA NoneIsShort == Short(Versions!None)
<1>1. Len(Versions!None.versions) = 0
  BY DEF Versions!None
<1> QED BY <1>1, LimitAssumption DEF Short

LEMMA AddedShort ==
  ASSUME NEW h \in Versions!History, NEW n, NEW v \in Versions!Version
  PROVE  Short(Added(h, n, v))
<1>1. PICK w : w = Append(h.versions, v)
  OBVIOUS
<1>2. w \in Seq(Versions!Version) /\ Len(w) \in Nat
  BY <1>1 DEF Versions!History
<1>3. MaxVersions \in Nat /\ MaxVersions > 0
  BY LimitAssumption
<1>4. Len(Versions!Trimmed(w)) <= MaxVersions
  <2>1. CASE Len(w) <= MaxVersions
    BY <2>1 DEF Versions!Trimmed
  <2>2. CASE ~(Len(w) <= MaxVersions)
    <3>1. PICK k \in 1 .. Len(w) : k = Len(w) - MaxVersions + 1
      BY <1>2, <1>3, <2>2
    <3>2. Len(SubSeq(w, k, Len(w))) = Len(w) - k + 1
      BY <1>2, <3>1
    <3>3. Versions!Trimmed(w) = SubSeq(w, k, Len(w))
      BY <2>2, <3>1, Zenon DEF Versions!Trimmed
    <3> QED BY <1>2, <1>3, <3>1, <3>2, <3>3
  <2> QED BY <2>1, <2>2
<1>5. Added(h, n, v).versions = Versions!Trimmed(w)
  BY <1>1 DEF Added
<1> QED BY <1>4, <1>5 DEF Short

LEMMA ShortenedShort ==
  ASSUME NEW h \in Versions!History, NEW n, Short(h)
  PROVE  Short(Versions!Shortened(h, n))
<1>1. PICK s \in Seq(Versions!Version) : s = h.versions
  BY DEF Versions!History
<1>2. PICK S : S = {v \in Versions!Range(h.versions) : v.number # n}
  OBVIOUS
<1>3. PICK w : w = Versions!Filter(s, S)
  OBVIOUS
<1>4. w \in Seq(Versions!Version) /\ Len(w) <= Len(s)
  BY <1>3, FilterIsShared, FilterLines
<1>5. Versions!Others(h, n) = w
  BY <1>1, <1>2, <1>3, Zenon DEF Versions!Others
<1>6. Versions!Shortened(h, n).versions = w
  BY <1>5 DEF Versions!Shortened, Versions!History
<1>7. Len(s) \in Nat /\ Len(w) \in Nat /\ Len(s) <= MaxVersions /\ MaxVersions \in Nat
  BY <1>1, <1>4, LimitAssumption DEF Short
<1> QED BY <1>4, <1>6, <1>7 DEF Short

LEMMA VersionsBoundedInit == Versions!Init => VersionsBounded
<1> SUFFICES ASSUME Versions!Init PROVE VersionsBounded
  OBVIOUS
<1>1. history = [e \in Versions!Era |-> Versions!None] /\ stored = Versions!None /\ tasks = {}
  BY DEF Versions!Init
<1> QED BY <1>1, NoneIsShort DEF VersionsBounded

(* A handler goes on, with the document it had or with a history.          *)
LEMMA HandlerBounded ==
  ASSUME VersionsTypes, VersionsBounded, NEW t \in tasks,
         \/ Versions!ContentLands(t) \/ Versions!SaveBegins(t) \/ Versions!SaveLands(t)
         \/ Versions!ContentGoes(t) \/ Versions!HistoryFileGoes(t) \/ Versions!PurgeGoesOn(t)
  PROVE  VersionsBounded'
<1>1. t \in TaskType /\ t.era \in Versions!Era /\ Short(t.doc) /\ Short(history[t.era])
  BY DEF VersionsTypes, TaskType, VersionsBounded
<1>2. history' = history /\ \A e \in Versions!Era : Short(history[e])
  BY DEF Versions!ContentLands, Versions!SaveBegins, Versions!SaveLands, Versions!ContentGoes, Versions!HistoryFileGoes, Versions!PurgeGoesOn,
     Versions!memoryVars, VersionsBounded
<1>3. stored' \in {stored, t.doc, Versions!None}
  BY DEF Versions!ContentLands, Versions!SaveBegins, Versions!SaveLands, Versions!ContentGoes, Versions!HistoryFileGoes, Versions!PurgeGoesOn,
     Versions!diskVars
<1>4. \A u \in tasks' : u \in tasks \/ u.doc = t.doc \/ u.doc = history[t.era]
  <2>1. ASSUME NEW s PROVE [t EXCEPT !.step = s].doc = t.doc
    BY <1>1 DEF TaskType
  <2>2. [t EXCEPT !.step = "land", !.doc = history[t.era]].doc = history[t.era]
    BY <1>1 DEF TaskType
  <2>3. [t EXCEPT !.left = Tail(@)].doc = t.doc
    BY <1>1 DEF TaskType
  <2>4. CASE Versions!ContentLands(t) \/ Versions!ContentGoes(t) \/ Versions!HistoryFileGoes(t)
    BY <2>1, <2>4 DEF Versions!ContentLands, Versions!ContentGoes, Versions!HistoryFileGoes, Versions!Becomes
  <2>5. CASE Versions!SaveBegins(t)
    BY <2>2, <2>5 DEF Versions!SaveBegins, Versions!Becomes
  <2>6. CASE Versions!SaveLands(t)
    BY <2>6 DEF Versions!SaveLands
  <2>7. CASE Versions!PurgeGoesOn(t)
    BY <2>3, <2>7 DEF Versions!PurgeGoesOn, Versions!Becomes
  <2> QED BY <2>4, <2>5, <2>6, <2>7
<1>5. \A u \in tasks' : Short(u.doc)
  BY <1>1, <1>4 DEF VersionsBounded
<1>6. Short(stored')
  BY <1>1, <1>3, NoneIsShort DEF VersionsBounded
<1> QED BY <1>2, <1>5, <1>6 DEF VersionsBounded, Short

LEMMA VersionsBoundedStep == VersionsIInv /\ VersionsBounded /\ [Versions!Next]_(Versions!vars) => VersionsBounded'
<1> SUFFICES ASSUME VersionsIInv, VersionsBounded, [Versions!Next]_(Versions!vars) PROVE VersionsBounded'
  OBVIOUS
<1>0. /\ VersionsTypes /\ era \in Versions!Era /\ history \in [Versions!Era -> Versions!History]
      /\ Versions!Current \in Versions!History /\ Short(Versions!Current)
      /\ \A e \in Versions!Era : Short(history[e])
      /\ Short(stored) /\ \A t \in tasks : Short(t.doc)
  BY DEF VersionsIInv, VersionsTypes, Versions!Current, VersionsBounded
<1>1. ASSUME NEW h, Short(h), NEW e, history' = [history EXCEPT ![e] = h]
      PROVE  \A x \in Versions!Era : Short(history'[x])
  BY <1>0, <1>1
<1>2. \A kind, number, step, left : Short(Versions!Task(kind, number, step, left).doc)
  BY NoneIsShort DEF Versions!Task
<1>3. ASSUME NEW c \in Content, Versions!AddsVersion(c) PROVE VersionsBounded'
  <2>1. PICK n, v : n = Versions!NextNumber(Versions!Current) /\ v = [number |-> n, content |-> c]
    OBVIOUS
  <2>2. /\ history' = [history EXCEPT ![era] = Added(Versions!Current, n, v)]
        /\ stored' = stored
        /\ tasks' = tasks \cup {[Versions!Task("add", n, "content", <<>>) EXCEPT !.content = c]}
    BY <1>3, <2>1 DEF Versions!AddsVersion, Added, Versions!diskVars
  <2>3. v \in Versions!Version
    <3>1. Versions!Current.last \in Versions!Number \cup {0} /\ Versions!Current.last <= added /\ added \in Nat
          /\ added < MaxNumber
      BY <1>0, <1>3 DEF VersionsIInv, VersionsTypes, AllTidy, Tidy, Versions!Current, Versions!History, Versions!AddsVersion
    <3>2. n \in Versions!Number
      BY <2>1, <3>1, BoundAssumption DEF Versions!NextNumber, Versions!Number
    <3> QED BY <2>1, <3>2 DEF Versions!Version
  <2>4. \A x \in Versions!Era : Short(history'[x])
    BY <1>0, <1>1, <2>2, <2>3, AddedShort
  <2>5. Short([Versions!Task("add", n, "content", <<>>) EXCEPT !.content = c].doc)
    <3>1. [Versions!Task("add", n, "content", <<>>) EXCEPT !.content = c].doc = Versions!None
      BY DEF Versions!Task
    <3> QED BY <3>1, NoneIsShort
  <2> QED BY <1>0, <2>2, <2>4, <2>5 DEF VersionsBounded
<1>4. ASSUME NEW n \in Versions!Number, Versions!DeletesVersion(n) PROVE VersionsBounded'
  <2>1. /\ history' = [history EXCEPT ![era] = Versions!Shortened(Versions!Current, n)]
        /\ tasks' = tasks \cup {Versions!Task("delete", n, "unlink", <<>>)} /\ stored' = stored
    BY <1>4 DEF Versions!DeletesVersion, Versions!diskVars
  <2>2. \A x \in Versions!Era : Short(history'[x])
    BY <1>0, <1>1, <2>1, ShortenedShort
  <2> QED BY <1>0, <1>2, <2>1, <2>2 DEF VersionsBounded
<1>5. CASE Versions!DeletesHistory
  <2>1. PICK u : tasks' = tasks \cup {Versions!Task("purge", 0, "forget", u)}
    BY <1>5 DEF Versions!DeletesHistory
  <2>2. history' = history /\ stored' = stored
    BY <1>5 DEF Versions!DeletesHistory, Versions!diskVars
  <2> QED BY <1>0, <1>2, <2>1, <2>2 DEF VersionsBounded
<1>6. CASE Versions!Restarts
  <2>1. history' = [history EXCEPT ![era + 1] = stored] /\ stored' = stored /\ tasks' = {}
    BY <1>6 DEF Versions!Restarts, Versions!diskVars
  <2>2. \A x \in Versions!Era : Short(history'[x])
    BY <1>0, <1>1, <2>1
  <2> QED BY <1>0, <2>1, <2>2 DEF VersionsBounded
<1>7. CASE UNCHANGED Versions!vars
  BY <1>7 DEF Versions!vars, Versions!memoryVars, Versions!diskVars, VersionsBounded
<1> QED
  BY <1>0, <1>3, <1>4, <1>5, <1>6, <1>7, HandlerBounded DEF Versions!Next

LEMMA VersionsBoundedTypes == VersionsIInv /\ VersionsBounded => Versions!TypeOK
<1> SUFFICES ASSUME VersionsIInv, VersionsBounded PROVE Versions!TypeOK
  OBVIOUS
<1>1. VersionsTypes /\ \A e \in Versions!Era : Len(history[e].versions) <= MaxVersions
  BY DEF VersionsIInv, VersionsBounded, Short
<1>2. \A t \in tasks : t.step \in {"content", "save", "land", "unlink", "forget", "purge"}
  BY <1>1 DEF VersionsTypes, TaskType, Steps
<1> QED BY <1>1, <1>2 DEF VersionsTypes, Versions!TypeOK

-----------------------------------------------------------------------------
(* The tray: while one operation is under way the temporary file is its    *)
(* own, another inode than the tray's, and holds a fragment or all of what *)
(* it writes.                                                              *)

(* Not a fragment: a tray has a set of edited items.                       *)
Whole(t) == "edited" \in DOMAIN t

(* With one operation at a time, what it has written is in the temporary   *)
(* file alone until it renames that one.                                   *)
At(o) ==
  /\ o.step \in {"open", "write", "rename"}
  /\ o.step # "open" => o.inode = temp /\ temp # 0
  /\ o.step = "write" => inodes[temp] = Tray!Fragment
  /\ o.step = "rename" => inodes[temp] = o.tray

Files ==
  /\ \E T : inodes \in Seq(T)
  /\ target \in 0 .. Len(inodes) /\ temp \in 0 .. Len(inodes)
  /\ temp # 0 => temp # target

Alone ==
  /\ \A o, p \in ops : o = p
  /\ \A o \in ops : o.tray \in expected /\ At(o)

TrayIInv ==
  /\ overlapped \in BOOLEAN
  /\ ~overlapped => Files /\ Alone /\ Tray!Read \in expected /\ \A t \in expected : Whole(t)

-----------------------------------------------------------------------------
LEMMA FragmentIsNotWhole == ~Whole(Tray!Fragment)
  BY DEF Whole, Tray!Fragment

LEMMA EmptyIsWhole == Whole(Tray!Empty)
  BY DEF Whole, Tray!Empty

LEMMA ChangedIsWhole ==
  ASSUME NEW t, Whole(t), NEW c \in Tray!Change
  PROVE  Whole(Tray!Changed(t, c))
<1>1. \A i : Whole(Tray!Without(t, i)) /\ Whole([Tray!Without(t, i) EXCEPT !.items = <<i>> \o @, !.edited = t.edited])
  BY DEF Whole, Tray!Without
<1>2. \A x : Whole([t EXCEPT !.items = x]) /\ Whole([t EXCEPT !.edited = x])
  BY DEF Whole
<1>3. c.kind \in {"add", "remove", "update", "reset", "front", "clear"}
  BY DEF Tray!Change
<1> QED BY <1>1, <1>2, <1>3, EmptyIsWhole DEF Tray!Changed, Whole

(* What appending to the inodes, and replacing one, leaves.                *)
LEMMA Appended ==
  ASSUME NEW T, NEW s \in Seq(T), NEW x
  PROVE  /\ Append(s, x) \in Seq(T \cup {x})
         /\ Len(Append(s, x)) = Len(s) + 1
         /\ \A i \in 1 .. Len(s) : Append(s, x)[i] = s[i]
         /\ Append(s, x)[Len(s) + 1] = x
         /\ Len(s) \in Nat
<1>1. s \in Seq(T \cup {x})
  OBVIOUS
<1> QED BY <1>1

LEMMA Replaced ==
  ASSUME NEW T, NEW s \in Seq(T), NEW x, NEW n \in 1 .. Len(s)
  PROVE  /\ [s EXCEPT ![n] = x] \in Seq(T \cup {x})
         /\ Len([s EXCEPT ![n] = x]) = Len(s)
         /\ \A i \in 1 .. Len(s) : i # n => [s EXCEPT ![n] = x][i] = s[i]
         /\ [s EXCEPT ![n] = x][n] = x
<1>1. s \in Seq(T \cup {x}) /\ DOMAIN s = 1 .. Len(s) /\ Len(s) \in Nat
  OBVIOUS
<1> QED BY <1>1

LEMMA TrayInitEstablishes == Tray!Init => TrayIInv
<1>1. Tray!Init => inodes \in Seq({}) /\ Len(inodes) = 0
  BY DEF Tray!Init
<1>2. Tray!Init => Files
  BY <1>1 DEF Tray!Init, Files
<1> QED BY <1>2, EmptyIsWhole DEF Tray!Init, TrayIInv, Alone, Tray!Read

(* The operation that begins is the only one, or they overlap.             *)
LEMMA BeginsPreserves ==
  ASSUME TrayIInv, NEW c \in Tray!Change, Tray!Begins(c)
  PROVE  TrayIInv'
<1> DEFINE t == Tray!Changed(Tray!Read, c)
           o == [id |-> begun, step |-> "open", tray |-> t, inode |-> 0]
<1>1. /\ ops' = ops \cup {o} /\ overlapped' = (overlapped \/ ops # {})
      /\ expected' = expected \cup {t} /\ UNCHANGED <<target, temp, inodes>>
  BY DEF Tray!Begins
<1>2. Tray!Read' = Tray!Read
  BY <1>1 DEF Tray!Read
<1>3. overlapped' \in BOOLEAN
  BY <1>1
<1> SUFFICES ASSUME ~overlapped' PROVE (Files /\ Alone /\ Tray!Read \in expected /\ \A x \in expected : Whole(x))'
  BY <1>3 DEF TrayIInv
<1>4. ~overlapped /\ ops = {}
  BY <1>1
<1>5. Whole(t)
  BY <1>4, ChangedIsWhole DEF TrayIInv
<1>6. Files'
  BY <1>1, <1>4 DEF TrayIInv, Files
<1>7. Alone'
  <2> HIDE DEF t
  <2> QED BY <1>1, <1>4 DEF Alone, At
<1> QED BY <1>1, <1>2, <1>4, <1>5, <1>6, <1>7 DEF TrayIInv

(* The temporary file is opened: another inode than the tray's.            *)
LEMMA OpensPreserves ==
  ASSUME TrayIInv, NEW o \in ops, Tray!Opens(o)
  PROVE  TrayIInv'
<1> DEFINE n == IF temp = 0 THEN Len(inodes) + 1 ELSE temp
           p == [o EXCEPT !.step = "write", !.inode = n]
<1>1. /\ o.step = "open"
      /\ inodes' = IF n > Len(inodes) THEN Append(inodes, Tray!Fragment) ELSE [inodes EXCEPT ![n] = Tray!Fragment]
      /\ ops' = (ops \ {o}) \cup {p}
      /\ temp' = n /\ target' = target
      /\ UNCHANGED <<expected, overlapped>>
  BY DEF Tray!Opens, Tray!Opened, Tray!Goes
<1>2. CASE overlapped
  BY <1>1, <1>2 DEF TrayIInv
<1>3. CASE ~overlapped
  <2>1. PICK T : inodes \in Seq(T)
    BY <1>3 DEF TrayIInv, Files
  <2>2. /\ Len(inodes) \in Nat /\ target \in 0 .. Len(inodes) /\ temp \in 0 .. Len(inodes)
        /\ temp # 0 => temp # target
    BY <1>3, <2>1 DEF TrayIInv, Files
  <2>3. n \in Nat /\ n # 0 /\ n # target
    BY <2>2
  <2>4. /\ inodes' \in Seq(T \cup {Tray!Fragment})
        /\ Len(inodes') \in Nat /\ n <= Len(inodes') /\ Len(inodes) <= Len(inodes')
        /\ inodes'[n] = Tray!Fragment
        /\ target # 0 => inodes'[target] = inodes[target]
    <3>1. CASE temp = 0
      <4>1. n = Len(inodes) + 1 /\ inodes' = Append(inodes, Tray!Fragment)
        BY <1>1, <2>2, <3>1
      <4> HIDE DEF n
      <4> QED BY <2>1, <2>2, <4>1, Appended
    <3>2. CASE temp # 0
      <4>1. n = temp /\ inodes' = [inodes EXCEPT ![n] = Tray!Fragment] /\ n \in 1 .. Len(inodes)
        BY <1>1, <2>2, <3>2
      <4> HIDE DEF n
      <4> QED BY <2>1, <2>2, <2>3, <4>1, Replaced
    <3> QED BY <3>1, <3>2
  <2> HIDE DEF n
  <2>5. Files'
    <3>1. n \in 0 .. Len(inodes') /\ target \in 0 .. Len(inodes')
      BY <2>2, <2>3, <2>4
    <3> QED BY <1>1, <2>3, <2>4, <3>1 DEF Files
  <2>6. o.tray \in expected /\ \A q \in ops : q = o
    BY <1>3 DEF TrayIInv, Alone
  <2>7. p.tray = o.tray /\ (p.step = "write" => p.inode = n)
    OBVIOUS
  <2>8. p.step \in {"open", "write", "rename"} /\ p.step # "rename" /\ p.inode = n
    OBVIOUS
  <2> HIDE DEF p
  <2>9. Alone'
    BY <1>1, <2>3, <2>4, <2>6, <2>7, <2>8 DEF Alone, At
  <2>10. Tray!Read' = Tray!Read
    BY <1>1, <2>2, <2>4 DEF Tray!Read
  <2> QED BY <1>1, <1>3, <2>5, <2>9, <2>10 DEF TrayIInv
<1> QED BY <1>2, <1>3

(* Bytes into the temporary file.                                          *)
LEMMA WritesPreserves ==
  ASSUME TrayIInv, NEW o \in ops, Tray!Writes(o)
  PROVE  TrayIInv'
<1> DEFINE p == [o EXCEPT !.step = "rename"]
<1>1. /\ o.step = "write" /\ ops' = (ops \ {o}) \cup {p}
      /\ UNCHANGED <<target, temp, expected, overlapped>>
      /\ \/ inodes' = [inodes EXCEPT ![o.inode] = o.tray]
         \/ inodes[o.inode] # Tray!Fragment
  BY DEF Tray!Writes, Tray!Goes
<1>2. CASE overlapped
  BY <1>1, <1>2 DEF TrayIInv
<1>3. CASE ~overlapped
  <2>1. PICK T : inodes \in Seq(T)
    BY <1>3 DEF TrayIInv, Files
  <2>2. /\ Len(inodes) \in Nat /\ target \in 0 .. Len(inodes) /\ temp \in 0 .. Len(inodes)
        /\ temp # 0 => temp # target
    BY <1>3, <2>1 DEF TrayIInv, Files
  <2>3. o.tray \in expected /\ (\A q \in ops : q = o) /\ At(o)
    BY <1>3 DEF TrayIInv, Alone
  <2>4. o.inode = temp /\ temp # 0 /\ inodes' = [inodes EXCEPT ![temp] = o.tray]
    BY <1>1, <2>3 DEF At
  <2>5. /\ inodes' \in Seq(T \cup {o.tray}) /\ Len(inodes') = Len(inodes)
        /\ inodes'[temp] = o.tray
        /\ target # 0 => inodes'[target] = inodes[target]
    BY <2>1, <2>2, <2>4, Replaced
  <2>6. p.tray = o.tray /\ p.step \in {"open", "write", "rename"} /\ p.step # "write" /\ p.inode = o.inode
    OBVIOUS
  <2> HIDE DEF p
  <2>7. Files'
    BY <1>1, <2>2, <2>5 DEF Files
  <2>8. Alone'
    BY <1>1, <2>3, <2>4, <2>5, <2>6 DEF Alone, At
  <2>9. Tray!Read' = Tray!Read
    BY <1>1, <2>2, <2>5 DEF Tray!Read
  <2> QED BY <1>1, <1>3, <2>7, <2>8, <2>9 DEF TrayIInv
<1> QED BY <1>2, <1>3

(* The rename puts what was written in the tray's place.                   *)
LEMMA RenamesPreserves ==
  ASSUME TrayIInv, NEW o \in ops, Tray!Renames(o)
  PROVE  TrayIInv'
<1>1. /\ o.step = "rename" /\ ops' = ops \ {o}
      /\ (temp # 0 => target' = temp /\ temp' = 0)
      /\ expected' = IF Tray!Cardinality(ops) = 1 THEN {o.tray} ELSE expected
      /\ UNCHANGED <<inodes, overlapped>>
  BY DEF Tray!Renames
<1>2. CASE overlapped
  BY <1>1, <1>2 DEF TrayIInv
<1>3. CASE ~overlapped
  <2>1. o.tray \in expected /\ (\A q \in ops : q = o) /\ At(o) /\ Whole(o.tray) /\ Files
    BY <1>3 DEF TrayIInv, Alone
  <2>2. target' = temp /\ temp' = 0 /\ inodes[temp] = o.tray /\ temp # 0
    BY <1>1, <2>1 DEF At
  <2>3. ops = {o}
    BY <2>1
  <2>4. expected' = {o.tray}
    <3>1. Tray!Cardinality({o}) = 1
      BY FS_Singleton DEF Tray!Cardinality, Cardinality
    <3> QED BY <1>1, <2>3, <3>1
  <2>5. Files'
    BY <1>1, <2>1, <2>2 DEF Files
  <2>6. Alone'
    BY <1>1, <2>3 DEF Alone
  <2>7. Tray!Read' = o.tray
    BY <1>1, <2>1, <2>2, FragmentIsNotWhole DEF Tray!Read
  <2> QED BY <1>1, <1>3, <2>1, <2>4, <2>5, <2>6, <2>7 DEF TrayIInv
<1> QED BY <1>2, <1>3

(* Whatever was under way is gone, and its temporary file is not the tray. *)
LEMMA CrashesPreserves == TrayIInv /\ Tray!Crashes => TrayIInv'
  BY DEF TrayIInv, Tray!Crashes, Files, Alone, Tray!Read

LEMMA TrayStepPreserves == TrayIInv /\ [Tray!Next]_(Tray!vars) => TrayIInv'
<1>1. TrayIInv /\ UNCHANGED Tray!vars => TrayIInv'
  BY DEF TrayIInv, Tray!vars, Files, Alone, At, Tray!Read
<1> QED BY <1>1, BeginsPreserves, OpensPreserves, WritesPreserves, RenamesPreserves,
          CrashesPreserves DEF Tray!Next

-----------------------------------------------------------------------------
(* The bounds of the instance and the types, of operations that overlap    *)
(* too: each has an inode of its own choice that exists.                   *)
Operation == [id : Nat, step : {"open", "write", "rename"}, tray : Tray!Tray, inode : Nat]

Kept == Tray!Tray \cup {Tray!Fragment}

Within(o, n) == o.inode <= n /\ (o.step # "open" => o.inode # 0)

TrayBounded ==
  /\ inodes \in Seq(Kept)
  /\ target \in 0 .. Len(inodes) /\ temp \in 0 .. Len(inodes)
  /\ ops \subseteq Operation /\ \A o \in ops : Within(o, Len(inodes))
  /\ begun \in 0 .. MaxOps
  /\ IsFiniteSet(ops) /\ Cardinality(ops) <= begun

(* The part filters as the log store does, and counts as this module does. *)
LEMMA TrayFilters ==
  ASSUME NEW s, NEW S PROVE Tray!Filter(s, S) = Logs!Filter(s, S)
  BY DEF Tray!Filter, Logs!Filter

LEMMA TrayCardinality ==
  ASSUME NEW S PROVE Tray!Cardinality(S) = Cardinality(S)
  BY DEF Tray!Cardinality, Cardinality

LEMMA ChangedIsTray ==
  ASSUME NEW t \in Tray!Tray, NEW c \in Tray!Change
  PROVE  Tray!Changed(t, c) \in Tray!Tray
<1>1. t.items \in Seq(TrayItem) /\ t.edited \in SUBSET TrayItem
  BY DEF Tray!Tray
<1>2. /\ c.kind \in {"add", "remove", "update", "reset", "front", "clear"}
      /\ c.kind # "clear" => c.item \in TrayItem
  BY DEF Tray!Change
<1>3. PICK w : w = Tray!Filter(t.items, Tray!Ids(t) \ {c.item})
  OBVIOUS
<1>4. w \in Seq(TrayItem)
  BY <1>1, <1>3, TrayFilters, FilterLines
<1>5. \A s \in Seq(TrayItem), e \in SUBSET TrayItem : [items |-> s, edited |-> e] \in Tray!Tray
  BY DEF Tray!Tray
<1>12. /\ \A s \in Seq(TrayItem) : [t EXCEPT !.items = s] \in Tray!Tray
       /\ \A e \in SUBSET TrayItem : [t EXCEPT !.edited = e] \in Tray!Tray
  BY DEF Tray!Tray
<1>6. CASE c.kind = "add"
  <2>1. Append(t.items, c.item) \in Seq(TrayItem)
    BY <1>1, <1>2, <1>6
  <2>2. [t EXCEPT !.items = Append(t.items, c.item)] \in Tray!Tray
    BY <1>12, <2>1
  <2> QED BY <1>6, <2>2 DEF Tray!Changed
<1>7. CASE c.kind = "remove"
  <2>1. Tray!Without(t, c.item) = [items |-> w, edited |-> t.edited \ {c.item}]
    BY <1>3 DEF Tray!Without
  <2> QED BY <1>1, <1>4, <1>5, <1>7, <2>1 DEF Tray!Changed
<1>8. CASE c.kind = "update"
  <2>1. t.edited \cup {c.item} \in SUBSET TrayItem
    BY <1>1, <1>2, <1>8
  <2>2. [t EXCEPT !.edited = t.edited \cup {c.item}] \in Tray!Tray
    BY <1>12, <2>1
  <2> QED BY <1>8, <2>2 DEF Tray!Changed
<1>9. CASE c.kind = "reset"
  <2>1. t.edited \ {c.item} \in SUBSET TrayItem
    BY <1>1
  <2>2. [t EXCEPT !.edited = t.edited \ {c.item}] \in Tray!Tray
    BY <1>12, <2>1
  <2> QED BY <1>9, <2>2 DEF Tray!Changed
<1>10. CASE c.kind = "front"
  <2>1. <<c.item>> \o w \in Seq(TrayItem)
    <3>1. <<c.item>> \in Seq(TrayItem)
      BY <1>2, <1>10
    <3> QED BY <1>4, <3>1
  <2>2. PICK e : e = t.edited \ {c.item}
    OBVIOUS
  <2>3. Tray!Without(t, c.item) = [items |-> w, edited |-> e]
    BY <1>3, <2>2 DEF Tray!Without
  <2>4. Tray!Changed(t, c) = IF c.item \notin Tray!Ids(t) THEN t
                        ELSE [Tray!Without(t, c.item) EXCEPT !.items = <<c.item>> \o @, !.edited = t.edited]
    BY <1>10 DEF Tray!Changed
  <2>5. PICK u : u = <<c.item>> \o w
    OBVIOUS
  <2>6. [[items |-> w, edited |-> e] EXCEPT !.items = u, !.edited = t.edited]
          = [items |-> u, edited |-> t.edited]
    <3>1. PICK x : x = [items |-> w, edited |-> e]
      OBVIOUS
    <3>2. \A f, g : [x EXCEPT !.items = f] = [items |-> f, edited |-> e]
      BY <3>1
    <3>3. \A f, g : [[items |-> f, edited |-> e] EXCEPT !.edited = g] = [items |-> f, edited |-> g]
      OBVIOUS
    <3>4. [x EXCEPT !.items = u, !.edited = t.edited] = [[x EXCEPT !.items = u] EXCEPT !.edited = t.edited]
      OBVIOUS
    <3> QED BY <3>1, <3>2, <3>3, <3>4
  <2>7. Tray!Changed(t, c) = t \/ Tray!Changed(t, c) = [items |-> u, edited |-> t.edited]
    BY <2>3, <2>4, <2>5, <2>6
  <2> QED BY <1>1, <1>5, <2>1, <2>5, <2>7
<1>11. CASE c.kind = "clear"
  <2>1. <<>> \in Seq(TrayItem)
    OBVIOUS
  <2> QED BY <1>5, <1>11, <2>1 DEF Tray!Changed, Tray!Empty
<1> QED BY <1>2, <1>6, <1>7, <1>8, <1>9, <1>10, <1>11

LEMMA ReadIsTray ==
  ASSUME TrayBounded
  PROVE  Tray!Read \in Tray!Tray
<1>1. inodes \in Seq(Kept) /\ target \in 0 .. Len(inodes)
  BY DEF TrayBounded
<1>2. Tray!Empty \in Tray!Tray
  <2>1. <<>> \in Seq(TrayItem)
    OBVIOUS
  <2> QED BY <2>1 DEF Tray!Empty, Tray!Tray
<1>3. CASE target = 0 \/ inodes[target] = Tray!Fragment
  BY <1>2, <1>3 DEF Tray!Read
<1>4. CASE target # 0 /\ inodes[target] # Tray!Fragment
  <2>1. inodes[target] \in Kept
    BY <1>1, <1>4
  <2> QED BY <1>4, <2>1 DEF Kept, Tray!Read
<1> QED BY <1>3, <1>4

(* An operation in the place of another, or of none.                       *)
LEMMA GoesCounts ==
  ASSUME NEW S, NEW n, IsFiniteSet(S), Cardinality(S) <= n, n \in Nat, NEW o \in S, NEW p
  PROVE  /\ IsFiniteSet(S \ {o}) /\ Cardinality(S \ {o}) <= n
         /\ IsFiniteSet((S \ {o}) \cup {p}) /\ Cardinality((S \ {o}) \cup {p}) <= n
<1>1. /\ IsFiniteSet(S \ {o}) /\ Cardinality(S \ {o}) = Cardinality(S) - 1
      /\ Cardinality(S) \in Nat
  BY FS_RemoveElement, FS_CardinalityType
<1>2. PICK R : R = S \ {o}
  OBVIOUS
<1>3. /\ IsFiniteSet(R \cup {p})
      /\ Cardinality(R \cup {p}) = Cardinality(R) \/ Cardinality(R \cup {p}) = Cardinality(R) + 1
  BY <1>1, <1>2, FS_AddElement
<1> QED BY <1>1, <1>2, <1>3

LEMMA TrayBoundedInit == Tray!Init => TrayBounded
<1> SUFFICES ASSUME Tray!Init PROVE TrayBounded
  OBVIOUS
<1>1. inodes \in Seq(Kept) /\ Len(inodes) = 0
  BY DEF Tray!Init
<1>2. IsFiniteSet(ops) /\ Cardinality(ops) = 0
  BY FS_EmptySet DEF Tray!Init
<1>3. /\ target = 0 /\ temp = 0 /\ ops = {} /\ begun = 0
  BY DEF Tray!Init
<1> QED BY <1>1, <1>2, <1>3, BoundAssumption DEF TrayBounded

LEMMA BeginsTyped ==
  ASSUME TrayBounded, NEW c \in Tray!Change, Tray!Begins(c)
  PROVE  TrayBounded'
<1>1. PICK o : o = [id |-> begun, step |-> "open", tray |-> Tray!Changed(Tray!Read, c), inode |-> 0]
  OBVIOUS
<1>2. /\ begun < MaxOps /\ begun' = begun + 1 /\ ops' = ops \cup {o}
      /\ UNCHANGED <<target, temp, inodes>>
  BY <1>1 DEF Tray!Begins
<1>3. Tray!Changed(Tray!Read, c) \in Tray!Tray
  BY ReadIsTray, ChangedIsTray
<1>4. /\ begun \in Nat /\ begun' \in 0 .. MaxOps /\ Len(inodes) \in Nat
  BY <1>2, BoundAssumption DEF TrayBounded
<1>5. o \in Operation /\ Within(o, Len(inodes))
  <2> HIDE DEF Tray!Changed
  <2>1. \A t \in Tray!Tray : [id |-> begun, step |-> "open", tray |-> t, inode |-> 0] \in Operation
    BY <1>4 DEF Operation
  <2>2. o.step = "open" /\ o.inode = 0
    BY <1>1
  <2> QED BY <1>1, <1>3, <1>4, <2>1, <2>2 DEF Within
<1>6. IsFiniteSet(ops') /\ Cardinality(ops') <= begun'
  <2>1. /\ IsFiniteSet(ops') /\ Cardinality(ops) \in Nat
        /\ Cardinality(ops') = Cardinality(ops) \/ Cardinality(ops') = Cardinality(ops) + 1
    BY <1>2, FS_AddElement, FS_CardinalityType DEF TrayBounded
  <2> QED BY <1>2, <1>4, <2>1 DEF TrayBounded
<1> QED BY <1>2, <1>4, <1>5, <1>6 DEF TrayBounded

LEMMA OpensTyped ==
  ASSUME TrayBounded, NEW o \in ops, Tray!Opens(o)
  PROVE  TrayBounded'
<1>1. PICK n, p : /\ n = IF temp = 0 THEN Len(inodes) + 1 ELSE temp
                  /\ p = [o EXCEPT !.step = "write", !.inode = n]
  OBVIOUS
<1>2. /\ inodes' = IF n > Len(inodes) THEN Append(inodes, Tray!Fragment) ELSE [inodes EXCEPT ![n] = Tray!Fragment]
      /\ ops' = (ops \ {o}) \cup {p} /\ temp' = n /\ target' = target /\ begun' = begun
  BY <1>1 DEF Tray!Opens, Tray!Opened, Tray!Goes
<1>3. /\ inodes \in Seq(Kept) /\ Len(inodes) \in Nat /\ temp \in 0 .. Len(inodes)
      /\ target \in 0 .. Len(inodes) /\ begun \in Nat /\ o \in Operation
      /\ \A q \in ops : q \in Operation /\ Within(q, Len(inodes))
  BY DEF TrayBounded
<1>4. Tray!Fragment \in Kept
  BY DEF Kept
<1>5. /\ inodes' \in Seq(Kept) /\ Len(inodes') \in Nat /\ Len(inodes) <= Len(inodes')
      /\ n \in 1 .. Len(inodes')
  <2>1. CASE temp = 0
    <3>1. n = Len(inodes) + 1 /\ inodes' = Append(inodes, Tray!Fragment)
      BY <1>1, <1>2, <1>3, <2>1
    <3> QED BY <1>3, <1>4, <3>1
  <2>2. CASE temp # 0
    <3>1. n \in 1 .. Len(inodes) /\ inodes' = [inodes EXCEPT ![n] = Tray!Fragment]
      BY <1>1, <1>2, <1>3, <2>2
    <3>2. inodes' \in Seq(Kept) /\ Len(inodes') = Len(inodes)
      BY <1>3, <1>4, <3>1
    <3> QED BY <1>3, <3>1, <3>2
  <2> QED BY <2>1, <2>2
<1>6. p \in Operation /\ Within(p, Len(inodes'))
  <2>1. o \in Operation /\ n \in Nat
    BY <1>3, <1>5
  <2>2. p = [o EXCEPT !.step = "write", !.inode = n]
    BY <1>1
  <2>3. p = [id |-> o.id, step |-> "write", tray |-> o.tray, inode |-> n]
    BY <2>1, <2>2 DEF Operation
  <2>4. o.id \in Nat /\ o.tray \in Tray!Tray
    BY <2>1 DEF Operation
  <2>5. p \in Operation /\ p.inode = n
    <3> HIDE DEF Tray!Tray
    <3> QED BY <2>1, <2>3, <2>4 DEF Operation
  <2> QED BY <1>5, <2>5 DEF Within
<1>7. \A q \in ops' : q \in Operation /\ Within(q, Len(inodes'))
  <2>1. \A q \in ops : Within(q, Len(inodes'))
    <3>1. \A q \in ops : q.inode \in Nat
      BY <1>3 DEF Operation
    <3> QED BY <1>3, <1>5, <3>1 DEF Within
  <2> QED BY <1>2, <1>3, <1>6, <2>1
<1>8. IsFiniteSet(ops') /\ Cardinality(ops') <= begun
  BY <1>2, <1>3, GoesCounts DEF TrayBounded
<1>9. target' \in 0 .. Len(inodes') /\ temp' \in 0 .. Len(inodes')
  BY <1>2, <1>3, <1>5
<1>10. begun' \in 0 .. MaxOps
  BY <1>2 DEF TrayBounded
<1> QED BY <1>2, <1>5, <1>7, <1>8, <1>9, <1>10 DEF TrayBounded

LEMMA WritesTyped ==
  ASSUME TrayBounded, NEW o \in ops, Tray!Writes(o)
  PROVE  TrayBounded'
<1>1. PICK p : p = [o EXCEPT !.step = "rename"]
  OBVIOUS
<1>2. /\ o.step = "write" /\ ops' = (ops \ {o}) \cup {p}
      /\ UNCHANGED <<target, temp, begun>>
      /\ \E x \in {o.tray, Tray!Fragment} : inodes' = [inodes EXCEPT ![o.inode] = x]
  BY <1>1 DEF Tray!Writes, Tray!Goes
<1>3. /\ inodes \in Seq(Kept) /\ Len(inodes) \in Nat /\ o \in Operation /\ Within(o, Len(inodes))
      /\ begun \in Nat /\ \A q \in ops : q \in Operation /\ Within(q, Len(inodes))
  BY DEF TrayBounded
<1>4. PICK x \in Kept : inodes' = [inodes EXCEPT ![o.inode] = x]
  BY <1>2, <1>3 DEF Kept, Operation
<1>5. o.inode \in 1 .. Len(inodes)
  BY <1>2, <1>3 DEF Within, Operation
<1>6. inodes' \in Seq(Kept) /\ Len(inodes') = Len(inodes)
  BY <1>3, <1>4, <1>5
<1>7. p \in Operation /\ Within(p, Len(inodes))
  <2>1. p \in Operation /\ p.inode = o.inode
    BY <1>1, <1>3 DEF Operation
  <2> QED BY <1>3, <1>5, <2>1 DEF Within
<1>8. \A q \in ops' : q \in Operation /\ Within(q, Len(inodes'))
  BY <1>2, <1>3, <1>6, <1>7
<1>9. IsFiniteSet(ops') /\ Cardinality(ops') <= begun
  BY <1>2, <1>3, GoesCounts DEF TrayBounded
<1>10. target' \in 0 .. Len(inodes') /\ temp' \in 0 .. Len(inodes')
  BY <1>2, <1>6 DEF TrayBounded
<1>11. begun' \in 0 .. MaxOps
  BY <1>2 DEF TrayBounded
<1> QED BY <1>2, <1>6, <1>8, <1>9, <1>10, <1>11 DEF TrayBounded

LEMMA RenamesTyped ==
  ASSUME TrayBounded, NEW o \in ops, Tray!Renames(o)
  PROVE  TrayBounded'
<1>1. /\ ops' = ops \ {o} /\ UNCHANGED <<inodes, begun>>
      /\ \/ target' = temp /\ temp' = 0
         \/ UNCHANGED <<target, temp>>
  BY DEF Tray!Renames
<1>2. IsFiniteSet(ops') /\ Cardinality(ops') <= begun
  <2>1. begun \in Nat
    BY DEF TrayBounded
  <2> QED BY <1>1, <2>1, GoesCounts DEF TrayBounded
<1>3. target' \in 0 .. Len(inodes) /\ temp' \in 0 .. Len(inodes)
  BY <1>1 DEF TrayBounded
<1> QED BY <1>1, <1>2, <1>3 DEF TrayBounded

LEMMA CrashesTyped == TrayBounded /\ Tray!Crashes => TrayBounded'
<1> SUFFICES ASSUME TrayBounded, Tray!Crashes PROVE TrayBounded'
  OBVIOUS
<1>1. ops' = {} /\ temp' = 0 /\ UNCHANGED <<target, inodes, begun>>
  BY DEF Tray!Crashes
<1>2. IsFiniteSet(ops') /\ Cardinality(ops') = 0
  BY <1>1, FS_EmptySet
<1>3. temp' \in 0 .. Len(inodes) /\ 0 <= begun
  BY <1>1 DEF TrayBounded
<1> QED BY <1>1, <1>2, <1>3 DEF TrayBounded

LEMMA TrayBoundedStep == TrayBounded /\ [Tray!Next]_(Tray!vars) => TrayBounded'
<1>1. TrayBounded /\ UNCHANGED Tray!vars => TrayBounded'
  BY DEF Tray!vars, TrayBounded
<1> QED BY <1>1, BeginsTyped, OpensTyped, WritesTyped, RenamesTyped, CrashesTyped DEF Tray!Next

LEMMA TrayBoundedTypes == TrayBounded => Tray!TypeOK
<1> SUFFICES ASSUME TrayBounded PROVE Tray!TypeOK
  OBVIOUS
<1>1. \A n \in DOMAIN inodes : inodes[n] \in Tray!Tray \cup {Tray!Fragment}
  BY DEF TrayBounded, Kept
<1>2. \A o \in ops : o \in Operation /\ Within(o, Len(inodes)) /\ Len(inodes) \in Nat
  BY DEF TrayBounded
<1>3. \A o \in ops : o.step \in {"open", "write", "rename"} /\ o.inode \in 0 .. Len(inodes)
  BY <1>2 DEF Operation, Within
<1>4. Cardinality(ops) <= MaxOps
  <2>1. Cardinality(ops) \in Nat
    BY FS_CardinalityType DEF TrayBounded
  <2> QED BY <2>1, BoundAssumption DEF TrayBounded
<1> QED BY <1>1, <1>3, <1>4, TrayCardinality DEF TrayBounded, Tray!TypeOK

-----------------------------------------------------------------------------
(* Of this part, the specification of Parts is the part's own.             *)
LEMMA LogsRuns ==
  /\ Init /\ part = "LogStore" => Logs!Init
  /\ [Next]_vars /\ part' = "LogStore" =>
       part = "LogStore" /\ [Logs!Next]_(Logs!vars)
<1>1. Init /\ part = "LogStore" => Logs!Init
  BY DEF Init
<1>2. Next /\ part' = "LogStore" => part = "LogStore" /\ Logs!Next
  BY DEF Next
<1>3. UNCHANGED vars => part' = part /\ UNCHANGED Logs!vars
  BY DEF vars, Logs!vars, Logs!memoryVars, Logs!fileVars, Logs!historyVars
<1> QED BY <1>1, <1>2, <1>3

LEMMA LogsInvariant ==
  Spec => [](part = "LogStore" => LogsIInv)
<1> DEFINE Inv == part = "LogStore" => LogsIInv
<1>1. Init => Inv
  BY LogsRuns, LogsInitEstablishes
<1>2. Inv /\ [Next]_vars => Inv'
  BY LogsRuns, LogsStepPreserves
<1> QED BY <1>1, <1>2, PTL DEF Spec

(* PersistenceStore: for any number of firings and any limits, an entry    *)
(* whose append has returned stays on disk until it is cleared, too old or *)
(* in a file beyond the limit, unless it was in one of the windows that    *)
(* NothingStoredLost names.                                                *)
THEOREM StoredStays == Spec => []NothingStoredLost
<1>1. (part = "LogStore" => LogsIInv) => NothingStoredLost
  BY DurableSaves DEF LogsIInv, Held, NothingStoredLost
<1> QED BY <1>1, LogsInvariant, PTL

(* LogManager: what a clear took, in its sight, does not come back into    *)
(* memory, whatever is appended, rotated or loaded afterwards.             *)
THEOREM ClearedIsGone == Spec => []ClearedStaysCleared
<1>1. (part = "LogStore" => LogsIInv) => ClearedStaysCleared
  BY ClearedStays DEF LogsIInv, Held, ClearedStaysCleared
<1> QED BY <1>1, LogsInvariant, PTL

(* addLog: one record for one firing, however many transports deliver it,  *)
(* while its key is in the window and its record in memory.                *)
THEOREM OneRecordPerFiring == Spec => []OnePerFiring
<1>1. (part = "LogStore" => LogsIInv) => OnePerFiring
  BY DEF LogsIInv, Held, OnePerFiring
<1> QED BY <1>1, LogsInvariant, PTL

LEMMA VersionsRuns ==
  /\ Init /\ part = "VersionHistory" => Versions!Init
  /\ [Next]_vars /\ part' = "VersionHistory" =>
       part = "VersionHistory" /\ [Versions!Next]_(Versions!vars)
<1>1. Init /\ part = "VersionHistory" => Versions!Init
  BY DEF Init
<1>2. Next /\ part' = "VersionHistory" => part = "VersionHistory" /\ Versions!Next
  BY DEF Next
<1>3. UNCHANGED vars => part' = part /\ UNCHANGED Versions!vars
  BY DEF vars, Versions!vars, Versions!memoryVars, Versions!diskVars,
     Versions!countVars, Versions!historyVars
<1> QED BY <1>1, <1>2, <1>3

LEMMA VersionsInvariant ==
  Spec => [](part = "VersionHistory" => VersionsIInv)
<1> DEFINE Inv == part = "VersionHistory" => VersionsIInv
<1>1. Init => Inv
  BY VersionsRuns, VersionsInitEstablishes
<1>2. Inv /\ [Next]_vars => Inv'
  BY VersionsRuns, VersionsStepPreserves
<1> QED BY <1>1, <1>2, PTL DEF Spec

(* addVersion: whatever is trimmed, deleted and restored, and however many *)
(* writes are under way, a number reads as the content it was given or as  *)
(* nothing, unless handlers of two eras met.                               *)
THEOREM OneContentPerNumber == Spec => []NumberNamesOneContent
<1>1. (part = "VersionHistory" => VersionsIInv) => NumberNamesOneContent
  BY NamesOneContent DEF NumberNamesOneContent
<1> QED BY <1>1, VersionsInvariant, PTL

(* saveHistory: once the handlers are done the file is what memory holds,  *)
(* and each listed version reads as what it was added as, with the same    *)
(* exception and but for saves that were overtaken.                        *)
THEOREM HistoryIsKept == Spec => []HistoryKept
<1>1. (part = "VersionHistory" => VersionsIInv) => HistoryKept
  BY KeepsHistory DEF HistoryKept
<1> QED BY <1>1, VersionsInvariant, PTL

(* Of this part, the specification of Parts is the part's own.             *)
LEMMA TrayRuns ==
  /\ Init /\ part = "ContextTray" => Tray!Init
  /\ [Next]_vars /\ part' = "ContextTray" =>
       part = "ContextTray" /\ [Tray!Next]_(Tray!vars)
<1>1. Init /\ part = "ContextTray" => Tray!Init
  BY DEF Init
<1>2. Next /\ part' = "ContextTray" => part = "ContextTray" /\ Tray!Next
  BY DEF Next
<1>3. UNCHANGED vars => part' = part /\ UNCHANGED Tray!vars
  BY DEF vars, Tray!vars
<1> QED BY <1>1, <1>2, <1>3

(* The tray is always what the operations made of it, before or after the  *)
(* one under way, wherever the core is killed, as long as they come one at *)
(* a time: the temporary file is put in its place only whole (tray-        *)
(* store.ts, and the tray methods of ipc-server.ts).                       *)
THEOREM TrayIsWholeAndKnown == Spec => []TrayIsSerial
<1> DEFINE I == part = "ContextTray" => TrayIInv
<1>1. Init => I
  BY TrayRuns, TrayInitEstablishes
<1>2. I /\ [Next]_vars => I'
  BY TrayRuns, TrayStepPreserves
<1>3. I => TrayIsSerial
  BY DEF TrayIInv, TrayIsSerial, Tray!TrayIsSerial
<1> QED BY <1>1, <1>2, <1>3, PTL DEF Spec

-----------------------------------------------------------------------------
LEMMA LogsTyped ==
  Spec => [](part = "LogStore" => Logs!TypeOK)
<1> DEFINE I == part = "LogStore" => LogsIInv /\ LogsBounded
<1>1. Init => I
  BY LogsRuns, LogsInitEstablishes, LogsBoundedInit
<1>2. I /\ [Next]_vars => I'
  BY LogsRuns, LogsStepPreserves, LogsBoundedStep
<1>3. I => (part = "LogStore" => Logs!TypeOK)
  BY LogsBoundedTypes
<1> QED BY <1>1, <1>2, <1>3, PTL DEF Spec

LEMMA VersionsTyped ==
  Spec => [](part = "VersionHistory" => Versions!TypeOK)
<1> DEFINE I == part = "VersionHistory" => VersionsIInv /\ VersionsBounded
<1>1. Init => I
  BY VersionsRuns, VersionsInitEstablishes, VersionsBoundedInit
<1>2. I /\ [Next]_vars => I'
  BY VersionsRuns, VersionsStepPreserves, VersionsBoundedStep
<1>3. I => (part = "VersionHistory" => Versions!TypeOK)
  BY VersionsBoundedTypes
<1> QED BY <1>1, <1>2, <1>3, PTL DEF Spec

LEMMA TrayTyped ==
  Spec => [](part = "ContextTray" => Tray!TypeOK)
<1> DEFINE I == part = "ContextTray" => TrayBounded
<1>1. Init => I
  BY TrayRuns, TrayBoundedInit
<1>2. I /\ [Next]_vars => I'
  BY TrayRuns, TrayBoundedStep
<1>3. I => (part = "ContextTray" => Tray!TypeOK)
  BY TrayBoundedTypes
<1> QED BY <1>1, <1>2, <1>3, PTL DEF Spec

(* The log store, the versions and the tray keep their types and their     *)
(* limits: logs in memory and keys; versions of a history; an inode for    *)
(* every descriptor; and of rotated files, when a rotation that no other   *)
(* has overtaken is about to add one, few enough for it (log-manager.ts,   *)
(* store.ts, file-tracker.ts, tray-store.ts).                              *)
THEOREM RecordPartsTyped ==
  Spec => [](part \in {"LogStore", "VersionHistory", "ContextTray"} => TypeOK)
<1> DEFINE I ==
      /\ (part = "LogStore" => Logs!TypeOK)
      /\ (part = "VersionHistory" => Versions!TypeOK)
      /\ (part = "ContextTray" => Tray!TypeOK)
<1>1. I => (part \in {"LogStore", "VersionHistory", "ContextTray"} => TypeOK)
  BY DEF TypeOK
<1> QED BY <1>1, LogsTyped, VersionsTyped, TrayTyped, PTL

=============================================================================
