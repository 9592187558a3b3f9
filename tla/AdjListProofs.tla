----------------------------- MODULE AdjListProofs --------------------------
(***************************************************************************)
(* What adjslot_insert and adjslot_remove do to a list, and that the       *)
(* pointers proc_slot and proc_unslot change make the ring of the new      *)
(* list, for lists of any length.                                          *)
(***************************************************************************)
EXTENDS AdjList, SequenceTheorems, TLAPS

(* RingsAreLists for one ring: the list s linked through the anchor a. *)
Pos(s, a, i) == IF i \in 1..Len(s) THEN s[i] ELSE a

Ring(nx, pv, s, a) ==
    \A i \in 0..Len(s) :
      nx[Pos(s, a, i)] = Pos(s, a, i + 1) /\ pv[Pos(s, a, i + 1)] = Pos(s, a, i)

Once(s) == \A i, j \in 1..Len(s) : s[i] = s[j] => i = j

Listed(s, pid) == \E i \in 1..Len(s) : s[i] = pid

-----------------------------------------------------------------------------
(* adjslot_remove takes one place out of a list. *)
LEMMA RemovePlace ==
    ASSUME NEW s \in Seq(Pids), NEW pid \in Pids, Listed(s, pid)
    PROVE  \E k \in 1..Len(s) :
             /\ s[k] = pid
             /\ adjslot_remove(s, pid) \in Seq(Pids)
             /\ Len(adjslot_remove(s, pid)) = Len(s) - 1
             /\ \A i \in 1..(Len(s) - 1) :
                  adjslot_remove(s, pid)[i] = IF i < k THEN s[i] ELSE s[i + 1]
<1> DEFINE k == CHOOSE i \in 1..Len(s) : s[i] = pid
           l == SubSeq(s, 1, k - 1)
           r == SubSeq(s, k + 1, Len(s))
<1>1. k \in 1..Len(s) /\ s[k] = pid
  BY DEF Listed
<1>2. adjslot_remove(s, pid) = l \o r
  BY DEF adjslot_remove
<1>3. Len(s) \in Nat /\ \A i \in 1..Len(s) : s[i] \in Pids
  BY LenProperties, ElementOfSeq
<1> HIDE DEF k
<1>4. l \in Seq(Pids) /\ Len(l) = k - 1 /\ \A i \in 1..(k - 1) : l[i] = s[i]
  <2>1. 1 \in Int /\ k - 1 \in Int /\ \A i \in 1..(k - 1) : s[i] \in Pids
    BY <1>1, <1>3
  <2>2. /\ l \in Seq(Pids)
        /\ Len(l) = IF 1 <= k - 1 THEN k - 1 - 1 + 1 ELSE 0
        /\ \A i \in 1..(k - 1 - 1 + 1) : l[i] = s[1 + i - 1]
    BY <2>1, SubSeqProperties
  <2> HIDE DEF l
  <2> QED
    BY <1>1, <1>3, <2>2
<1>5. /\ r \in Seq(Pids) /\ Len(r) = Len(s) - k
      /\ \A i \in 1..(Len(s) - k) : r[i] = s[k + i]
  <2>1. k + 1 \in Int /\ Len(s) \in Int /\ \A i \in (k + 1)..Len(s) : s[i] \in Pids
    BY <1>1, <1>3
  <2>2. /\ r \in Seq(Pids)
        /\ Len(r) = IF k + 1 <= Len(s) THEN Len(s) - (k + 1) + 1 ELSE 0
        /\ \A i \in 1..(Len(s) - (k + 1) + 1) : r[i] = s[k + 1 + i - 1]
    BY <2>1, SubSeqProperties
  <2> HIDE DEF r
  <2>3. Len(r) = Len(s) - k
    BY <1>1, <1>3, <2>2
  <2>4. ASSUME NEW i \in 1..(Len(s) - k) PROVE r[i] = s[k + i]
    <3>1. i \in 1..(Len(s) - (k + 1) + 1) /\ k + 1 + i - 1 = k + i
      BY <1>1, <1>3
    <3> QED
      BY <2>2, <3>1
  <2> QED
    BY <2>2, <2>3, <2>4
<1> HIDE DEF l, r
<1>6. /\ l \o r \in Seq(Pids)
      /\ Len(l \o r) = Len(l) + Len(r)
      /\ \A i \in 1..(Len(l) + Len(r)) : (l \o r)[i] = IF i <= Len(l) THEN l[i] ELSE r[i - Len(l)]
  BY <1>4, <1>5, ConcatProperties
<1>7. Len(l) + Len(r) = Len(s) - 1
  BY <1>1, <1>3, <1>4, <1>5
<1>8. ASSUME NEW i \in 1..(Len(s) - 1)
      PROVE  (l \o r)[i] = IF i < k THEN s[i] ELSE s[i + 1]
  <2>1. (l \o r)[i] = IF i <= Len(l) THEN l[i] ELSE r[i - Len(l)]
    BY <1>6, <1>7
  <2>2. CASE i < k
    BY <1>1, <1>3, <1>4, <2>1, <2>2
  <2>3. CASE ~(i < k)
    <3>1. ~(i <= Len(l)) /\ i - Len(l) \in 1..(Len(s) - k) /\ k + (i - Len(l)) = i + 1
      BY <1>1, <1>3, <1>4, <2>3
    <3> QED
      BY <1>5, <2>1, <2>3, <3>1
  <2> QED
    BY <2>2, <2>3
<1> QED
  BY <1>1, <1>2, <1>6, <1>7, <1>8

(* adjslot_insert puts a record in front of a list. *)
LEMMA InsertPlace ==
    ASSUME NEW s \in Seq(Pids), NEW pid \in Pids
    PROVE  /\ adjslot_insert(s, pid) \in Seq(Pids)
           /\ Len(adjslot_insert(s, pid)) = Len(s) + 1
           /\ adjslot_insert(s, pid)[1] = pid
           /\ \A i \in 2..(Len(s) + 1) : adjslot_insert(s, pid)[i] = s[i - 1]
<1>1. /\ <<pid>> \in Seq(Pids) /\ Len(<<pid>>) = 1 /\ <<pid>>[1] = pid
      /\ Len(s) \in Nat
  BY LenProperties
<1> DEFINE p == <<pid>>
<1>2. p \in Seq(Pids) /\ Len(p) = 1 /\ p[1] = pid
  BY <1>1
<1> HIDE DEF p
<1>3. /\ p \o s \in Seq(Pids)
      /\ Len(p \o s) = Len(p) + Len(s)
      /\ \A i \in 1..(Len(p) + Len(s)) : (p \o s)[i] = IF i <= Len(p) THEN p[i] ELSE s[i - Len(p)]
  BY <1>2, ConcatProperties
<1>4. adjslot_insert(s, pid) = p \o s
  BY DEF adjslot_insert, p
<1> QED
  BY <1>1, <1>2, <1>3, <1>4

-----------------------------------------------------------------------------
(* The places 0..Len(s) of a ring are different nodes, and so are the      *)
(* places 1..Len(s) + 1.                                                   *)
LEMMA PlacesDiffer ==
    ASSUME NEW a \in Adjs, NEW s \in Seq(Pids), Once(s)
    PROVE  /\ Len(s) \in Nat
           /\ \A i \in 1..Len(s) : Pos(s, a, i) = s[i] /\ s[i] \in Pids /\ s[i] # a
           /\ Pos(s, a, 0) = a /\ Pos(s, a, Len(s) + 1) = a
           /\ \A i, j \in 0..Len(s) : Pos(s, a, i) = Pos(s, a, j) => i = j
           /\ \A i, j \in 1..(Len(s) + 1) : Pos(s, a, i) = Pos(s, a, j) => i = j
<1>1. Len(s) \in Nat /\ \A i \in 1..Len(s) : s[i] \in Pids
  BY LenProperties, ElementOfSeq
<1>2. \A i \in 1..Len(s) : s[i] # a
  BY <1>1, AdjListAssumption
<1>3. /\ \A i \in 1..Len(s) : Pos(s, a, i) = s[i]
      /\ Pos(s, a, 0) = a /\ Pos(s, a, Len(s) + 1) = a
  BY <1>1 DEF Pos
<1>4. ASSUME NEW i \in 0..Len(s), NEW j \in 0..Len(s), Pos(s, a, i) = Pos(s, a, j)
      PROVE  i = j
  <2>1. i \in 1..Len(s) \/ i = 0
    BY <1>1
  <2>2. j \in 1..Len(s) \/ j = 0
    BY <1>1
  <2> QED
    BY <1>2, <1>3, <1>4, <2>1, <2>2 DEF Once
<1>5. ASSUME NEW i \in 1..(Len(s) + 1), NEW j \in 1..(Len(s) + 1), Pos(s, a, i) = Pos(s, a, j)
      PROVE  i = j
  <2>1. i \in 1..Len(s) \/ i = Len(s) + 1
    BY <1>1
  <2>2. j \in 1..Len(s) \/ j = Len(s) + 1
    BY <1>1
  <2> QED
    BY <1>2, <1>3, <1>5, <2>1, <2>2 DEF Once
<1> QED
  BY <1>1, <1>2, <1>3, <1>4, <1>5

(* Pointers of nodes outside a ring do not matter to it. *)
LEMMA RingKept ==
    ASSUME NEW a \in Adjs, NEW s \in Seq(Pids), NEW nx, NEW pv, NEW nx2, NEW pv2,
           Ring(nx, pv, s, a),
           nx2[a] = nx[a] /\ pv2[a] = pv[a],
           \A i \in 1..Len(s) : nx2[s[i]] = nx[s[i]] /\ pv2[s[i]] = pv[s[i]]
    PROVE  Ring(nx2, pv2, s, a)
<1>1. \A i : nx2[Pos(s, a, i)] = nx[Pos(s, a, i)] /\ pv2[Pos(s, a, i)] = pv[Pos(s, a, i)]
  BY DEF Pos
<1> QED
  BY <1>1 DEF Ring

(* The pointers proc_unslot changes make the ring of the shorter list. *)
LEMMA RingRemove ==
    ASSUME NEW a \in Adjs, NEW s \in Seq(Pids), Once(s),
           NEW nx \in [Node -> Node], NEW pv \in [Node -> Node],
           Ring(nx, pv, s, a),
           NEW k \in 1..Len(s), NEW r \in Seq(Pids), Len(r) = Len(s) - 1,
           \A i \in 1..(Len(s) - 1) : r[i] = IF i < k THEN s[i] ELSE s[i + 1]
    PROVE  Ring([nx EXCEPT ![pv[s[k]]] = nx[s[k]]], [pv EXCEPT ![nx[s[k]]] = pv[s[k]]], r, a)
<1> DEFINE n == [nx EXCEPT ![pv[s[k]]] = nx[s[k]]]
           p == [pv EXCEPT ![nx[s[k]]] = pv[s[k]]]
           P(i) == Pos(s, a, i)
           Q(i) == Pos(r, a, i)
<1>1. /\ Len(s) \in Nat
      /\ \A i \in 1..Len(s) : P(i) = s[i] /\ s[i] \in Pids
      /\ P(0) = a /\ P(Len(s) + 1) = a
      /\ \A i, j \in 0..Len(s) : P(i) = P(j) => i = j
      /\ \A i, j \in 1..(Len(s) + 1) : P(i) = P(j) => i = j
  BY PlacesDiffer
<1>2. \A i \in 0..Len(s) : nx[P(i)] = P(i + 1) /\ pv[P(i + 1)] = P(i)
  BY DEF Ring
<1>3. \A i \in 0..(Len(s) + 1) : P(i) \in Node
  <2>1. \A i \in 0..(Len(s) + 1) : i \in 1..Len(s) \/ i = 0 \/ i = Len(s) + 1
    BY <1>1
  <2> HIDE DEF P
  <2> QED
    BY <1>1, <2>1 DEF Node
<1>4. \A i \in 0..Len(s) : Q(i) = IF i < k THEN P(i) ELSE P(i + 1)
  <2> SUFFICES ASSUME NEW i \in 0..Len(s) PROVE Q(i) = IF i < k THEN P(i) ELSE P(i + 1)
    OBVIOUS
  <2>1. CASE i \in 1..(Len(s) - 1)
    BY <1>1, <2>1 DEF Pos
  <2>2. CASE i = 0
    BY <1>1, <2>2 DEF Pos
  <2>3. CASE i = Len(s)
    BY <1>1, <2>3 DEF Pos
  <2> QED
    BY <1>1, <2>1, <2>2, <2>3
<1>5. P(k) = s[k] /\ pv[s[k]] = P(k - 1) /\ nx[s[k]] = P(k + 1)
  <2>1. k - 1 \in 0..Len(s) /\ (k - 1) + 1 = k /\ k \in 0..Len(s)
    BY <1>1
  <2> HIDE DEF P
  <2>2. P(k) = s[k] /\ nx[P(k)] = P(k + 1)
    BY <1>1, <1>2, <2>1
  <2>3. pv[P((k - 1) + 1)] = P(k - 1)
    BY <1>2, <2>1
  <2> QED
    BY <2>1, <2>2, <2>3
<1> HIDE DEF P, Q
<1>6. /\ n = [nx EXCEPT ![P(k - 1)] = P(k + 1)]
      /\ p = [pv EXCEPT ![P(k + 1)] = P(k - 1)]
  BY <1>5
<1> HIDE DEF n, p
<1>7. ASSUME NEW i \in 0..(Len(s) - 1)
      PROVE  n[Q(i)] = Q(i + 1) /\ p[Q(i + 1)] = Q(i)
  <2>1. CASE i < k - 1
    <3>1. Q(i) = P(i) /\ Q(i + 1) = P(i + 1)
      BY <1>1, <1>4, <2>1
    <3>2. P(i) # P(k - 1) /\ P(i + 1) # P(k + 1)
      <4>1. /\ i \in 0..Len(s) /\ k - 1 \in 0..Len(s) /\ i # k - 1
            /\ i + 1 \in 1..(Len(s) + 1) /\ k + 1 \in 1..(Len(s) + 1) /\ i + 1 # k + 1
        BY <1>1, <2>1
      <4> QED
        BY <1>1, <4>1
    <3>3. nx[P(i)] = P(i + 1) /\ pv[P(i + 1)] = P(i) /\ P(i) \in Node /\ P(i + 1) \in Node
      BY <1>1, <1>2, <1>3
    <3> QED
      BY <1>6, <3>1, <3>2, <3>3
  <2>2. CASE i = k - 1
    <3>1. Q(i) = P(k - 1) /\ Q(i + 1) = P(k + 1)
      BY <1>1, <1>4, <2>2
    <3>2. P(k - 1) \in Node /\ P(k + 1) \in Node
      BY <1>1, <1>3
    <3> QED
      BY <1>6, <3>1, <3>2
  <2>3. CASE i > k - 1
    <3>1. Q(i) = P(i + 1) /\ Q(i + 1) = P((i + 1) + 1)
      BY <1>1, <1>4, <2>3
    <3>2. P(i + 1) # P(k - 1) /\ P((i + 1) + 1) # P(k + 1)
      <4>1. /\ i + 1 \in 0..Len(s) /\ k - 1 \in 0..Len(s) /\ i + 1 # k - 1
            /\ (i + 1) + 1 \in 1..(Len(s) + 1) /\ k + 1 \in 1..(Len(s) + 1)
            /\ (i + 1) + 1 # k + 1
        BY <1>1, <2>3
      <4> QED
        BY <1>1, <4>1
    <3>3. i + 1 \in 0..Len(s) /\ (i + 1) + 1 \in 0..(Len(s) + 1) /\ i + 1 \in 0..(Len(s) + 1)
      BY <1>1
    <3>4. /\ nx[P(i + 1)] = P((i + 1) + 1) /\ pv[P((i + 1) + 1)] = P(i + 1)
          /\ P(i + 1) \in Node /\ P((i + 1) + 1) \in Node
      BY <1>2, <1>3, <3>3
    <3> QED
      BY <1>6, <3>1, <3>2, <3>4
  <2> QED
    BY <1>1, <2>1, <2>2, <2>3
<1> QED
  BY <1>7 DEF Ring, n, p, Q

(* The pointers proc_slot changes make the ring of the longer list. *)
LEMMA RingInsert ==
    ASSUME NEW a \in Adjs, NEW s \in Seq(Pids), Once(s),
           NEW nx \in [Node -> Node], NEW pv \in [Node -> Node],
           Ring(nx, pv, s, a),
           NEW pid \in Pids, ~Listed(s, pid),
           NEW r \in Seq(Pids), Len(r) = Len(s) + 1, r[1] = pid,
           \A i \in 2..(Len(s) + 1) : r[i] = s[i - 1]
    PROVE  Ring([nx EXCEPT ![pid] = nx[a], ![a] = pid],
                [pv EXCEPT ![pid] = a, ![nx[a]] = pid], r, a)
<1> DEFINE n == [nx EXCEPT ![pid] = nx[a], ![a] = pid]
           p == [pv EXCEPT ![pid] = a, ![nx[a]] = pid]
           P(i) == Pos(s, a, i)
           Q(i) == Pos(r, a, i)
<1>1. /\ Len(s) \in Nat
      /\ \A i \in 1..Len(s) : P(i) = s[i] /\ s[i] \in Pids
      /\ P(0) = a /\ P(Len(s) + 1) = a
      /\ \A i, j \in 0..Len(s) : P(i) = P(j) => i = j
      /\ \A i, j \in 1..(Len(s) + 1) : P(i) = P(j) => i = j
  BY PlacesDiffer
<1>2. \A i \in 0..Len(s) : nx[P(i)] = P(i + 1) /\ pv[P(i + 1)] = P(i)
  BY DEF Ring
<1>3. \A i \in 0..(Len(s) + 1) : P(i) \in Node /\ P(i) # pid
  <2>1. \A i \in 0..(Len(s) + 1) : i \in 1..Len(s) \/ i = 0 \/ i = Len(s) + 1
    BY <1>1
  <2>2. a # pid /\ a \in Node
    BY AdjListAssumption DEF Node
  <2>3. \A i \in 1..Len(s) : s[i] # pid
    BY DEF Listed
  <2> HIDE DEF P
  <2> QED
    BY <1>1, <2>1, <2>2, <2>3 DEF Node
<1>4. Q(0) = a /\ Q(1) = pid /\ \A i \in 2..(Len(s) + 2) : Q(i) = P(i - 1)
  <2>1. Q(0) = a /\ Q(1) = pid
    BY <1>1 DEF Pos
  <2>2. ASSUME NEW i \in 2..(Len(s) + 2) PROVE Q(i) = P(i - 1)
    <3>1. CASE i \in 2..(Len(s) + 1)
      BY <1>1, <3>1 DEF Pos
    <3>2. CASE i = Len(s) + 2
      BY <1>1, <3>2 DEF Pos
    <3> QED
      BY <1>1, <3>1, <3>2
  <2> QED
    BY <2>1, <2>2
<1>5. nx[a] = P(1) /\ P(1) \in Node /\ P(1) # pid /\ pid \in Node /\ a \in Node /\ a # pid
  <2>1. 0 \in 0..Len(s) /\ 0 + 1 = 1 /\ 1 \in 0..(Len(s) + 1)
    BY <1>1
  <2> HIDE DEF P
  <2> QED
    BY <1>1, <1>2, <1>3, <2>1, AdjListAssumption DEF Node
<1> HIDE DEF P, Q
<1>6. /\ n[a] = pid /\ n[pid] = P(1)
      /\ \A x \in Node : x # a /\ x # pid => n[x] = nx[x]
      /\ p[P(1)] = pid /\ p[pid] = a
      /\ \A x \in Node : x # P(1) /\ x # pid => p[x] = pv[x]
  BY <1>5
<1> HIDE DEF n, p
<1>7. ASSUME NEW i \in 0..(Len(s) + 1)
      PROVE  n[Q(i)] = Q(i + 1) /\ p[Q(i + 1)] = Q(i)
  <2>1. CASE i = 0
    BY <1>4, <1>6, <2>1
  <2>2. CASE i = 1
    <3>1. Q(1) = pid /\ Q(1 + 1) = P(1)
      <4>1. 2 \in 2..(Len(s) + 2) /\ 1 + 1 = 2 /\ 2 - 1 = 1
        BY <1>1
      <4>2. Q(2) = P(2 - 1)
        BY <1>4, <4>1
      <4> QED
        BY <1>4, <4>1, <4>2
    <3> QED
      BY <1>6, <2>2, <3>1
  <2>3. CASE i > 1
    <3>1. /\ i \in 2..(Len(s) + 2) /\ i + 1 \in 2..(Len(s) + 2)
          /\ i - 1 \in 0..Len(s) /\ (i - 1) + 1 = i /\ (i + 1) - 1 = i
          /\ i - 1 \in 0..(Len(s) + 1) /\ i \in 0..(Len(s) + 1)
          /\ i - 1 # 0 /\ i # 1 /\ i \in 1..(Len(s) + 1) /\ 1 \in 1..(Len(s) + 1) /\ 0 \in 0..Len(s)
      BY <1>1, <2>3
    <3>2. Q(i) = P(i - 1) /\ Q(i + 1) = P(i)
      <4>1. Q(i + 1) = P((i + 1) - 1)
        BY <1>4, <3>1
      <4> QED
        BY <1>4, <3>1, <4>1
    <3>3. nx[P(i - 1)] = P(i) /\ pv[P(i)] = P(i - 1)
      <4>1. nx[P(i - 1)] = P((i - 1) + 1) /\ pv[P((i - 1) + 1)] = P(i - 1)
        BY <1>2, <3>1
      <4> QED
        BY <3>1, <4>1
    <3>4. P(i - 1) # P(0) /\ P(i) # P(1)
      BY <1>1, <3>1
    <3>5. P(i - 1) \in Node /\ P(i - 1) # pid /\ P(i) \in Node /\ P(i) # pid
      BY <1>3, <3>1
    <3> QED
      BY <1>1, <1>6, <3>2, <3>3, <3>4, <3>5
  <2> QED
    BY <1>1, <2>1, <2>2, <2>3
<1> QED
  BY <1>7 DEF Ring, n, p, Q
=============================================================================
