------------------------- MODULE WatchdogListProofs -------------------------
(***************************************************************************)
(* The inductive invariant that ties the rings, the hash chains and the    *)
(* walk of the watchdog to the records, and what the operations on rings   *)
(* and chains do to it.                                                    *)
(***************************************************************************)
EXTENDS Watchdog, AdjListProofs

-----------------------------------------------------------------------------
(* The record the main thread works on is not in a ring between            *)
(* proc_unslot and proc_slot, before its first proc_slot and before free.  *)
Unlisted(pid) == mpc \in {"insert", "moved", "free"} /\ arg = pid

(* A record that may be in a hash chain: pid_remove has not begun with it. *)
Linked(pid) ==
    /\ pid \in Pids /\ rec[pid] # NoRecord
    /\ ~(mpc \in {"pid_remove", "free"} /\ arg = pid)

(* No chain runs into itself: its links are part of a strict order. *)
Acyclic(nx) ==
    \E R \in SUBSET (Pids \X Pids) :
      /\ \A x \in Pids : <<x, x>> \notin R
      /\ \A x, y, z \in Pids : <<x, y>> \in R /\ <<y, z>> \in R => <<x, z>> \in R
      /\ \A x \in Pids : nx[x] # Null => <<x, nx[x]>> \in R

Types ==
    /\ rec \in [Pids -> Record \cup {NoRecord}]
    /\ slot \in [Adjs -> Seq(Pids)]
    /\ next \in [Node -> Node] /\ prev \in [Node -> Node]
    /\ pidhash \in [Buckets -> Pids \cup {Null}]
    /\ pidhash_next \in [Pids -> Pids \cup {Null}]
    /\ mpc \in {"insert", "moved", "pid_remove", "free"} => arg \in Pids /\ rec[arg] # NoRecord

(* The rings hold exactly the records that are not on their way. *)
Lists ==
    \A a \in Adjs :
      /\ Once(slot[a]) /\ Ring(next, prev, slot[a], a)
      /\ \A pid \in Pids :
           Listed(slot[a], pid) <=>
             rec[pid] # NoRecord /\ rec[pid].oomadj = a /\ ~Unlisted(pid)

Chains ==
    /\ \A b \in Buckets : pidhash[b] # Null => Linked(pidhash[b])
    /\ \A q \in Pids : pidhash_next[q] # Null => Linked(pidhash_next[q])
    /\ Acyclic(pidhash_next)

(* The record pid_lookup is at may have left the chain, but not the ring:  *)
(* proc_unslot waits for the lock.                                         *)
Walk ==
    /\ procp \in Pids \cup {Null}
    /\ wpc \in {"kill", "pid_invalidate"} => target.pid \in Pids
    /\ wpc = "pid_lookup" /\ procp # Null =>
         rec[procp] # NoRecord /\ ~(mpc = "free" /\ arg = procp)

Inv == Types /\ Lists /\ Chains /\ Walk

-----------------------------------------------------------------------------
(* A record is in one list, and the rings share no node. *)
LEMMA ListsDiffer ==
    ASSUME Types, Lists, NEW a \in Adjs, NEW b \in Adjs, a # b
    PROVE  /\ \A pid \in Pids : ~(Listed(slot[a], pid) /\ Listed(slot[b], pid))
           /\ \A i \in 1..Len(slot[b]) : Listed(slot[b], slot[b][i]) /\ slot[b][i] \in Pids
           /\ \A pid \in Pids : pid # a
BY ElementOfSeq, AdjListAssumption DEF Types, Lists, Listed

(* proc_unslot takes one record out of its list and out of its ring. *)
LEMMA Unslot ==
    ASSUME Types, Lists, NEW pid \in Pids, rec[pid] # NoRecord, ~Unlisted(pid), proc_unslot(pid)
    PROVE  /\ slot' \in [Adjs -> Seq(Pids)] /\ next' \in [Node -> Node] /\ prev' \in [Node -> Node]
           /\ \A b \in Adjs :
                /\ Once(slot'[b]) /\ Ring(next', prev', slot'[b], b)
                /\ \A q \in Pids : Listed(slot'[b], q) <=> Listed(slot[b], q) /\ q # pid
<1> DEFINE a == rec[pid].oomadj
           s == slot[a]
           r == adjslot_remove(s, pid)
<1>1. a \in Adjs /\ s \in Seq(Pids) /\ Once(s) /\ Listed(s, pid) /\ Ring(next, prev, s, a)
  BY DEF Types, Lists, Record
<1>2. pid \in Node /\ next[pid] \in Node /\ prev[pid] \in Node
  BY DEF Types, Node
<1>3. PICK k \in 1..Len(s) :
        /\ s[k] = pid
        /\ r \in Seq(Pids)
        /\ Len(r) = Len(s) - 1
        /\ \A i \in 1..(Len(s) - 1) : r[i] = IF i < k THEN s[i] ELSE s[i + 1]
  BY <1>1, RemovePlace
<1>4. /\ slot' = [slot EXCEPT ![a] = r]
      /\ next' = [next EXCEPT ![prev[pid]] = next[pid]]
      /\ prev' = [prev EXCEPT ![next[pid]] = prev[pid]]
  BY DEF proc_unslot
<1> HIDE DEF r, s, a
<1>5. slot' \in [Adjs -> Seq(Pids)] /\ slot'[a] = r /\ \A b \in Adjs : b # a => slot'[b] = slot[b]
  BY <1>1, <1>3, <1>4 DEF Types
<1>6. next' \in [Node -> Node] /\ prev' \in [Node -> Node]
  BY <1>2, <1>4 DEF Types
<1>7. Ring(next', prev', r, a)
  BY <1>1, <1>3, <1>4, RingRemove DEF Types
<1>8. Len(s) \in Nat /\ \A i, j \in 1..Len(s) : s[i] = s[j] => i = j
  BY <1>1, LenProperties DEF Once
<1>9. Once(r)
  BY <1>3, <1>8 DEF Once
<1>10. ASSUME NEW q \in Pids PROVE Listed(r, q) <=> Listed(s, q) /\ q # pid
  <2>1. ASSUME Listed(r, q) PROVE Listed(s, q) /\ q # pid
    <3>1. PICK i \in 1..(Len(s) - 1) : r[i] = q
      BY <1>3, <2>1 DEF Listed
    <3>2. CASE i < k
      BY <1>3, <1>8, <3>1, <3>2 DEF Listed
    <3>3. CASE ~(i < k)
      <4>1. i + 1 \in 1..Len(s) /\ i + 1 # k /\ s[i + 1] = q
        BY <1>3, <1>8, <3>1, <3>3
      <4> QED
        BY <1>3, <1>8, <4>1 DEF Listed
    <3> QED
      BY <3>2, <3>3
  <2>2. ASSUME Listed(s, q), q # pid PROVE Listed(r, q)
    <3>1. PICK i \in 1..Len(s) : s[i] = q
      BY <2>2 DEF Listed
    <3>2. CASE i < k
      <4>1. i \in 1..(Len(s) - 1) /\ r[i] = q
        BY <1>3, <1>8, <3>1, <3>2
      <4> QED
        BY <1>3, <4>1 DEF Listed
    <3>3. CASE i > k
      <4>1. i - 1 \in 1..(Len(s) - 1) /\ ~(i - 1 < k) /\ (i - 1) + 1 = i
        BY <1>3, <1>8, <3>1, <3>3
      <4>2. r[i - 1] = q
        BY <1>3, <3>1, <4>1
      <4> QED
        BY <1>3, <4>1, <4>2 DEF Listed
    <3>4. i # k
      BY <1>3, <2>2, <3>1
    <3> QED
      BY <1>8, <3>2, <3>3, <3>4
  <2> QED
    BY <2>1, <2>2
<1>11. ASSUME NEW b \in Adjs, b # a
       PROVE  /\ Once(slot[b]) /\ Ring(next', prev', slot[b], b)
              /\ \A q \in Pids : Listed(slot[b], q) => q # pid
  <2>1. /\ \A q \in Pids : ~(Listed(s, q) /\ Listed(slot[b], q))
        /\ \A i \in 1..Len(slot[b]) : Listed(slot[b], slot[b][i]) /\ slot[b][i] \in Pids
        /\ \A q \in Pids : q # a /\ q # b
    BY <1>1, <1>11, ListsDiffer DEF s
  <2>2. slot[b] \in Seq(Pids) /\ Once(slot[b]) /\ Ring(next, prev, slot[b], b)
    BY DEF Types, Lists
  <2>3. /\ prev[pid] = a \/ (prev[pid] \in Pids /\ Listed(s, prev[pid]))
        /\ next[pid] = a \/ (next[pid] \in Pids /\ Listed(s, next[pid]))
    <3>1. \A i : Pos(s, a, i) = a \/ (Pos(s, a, i) \in Pids /\ Listed(s, Pos(s, a, i)))
      BY <1>1, ElementOfSeq DEF Pos, Listed
    <3>2. Pos(s, a, k) = pid
      BY <1>3 DEF Pos
    <3>3. k \in 0..Len(s) /\ k - 1 \in 0..Len(s) /\ (k - 1) + 1 = k
      BY <1>3, <1>8
    <3>4. next[Pos(s, a, k)] = Pos(s, a, k + 1) /\ prev[Pos(s, a, (k - 1) + 1)] = Pos(s, a, k - 1)
      BY <1>1, <3>3 DEF Ring
    <3> QED
      BY <3>1, <3>2, <3>3, <3>4
  <2>4. /\ prev[pid] # b /\ next[pid] # b
        /\ \A i \in 1..Len(slot[b]) : slot[b][i] # prev[pid] /\ slot[b][i] # next[pid]
    BY <1>11, <2>1, <2>3
  <2>5. /\ next'[b] = next[b] /\ prev'[b] = prev[b]
        /\ \A i \in 1..Len(slot[b]) : next'[slot[b][i]] = next[slot[b][i]] /\ prev'[slot[b][i]] = prev[slot[b][i]]
    BY <1>4, <2>1, <2>4 DEF Types, Node
  <2>6. Ring(next', prev', slot[b], b)
    BY <2>2, <2>5, RingKept
  <2> QED
    BY <1>1, <2>1, <2>2, <2>6
<1> QED
  BY <1>5, <1>6, <1>7, <1>9, <1>10, <1>11 DEF s

(* proc_slot puts a record that is in no list in front of one. *)
LEMMA SlotFront ==
    ASSUME Types, Lists, NEW pid \in Pids, NEW a \in Adjs, Unlisted(pid), proc_slot(pid, a)
    PROVE  /\ slot' \in [Adjs -> Seq(Pids)] /\ next' \in [Node -> Node] /\ prev' \in [Node -> Node]
           /\ \A b \in Adjs :
                /\ Once(slot'[b]) /\ Ring(next', prev', slot'[b], b)
                /\ \A q \in Pids : Listed(slot'[b], q) <=> Listed(slot[b], q) \/ (b = a /\ q = pid)
<1> DEFINE s == slot[a]
           r == adjslot_insert(s, pid)
<1>1. s \in Seq(Pids) /\ Once(s) /\ ~Listed(s, pid) /\ Ring(next, prev, s, a)
  BY DEF Types, Lists
<1>2. pid \in Node /\ a \in Node /\ next[a] \in Node
  BY DEF Types, Node
<1>3. /\ r \in Seq(Pids)
      /\ Len(r) = Len(s) + 1
      /\ r[1] = pid
      /\ \A i \in 2..(Len(s) + 1) : r[i] = s[i - 1]
  BY <1>1, InsertPlace
<1>4. /\ slot' = [slot EXCEPT ![a] = r]
      /\ next' = [next EXCEPT ![pid] = next[a], ![a] = pid]
      /\ prev' = [prev EXCEPT ![pid] = a, ![next[a]] = pid]
  BY DEF proc_slot
<1> HIDE DEF r, s
<1>5. slot' \in [Adjs -> Seq(Pids)] /\ slot'[a] = r /\ \A b \in Adjs : b # a => slot'[b] = slot[b]
  BY <1>3, <1>4 DEF Types
<1>6. next' \in [Node -> Node] /\ prev' \in [Node -> Node]
  BY <1>2, <1>4 DEF Types
<1>7. Ring(next', prev', r, a)
  BY <1>1, <1>3, <1>4, RingInsert DEF Types
<1>8. Len(s) \in Nat /\ \A i, j \in 1..Len(s) : s[i] = s[j] => i = j
  BY <1>1, LenProperties DEF Once
<1>9. Once(r)
  <2> SUFFICES ASSUME NEW i \in 1..(Len(s) + 1), NEW j \in 1..(Len(s) + 1), r[i] = r[j] PROVE i = j
    BY <1>3 DEF Once
  <2>1. i = 1 \/ (i \in 2..(Len(s) + 1) /\ i - 1 \in 1..Len(s) /\ r[i] = s[i - 1] /\ s[i - 1] # pid)
    BY <1>1, <1>3, <1>8 DEF Listed
  <2>2. j = 1 \/ (j \in 2..(Len(s) + 1) /\ j - 1 \in 1..Len(s) /\ r[j] = s[j - 1] /\ s[j - 1] # pid)
    BY <1>1, <1>3, <1>8 DEF Listed
  <2>3. (i = 1 /\ j = 1) \/ i - 1 = j - 1
    BY <1>3, <1>8, <2>1, <2>2
  <2> QED
    BY <1>8, <2>3
<1>10. ASSUME NEW q \in Pids PROVE Listed(r, q) <=> Listed(s, q) \/ q = pid
  <2>1. ASSUME Listed(r, q), q # pid PROVE Listed(s, q)
    <3>1. PICK i \in 1..(Len(s) + 1) : r[i] = q
      BY <1>3, <2>1 DEF Listed
    <3>2. i # 1
      BY <1>3, <2>1, <3>1
    <3>3. i \in 2..(Len(s) + 1) /\ i - 1 \in 1..Len(s)
      BY <1>8, <3>2
    <3> QED
      BY <1>3, <3>1, <3>3 DEF Listed
  <2>2. ASSUME Listed(s, q) PROVE Listed(r, q)
    <3>1. PICK i \in 1..Len(s) : s[i] = q
      BY <2>2 DEF Listed
    <3>2. i + 1 \in 2..(Len(s) + 1) /\ i + 1 \in 1..(Len(s) + 1) /\ (i + 1) - 1 = i
      BY <1>8
    <3>3. r[i + 1] = q
      BY <1>3, <3>1, <3>2
    <3> QED
      BY <1>3, <3>2, <3>3 DEF Listed
  <2>3. Listed(r, pid)
    <3>1. 1 \in 1..(Len(s) + 1)
      BY <1>8
    <3> QED
      BY <1>3, <3>1 DEF Listed
  <2> QED
    BY <2>1, <2>2, <2>3
<1>11. ASSUME NEW b \in Adjs, b # a
       PROVE  Once(slot[b]) /\ Ring(next', prev', slot[b], b)
  <2>1. /\ \A q \in Pids : ~(Listed(s, q) /\ Listed(slot[b], q))
        /\ \A i \in 1..Len(slot[b]) : Listed(slot[b], slot[b][i]) /\ slot[b][i] \in Pids
        /\ \A q \in Pids : q # a /\ q # b
    BY <1>11, ListsDiffer DEF s
  <2>2. slot[b] \in Seq(Pids) /\ Once(slot[b]) /\ Ring(next, prev, slot[b], b) /\ ~Listed(slot[b], pid)
    BY DEF Types, Lists
  <2>3. next[a] = a \/ (next[a] \in Pids /\ Listed(s, next[a]))
    <3>1. \A i : Pos(s, a, i) = a \/ (Pos(s, a, i) \in Pids /\ Listed(s, Pos(s, a, i)))
      BY <1>1, ElementOfSeq DEF Pos, Listed
    <3>2. 0 \in 0..Len(s) /\ 0 + 1 = 1 /\ Pos(s, a, 0) = a
      BY <1>8 DEF Pos
    <3>3. next[Pos(s, a, 0)] = Pos(s, a, 0 + 1)
      BY <1>1, <3>2 DEF Ring
    <3> QED
      BY <3>1, <3>2, <3>3
  <2>4. /\ next[a] # b /\ pid # b
        /\ \A i \in 1..Len(slot[b]) : slot[b][i] # next[a] /\ slot[b][i] # a /\ slot[b][i] # pid
    BY <1>11, <2>1, <2>2, <2>3
  <2>5. /\ next'[b] = next[b] /\ prev'[b] = prev[b]
        /\ \A i \in 1..Len(slot[b]) : next'[slot[b][i]] = next[slot[b][i]] /\ prev'[slot[b][i]] = prev[slot[b][i]]
    BY <1>4, <1>11, <2>1, <2>4 DEF Types, Node
  <2>6. Ring(next', prev', slot[b], b)
    BY <2>2, <2>5, RingKept
  <2> QED
    BY <2>2, <2>6
<1> QED
  BY <1>5, <1>6, <1>7, <1>9, <1>10, <1>11 DEF s

-----------------------------------------------------------------------------
(* proc_insert puts a record nobody points at in front of a chain. *)
LEMMA InsertAcyclic ==
    ASSUME Types, Acyclic(pidhash_next), NEW pid \in Pids, hash_insert(pid),
           \A b \in Buckets : pidhash[b] # pid, \A q \in Pids : pidhash_next[q] # pid
    PROVE  Acyclic(pidhash_next')
<1>1. PICK R \in SUBSET (Pids \X Pids) :
        /\ \A x \in Pids : <<x, x>> \notin R
        /\ \A x, y, z \in Pids : <<x, y>> \in R /\ <<y, z>> \in R => <<x, z>> \in R
        /\ \A x \in Pids : pidhash_next[x] # Null => <<x, pidhash_next[x]>> \in R
  BY DEF Acyclic
<1> DEFINE Q == {e \in Pids \X Pids : e[2] # pid /\ (e[1] = pid \/ e \in R)}
<1>2. \A x, y \in Pids : <<x, y>> \in Q <=> y # pid /\ (x = pid \/ <<x, y>> \in R)
  OBVIOUS
<1>3. Q \in SUBSET (Pids \X Pids)
  OBVIOUS
<1> HIDE DEF Q
<1>4. \A x \in Pids : <<x, x>> \notin Q
  BY <1>1, <1>2
<1>5. \A x, y, z \in Pids : <<x, y>> \in Q /\ <<y, z>> \in Q => <<x, z>> \in Q
  BY <1>1, <1>2
<1>6. \A x \in Pids : pidhash_next'[x] # Null => <<x, pidhash_next'[x]>> \in Q
  <2> SUFFICES ASSUME NEW x \in Pids, pidhash_next'[x] # Null PROVE <<x, pidhash_next'[x]>> \in Q
    OBVIOUS
  <2>1. CASE x = pid
    <3>1. pid_hashfn[pid] \in Buckets /\ pidhash_next'[x] = pidhash[pid_hashfn[pid]]
      BY <2>1, AdjListAssumption DEF hash_insert, Types
    <3>2. pidhash_next'[x] \in Pids /\ pidhash_next'[x] # pid
      BY <3>1 DEF Types
    <3> QED
      BY <1>2, <2>1, <3>2
  <2>2. CASE x # pid
    <3>1. pidhash_next'[x] = pidhash_next[x] /\ pidhash_next[x] \in Pids /\ pidhash_next[x] # pid
      BY <2>2 DEF hash_insert, Types
    <3> QED
      BY <1>1, <1>2, <3>1
  <2> QED
    BY <2>1, <2>2
<1> QED
  BY <1>3, <1>4, <1>5, <1>6 DEF Acyclic

(* pid_remove leads the chain past the record, and no chain to itself. *)
LEMMA RemoveAcyclic ==
    ASSUME Types, Acyclic(pidhash_next), NEW pid \in Pids, hash_remove(pid)
    PROVE  Acyclic(pidhash_next') /\ pidhash_next[pid] # pid
<1>1. PICK R \in SUBSET (Pids \X Pids) :
        /\ \A x \in Pids : <<x, x>> \notin R
        /\ \A x, y, z \in Pids : <<x, y>> \in R /\ <<y, z>> \in R => <<x, z>> \in R
        /\ \A x \in Pids : pidhash_next[x] # Null => <<x, pidhash_next[x]>> \in R
  BY DEF Acyclic
<1>2. pidhash_next[pid] # pid
  BY <1>1, AdjListAssumption
<1>3. ASSUME NEW x \in Pids, pidhash_next'[x] # Null PROVE <<x, pidhash_next'[x]>> \in R
  <2>1. CASE pidhash_next[x] = pid
    <3>1. pidhash_next'[x] = pidhash_next[pid] /\ pidhash_next[pid] \in Pids /\ pid # Null
      BY <1>3, <2>1, AdjListAssumption DEF hash_remove, Types
    <3>2. <<x, pid>> \in R /\ <<pid, pidhash_next[pid]>> \in R
      BY <1>1, <1>3, <2>1, <3>1
    <3> QED
      BY <1>1, <3>1, <3>2
  <2>2. CASE pidhash_next[x] # pid
    BY <1>1, <1>3, <2>2 DEF hash_remove
  <2> QED
    BY <2>1, <2>2
<1>4. Acyclic(pidhash_next')
  BY <1>1, <1>3 DEF Acyclic
<1> QED
  BY <1>2, <1>4
=============================================================================
