------------------------------ MODULE AdjList ------------------------------
(***************************************************************************)
(* The pointers behind ProcTable: procadjslot_list is one ring of records  *)
(* for each oom_score_adj, linked both ways through an anchor, and pidhash *)
(* one singly linked chain of records for each hash value.                 *)
(*                                                                         *)
(* A record is named by its pid, the anchor of a ring by its               *)
(* oom_score_adj.  rec[pid] is NoRecord before calloc and after free.      *)
(* slot, the lists of ProcTable, is what the rings have to represent.      *)
(***************************************************************************)
EXTENDS ProcTable, FiniteSets

CONSTANTS
    Buckets,        \* indices of pidhash
    pid_hashfn,     \* the bucket of each pid
    Null

ASSUME AdjListAssumption ==
    /\ pid_hashfn \in [Pids -> Buckets]
    /\ IsFiniteSet(Pids)
    /\ Pids \cap Adjs = {}
    /\ Null \notin Pids \cup Adjs

Node == Pids \cup Adjs

VARIABLES
    next, prev,     \* asl of each record and of each anchor
    pidhash,        \* first record of each chain
    pidhash_next    \* pidhash_next of each record

ringVars == <<slot, next, prev>>
hashVars == <<pidhash, pidhash_next>>

AdjListInit ==
    /\ ProcTableInit
    /\ next = [n \in Node |-> n]
    /\ prev = [n \in Node |-> n]
    /\ pidhash = [b \in Buckets |-> Null]
    /\ pidhash_next = [pid \in Pids |-> Null]

-----------------------------------------------------------------------------
(* Mutant: the old first record keeps its way back to the anchor. *)
proc_slot_OneWay(pid, a) ==
    /\ next' = [next EXCEPT ![pid] = next[a], ![a] = pid]
    /\ prev' = [prev EXCEPT ![pid] = a]
    /\ slot' = [slot EXCEPT ![a] = adjslot_insert(@, pid)]

(* proc_slot: adjslot_insert after the anchor of a. *)
proc_slot(pid, a) ==
    /\ next' = [next EXCEPT ![pid] = next[a], ![a] = pid]
    /\ prev' = [prev EXCEPT ![pid] = a, ![next[a]] = pid]
    /\ slot' = [slot EXCEPT ![a] = adjslot_insert(@, pid)]

(* proc_unslot: adjslot_remove, the neighbours pass the record by. *)
proc_unslot(pid) ==
    /\ next' = [next EXCEPT ![prev[pid]] = next[pid]]
    /\ prev' = [prev EXCEPT ![next[pid]] = prev[pid]]
    /\ slot' = [slot EXCEPT ![rec[pid].oomadj] = adjslot_remove(@, pid)]

(* adjslot_tail of a ring: NULL when only the anchor is there. *)
ring_tail(a) == IF prev[a] = a THEN Null ELSE prev[a]

(* The nodes one meets going back from the anchor of a, which is met again *)
(* after all records.                                                      *)
Back(a) ==
    LET node[k \in 0..Cardinality(Pids)] == IF k = 0 THEN prev[a] ELSE prev[node[k - 1]]
    IN  node

OnRing(pid, a) ==
    \E k \in 0..Cardinality(Pids) :
      Back(a)[k] = pid /\ \A j \in 0..k : Back(a)[j] # a

(* proc_adj_prev of a ring that is not empty. *)
proc_adj_prev(a, pid) == IF OnRing(pid, a) THEN prev[pid] ELSE Null

-----------------------------------------------------------------------------
(* proc_insert puts the record in front of its chain. *)
hash_insert(pid) ==
    /\ pidhash_next' = [pidhash_next EXCEPT ![pid] = pidhash[pid_hashfn[pid]]]
    /\ pidhash' = [pidhash EXCEPT ![pid_hashfn[pid]] = pid]

(* pid_remove walks the chain to the pointer at the record and moves it on *)
(* to the record's successor.                                              *)
hash_remove(pid) ==
    /\ pidhash' = [b \in Buckets |->
         IF pidhash[b] = pid THEN pidhash_next[pid] ELSE pidhash[b]]
    /\ pidhash_next' = [q \in Pids |->
         IF pidhash_next[q] = pid THEN pidhash_next[pid] ELSE pidhash_next[q]]

-----------------------------------------------------------------------------
(* The node at position i of the list of a, with the anchor at both ends. *)
At(a, i) == IF i \in 1..Len(slot[a]) THEN slot[a][i] ELSE a

(* The ring of each oom_score_adj links the records of its list, in the    *)
(* order of the list from next and in the opposite order from prev:        *)
(* whoever walks a ring either way meets every record of the list once and *)
(* then the anchor.                                                        *)
RingsAreLists ==
    \A a \in Adjs : \A i \in 0..Len(slot[a]) :
      /\ next[At(a, i)] = At(a, i + 1)
      /\ prev[At(a, i + 1)] = At(a, i)
=============================================================================
