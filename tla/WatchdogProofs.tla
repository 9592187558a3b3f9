--------------------------- MODULE WatchdogProofs ---------------------------
(***************************************************************************)
(* The rings of records stay the lists they represent, and neither thread  *)
(* reads a freed record, for any number of processes, oom_score_adj        *)
(* values, hash values and descriptors.                                    *)
(***************************************************************************)
EXTENDS WatchdogListProofs

-----------------------------------------------------------------------------
(* One lemma for each step of the main thread that changes the records.    *)
(* register_oom_adj_proc of an unknown pid.                                *)
LEMMA RegisterNewInv ==
    ASSUME Inv, NEW pid \in Pids, NEW a \in Adjs, RegisterNew(pid, a)
    PROVE  Inv'
<1>1. Types /\ Lists /\ Chains /\ Walk
  BY DEF Inv
<1>2. /\ mpc = "handler" /\ mpc' = "insert" /\ arg' = pid /\ rec[pid] = NoRecord
      /\ slot' = slot /\ next' = next /\ prev' = prev
      /\ wpc' = wpc /\ target' = target /\ procp' = procp
      /\ hash_insert(pid)
  BY DEF RegisterNew, MainAt, ringVars, dogVars
<1>3. PICK c \in Clients : rec' = [rec EXCEPT ![pid] = [oomadj |-> a, reg_pid |-> c, valid |-> TRUE]]
  BY DEF RegisterNew
<1>4. /\ rec' \in [Pids -> Record \cup {NoRecord}]
      /\ rec'[pid] # NoRecord
      /\ \A q \in Pids : q # pid => rec'[q] = rec[q]
  <2> DEFINE r == [oomadj |-> a, reg_pid |-> c, valid |-> TRUE]
  <2>1. r \in Record
    BY DEF Record
  <2>2. rec' = [rec EXCEPT ![pid] = r]
    BY <1>3
  <2> HIDE DEF r
  <2> QED
    BY <1>1, <2>1, <2>2, ProcTableAssumption DEF Types
<1>5. /\ \A b \in Buckets : pidhash[b] # Null => pidhash[b] \in Pids /\ rec[pidhash[b]] # NoRecord
      /\ \A q \in Pids : pidhash_next[q] # Null => pidhash_next[q] \in Pids /\ rec[pidhash_next[q]] # NoRecord
  BY <1>1 DEF Chains, Linked
<1>6. pid_hashfn[pid] \in Buckets /\ pid # Null
  BY AdjListAssumption
<1>7. /\ pidhash' \in [Buckets -> Pids \cup {Null}]
      /\ pidhash_next' \in [Pids -> Pids \cup {Null}]
  BY <1>1, <1>2, <1>6 DEF Types, hash_insert
<1>8. Types'
  BY <1>1, <1>2, <1>4, <1>7 DEF Types
<1>9. Lists'
  <2> SUFFICES ASSUME NEW b \in Adjs, NEW q \in Pids
               PROVE  Listed(slot[b], q) <=> rec'[q] # NoRecord /\ rec'[q].oomadj = b /\ ~Unlisted(q)'
    BY <1>1, <1>2 DEF Lists
  <2>1. Listed(slot[b], q) <=> rec[q] # NoRecord /\ rec[q].oomadj = b /\ ~Unlisted(q)
    BY <1>1 DEF Lists
  <2> QED
    BY <1>2, <1>4, <2>1 DEF Unlisted
<1>10. Chains'
  <2>1. ASSUME NEW b \in Buckets, pidhash'[b] # Null PROVE Linked(pidhash[b])'
    <3>1. pidhash'[b] = pid \/ (pidhash'[b] = pidhash[b] /\ pidhash[b] # Null)
      BY <1>1, <1>2, <2>1 DEF hash_insert, Types
    <3> QED
      BY <1>2, <1>4, <1>5, <3>1 DEF Linked
  <2>2. ASSUME NEW q \in Pids, pidhash_next'[q] # Null PROVE Linked(pidhash_next[q])'
    <3>1. \/ pidhash_next'[q] = pidhash[pid_hashfn[pid]] /\ pidhash[pid_hashfn[pid]] # Null
          \/ pidhash_next'[q] = pidhash_next[q] /\ pidhash_next[q] # Null
      BY <1>1, <1>2, <2>2 DEF hash_insert, Types
    <3> QED
      BY <1>2, <1>4, <1>5, <1>6, <3>1 DEF Linked
  <2>3. Acyclic(pidhash_next')
    <3>1. (\A b \in Buckets : pidhash[b] # pid) /\ \A q \in Pids : pidhash_next[q] # pid
      BY <1>2, <1>5, <1>6
    <3> QED
      BY <1>1, <1>2, <3>1, InsertAcyclic DEF Chains
  <2> QED
    BY <2>1, <2>2, <2>3 DEF Chains
<1>11. Walk'
  BY <1>1, <1>2, <1>4 DEF Walk
<1> QED
  BY <1>8, <1>9, <1>10, <1>11 DEF Inv

(* register_oom_adj_proc of a known pid leaves its old list. *)
LEMMA RegisterKnownInv ==
    ASSUME Inv, NEW pid \in Pids, NEW a \in Adjs, RegisterKnown(pid, a)
    PROVE  Inv'
<1>1. Types /\ Lists /\ Chains /\ Walk
  BY DEF Inv
<1>2. /\ mpc = "handler" /\ mpc' = "moved" /\ arg' = pid /\ rec[pid] # NoRecord
      /\ rec' = [rec EXCEPT ![pid].oomadj = a]
      /\ pidhash' = pidhash /\ pidhash_next' = pidhash_next
      /\ wpc' = wpc /\ target' = target /\ procp' = procp
      /\ proc_unslot(pid)
  BY DEF RegisterKnown, MainAt, hashVars, dogVars
<1>3. ~Unlisted(pid)
  BY <1>2 DEF Unlisted
<1>4. /\ slot' \in [Adjs -> Seq(Pids)] /\ next' \in [Node -> Node] /\ prev' \in [Node -> Node]
      /\ \A b \in Adjs :
           /\ Once(slot'[b]) /\ Ring(next', prev', slot'[b], b)
           /\ \A q \in Pids : Listed(slot'[b], q) <=> Listed(slot[b], q) /\ q # pid
  BY <1>1, <1>2, <1>3, Unslot
<1>5. /\ rec' \in [Pids -> Record \cup {NoRecord}]
      /\ rec'[pid] # NoRecord
      /\ \A q \in Pids : q # pid => rec'[q] = rec[q]
  <2>1. rec[pid] \in Record
    BY <1>1, <1>2 DEF Types
  <2>2. [rec[pid] EXCEPT !.oomadj = a] \in Record
    BY <2>1 DEF Record
  <2>3. rec' = [rec EXCEPT ![pid] = [rec[pid] EXCEPT !.oomadj = a]]
    BY <1>2
  <2> HIDE DEF Record
  <2> QED
    BY <1>1, <2>2, <2>3, ProcTableAssumption DEF Types
<1>6. Types'
  BY <1>1, <1>2, <1>4, <1>5 DEF Types
<1>7. Lists'
  <2> SUFFICES ASSUME NEW b \in Adjs, NEW q \in Pids
               PROVE  Listed(slot'[b], q) <=> rec'[q] # NoRecord /\ rec'[q].oomadj = b /\ ~Unlisted(q)'
    BY <1>4 DEF Lists
  <2>1. Listed(slot[b], q) <=> rec[q] # NoRecord /\ rec[q].oomadj = b /\ ~Unlisted(q)
    BY <1>1 DEF Lists
  <2>2. Listed(slot'[b], q) <=> Listed(slot[b], q) /\ q # pid
    BY <1>4
  <2> QED
    BY <1>2, <1>5, <2>1, <2>2 DEF Unlisted
<1>8. Chains'
  BY <1>1, <1>2, <1>5 DEF Chains, Linked
<1>9. Walk'
  BY <1>1, <1>2, <1>5 DEF Walk
<1> QED
  BY <1>6, <1>7, <1>8, <1>9 DEF Inv

(* proc_slot puts the record into the list of its oom_score_adj. *)
LEMMA SlotInv ==
    ASSUME Inv, Slot
    PROVE  Inv'
<1>1. Types /\ Lists /\ Chains /\ Walk
  BY DEF Inv
<1>2. /\ mpc \in {"insert", "moved"} /\ mpc' = "handler"
      /\ rec' = rec /\ pidhash' = pidhash /\ pidhash_next' = pidhash_next
      /\ wpc' = wpc /\ target' = target /\ procp' = procp
      /\ proc_slot(arg, rec[arg].oomadj)
  BY DEF Slot, MainAt, hashVars, dogVars
<1>3. arg \in Pids /\ rec[arg] # NoRecord /\ rec[arg].oomadj \in Adjs /\ Unlisted(arg)
  BY <1>1, <1>2 DEF Types, Record, Unlisted
<1>4. /\ slot' \in [Adjs -> Seq(Pids)] /\ next' \in [Node -> Node] /\ prev' \in [Node -> Node]
      /\ \A b \in Adjs :
           /\ Once(slot'[b]) /\ Ring(next', prev', slot'[b], b)
           /\ \A q \in Pids : Listed(slot'[b], q) <=> Listed(slot[b], q) \/ (b = rec[arg].oomadj /\ q = arg)
  BY <1>1, <1>2, <1>3, SlotFront
<1>5. Types'
  BY <1>1, <1>2, <1>4 DEF Types
<1>6. Lists'
  <2> SUFFICES ASSUME NEW b \in Adjs, NEW q \in Pids
               PROVE  Listed(slot'[b], q) <=> rec'[q] # NoRecord /\ rec'[q].oomadj = b /\ ~Unlisted(q)'
    BY <1>4 DEF Lists
  <2>1. Listed(slot[b], q) <=> rec[q] # NoRecord /\ rec[q].oomadj = b /\ ~Unlisted(q)
    BY <1>1 DEF Lists
  <2>2. Listed(slot'[b], q) <=> Listed(slot[b], q) \/ (b = rec[arg].oomadj /\ q = arg)
    BY <1>4
  <2> QED
    BY <1>2, <1>3, <2>1, <2>2 DEF Unlisted
<1>7. Chains'
  BY <1>1, <1>2 DEF Chains, Linked
<1>8. Walk'
  BY <1>1, <1>2 DEF Walk
<1> QED
  BY <1>5, <1>6, <1>7, <1>8 DEF Inv

(* pid_remove takes the record out of its chain without the lock. *)
LEMMA RemoveBeginInv ==
    ASSUME Inv, NEW pid \in Pids, RemoveBegin(pid)
    PROVE  Inv'
<1>1. Types /\ Lists /\ Chains /\ Walk
  BY DEF Inv
<1>2. /\ mpc = "handler" /\ mpc' = "pid_remove" /\ arg' = pid /\ rec[pid] # NoRecord
      /\ rec' = rec /\ slot' = slot /\ next' = next /\ prev' = prev
      /\ wpc' = wpc /\ target' = target /\ procp' = procp
      /\ hash_remove(pid)
  BY DEF RemoveBegin, MainAt, ringVars, dogVars
<1>3. Acyclic(pidhash_next') /\ pidhash_next[pid] # pid
  BY <1>1, <1>2, RemoveAcyclic DEF Chains
<1>4. Types'
  BY <1>1, <1>2 DEF Types, hash_remove
<1>5. Lists'
  BY <1>1, <1>2 DEF Lists, Unlisted
<1>6. Chains'
  <2>1. ASSUME NEW b \in Buckets, pidhash'[b] # Null PROVE Linked(pidhash[b])'
    <3>1. \/ pidhash'[b] = pidhash_next[pid] /\ pidhash_next[pid] # Null
          \/ pidhash'[b] = pidhash[b] /\ pidhash[b] # Null /\ pidhash[b] # pid
      BY <1>2, <2>1 DEF hash_remove
    <3> QED
      BY <1>1, <1>2, <1>3, <3>1 DEF Chains, Linked
  <2>2. ASSUME NEW q \in Pids, pidhash_next'[q] # Null PROVE Linked(pidhash_next[q])'
    <3>1. \/ pidhash_next'[q] = pidhash_next[pid] /\ pidhash_next[pid] # Null
          \/ pidhash_next'[q] = pidhash_next[q] /\ pidhash_next[q] # Null /\ pidhash_next[q] # pid
      BY <1>2, <2>2 DEF hash_remove
    <3> QED
      BY <1>1, <1>2, <1>3, <3>1 DEF Chains, Linked
  <2> QED
    BY <1>3, <2>1, <2>2 DEF Chains
<1>7. Walk'
  BY <1>1, <1>2 DEF Walk
<1> QED
  BY <1>4, <1>5, <1>6, <1>7 DEF Inv

(* ... out of its ring with the lock, so that pid_lookup is not under way. *)
LEMMA RemoveUnslotInv ==
    ASSUME Inv, RemoveUnslot
    PROVE  Inv'
<1>1. Types /\ Lists /\ Chains /\ Walk
  BY DEF Inv
<1>2. /\ mpc = "pid_remove" /\ mpc' = "free" /\ arg' = arg
      /\ rec' = rec /\ pidhash' = pidhash /\ pidhash_next' = pidhash_next
      /\ wpc' = wpc /\ target' = target /\ procp' = procp
      /\ wpc # "pid_lookup"
      /\ proc_unslot(arg)
  BY DEF RemoveUnslot, MainAt, Shared, hashVars, dogVars
<1>3. arg \in Pids /\ rec[arg] # NoRecord /\ ~Unlisted(arg)
  BY <1>1, <1>2 DEF Types, Unlisted
<1>4. /\ slot' \in [Adjs -> Seq(Pids)] /\ next' \in [Node -> Node] /\ prev' \in [Node -> Node]
      /\ \A b \in Adjs :
           /\ Once(slot'[b]) /\ Ring(next', prev', slot'[b], b)
           /\ \A q \in Pids : Listed(slot'[b], q) <=> Listed(slot[b], q) /\ q # arg
  BY <1>1, <1>2, <1>3, Unslot
<1>5. Types'
  BY <1>1, <1>2, <1>4 DEF Types
<1>6. Lists'
  <2> SUFFICES ASSUME NEW b \in Adjs, NEW q \in Pids
               PROVE  Listed(slot'[b], q) <=> rec'[q] # NoRecord /\ rec'[q].oomadj = b /\ ~Unlisted(q)'
    BY <1>4 DEF Lists
  <2>1. Listed(slot[b], q) <=> rec[q] # NoRecord /\ rec[q].oomadj = b /\ ~Unlisted(q)
    BY <1>1 DEF Lists
  <2>2. Listed(slot'[b], q) <=> Listed(slot[b], q) /\ q # arg
    BY <1>4
  <2> QED
    BY <1>2, <2>1, <2>2 DEF Unlisted
<1>7. Chains'
  BY <1>1, <1>2 DEF Chains, Linked
<1>8. Walk'
  BY <1>1, <1>2 DEF Walk
<1> QED
  BY <1>5, <1>6, <1>7, <1>8 DEF Inv

(* ... and frees it: nothing leads there any more. *)
LEMMA RemoveFreeInv ==
    ASSUME Inv, RemoveFree
    PROVE  Inv'
<1>1. Types /\ Lists /\ Chains /\ Walk
  BY DEF Inv
<1>2. /\ mpc = "free" /\ mpc' = "handler"
      /\ rec' = [rec EXCEPT ![arg] = NoRecord]
      /\ next' = [next EXCEPT ![arg] = arg]
      /\ prev' = [prev EXCEPT ![arg] = arg]
      /\ pidhash_next' = [pidhash_next EXCEPT ![arg] = Null]
      /\ slot' = slot /\ pidhash' = pidhash
      /\ wpc' = wpc /\ target' = target /\ procp' = procp
  BY DEF RemoveFree, MainAt, dogVars
<1>3. arg \in Pids /\ arg \in Node /\ Unlisted(arg)
  BY <1>1, <1>2 DEF Types, Unlisted, Node
<1>4. /\ rec' \in [Pids -> Record \cup {NoRecord}]
      /\ rec'[arg] = NoRecord /\ \A q \in Pids : q # arg => rec'[q] = rec[q]
  BY <1>1, <1>2, <1>3 DEF Types
<1>5. /\ next' \in [Node -> Node] /\ \A n \in Node : n # arg => next'[n] = next[n]
      /\ prev' \in [Node -> Node] /\ \A n \in Node : n # arg => prev'[n] = prev[n]
  BY <1>1, <1>2, <1>3 DEF Types
<1>6. /\ pidhash_next' \in [Pids -> Pids \cup {Null}]
      /\ \A q \in Pids : pidhash_next'[q] # Null => pidhash_next'[q] = pidhash_next[q]
  BY <1>1, <1>2, <1>3 DEF Types
<1>7. Types'
  BY <1>1, <1>2, <1>4, <1>5, <1>6 DEF Types
<1>8. Lists'
  <2>1. ASSUME NEW b \in Adjs PROVE Ring(next', prev', slot[b], b)
    <3>1. slot[b] \in Seq(Pids) /\ Ring(next, prev, slot[b], b) /\ ~Listed(slot[b], arg)
      BY <1>1, <1>3 DEF Types, Lists
    <3>2. b # arg /\ b \in Node /\ \A i \in 1..Len(slot[b]) : slot[b][i] # arg /\ slot[b][i] \in Node
      BY <1>3, <3>1, ElementOfSeq, AdjListAssumption DEF Listed, Node
    <3> QED
      BY <1>5, <3>1, <3>2, RingKept
  <2>2. ASSUME NEW b \in Adjs, NEW q \in Pids
        PROVE  Listed(slot[b], q) <=> rec'[q] # NoRecord /\ rec'[q].oomadj = b /\ ~Unlisted(q)'
    <3>1. Listed(slot[b], q) <=> rec[q] # NoRecord /\ rec[q].oomadj = b /\ ~Unlisted(q)
      BY <1>1 DEF Lists
    <3> QED
      BY <1>2, <1>4, <3>1 DEF Unlisted
  <2> QED
    BY <1>1, <1>2, <2>1, <2>2 DEF Lists
<1>9. Chains'
  <2>1. ASSUME NEW b \in Buckets, pidhash'[b] # Null PROVE Linked(pidhash[b])'
    BY <1>1, <1>2, <1>4, <2>1 DEF Chains, Linked
  <2>2. ASSUME NEW q \in Pids, pidhash_next'[q] # Null PROVE Linked(pidhash_next[q])'
    BY <1>1, <1>2, <1>4, <1>6, <2>2 DEF Chains, Linked
  <2>3. Acyclic(pidhash_next')
    BY <1>1, <1>6 DEF Chains, Acyclic
  <2> QED
    BY <2>1, <2>2, <2>3 DEF Chains
<1>10. Walk'
  BY <1>1, <1>2, <1>4 DEF Walk
<1> QED
  BY <1>7, <1>8, <1>9, <1>10 DEF Inv

-----------------------------------------------------------------------------
(* The invariant holds as long as the records and pid_lookup stand still. *)
LEMMA StandStill ==
    ASSUME Inv,
           UNCHANGED <<rec, ringVars, hashVars, procp>>,
           \/ UNCHANGED <<mpc, arg>>
           \/ {mpc, mpc'} \subseteq {"epoll_wait", "handler"},
           \/ UNCHANGED <<wpc, target>>
           \/ wpc' \notin {"kill", "pid_invalidate", "pid_lookup"}
           \/ wpc' # "pid_lookup" /\ target'.pid \in Pids
    PROVE  Inv'
<1>1. Types /\ Lists /\ Chains /\ Walk
  BY DEF Inv
<1>2. /\ rec' = rec /\ slot' = slot /\ next' = next /\ prev' = prev
      /\ pidhash' = pidhash /\ pidhash_next' = pidhash_next /\ procp' = procp
  BY DEF ringVars, hashVars
<1>3. \A pid \in Pids : Unlisted(pid)' = Unlisted(pid)
  BY <1>2 DEF Unlisted
<1>4. Types'
  BY <1>1, <1>2 DEF Types
<1>5. Lists'
  BY <1>1, <1>2, <1>3 DEF Lists
<1>6. Chains'
  BY <1>1, <1>2 DEF Chains, Linked
<1>7. Walk'
  BY <1>1, <1>2 DEF Walk
<1> QED
  BY <1>4, <1>5, <1>6, <1>7 DEF Inv

(* BiteOver resets the walk. *)
LEMMA BiteOverInv ==
    ASSUME Inv, BiteOver, UNCHANGED <<rec, ringVars, hashVars, mainVars>>
    PROVE  Inv'
<1>1. Types /\ Lists /\ Chains
  BY DEF Inv
<1>2. /\ rec' = rec /\ slot' = slot /\ next' = next /\ prev' = prev
      /\ pidhash' = pidhash /\ pidhash_next' = pidhash_next /\ mpc' = mpc /\ arg' = arg
  BY DEF ringVars, hashVars, mainVars
<1>3. Types' /\ Lists' /\ Chains'
  BY <1>1, <1>2 DEF Types, Lists, Chains, Unlisted, Linked
<1>4. Walk'
  BY DEF Walk, BiteOver
<1> QED
  BY <1>3, <1>4 DEF Inv

(* pid_lookup moves along the chain: a linked record is allocated. *)
LEMMA LookupInv ==
    ASSUME Inv, pid_invalidate_begin \/ pid_lookup
    PROVE  Inv'
<1>1. Types /\ Lists /\ Chains /\ Walk
  BY DEF Inv
<1>2. /\ rec' = rec /\ slot' = slot /\ next' = next /\ prev' = prev
      /\ pidhash' = pidhash /\ pidhash_next' = pidhash_next /\ mpc' = mpc /\ arg' = arg
      /\ wpc' = "pid_lookup"
  BY DEF pid_invalidate_begin, pid_lookup, DogAt, ringVars, hashVars, mainVars
<1>3. Types' /\ Lists' /\ Chains'
  BY <1>1, <1>2 DEF Types, Lists, Chains, Unlisted, Linked
<1>4. procp' = Null \/ Linked(procp')
  <2>1. CASE pid_invalidate_begin
    <3>1. target.pid \in Pids /\ pid_hashfn[target.pid] \in Buckets
      BY <1>1, <2>1, AdjListAssumption DEF Walk, pid_invalidate_begin, DogAt
    <3> QED
      BY <1>1, <2>1, <3>1 DEF Chains, pid_invalidate_begin
  <2>2. CASE pid_lookup
    <3>1. procp \in Pids /\ (procp' = Null \/ procp' = pidhash_next[procp])
      BY <1>1, <2>2 DEF Walk, pid_lookup
    <3> QED
      BY <1>1, <3>1 DEF Chains
  <2> QED
    BY <2>1, <2>2
<1>5. Walk'
  BY <1>2, <1>4 DEF Walk, Linked
<1> QED
  BY <1>3, <1>5 DEF Inv

(* pid_invalidate marks the record it found. *)
LEMMA InvalidateInv ==
    ASSUME Inv, pid_invalidate_end
    PROVE  Inv'
<1>1. Types /\ Lists /\ Chains /\ Walk
  BY DEF Inv
<1>2. /\ slot' = slot /\ next' = next /\ prev' = prev
      /\ pidhash' = pidhash /\ pidhash_next' = pidhash_next /\ mpc' = mpc /\ arg' = arg
      /\ wpc = "pid_lookup" /\ BiteOver
  BY DEF pid_invalidate_end, ringVars, hashVars, mainVars
<1>3. CASE procp = Null
  <2>1. rec' = rec
    BY <1>3 DEF pid_invalidate_end
  <2> QED
    BY <1>2, <2>1, BiteOverInv DEF ringVars, hashVars, mainVars
<1>4. CASE procp # Null
  <2>1. procp \in Pids /\ rec[procp] \in Record
    BY <1>1, <1>2, <1>4 DEF Walk, Types
  <2>2. rec' = [rec EXCEPT ![procp] = [rec[procp] EXCEPT !.valid = FALSE]]
    BY <1>4 DEF pid_invalidate_end
  <2>3. /\ [rec[procp] EXCEPT !.valid = FALSE] \in Record
        /\ [rec[procp] EXCEPT !.valid = FALSE].oomadj = rec[procp].oomadj
    BY <2>1 DEF Record
  <2>4. /\ rec' \in [Pids -> Record \cup {NoRecord}]
        /\ \A q \in Pids : /\ rec'[q] = NoRecord <=> rec[q] = NoRecord
                           /\ rec'[q].oomadj = rec[q].oomadj
    BY <1>1, <2>1, <2>2, <2>3, ProcTableAssumption DEF Types
  <2>5. Types'
    BY <1>1, <1>2, <2>4 DEF Types
  <2>6. Lists'
    BY <1>1, <1>2, <2>4 DEF Lists, Unlisted
  <2>7. Chains'
    BY <1>1, <1>2, <2>4 DEF Chains, Linked
  <2>8. Walk'
    BY <1>2 DEF Walk, BiteOver
  <2> QED
    BY <2>5, <2>6, <2>7, <2>8 DEF Inv
<1> QED
  BY <1>3, <1>4

(* Nothing is registered when lmkd starts. *)
Fresh ==
    /\ rec = [pid \in Pids |-> NoRecord] /\ slot = [a \in Adjs |-> <<>>]
    /\ next = [n \in Node |-> n] /\ prev = [n \in Node |-> n]
    /\ pidhash = [b \in Buckets |-> Null] /\ pidhash_next = [pid \in Pids |-> Null]
    /\ mpc = "epoll_wait" /\ wpc = "create_timer" /\ procp = Null

(* Empty tables satisfy the invariant. *)
LEMMA FreshInv == Fresh => Inv
<1> SUFFICES ASSUME Fresh PROVE Inv
  OBVIOUS
<1> USE DEF Fresh
<1>1. Types
  BY DEF Types
<1>2. Lists
  <2> SUFFICES ASSUME NEW a \in Adjs
               PROVE  /\ Once(<<>>) /\ Ring(next, prev, <<>>, a)
                      /\ \A pid \in Pids : ~Listed(<<>>, pid)
    BY DEF Lists
  <2>1. \A i : i \notin 1..Len(<<>>)
    BY EmptySeq
  <2>2. Once(<<>>) /\ \A pid \in Pids : ~Listed(<<>>, pid)
    BY <2>1 DEF Once, Listed
  <2>3. \A i : Pos(<<>>, a, i) = a
    BY <2>1 DEF Pos
  <2>4. next[a] = a /\ prev[a] = a
    BY DEF Node
  <2> QED
    BY <2>2, <2>3, <2>4 DEF Ring
<1>3. Chains
  <2>1. Acyclic(pidhash_next)
    <3>1. {} \in SUBSET (Pids \X Pids)
      OBVIOUS
    <3> QED
      BY <3>1 DEF Acyclic
  <2> QED
    BY <2>1 DEF Chains
<1>4. Walk
  BY DEF Walk
<1> QED
  BY <1>1, <1>2, <1>3, <1>4 DEF Inv

-----------------------------------------------------------------------------
(* The invariant is inductive. *)
LEMMA StepInv ==
    ASSUME Inv, [Next]_vars
    PROVE  Inv'
<1>1. CASE Kernel
  BY <1>1, StandStill DEF Kernel, Expire, Exit, mainVars, dogVars
<1>2. CASE Main
  <2>1. CASE HandlerBegin \/ HandlerEnd
    <3>1. /\ UNCHANGED <<rec, ringVars, hashVars, dogVars>>
          /\ {mpc, mpc'} \subseteq {"epoll_wait", "handler"}
      BY <2>1 DEF HandlerBegin, HandlerEnd, MainAt
    <3> QED
      BY <3>1, StandStill DEF dogVars
  <2>2. ASSUME NEW pid \in Pids, RemoveBegin(pid) PROVE Inv'
    BY <2>2, RemoveBeginInv
  <2>3. ASSUME NEW pid \in Pids, NEW a \in Adjs, RegisterNew(pid, a) PROVE Inv'
    BY <2>3, RegisterNewInv
  <2>4. ASSUME NEW pid \in Pids, NEW a \in Adjs, RegisterKnown(pid, a) PROVE Inv'
    BY <2>4, RegisterKnownInv
  <2>5. CASE Slot
    BY <2>5, SlotInv
  <2>6. CASE RemoveUnslot
    BY <2>6, RemoveUnslotInv
  <2>7. CASE RemoveFree
    BY <2>7, RemoveFreeInv
  <2> QED
    BY <1>2, <2>1, <2>2, <2>3, <2>4, <2>5, <2>6, <2>7 DEF Main
<1>3. CASE Dog
  <2>1. CASE create_timer \/ bite \/ FindCrash
    <3>1. /\ UNCHANGED <<rec, ringVars, hashVars, mainVars, procp>>
          /\ wpc' \notin {"kill", "pid_invalidate", "pid_lookup"}
      BY <2>1 DEF create_timer, bite, FindCrash, DogAt
    <3> QED
      BY <3>1, StandStill DEF mainVars
  <2>2. CASE FindNone
    <3>1. UNCHANGED <<rec, ringVars, hashVars, mainVars>> /\ (UNCHANGED <<wpc, target, procp>> \/ BiteOver)
      BY <2>2 DEF FindNone
    <3>2. CASE UNCHANGED <<wpc, target, procp>>
      BY <3>1, <3>2, StandStill DEF mainVars
    <3>3. CASE BiteOver
      BY <3>1, <3>3, BiteOverInv
    <3> QED
      BY <3>1, <3>2, <3>3
  <2>3. ASSUME NEW pid \in Pids, FindVictim(pid) PROVE Inv'
    <3>1. /\ UNCHANGED <<rec, ringVars, hashVars, mainVars, procp>>
          /\ wpc' = "kill" /\ target'.pid \in Pids
      BY <2>3 DEF FindVictim, DogAt
    <3> QED
      BY <3>1, StandStill DEF mainVars
  <2>4. CASE KillFails
    <3>1. UNCHANGED <<rec, ringVars, hashVars, mainVars, procp>> /\ wpc' = "find_victim"
      BY <2>4 DEF KillFails, DogAt
    <3> QED
      BY <3>1, StandStill DEF mainVars
  <2>5. CASE Kill
    <3>1. /\ UNCHANGED <<rec, ringVars, hashVars, mainVars, procp>>
          /\ wpc = "kill" /\ wpc' = "pid_invalidate" /\ target'.pid = target.pid
      BY <2>5 DEF Kill, DogAt, NoTarget
    <3>2. target.pid \in Pids
      BY <3>1 DEF Inv, Walk
    <3> QED
      BY <3>1, <3>2, StandStill DEF mainVars
  <2>6. CASE pid_invalidate_begin \/ pid_lookup
    BY <2>6, LookupInv
  <2>7. CASE pid_invalidate_end
    BY <2>7, InvalidateInv
  <2> QED
    BY <1>3, <2>1, <2>2, <2>3, <2>4, <2>5, <2>6, <2>7 DEF Dog
<1>4. CASE Restart
  <2>1. Fresh'
    BY <1>4 DEF Restart, Fresh
  <2>2. Fresh' => Inv'
    BY FreshInv, PTL
  <2> QED
    BY <2>1, <2>2
<1>5. CASE UNCHANGED vars
  BY <1>5, StandStill DEF vars, mainVars, dogVars
<1> QED
  BY <1>1, <1>2, <1>3, <1>4, <1>5 DEF Next

(* The rings, the lists, the hash chains and the walk of the watchdog fit  *)
(* together in every reachable state.                                      *)
THEOREM WatchdogInvariant == Spec => []Inv
<1>1. Init => Inv
  <2>1. Init => Fresh
    BY DEF Init, AdjListInit, ProcTableInit, Fresh
  <2> QED
    BY <2>1, FreshInv
<1>2. Inv /\ [Next]_vars => Inv'
  BY StepInv
<1> QED
  BY <1>1, <1>2, PTL DEF Spec

(* proc_slot and proc_unslot keep every ring the list it represents, in    *)
(* both directions, for any number of records.                             *)
THEOREM RingsStayLists == Spec => []RingsAreLists
<1>1. Inv => RingsAreLists
  <2> SUFFICES ASSUME Inv, NEW a \in Adjs, NEW i \in 0..Len(slot[a])
               PROVE  next[At(a, i)] = At(a, i + 1) /\ prev[At(a, i + 1)] = At(a, i)
    BY DEF RingsAreLists
  <2>1. Ring(next, prev, slot[a], a)
    BY DEF Inv, Lists
  <2>2. \A j : At(a, j) = Pos(slot[a], a, j)
    BY DEF At, Pos
  <2> QED
    BY <2>1, <2>2 DEF Ring
<1> QED
  BY <1>1, WatchdogInvariant, PTL

(* Whatever the main thread does meanwhile, the watchdog follows pointers  *)
(* to allocated records only, and the lists hold no freed record: taking   *)
(* adjslot_list_lock in proc_unslot alone, before free, is enough.         *)
THEOREM FreedRecordsAreNotRead == Spec => []NoFreedRecordRead
<1>1. Inv => NoFreedRecordRead
  <2> SUFFICES ASSUME Inv PROVE NoFreedRecordRead
    OBVIOUS
  <2>1. Shared /\ procp # Null => rec[procp] # NoRecord
    BY DEF Inv, Walk, Shared
  <2>2. ASSUME NEW a \in Adjs, NEW i \in 1..Len(slot[a]) PROVE rec[slot[a][i]] # NoRecord
    <3>1. slot[a][i] \in Pids /\ Listed(slot[a], slot[a][i])
      BY ElementOfSeq DEF Inv, Types, Listed
    <3> QED
      BY <3>1 DEF Inv, Lists
  <2> QED
    BY <2>1, <2>2 DEF NoFreedRecordRead
<1> QED
  BY <1>1, WatchdogInvariant, PTL
=============================================================================
