----------------------------- MODULE ProcTable -----------------------------
(***************************************************************************)
(* The process records of lmkd: pidhash, the table of records by pid, and  *)
(* procadjslot_list, one list of records for each oom_score_adj, newest    *)
(* first.  A record belongs to the client that registered the process; the *)
(* records of a client that disconnects become unclaimed and go to the     *)
(* next client that names them.                                            *)
(*                                                                         *)
(* The hash chains are abstracted to a function from pids to records, a    *)
(* doubly linked list to the sequence of the pids it links.  The operators *)
(* are the table operations of lmkd.cpp; each fixes rec' and slot'.        *)
(***************************************************************************)
EXTENDS Integers, Sequences

CONSTANTS
    Pids,           \* process ids
    Clients,        \* pids of the processes that connect to lmkd
    NoClient,       \* reg_pid of an unclaimed record
    Adjs,           \* the oom_score_adj values in use
    PerAppMemcg,    \* per_app_memcg
    NoRecord        \* pid without record

(* struct proc; the pidfd is the business of KillPath. *)
Record == [oomadj : Adjs, reg_pid : Clients \cup {NoClient}, valid : BOOLEAN]

OOM_SCORE_ADJ_MIN   == -1000
OOM_SCORE_ADJ_MAX   == 1000
PERCEPTIBLE_APP_ADJ == 200

ASSUME ProcTableAssumption ==
    /\ NoClient \notin Clients
    /\ Adjs \subseteq OOM_SCORE_ADJ_MIN..OOM_SCORE_ADJ_MAX
    /\ PERCEPTIBLE_APP_ADJ \in Adjs
    /\ PerAppMemcg \in BOOLEAN
    /\ NoRecord \notin Record

VARIABLES
    rec,    \* pidhash: the record of each pid
    slot    \* procadjslot_list: the pids at each oom_score_adj, head first

tableVars == <<rec, slot>>

ProcTableInit ==
    /\ rec = [pid \in Pids |-> NoRecord]
    /\ slot = [a \in Adjs |-> <<>>]

-----------------------------------------------------------------------------
(* adjslot_insert, adjslot_remove and adjslot_tail on a list. *)
adjslot_insert(list, pid) == <<pid>> \o list

adjslot_remove(list, pid) ==
    LET i == CHOOSE k \in 1..Len(list) : list[k] = pid
    IN  SubSeq(list, 1, i - 1) \o SubSeq(list, i + 1, Len(list))

adjslot_tail(list) == list[Len(list)]

(* proc_insert: a new record at the head of its list. *)
proc_insert(pid, r) ==
    /\ rec' = [rec EXCEPT ![pid] = r]
    /\ slot' = [slot EXCEPT ![r.oomadj] = adjslot_insert(@, pid)]

(* Mutant: the record stays in its list. *)
pid_remove_NoUnslot(pid) ==
    /\ rec' = [rec EXCEPT ![pid] = NoRecord]
    /\ UNCHANGED slot

(* pid_remove of a pid that has a record. *)
pid_remove(pid) ==
    /\ rec' = [rec EXCEPT ![pid] = NoRecord]
    /\ slot' = [slot EXCEPT ![rec[pid].oomadj] = adjslot_remove(@, pid)]

(* pid_invalidate: the watchdog marks a record it may not remove. *)
pid_invalidate(pid) ==
    /\ rec[pid] # NoRecord
    /\ rec' = [rec EXCEPT ![pid].valid = FALSE]
    /\ UNCHANGED slot

-----------------------------------------------------------------------------
(* claim_record: c owns the record, or nobody does. *)
claim_record(pid, c) == rec[pid].reg_pid \in {c, NoClient}

(* remove_claims: the records of c become unclaimed. *)
remove_claims(c) ==
    /\ rec' = [pid \in Pids |->
                 IF rec[pid] # NoRecord /\ rec[pid].reg_pid = c
                 THEN [rec[pid] EXCEPT !.reg_pid = NoClient]
                 ELSE rec[pid]]
    /\ UNCHANGED slot

(* register_oom_adj_proc counts the launcher, an app at 600..699, as       *)
(* perceptible.                                                            *)
registered_adj(adj, app) ==
    IF app /\ PerAppMemcg /\ adj \in 600..699 THEN PERCEPTIBLE_APP_ADJ ELSE adj

(* An existing record moves to the head of the list of its new             *)
(* oom_score_adj and keeps `valid' and its pidfd.  Nothing changes for the *)
(* record of another client, or if the memcg of an app is not found, or    *)
(* pidfd_open or calloc fails.                                             *)
register_oom_adj_proc(pid, adj, app, c) ==
    LET a == registered_adj(adj, app)
    IN  \/ /\ rec[pid] = NoRecord
           /\ proc_insert(pid, [oomadj |-> a, reg_pid |-> c, valid |-> TRUE])
        \/ /\ rec[pid] # NoRecord /\ claim_record(pid, c)
           /\ rec' = [rec EXCEPT ![pid].oomadj = a, ![pid].reg_pid = c]
           /\ LET unslotted == [slot EXCEPT ![rec[pid].oomadj] = adjslot_remove(@, pid)]
              IN  slot' = [unslotted EXCEPT ![a] = adjslot_insert(@, pid)]
        \/ /\ rec[pid] # NoRecord /\ claim_record(pid, c) => app /\ PerAppMemcg
           /\ UNCHANGED tableVars

(* apply_proc_prio: only for a process that is there, so that its          *)
(* oom_score_adj file can be written.                                      *)
apply_proc_prio(pid, adj, app, c, present) ==
    IF present
    THEN register_oom_adj_proc(pid, adj, app, c)
    ELSE UNCHANGED tableVars

cmd_procremove(pid, c) ==
    IF rec[pid] # NoRecord /\ claim_record(pid, c)
    THEN pid_remove(pid)
    ELSE UNCHANGED tableVars

(* The records cmd_procpurge removes, one after the other, for c. *)
Purgeable(c) == {pid \in Pids : rec[pid] # NoRecord /\ claim_record(pid, c)}

-----------------------------------------------------------------------------
TableTypeOK ==
    /\ rec \in [Pids -> Record \cup {NoRecord}]
    /\ slot \in [Adjs -> Seq(Pids)]

(* The lists hold exactly the records of the table, each once and in the   *)
(* list of its own oom_score_adj: find_and_kill_process, which only looks  *)
(* at the lists, misses no record and meets no freed one.                  *)
ListedHaveRecord ==
    \A a \in Adjs : \A i \in 1..Len(slot[a]) :
      rec[slot[a][i]] # NoRecord /\ rec[slot[a][i]].oomadj = a

ListedOnce ==
    \A a \in Adjs : \A i, j \in 1..Len(slot[a]) :
      slot[a][i] = slot[a][j] => i = j

RecordsListed ==
    \A pid \in Pids : rec[pid] # NoRecord =>
      \E i \in 1..Len(slot[rec[pid].oomadj]) : slot[rec[pid].oomadj][i] = pid

SlotsMatchRecords == ListedHaveRecord /\ ListedOnce /\ RecordsListed
=============================================================================
