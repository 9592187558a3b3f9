---------------------------- MODULE VictimSearch ----------------------------
(***************************************************************************)
(* The main thread between the commands that change the process records    *)
(* and the search for a victim: find_and_kill_process goes down the lists  *)
(* from the highest oom_score_adj, takes the oldest record of a list or,   *)
(* among perceptible processes, the one with the largest resident set, and *)
(* has kill_one_process kill it.  Meanwhile processes start and end, and   *)
(* the watchdog thread may invalidate records.                             *)
(*                                                                         *)
(* What a kill does to descriptors, waits and the reaper is in KillPath.   *)
(***************************************************************************)
EXTENDS ProcTable, FiniteSetsExt

CONSTANTS
    Rss,            \* resident pages of each process while it lives
    MinScores,      \* the oom_score_adj limits searches are called with
    KillHeaviest,   \* kill_heaviest_task
    KillMayFail,    \* Reaper::kill may return an error
    NoPid

ASSUME VictimSearchAssumption ==
    /\ Rss \in [Pids -> Nat]
    /\ MinScores \subseteq Int
    /\ KillHeaviest \in BOOLEAN /\ KillMayFail \in BOOLEAN
    /\ NoPid \notin Pids

VARIABLES
    life,       \* "alive", "zombie" (ended, not waited for) or "gone"
    mpc,        \* "idle", "purge", "search" or "scan"
    purger,     \* client whose LMK_PROCPURGE is under way
    minadj,     \* min_score_adj
    level,      \* i: the oom_score_adj the search is at
    ksize,      \* killed_size
    pos,        \* curr, as a position in the list
    best,       \* maxprocp
    kills,      \* what the search killed
    failed,     \* a kill of the search failed
    steady      \* processes alive ever since the search began

searchVars == <<mpc, purger, minadj, level, ksize, pos, best, steady>>
vars       == <<tableVars, life, searchVars, kills, failed>>

Init ==
    /\ ProcTableInit
    /\ life = [pid \in Pids |-> "gone"]
    /\ mpc = "idle"
    /\ purger = NoClient
    /\ minadj = 0 /\ level = 0 /\ ksize = 0
    /\ pos = 0 /\ best = NoPid
    /\ kills = {} /\ failed = FALSE /\ steady = {}

-----------------------------------------------------------------------------
Start(pid) ==
    /\ life[pid] = "gone"
    /\ life' = [life EXCEPT ![pid] = "alive"]
    /\ UNCHANGED <<tableVars, searchVars>>

End(pid) ==
    /\ life[pid] # "gone"
    /\ life' = [life EXCEPT ![pid] = IF @ = "alive" THEN "zombie" ELSE "gone"]
    /\ steady' = steady \ {pid}
    /\ UNCHANGED <<tableVars, mpc, purger, minadj, level, ksize, pos, best>>

WatchdogInvalidate(pid) ==
    /\ pid_invalidate(pid)
    /\ UNCHANGED <<life, searchVars>>

-----------------------------------------------------------------------------
(* Commands; mainloop handles one event at a time. *)
ProcPrio(pid, adj, app, c) ==
    /\ mpc = "idle"
    /\ apply_proc_prio(pid, adj, app, c, life[pid] # "gone")
    /\ UNCHANGED <<life, searchVars>>

ProcRemove(pid, c) ==
    /\ mpc = "idle"
    /\ cmd_procremove(pid, c)
    /\ UNCHANGED <<life, searchVars>>

ClientGone(c) ==
    /\ mpc = "idle"
    /\ remove_claims(c)
    /\ UNCHANGED <<life, searchVars>>

cmd_procpurge(c) ==
    /\ mpc = "idle"
    /\ mpc' = "purge"
    /\ purger' = c
    /\ UNCHANGED <<tableVars, life, minadj, level, ksize, pos, best, steady>>

PurgeOne(pid) ==
    /\ mpc = "purge" /\ pid \in Purgeable(purger)
    /\ pid_remove(pid)
    /\ UNCHANGED <<life, searchVars, kills, failed>>

PurgeEnd ==
    /\ mpc = "purge" /\ Purgeable(purger) = {}
    /\ mpc' = "idle"
    /\ purger' = NoClient
    /\ UNCHANGED <<tableVars, life, minadj, level, ksize, pos, best, kills, failed, steady>>

-----------------------------------------------------------------------------
(* The loop over i: on to the next oom_score_adj of `levels' unless        *)
(* something was killed.  Lists of other values are empty.                 *)
LevelsFrom(top) == {a \in Adjs : minadj <= a /\ a <= top}

(* Mutant: the lists are tried from the lowest up. *)
Highest_Lowest(levels) == Min(levels)

Highest(levels) == Max(levels)

SearchOver(levels, size) == size # 0 \/ levels = {}

NextLevel(levels, size) ==
    /\ pos' = 0 /\ best' = NoPid
    /\ \/ /\ SearchOver(levels, size)
          /\ mpc' = "idle"
          /\ minadj' = 0 /\ level' = 0 /\ ksize' = 0 /\ steady' = {}
       \/ /\ ~SearchOver(levels, size)
          /\ mpc' = "search"
          /\ level' = Highest(levels)
          /\ ksize' = size
          /\ UNCHANGED <<minadj, steady>>

find_and_kill_process(min) ==
    /\ mpc = "idle"
    /\ LET levels == {a \in Adjs : min <= a}
       IN  levels # {} /\ level' = Highest(levels)
    /\ mpc' = "search"
    /\ minadj' = min
    /\ ksize' = 0
    /\ steady' = {pid \in Pids : life[pid] = "alive"}
    /\ UNCHANGED <<tableVars, life, purger, pos, best>>

(* Mutant: perceptible processes themselves are left out. *)
choose_heaviest_task_Strict == KillHeaviest \/ level < PERCEPTIBLE_APP_ADJ

choose_heaviest_task == KillHeaviest \/ level <= PERCEPTIBLE_APP_ADJ

(* kill_one_process: -1 and no kill for a record that is not valid or a    *)
(* process without memory figures; 0 and no kill when Reaper::kill fails,  *)
(* as it does synchronously when the pidfd is of an earlier process of     *)
(* that pid; the pages of the process otherwise.  The record always goes.  *)
KillOneProcess(pid, size) ==
    /\ \/ /\ ~(rec[pid].valid /\ life[pid] = "alive")
          /\ size = -1
          /\ UNCHANGED <<kills, failed>>
       \/ /\ rec[pid].valid /\ life[pid] = "alive"
          /\ size = Rss[pid]
          /\ kills' = kills \cup {pid}
          /\ UNCHANGED failed
       \/ /\ KillMayFail
          /\ rec[pid].valid /\ life[pid] = "alive"
          /\ size = 0
          /\ failed' = TRUE
          /\ UNCHANGED kills
    /\ pid_remove(pid)

(* One round of the inner loop with the victim chosen. *)
Try(pid) ==
    /\ \E size \in {-1, 0, Rss[pid]} :
         /\ KillOneProcess(pid, size)
         /\ IF size >= 0
            THEN NextLevel(LevelsFrom(level - 1), size)
            ELSE /\ ksize' = size
                 /\ mpc' = "search" /\ pos' = 0 /\ best' = NoPid
                 /\ UNCHANGED <<minadj, level, steady>>
    /\ UNCHANGED <<life, purger>>

(* No record left, or proc_get_heaviest found none with resident pages. *)
LevelOver ==
    /\ NextLevel(LevelsFrom(level - 1), ksize)
    /\ UNCHANGED <<tableVars, life, purger, kills, failed>>

SearchEmpty == mpc = "search" /\ slot[level] = <<>> /\ LevelOver

TryTail ==
    /\ mpc = "search" /\ slot[level] # <<>>
    /\ ~choose_heaviest_task
    /\ Try(adjslot_tail(slot[level]))

(* proc_get_heaviest: a single record is taken as it is; otherwise the     *)
(* list is walked, records of processes that are gone are removed, and the *)
(* first one with the largest resident set is kept in best.                *)
TryOnly ==
    /\ mpc = "search" /\ Len(slot[level]) = 1
    /\ choose_heaviest_task
    /\ Try(slot[level][1])

ScanBegin ==
    /\ mpc = "search" /\ Len(slot[level]) > 1
    /\ choose_heaviest_task
    /\ mpc' = "scan"
    /\ pos' = 1
    /\ UNCHANGED <<tableVars, life, purger, minadj, level, ksize, best, kills, failed, steady>>

(* /proc/<pid>/statm of a zombie shows no page. *)
proc_get_size(pid) == IF life[pid] = "alive" THEN Rss[pid] ELSE 0

MaxSize == IF best = NoPid THEN 0 ELSE Rss[best]

(* Mutants: the wrong record is removed, or none. *)
ScanGone_Best ==
    /\ mpc = "scan" /\ pos <= Len(slot[level])
    /\ life[slot[level][pos]] = "gone"
    /\ pid_remove(IF best # NoPid THEN best ELSE slot[level][pos])
    /\ UNCHANGED <<life, searchVars, kills, failed>>

ScanGone_Keep ==
    /\ mpc = "scan" /\ pos <= Len(slot[level])
    /\ life[slot[level][pos]] = "gone"
    /\ UNCHANGED vars

ScanGone ==
    /\ mpc = "scan" /\ pos <= Len(slot[level])
    /\ life[slot[level][pos]] = "gone"
    /\ pid_remove(slot[level][pos])
    /\ UNCHANGED <<life, searchVars, kills, failed>>

ScanNext ==
    /\ mpc = "scan" /\ pos <= Len(slot[level])
    /\ LET pid == slot[level][pos]
       IN  /\ life[pid] # "gone"
           /\ best' = IF proc_get_size(pid) > MaxSize THEN pid ELSE best
    /\ pos' = pos + 1
    /\ UNCHANGED <<tableVars, life, mpc, purger, minadj, level, ksize, kills, failed, steady>>

TryHeaviest ==
    /\ mpc = "scan" /\ pos > Len(slot[level])
    /\ best # NoPid
    /\ Try(best)

ScanNone ==
    /\ mpc = "scan" /\ pos > Len(slot[level])
    /\ best = NoPid
    /\ LevelOver

-----------------------------------------------------------------------------
(* The history of a search is of no use once it is over. *)
History ==
    /\ kills' = IF mpc = "idle" THEN {} ELSE kills
    /\ failed' = (mpc # "idle" /\ failed)

Environment ==
    /\ \E pid \in Pids : Start(pid) \/ End(pid) \/ WatchdogInvalidate(pid)
    /\ History

Command ==
    /\ \/ \E pid \in Pids, c \in Clients :
            ProcRemove(pid, c) \/ \E adj \in Adjs, app \in BOOLEAN : ProcPrio(pid, adj, app, c)
       \/ \E c \in Clients : ClientGone(c) \/ cmd_procpurge(c)
       \/ \E min \in MinScores : find_and_kill_process(min)
    /\ History

Progress ==
    \/ \E pid \in Pids : PurgeOne(pid)
    \/ PurgeEnd
    \/ SearchEmpty \/ TryTail \/ TryOnly
    \/ ScanBegin \/ ScanGone \/ ScanNext \/ TryHeaviest \/ ScanNone

Next == Environment \/ Command \/ Progress

Spec == Init /\ [][Next]_vars

(* A command or search under way is carried on by the main thread, which   *)
(* waits for nothing in it.                                                *)
FairSpec == Spec /\ WF_vars(Progress)

-----------------------------------------------------------------------------
TypeOK ==
    /\ TableTypeOK
    /\ life \in [Pids -> {"alive", "zombie", "gone"}]
    /\ mpc \in {"idle", "purge", "search", "scan"}
    /\ purger \in Clients \cup {NoClient}
    /\ minadj \in Int
    /\ level \in Int
    /\ mpc \in {"search", "scan"} => level \in Adjs
    /\ ksize \in Int
    /\ pos \in Nat
    /\ best \in Pids \cup {NoPid}
    /\ kills \in SUBSET Pids
    /\ failed \in BOOLEAN
    /\ steady \in SUBSET Pids

(* maxprocp, taken from the list while walking it, still has its record    *)
(* at the level of the search when kill_one_process gets it: no removal of *)
(* the walk frees it.                                                      *)
BestIsListed ==
    /\ TypeOK
    /\ best # NoPid => rec[best] # NoRecord /\ rec[best].oomadj = level

(* A process that could have been killed: alive since the search began,    *)
(* with a valid record at or above the limit of the search.                *)
Killable(pid) ==
    /\ pid \in steady /\ Rss[pid] > 0
    /\ rec[pid] # NoRecord
    /\ rec[pid].valid /\ rec[pid].oomadj >= minadj

LeastEssential(pid) ==
    /\ mpc # "idle" /\ \A q \in kills : Rss[q] = 0
    /\ rec[pid].oomadj >= minadj
    /\ ~failed /\ kills = {} =>
         \A q \in Pids : Killable(q) => rec[q].oomadj <= rec[pid].oomadj

Heaviest(pid) ==
    level <= PERCEPTIBLE_APP_ADJ =>
      \A q \in Pids : Killable(q) /\ rec[q].oomadj = level => Rss[q] <= Rss[pid]

(* lmkd kills "the least essential process(es)" (README): the victim is at *)
(* or above min_score_adj, and no process that could have been killed has  *)
(* a higher oom_score_adj.  A failed kill returns 0, not -1, so that the   *)
(* rest of its list is passed over for a lower oom_score_adj; so it is     *)
(* after the kill of a process without resident pages.  One search kills   *)
(* one process ("Find one process to kill at or above the given            *)
(* oom_score_adj level"), or more while they free nothing.                 *)
KillsLeastEssential ==
    [][ \A pid \in kills' \ kills : LeastEssential(pid) ]_vars

(* Among perceptible processes the heaviest is chosen "to hopefully        *)
(* minimize the number of victims" (find_and_kill_process).                *)
KillsHeaviest ==
    [][ \A pid \in kills' \ kills : Heaviest(pid) ]_vars

(* Every search ends, whatever dies meanwhile, and so does every purge     *)
(* ("Delete process record even when we fail to kill so that we don't get  *)
(* stuck on it").                                                          *)
MainThreadReturns == []<>(mpc = "idle")
=============================================================================
