----------------------------- MODULE Watchdog ------------------------------
(***************************************************************************)
(* The watchdog thread beside the main thread.  call_handler arms a timer  *)
(* before a handler and disarms it afterwards; when a handler hangs the    *)
(* timer sends SIGALRM to the watchdog thread, which goes down the lists   *)
(* of records from the highest oom_score_adj and kills the first process   *)
(* it can.                                                                 *)
(*                                                                         *)
(* The threads share the records.  The main thread changes the rings only  *)
(* with adjslot_list_lock held exclusively, the watchdog reads them with   *)
(* the lock shared; the hash chains are changed outside the lock.          *)
(* find_victim copies a record, the lock is released, and the process is   *)
(* signalled through the copied pidfd.                                     *)
(***************************************************************************)
EXTENDS AdjList

CONSTANTS
    FDs,            \* descriptor numbers
    Free, Dead      \* a number not in use; a pidfd of a process that ended

ASSUME WatchdogAssumption ==
    /\ FDs \subseteq Nat
    /\ {Free, Dead} \cap Pids = {} /\ Free # Dead

VARIABLES
    fdtab,          \* the process of each pidfd
    pidfd,          \* pidfd of each record
    timer,          \* "none", "disarmed" or "armed"
    sigalrm,        \* SIGALRM is pending
    mpc, arg,       \* the main thread, and the record it works on
    wpc,            \* the watchdog thread
    oom_score, prev_pid, target,    \* locals of watchdog_callback
    procp,          \* pid_lookup within pid_invalidate
    quiet           \* the lists have not changed since the bite began

mainVars   == <<mpc, arg>>
dogVars    == <<wpc, oom_score, prev_pid, target, procp>>
vars == <<rec, ringVars, hashVars, fdtab, pidfd, timer, sigalrm, mainVars, dogVars, quiet>>

NoTarget == [pid |-> Null, pidfd |-> Null, valid |-> FALSE]

Init ==
    /\ AdjListInit
    /\ fdtab = [fd \in FDs |-> Free]
    /\ pidfd = [pid \in Pids |-> Null]
    /\ timer = "none" /\ sigalrm = FALSE
    /\ mpc = "epoll_wait" /\ arg = Null
    /\ wpc = "create_timer" /\ oom_score = Null /\ prev_pid = Null
    /\ target = NoTarget /\ procp = Null
    /\ quiet = TRUE

(* adjslot_list_lock: the watchdog holds it shared over pid_lookup.  It is *)
(* held within one step everywhere else.                                   *)
Shared == wpc = "pid_lookup"

-----------------------------------------------------------------------------
(* The kernel: processes end, the timer runs out.  A pidfd keeps denoting *)
(* the process it was opened for, also when another one gets its pid.      *)
Exit(pid) ==
    /\ \E fd \in FDs : fdtab[fd] = pid
    /\ fdtab' = [fd \in FDs |-> IF fdtab[fd] = pid THEN Dead ELSE fdtab[fd]]
    /\ UNCHANGED <<rec, ringVars, hashVars, pidfd, timer, sigalrm, mainVars, dogVars, quiet>>

(* it_interval: the timer stays armed. *)
Expire ==
    /\ timer = "armed"
    /\ sigalrm' = TRUE
    /\ UNCHANGED <<rec, ringVars, hashVars, fdtab, pidfd, timer, mainVars, dogVars, quiet>>

-----------------------------------------------------------------------------
(* The main thread.  Watchdog::start and stop do nothing as long as the    *)
(* watchdog thread has not created the timer.  A SIGALRM sent before stop  *)
(* remains pending.                                                        *)
SetTimer(state) == timer' = IF timer = "none" THEN "none" ELSE state

Biting == wpc \in {"find_victim", "kill", "pid_invalidate", "pid_lookup"}

(* Mark that the lists change during a bite. *)
ListsChange == quiet' = ~Biting

MainAt(from, to) == wpc # "crashed" /\ mpc = from /\ mpc' = to

HandlerBegin ==
    /\ MainAt("epoll_wait", "handler")
    /\ SetTimer("armed")
    /\ UNCHANGED <<rec, ringVars, hashVars, fdtab, pidfd, sigalrm, arg, dogVars, quiet>>

HandlerEnd ==
    /\ MainAt("handler", "epoll_wait")
    /\ SetTimer("disarmed")
    /\ UNCHANGED <<rec, ringVars, hashVars, fdtab, pidfd, sigalrm, arg, dogVars, quiet>>

(* register_oom_adj_proc of an unknown pid with a process: pidfd_open,     *)
(* calloc, and proc_insert up to proc_slot.                                *)
RegisterNew(pid, a) ==
    /\ MainAt("handler", "insert")
    /\ rec[pid] = NoRecord
    /\ \E fd \in FDs :
         /\ fdtab[fd] = Free /\ \A g \in FDs : g < fd => fdtab[g] # Free
         /\ fdtab' = [fdtab EXCEPT ![fd] = pid]
         /\ pidfd' = [pidfd EXCEPT ![pid] = fd]
    /\ \E c \in Clients :
         rec' = [rec EXCEPT ![pid] = [oomadj |-> a, reg_pid |-> c, valid |-> TRUE]]
    /\ hash_insert(pid)
    /\ arg' = pid
    /\ UNCHANGED <<ringVars, timer, sigalrm, dogVars, quiet>>

(* ... and of a known one: proc_unslot, the new oom_score_adj, proc_slot. *)
RegisterKnown(pid, a) ==
    /\ MainAt("handler", "moved")
    /\ rec[pid] # NoRecord
    /\ ~Shared
    /\ proc_unslot(pid)
    /\ rec' = [rec EXCEPT ![pid].oomadj = a]
    /\ arg' = pid
    /\ ListsChange
    /\ UNCHANGED <<hashVars, fdtab, pidfd, timer, sigalrm, dogVars>>

Slot ==
    /\ MainAt("insert", "handler") \/ MainAt("moved", "handler")
    /\ ~Shared
    /\ proc_slot(arg, rec[arg].oomadj)
    /\ ListsChange
    /\ arg' = Null
    /\ UNCHANGED <<rec, hashVars, fdtab, pidfd, timer, sigalrm, dogVars>>

(* pid_remove: out of the hash chain, out of the ring, and only then freed.*)
RemoveBegin(pid) ==
    /\ MainAt("handler", "pid_remove")
    /\ rec[pid] # NoRecord
    /\ hash_remove(pid)
    /\ arg' = pid
    /\ UNCHANGED <<rec, ringVars, fdtab, pidfd, timer, sigalrm, dogVars, quiet>>

(* Mutant: the ring is changed without the lock. *)
RemoveUnslot_Unlocked ==
    /\ MainAt("pid_remove", "free")
    /\ proc_unslot(arg)
    /\ ListsChange
    /\ UNCHANGED <<rec, hashVars, fdtab, pidfd, timer, sigalrm, arg, dogVars>>

RemoveUnslot ==
    /\ MainAt("pid_remove", "free")
    /\ ~Shared
    /\ proc_unslot(arg)
    /\ ListsChange
    /\ UNCHANGED <<rec, hashVars, fdtab, pidfd, timer, sigalrm, arg, dogVars>>

(* close and free; what the memory holds afterwards is of no interest. *)
RemoveFree ==
    /\ MainAt("free", "handler")
    /\ rec' = [rec EXCEPT ![arg] = NoRecord]
    /\ fdtab' = [fdtab EXCEPT ![pidfd[arg]] = Free]
    /\ pidfd' = [pidfd EXCEPT ![arg] = Null]
    /\ next' = [next EXCEPT ![arg] = arg]
    /\ prev' = [prev EXCEPT ![arg] = arg]
    /\ pidhash_next' = [pidhash_next EXCEPT ![arg] = Null]
    /\ arg' = Null
    /\ UNCHANGED <<slot, pidhash, timer, sigalrm, dogVars, quiet>>

-----------------------------------------------------------------------------
(* The watchdog thread. *)
DogAt(from, to) == wpc = from /\ wpc' = to

(* watchdog_main before its loop; when the timer cannot be created the     *)
(* thread ends.                                                            *)
create_timer ==
    /\ \/ DogAt("create_timer", "sigwait") /\ timer' = "disarmed"
       \/ DogAt("create_timer", "ended") /\ UNCHANGED timer
    /\ UNCHANGED <<rec, ringVars, hashVars, fdtab, pidfd, sigalrm, mainVars,
                   oom_score, prev_pid, target, procp, quiet>>

(* Mutant: oom_score > 0. *)
Levels_Positive == {a \in Adjs : a > 0}

Levels == {a \in Adjs : a >= 0}
Below(a) == {b \in Levels : b < a}

Highest(S) == CHOOSE a \in S : \A b \in S : b <= a

bite ==
    /\ DogAt("sigwait", "find_victim")
    /\ sigalrm
    /\ sigalrm' = FALSE
    /\ oom_score' = Highest(Levels)
    /\ prev_pid' = Null
    /\ quiet' = TRUE
    /\ UNCHANGED <<rec, ringVars, hashVars, fdtab, pidfd, timer, mainVars, target, procp>>

(* The record find_victim starts from: the oldest one, or the one before   *)
(* prev_pid.                                                               *)
Candidate ==
    LET before == proc_adj_prev(oom_score, prev_pid)
    IN  IF prev_pid = Null \/ before = Null THEN ring_tail(oom_score) ELSE before

(* proc_adj_prev follows the tail of the ring without asking whether there *)
(* is one.                                                                 *)
NullDereference == prev_pid # Null /\ ring_tail(oom_score) = Null

FindCrash ==
    /\ DogAt("find_victim", "crashed")
    /\ NullDereference
    /\ UNCHANGED <<rec, ringVars, hashVars, fdtab, pidfd, timer, sigalrm, mainVars,
                   oom_score, prev_pid, target, procp, quiet>>

(* The crash ends lmkd; init starts the service again. *)
Restart ==
    /\ wpc = "crashed"
    /\ rec' = [pid \in Pids |-> NoRecord] /\ slot' = [a \in Adjs |-> <<>>]
    /\ next' = [n \in Node |-> n] /\ prev' = [n \in Node |-> n]
    /\ pidhash' = [b \in Buckets |-> Null] /\ pidhash_next' = [pid \in Pids |-> Null]
    /\ fdtab' = [fd \in FDs |-> Free] /\ pidfd' = [pid \in Pids |-> Null]
    /\ timer' = "none" /\ sigalrm' = FALSE
    /\ mpc' = "epoll_wait" /\ arg' = Null
    /\ wpc' = "create_timer" /\ oom_score' = Null /\ prev_pid' = Null
    /\ target' = NoTarget /\ procp' = Null
    /\ quiet' = TRUE

(* Mutant: watchdog_main returns after a bite. *)
BiteOver_Returns ==
    /\ wpc' = "ended"
    /\ oom_score' = Null /\ prev_pid' = Null /\ target' = NoTarget /\ procp' = Null
    /\ quiet' = TRUE

BiteOver ==
    /\ wpc' = "sigwait"
    /\ oom_score' = Null /\ prev_pid' = Null /\ target' = NoTarget /\ procp' = Null
    /\ quiet' = TRUE

(* The list is empty or has been walked through: on to the next level. *)
FindNone ==
    /\ wpc = "find_victim" /\ ~NullDereference
    /\ Candidate \in {Null, oom_score}
    /\ \/ /\ Below(oom_score) # {}
          /\ oom_score' = Highest(Below(oom_score))
          /\ prev_pid' = Null
          /\ UNCHANGED <<wpc, target, procp, quiet>>
       \/ /\ Below(oom_score) = {}
          /\ BiteOver
    /\ UNCHANGED <<rec, ringVars, hashVars, fdtab, pidfd, timer, sigalrm, mainVars>>

FindVictim(pid) ==
    /\ DogAt("find_victim", "kill") /\ ~NullDereference
    /\ Candidate = pid
    /\ target' = [pid |-> pid, pidfd |-> pidfd[pid], valid |-> rec[pid].valid]
    /\ UNCHANGED <<rec, ringVars, hashVars, fdtab, pidfd, timer, sigalrm, mainVars,
                   oom_score, prev_pid, procp, quiet>>

(* The synchronous Reaper::kill through the copied pidfd; the process ends *)
(* some time after the signal.  Only the pid is of use afterwards.         *)
KillWorks == target.valid /\ fdtab[target.pidfd] \in Pids

(* Mutant: the walk starts over at the same record. *)
KillFails_NoPrev ==
    /\ DogAt("kill", "find_victim")
    /\ ~KillWorks
    /\ target' = NoTarget
    /\ UNCHANGED <<rec, ringVars, hashVars, fdtab, pidfd, timer, sigalrm, mainVars,
                   oom_score, prev_pid, procp, quiet>>

KillFails ==
    /\ DogAt("kill", "find_victim")
    /\ ~KillWorks
    /\ prev_pid' = target.pid
    /\ target' = NoTarget
    /\ UNCHANGED <<rec, ringVars, hashVars, fdtab, pidfd, timer, sigalrm, mainVars,
                   oom_score, procp, quiet>>

Kill ==
    /\ DogAt("kill", "pid_invalidate")
    /\ KillWorks
    /\ oom_score' = Null /\ prev_pid' = Null
    /\ target' = [NoTarget EXCEPT !.pid = target.pid]
    /\ UNCHANGED <<rec, ringVars, hashVars, fdtab, pidfd, timer, sigalrm, mainVars, procp, quiet>>

(* pid_invalidate: take the lock, walk the chain, mark the record found.   *)
(* proc_insert publishes a record without the lock, so that the watchdog   *)
(* may read the zeros of calloc in place of its pid and pidhash_next.      *)
Arriving(pid) == mpc = "insert" /\ arg = pid

pid_invalidate_begin ==
    /\ DogAt("pid_invalidate", "pid_lookup")
    /\ procp' = pidhash[pid_hashfn[target.pid]]
    /\ UNCHANGED <<rec, ringVars, hashVars, fdtab, pidfd, timer, sigalrm, mainVars,
                   oom_score, prev_pid, target, quiet>>

pid_lookup ==
    /\ wpc = "pid_lookup"
    /\ procp # Null
    /\ procp # target.pid \/ Arriving(procp)
    /\ \/ procp' = pidhash_next[procp]
       \/ Arriving(procp) /\ procp' = Null
    /\ UNCHANGED <<rec, ringVars, hashVars, fdtab, pidfd, timer, sigalrm, mainVars,
                   wpc, oom_score, prev_pid, target, quiet>>

pid_invalidate_end ==
    /\ wpc = "pid_lookup"
    /\ procp \in {Null, target.pid}
    /\ rec' = IF procp = Null THEN rec ELSE [rec EXCEPT ![procp].valid = FALSE]
    /\ BiteOver
    /\ UNCHANGED <<ringVars, hashVars, fdtab, pidfd, timer, sigalrm, mainVars>>

-----------------------------------------------------------------------------
Kernel == Expire \/ \E pid \in Pids : Exit(pid)

Main ==
    \/ HandlerBegin \/ HandlerEnd
    \/ \E pid \in Pids : RemoveBegin(pid) \/ \E a \in Adjs : RegisterNew(pid, a) \/ RegisterKnown(pid, a)
    \/ Slot \/ RemoveUnslot \/ RemoveFree

Dog ==
    \/ create_timer \/ bite
    \/ FindCrash \/ FindNone \/ \E pid \in Pids : FindVictim(pid)
    \/ KillFails \/ Kill
    \/ pid_invalidate_begin \/ pid_lookup \/ pid_invalidate_end

Next == Kernel \/ Main \/ Dog \/ Restart

Spec == Init /\ [][Next]_vars

(* The watchdog thread is scheduled and time passes; the main thread may   *)
(* hang anywhere.                                                          *)
FairSpec == Spec /\ WF_vars(Dog) /\ WF_vars(Expire)
-----------------------------------------------------------------------------
(* The threads never touch freed memory: the lists hold allocated records, *)
(* and so does the chain pid_invalidate walks while the main thread takes  *)
(* records out of it without the lock.  This rests on the order of         *)
(* pid_remove: out of the hash, then proc_unslot, which waits for the      *)
(* lock, then free.                                                        *)
NoFreedRecordRead ==
    /\ Shared /\ procp # Null => rec[procp] # NoRecord
    /\ \A a \in Adjs : \A i \in 1..Len(slot[a]) : rec[slot[a][i]] # NoRecord

(* A process the watchdog could kill: it has not ended, and has a valid    *)
(* record in list a whose pidfd is its own.                                *)
Killable(pid, a) ==
    /\ \E i \in 1..Len(slot[a]) : slot[a][i] = pid
    /\ rec[pid].valid /\ fdtab[pidfd[pid]] = pid

(* With the main thread stuck for the whole of a bite, the watchdog kills  *)
(* the process whose record it copied, none at a negative oom_score_adj,   *)
(* and passes over none it could kill at a higher one; it gives up only    *)
(* when nothing can be killed.                                             *)
BiteKillsLeastEssential ==
    [][ quiet =>
          /\ (wpc = "kill" /\ wpc' = "pid_invalidate") =>
               /\ fdtab[target.pidfd] = target.pid
               /\ oom_score >= 0
               /\ \A pid \in Pids, a \in Adjs : Killable(pid, a) => a <= oom_score
          /\ (wpc = "find_victim" /\ wpc' = "sigwait") =>
               \A pid \in Pids, a \in Adjs : Killable(pid, a) => a < 0 ]_vars

(* A bite comes to an end: every round of watchdog_callback moves on, as   *)
(* long as the main thread does not change the lists underneath.           *)
BiteEnds == []<>(~Biting \/ ~quiet)

(* A handler that hangs is answered: with the timer armed the watchdog     *)
(* bites, or the handler returns, or lmkd has crashed.                     *)
HangIsAnswered == []<>(timer # "armed" \/ wpc = "find_victim" \/ wpc = "crashed")

(* "pid was removed, restart at the tail" and "the list is empty at this   *)
(* oom_score": find_victim copes with the records it was at being removed  *)
(* meanwhile.                                                              *)
FindVictimCopes == wpc # "crashed"
=============================================================================
