------------------------------ MODULE KillPath ------------------------------
(***************************************************************************)
(* The main thread of lmkd on its way through a kill, composed with the    *)
(* reaper: process records and their pidfds, kill_one_process, the wait    *)
(* for the death of the victim (start/stop_wait_for_proc_kill), and the    *)
(* batches epoll_wait returns, whose events are handled one by one and may *)
(* be stale when their turn comes.  Kernels with pidfds are modelled.      *)
(*                                                                         *)
(* Which record a search picks, and whether memory pressure calls for a    *)
(* kill at all, is left open.  A pid may be reused by a later process.     *)
(***************************************************************************)
EXTENDS Reaper

CONSTANTS
    Pids,           \* process ids
    PidOf,          \* the pid of each process instance
    Worlds,         \* the processes and faults to consider together
    MaxRequests     \* bound on the kills

(* "epoll": EPOLL_CTL_ADD of a pidfd fails;                                *)
(* "race":  the victim ends, or has ended and its pid was reused, between  *)
(*          the reading of /proc/<pid>/status and the signal;              *)
(* "zero":  a killed process had no resident page, so that                 *)
(*          find_and_kill_process goes on to a lower oom_score_adj.        *)
FaultKinds == {"epoll", "race", "zero"}

ASSUME KillPathAssumption ==
    /\ PidOf \in [Procs -> Pids]
    /\ Worlds \subseteq [procs : SUBSET Procs, faults : SUBSET FaultKinds]
    /\ MaxRequests \in Nat

VARIABLES
    world,      \* what may start and what may go wrong in this behaviour
    started,    \* processes that have come into being
    pidfd,      \* pidfd of each record; NoFd where there is no record
    inst,       \* process instance each record was created for
    last,       \* last_kill_pid_or_fd
    watch,      \* processes whose pidfd is registered with epoll
    timedOut,   \* kill_timeout_ms has passed since last_kill_tm
    ready,      \* events of the current batch not handled yet
    mpc,        \* where the main thread is
    victim,     \* pid of the record kill_one_process works on
    mtarget,    \* the argument of Reaper::kill
    asked,      \* processes lmkd decided to kill
    recent,     \* the process of the last kill that returned 0
    nextId      \* id of the next kill

mainVars == <<world, started, pidfd, inst, last, watch, timedOut, ready, mpc,
              victim, mtarget, asked, recent, nextId>>
vars     == <<reaperVars, mainVars>>

NoPid    == 0
NoTarget == [fd |-> NoFd, proc |-> NoProc]
Events   == {"mem", "cmd", "done", "fail"}

(* The process a pid stands for now, if any: what /proc/<pid> shows. *)
Occupant(pid) == {p \in started \cap exists : PidOf[p] = pid}

Init ==
    /\ ReaperInit
    /\ world \in Worlds
    /\ started = {}
    /\ pidfd = [pid \in Pids |-> NoFd]
    /\ inst = [pid \in Pids |-> NoProc]
    /\ last = NoFd
    /\ watch = {}
    /\ timedOut = FALSE
    /\ ready = {}
    /\ mpc = "loop"
    /\ victim = NoPid
    /\ mtarget = NoTarget
    /\ asked = {}
    /\ recent = NoProc
    /\ nextId = 1

-----------------------------------------------------------------------------
(* The environment: processes start and end, time passes. *)
Start(p) ==
    /\ p \in world.procs
    /\ p \notin started /\ p \in exists
    /\ Occupant(PidOf[p]) = {}
    /\ started' = started \cup {p}
    /\ UNCHANGED <<reaperVars, pidfd, inst, last, watch, timedOut, ready, mpc,
                   victim, mtarget, asked, recent, nextId>>

Exit(p) ==
    /\ p \in started
    /\ "race" \in world.faults \/ mtarget.proc # p
    /\ ProcExit(p)
    /\ UNCHANGED mainVars

TimeoutPasses ==
    /\ ~timedOut
    /\ timedOut' = TRUE
    /\ UNCHANGED <<reaperVars, started, pidfd, inst, last, watch, ready, mpc,
                   victim, mtarget, asked, recent, nextId>>

-----------------------------------------------------------------------------
(* What stop_wait_for_proc_kill leaves in the descriptor table and in the  *)
(* epoll set.                                                              *)
StoppedFile  == CloseTable(last)
StoppedWatch == IF last \in FDs THEN watch \ {file[last]} ELSE watch

(* Mutant: last_kill_pid_or_fd is not reset. *)
stop_wait_for_proc_kill_Stale ==
    /\ file' = StoppedFile
    /\ watch' = StoppedWatch
    /\ last' = last

stop_wait_for_proc_kill ==
    /\ file' = StoppedFile
    /\ watch' = StoppedWatch
    /\ last' = NoFd

(* Mutant: the pidfd is always closed. *)
pid_remove_Always(pid) ==
    /\ file' = CloseTable(pidfd[pid])
    /\ pidfd' = [pidfd EXCEPT ![pid] = NoFd]
    /\ inst' = [inst EXCEPT ![pid] = NoProc]

(* pid_remove: the pidfd is closed unless the death of the process is      *)
(* being waited for.                                                       *)
pid_remove(pid) ==
    /\ file' = IF pidfd[pid] # last THEN CloseTable(pidfd[pid]) ELSE file
    /\ pidfd' = [pidfd EXCEPT ![pid] = NoFd]
    /\ inst' = [inst EXCEPT ![pid] = NoProc]

-----------------------------------------------------------------------------
(* epoll_wait returns every source that is ready: the pidfd of a process   *)
(* that ended, the failure pipe, memory events and commands.  It is not    *)
(* called once the time for the pending kill is over.                      *)
EpollWait ==
    /\ mpc = "loop" /\ ready = {}
    /\ last = NoFd \/ ~timedOut
    /\ \E outside \in SUBSET {"mem", "cmd"} :
         ready' = outside
                    \cup (IF watch \ exists # {} THEN {"done"} ELSE {})
                    \cup (IF pipe # <<>> THEN {"fail"} ELSE {})
    /\ ready' # {}
    /\ UNCHANGED <<reaperVars, started, pidfd, inst, last, watch, timedOut, mpc,
                   victim, mtarget, asked, recent, nextId>>

(* mainloop: the killed process is still there after kill_timeout_ms. *)
WaitTimeout ==
    /\ mpc = "loop" /\ ready = {}
    /\ last # NoFd /\ timedOut
    /\ stop_wait_for_proc_kill
    /\ UNCHANGED <<exists, killed, poolVars, started, pidfd, inst, timedOut, ready, mpc,
                   victim, mtarget, asked, recent, nextId>>

Handle(e) ==
    /\ mpc = "loop" /\ e \in ready
    /\ ready' = ready \ {e}

kill_done_handler ==
    /\ Handle("done")
    /\ stop_wait_for_proc_kill
    /\ UNCHANGED <<exists, killed, poolVars, started, pidfd, inst, timedOut, mpc,
                   victim, mtarget, asked, recent, nextId>>

(* kill_fail_handler reads a pid and does not look at it, then stops the   *)
(* wait.                                                                   *)
kill_fail_handler ==
    /\ Handle("fail")
    /\ pipe' = IF pipe = <<>> THEN pipe ELSE Tail(pipe)
    /\ mpc' = "failRead"
    /\ UNCHANGED <<kernelVars, queue, active, mutex, pc, target, dir, started, pidfd, inst,
                   last, watch, timedOut, victim, mtarget, asked, recent, nextId>>

KillFailStop ==
    /\ mpc = "failRead"
    /\ stop_wait_for_proc_kill
    /\ mpc' = "loop"
    /\ UNCHANGED <<exists, killed, poolVars, started, pidfd, inst, timedOut, ready,
                   victim, mtarget, asked, recent, nextId>>

(* LMK_PROCPRIO of an unknown pid: pidfd_open and a new record.  For a     *)
(* known pid the record keeps its pidfd, and for a pid without process or  *)
(* with no descriptor left nothing changes.                                *)
Register(pid) ==
    /\ Handle("cmd")
    /\ \/ /\ pidfd[pid] # NoFd \/ Occupant(pid) = {} \/ TableFull
          /\ UNCHANGED <<file, pidfd, inst>>
       \/ /\ pidfd[pid] = NoFd
          /\ \E p \in Occupant(pid), fd \in FDs :
               /\ LowestFree(fd)
               /\ file' = [file EXCEPT ![fd] = p]
               /\ pidfd' = [pidfd EXCEPT ![pid] = fd]
               /\ inst' = [inst EXCEPT ![pid] = p]
    /\ UNCHANGED <<exists, killed, poolVars, started, last, watch, timedOut, mpc,
                   victim, mtarget, asked, recent, nextId>>

(* LMK_PROCREMOVE, and a step of LMK_PROCPURGE. *)
Unregister(pid) ==
    /\ Handle("cmd")
    /\ pidfd[pid] # NoFd
    /\ pid_remove(pid)
    /\ UNCHANGED <<exists, killed, poolVars, started, last, watch, timedOut, mpc,
                   victim, mtarget, asked, recent, nextId>>

(* __mp_event_psi while a kill is pending and its time has not passed. *)
MemEventSkip ==
    /\ Handle("mem")
    /\ last # NoFd /\ ~timedOut
    /\ UNCHANGED <<reaperVars, started, pidfd, inst, last, watch, timedOut, mpc,
                   victim, mtarget, asked, recent, nextId>>

(* Mutant: a wait whose time is over is not stopped. *)
MemEvent_NoStop ==
    /\ Handle("mem")
    /\ last = NoFd \/ timedOut
    /\ mpc' \in {"loop", "search"}
    /\ UNCHANGED <<reaperVars, started, pidfd, inst, last, watch, timedOut,
                   victim, mtarget, asked, recent, nextId>>

(* __mp_event_psi otherwise: the wait is over, and find_and_kill_process   *)
(* may be called.                                                          *)
MemEvent ==
    /\ Handle("mem")
    /\ last = NoFd \/ timedOut
    /\ stop_wait_for_proc_kill
    /\ mpc' \in {"loop", "search"}
    /\ UNCHANGED <<exists, killed, poolVars, started, pidfd, inst, timedOut,
                   victim, mtarget, asked, recent, nextId>>

-----------------------------------------------------------------------------
(* find_and_kill_process has nothing left to try. *)
SearchEnd ==
    /\ mpc = "search"
    /\ mpc' = "loop"
    /\ UNCHANGED <<reaperVars, started, pidfd, inst, last, watch, timedOut, ready,
                   victim, mtarget, asked, recent, nextId>>

(* kill_one_process gives up on a record whose process shows no status. *)
KillNoStatus(pid) ==
    /\ mpc = "search" /\ pidfd[pid] # NoFd
    /\ Occupant(pid) = {}
    /\ victim' = pid
    /\ mpc' = "removeFailed"
    /\ UNCHANGED <<reaperVars, started, pidfd, inst, last, watch, timedOut, ready,
                   mtarget, asked, recent, nextId>>

(* kill_one_process up to start_wait_for_proc_kill: a wait in progress is  *)
(* stopped, and the new one is lost if epoll refuses it.                   *)
KillBegin(pid) ==
    /\ mpc = "search" /\ pidfd[pid] # NoFd /\ nextId <= MaxRequests
    /\ Occupant(pid) # {}
    /\ "race" \in world.faults \/ inst[pid] \in exists
    /\ \/ /\ file[pidfd[pid]] \in Procs
          /\ file' = StoppedFile
          /\ last' = pidfd[pid]
          /\ watch' = StoppedWatch \cup {file[pidfd[pid]]}
       \/ /\ "epoll" \in world.faults \/ file[pidfd[pid]] \notin Procs
          /\ file' = [fd \in FDs |-> IF fd \in {last, pidfd[pid]} THEN NoProc ELSE file[fd]]
          /\ last' = NoFd
          /\ watch' = StoppedWatch
    /\ victim' = pid
    /\ mtarget' = [fd |-> pidfd[pid], proc |-> inst[pid]]
    /\ mpc' = "call"
    /\ UNCHANGED <<exists, killed, poolVars, started, pidfd, inst, timedOut, ready,
                   asked, recent, nextId>>

(* Reaper::kill is entered; without threads async_kill is of no use. *)
KillCall ==
    /\ mpc = "call"
    /\ asked' = asked \cup {mtarget.proc}
    /\ nextId' = nextId + 1
    /\ mpc' = IF thread_cnt = 0 THEN "sync" ELSE "async"
    /\ UNCHANGED <<reaperVars, started, pidfd, inst, last, watch, timedOut, ready,
                   victim, mtarget, recent>>

(* Reaper::kill returned 0: last_kill_tm is taken and the record goes. *)
KillReturned ==
    /\ recent' = mtarget.proc
    /\ timedOut' = FALSE
    /\ mtarget' = NoTarget
    /\ mpc' = "remove"
    /\ UNCHANGED <<started, pidfd, inst, last, watch, ready, victim, asked, nextId>>

KillAsync ==
    /\ mpc = "async"
    /\ AsyncKillPush(nextId, mtarget.fd, mtarget.proc)
    /\ KillReturned

KillAsyncBusy ==
    /\ mpc = "async"
    /\ AsyncKillBusy
    /\ mpc' = "sync"
    /\ UNCHANGED <<started, pidfd, inst, last, watch, timedOut, ready,
                   victim, mtarget, asked, recent, nextId>>

KillSync ==
    /\ mpc = "sync"
    /\ SignalOK(mtarget.fd)
    /\ killed' = killed \cup {file[mtarget.fd]}
    /\ KillReturned
    /\ UNCHANGED <<file, exists, poolVars>>

(* The kill failed at once: the wait is stopped, then the record goes. *)
KillSyncFailed ==
    /\ mpc = "sync"
    /\ ~SignalOK(mtarget.fd)
    /\ mtarget' = NoTarget
    /\ mpc' = "unwait"
    /\ UNCHANGED <<reaperVars, started, pidfd, inst, last, watch, timedOut, ready,
                   victim, asked, recent, nextId>>

KillFailedStop ==
    /\ mpc = "unwait"
    /\ stop_wait_for_proc_kill
    /\ mpc' = "removeFailed"
    /\ UNCHANGED <<exists, killed, poolVars, started, pidfd, inst, timedOut, ready,
                   victim, mtarget, asked, recent, nextId>>

(* The end of kill_one_process.  After a failure find_and_kill_process     *)
(* tries the next record, after a kill that freed something it returns.    *)
KillEnd ==
    /\ mpc \in {"remove", "removeFailed"}
    /\ pid_remove(victim)
    /\ \/ mpc' = "search" /\ (mpc = "removeFailed" \/ "zero" \in world.faults)
       \/ mpc' = "loop" /\ mpc = "remove"
    /\ victim' = NoPid
    /\ UNCHANGED <<exists, killed, poolVars, started, last, watch, timedOut, ready,
                   mtarget, asked, recent, nextId>>

-----------------------------------------------------------------------------
Environment ==
    \/ \E p \in Procs : Start(p) \/ Exit(p)
    \/ TimeoutPasses

MainStep ==
    \/ EpollWait \/ WaitTimeout
    \/ kill_done_handler \/ kill_fail_handler \/ KillFailStop
    \/ \E pid \in Pids : Register(pid) \/ Unregister(pid)
    \/ MemEventSkip \/ MemEvent \/ SearchEnd
    \/ \E pid \in Pids : KillNoStatus(pid) \/ KillBegin(pid)
    \/ KillCall \/ KillAsync \/ KillAsyncBusy
    \/ KillSync \/ KillSyncFailed \/ KillFailedStop \/ KillEnd

PoolStep ==
    /\ \E t \in Threads : ThreadStep(t) \/ SpuriousWakeup(t)
    /\ UNCHANGED mainVars

Next == (Environment \/ MainStep \/ PoolStep) /\ UNCHANGED world

Spec == Init /\ [][Next]_vars

-----------------------------------------------------------------------------
TypeOK ==
    /\ started \in SUBSET Procs
    /\ pidfd \in [Pids -> FDs \cup {NoFd}]
    /\ inst \in [Pids -> Procs \cup {NoProc}]
    /\ last \in FDs \cup {NoFd}
    /\ watch \in SUBSET Procs
    /\ timedOut \in BOOLEAN
    /\ ready \in SUBSET Events
    /\ mpc \in {"loop", "failRead", "search", "call", "async", "sync", "unwait", "remove", "removeFailed"}
    /\ victim \in Pids \cup {NoPid}
    /\ mtarget \in [fd : FDs, proc : Procs] \cup {NoTarget}
    /\ asked \in SUBSET Procs
    /\ recent \in Procs \cup {NoProc}
    /\ nextId \in 1..(MaxRequests + 1)

(* A record's pidfd denotes the process it was opened for as long as the   *)
(* record exists: no other part of lmkd closes it (the comment in          *)
(* pid_remove about who closes the pidfd).                                 *)
PidfdNamesItsProcess ==
    "epoll" \notin world.faults =>
      \A pid \in Pids : pidfd[pid] # NoFd => file[pidfd[pid]] = inst[pid]

(* The faults after which kill_one_process closes a pidfd twice are left   *)
(* out: a number closed twice may by then be a descriptor of a thread of   *)
(* the pool, which later closes what the main thread opened under it.      *)
Undisturbed == world.faults \subseteq {"zero"}

(* epoll watches the pidfd of the pending kill and no other: a             *)
(* registration that outlived its wait would wake mainloop for ever.       *)
OnlyTheWaitIsWatched ==
    /\ TypeOK
    /\ Undisturbed => watch = IF last = NoFd THEN {} ELSE {file[last]}

(* kill_one_process never starts a wait while another is in progress       *)
(* (start_wait_for_proc_kill: "Should not happen").                        *)
NoWaitInProgress ==
    [][ world.faults = {} => \A pid \in Pids : KillBegin(pid) => last = NoFd ]_vars

(* The state of the reaper's caller the main thread stands for: it owns    *)
(* the pidfds of the records and of the wait.                              *)
Own    == {fd \in FDs : fd = last \/ \E pid \in Pids : pidfd[pid] = fd}
Phase  == IF mpc \in {"async", "sync"} THEN mpc ELSE "idle"
Target == IF mpc = "call" THEN NoTarget ELSE mtarget

Caller == INSTANCE ReaperClient WITH own <- Own, mpc <- Phase, mtarget <- Target

(* The main thread is a caller the reaper was verified with. *)
ImplementsCaller ==
    /\ Caller!Init
    /\ [][ Undisturbed => [Caller!Next]_(Caller!vars) ]_vars

(* SIGKILL reaches only processes kill_one_process chose, however pids and *)
(* descriptor numbers are reused between the choice and the signal.        *)
KilledWasAsked == Undisturbed => Caller!KilledWasAsked
=============================================================================
