---------------------------- MODULE ReaperClient ----------------------------
(***************************************************************************)
(* The reaper with its most general caller: a main thread that owns        *)
(* pidfds, opens and closes them whenever it is not inside Reaper::kill,   *)
(* asks for kills through a pidfd it owns or by pid when it has none, and  *)
(* reads the failure pipe when it likes.                                   *)
(***************************************************************************)
EXTENDS Reaper

CONSTANT MaxRequests    \* bound on the kills the caller asks for

VARIABLES
    own,        \* pidfds the caller has open
    mpc,        \* where the caller is in Reaper::kill
    mtarget,    \* the argument of the call: descriptor and process
    asked,      \* processes the caller asked to kill
    nextId      \* id of the next request

clientVars == <<own, mpc, mtarget, asked, nextId>>
vars       == <<reaperVars, clientVars>>

NoTarget == [fd |-> NoFd, proc |-> NoProc]

Init ==
    /\ ReaperInit
    /\ own = {}
    /\ mpc = "idle"
    /\ mtarget = NoTarget
    /\ asked = {}
    /\ nextId = 1

-----------------------------------------------------------------------------
(* pidfd_open: lmkd opens a pidfd when it registers a process. *)
PidfdOpen(p) ==
    /\ mpc = "idle" /\ p \in exists
    /\ \E fd \in FDs :
         /\ LowestFree(fd)
         /\ file' = [file EXCEPT ![fd] = p]
         /\ own' = own \cup {fd}
    /\ UNCHANGED <<exists, killed, poolVars, mpc, mtarget, asked, nextId>>

(* The caller closes a pidfd of its own, a request on it pending or not. *)
PidfdClose(fd) ==
    /\ mpc = "idle" /\ fd \in own
    /\ file' = CloseTable(fd)
    /\ own' = own \ {fd}
    /\ UNCHANGED <<exists, killed, poolVars, mpc, mtarget, asked, nextId>>

(* Reaper::kill is entered.  With synchronous set, or no thread in the     *)
(* pool, async_kill is not tried or fails before it takes mutex_.          *)
KillCall(fd, synchronous) ==
    /\ mpc = "idle" /\ fd \in own /\ nextId <= MaxRequests
    /\ mtarget' = [fd |-> fd, proc |-> file[fd]]
    /\ asked' = asked \cup {file[fd]}
    /\ mpc' = IF synchronous \/ thread_cnt = 0 THEN "sync" ELSE "async"
    /\ nextId' = nextId + 1
    /\ UNCHANGED <<reaperVars, own>>

(* Reaper::kill without a pidfd: kill(pid, SIGKILL). *)
KillByPid(p) ==
    /\ mpc = "idle" /\ nextId <= MaxRequests
    /\ asked' = asked \cup {p}
    /\ killed' = IF p \in exists THEN killed \cup {p} ELSE killed
    /\ nextId' = nextId + 1
    /\ UNCHANGED <<file, exists, poolVars, own, mpc, mtarget>>

(* async_kill hands the request over and Reaper::kill returns 0. *)
KillAsync ==
    /\ mpc = "async"
    /\ AsyncKillPush(nextId, mtarget.fd, mtarget.proc)
    /\ mpc' = "idle"
    /\ mtarget' = NoTarget
    /\ UNCHANGED <<own, asked, nextId>>

(* async_kill returns false and Reaper::kill signals by itself. *)
KillAsyncBusy ==
    /\ mpc = "async"
    /\ AsyncKillBusy
    /\ mpc' = "sync"
    /\ UNCHANGED <<own, mtarget, asked, nextId>>

(* pidfd_send_signal in the calling thread; its result goes to the caller. *)
KillSync ==
    /\ mpc = "sync"
    /\ killed' = IF SignalOK(mtarget.fd) THEN killed \cup {file[mtarget.fd]} ELSE killed
    /\ mpc' = "idle"
    /\ mtarget' = NoTarget
    /\ UNCHANGED <<file, exists, poolVars, own, asked, nextId>>

(* kill_fail_handler reads one pid. *)
ReadFailure ==
    /\ mpc = "idle" /\ pipe # <<>>
    /\ pipe' = Tail(pipe)
    /\ UNCHANGED <<kernelVars, queue, active, mutex, pc, target, dir, clientVars>>

-----------------------------------------------------------------------------
CallerStep ==
    \/ \E p \in Procs : PidfdOpen(p) \/ KillByPid(p)
    \/ \E fd \in FDs : PidfdClose(fd)
    \/ \E fd \in FDs, synchronous \in BOOLEAN : KillCall(fd, synchronous)
    \/ KillAsync \/ KillAsyncBusy \/ KillSync \/ ReadFailure

PoolStep ==
    /\ \E t \in Threads : ThreadStep(t) \/ SpuriousWakeup(t)
    /\ UNCHANGED clientVars

KernelStep ==
    /\ \E p \in Procs : ProcExit(p)
    /\ UNCHANGED clientVars

Next == CallerStep \/ PoolStep \/ KernelStep

Spec == Init /\ [][Next]_vars

(* The scheduler runs every thread of the pool, and the main loop reads    *)
(* the failure pipe and finishes the calls it has entered.                 *)
Fairness ==
    /\ \A t \in Threads : WF_vars(ThreadStep(t) /\ UNCHANGED clientVars)
    /\ WF_vars(ReadFailure)
    /\ WF_vars(KillAsync \/ KillAsyncBusy \/ KillSync)

FairSpec == Spec /\ Fairness

-----------------------------------------------------------------------------
TypeOK ==
    /\ file \in [FDs -> Procs \cup {NoProc, Dir}]
    /\ exists \in SUBSET Procs
    /\ killed \in SUBSET Procs
    /\ queue \in Seq(Request)
    /\ active \in Nat
    /\ mutex \in Threads \cup {NoThread}
    /\ pc \in [Threads -> Location]
    /\ target \in [Threads -> Request \cup {NoRequest}]
    /\ dir \in [Threads -> FDs \cup {NoFd}]
    /\ pipe \in Seq(Procs)
    /\ own \in SUBSET FDs
    /\ mpc \in {"idle", "async", "sync"}
    /\ mtarget \in [fd : FDs, proc : Procs] \cup {NoTarget}
    /\ asked \in SUBSET Procs
    /\ nextId \in Nat \ {0}

QueueHolds(i, fd)  == i \in DOMAIN queue /\ queue[i].fd = fd
ThreadHolds(t, fd) == HasFd(t) /\ target[t].fd = fd
DirHeld(t, fd)     == pc[t] = "closedir" /\ dir[t] = fd

(* The descriptor of a request, queued or being served, denotes the        *)
(* process the caller named for as long as the pool may use it, although   *)
(* the caller closes and reopens descriptors meanwhile (async_kill's       *)
(* comment on dup).                                                        *)
RequestNamesItsProcess ==
    /\ \A i \in DOMAIN queue : queue[i].fd # NoFd => file[queue[i].fd] = queue[i].proc
    /\ \A t \in Threads :
         HasFd(t) /\ target[t].fd # NoFd => file[target[t].fd] = target[t].proc

(* At most one party would close fd, and only a thread that reads a        *)
(* directory would close a directory's descriptor.                         *)
Exclusive(fd) ==
    /\ fd \in own =>
         /\ file[fd] \in Procs
         /\ \A i \in DOMAIN queue : ~QueueHolds(i, fd)
         /\ \A t \in Threads : ~ThreadHolds(t, fd)
    /\ \A i, j \in DOMAIN queue : QueueHolds(i, fd) /\ QueueHolds(j, fd) => i = j
    /\ \A i \in DOMAIN queue, t \in Threads : ~(QueueHolds(i, fd) /\ ThreadHolds(t, fd))
    /\ \A t, u \in Threads : ThreadHolds(t, fd) /\ ThreadHolds(u, fd) => t = u
    /\ \A t \in Threads : DirHeld(t, fd) => file[fd] = Dir
    /\ \A t, u \in Threads : DirHeld(t, fd) /\ DirHeld(u, fd) => t = u

(* No two parties would close the same descriptor: the caller, the queue,  *)
(* and the threads' requests and directories hold different numbers.       *)
NoSharedDescriptor == \A fd \in FDs : Exclusive(fd)

(* Some party would close fd. *)
Held(fd) ==
    \/ fd \in own
    \/ \E i \in DOMAIN queue : QueueHolds(i, fd)
    \/ \E t \in Threads : ThreadHolds(t, fd) \/ DirHeld(t, fd)

(* Every open descriptor has a party that will close it: neither dup nor   *)
(* opendir leaks one, on any path of reaper_main.                          *)
NoLeakedDescriptor == \A fd \in FDs : Open(fd) => Held(fd)

(* SIGKILL only reaches processes the caller asked to kill. *)
KilledWasAsked == killed \subseteq asked

(* active_requests_ counts the requests that are queued or being served,   *)
(* and there are at most as many as threads, so queue_ never outgrows the  *)
(* storage Reaper::init reserves for it.                                   *)
CapacityKept ==
    /\ active = Len(queue) + Cardinality(Busy)
    /\ active <= thread_cnt

(* For every queued request there is a thread that is awake and will look  *)
(* at the queue: notify_one under mutex_ loses no wakeup.                  *)
NoLostWakeup == Len(queue) <= Cardinality(Awake)

-----------------------------------------------------------------------------
(* The parts of the inductive invariant that are not properties by         *)
(* themselves.                                                             *)

(* A thread that is past dequeue_request works on a request. *)
BusyHasRequest ==
    \A t \in Threads : pc[t] \notin Idle => target[t] \in Request

(* Inside Reaper::kill the argument is a pidfd the caller still owns. *)
CallTarget ==
    mpc # "idle" =>
        /\ mtarget.fd \in own
        /\ file[mtarget.fd] = mtarget.proc
        /\ mtarget.proc \in asked

(* Requests name processes the caller asked to kill. *)
RequestWasAsked ==
    /\ \A i \in DOMAIN queue : queue[i].proc \in asked
    /\ \A t \in Threads : pc[t] \notin Idle => target[t].proc \in asked

IInv ==
    /\ TypeOK /\ BusyHasRequest
    /\ CallTarget /\ RequestNamesItsProcess /\ NoSharedDescriptor
    /\ NoLeakedDescriptor
    /\ RequestWasAsked /\ KilledWasAsked
    /\ CapacityKept /\ NoLostWakeup

(* Requests the pool has accepted and not settled. *)
Unsettled ==
    {queue[i] : i \in DOMAIN queue} \cup {target[t] : t \in {u \in Threads : pc[u] \in InKill}}

Service == INSTANCE KillService WITH
    Capacity <- Cardinality(Threads),
    Ids      <- 1..(MaxRequests + 1),
    reports  <- pipe,
    pending  <- {[id |-> r.id, proc |-> r.proc, dup |-> r.fd # NoFd] : r \in Unsettled}

(* The pool implements the abstract service: every accepted request is     *)
(* settled once, by a signal to its process or by a report of it.          *)
ImplementsService == Service!Spec

(* A request that async_kill accepted does not stay unsettled, unless the  *)
(* failure pipe fills up and blocks the thread that holds mutex_.          *)
RequestsSettle ==
    \A i \in 1..(MaxRequests + 1) :
        (\E r \in Unsettled : r.id = i) ~>
            ((\A r \in Unsettled : r.id # i) \/ Len(pipe) = PipeCap)
=============================================================================
