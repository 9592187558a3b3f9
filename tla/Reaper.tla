------------------------------- MODULE Reaper -------------------------------
(***************************************************************************)
(* The kill thread pool of lmkd (reaper.cpp, reaper.h): a stack of kill    *)
(* requests under mutex_, a condition variable, THREAD_POOL_SIZE threads   *)
(* that run reaper_main, and the pipe on which they tell the main thread   *)
(* that a kill failed.  The module holds the threads and the two halves of *)
(* Reaper::async_kill; who calls it is left to the modules that extend it. *)
(*                                                                         *)
(* The kernel is modelled as far as the pool sees it: the descriptor table *)
(* of lmkd (one number space shared by every thread, lowest free number    *)
(* first), the processes that still exist, and the pipe of bounded size    *)
(* whose write end blocks.  A member of Procs is one process instance, so  *)
(* a pid that is reused is another member.                                 *)
(***************************************************************************)
EXTENDS Integers, Sequences, FiniteSets

CONSTANTS
    Threads,    \* the threads Reaper::init tries to create
    Procs,      \* process instances
    FDs,        \* descriptor numbers available to lmkd
    PipeCap,    \* pids the failure pipe holds before a write blocks
    NoProc,     \* content of a descriptor that is not open
    Dir,        \* content of a descriptor open on a /proc/<pid>/task directory
    NoThread    \* mutex_ is not held

ASSUME ReaperAssumption ==
    /\ IsFiniteSet(Threads)
    /\ FDs \subseteq Nat
    /\ PipeCap \in Nat \ {0}
    /\ NoProc \notin Procs /\ Dir \notin Procs /\ NoProc # Dir
    /\ NoThread \notin Threads

VARIABLES
    file,       \* descriptor table: what each number is open on
    exists,     \* processes that have not been reaped by their parent yet
    killed,     \* processes SIGKILL was delivered to
    queue,      \* queue_: requests not taken by a thread yet
    active,     \* active_requests_
    mutex,      \* the thread that holds mutex_ across a blocking write
    pc,         \* where each thread is in reaper_main
    target,     \* the local variable target of each thread
    dir,        \* the directory descriptor of each thread
    pipe        \* pids written to comm_fd_ and not read yet

kernelVars == <<file, exists, killed>>
poolVars   == <<queue, active, mutex, pc, target, dir, pipe>>
reaperVars == <<kernelVars, poolVars>>

NoFd == -1

(* A request carries its duplicated pidfd and its process; id tells apart  *)
(* requests and has no counterpart in the code.                            *)
Request   == [id : Nat, fd : FDs \cup {NoFd}, proc : Procs]
NoRequest == [id |-> 0, fd |-> NoFd, proc |-> NoProc]

Idle     == {"none", "dequeue", "wait"}
InKill   == {"signal", "notify", "write"}
InReap   == {"opendir", "closedir", "mrelease", "close"}
Location == Idle \cup InKill \cup InReap \cup {"complete"}

Waiting   == {t \in Threads : pc[t] = "wait"}
Awake     == {t \in Threads : pc[t] = "dequeue"}
Busy      == {t \in Threads : pc[t] \notin Idle}
HasFd(t)  == pc[t] \in InKill \cup InReap

thread_cnt == Cardinality({t \in Threads : pc[t] # "none"})

-----------------------------------------------------------------------------
(* The kernel's side.                                                      *)

Open(fd) == file[fd] # NoProc

(* The number the kernel hands out next, and whether there is one. *)
LowestFree(fd) == ~Open(fd) /\ \A g \in FDs : g < fd => Open(g)
TableFull      == \A fd \in FDs : Open(fd)

(* pidfd_send_signal succeeds on an open pidfd of a process that exists. *)
SignalOK(fd) == fd \in FDs /\ file[fd] \in exists

(* Mutant: the caller's descriptor is used as it is. *)
IsDup_Alias(fd, d) == d = fd

(* The value dup returns for fd. *)
IsDup(fd, d) ==
    \/ fd \in FDs /\ Open(fd) /\ d \in FDs /\ LowestFree(d)
    \/ (fd \notin FDs \/ ~Open(fd) \/ TableFull) /\ d = NoFd

DupTable(fd, d) == IF d = NoFd THEN file ELSE [file EXCEPT ![d] = file[fd]]

CloseTable(fd) == IF fd \in FDs THEN [file EXCEPT ![fd] = NoProc] ELSE file

(* A process ends, on its own or because of the signal, and is reaped. *)
ProcExit(p) ==
    /\ p \in exists
    /\ exists' = exists \ {p}
    /\ UNCHANGED <<file, killed, poolVars>>

-----------------------------------------------------------------------------
(* Reaper::init creates the threads; one whose pthread_create fails never  *)
(* runs, and with none at all every kill is synchronous.                   *)
ReaperInit ==
    /\ file = [fd \in FDs |-> NoProc]
    /\ exists = Procs
    /\ killed = {}
    /\ queue = <<>>
    /\ active = 0
    /\ mutex = NoThread
    /\ pc \in [Threads -> {"dequeue", "none"}]
    /\ target = [t \in Threads |-> NoRequest]
    /\ dir = [t \in Threads |-> NoFd]
    /\ pipe = <<>>

(* Mutant: no notification. *)
NotifyOne_Lost == pc' = pc

(* notify_one wakes one waiting thread when there is one. *)
NotifyOne ==
    \/ Waiting = {} /\ pc' = pc
    \/ \E t \in Waiting : pc' = [pc EXCEPT ![t] = "dequeue"]

(* Reaper::async_kill under mutex_: every thread has a request already. *)
AsyncKillBusy ==
    /\ mutex = NoThread
    /\ active >= thread_cnt
    /\ UNCHANGED reaperVars

(* Reaper::async_kill under mutex_: the request is pushed with a duplicate *)
(* of the caller's pidfd.                                                  *)
AsyncKillPush(id, fd, p) ==
    /\ mutex = NoThread
    /\ active < thread_cnt
    /\ active' = active + 1
    /\ \E d \in FDs \cup {NoFd} :
         /\ IsDup(fd, d)
         /\ file' = DupTable(fd, d)
         /\ queue' = Append(queue, [id |-> id, fd |-> d, proc |-> p])
    /\ NotifyOne
    /\ UNCHANGED <<exists, killed, mutex, target, dir, pipe>>

-----------------------------------------------------------------------------
(* The threads.                                                            *)

Goto(t, l) == pc' = [pc EXCEPT ![t] = l]

(* dequeue_request finds the queue empty and waits on cond_. *)
DequeueWait(t) ==
    /\ pc[t] = "dequeue" /\ mutex = NoThread
    /\ queue = <<>>
    /\ Goto(t, "wait")
    /\ UNCHANGED <<kernelVars, queue, active, mutex, target, dir, pipe>>

(* A condition variable may wake without a notification. *)
SpuriousWakeup(t) ==
    /\ pc[t] = "wait"
    /\ Goto(t, "dequeue")
    /\ UNCHANGED <<kernelVars, queue, active, mutex, target, dir, pipe>>

(* dequeue_request takes the request pushed last. *)
DequeueTake(t) ==
    /\ pc[t] = "dequeue" /\ mutex = NoThread
    /\ queue # <<>>
    /\ target' = [target EXCEPT ![t] = queue[Len(queue)]]
    /\ queue' = SubSeq(queue, 1, Len(queue) - 1)
    /\ Goto(t, "signal")
    /\ UNCHANGED <<kernelVars, active, mutex, dir, pipe>>

(* pidfd_send_signal(target.pidfd, SIGKILL). *)
SignalSent(t) ==
    /\ pc[t] = "signal"
    /\ SignalOK(target[t].fd)
    /\ killed' = killed \cup {file[target[t].fd]}
    /\ Goto(t, "opendir")
    /\ UNCHANGED <<file, exists, queue, active, mutex, target, dir, pipe>>

(* Mutant: the failure is not reported. *)
SignalFailed_Silent(t) ==
    /\ pc[t] = "signal"
    /\ ~SignalOK(target[t].fd)
    /\ Goto(t, "close")
    /\ UNCHANGED <<kernelVars, queue, active, mutex, target, dir, pipe>>

SignalFailed(t) ==
    /\ pc[t] = "signal"
    /\ ~SignalOK(target[t].fd)
    /\ Goto(t, "notify")
    /\ UNCHANGED <<kernelVars, queue, active, mutex, target, dir, pipe>>

(* notify_kill_failure takes mutex_ and keeps it while write may block. *)
NotifyLock(t) ==
    /\ pc[t] = "notify" /\ mutex = NoThread
    /\ mutex' = t
    /\ Goto(t, "write")
    /\ UNCHANGED <<kernelVars, queue, active, target, dir, pipe>>

NotifyWrite(t) ==
    /\ pc[t] = "write"
    /\ Len(pipe) < PipeCap
    /\ pipe' = Append(pipe, target[t].proc)
    /\ mutex' = NoThread
    /\ Goto(t, "close")
    /\ UNCHANGED <<kernelVars, queue, active, target, dir>>

(* set_process_group_and_prio opens /proc/<pid>/task by pid, so it may     *)
(* fail, or find a later process of that pid, once the process is gone.    *)
OpenTaskDir(t) ==
    /\ pc[t] = "opendir"
    /\ \/ \E fd \in FDs :
            /\ LowestFree(fd)
            /\ file' = [file EXCEPT ![fd] = Dir]
            /\ dir' = [dir EXCEPT ![t] = fd]
            /\ Goto(t, "closedir")
       \/ /\ Goto(t, "mrelease")
          /\ UNCHANGED <<file, dir>>
    /\ UNCHANGED <<exists, killed, queue, active, mutex, target, pipe>>

CloseTaskDir(t) ==
    /\ pc[t] = "closedir"
    /\ file' = CloseTable(dir[t])
    /\ dir' = [dir EXCEPT ![t] = NoFd]
    /\ Goto(t, "mrelease")
    /\ UNCHANGED <<exists, killed, queue, active, mutex, target, pipe>>

(* process_mrelease; its failure is only logged. *)
MRelease(t) ==
    /\ pc[t] = "mrelease"
    /\ Goto(t, "close")
    /\ UNCHANGED <<kernelVars, queue, active, mutex, target, dir, pipe>>

(* Mutant: the duplicate is not closed. *)
CloseTarget_Skip(t) ==
    /\ pc[t] = "close"
    /\ Goto(t, "complete")
    /\ UNCHANGED <<kernelVars, queue, active, mutex, target, dir, pipe>>

CloseTarget(t) ==
    /\ pc[t] = "close"
    /\ file' = CloseTable(target[t].fd)
    /\ Goto(t, "complete")
    /\ UNCHANGED <<exists, killed, queue, active, mutex, target, dir, pipe>>

(* Mutant: active_requests_ is not decremented. *)
RequestComplete_Uncounted(t) ==
    /\ pc[t] = "complete" /\ mutex = NoThread
    /\ target' = [target EXCEPT ![t] = NoRequest]
    /\ Goto(t, "dequeue")
    /\ UNCHANGED <<kernelVars, queue, active, mutex, dir, pipe>>

RequestComplete(t) ==
    /\ pc[t] = "complete" /\ mutex = NoThread
    /\ active' = active - 1
    /\ target' = [target EXCEPT ![t] = NoRequest]
    /\ Goto(t, "dequeue")
    /\ UNCHANGED <<kernelVars, queue, mutex, dir, pipe>>

(* What a thread does once the scheduler runs it. *)
ThreadStep(t) ==
    \/ DequeueWait(t)  \/ DequeueTake(t)
    \/ SignalSent(t)   \/ SignalFailed(t)
    \/ NotifyLock(t)   \/ NotifyWrite(t)
    \/ OpenTaskDir(t)  \/ CloseTaskDir(t) \/ MRelease(t)
    \/ CloseTarget(t)  \/ RequestComplete(t)
=============================================================================
