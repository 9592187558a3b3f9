--------------------------- MODULE ReaperFdProofs ---------------------------
(***************************************************************************)
(* Descriptors: every step of the pool and of its caller leaves each       *)
(* descriptor with at most one party that will close it, and a request's   *)
(* descriptor with the process the request is about.                       *)
(***************************************************************************)
EXTENDS ReaperTypeProofs

-----------------------------------------------------------------------------
(* A descriptor that no party comes to hold, and that denotes what it did, *)
(* keeps its one holder.                                                   *)
LEMMA KeptExclusive ==
    ASSUME NEW g \in FDs, Exclusive(g), file'[g] = file[g], g \in own' => g \in own,
           \A i \in DOMAIN queue' : QueueHolds(i, g)' => i \in DOMAIN queue /\ QueueHolds(i, g),
           \A t \in Threads : ThreadHolds(t, g)' => ThreadHolds(t, g),
           \A t \in Threads : DirHeld(t, g)' => DirHeld(t, g)
    PROVE  Exclusive(g)'
BY DEF Exclusive

(* A step that opens or closes no descriptor, and after which no thread    *)
(* holds one it did not hold, keeps every descriptor with its one holder.  *)
LEMMA QuietStep ==
    ASSUME UNCHANGED <<file, queue, own>>,
           \A t \in Threads : HasFd(t)' => HasFd(t) /\ target'[t] = target[t],
           \A t \in Threads : pc'[t] = "closedir" => pc[t] = "closedir" /\ dir'[t] = dir[t]
    PROVE  /\ RequestNamesItsProcess => RequestNamesItsProcess'
           /\ NoSharedDescriptor => NoSharedDescriptor'
<1>1. RequestNamesItsProcess => RequestNamesItsProcess'
  BY DEF RequestNamesItsProcess
<1>2. /\ \A i, fd : QueueHolds(i, fd)' <=> QueueHolds(i, fd)
      /\ \A t \in Threads, fd \in FDs : ThreadHolds(t, fd)' => ThreadHolds(t, fd)
      /\ \A t \in Threads, fd \in FDs : DirHeld(t, fd)' => DirHeld(t, fd)
  BY DEF QueueHolds, ThreadHolds, DirHeld
<1>3. NoSharedDescriptor => NoSharedDescriptor'
  BY <1>2, KeptExclusive DEF NoSharedDescriptor
<1> QED
  BY <1>1, <1>3

(* The fields of queued requests and of the requests of busy threads. *)
LEMMA RequestFields ==
    ASSUME TypeOK, BusyHasRequest
    PROVE  /\ \A i \in DOMAIN queue : queue[i].proc \in Procs /\ queue[i].fd \in FDs \cup {NoFd}
           /\ \A t \in Threads : HasFd(t) => /\ target[t].proc \in Procs
                                            /\ target[t].fd \in FDs \cup {NoFd}
<1>1. \A i \in DOMAIN queue : queue[i] \in Request
  BY LenProperties, ElementOfSeq DEF TypeOK
<1>2. \A t \in Threads : HasFd(t) => target[t] \in Request
  BY DEF BusyHasRequest, HasFd, Idle, InKill, InReap
<1> QED
  BY <1>1, <1>2 DEF Request

(* A descriptor that is not open has no holder. *)
LEMMA FreeIsUnheld ==
    ASSUME IInv, NEW fd \in FDs, ~Open(fd)
    PROVE  /\ fd \notin own
           /\ \A i \in DOMAIN queue : ~QueueHolds(i, fd)
           /\ \A t \in Threads : ~ThreadHolds(t, fd) /\ ~DirHeld(t, fd)
<1>0. TypeOK /\ BusyHasRequest /\ RequestNamesItsProcess /\ NoSharedDescriptor
  BY DEF IInv
<1>1. file[fd] = NoProc /\ NoProc \notin Procs /\ NoProc # Dir /\ fd # NoFd
  BY ReaperAssumption DEF Open, NoFd
<1>2. fd \notin own /\ \A t \in Threads : ~DirHeld(t, fd)
  BY <1>0, <1>1 DEF NoSharedDescriptor, Exclusive
<1>4. \A i \in DOMAIN queue : ~QueueHolds(i, fd)
  BY <1>0, <1>1, RequestFields DEF RequestNamesItsProcess, QueueHolds
<1>6. \A t \in Threads : ~ThreadHolds(t, fd)
  BY <1>0, <1>1, RequestFields DEF RequestNamesItsProcess, ThreadHolds
<1> QED
  BY <1>2, <1>4, <1>6

(* The descriptor part of the invariant is preserved. *)
LEMMA StepDescriptors ==
    IInv /\ [Next]_vars => CallTarget' /\ RequestNamesItsProcess' /\ NoSharedDescriptor'
<1> DEFINE Goal == CallTarget /\ RequestNamesItsProcess /\ NoSharedDescriptor
<1> SUFFICES ASSUME IInv, [Next]_vars PROVE Goal'
  OBVIOUS
<1> USE DEF kernelVars, poolVars, reaperVars, clientVars
<1>0. TypeOK /\ BusyHasRequest /\ CallTarget /\ RequestNamesItsProcess /\ NoSharedDescriptor
  BY DEF IInv
<1>1. TypeOK'
  BY StepTypeOK
<1>t. ASSUME NEW t \in Threads, ThreadStep(t) \/ SpuriousWakeup(t), UNCHANGED clientVars
      PROVE  Goal'
  <2>1. CASE \/ DequeueWait(t) \/ SpuriousWakeup(t) \/ SignalSent(t) \/ SignalFailed(t)
             \/ NotifyLock(t) \/ NotifyWrite(t) \/ MRelease(t) \/ RequestComplete(t)
    <3>1. UNCHANGED <<file, queue, own, dir>> /\ pc'[t] # "closedir"
      BY <1>0, <1>t, <2>1 DEF DequeueWait, SpuriousWakeup, SignalSent, SignalFailed, NotifyLock,
             NotifyWrite, MRelease, RequestComplete, Goto, TypeOK
    <3>2. /\ \A u \in Threads \ {t} : pc'[u] = pc[u] /\ target'[u] = target[u]
          /\ HasFd(t)' => HasFd(t) /\ target'[t] = target[t]
      BY <1>0, <2>1 DEF DequeueWait, SpuriousWakeup, SignalSent, SignalFailed, NotifyLock,
             NotifyWrite, MRelease, RequestComplete, Goto, TypeOK, HasFd, InKill, InReap
    <3>3. /\ \A u \in Threads : HasFd(u)' => HasFd(u) /\ target'[u] = target[u]
          /\ \A u \in Threads : pc'[u] = "closedir" => pc[u] = "closedir" /\ dir'[u] = dir[u]
      BY <3>1, <3>2 DEF HasFd
    <3>4. RequestNamesItsProcess' /\ NoSharedDescriptor'
      BY <1>0, <3>1, <3>3, QuietStep
    <3> QED
      BY <1>0, <1>t, <3>1, <3>4 DEF CallTarget
  <2>2. CASE DequeueTake(t)
    <3>1. /\ Len(queue) \in DOMAIN queue /\ Len(queue) \notin DOMAIN queue'
          /\ \A i \in DOMAIN queue' : i \in DOMAIN queue /\ queue'[i] = queue[i]
      BY <1>0, <2>2, TakeLast
    <3>2. /\ file' = file /\ own' = own /\ dir' = dir
          /\ target'[t] = queue[Len(queue)] /\ ~HasFd(t) /\ HasFd(t)'
          /\ \A u \in Threads \ {t} : pc'[u] = pc[u] /\ target'[u] = target[u]
          /\ pc'[t] = "signal"
      BY <1>0, <1>t, <2>2 DEF DequeueTake, Goto, TypeOK, HasFd, InKill, InReap
    <3>3. RequestNamesItsProcess'
      BY <1>0, <3>1, <3>2 DEF RequestNamesItsProcess, HasFd
    <3>4. /\ \A i \in DOMAIN queue', fd \in FDs : QueueHolds(i, fd)' <=> QueueHolds(i, fd)
          /\ \A i \in DOMAIN queue' : i \in DOMAIN queue
          /\ \A u \in Threads \ {t}, fd \in FDs : ThreadHolds(u, fd)' <=> ThreadHolds(u, fd)
          /\ \A fd \in FDs : ThreadHolds(t, fd)' <=> QueueHolds(Len(queue), fd)
          /\ \A u \in Threads, fd \in FDs : DirHeld(u, fd)' => DirHeld(u, fd)
      BY <3>1, <3>2 DEF QueueHolds, ThreadHolds, DirHeld, HasFd
    <3>5. ASSUME NEW g \in FDs PROVE Exclusive(g)'
      <4>1. Exclusive(g)
        BY <1>0 DEF NoSharedDescriptor
      <4>2. CASE ~QueueHolds(Len(queue), g)
        BY <3>2, <3>4, <4>1, <4>2, KeptExclusive
      <4>3. CASE QueueHolds(Len(queue), g)
        <5>1. /\ g \notin own' /\ \A i \in DOMAIN queue' : ~QueueHolds(i, g)'
              /\ \A u \in Threads \ {t} : ~ThreadHolds(u, g)'
          BY <3>1, <3>2, <3>4, <4>1, <4>3 DEF Exclusive
        <5> QED
          BY <3>2, <3>4, <4>1, <5>1 DEF Exclusive
      <4> QED
        BY <4>2, <4>3
    <3>6. NoSharedDescriptor'
      BY <3>5 DEF NoSharedDescriptor
    <3> QED
      BY <1>0, <1>t, <3>2, <3>3, <3>6 DEF CallTarget
  <2>3. CASE OpenTaskDir(t)
    <3>1. CASE UNCHANGED <<file, dir>> /\ Goto(t, "mrelease")
      <4>1. /\ \A u \in Threads : HasFd(u)' => HasFd(u) /\ target'[u] = target[u]
            /\ \A u \in Threads : pc'[u] = "closedir" => pc[u] = "closedir" /\ dir'[u] = dir[u]
            /\ UNCHANGED <<file, queue, own>>
        BY <1>0, <1>t, <2>3, <3>1 DEF OpenTaskDir, Goto, TypeOK, HasFd, InKill, InReap
      <4> QED
        BY <1>0, <1>t, <4>1, QuietStep DEF CallTarget
    <3>2. ASSUME NEW fd \in FDs, LowestFree(fd), file' = [file EXCEPT ![fd] = Dir],
                 dir' = [dir EXCEPT ![t] = fd], Goto(t, "closedir")
          PROVE  Goal'
      <4>1. /\ fd \notin own
            /\ \A i \in DOMAIN queue : ~QueueHolds(i, fd)
            /\ \A u \in Threads : ~ThreadHolds(u, fd) /\ ~DirHeld(u, fd)
        BY <3>2, FreeIsUnheld DEF LowestFree
      <4>2. /\ file'[fd] = Dir /\ \A g \in FDs \ {fd} : file'[g] = file[g]
            /\ dir'[t] = fd /\ \A u \in Threads \ {t} : dir'[u] = dir[u] /\ pc'[u] = pc[u]
            /\ pc'[t] = "closedir" /\ pc[t] = "opendir"
            /\ UNCHANGED <<queue, target, own, mpc, mtarget, asked>>
        BY <1>0, <1>t, <2>3, <3>2 DEF OpenTaskDir, Goto, TypeOK
      <4>3. \A u \in Threads : HasFd(u)' <=> HasFd(u)
        BY <4>2 DEF HasFd, InKill, InReap
      <4>4. /\ \A i, g : QueueHolds(i, g)' <=> QueueHolds(i, g)
            /\ \A u \in Threads, g \in FDs : ThreadHolds(u, g)' <=> ThreadHolds(u, g)
            /\ \A u \in Threads \ {t}, g \in FDs : DirHeld(u, g)' <=> DirHeld(u, g)
            /\ \A g \in FDs : DirHeld(t, g)' <=> g = fd
        BY <4>2, <4>3 DEF QueueHolds, ThreadHolds, DirHeld
      <4>5. CallTarget'
        BY <1>0, <4>1, <4>2 DEF CallTarget, TypeOK
      <4>6. /\ \A i \in DOMAIN queue : queue[i].fd # fd
            /\ \A u \in Threads : HasFd(u) => target[u].fd # fd
        BY <4>1 DEF QueueHolds, ThreadHolds
      <4>8. RequestNamesItsProcess'
        BY <1>0, <4>2, <4>3, <4>6, RequestFields DEF RequestNamesItsProcess
      <4>9. NoSharedDescriptor'
        <5> SUFFICES ASSUME NEW g \in FDs PROVE Exclusive(g)'
          BY DEF NoSharedDescriptor
        <5>1. Exclusive(g)
          BY <1>0 DEF NoSharedDescriptor
        <5>2. CASE g # fd
          BY <4>2, <4>4, <5>1, <5>2, KeptExclusive
        <5>3. CASE g = fd
          BY <4>1, <4>2, <4>4, <5>1, <5>3 DEF Exclusive
        <5> QED
          BY <5>2, <5>3
      <4> QED
        BY <4>5, <4>8, <4>9
    <3> QED
      BY <2>3, <3>1, <3>2 DEF OpenTaskDir
  <2>4. CASE CloseTaskDir(t)
    <3> DEFINE fd == dir[t]
    <3>1. /\ pc[t] = "closedir" /\ pc'[t] = "mrelease"
          /\ \A u \in Threads \ {t} : dir'[u] = dir[u] /\ pc'[u] = pc[u]
          /\ \A g \in FDs : g # fd => file'[g] = file[g]
          /\ UNCHANGED <<queue, target, own, mpc, mtarget, asked>>
      BY <1>0, <1>t, <2>4 DEF CloseTaskDir, CloseTable, Goto, TypeOK
    <3>2. fd \in FDs => file[fd] = Dir
      BY <1>0, <3>1 DEF NoSharedDescriptor, Exclusive, DirHeld
    <3>3. Dir \notin Procs
      BY ReaperAssumption
    <3>4. \A u \in Threads : HasFd(u)' <=> HasFd(u)
      BY <3>1 DEF HasFd, InKill, InReap
    <3>5. /\ \A i, g : QueueHolds(i, g)' <=> QueueHolds(i, g)
          /\ \A u \in Threads, g \in FDs : ThreadHolds(u, g)' <=> ThreadHolds(u, g)
          /\ \A u \in Threads \ {t}, g \in FDs : DirHeld(u, g)' <=> DirHeld(u, g)
          /\ \A g \in FDs : ~DirHeld(t, g)'
      BY <3>1, <3>4 DEF QueueHolds, ThreadHolds, DirHeld
    <3>6. CallTarget'
      BY <1>0, <3>1, <3>2, <3>3 DEF CallTarget, TypeOK, NoSharedDescriptor, Exclusive
    <3>7. RequestNamesItsProcess'
      BY <1>0, <3>1, <3>2, <3>3, <3>4, RequestFields DEF RequestNamesItsProcess
    <3>8. \A u \in Threads : u # t => ~DirHeld(u, fd) \/ fd \notin FDs
      BY <1>0, <3>1 DEF NoSharedDescriptor, Exclusive, DirHeld
    <3>9. NoSharedDescriptor'
      <4> SUFFICES ASSUME NEW g \in FDs PROVE Exclusive(g)'
        BY DEF NoSharedDescriptor
      <4>1. Exclusive(g)
        BY <1>0 DEF NoSharedDescriptor
      <4>2. CASE g # fd
        BY <3>1, <3>5, <4>1, <4>2, KeptExclusive
      <4>3. CASE g = fd
        BY <3>1, <3>2, <3>3, <3>5, <3>8, <4>1, <4>3 DEF Exclusive
      <4> QED
        BY <4>2, <4>3
    <3> QED
      BY <3>6, <3>7, <3>9
  <2>5. CASE CloseTarget(t)
    <3> DEFINE fd == target[t].fd
    <3>1. /\ pc[t] = "close" /\ pc'[t] = "complete"
          /\ \A u \in Threads \ {t} : pc'[u] = pc[u]
          /\ \A g \in FDs : g # fd => file'[g] = file[g]
          /\ UNCHANGED <<queue, target, dir, own, mpc, mtarget, asked>>
      BY <1>0, <1>t, <2>5 DEF CloseTarget, CloseTable, Goto, TypeOK
    <3>2. /\ HasFd(t) /\ ~HasFd(t)'
          /\ \A u \in Threads \ {t} : HasFd(u)' <=> HasFd(u)
      BY <3>1 DEF HasFd, InKill, InReap
    <3>3. ThreadHolds(t, fd)
      BY <3>2 DEF ThreadHolds
    <3>4. /\ \A i, g : QueueHolds(i, g)' <=> QueueHolds(i, g)
          /\ \A u \in Threads \ {t}, g \in FDs : ThreadHolds(u, g)' <=> ThreadHolds(u, g)
          /\ \A u \in Threads, g \in FDs : DirHeld(u, g)' <=> DirHeld(u, g)
          /\ \A g \in FDs : ~ThreadHolds(t, g)'
      BY <3>1, <3>2 DEF QueueHolds, ThreadHolds, DirHeld
    <3>5. fd \in FDs => /\ fd \notin own
                        /\ \A i \in DOMAIN queue : queue[i].fd # fd
                        /\ \A u \in Threads \ {t} : ~ThreadHolds(u, fd)
      <4> SUFFICES ASSUME fd \in FDs
                   PROVE  /\ fd \notin own
                          /\ \A i \in DOMAIN queue : ~QueueHolds(i, fd)
                          /\ \A u \in Threads \ {t} : ~ThreadHolds(u, fd)
        BY DEF QueueHolds
      <4> HIDE DEF fd
      <4> QED
        BY <1>0, <3>3 DEF NoSharedDescriptor, Exclusive
    <3>6. fd \in FDs => file[fd] # Dir
      BY <1>0, <3>2, RequestFields, ReaperAssumption DEF RequestNamesItsProcess, NoFd
    <3>7. CallTarget'
      BY <1>0, <3>1, <3>5 DEF CallTarget, TypeOK
    <3>8. RequestNamesItsProcess'
      BY <1>0, <3>1, <3>2, <3>5, RequestFields DEF RequestNamesItsProcess, ThreadHolds
    <3>9. NoSharedDescriptor'
      <4> SUFFICES ASSUME NEW g \in FDs PROVE Exclusive(g)'
        BY DEF NoSharedDescriptor
      <4>1. Exclusive(g)
        BY <1>0 DEF NoSharedDescriptor
      <4>2. CASE g # fd
        BY <3>1, <3>4, <4>1, <4>2, KeptExclusive
      <4>3. CASE g = fd
        BY <3>1, <3>4, <3>5, <3>6, <4>1, <4>3 DEF Exclusive
      <4> QED
        BY <4>2, <4>3
    <3> QED
      BY <3>7, <3>8, <3>9
  <2> QED
    BY <1>t, <2>1, <2>2, <2>3, <2>4, <2>5 DEF ThreadStep
<1>c. CASE CallerStep
  <2>1. ASSUME NEW p \in Procs, PidfdOpen(p)
        PROVE  Goal'
    <3>1. PICK fd \in FDs : LowestFree(fd) /\ file' = [file EXCEPT ![fd] = p] /\ own' = own \cup {fd}
      BY <2>1 DEF PidfdOpen
    <3>2. /\ fd \notin own
          /\ \A i \in DOMAIN queue : ~QueueHolds(i, fd)
          /\ \A u \in Threads : ~ThreadHolds(u, fd) /\ ~DirHeld(u, fd)
      BY <3>1, FreeIsUnheld DEF LowestFree
    <3>3. /\ file'[fd] = p /\ \A g \in FDs \ {fd} : file'[g] = file[g]
          /\ UNCHANGED <<queue, pc, target, dir, mpc, mtarget, asked>>
      BY <1>0, <2>1, <3>1 DEF PidfdOpen, TypeOK
    <3>4. CallTarget'
      BY <1>0, <3>1, <3>2, <3>3 DEF CallTarget, TypeOK
    <3>5. RequestNamesItsProcess'
      BY <1>0, <3>2, <3>3, RequestFields DEF RequestNamesItsProcess, QueueHolds, ThreadHolds, HasFd
    <3>6. /\ \A i, g : QueueHolds(i, g)' <=> QueueHolds(i, g)
          /\ \A u, g : (ThreadHolds(u, g)' <=> ThreadHolds(u, g)) /\ (DirHeld(u, g)' <=> DirHeld(u, g))
      BY <3>3 DEF QueueHolds, ThreadHolds, DirHeld, HasFd
    <3>7. NoSharedDescriptor'
      <4> SUFFICES ASSUME NEW g \in FDs PROVE Exclusive(g)'
        BY DEF NoSharedDescriptor
      <4>1. Exclusive(g)
        BY <1>0 DEF NoSharedDescriptor
      <4>2. CASE g # fd
        BY <3>1, <3>3, <3>6, <4>1, <4>2, KeptExclusive
      <4>3. CASE g = fd
        BY <3>1, <3>2, <3>3, <3>6, <4>1, <4>3 DEF Exclusive
      <4> QED
        BY <4>2, <4>3
    <3> QED
      BY <3>4, <3>5, <3>7
  <2>2. ASSUME NEW fd \in FDs, PidfdClose(fd)
        PROVE  Goal'
    <3>1. /\ fd \in own /\ own' = own \ {fd} /\ mpc' = "idle"
          /\ \A g \in FDs \ {fd} : file'[g] = file[g]
          /\ UNCHANGED <<queue, pc, target, dir>>
      BY <1>0, <2>2 DEF PidfdClose, CloseTable, TypeOK
    <3>2. /\ \A i \in DOMAIN queue : ~QueueHolds(i, fd)
          /\ \A u \in Threads : ~ThreadHolds(u, fd)
          /\ file[fd] \in Procs
      BY <1>0, <3>1 DEF NoSharedDescriptor, Exclusive
    <3>3. \A u \in Threads : ~DirHeld(u, fd)
      BY <1>0, <3>2, ReaperAssumption DEF NoSharedDescriptor, Exclusive
    <3>4. RequestNamesItsProcess'
      BY <1>0, <3>1, <3>2, RequestFields DEF RequestNamesItsProcess, QueueHolds, ThreadHolds, HasFd
    <3>5. /\ \A i, g : QueueHolds(i, g)' <=> QueueHolds(i, g)
          /\ \A u, g : (ThreadHolds(u, g)' <=> ThreadHolds(u, g)) /\ (DirHeld(u, g)' <=> DirHeld(u, g))
      BY <3>1 DEF QueueHolds, ThreadHolds, DirHeld, HasFd
    <3>6. NoSharedDescriptor'
      <4> SUFFICES ASSUME NEW g \in FDs PROVE Exclusive(g)'
        BY DEF NoSharedDescriptor
      <4>1. Exclusive(g)
        BY <1>0 DEF NoSharedDescriptor
      <4>2. CASE g # fd
        BY <3>1, <3>5, <4>1, <4>2, KeptExclusive
      <4>3. CASE g = fd
        BY <3>1, <3>2, <3>3, <3>5, <4>1, <4>3 DEF Exclusive
      <4> QED
        BY <4>2, <4>3
    <3> QED
      BY <3>1, <3>4, <3>6 DEF CallTarget
  <2>3. ASSUME \/ \E fd \in FDs, synchronous \in BOOLEAN : KillCall(fd, synchronous)
               \/ \E p \in Procs : KillByPid(p)
               \/ KillAsyncBusy \/ KillSync \/ ReadFailure
        PROVE  Goal'
    <3>1. UNCHANGED <<file, queue, own, pc, target, dir>>
      BY <2>3 DEF KillCall, KillByPid, KillAsyncBusy, AsyncKillBusy, KillSync, ReadFailure
    <3>2. CallTarget'
      BY <1>0, <2>3, <3>1
         DEF CallTarget, KillCall, KillByPid, KillAsyncBusy, AsyncKillBusy, KillSync, ReadFailure
    <3>3. RequestNamesItsProcess' /\ NoSharedDescriptor'
      BY <1>0, <3>1, QuietStep DEF HasFd
    <3> QED
      BY <3>2, <3>3
  <2>4. CASE KillAsync
    <3>1. mtarget.fd \in own /\ mtarget.fd \in FDs /\ file[mtarget.fd] = mtarget.proc
      BY <1>0, <2>4 DEF KillAsync, CallTarget, TypeOK
    <3>2. PICK d \in FDs \cup {NoFd} :
             /\ IsDup(mtarget.fd, d)
             /\ file' = DupTable(mtarget.fd, d)
             /\ queue' = Append(queue, [id |-> nextId, fd |-> d, proc |-> mtarget.proc])
      BY <2>4 DEF KillAsync, AsyncKillPush
    <3>3. d = NoFd \/ (d \in FDs /\ ~Open(d))
      BY <3>2 DEF IsDup, LowestFree
    <3>4. d \in FDs => /\ d \notin own
                       /\ \A i \in DOMAIN queue : ~QueueHolds(i, d)
                       /\ \A u \in Threads : ~ThreadHolds(u, d) /\ ~DirHeld(u, d)
      BY <3>3, FreeIsUnheld, ReaperAssumption DEF NoFd
    <3>5. /\ \A g \in FDs : g # d => file'[g] = file[g]
          /\ d \in FDs => file'[d] = mtarget.proc
      BY <1>0, <3>1, <3>2, ReaperAssumption DEF DupTable, NoFd, TypeOK
    <3>6. PICK n \in Nat :
             /\ DOMAIN queue' = DOMAIN queue \cup {n}
             /\ \A i \in DOMAIN queue : queue'[i] = queue[i]
             /\ queue'[n] = [id |-> nextId, fd |-> d, proc |-> mtarget.proc]
      <4>1. [id |-> nextId, fd |-> d, proc |-> mtarget.proc] \in Request
        BY <1>0, <3>1 DEF Request, TypeOK, NoSharedDescriptor, Exclusive
      <4> QED
        BY <1>0, <3>2, <4>1, PushLast
    <3>7. /\ \A u \in Threads : HasFd(u)' <=> HasFd(u)
          /\ \A u \in Threads : pc'[u] = "closedir" <=> pc[u] = "closedir"
          /\ UNCHANGED <<target, dir, own>> /\ mpc' = "idle"
      BY <1>0, <2>4 DEF KillAsync, AsyncKillPush, NotifyOne, Waiting, HasFd, InKill, InReap, TypeOK
    <3>8. RequestNamesItsProcess'
      <4>1. /\ \A i \in DOMAIN queue : queue[i].fd # d \/ d = NoFd
            /\ \A u \in Threads : HasFd(u) => target[u].fd # d \/ d = NoFd
        BY <3>3, <3>4 DEF QueueHolds, ThreadHolds
      <4>2. ASSUME NEW u \in Threads, HasFd(u)', target'[u].fd # NoFd
            PROVE  file'[target'[u].fd] = target'[u].proc
        BY <1>0, <3>5, <3>7, <4>1, <4>2, RequestFields DEF RequestNamesItsProcess
      <4>3. ASSUME NEW i \in DOMAIN queue, queue'[i].fd # NoFd
            PROVE  file'[queue'[i].fd] = queue'[i].proc
        <5>1. queue'[i] = queue[i]
          BY <3>6
        <5> QED
          BY <1>0, <3>5, <4>1, <4>3, <5>1, RequestFields DEF RequestNamesItsProcess
      <4>4. queue'[n].fd = d /\ queue'[n].proc = mtarget.proc
        BY <3>6
      <4>5. queue'[n].fd # NoFd => file'[queue'[n].fd] = queue'[n].proc
        BY <3>3, <3>5, <4>4
      <4>6. \A i \in DOMAIN queue' : i \in DOMAIN queue \/ i = n
        BY <3>6
      <4> QED
        BY <4>2, <4>3, <4>5, <4>6 DEF RequestNamesItsProcess
    <3>9. /\ \A i \in DOMAIN queue, g \in FDs : QueueHolds(i, g)' <=> QueueHolds(i, g)
          /\ \A g \in FDs : QueueHolds(n, g)' <=> g = d
          /\ \A i \in DOMAIN queue' : i \in DOMAIN queue \/ i = n
          /\ \A u \in Threads, g \in FDs : ThreadHolds(u, g)' <=> ThreadHolds(u, g)
          /\ \A u \in Threads, g \in FDs : DirHeld(u, g)' <=> DirHeld(u, g)
      <4>1. /\ \A i \in DOMAIN queue : i \in DOMAIN queue'
            /\ \A i \in DOMAIN queue' : i \in DOMAIN queue \/ i = n
            /\ n \in DOMAIN queue'
        BY <3>6
      <4>2. queue'[n].fd = d
        BY <3>6
      <4>3. /\ \A i \in DOMAIN queue, g \in FDs : QueueHolds(i, g)' <=> QueueHolds(i, g)
            /\ \A g \in FDs : QueueHolds(n, g)' <=> g = d
        BY <3>6, <4>1, <4>2 DEF QueueHolds
      <4> QED
        BY <3>7, <4>1, <4>3 DEF ThreadHolds, DirHeld
    <3>10. NoSharedDescriptor'
      <4> SUFFICES ASSUME NEW g \in FDs PROVE Exclusive(g)'
        BY DEF NoSharedDescriptor
      <4>1. Exclusive(g)
        BY <1>0 DEF NoSharedDescriptor
      <4>2. CASE g # d
        BY <3>5, <3>7, <3>9, <4>1, <4>2, KeptExclusive
      <4>3. CASE g = d
        BY <3>4, <3>7, <3>9, <4>3 DEF Exclusive
      <4> QED
        BY <4>2, <4>3
    <3> QED
      BY <3>7, <3>8, <3>10 DEF CallTarget
  <2> QED
    BY <1>c, <2>1, <2>2, <2>3, <2>4 DEF CallerStep
<1>k. ASSUME UNCHANGED <<file, queue, own, pc, target, dir, mpc, mtarget, asked>>
      PROVE  Goal'
  <2>1. RequestNamesItsProcess' /\ NoSharedDescriptor'
    BY <1>0, <1>k, QuietStep DEF HasFd
  <2> QED
    BY <1>0, <1>k, <2>1 DEF CallTarget
<1> QED
  <2>1. ASSUME KernelStep \/ UNCHANGED vars PROVE Goal'
    BY <1>k, <2>1 DEF KernelStep, ProcExit, vars
  <2> HIDE DEF Goal
  <2> QED
    BY <1>t, <1>c, <2>1 DEF Next, PoolStep
=============================================================================
