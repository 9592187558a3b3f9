---------------------------- MODULE ReaperProofs ----------------------------
(***************************************************************************)
(* The invariant of the reaper with its most general caller, and the       *)
(* theorems that follow from it.                                           *)
(***************************************************************************)
EXTENDS ReaperFdProofs

-----------------------------------------------------------------------------
(* Every open descriptor keeps a holder. *)
LEMMA StepNoLeak == IInv /\ [Next]_vars => NoLeakedDescriptor'
<1> SUFFICES ASSUME IInv, [Next]_vars, NEW fd \in FDs, Open(fd)'
             PROVE  Held(fd)'
  BY DEF NoLeakedDescriptor
<1> USE DEF kernelVars, poolVars, reaperVars, clientVars
<1>0. TypeOK /\ BusyHasRequest /\ CallTarget /\ (Open(fd) => Held(fd))
  BY DEF IInv, NoLeakedDescriptor
<1>q. ASSUME UNCHANGED <<file, queue, own, dir>>,
             \A t \in Threads : HasFd(t) => HasFd(t)' /\ target'[t] = target[t],
             \A t \in Threads : pc[t] = "closedir" => pc'[t] = "closedir"
      PROVE  Held(fd)'
  <2>1. Held(fd)
    BY <1>0, <1>q DEF Open
  <2> QED
    BY <1>q, <2>1 DEF Held, QueueHolds, ThreadHolds, DirHeld
<1>t. ASSUME NEW t \in Threads, ThreadStep(t) \/ SpuriousWakeup(t), UNCHANGED clientVars
      PROVE  Held(fd)'
  <2>0. \A u \in Threads \ {t} : pc'[u] = pc[u] /\ target'[u] = target[u] /\ dir'[u] = dir[u]
    BY <1>0, <1>t DEF ThreadStep, DequeueWait, SpuriousWakeup, DequeueTake, SignalSent, SignalFailed,
           NotifyLock, NotifyWrite, OpenTaskDir, CloseTaskDir, MRelease, CloseTarget, RequestComplete,
           Goto, TypeOK
  <2>1. CASE \/ DequeueWait(t) \/ SpuriousWakeup(t) \/ SignalSent(t) \/ SignalFailed(t)
             \/ NotifyLock(t) \/ NotifyWrite(t) \/ MRelease(t) \/ RequestComplete(t)
    <3>1. /\ UNCHANGED <<file, queue, own, dir>>
          /\ HasFd(t) => HasFd(t)' /\ target'[t] = target[t]
          /\ pc[t] # "closedir"
      BY <1>0, <1>t, <2>1 DEF DequeueWait, SpuriousWakeup, SignalSent, SignalFailed, NotifyLock,
             NotifyWrite, MRelease, RequestComplete, Goto, TypeOK, HasFd, InKill, InReap
    <3> QED
      BY <1>q, <2>0, <3>1 DEF HasFd
  <2>2. CASE DequeueTake(t)
    <3>1. PICK n : n = Len(queue)
      OBVIOUS
    <3>2. \A i \in DOMAIN queue : i = n \/ (i \in DOMAIN queue' /\ queue'[i] = queue[i])
      BY <1>0, <2>2, <3>1, TakeLast
    <3>3. /\ UNCHANGED <<file, own, dir>> /\ ~HasFd(t) /\ HasFd(t)' /\ pc[t] # "closedir"
          /\ target'[t] = queue[n]
      BY <1>0, <1>t, <2>2, <3>1 DEF DequeueTake, Goto, TypeOK, HasFd, InKill, InReap
    <3>4. Held(fd)
      BY <1>0, <3>3 DEF Open
    <3>5. /\ \A i \in DOMAIN queue : QueueHolds(i, fd) => QueueHolds(i, fd)' \/ ThreadHolds(t, fd)'
          /\ \A i \in DOMAIN queue : QueueHolds(i, fd)' => i \in DOMAIN queue'
      BY <3>2, <3>3 DEF QueueHolds, ThreadHolds
    <3>6. \A u \in Threads : /\ ThreadHolds(u, fd) => ThreadHolds(u, fd)'
                             /\ DirHeld(u, fd) => DirHeld(u, fd)'
      BY <2>0, <3>3 DEF ThreadHolds, DirHeld, HasFd
    <3> QED
      BY <3>3, <3>4, <3>5, <3>6 DEF Held
  <2>3. CASE OpenTaskDir(t)
    <3>1. /\ UNCHANGED <<queue, target, own>> /\ pc[t] # "closedir" /\ HasFd(t) /\ HasFd(t)'
      BY <1>0, <1>t, <2>3 DEF OpenTaskDir, Goto, TypeOK, HasFd, InKill, InReap
    <3>2. Open(fd) \/ DirHeld(t, fd)'
      BY <1>0, <2>3 DEF OpenTaskDir, Goto, TypeOK, Open, DirHeld
    <3> QED
      BY <1>0, <2>0, <3>1, <3>2 DEF Held, QueueHolds, ThreadHolds, DirHeld, HasFd
  <2>4. CASE CloseTaskDir(t)
    <3>1. /\ UNCHANGED <<queue, target, own>> /\ HasFd(t) /\ HasFd(t)'
      BY <1>0, <1>t, <2>4 DEF CloseTaskDir, Goto, TypeOK, HasFd, InKill, InReap
    <3>2. Open(fd) /\ ~DirHeld(t, fd)
      BY <1>0, <2>4 DEF CloseTaskDir, CloseTable, TypeOK, Open, DirHeld
    <3> QED
      BY <1>0, <2>0, <3>1, <3>2 DEF Held, QueueHolds, ThreadHolds, DirHeld, HasFd
  <2>5. CASE CloseTarget(t)
    <3>1. /\ UNCHANGED <<queue, target, own, dir>> /\ pc[t] # "closedir"
      BY <1>0, <1>t, <2>5 DEF CloseTarget, Goto, TypeOK
    <3>2. Open(fd) /\ ~ThreadHolds(t, fd)
      BY <1>0, <2>5 DEF CloseTarget, CloseTable, TypeOK, Open, ThreadHolds
    <3> QED
      BY <1>0, <2>0, <3>1, <3>2 DEF Held, QueueHolds, ThreadHolds, DirHeld, HasFd
  <2> QED
    BY <1>t, <2>1, <2>2, <2>3, <2>4, <2>5 DEF ThreadStep
<1>c. CASE CallerStep
  <2>1. ASSUME (\E p \in Procs : PidfdOpen(p)) \/ (\E g \in FDs : PidfdClose(g))
        PROVE  Held(fd)'
    <3>1. UNCHANGED <<queue, pc, target, dir>>
      BY <2>1 DEF PidfdOpen, PidfdClose
    <3>2. fd \in own' \/ (Open(fd) /\ fd \notin own)
      BY <1>0, <2>1 DEF PidfdOpen, PidfdClose, CloseTable, Open, TypeOK
    <3> QED
      BY <1>0, <3>1, <3>2 DEF Held, QueueHolds, ThreadHolds, DirHeld, HasFd
  <2>2. ASSUME \/ \E g \in FDs, synchronous \in BOOLEAN : KillCall(g, synchronous)
               \/ \E p \in Procs : KillByPid(p)
               \/ KillAsyncBusy \/ KillSync \/ ReadFailure
        PROVE  Held(fd)'
    <3>1. UNCHANGED <<file, queue, own, pc, target, dir>>
      BY <2>2 DEF KillCall, KillByPid, KillAsyncBusy, AsyncKillBusy, KillSync, ReadFailure
    <3> QED
      BY <1>q, <3>1 DEF HasFd
  <2>3. CASE KillAsync
    <3>1. mtarget.fd \in FDs /\ mtarget.proc \in Procs
      BY <1>0, <2>3 DEF KillAsync, CallTarget, NoSharedDescriptor, Exclusive, TypeOK, IInv
    <3>2. PICK d \in FDs \cup {NoFd} :
             /\ file' = DupTable(mtarget.fd, d)
             /\ queue' = Append(queue, [id |-> nextId, fd |-> d, proc |-> mtarget.proc])
      BY <2>3 DEF KillAsync, AsyncKillPush
    <3>3. [id |-> nextId, fd |-> d, proc |-> mtarget.proc] \in Request
      BY <1>0, <3>1 DEF Request, TypeOK
    <3>4. PICK n \in Nat :
             /\ DOMAIN queue' = DOMAIN queue \cup {n}
             /\ \A i \in DOMAIN queue : queue'[i] = queue[i]
             /\ queue'[n] = [id |-> nextId, fd |-> d, proc |-> mtarget.proc]
      BY <1>0, <3>2, <3>3, PushLast
    <3>5. Open(fd) \/ fd = d
      BY <1>0, <3>1, <3>2 DEF DupTable, Open, TypeOK
    <3>6. /\ \A u \in Threads : HasFd(u) => HasFd(u)'
          /\ \A u \in Threads : pc[u] = "closedir" => pc'[u] = "closedir"
          /\ UNCHANGED <<target, dir, own>>
      BY <1>0, <2>3 DEF KillAsync, AsyncKillPush, NotifyOne, Waiting, HasFd, InKill, InReap, TypeOK
    <3>7. queue'[n].fd = d
      BY <3>4
    <3>8. /\ \A i \in DOMAIN queue : QueueHolds(i, fd) => i \in DOMAIN queue' /\ QueueHolds(i, fd)'
          /\ fd = d => n \in DOMAIN queue' /\ QueueHolds(n, fd)'
      BY <3>4, <3>7 DEF QueueHolds
    <3>9. \A u \in Threads : /\ ThreadHolds(u, fd) => ThreadHolds(u, fd)'
                             /\ DirHeld(u, fd) => DirHeld(u, fd)'
      BY <3>6 DEF ThreadHolds, DirHeld
    <3> QED
      BY <1>0, <3>5, <3>6, <3>8, <3>9 DEF Held
  <2> QED
    BY <1>c, <2>1, <2>2, <2>3 DEF CallerStep
<1>k. ASSUME KernelStep \/ UNCHANGED vars PROVE Held(fd)'
  <2>1. UNCHANGED <<file, queue, own, pc, target, dir>>
    BY <1>k DEF KernelStep, ProcExit, vars
  <2> QED
    BY <1>q, <2>1 DEF HasFd
<1> QED
  BY <1>t, <1>c, <1>k DEF Next, PoolStep

-----------------------------------------------------------------------------
(* Only processes that were asked for are queued, served and killed. *)
LEMMA StepAsked == IInv /\ [Next]_vars => RequestWasAsked' /\ KilledWasAsked'
<1> SUFFICES ASSUME IInv, [Next]_vars PROVE RequestWasAsked' /\ KilledWasAsked'
  OBVIOUS
<1> USE DEF kernelVars, poolVars, reaperVars, clientVars
<1>0. /\ TypeOK /\ CallTarget /\ RequestWasAsked /\ KilledWasAsked
      /\ BusyHasRequest /\ RequestNamesItsProcess /\ NoSharedDescriptor
  BY DEF IInv
<1>q. ASSUME UNCHANGED queue, asked \subseteq asked', killed' \subseteq killed \cup asked',
             \A t \in Threads : pc'[t] \notin Idle => pc[t] \notin Idle /\ target'[t] = target[t]
      PROVE  RequestWasAsked' /\ KilledWasAsked'
  BY <1>0, <1>q DEF RequestWasAsked, KilledWasAsked
<1>t. ASSUME NEW t \in Threads, ThreadStep(t) \/ SpuriousWakeup(t), UNCHANGED clientVars
      PROVE  RequestWasAsked' /\ KilledWasAsked'
  <2>0. \A u \in Threads \ {t} : pc'[u] = pc[u] /\ target'[u] = target[u]
    BY <1>0, <1>t DEF ThreadStep, DequeueWait, SpuriousWakeup, DequeueTake, SignalSent, SignalFailed,
           NotifyLock, NotifyWrite, OpenTaskDir, CloseTaskDir, MRelease, CloseTarget, RequestComplete,
           Goto, TypeOK
  <2>1. CASE DequeueTake(t)
    <3>1. PICK n \in DOMAIN queue : n = Len(queue)
      BY <1>0, <2>1, TakeLast
    <3>2. \A i \in DOMAIN queue' : i \in DOMAIN queue /\ queue'[i] = queue[i]
      BY <1>0, <2>1, TakeLast
    <3>3. target'[t] = queue[n] /\ UNCHANGED <<killed, asked>>
      BY <1>0, <1>t, <2>1, <3>1 DEF DequeueTake, TypeOK
    <3> QED
      BY <1>0, <2>0, <3>1, <3>2, <3>3 DEF RequestWasAsked, KilledWasAsked
  <2>2. CASE SignalSent(t)
    <3>1. target[t] \in Request /\ target[t].proc \in asked /\ HasFd(t)
      BY <1>0, <2>2 DEF SignalSent, BusyHasRequest, RequestWasAsked, Idle, HasFd, InKill
    <3>2. target[t].fd \in FDs /\ file[target[t].fd] = target[t].proc
      <4>1. target[t].fd \in FDs
        BY <2>2 DEF SignalSent, SignalOK
      <4>2. target[t].fd # NoFd
        BY <4>1, ReaperAssumption DEF NoFd
      <4> QED
        BY <1>0, <3>1, <4>1, <4>2 DEF RequestNamesItsProcess
    <3>3. /\ killed' = killed \cup {target[t].proc}
          /\ UNCHANGED <<queue, asked, target>> /\ pc[t] \notin Idle
      BY <1>t, <2>2, <3>2 DEF SignalSent, Idle
    <3> QED
      BY <1>q, <2>0, <3>1, <3>3
  <2>3. CASE \/ DequeueWait(t) \/ SpuriousWakeup(t) \/ SignalFailed(t) \/ NotifyLock(t)
             \/ NotifyWrite(t) \/ OpenTaskDir(t) \/ CloseTaskDir(t) \/ MRelease(t)
             \/ CloseTarget(t) \/ RequestComplete(t)
    <3>1. /\ UNCHANGED <<queue, asked, killed>>
          /\ pc'[t] \notin Idle => pc[t] \notin Idle /\ target'[t] = target[t]
      BY <1>0, <1>t, <2>3 DEF DequeueWait, SpuriousWakeup, SignalFailed, NotifyLock, NotifyWrite,
             OpenTaskDir, CloseTaskDir, MRelease, CloseTarget, RequestComplete, Goto, TypeOK, Idle
    <3> QED
      BY <1>q, <2>0, <3>1
  <2> QED
    BY <1>t, <2>1, <2>2, <2>3 DEF ThreadStep
<1>c. CASE CallerStep
  <2>1. ASSUME \/ \E p \in Procs : PidfdOpen(p) \/ KillByPid(p)
               \/ \E g \in FDs : PidfdClose(g)
               \/ \E g \in FDs, synchronous \in BOOLEAN : KillCall(g, synchronous)
               \/ KillAsyncBusy \/ ReadFailure
        PROVE  RequestWasAsked' /\ KilledWasAsked'
    <3>1. /\ UNCHANGED <<queue, pc, target>> /\ asked \subseteq asked'
          /\ killed' \subseteq killed \cup asked'
      BY <2>1 DEF PidfdOpen, PidfdClose, KillCall, KillByPid, KillAsyncBusy, AsyncKillBusy, ReadFailure
    <3> QED
      BY <1>q, <3>1
  <2>2. CASE KillSync
    <3>1. file[mtarget.fd] \in asked
      BY <1>0, <2>2 DEF KillSync, CallTarget
    <3>2. UNCHANGED <<queue, pc, target, asked>> /\ killed' \subseteq killed \cup asked
      BY <2>2, <3>1 DEF KillSync
    <3> QED
      BY <1>q, <3>2
  <2>3. CASE KillAsync
    <3>1. mtarget.fd \in FDs /\ mtarget.proc \in Procs /\ mtarget.proc \in asked
      BY <1>0, <2>3 DEF KillAsync, CallTarget, NoSharedDescriptor, Exclusive, TypeOK
    <3>2. PICK d \in FDs \cup {NoFd} :
             queue' = Append(queue, [id |-> nextId, fd |-> d, proc |-> mtarget.proc])
      BY <2>3 DEF KillAsync, AsyncKillPush
    <3>3. PICK e \in Request : e = [id |-> nextId, fd |-> d, proc |-> mtarget.proc]
      BY <1>0, <3>1 DEF Request, TypeOK
    <3>4. \A i \in DOMAIN queue' : (i \in DOMAIN queue /\ queue'[i] = queue[i]) \/ queue'[i] = e
      <4>1. PICK n \in Nat :
               /\ DOMAIN queue' = DOMAIN queue \cup {n}
               /\ \A i \in DOMAIN queue : queue'[i] = queue[i]
               /\ queue'[n] = e
        BY <1>0, <3>2, <3>3, PushLast
      <4> QED
        BY <4>1
    <3>5. /\ UNCHANGED <<killed, asked, target>>
          /\ \A u \in Threads : pc'[u] \notin Idle => pc[u] \notin Idle
      BY <1>0, <2>3 DEF KillAsync, AsyncKillPush, NotifyOne, Waiting, Idle, TypeOK
    <3>6. e.proc \in asked
      BY <3>1, <3>3
    <3> QED
      BY <1>0, <3>4, <3>5, <3>6 DEF RequestWasAsked, KilledWasAsked
  <2> QED
    BY <1>c, <2>1, <2>2, <2>3 DEF CallerStep
<1>k. ASSUME KernelStep \/ UNCHANGED vars PROVE RequestWasAsked' /\ KilledWasAsked'
  <2>1. UNCHANGED <<queue, asked, killed, pc, target>>
    BY <1>k DEF KernelStep, ProcExit, vars
  <2> QED
    BY <1>q, <2>1
<1> QED
  BY <1>t, <1>c, <1>k DEF Next, PoolStep

-----------------------------------------------------------------------------
(* The counter counts, the capacity is kept and no wakeup is lost. *)
LEMMA StepCapacity == IInv /\ [Next]_vars => CapacityKept' /\ NoLostWakeup'
<1> SUFFICES ASSUME IInv, [Next]_vars PROVE CapacityKept' /\ NoLostWakeup'
  OBVIOUS
<1> USE DEF kernelVars, poolVars, reaperVars, clientVars
<1>0. TypeOK /\ CallTarget /\ CapacityKept /\ NoLostWakeup /\ NoSharedDescriptor
  BY DEF IInv
<1>q. ASSUME UNCHANGED <<queue, active, pc>> PROVE CapacityKept' /\ NoLostWakeup'
  <2>1. Busy' = Busy /\ Awake' = Awake /\ thread_cnt' = thread_cnt
    BY <1>q DEF Busy, Awake, thread_cnt
  <2>2. Cardinality(Busy') = Cardinality(Busy) /\ Cardinality(Awake') = Cardinality(Awake)
    BY <2>1
  <2>3. thread_cnt' = thread_cnt
    BY <2>1
  <2> QED
    BY <1>0, <1>q, <2>2, <2>3 DEF CapacityKept, NoLostWakeup
<1>f. /\ IsFiniteSet(Awake) /\ IsFiniteSet(Busy) /\ Len(queue) \in Nat
      /\ Cardinality(Awake) \in Nat /\ Cardinality(Busy) \in Nat /\ thread_cnt \in Nat
  <2>1. /\ Awake \in SUBSET Threads /\ Busy \in SUBSET Threads
        /\ {u \in Threads : pc[u] # "none"} \in SUBSET Threads
    BY DEF Awake, Busy
  <2>2. IsFiniteSet(Awake) /\ IsFiniteSet(Busy) /\ IsFiniteSet({u \in Threads : pc[u] # "none"})
    BY <2>1, FS_Subset, ReaperAssumption
  <2> QED
    BY <1>0, <2>2, FS_CardinalityType, LenProperties DEF thread_cnt, TypeOK
<1>t. ASSUME NEW t \in Threads, ThreadStep(t) \/ SpuriousWakeup(t), UNCHANGED clientVars
      PROVE  CapacityKept' /\ NoLostWakeup'
  <2>1. CASE DequeueWait(t) \/ SpuriousWakeup(t)
    <3>1. PICK l \in {"wait", "dequeue"} : Goto(t, l) /\ (l = "wait" => Len(queue) = 0) /\ pc[t] \in {"wait", "dequeue"}
      BY <2>1, <1>0, EmptySeq DEF DequeueWait, SpuriousWakeup
    <3>2. l \in Location /\ l \in Idle /\ l # "none" /\ pc[t] # "none" /\ t \notin Busy
      BY <3>1 DEF Location, Idle, Busy
    <3>3. /\ Busy' = (IF l \in Idle THEN Busy \ {t} ELSE Busy \cup {t}) /\ thread_cnt' = thread_cnt
          /\ Awake' = IF l = "dequeue" THEN Awake \cup {t} ELSE Awake \ {t}
      BY <1>0, <3>1, <3>2, MoveThread
    <3>4. Cardinality(Awake') \in Nat /\ (l = "dequeue" => Cardinality(Awake') >= Cardinality(Awake))
      <4>1. /\ Cardinality(Awake \cup {t}) = IF t \in Awake THEN Cardinality(Awake) ELSE Cardinality(Awake) + 1
            /\ IsFiniteSet(Awake \ {t})
        BY <1>f, FS_AddElement, FS_RemoveElement
      <4>2. Cardinality(Awake \ {t}) \in Nat
        BY <4>1, FS_CardinalityType
      <4> QED
        BY <1>f, <3>3, <4>1, <4>2
    <3>6. Cardinality(Busy') = Cardinality(Busy) /\ thread_cnt' = thread_cnt
      <4>1. Busy' = Busy
        BY <3>2, <3>3
      <4> QED
        BY <3>3, <4>1
    <3>5. UNCHANGED <<queue, active>>
      BY <2>1 DEF DequeueWait, SpuriousWakeup
    <3> QED
      BY <1>0, <1>f, <3>1, <3>4, <3>5, <3>6 DEF CapacityKept, NoLostWakeup
  <2>2. CASE DequeueTake(t)
    <3>1. Goto(t, "signal") /\ "signal" \in Location /\ "signal" \notin Idle /\ pc[t] = "dequeue" /\ pc[t] \in Idle
      BY <2>2 DEF DequeueTake, Location, InKill, Idle
    <3>2. Busy' = Busy \cup {t} /\ thread_cnt' = thread_cnt /\ Awake' = Awake \ {t}
      BY <1>0, <3>1, MoveThread
    <3>3. t \in Awake /\ t \notin Busy
      BY <3>1 DEF Awake, Busy
    <3>4. /\ Cardinality(Awake') = Cardinality(Awake) - 1 /\ Cardinality(Busy') = Cardinality(Busy) + 1
          /\ thread_cnt' = thread_cnt
      <4>1. /\ Cardinality(Awake \ {t}) = Cardinality(Awake) - 1
            /\ Cardinality(Busy \cup {t}) = Cardinality(Busy) + 1
        BY <1>f, <3>3, FS_AddElement, FS_RemoveElement
      <4> QED
        BY <3>2, <4>1
    <3>5. Len(queue') = Len(queue) - 1 /\ active' = active
      BY <1>0, <2>2, PopBack DEF DequeueTake, TypeOK
    <3> QED
      BY <1>0, <1>f, <3>4, <3>5 DEF CapacityKept, NoLostWakeup
  <2>3. CASE RequestComplete(t)
    <3>1. Goto(t, "dequeue") /\ "dequeue" \in Location /\ "dequeue" \in Idle /\ pc[t] = "complete" /\ pc[t] \notin Idle
      BY <2>3 DEF RequestComplete, Location, Idle
    <3>2. Busy' = Busy \ {t} /\ thread_cnt' = thread_cnt /\ Awake' = Awake \cup {t}
      BY <1>0, <3>1, MoveThread
    <3>3. t \notin Awake /\ t \in Busy
      BY <3>1 DEF Awake, Busy
    <3>4. /\ Cardinality(Awake') = Cardinality(Awake) + 1 /\ Cardinality(Busy') = Cardinality(Busy) - 1
          /\ thread_cnt' = thread_cnt
      <4>1. /\ Cardinality(Awake \cup {t}) = Cardinality(Awake) + 1
            /\ Cardinality(Busy \ {t}) = Cardinality(Busy) - 1
        BY <1>f, <3>3, FS_AddElement, FS_RemoveElement
      <4> QED
        BY <3>2, <4>1
    <3>5. queue' = queue /\ active' = active - 1 /\ active \in Nat
      BY <1>0, <2>3 DEF RequestComplete, TypeOK
    <3> QED
      BY <1>0, <1>f, <3>4, <3>5 DEF CapacityKept, NoLostWakeup
  <2>4. CASE \/ SignalSent(t) \/ SignalFailed(t) \/ NotifyLock(t) \/ NotifyWrite(t)
             \/ OpenTaskDir(t) \/ CloseTaskDir(t) \/ MRelease(t) \/ CloseTarget(t)
    <3>1. /\ pc[t] \notin Idle /\ pc[t] # "dequeue"
          /\ \E l \in Location \ (Idle \cup {"dequeue"}) : Goto(t, l)
          /\ UNCHANGED <<queue, active>>
      BY <2>4 DEF SignalSent, SignalFailed, NotifyLock, NotifyWrite, OpenTaskDir, CloseTaskDir,
             MRelease, CloseTarget, Location, Idle, InKill, InReap
    <3>2. PICK l \in Location \ (Idle \cup {"dequeue"}) : Goto(t, l)
      BY <3>1
    <3>3. /\ Busy' = Busy \cup {t} /\ Awake' = Awake \ {t}
          /\ (pc[t] # "none" /\ l # "none" => thread_cnt' = thread_cnt)
      BY <1>0, <3>2, MoveThread
    <3>4. t \in Busy /\ t \notin Awake /\ pc[t] # "none" /\ l # "none"
      BY <3>1, <3>2 DEF Busy, Awake, Idle
    <3>5. Busy' = Busy /\ Awake' = Awake /\ thread_cnt' = thread_cnt
      BY <3>3, <3>4
    <3>6. /\ Cardinality(Busy') = Cardinality(Busy) /\ Cardinality(Awake') = Cardinality(Awake)
          /\ thread_cnt' = thread_cnt
      BY <3>5
    <3>7. UNCHANGED <<queue, active>>
      BY <3>1
    <3> QED
      BY <1>0, <3>6, <3>7 DEF CapacityKept, NoLostWakeup
  <2> QED
    BY <1>t, <2>1, <2>2, <2>3, <2>4 DEF ThreadStep
<1>c. CASE CallerStep
  <2>1. ASSUME \/ \E p \in Procs : PidfdOpen(p) \/ KillByPid(p)
               \/ \E g \in FDs : PidfdClose(g)
               \/ \E g \in FDs, synchronous \in BOOLEAN : KillCall(g, synchronous)
               \/ KillAsyncBusy \/ KillSync \/ ReadFailure
        PROVE  CapacityKept' /\ NoLostWakeup'
    <3>1. UNCHANGED <<queue, active, pc>>
      BY <2>1 DEF PidfdOpen, PidfdClose, KillCall, KillByPid, KillAsyncBusy, AsyncKillBusy, KillSync, ReadFailure
    <3> QED
      BY <1>q, <3>1
  <2>2. CASE KillAsync
    <3>1. mtarget.fd \in FDs /\ mtarget.proc \in Procs
      BY <1>0, <2>2 DEF KillAsync, CallTarget, NoSharedDescriptor, Exclusive, TypeOK
    <3>2. Len(queue') = Len(queue) + 1
      <4>1. PICK d \in FDs \cup {NoFd} :
               queue' = Append(queue, [id |-> nextId, fd |-> d, proc |-> mtarget.proc])
        BY <2>2 DEF KillAsync, AsyncKillPush
      <4>2. [id |-> nextId, fd |-> d, proc |-> mtarget.proc] \in Request
        BY <1>0, <3>1 DEF Request, TypeOK
      <4> QED
        BY <1>0, <4>1, <4>2, PushBack DEF TypeOK
    <3>3. active' = active + 1 /\ active < thread_cnt /\ active \in Nat /\ NotifyOne
      BY <1>0, <2>2 DEF KillAsync, AsyncKillPush, TypeOK
    <3>4. CASE \E t \in Waiting : pc' = [pc EXCEPT ![t] = "dequeue"]
      <4>1. PICK t \in Waiting : pc' = [pc EXCEPT ![t] = "dequeue"]
        BY <3>4
      <4>2. t \in Threads /\ Goto(t, "dequeue") /\ "dequeue" \in Location /\ "dequeue" \in Idle /\ pc[t] # "none"
        BY <4>1 DEF Waiting, Goto, Location, Idle
      <4>3. Awake' = Awake \cup {t} /\ Busy' = Busy \ {t} /\ thread_cnt' = thread_cnt
        BY <1>0, <4>2, MoveThread
      <4>4. t \notin Awake /\ t \notin Busy
        BY <4>1 DEF Waiting, Awake, Busy, Idle
      <4>5. Cardinality(Awake \cup {t}) = IF t \in Awake THEN Cardinality(Awake) ELSE Cardinality(Awake) + 1
        BY <1>f, FS_AddElement
      <4>6. /\ Cardinality(Awake') = Cardinality(Awake) + 1
            /\ Cardinality(Busy') = Cardinality(Busy) /\ thread_cnt' = thread_cnt
        <5>1. Busy' = Busy
          BY <4>3, <4>4
        <5> QED
          BY <4>3, <4>4, <4>5, <5>1
      <4> QED
        BY <1>0, <1>f, <3>2, <3>3, <4>6 DEF CapacityKept, NoLostWakeup
    <3>5. CASE Waiting = {} /\ pc' = pc
      <4>1. {u \in Threads : pc[u] # "none"} = Awake \cup Busy /\ Awake \cap Busy = {}
        BY <3>5 DEF Waiting, Awake, Busy, Idle
      <4>2. thread_cnt = Cardinality(Awake) + Cardinality(Busy)
        <5>1. Cardinality(Awake \cup Busy)
                = Cardinality(Awake) + Cardinality(Busy) - Cardinality(Awake \cap Busy)
          BY <1>f, FS_Union
        <5>2. Cardinality(Awake \cap Busy) = 0
          BY <4>1, FS_EmptySet
        <5>3. thread_cnt = Cardinality(Awake \cup Busy)
          BY <4>1 DEF thread_cnt
        <5> QED
          BY <1>f, <5>1, <5>2, <5>3
      <4>3. Busy' = Busy /\ Awake' = Awake /\ thread_cnt' = thread_cnt
        BY <3>5 DEF Busy, Awake, thread_cnt
      <4>4. /\ Cardinality(Busy') = Cardinality(Busy) /\ Cardinality(Awake') = Cardinality(Awake)
            /\ thread_cnt' = thread_cnt
        BY <4>3
      <4> QED
        BY <1>0, <1>f, <3>2, <3>3, <4>2, <4>4 DEF CapacityKept, NoLostWakeup
    <3> QED
      BY <3>3, <3>4, <3>5 DEF NotifyOne
  <2> QED
    BY <1>c, <2>1, <2>2 DEF CallerStep
<1>k. ASSUME KernelStep \/ UNCHANGED vars PROVE CapacityKept' /\ NoLostWakeup'
  <2>1. UNCHANGED <<queue, active, pc>>
    BY <1>k DEF KernelStep, ProcExit, vars
  <2> QED
    BY <1>q, <2>1
<1> QED
  BY <1>t, <1>c, <1>k DEF Next, PoolStep

-----------------------------------------------------------------------------
(* Before the first request nothing is open, queued, asked or killed. *)
LEMMA InitIInv == Init => IInv
<1> SUFFICES ASSUME Init PROVE IInv
  OBVIOUS
<1>1. TypeOK
  BY InitTypeOK
<1>2. /\ DOMAIN queue = {} /\ Len(queue) = 0 /\ active = 0 /\ own = {} /\ mpc = "idle" /\ killed = {}
      /\ \A fd \in FDs : ~Open(fd)
      /\ \A t \in Threads : pc[t] \in {"dequeue", "none"}
  BY DEF Init, ReaperInit, Open
<1>3. BusyHasRequest /\ CallTarget /\ RequestNamesItsProcess /\ NoSharedDescriptor /\ NoLeakedDescriptor
  BY <1>2 DEF BusyHasRequest, CallTarget, RequestNamesItsProcess, NoSharedDescriptor, Exclusive, NoLeakedDescriptor,
         QueueHolds, ThreadHolds, DirHeld, HasFd, InKill, InReap, Idle
<1>4. RequestWasAsked /\ KilledWasAsked
  BY <1>2 DEF RequestWasAsked, KilledWasAsked, Idle
<1>5. Cardinality(Busy) = 0
  <2>1. Busy = {}
    BY <1>2 DEF Busy, Idle
  <2> QED
    BY <2>1, FS_EmptySet
<1>6. Cardinality(Awake) \in Nat /\ thread_cnt \in Nat
  <2>1. Awake \in SUBSET Threads /\ {u \in Threads : pc[u] # "none"} \in SUBSET Threads
    BY DEF Awake
  <2>2. IsFiniteSet(Awake) /\ IsFiniteSet({u \in Threads : pc[u] # "none"})
    BY <2>1, FS_Subset, ReaperAssumption
  <2> QED
    BY <2>2, FS_CardinalityType DEF thread_cnt
<1>7. CapacityKept /\ NoLostWakeup
  BY <1>2, <1>5, <1>6 DEF CapacityKept, NoLostWakeup
<1> QED
  BY <1>1, <1>3, <1>4, <1>7 DEF IInv

(* The invariant is inductive. *)
LEMMA StepIInv == IInv /\ [Next]_vars => IInv'
BY StepTypeOK, StepDescriptors, StepNoLeak, StepAsked, StepCapacity DEF IInv

(* IInv holds in every reachable state of the pool with its caller. *)
THEOREM ReaperInvariant == Spec => []IInv
BY InitIInv, StepIInv, PTL DEF Spec

(* Every variable keeps its type, for any number of threads, processes,    *)
(* descriptors and requests.                                               *)
THEOREM ReaperTypeOK == Spec => []TypeOK
<1>1. IInv => TypeOK
  BY DEF IInv
<1> QED
  BY <1>1, ReaperInvariant, PTL

(* The pidfd of a request that async_kill queued denotes the process the   *)
(* caller named until reaper_main closes it, whatever the caller opens and *)
(* closes meanwhile.                                                       *)
THEOREM RequestsKeepTheirProcess == Spec => []RequestNamesItsProcess
<1>1. IInv => RequestNamesItsProcess
  BY DEF IInv
<1> QED
  BY <1>1, ReaperInvariant, PTL

(* Each open descriptor has exactly one party that closes it: none is      *)
(* shared between the caller and reaper_main, and none is leaked.          *)
THEOREM DescriptorsAreOwned == Spec => [](NoSharedDescriptor /\ NoLeakedDescriptor)
<1>1. IInv => NoSharedDescriptor /\ NoLeakedDescriptor
  BY DEF IInv
<1> QED
  BY <1>1, ReaperInvariant, PTL

(* reaper_main and Reaper::kill signal only processes the caller asked to  *)
(* kill.                                                                   *)
THEOREM OnlyAskedAreKilled == Spec => []KilledWasAsked
<1>1. IInv => KilledWasAsked
  BY DEF IInv
<1> QED
  BY <1>1, ReaperInvariant, PTL

(* active_requests_ is exact and never exceeds thread_cnt_. *)
THEOREM PoolCapacity == Spec => []CapacityKept
<1>1. IInv => CapacityKept
  BY DEF IInv
<1> QED
  BY <1>1, ReaperInvariant, PTL

(* A request in queue_ always has a thread that is awake to take it. *)
THEOREM WakeupsAreNotLost == Spec => []NoLostWakeup
<1>1. IInv => NoLostWakeup
  BY DEF IInv
<1> QED
  BY <1>1, ReaperInvariant, PTL
=============================================================================
