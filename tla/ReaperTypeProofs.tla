-------------------------- MODULE ReaperTypeProofs --------------------------
(***************************************************************************)
(* The reaper's types are preserved by every step of the pool and of its  *)
(* most general caller, and what its steps do to the queue.                *)
(***************************************************************************)
EXTENDS ReaperClient, SequenceTheorems, FiniteSetTheorems, TLAPS

-----------------------------------------------------------------------------
(* Removing the last element of a sequence: the rest keeps its places. *)
LEMMA PopBack ==
    ASSUME NEW S, NEW s \in Seq(S), s # <<>>
    PROVE  LET r == SubSeq(s, 1, Len(s) - 1)
           IN  /\ Len(s) \in 1..Len(s)
               /\ s[Len(s)] \in S
               /\ r \in Seq(S)
               /\ Len(r) = Len(s) - 1
               /\ DOMAIN r = 1..(Len(s) - 1)
               /\ DOMAIN s = 1..Len(s)
               /\ \A i \in DOMAIN r : r[i] = s[i]
<1>1. Len(s) \in Nat \ {0} /\ DOMAIN s = 1..Len(s) /\ \A i \in 1..Len(s) : s[i] \in S
  BY EmptySeq, LenProperties
<1>2. \A i \in 1..(Len(s) - 1) : s[i] \in S
  BY <1>1
<1>3. /\ SubSeq(s, 1, Len(s) - 1) \in Seq(S)
      /\ Len(SubSeq(s, 1, Len(s) - 1)) = Len(s) - 1
      /\ \A i \in 1..(Len(s) - 1) : SubSeq(s, 1, Len(s) - 1)[i] = s[i]
  <2>1. Len(s) - 1 \in Int
    BY <1>1
  <2>2. /\ SubSeq(s, 1, Len(s) - 1) \in Seq(S)
        /\ Len(SubSeq(s, 1, Len(s) - 1)) = IF 1 <= Len(s) - 1 THEN Len(s) - 1 - 1 + 1 ELSE 0
        /\ \A i \in 1..(Len(s) - 1 - 1 + 1) : SubSeq(s, 1, Len(s) - 1)[i] = s[1 + i - 1]
    BY <1>2, <2>1, SubSeqProperties
  <2> QED
    BY <1>1, <2>2
<1>4. DOMAIN SubSeq(s, 1, Len(s) - 1) = 1..(Len(s) - 1)
  BY <1>3, LenProperties
<1> QED
  BY <1>1, <1>3, <1>4

(* Appending an element: the old ones keep their places. *)
LEMMA PushBack ==
    ASSUME NEW S, NEW s \in Seq(S), NEW e \in S
    PROVE  LET r == Append(s, e)
           IN  /\ r \in Seq(S)
               /\ Len(s) \in Nat
               /\ Len(r) = Len(s) + 1
               /\ DOMAIN s = 1..Len(s)
               /\ DOMAIN r = 1..(Len(s) + 1)
               /\ \A i \in DOMAIN s : r[i] = s[i]
               /\ r[Len(s) + 1] = e
BY AppendProperties, LenProperties

(* dequeue_request takes the last request; the others keep their places. *)
LEMMA TakeLast ==
    ASSUME TypeOK, NEW t \in Threads, DequeueTake(t)
    PROVE  /\ Len(queue) \in DOMAIN queue /\ Len(queue) \notin DOMAIN queue'
           /\ \A i \in DOMAIN queue' : i \in DOMAIN queue /\ queue'[i] = queue[i]
           /\ \A i \in DOMAIN queue : i = Len(queue) \/ i \in DOMAIN queue'
<1>1. queue \in Seq(Request) /\ queue # <<>> /\ queue' = SubSeq(queue, 1, Len(queue) - 1)
  BY DEF DequeueTake, TypeOK
<1>2. Len(queue) \in Nat \ {0}
  BY <1>1, EmptySeq, LenProperties
<1>3. /\ DOMAIN queue' = 1..(Len(queue) - 1) /\ DOMAIN queue = 1..Len(queue)
      /\ \A i \in DOMAIN queue' : queue'[i] = queue[i]
  BY <1>1, PopBack
<1> QED
  BY <1>2, <1>3

(* A pushed request gets a place of its own; the others keep theirs. *)
LEMMA PushLast ==
    ASSUME TypeOK, NEW e \in Request, queue' = Append(queue, e)
    PROVE  \E n \in Nat :
              /\ n \notin DOMAIN queue
              /\ DOMAIN queue' = DOMAIN queue \cup {n}
              /\ \A i \in DOMAIN queue : queue'[i] = queue[i]
              /\ queue'[n] = e
<1>1. queue \in Seq(Request)
  BY DEF TypeOK
<1>2. /\ Len(queue) \in Nat /\ DOMAIN queue = 1..Len(queue) /\ DOMAIN queue' = 1..(Len(queue) + 1)
      /\ \A i \in DOMAIN queue : queue'[i] = queue[i]
      /\ queue'[Len(queue) + 1] = e
  BY <1>1, PushBack
<1>3. PICK n \in Nat : n = Len(queue) + 1
  BY <1>2
<1>4. n \notin DOMAIN queue /\ DOMAIN queue' = DOMAIN queue \cup {n}
  BY <1>2, <1>3
<1>5. queue'[n] = e
  BY <1>2, <1>3
<1> QED
  BY <1>2, <1>4, <1>5
-----------------------------------------------------------------------------
(* The type invariant holds initially. *)
LEMMA InitTypeOK == Init => TypeOK
<1> SUFFICES ASSUME Init PROVE TypeOK
  OBVIOUS
<1>1. queue \in Seq(Request) /\ pipe \in Seq(Procs)
  BY DEF Init, ReaperInit
<1> QED
  BY <1>1, ReaperAssumption DEF Init, ReaperInit, TypeOK, Location, Idle, InKill, InReap

(* The effect of moving one thread on the sets the counts are taken of. *)
LEMMA MoveThread ==
    ASSUME TypeOK, NEW t \in Threads, NEW l \in Location, Goto(t, l)
    PROVE  /\ Awake' = IF l = "dequeue" THEN Awake \cup {t} ELSE Awake \ {t}
           /\ Busy' = IF l \in Idle THEN Busy \ {t} ELSE Busy \cup {t}
           /\ pc[t] # "none" /\ l # "none" => thread_cnt' = thread_cnt
           /\ IsFiniteSet(Awake) /\ IsFiniteSet(Busy)
           /\ Cardinality(Awake) \in Nat /\ Cardinality(Busy) \in Nat
           /\ thread_cnt \in Nat
<1>0. pc \in [Threads -> Location] /\ pc' = [pc EXCEPT ![t] = l]
  BY DEF TypeOK, Goto
<1>1. Awake' = IF l = "dequeue" THEN Awake \cup {t} ELSE Awake \ {t}
  BY <1>0 DEF Awake
<1>2. Busy' = IF l \in Idle THEN Busy \ {t} ELSE Busy \cup {t}
  BY <1>0 DEF Busy
<1>3. ASSUME pc[t] # "none", l # "none"
      PROVE  thread_cnt' = thread_cnt
  <2>1. {u \in Threads : pc'[u] # "none"} = {u \in Threads : pc[u] # "none"}
    BY <1>0, <1>3
  <2> QED
    BY <2>1 DEF thread_cnt
<1>4. /\ IsFiniteSet(Awake) /\ IsFiniteSet(Busy)
      /\ Cardinality(Awake) \in Nat /\ Cardinality(Busy) \in Nat
      /\ thread_cnt \in Nat
  <2>1. /\ Awake \in SUBSET Threads /\ Busy \in SUBSET Threads
        /\ {u \in Threads : pc[u] # "none"} \in SUBSET Threads
    BY DEF Awake, Busy
  <2>2. IsFiniteSet(Awake) /\ IsFiniteSet(Busy) /\ IsFiniteSet({u \in Threads : pc[u] # "none"})
    BY <2>1, FS_Subset, ReaperAssumption
  <2> QED
    BY <2>2, FS_CardinalityType DEF thread_cnt
<1> QED
  BY <1>1, <1>2, <1>3, <1>4

-----------------------------------------------------------------------------
(* Types are preserved, and a busy thread has a request. *)
LEMMA StepTypeOK == IInv /\ [Next]_vars => TypeOK' /\ BusyHasRequest'
<1> SUFFICES ASSUME IInv, [Next]_vars PROVE TypeOK' /\ BusyHasRequest'
  OBVIOUS
<1> USE DEF TypeOK, BusyHasRequest, Location, Idle, InKill, InReap, kernelVars, poolVars, reaperVars, clientVars
<1>0. TypeOK /\ BusyHasRequest /\ CallTarget /\ NoSharedDescriptor
  BY DEF IInv
<1>t. ASSUME NEW t \in Threads, ThreadStep(t) \/ SpuriousWakeup(t), UNCHANGED clientVars
      PROVE  TypeOK' /\ BusyHasRequest'
  <2>1. CASE DequeueWait(t)
    BY <1>0, <1>t, <2>1 DEF DequeueWait, Goto
  <2>2. CASE SpuriousWakeup(t)
    BY <1>0, <1>t, <2>2 DEF SpuriousWakeup, Goto
  <2>3. CASE DequeueTake(t)
    <3>1. /\ queue[Len(queue)] \in Request
          /\ SubSeq(queue, 1, Len(queue) - 1) \in Seq(Request)
      BY <1>0, <2>3, PopBack DEF DequeueTake
    <3> QED
      BY <1>0, <1>t, <2>3, <3>1 DEF DequeueTake, Goto
  <2>4. CASE SignalSent(t)
    BY <1>0, <1>t, <2>4 DEF SignalSent, SignalOK, Goto
  <2>5. CASE SignalFailed(t)
    BY <1>0, <1>t, <2>5 DEF SignalFailed, Goto
  <2>6. CASE NotifyLock(t)
    BY <1>0, <1>t, <2>6 DEF NotifyLock, Goto
  <2>7. CASE NotifyWrite(t)
    <3>1. target[t].proc \in Procs
      BY <1>0, <2>7 DEF NotifyWrite, Request
    <3>2. Append(pipe, target[t].proc) \in Seq(Procs)
      BY <1>0, <3>1, PushBack
    <3> QED
      BY <1>0, <1>t, <2>7, <3>2 DEF NotifyWrite, Goto
  <2>8. CASE OpenTaskDir(t)
    <3>1. /\ file' \in [FDs -> Procs \cup {NoProc, Dir}]
          /\ dir' \in [Threads -> FDs \cup {NoFd}]
      BY <1>0, <2>8 DEF OpenTaskDir
    <3>2. pc' \in [Threads -> Location] /\ target[t] \in Request
      BY <1>0, <2>8 DEF OpenTaskDir, Goto
    <3>3. UNCHANGED <<exists, killed, queue, active, mutex, target, pipe>> /\ \A u \in Threads \ {t} : pc'[u] = pc[u]
      BY <1>0, <2>8 DEF OpenTaskDir, Goto
    <3> QED
      BY <1>0, <1>t, <3>1, <3>2, <3>3
  <2>9. CASE CloseTaskDir(t)
    BY <1>0, <1>t, <2>9 DEF CloseTaskDir, CloseTable, Goto
  <2>10. CASE MRelease(t)
    BY <1>0, <1>t, <2>10 DEF MRelease, Goto
  <2>11. CASE CloseTarget(t)
    BY <1>0, <1>t, <2>11 DEF CloseTarget, CloseTable, Goto
  <2>12. CASE RequestComplete(t)
    <3>1. t \in Busy /\ active = Len(queue) + Cardinality(Busy)
      BY <2>12 DEF RequestComplete, Busy, IInv, CapacityKept
    <3>2. IsFiniteSet(Busy) /\ Cardinality(Busy) \in Nat
      BY <1>0, FS_Subset, FS_CardinalityType, ReaperAssumption DEF Busy
    <3>3. Cardinality(Busy) # 0
      BY <3>1, <3>2, FS_EmptySet
    <3>4. Len(queue) \in Nat
      BY <1>0, LenProperties
    <3>5. active - 1 \in Nat
      BY <1>0, <3>1, <3>2, <3>3, <3>4
    <3> QED
      BY <1>0, <1>t, <2>12, <3>5 DEF RequestComplete, Goto
  <2> QED
    BY <1>t, <2>1, <2>2, <2>3, <2>4, <2>5, <2>6, <2>7, <2>8, <2>9, <2>10, <2>11, <2>12
       DEF ThreadStep
<1>c. CASE CallerStep
  <2>1. ASSUME NEW p \in Procs, PidfdOpen(p)
        PROVE  TypeOK' /\ BusyHasRequest'
    BY <1>0, <2>1 DEF PidfdOpen
  <2>2. ASSUME NEW fd \in FDs, PidfdClose(fd)
        PROVE  TypeOK' /\ BusyHasRequest'
    BY <1>0, <2>2 DEF PidfdClose, CloseTable
  <2>3. ASSUME NEW fd \in FDs, NEW synchronous \in BOOLEAN, KillCall(fd, synchronous)
        PROVE  TypeOK' /\ BusyHasRequest'
    <3>1. file[fd] \in Procs
      BY <1>0, <2>3 DEF KillCall, NoSharedDescriptor, Exclusive
    <3> QED
      BY <1>0, <2>3, <3>1 DEF KillCall
  <2>4. ASSUME NEW p \in Procs, KillByPid(p)
        PROVE  TypeOK' /\ BusyHasRequest'
    BY <1>0, <2>4 DEF KillByPid
  <2>5. CASE KillAsync
    <3>1. mtarget.fd \in FDs /\ mtarget.proc \in Procs
      BY <1>0, <2>5 DEF KillAsync, CallTarget, NoSharedDescriptor, Exclusive
    <3>2. PICK d \in FDs \cup {NoFd} :
             /\ file' = DupTable(mtarget.fd, d)
             /\ queue' = Append(queue, [id |-> nextId, fd |-> d, proc |-> mtarget.proc])
      BY <2>5 DEF KillAsync, AsyncKillPush
    <3>3. queue' \in Seq(Request)
      <4>1. [id |-> nextId, fd |-> d, proc |-> mtarget.proc] \in Request
        BY <1>0, <3>1 DEF Request
      <4> QED
        BY <1>0, <3>2, <4>1, PushBack
    <3>4. file' \in [FDs -> Procs \cup {NoProc, Dir}]
      BY <1>0, <3>1, <3>2 DEF DupTable
    <3>5. pc' \in [Threads -> Location] /\ \A t \in Threads : pc[t] \notin Idle <=> pc'[t] \notin Idle
      BY <1>0, <2>5 DEF KillAsync, AsyncKillPush, NotifyOne, Waiting
    <3> QED
      BY <1>0, <2>5, <3>3, <3>4, <3>5 DEF KillAsync, AsyncKillPush
  <2>6. CASE KillAsyncBusy
    BY <1>0, <2>6 DEF KillAsyncBusy, AsyncKillBusy
  <2>7. CASE KillSync
    BY <1>0, <2>7 DEF KillSync, SignalOK
  <2>8. CASE ReadFailure
    <3>1. Tail(pipe) \in Seq(Procs)
      BY <1>0, <2>8, HeadTailProperties DEF ReadFailure
    <3> QED
      BY <1>0, <2>8, <3>1 DEF ReadFailure
  <2> QED
    BY <1>c, <2>1, <2>2, <2>3, <2>4, <2>5, <2>6, <2>7, <2>8 DEF CallerStep
<1>k. ASSUME NEW p \in Procs, ProcExit(p), UNCHANGED clientVars
      PROVE  TypeOK' /\ BusyHasRequest'
  BY <1>0, <1>k DEF ProcExit
<1>u. CASE UNCHANGED vars
  BY <1>0, <1>u DEF vars
<1> QED
  BY <1>t, <1>c, <1>k, <1>u DEF Next, PoolStep, KernelStep

=============================================================================
