---------------------------- MODULE KillService -----------------------------
(***************************************************************************)
(* What the reaper promises to the thread that asks for a kill: a request  *)
(* that is accepted is settled exactly once, either by SIGKILL reaching    *)
(* the process it names or by a report of that process on the failure      *)
(* channel; a report is made only when the process was gone or its         *)
(* descriptor could not be duplicated; and there are never more requests   *)
(* outstanding than there are threads.  No order is promised.              *)
(***************************************************************************)
EXTENDS Integers, Sequences, FiniteSets

CONSTANTS Procs, Capacity, Ids

VARIABLES
    pending,    \* accepted requests that are not settled yet
    reports,    \* failures reported and not read by the caller yet
    killed,     \* processes SIGKILL was delivered to
    exists      \* processes that have not been reaped yet

abstractVars == <<pending, reports, killed, exists>>

Pending == [id : Ids, proc : Procs, dup : BOOLEAN]

Init ==
    /\ pending = {}
    /\ reports = <<>>
    /\ killed = {}
    /\ exists = Procs

Exit(p) ==
    /\ exists' = exists \ {p}
    /\ UNCHANGED <<pending, reports, killed>>

Accept(r) ==
    /\ \A q \in pending : q.id # r.id
    /\ Cardinality(pending) < Capacity
    /\ pending' = pending \cup {r}
    /\ UNCHANGED <<reports, killed, exists>>

(* A kill that is not handed to a thread. *)
KillNow(p) ==
    /\ p \in exists
    /\ killed' = killed \cup {p}
    /\ UNCHANGED <<pending, reports, exists>>

Deliver(r) ==
    /\ r.dup /\ r.proc \in exists
    /\ pending' = pending \ {r}
    /\ killed' = killed \cup {r.proc}
    /\ UNCHANGED <<reports, exists>>

Report(r) ==
    /\ ~r.dup \/ r.proc \notin exists
    /\ pending' = pending \ {r}
    /\ reports' = Append(reports, r.proc)
    /\ UNCHANGED <<killed, exists>>

ReadReport ==
    /\ reports # <<>>
    /\ reports' = Tail(reports)
    /\ UNCHANGED <<pending, killed, exists>>

Next ==
    \/ \E p \in Procs : Exit(p) \/ KillNow(p)
    \/ \E r \in pending : Deliver(r) \/ Report(r)
    \/ \E i \in Ids, p \in Procs, d \in BOOLEAN :
         Accept([id |-> i, proc |-> p, dup |-> d])
    \/ ReadReport

Spec == Init /\ [][Next]_abstractVars
=============================================================================
