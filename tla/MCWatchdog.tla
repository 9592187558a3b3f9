----------------------------- MODULE MCWatchdog -----------------------------
(* Watchdog with every pid in one hash chain, and one oom_score_adj that   *)
(* is out of its reach.                                                    *)
EXTENDS Watchdog

MCAdjs == {200, 0, -900}

MCHash == [pid \in Pids |-> 0]
=============================================================================
