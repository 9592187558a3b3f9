----------------------------- MODULE KillCount -----------------------------
(***************************************************************************)
(* The kill counters behind LMK_GETKILLCNT: one wrapping counter for each  *)
(* oom_score_adj that was killed at, as long as there is one left, and one *)
(* for all kills.  killcnt_idx names the counter of each oom_score_adj.    *)
(***************************************************************************)
EXTENDS Integers, FiniteSetsExt

CONSTANTS
    KillAdjs,               \* oom_score_adj values of killed processes
    MAX_DISTINCT_OOM_ADJ,
    CounterMod,             \* 2^16, a counter being a uint16_t
    TotalMod                \* 2^32, the total being a uint32_t

KILLCNT_INVALID_IDX == 255
KillAdjMax          == 1000     \* OOM_SCORE_ADJ_MAX

ASSUME KillCountAssumption ==
    /\ KillAdjs \subseteq -1000..KillAdjMax
    /\ MAX_DISTINCT_OOM_ADJ \in 1..KILLCNT_INVALID_IDX
    /\ CounterMod \in Nat \ {0, 1} /\ TotalMod \in Nat \ {0, 1}

Counters == 0..(MAX_DISTINCT_OOM_ADJ - 1)

VARIABLES
    killcnt_idx,
    killcnt,
    killcnt_free_idx,
    killcnt_total,
    kills       \* how many processes were really killed at each oom_score_adj

countVars == <<killcnt_idx, killcnt, killcnt_free_idx, killcnt_total, kills>>

KillCountInit ==
    /\ killcnt_idx = [a \in KillAdjs |-> KILLCNT_INVALID_IDX]
    /\ killcnt = [i \in Counters |-> 0]
    /\ killcnt_free_idx = 0
    /\ killcnt_total = 0
    /\ kills = [a \in KillAdjs |-> 0]

(* Mutant: the next new oom_score_adj gets the same counter. *)
NextFree_Same == killcnt_free_idx

NextFree == killcnt_free_idx + 1

(* An oom_score_adj met for the first time takes a counter; beyond         *)
(* MAX_DISTINCT_OOM_ADJ of them only the total is kept.                    *)
inc_killcnt(a) ==
    /\ LET idx == killcnt_idx[a]
       IN  \/ /\ idx = KILLCNT_INVALID_IDX
              /\ killcnt_free_idx < MAX_DISTINCT_OOM_ADJ
              /\ killcnt_idx' = [killcnt_idx EXCEPT ![a] = killcnt_free_idx]
              /\ killcnt' = [killcnt EXCEPT ![killcnt_free_idx] = 1]
              /\ killcnt_free_idx' = NextFree
           \/ /\ idx = KILLCNT_INVALID_IDX
              /\ killcnt_free_idx >= MAX_DISTINCT_OOM_ADJ
              /\ UNCHANGED <<killcnt_idx, killcnt, killcnt_free_idx>>
           \/ /\ idx # KILLCNT_INVALID_IDX
              /\ killcnt' = [killcnt EXCEPT ![idx] = (@ + 1) % CounterMod]
              /\ UNCHANGED <<killcnt_idx, killcnt_free_idx>>
    /\ killcnt_total' = (killcnt_total + 1) % TotalMod
    /\ kills' = [kills EXCEPT ![a] = @ + 1]

(* get_killcnt; no process has an oom_score_adj above KillAdjMax, which    *)
(* asks for the total.  The code does not look at the range it is asked    *)
(* for: below -1000 it reads what is before killcnt_idx.  Here a client    *)
(* asks for the scores a process may have.                                 *)
get_killcnt(min, max) ==
    IF min > max THEN 0
    ELSE IF min > KillAdjMax THEN killcnt_total
    ELSE MapThenSumSet(LAMBDA a : killcnt[killcnt_idx[a]],
                       {a \in KillAdjs : /\ min <= a /\ a <= max
                                         /\ killcnt_idx[a] # KILLCNT_INVALID_IDX})

KillCountNext == \E a \in KillAdjs : inc_killcnt(a)

KillCountSpec == KillCountInit /\ [][KillCountNext]_countVars

-----------------------------------------------------------------------------
KillCountTypeOK ==
    /\ killcnt_idx \in [KillAdjs -> Counters \cup {KILLCNT_INVALID_IDX}]
    /\ killcnt \in [Counters -> 0..(CounterMod - 1)]
    /\ killcnt_free_idx \in 0..MAX_DISTINCT_OOM_ADJ
    /\ killcnt_total \in 0..(TotalMod - 1)
    /\ kills \in [KillAdjs -> Nat]

(* No two oom_score_adj values share a counter; a counter is the number of *)
(* kills at its oom_score_adj modulo its width; and an oom_score_adj goes  *)
(* uncounted only once every counter is taken (inc_killcnt).               *)
CountersExact ==
    /\ KillCountTypeOK
    /\ \A a \in KillAdjs :
         IF killcnt_idx[a] = KILLCNT_INVALID_IDX
         THEN kills[a] = 0 \/ killcnt_free_idx = MAX_DISTINCT_OOM_ADJ
         ELSE /\ killcnt_idx[a] < killcnt_free_idx
              /\ killcnt[killcnt_idx[a]] = kills[a] % CounterMod
    /\ \A a, b \in KillAdjs :
         killcnt_idx[a] = killcnt_idx[b] =>
           a = b \/ killcnt_idx[a] = KILLCNT_INVALID_IDX

KillsIn(min, max) ==
    MapThenSumSet(LAMBDA a : kills[a], {a \in KillAdjs : min <= a /\ a <= max})

Counted(a) == kills[a] < CounterMod /\ (kills[a] > 0 => killcnt_idx[a] # KILLCNT_INVALID_IDX)

(* What a client is told: never more than was killed, the exact number     *)
(* while no counter has wrapped and there are enough of them, and, above   *)
(* OOM_SCORE_ADJ_MAX, the total ("detectable using total counter").        *)
AnswersTrue ==
    /\ CountersExact
    /\ \A min, max \in KillAdjs :
         /\ get_killcnt(min, max) <= KillsIn(min, max)
         /\ (\A a \in KillAdjs : Counted(a)) => get_killcnt(min, max) = KillsIn(min, max)
    /\ get_killcnt(KillAdjMax + 1, KillAdjMax + 1)
         = KillsIn(-1000, KillAdjMax) % TotalMod
=============================================================================
