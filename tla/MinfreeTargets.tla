--------------------------- MODULE MinfreeTargets ---------------------------
(***************************************************************************)
(* cmd_target: the minfree levels that ActivityManager sends with          *)
(* LMK_TARGET, as lmkd keeps them, publishes them as a property and passes *)
(* them on to an in-kernel low memory killer.                              *)
(***************************************************************************)
EXTENDS Integers, Sequences, FiniteSetsExt

CONSTANTS
    Requests,               \* sequences of targets, as the clients send them
    MAX_TARGETS,
    PROPERTY_VALUE_MAX

Target == [minfree : Int, oom_adj_score : -1000..1000]

(* Characters of a number as %d prints it, and of a target as "%d:%d,". *)
Digits(n) ==
    LET m     == IF n < 0 THEN -n ELSE n
        short == {k \in 1..9 : m < 10 ^ k}
    IN  (IF n < 0 THEN 1 ELSE 0) + (IF short = {} THEN 10 ELSE Min(short))

Width(t) == Digits(t.minfree) + Digits(t.oom_adj_score) + 2

(* Where pstr is after n targets of the request. *)
TextEnd(r, n) == MapThenSumSet(LAMBDA i : Width(r[i]), 1..n)

(* With scores in range no text is longer than 18 characters, so that      *)
(* minfree_str has room for all targets but the last of six.               *)
ASSUME MinfreeAssumption ==
    /\ MAX_TARGETS \in Nat \ {0} /\ PROPERTY_VALUE_MAX \in Nat \ {0}
    /\ \A r \in Requests : /\ \A i \in DOMAIN r : r[i] \in Target
                          /\ TextEnd(r, Len(r) - 1) < PROPERTY_VALUE_MAX

VARIABLES
    lowmem,                 \* lowmem_minfree and lowmem_adj
    lowmem_targets_size,
    tooSoon,                \* less than TARGET_UPDATE_MIN_INTERVAL_MS since last_req_tm
    published,              \* whole targets in sys.lmk.minfree_levels
    has_inkernel_module,    \* then lmkd leaves the work to it (use_inkernel_interface)
    driverTargets,          \* what the module was given
    accepted                \* the last request that was not turned down

targetVars == <<lowmem, lowmem_targets_size, tooSoon, published, has_inkernel_module,
                driverTargets, accepted>>

NoTarget == [minfree |-> 0, oom_adj_score |-> 0]

MinfreeInit ==
    /\ lowmem = [i \in 1..MAX_TARGETS |-> NoTarget]
    /\ lowmem_targets_size = 0
    /\ tooSoon = FALSE
    /\ published = 0
    /\ has_inkernel_module \in BOOLEAN
    /\ driverTargets = << >>
    /\ accepted = << >>

-----------------------------------------------------------------------------
(* Mutant: a target whose text does not fit is not copied either. *)
Copied_Fitting(r) == {i \in DOMAIN r : TextEnd(r, i) < PROPERTY_VALUE_MAX}

(* The loop ends with the target whose text reaches the end of the buffer. *)
Copied(r) == {i \in DOMAIN r : TextEnd(r, i - 1) < PROPERTY_VALUE_MAX}

(* cmd_target, with the check of the caller that a request has at most     *)
(* MAX_TARGETS targets.  One byte of the buffer is for the terminator,     *)
(* which takes the place of the last comma.                                *)
cmd_target(r) ==
    /\ Len(r) \in 1..MAX_TARGETS
    /\ ~tooSoon
    /\ tooSoon' = TRUE
    /\ lowmem' = [i \in 1..MAX_TARGETS |-> IF i \in Copied(r) THEN r[i] ELSE lowmem[i]]
    /\ lowmem_targets_size' = Len(r)
    /\ published' = Cardinality({i \in DOMAIN r : TextEnd(r, i) <= PROPERTY_VALUE_MAX})
    /\ driverTargets' = IF has_inkernel_module THEN [i \in DOMAIN r |-> lowmem'[i]] ELSE << >>
    /\ accepted' = r
    /\ UNCHANGED has_inkernel_module

UpdateIntervalPasses ==
    /\ tooSoon
    /\ tooSoon' = FALSE
    /\ UNCHANGED <<lowmem, lowmem_targets_size, published, has_inkernel_module,
                   driverTargets, accepted>>

(* The oom_score_adj mp_event_common kills down to: that of the first      *)
(* target with both free memory and file cache below its minfree.          *)
MinfreeLimit(free, file, none) ==
    LET breached == {i \in 1..lowmem_targets_size :
                       free < lowmem[i].minfree /\ file < lowmem[i].minfree}
    IN  IF breached = {} THEN none ELSE lowmem[Min(breached)].oom_adj_score
=============================================================================
