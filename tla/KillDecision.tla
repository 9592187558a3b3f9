---------------------------- MODULE KillDecision ----------------------------
(***************************************************************************)
(* What __mp_event_psi makes of the state of memory: whether a process is  *)
(* to be killed, for which reason and down to which oom_score_adj.  The    *)
(* statics it keeps from one call to the next are the variables: the       *)
(* thrashing counters and their limit, the file cache check, and whether   *)
(* the last call killed.                                                   *)
(*                                                                         *)
(* What the kernel reports is abstracted to the comparisons the code makes *)
(* with it; only the thrashing percentages, which are accumulated, decayed *)
(* and compared with a moving limit, are numbers.  The calls that end at   *)
(* the pending-kill gate are in PollLoop and KillPath.                     *)
(***************************************************************************)
EXTENDS Integers, Sequences

CONSTANTS
    LimitPct,       \* thrashing_limit_pct
    DecayPct,       \* thrashing_limit_decay_pct
    CriticalPct,    \* thrashing_critical_pct
    AfterKillMin,   \* pressure_after_kill_min_score
    LowmemMin,      \* lowmem_min_oom_score
    VendorMins,     \* the limits vendor events come with
    MaxGrowth       \* bound on the refaults of one window, in percent

PERCEPTIBLE_APP_ADJ == 200
WORD_BITS == 64

ASSUME KillDecisionAssumption ==
    /\ LimitPct \in Nat /\ CriticalPct \in Nat /\ MaxGrowth \in Nat
    /\ DecayPct \in 0..100
    /\ AfterKillMin \in Int
    /\ LowmemMin \in Int /\ LowmemMin > PERCEPTIBLE_APP_ADJ
    /\ VendorMins \subseteq Int

(* enum zone_watermark *)
WMARK_MIN  == 0
WMARK_LOW  == 1
WMARK_HIGH == 2
WMARK_NONE == 3
Watermarks == WMARK_MIN..WMARK_NONE

(* Thrashing windows that pass between two calls. *)
Windows == {0, 1, 2, WORD_BITS}

(* A call is a poll, an event below or at the critical level, or a vendor  *)
(* event.                                                                  *)
Sources == {"poll", "event", "critical", "vendor"}

VARIABLES
    killing,        \* the last call killed a process
    checkFilecache, \* check_filecache
    limit,          \* thrashing_limit
    growth,         \* refaults since the window began, in percent
    carry,          \* prev_thrash_growth
    firstKill,      \* first_kill
    pc,             \* "idle", "judge" or "kill"
    source, afterKill, swapLow, reclaim, thrashing, vendorMin,  \* of this call
    swapUtil, stuck, fileLow,       \* its other comparisons
    wmark, stall,   \* what the decision is based on
    reason, min, cut,                                           \* the decision
    rechecked       \* the decision was reached before and after a recheck

statics  == <<killing, checkFilecache, limit, growth, carry, firstKill>>
callVars == <<source, afterKill, swapLow, reclaim, thrashing, vendorMin,
              swapUtil, stuck, fileLow>>
decision == <<wmark, stall, reason, min, cut, rechecked>>
vars     == <<statics, pc, callVars, decision>>

NoCall ==
    /\ source' = "poll" /\ afterKill' = FALSE /\ swapLow' = FALSE
    /\ reclaim' = "none" /\ thrashing' = 0 /\ vendorMin' = 0
    /\ swapUtil' = FALSE /\ stuck' = FALSE /\ fileLow' = FALSE

NoDecision ==
    /\ wmark' = WMARK_NONE /\ stall' = FALSE
    /\ reason' = "NONE" /\ min' = 0 /\ cut' = FALSE
    /\ rechecked' = FALSE

Init ==
    /\ killing = FALSE /\ checkFilecache = FALSE
    /\ limit = LimitPct
    /\ growth = 0 /\ carry = 0
    /\ firstKill = TRUE
    /\ pc = "idle"
    /\ source = "poll" /\ afterKill = FALSE /\ swapLow = FALSE
    /\ reclaim = "none" /\ thrashing = 0 /\ vendorMin = 0
    /\ swapUtil = FALSE /\ stuck = FALSE /\ fileLow = FALSE
    /\ wmark = WMARK_NONE /\ stall = FALSE
    /\ reason = "NONE" /\ min = 0 /\ cut = FALSE
    /\ rechecked = FALSE

-----------------------------------------------------------------------------
(* The refaults since the window began; a kill begins a window of its own. *)
Grown(g) == IF killing THEN 0 ELSE growth + g

(* Mutant: the refaults before a kill still count. *)
Carried_Kept == carry

Carried == IF killing THEN 0 ELSE carry

(* n >> windows.  From 64 on the shift is undefined: the build's shift     *)
(* instructions take the count modulo 64, so that any distance may result  *)
(* (those beyond MaxGrowth leave nothing of n).                            *)
ShiftedRight(n, windows) ==
    IF windows < WORD_BITS THEN {n \div (2 ^ windows)}
                           ELSE {n \div (2 ^ k) : k \in 0..MaxGrowth}

(* What prev_thrash_growth may be when `windows' windows have passed: the  *)
(* growth of the window that ended, decayed unless over the limit.         *)
CarryOver(grown, windows) ==
    IF windows > 1 \/ grown < limit THEN ShiftedRight(grown, windows) ELSE {grown}

(* The first half of the call: vmstat and meminfo are read, and the state  *)
(* of reclaim and thrashing is worked out.                                 *)
Sample(src, low, rec, g, windows) ==
    /\ pc = "idle"
    /\ Grown(g) <= MaxGrowth
    /\ killing => windows = 0
    /\ source' = src
    /\ swapLow' = low
    /\ reclaim' = rec
    /\ swapUtil' \in BOOLEAN /\ stuck' \in BOOLEAN /\ fileLow' \in BOOLEAN
    /\ vendorMin' \in IF src = "vendor" THEN VendorMins ELSE {0}
    /\ afterKill' = killing
    /\ killing' = FALSE
    /\ \/ /\ windows > 0
          /\ carry' \in CarryOver(Grown(g), windows)
          /\ growth' = 0
          /\ limit' = LimitPct
          /\ thrashing' = carry'
       \/ /\ windows = 0
          /\ carry' = Carried
          /\ growth' = Grown(g)
          /\ thrashing' = growth' + carry'
          /\ UNCHANGED limit
    /\ pc' = "judge"
    /\ UNCHANGED <<checkFilecache, firstKill, decision>>

(* "Device is not thrashing and not reclaiming, bail out early". *)
BailOut ==
    /\ pc = "idle" /\ killing
    /\ killing' = FALSE
    /\ growth' = 0 /\ carry' = 0
    /\ UNCHANGED <<checkFilecache, limit, firstKill, pc, callVars, decision>>

-----------------------------------------------------------------------------
(* Mutant: perceptible processes themselves are not spared. *)
Perceptible_Not(unless) == IF unless THEN min ELSE PERCEPTIBLE_APP_ADJ

Perceptible(unless) == IF unless THEN min ELSE PERCEPTIBLE_APP_ADJ + 1

(* The reasons to kill, in the order they are tried, with the watermark w  *)
(* breached: when a rule applies, the reason, the limit of the search,     *)
(* whether the thrashing limit is cut and the file cache checked later.    *)
(* A rule that does not mention a limit leaves it as it was.               *)
Rules(w) == <<
    [when |-> source = "vendor",
     reason |-> "VENDOR", min |-> vendorMin, cut |-> cut, file |-> checkFilecache],
    [when |-> afterKill /\ w < WMARK_LOW,
     reason |-> "PRESSURE_AFTER_KILL", min |-> AfterKillMin, cut |-> cut, file |-> checkFilecache],
    [when |-> source = "critical",
     reason |-> "NOT_RESPONDING", min |-> min, cut |-> cut, file |-> checkFilecache],
    [when |-> swapLow /\ thrashing > LimitPct,
     reason |-> "LOW_SWAP_AND_THRASHING",
     min |-> Perceptible(w = WMARK_MIN \/ thrashing >= CriticalPct), cut |-> cut, file |-> TRUE],
    [when |-> swapLow /\ w < WMARK_HIGH,
     reason |-> "LOW_MEM_AND_SWAP",
     min |-> Perceptible(w = WMARK_MIN \/ thrashing >= CriticalPct), cut |-> cut,
     file |-> checkFilecache],
    [when |-> w < WMARK_HIGH /\ swapUtil,
     reason |-> "LOW_MEM_AND_SWAP_UTIL", min |-> min, cut |-> cut, file |-> checkFilecache],
    [when |-> w < WMARK_HIGH /\ thrashing > limit,
     reason |-> "LOW_MEM_AND_THRASHING",
     min |-> Perceptible(thrashing >= CriticalPct), cut |-> TRUE, file |-> TRUE],
    [when |-> reclaim = "direct" /\ thrashing > limit,
     reason |-> "DIRECT_RECL_AND_THRASHING",
     min |-> Perceptible(thrashing >= CriticalPct), cut |-> TRUE, file |-> TRUE],
    [when |-> reclaim = "direct" /\ stuck,
     reason |-> "DIRECT_RECL_STUCK", min |-> min, cut |-> cut, file |-> checkFilecache],
    [when |-> checkFilecache /\ fileLow,
     reason |-> "LOW_FILECACHE_AFTER_THRASHING",
     min |-> PERCEPTIBLE_APP_ADJ + 1, cut |-> cut, file |-> TRUE],
    [when |-> TRUE,
     reason |-> reason, min |-> min, cut |-> cut, file |-> FALSE] >>

Rule(w) ==
    LET rules == Rules(w)
    IN  rules[CHOOSE i \in 1..Len(rules) :
                rules[i].when /\ \A j \in 1..(i - 1) : ~rules[j].when]

(* From update_watermarks to the decision.  Before the first kill the      *)
(* watermarks are read anew and everything is judged again, with the       *)
(* reason and the limit found before still in place.                       *)
Judge(w, psiStall) ==
    /\ pc = "judge"
    /\ LET rule   == Rule(w)
           lowMem == rule.reason = "NONE" /\ w < WMARK_HIGH
       IN  /\ checkFilecache' = rule.file
           /\ IF rule.reason = "NONE" /\ ~lowMem
              THEN /\ pc' = "idle"
                   /\ NoCall /\ NoDecision
                   /\ UNCHANGED firstKill
              ELSE /\ reason' = IF lowMem THEN "LOW_MEM" ELSE rule.reason
                   /\ cut' = rule.cut
                   /\ wmark' = w /\ stall' = psiStall
                   /\ min' = IF psiStall /\ ~firstKill THEN 0
                             ELSE IF lowMem THEN LowmemMin ELSE rule.min
                   /\ pc' = IF firstKill THEN "judge" ELSE "kill"
                   /\ firstKill' = FALSE
                   /\ rechecked' = (rechecked \/ firstKill)
                   /\ UNCHANGED callVars
    /\ UNCHANGED <<killing, limit, growth, carry>>

(* A vendor event with a reason out of range, or an unreadable zoneinfo.   *)
GiveUp ==
    /\ pc = "judge"
    /\ pc' = "idle"
    /\ NoCall /\ NoDecision
    /\ UNCHANGED statics

CutLimit == (limit * (100 - DecayPct)) \div 100

(* find_and_kill_process killed a process, or found none. *)
Kill(freed) ==
    /\ pc = "kill"
    /\ killing' = freed
    /\ limit' = IF freed /\ cut THEN CutLimit ELSE limit
    /\ pc' = "idle"
    /\ NoCall /\ NoDecision
    /\ UNCHANGED <<checkFilecache, growth, carry, firstKill>>

-----------------------------------------------------------------------------
Next ==
    \/ \E src \in Sources, low \in BOOLEAN, rec \in {"none", "kswapd", "direct"},
          g \in 0..MaxGrowth, windows \in Windows : Sample(src, low, rec, g, windows)
    \/ BailOut
    \/ \E w \in Watermarks, psiStall \in BOOLEAN : Judge(w, psiStall)
    \/ GiveUp
    \/ \E freed \in BOOLEAN : Kill(freed)

Spec == Init /\ [][Next]_vars

-----------------------------------------------------------------------------
Reasons ==
    {"VENDOR", "PRESSURE_AFTER_KILL", "NOT_RESPONDING", "LOW_SWAP_AND_THRASHING",
     "LOW_MEM_AND_SWAP", "LOW_MEM_AND_SWAP_UTIL", "LOW_MEM_AND_THRASHING",
     "DIRECT_RECL_AND_THRASHING", "DIRECT_RECL_STUCK", "LOW_FILECACHE_AFTER_THRASHING",
     "LOW_MEM"}

TypeOK ==
    /\ {killing, checkFilecache, firstKill, afterKill, swapLow, swapUtil, stuck, fileLow,
        stall, cut, rechecked} \subseteq BOOLEAN
    /\ limit \in 0..LimitPct
    /\ growth \in 0..MaxGrowth /\ carry \in 0..MaxGrowth
    /\ thrashing \in 0..(2 * MaxGrowth)
    /\ pc \in {"idle", "judge", "kill"}
    /\ source \in Sources
    /\ reclaim \in {"none", "kswapd", "direct"}
    /\ vendorMin \in VendorMins \cup {0}
    /\ wmark \in Watermarks
    /\ reason \in Reasons \cup {"NONE"}
    /\ min \in Int

(* "Do not kill perceptible apps unless below min watermark or heavily     *)
(* thrashing" when swap is low, nor unless thrashing at critical levels    *)
(* when the page cache thrashes; a stalled system lifts the protection.    *)
(* The first kill is left out: its recheck starts from the reason and the  *)
(* limit found before (FirstKillIsChecked).                                *)
PerceptibleSpared ==
    pc = "kill" /\ min <= PERCEPTIBLE_APP_ADJ /\ ~stall /\ ~rechecked =>
      /\ reason \in {"LOW_SWAP_AND_THRASHING", "LOW_MEM_AND_SWAP"}
           => wmark = WMARK_MIN \/ thrashing >= CriticalPct
      /\ reason \in {"LOW_MEM_AND_THRASHING", "DIRECT_RECL_AND_THRASHING"}
           => thrashing >= CriticalPct
      /\ reason \notin {"LOW_MEM", "LOW_FILECACHE_AFTER_THRASHING"}

(* Perceptible apps are spared, and the numbers this is decided by stay in *)
(* their ranges.                                                           *)
PerceptibleProtected == TypeOK /\ PerceptibleSpared

(* "Reset file-backed pagecache size and refault amounts after a kill": a  *)
(* kill in the cycle after a kill never has thrashing that the first kill  *)
(* was to cure as its reason.                                              *)
ThrashingForgottenAfterKill ==
    pc = "kill" /\ afterKill =>
      reason \notin {"LOW_SWAP_AND_THRASHING", "LOW_MEM_AND_THRASHING",
                     "DIRECT_RECL_AND_THRASHING"}

(* "Make sure watermarks are correct before the first kill": a kill for a  *)
(* breached watermark finds the watermark breached.                        *)
FirstKillIsChecked ==
    pc = "kill" /\ reason \in {"LOW_MEM", "LOW_MEM_AND_SWAP", "LOW_MEM_AND_SWAP_UTIL",
                               "LOW_MEM_AND_THRASHING"} => wmark < WMARK_HIGH
=============================================================================
