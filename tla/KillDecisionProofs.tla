------------------------ MODULE KillDecisionProofs ------------------------
(***************************************************************************)
(* Which kills __mp_event_psi never decides on, for every setting of the   *)
(* thresholds and whatever the kernel reports.                             *)
(***************************************************************************)
EXTENDS KillDecision, TLAPS

(* One of eleven conditions is the first to hold when the last one does. *)
LEMMA FirstOfEleven ==
    ASSUME NEW S \in SUBSET (1..11), 11 \in S
    PROVE  \E i \in S : \A j \in 1..(i - 1) : j \notin S
<1> SUFFICES ASSUME \A i \in S : \E j \in 1..(i - 1) : j \in S PROVE FALSE
  OBVIOUS
<1>1. 1 \notin S
  OBVIOUS
<1>2. 2 \notin S
  BY <1>1
<1>3. 3 \notin S
  BY <1>1, <1>2
<1>4. 4 \notin S
  BY <1>1, <1>2, <1>3
<1>5. 5 \notin S
  BY <1>1, <1>2, <1>3, <1>4
<1>6. 6 \notin S
  BY <1>1, <1>2, <1>3, <1>4, <1>5
<1>7. 7 \notin S
  BY <1>1, <1>2, <1>3, <1>4, <1>5, <1>6
<1>8. 8 \notin S
  BY <1>1, <1>2, <1>3, <1>4, <1>5, <1>6, <1>7
<1>9. 9 \notin S
  BY <1>1, <1>2, <1>3, <1>4, <1>5, <1>6, <1>7, <1>8
<1>10. 10 \notin S
  BY <1>1, <1>2, <1>3, <1>4, <1>5, <1>6, <1>7, <1>8, <1>9
<1>11. 11 \notin S
  BY <1>1, <1>2, <1>3, <1>4, <1>5, <1>6, <1>7, <1>8, <1>9, <1>10
<1> QED
  BY <1>11

(* The rule that is taken applies. *)
LEMMA RuleApplies ==
    ASSUME NEW w \in Watermarks
    PROVE  \E i \in 1..11 : Rule(w) = Rules(w)[i] /\ Rules(w)[i].when
<1> DEFINE R == Rules(w)
           S == {i \in 1..11 : R[i].when}
<1>1. Len(R) = 11
  BY DEF Rules
<1>2. R[11].when
  BY DEF Rules
<1> HIDE DEF R
<1>3. S \in SUBSET (1..11) /\ 11 \in S /\ \A i \in 1..11 : i \in S <=> R[i].when
  BY <1>2
<1> HIDE DEF S
<1>4. PICK i \in S : \A j \in 1..(i - 1) : j \notin S
  BY <1>3, FirstOfEleven
<1>5. \E k \in 1..11 : R[k].when /\ \A j \in 1..(k - 1) : ~R[j].when
  <2>1. i \in 1..11 /\ \A j \in 1..(i - 1) : j \in 1..11
    BY <1>3
  <2> QED
    BY <1>3, <1>4, <2>1
<1> DEFINE c == CHOOSE k \in 1..11 : R[k].when /\ \A j \in 1..(k - 1) : ~R[j].when
<1>6. c \in 1..11 /\ R[c].when
  BY <1>5
<1>7. Rule(w) = R[c]
  BY <1>1 DEF Rule, R
<1> QED
  BY <1>6, <1>7 DEF R

Thrashing == {"LOW_SWAP_AND_THRASHING", "LOW_MEM_AND_THRASHING", "DIRECT_RECL_AND_THRASHING"}

(* What the rule that is taken says about perceptible processes. *)
Spares(r, w) ==
    /\ r.reason \in {"LOW_SWAP_AND_THRASHING", "LOW_MEM_AND_SWAP"} /\ r.min <= PERCEPTIBLE_APP_ADJ
         => w = WMARK_MIN \/ thrashing >= CriticalPct
    /\ r.reason \in {"LOW_MEM_AND_THRASHING", "DIRECT_RECL_AND_THRASHING"} /\ r.min <= PERCEPTIBLE_APP_ADJ
         => thrashing >= CriticalPct
    /\ r.reason = "LOW_FILECACHE_AFTER_THRASHING" => ~(r.min <= PERCEPTIBLE_APP_ADJ)
    /\ r.reason # "LOW_MEM"

(* Every rule spares them, in a call that has no reason yet. *)
LEMMA RuleSpares ==
    ASSUME NEW w \in Watermarks, reason = "NONE"
    PROVE  Spares(Rule(w), w)
<1>1. PICK i \in 1..11 : Rule(w) = Rules(w)[i] /\ Rules(w)[i].when
  BY RuleApplies
<1>2. CASE i = 1
  BY <1>1, <1>2 DEF Rules, Spares, Perceptible, PERCEPTIBLE_APP_ADJ
<1>3. CASE i = 2
  BY <1>1, <1>3 DEF Rules, Spares, Perceptible, PERCEPTIBLE_APP_ADJ
<1>4. CASE i = 3
  BY <1>1, <1>4 DEF Rules, Spares, Perceptible, PERCEPTIBLE_APP_ADJ
<1>5. CASE i = 4
  BY <1>1, <1>5 DEF Rules, Spares, Perceptible, PERCEPTIBLE_APP_ADJ
<1>6. CASE i = 5
  BY <1>1, <1>6 DEF Rules, Spares, Perceptible, PERCEPTIBLE_APP_ADJ
<1>7. CASE i = 6
  BY <1>1, <1>7 DEF Rules, Spares, Perceptible, PERCEPTIBLE_APP_ADJ
<1>8. CASE i = 7
  BY <1>1, <1>8 DEF Rules, Spares, Perceptible, PERCEPTIBLE_APP_ADJ
<1>9. CASE i = 8
  BY <1>1, <1>9 DEF Rules, Spares, Perceptible, PERCEPTIBLE_APP_ADJ
<1>10. CASE i = 9
  BY <1>1, <1>10 DEF Rules, Spares, Perceptible, PERCEPTIBLE_APP_ADJ
<1>11. CASE i = 10
  BY <1>1, <1>11 DEF Rules, Spares, Perceptible, PERCEPTIBLE_APP_ADJ
<1>12. CASE i = 11
  BY <1>1, <1>12 DEF Rules, Spares, Perceptible, PERCEPTIBLE_APP_ADJ
<1> QED
  BY <1>1, <1>2, <1>3, <1>4, <1>5, <1>6, <1>7, <1>8, <1>9, <1>10, <1>11, <1>12

(* Without refaults no rule finds thrashing. *)
LEMMA RuleWithoutRefaults ==
    ASSUME NEW w \in Watermarks, thrashing = 0, limit \in Nat, reason \notin Thrashing
    PROVE  Rule(w).reason \notin Thrashing
<1>1. PICK i \in 1..11 : Rule(w) = Rules(w)[i] /\ Rules(w)[i].when
  BY RuleApplies
<1>2. ~(thrashing > LimitPct) /\ ~(thrashing > limit)
  BY KillDecisionAssumption
<1>3. i # 4
  <2>1. Rules(w)[4].when = (swapLow /\ thrashing > LimitPct)
    BY DEF Rules
  <2> QED
    BY <1>1, <1>2, <2>1
<1>4. i # 7
  <2>1. Rules(w)[7].when = (w < WMARK_HIGH /\ thrashing > limit)
    BY DEF Rules
  <2> QED
    BY <1>1, <1>2, <2>1
<1>5. i # 8
  <2>1. Rules(w)[8].when = (reclaim = "direct" /\ thrashing > limit)
    BY DEF Rules
  <2> QED
    BY <1>1, <1>2, <2>1
<1>6. CASE i = 1
  BY <1>1, <1>6 DEF Rules, Thrashing
<1>7. CASE i = 2
  BY <1>1, <1>7 DEF Rules, Thrashing
<1>8. CASE i = 3
  BY <1>1, <1>8 DEF Rules, Thrashing
<1>9. CASE i = 5
  BY <1>1, <1>9 DEF Rules, Thrashing
<1>10. CASE i = 6
  BY <1>1, <1>10 DEF Rules, Thrashing
<1>11. CASE i = 9
  BY <1>1, <1>11 DEF Rules, Thrashing
<1>12. CASE i = 10
  BY <1>1, <1>12 DEF Rules, Thrashing
<1>13. CASE i = 11
  BY <1>1, <1>13 DEF Rules, Thrashing
<1> QED
  BY <1>1, <1>3, <1>4, <1>5, <1>6, <1>7, <1>8, <1>9, <1>10, <1>11, <1>12, <1>13

-----------------------------------------------------------------------------
(* A call begins without a reason; one right after a kill has no refaults  *)
(* to go by, also when it judges a second time.                            *)
Inv ==
    /\ limit \in Nat
    /\ pc \in {"idle", "judge", "kill"}
    /\ pc = "idle" => reason = "NONE"
    /\ pc = "judge" /\ ~rechecked => reason = "NONE"
    /\ pc # "idle" /\ afterKill => thrashing = 0 /\ reason \notin Thrashing
    /\ PerceptibleSpared

(* Cutting the thrashing limit leaves a number. *)
LEMMA CutNat ==
    ASSUME limit \in Nat
    PROVE  CutLimit \in Nat
<1>1. 100 - DecayPct \in Nat
  BY KillDecisionAssumption
<1>2. ASSUME NEW m \in Nat, NEW n \in Nat PROVE m * n \in Nat
  OBVIOUS
<1>3. ASSUME NEW m \in Nat PROVE m \div 100 \in Nat
  OBVIOUS
<1>4. limit * (100 - DecayPct) \in Nat
  BY <1>1, <1>2
<1> QED
  BY <1>3, <1>4 DEF CutLimit

(* The first half of a call: a kill has reset the refault counts. *)
LEMMA SampleInv ==
    ASSUME Inv, NEW src, NEW low, NEW rec, NEW g, NEW windows, Sample(src, low, rec, g, windows)
    PROVE  Inv'
<1>1. /\ pc = "idle" /\ pc' = "judge" /\ reason' = reason
      /\ afterKill' = killing /\ (killing => windows = 0)
      /\ limit' \in {limit, LimitPct}
  BY DEF Sample, decision
<1>2. ASSUME afterKill' PROVE thrashing' = 0
  <2>1. killing /\ windows = 0
    BY <1>1, <1>2
  <2>2. carry' = 0 /\ growth' = 0 /\ thrashing' = growth' + carry'
    BY <2>1 DEF Sample, Carried, Grown
  <2> QED
    BY <2>2
<1>3. limit' \in Nat
  BY <1>1, KillDecisionAssumption DEF Inv
<1> QED
  BY <1>1, <1>2, <1>3 DEF Inv, Thrashing, PerceptibleSpared

(* The second half: the rule that is taken spares and forgets. *)
LEMMA JudgeInv ==
    ASSUME Inv, NEW w \in Watermarks, NEW psiStall \in BOOLEAN, Judge(w, psiStall)
    PROVE  Inv'
<1> DEFINE rule == Rule(w)
           lowMem == rule.reason = "NONE" /\ w < WMARK_HIGH
<1>1. pc = "judge" /\ limit' = limit
  BY DEF Judge
<1>2. CASE rule.reason = "NONE" /\ ~lowMem
  <2>1. pc' = "idle" /\ reason' = "NONE"
    BY <1>2 DEF Judge, NoDecision
  <2> QED
    BY <1>1, <2>1 DEF Inv, PerceptibleSpared
<1>3. CASE ~(rule.reason = "NONE" /\ ~lowMem)
  <2>1. /\ reason' = IF lowMem THEN "LOW_MEM" ELSE rule.reason
        /\ wmark' = w /\ stall' = psiStall
        /\ min' = IF psiStall /\ ~firstKill THEN 0
                  ELSE IF lowMem THEN LowmemMin ELSE rule.min
        /\ pc' = IF firstKill THEN "judge" ELSE "kill"
        /\ rechecked' = (rechecked \/ firstKill)
        /\ afterKill' = afterKill /\ thrashing' = thrashing
    BY <1>3 DEF Judge, callVars
  <2>2. ASSUME afterKill PROVE thrashing = 0 /\ reason' \notin Thrashing
    <3>1. thrashing = 0 /\ limit \in Nat /\ reason \notin Thrashing
      BY <1>1, <2>2 DEF Inv
    <3>2. rule.reason \notin Thrashing
      BY <3>1, RuleWithoutRefaults
    <3> HIDE DEF rule
    <3> QED
      BY <2>1, <3>1, <3>2 DEF Thrashing
  <2>3. PerceptibleSpared'
    <3> SUFFICES ASSUME pc' = "kill", min' <= PERCEPTIBLE_APP_ADJ, ~stall', ~rechecked'
                 PROVE  /\ reason' \in {"LOW_SWAP_AND_THRASHING", "LOW_MEM_AND_SWAP"}
                             => w = WMARK_MIN \/ thrashing >= CriticalPct
                        /\ reason' \in {"LOW_MEM_AND_THRASHING", "DIRECT_RECL_AND_THRASHING"}
                             => thrashing >= CriticalPct
                        /\ reason' \notin {"LOW_MEM", "LOW_FILECACHE_AFTER_THRASHING"}
      BY <2>1 DEF PerceptibleSpared
    <3>1. ~psiStall /\ ~rechecked
      BY <2>1
    <3>2. Spares(rule, w)
      BY <1>1, <3>1, RuleSpares DEF Inv
    <3> HIDE DEF rule
    <3>3. min' = IF lowMem THEN LowmemMin ELSE rule.min
      BY <2>1, <3>1
    <3>4. ~lowMem
      BY <3>3, KillDecisionAssumption DEF PERCEPTIBLE_APP_ADJ
    <3> HIDE DEF lowMem
    <3>5. reason' = rule.reason /\ rule.min <= PERCEPTIBLE_APP_ADJ
      BY <2>1, <3>3, <3>4
    <3> QED
      BY <3>2, <3>5 DEF Spares
  <2>4. pc' \in {"judge", "kill"} /\ (pc' = "judge" => rechecked')
    BY <2>1
  <2> QED
    BY <1>1, <2>1, <2>2, <2>3, <2>4 DEF Inv
<1> QED
  BY <1>2, <1>3

(* The decisions are as PerceptibleSpared and ThrashingForgottenAfterKill  *)
(* say, along with what makes that inductive.                              *)
THEOREM DecisionInvariant == Spec => []Inv
<1>1. Init => Inv
  BY KillDecisionAssumption DEF Init, Inv, Thrashing, PerceptibleSpared
<1>2. Inv /\ [Next]_vars => Inv'
  <2> SUFFICES ASSUME Inv, [Next]_vars PROVE Inv'
    OBVIOUS
  <2>1. ASSUME NEW src \in Sources, NEW low \in BOOLEAN, NEW rec \in {"none", "kswapd", "direct"},
               NEW g \in 0..MaxGrowth, NEW windows \in Windows, Sample(src, low, rec, g, windows)
        PROVE  Inv'
    BY <2>1, SampleInv
  <2>2. CASE BailOut
    BY <2>2 DEF BailOut, Inv, PerceptibleSpared, callVars, decision
  <2>3. ASSUME NEW w \in Watermarks, NEW psiStall \in BOOLEAN, Judge(w, psiStall)
        PROVE  Inv'
    BY <2>3, JudgeInv
  <2>4. CASE GiveUp
    BY <2>4 DEF GiveUp, NoDecision, statics, Inv, PerceptibleSpared
  <2>5. ASSUME NEW freed \in BOOLEAN, Kill(freed)
        PROVE  Inv'
    <3>1. pc' = "idle" /\ reason' = "NONE" /\ limit' \in {limit, CutLimit}
      BY <2>5 DEF Kill, NoDecision
    <3>2. limit' \in Nat
      BY <3>1, CutNat DEF Inv
    <3> QED
      BY <3>1, <3>2 DEF Inv, PerceptibleSpared
  <2>6. CASE UNCHANGED vars
    BY <2>6 DEF vars, statics, callVars, decision, Inv, PerceptibleSpared
  <2> QED
    BY <2>1, <2>2, <2>3, <2>4, <2>5, <2>6 DEF Next
<1> QED
  BY <1>1, <1>2, PTL DEF Spec

(* Perceptible apps are spared as the comments of __mp_event_psi promise,  *)
(* for every setting of the thresholds and every kill but the first, which *)
(* is judged twice.                                                        *)
THEOREM PerceptibleAreSpared == Spec => []PerceptibleSpared
<1>1. Inv => PerceptibleSpared
  BY DEF Inv
<1> QED
  BY <1>1, DecisionInvariant, PTL

(* Thrashing from before a kill is never the reason for the next one, for  *)
(* every thrashing limit and every decay of it.                            *)
THEOREM ThrashingIsForgotten == Spec => []ThrashingForgottenAfterKill
<1>1. Inv => ThrashingForgottenAfterKill
  BY DEF Inv, ThrashingForgottenAfterKill, Thrashing
<1> QED
  BY <1>1, DecisionInvariant, PTL
=============================================================================
