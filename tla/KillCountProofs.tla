-------------------------- MODULE KillCountProofs --------------------------
(***************************************************************************)
(* CountersExact is inductive: it holds for any set of oom_score_adj       *)
(* values, any number of counters and any width of them.                   *)
(***************************************************************************)
EXTENDS KillCount, TLAPS

(* A multiple of w strictly between -w and w is 0. *)
LEMMA SmallMultiple ==
    ASSUME NEW w \in Nat, w > 0, NEW k \in Int, -w < w * k, w * k < w
    PROVE  k = 0
<1>1. CASE k >= 1
  <2>1. PICK j \in Nat : k = j + 1
    BY <1>1
  <2>2. w * j >= 0 /\ w * k = w * j + w
    BY <2>1
  <2> QED
    BY <2>2
<1>2. CASE k <= -1
  <2>1. PICK j \in Nat : k = -(j + 1)
    <3>1. -k - 1 \in Nat /\ k = -((-k - 1) + 1)
      BY <1>2
    <3> QED
      BY <3>1
  <2>2. w * j >= 0 /\ w * k = -(w * j) - w
    BY <2>1
  <2> QED
    BY <2>2
<1> QED
  BY <1>1, <1>2

(* A remainder is determined by its range. *)
LEMMA Remainder ==
    ASSUME NEW w \in Nat, w > 0, NEW n \in Nat,
           NEW q \in Int, NEW r \in 0..(w - 1), n = w * q + r
    PROVE  n % w = r
<1> DEFINE p == n \div w
           s == n % w
<1>1. p \in Int /\ s \in 0..(w - 1) /\ n = w * p + s
  OBVIOUS
<1> HIDE DEF p, s
<1>2. w * (p - q) = r - s
  BY <1>1
<1>3. p - q = 0
  BY <1>1, <1>2, SmallMultiple
<1>4. s = r
  BY <1>1, <1>3
<1> QED
  BY <1>4 DEF s

(* Counting one more commutes with the wrap of the counter. *)
LEMMA WrapNext ==
    ASSUME NEW w \in Nat \ {0, 1}, NEW n \in Nat
    PROVE  /\ ((n % w) + 1) % w = (n + 1) % w
           /\ n % w \in 0..(w - 1)
           /\ 1 % w = 1
<1> DEFINE q == n \div w
           r == n % w
<1>1. q \in Int /\ r \in 0..(w - 1) /\ n = w * q + r
  OBVIOUS
<1> HIDE DEF q, r
<1>2. CASE r + 1 < w
  <2>1. n + 1 = w * q + (r + 1) /\ r + 1 = w * 0 + (r + 1) /\ r + 1 \in 0..(w - 1)
    BY <1>1, <1>2
  <2>2. (n + 1) % w = r + 1 /\ (r + 1) % w = r + 1
    BY <2>1, <1>1, Remainder
  <2> QED
    BY <2>2, <1>1 DEF r
<1>3. CASE r + 1 = w
  <2>1. n + 1 = w * (q + 1) + 0 /\ r + 1 = w * 1 + 0 /\ 0 \in 0..(w - 1) /\ q + 1 \in Int
    BY <1>1, <1>3
  <2>2. (n + 1) % w = 0 /\ (r + 1) % w = 0
    BY <2>1, <1>1, Remainder
  <2> QED
    BY <2>2, <1>1 DEF r
<1>4. 1 % w = 1
  BY Remainder, 1 = w * 0 + 1
<1> QED
  BY <1>1, <1>2, <1>3, <1>4 DEF r

(* An empty table of counters is exact. *)
LEMMA CountStart == KillCountInit => CountersExact
  BY KillCountAssumption DEF KillCountInit, CountersExact, KillCountTypeOK, Counters, KILLCNT_INVALID_IDX

(* The steps of inc_killcnt: a new counter, none left, one more. *)
LEMMA CountStep == CountersExact /\ [KillCountNext]_countVars => CountersExact'
<1> SUFFICES ASSUME CountersExact, [KillCountNext]_countVars PROVE CountersExact'
  OBVIOUS
<1>1. /\ CounterMod \in Nat \ {0, 1} /\ TotalMod \in Nat \ {0, 1}
      /\ MAX_DISTINCT_OOM_ADJ \in 1..255 /\ KILLCNT_INVALID_IDX = 255
  BY KillCountAssumption DEF KILLCNT_INVALID_IDX
<1>2. CASE UNCHANGED countVars
  BY <1>2 DEF countVars, CountersExact, KillCountTypeOK
<1>3. ASSUME NEW a \in KillAdjs, inc_killcnt(a) PROVE CountersExact'
  <2> DEFINE idx == killcnt_idx[a]
  <2>1. /\ KillCountTypeOK
        /\ kills[a] \in Nat /\ kills' = [kills EXCEPT ![a] = kills[a] + 1]
        /\ kills' \in [KillAdjs -> Nat]
    BY <1>3 DEF CountersExact, KillCountTypeOK, inc_killcnt
  <2>2. killcnt_total' \in 0..(TotalMod - 1)
    <3>1. killcnt_total + 1 \in Nat /\ killcnt_total' = (killcnt_total + 1) % TotalMod
      BY <1>1, <1>3, <2>1 DEF KillCountTypeOK, inc_killcnt
    <3> QED
      BY <1>1, <3>1, WrapNext
  <2>3. CASE idx = KILLCNT_INVALID_IDX /\ killcnt_free_idx < MAX_DISTINCT_OOM_ADJ
    <3>1. /\ killcnt_free_idx \in Counters
          /\ killcnt_idx' = [killcnt_idx EXCEPT ![a] = killcnt_free_idx]
          /\ killcnt' = [killcnt EXCEPT ![killcnt_free_idx] = 1]
          /\ killcnt_free_idx' = killcnt_free_idx + 1
          /\ kills[a] = 0
      BY <1>1, <1>3, <2>1, <2>3 DEF inc_killcnt, NextFree, CountersExact, KillCountTypeOK, Counters
    <3>2. KillCountTypeOK'
      BY <1>1, <2>1, <2>2, <3>1 DEF KillCountTypeOK, Counters
    <3>3. 1 % CounterMod = 1 /\ kills'[a] = 1
      <4>1. 1 % CounterMod = 1
        BY <1>1, <2>1, WrapNext
      <4>2. kills'[a] = 1
        BY <2>1, <3>1 DEF KillCountTypeOK
      <4> QED
        BY <4>1, <4>2
    <3>4. \A b \in KillAdjs \ {a} : killcnt_idx'[b] = killcnt_idx[b] /\ kills'[b] = kills[b]
      BY <2>1, <3>1 DEF KillCountTypeOK
    <3>5. killcnt_idx'[a] = killcnt_free_idx /\ killcnt'[killcnt_free_idx] = 1
      BY <2>1, <3>1 DEF KillCountTypeOK
    <3>6. \A i \in Counters : i < killcnt_free_idx => killcnt'[i] = killcnt[i]
      BY <2>1, <3>1 DEF KillCountTypeOK, Counters
    <3>7. \A b \in KillAdjs \ {a} :
            killcnt_idx[b] # KILLCNT_INVALID_IDX => killcnt_idx[b] \in Counters /\ killcnt_idx[b] < killcnt_free_idx
      BY <2>1 DEF KillCountTypeOK, CountersExact
    <3>8. killcnt_free_idx # KILLCNT_INVALID_IDX /\ killcnt_free_idx < killcnt_free_idx'
      BY <1>1, <2>1, <2>3, <3>1 DEF KillCountTypeOK
    <3>9. \A b \in KillAdjs :
            IF killcnt_idx'[b] = KILLCNT_INVALID_IDX
            THEN kills'[b] = 0 \/ killcnt_free_idx' = MAX_DISTINCT_OOM_ADJ
            ELSE /\ killcnt_idx'[b] < killcnt_free_idx'
                 /\ killcnt'[killcnt_idx'[b]] = kills'[b] % CounterMod
      <4> SUFFICES ASSUME NEW b \in KillAdjs
                   PROVE IF killcnt_idx'[b] = KILLCNT_INVALID_IDX
                         THEN kills'[b] = 0 \/ killcnt_free_idx' = MAX_DISTINCT_OOM_ADJ
                         ELSE /\ killcnt_idx'[b] < killcnt_free_idx'
                              /\ killcnt'[killcnt_idx'[b]] = kills'[b] % CounterMod
        OBVIOUS
      <4>1. CASE b = a
        BY <4>1, <3>3, <3>5, <3>8
      <4>2. CASE b # a /\ killcnt_idx[b] = KILLCNT_INVALID_IDX
        <5>1. kills[b] = 0
          BY <4>2, <2>1, <2>3 DEF CountersExact, KillCountTypeOK
        <5> QED
          BY <4>2, <5>1, <3>4
      <4>3. CASE b # a /\ killcnt_idx[b] # KILLCNT_INVALID_IDX
        <5>1. killcnt[killcnt_idx[b]] = kills[b] % CounterMod
          BY <4>3 DEF CountersExact
        <5>2. killcnt_idx[b] < killcnt_free_idx'
          BY <4>3, <3>7, <3>1, <1>1, <2>1 DEF KillCountTypeOK, Counters
        <5> QED
          BY <4>3, <5>1, <5>2, <3>4, <3>6, <3>7
      <4> QED
        BY <4>1, <4>2, <4>3
    <3>10. \A b, c \in KillAdjs :
             killcnt_idx'[b] = killcnt_idx'[c] => b = c \/ killcnt_idx'[b] = KILLCNT_INVALID_IDX
      <4>1. \A b \in KillAdjs \ {a} : killcnt_idx[b] # killcnt_free_idx
        BY <3>7, <3>8, <2>1 DEF KillCountTypeOK
      <4> QED
        BY <4>1, <3>4, <3>5 DEF CountersExact
    <3> QED
      BY <3>2, <3>9, <3>10 DEF CountersExact
  <2>4. CASE idx = KILLCNT_INVALID_IDX /\ killcnt_free_idx >= MAX_DISTINCT_OOM_ADJ
    <3>1. UNCHANGED <<killcnt_idx, killcnt, killcnt_free_idx>>
      BY <1>1, <1>3, <2>1, <2>4 DEF inc_killcnt, KillCountTypeOK
    <3>2. killcnt_free_idx = MAX_DISTINCT_OOM_ADJ
      BY <1>1, <2>1, <2>4 DEF KillCountTypeOK
    <3>3. \A b \in KillAdjs \ {a} : kills'[b] = kills[b]
      BY <2>1 DEF KillCountTypeOK
    <3>4. KillCountTypeOK'
      BY <2>1, <2>2, <3>1 DEF KillCountTypeOK
    <3> QED
      BY <2>4, <3>1, <3>2, <3>3, <3>4 DEF CountersExact
  <2>5. CASE idx # KILLCNT_INVALID_IDX
    <3>1. /\ idx \in Counters /\ killcnt[idx] = kills[a] % CounterMod
          /\ killcnt' = [killcnt EXCEPT ![idx] = (killcnt[idx] + 1) % CounterMod]
          /\ UNCHANGED <<killcnt_idx, killcnt_free_idx>>
      BY <1>3, <2>1, <2>5 DEF inc_killcnt, KillCountTypeOK, CountersExact
    <3>2. /\ (killcnt[idx] + 1) % CounterMod = (kills[a] + 1) % CounterMod
          /\ (kills[a] + 1) % CounterMod \in 0..(CounterMod - 1)
      BY <1>1, <2>1, <3>1, WrapNext
    <3>3. KillCountTypeOK'
      BY <2>1, <2>2, <3>1, <3>2 DEF KillCountTypeOK
    <3>4. killcnt'[idx] = kills'[a] % CounterMod
      BY <2>1, <3>1, <3>2 DEF KillCountTypeOK
    <3>5. \A b \in KillAdjs \ {a} : kills'[b] = kills[b]
      BY <2>1 DEF KillCountTypeOK
    <3>6. \A b \in KillAdjs \ {a} :
            killcnt_idx[b] # KILLCNT_INVALID_IDX => killcnt'[killcnt_idx[b]] = killcnt[killcnt_idx[b]]
      BY <2>1, <2>5, <3>1 DEF KillCountTypeOK, CountersExact
    <3> QED
      BY <2>5, <3>1, <3>3, <3>4, <3>5, <3>6 DEF CountersExact
  <2> QED
    BY <1>1, <2>1, <2>3, <2>4, <2>5 DEF KillCountTypeOK
<1> QED
  BY <1>2, <1>3 DEF KillCountNext

(* Every counter is exact modulo its width and belongs to one              *)
(* oom_score_adj, whatever is killed (inc_killcnt).                        *)
THEOREM CountersStayExact == KillCountSpec => []CountersExact
<1> QED
  BY CountStart, CountStep, PTL DEF KillCountSpec
=============================================================================
