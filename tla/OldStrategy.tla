---------------------------- MODULE OldStrategy ----------------------------
(***************************************************************************)
(* mp_event_common, the strategy from before PSI: what it makes of events  *)
(* of the three vmpressure levels, read from eventfd counters or reported  *)
(* by PSI triggers, by minfree levels or by the oom_score_adj of the       *)
(* level.  A poll runs the handler like an event does; when it polls is in *)
(* PollLoop.                                                               *)
(***************************************************************************)
EXTENDS MinfreeTargets, KillCount

CONSTANTS
    Configs,            \* how lmkd may be configured and used
    LevelAdj,           \* level_oomadj
    FreePages,          \* readings of nr_free_pages
    FilePages,          \* readings of the file cache that can be reclaimed
    ReservePages,       \* totalreserve_pages
    MemPressures,       \* percentages of the memory used that is not swapped out
    upgrade_pressure,
    downgrade_pressure,
    MaxKills            \* bound on the kills

LOW      == 0           \* VMPRESS_LEVEL_LOW
MEDIUM   == 1           \* VMPRESS_LEVEL_MEDIUM
CRITICAL == 2           \* VMPRESS_LEVEL_CRITICAL
Levels   == LOW..CRITICAL

Config == [use_psi_monitors : BOOLEAN, use_minfree_levels : BOOLEAN, low_ram_device : BOOLEAN,
           enable_pressure_upgrade : BOOLEAN, kill_timeout : BOOLEAN, pidfd_supported : BOOLEAN,
           requests : SUBSET Requests]     \* what the clients may send

ASSUME OldStrategyAssumption ==
    /\ Configs \subseteq Config
    /\ LevelAdj \in [Levels -> -1000..(KillAdjMax + 1)]
    /\ FreePages \subseteq Nat /\ FilePages \subseteq Nat /\ ReservePages \in Nat
    /\ MemPressures \subseteq 0..100
    /\ MaxKills \in Nat

VARIABLES
    config,
    signals,    \* levels whose eventfd counter is not 0, or whose PSI trigger fired
    batch,      \* levels whose handlers mainloop is about to call
    lowMax,     \* low_pressure_mem.max_nr_free_pages
    waiting,    \* last_kill_pid_or_fd is set
    recent,     \* less than kill_timeout_ms since last_kill_tm
    alive,      \* the process killed last has not ended
    pc,         \* "loop", or "kill": about to look for a process to kill
    verdict     \* what led there

strategyVars == <<signals, batch, lowMax, waiting, recent, alive, pc, verdict>>
vars         == <<targetVars, countVars, config, strategyVars>>

NoLimit   == KillAdjMax + 1
NoVerdict == [levels |-> {}, limit |-> NoLimit, free |-> 0, file |-> 0, relaxed |-> FALSE]

Init ==
    /\ MinfreeInit /\ KillCountInit
    /\ config \in Configs
    /\ has_inkernel_module => config.requests # {}      \* nothing happens otherwise
    /\ signals = {} /\ batch = {}
    /\ lowMax = -1
    /\ waiting = FALSE /\ recent = FALSE /\ alive = FALSE
    /\ pc = "loop" /\ verdict = NoVerdict

-----------------------------------------------------------------------------
Signal(l) ==
    /\ ~has_inkernel_module /\ l \notin signals
    /\ signals' = signals \cup {l}
    /\ UNCHANGED <<targetVars, countVars, batch, lowMax, waiting, recent, alive, pc, verdict>>

TimeoutPasses ==
    /\ recent
    /\ recent' = FALSE
    /\ UNCHANGED <<targetVars, countVars, signals, batch, lowMax, waiting, alive, pc, verdict>>

VictimEnds ==
    /\ alive
    /\ alive' = FALSE
    /\ UNCHANGED <<targetVars, countVars, signals, batch, lowMax, waiting, recent, pc, verdict>>

(* epoll_wait; a PSI trigger is reset by it, an eventfd when it is read. *)
EpollWait ==
    /\ pc = "loop" /\ batch = {}
    /\ signals # {}
    /\ batch' = signals
    /\ signals' = IF config.use_psi_monitors THEN {} ELSE signals
    /\ UNCHANGED <<targetVars, countVars, lowMax, waiting, recent, alive, pc, verdict>>

kill_done_handler ==
    /\ pc = "loop"
    /\ config.pidfd_supported /\ waiting /\ ~alive
    /\ waiting' = FALSE
    /\ UNCHANGED <<targetVars, countVars, signals, batch, lowMax, recent, alive, pc, verdict>>

LMK_TARGET(r) ==
    /\ pc = "loop" /\ r \in config.requests
    /\ cmd_target(r)
    /\ UNCHANGED <<countVars, strategyVars>>

TargetInterval ==
    /\ UpdateIntervalPasses
    /\ UNCHANGED <<countVars, strategyVars>>

-----------------------------------------------------------------------------
upgrade_level(l)   == IF l < CRITICAL THEN l + 1 ELSE l
downgrade_level(l) == IF l > LOW THEN l - 1 ELSE l

is_kill_pending == waiting /\ (config.pidfd_supported \/ alive)

(* The levels whose counters the handler of level h resets. *)
Reset == IF config.use_psi_monitors THEN {} ELSE signals

(* Mutant: the counters are reset and nothing is made of them. *)
Raised_Own(h) == h

Raised(h) == Max({h} \cup Reset)

(* record_low_pressure_levels; jumps of a tenth or more are ignored. *)
record_low_pressure_levels(free) ==
    IF lowMax = -1 \/ (lowMax < free /\ 10 * (free - lowMax) < lowMax) THEN free ELSE lowMax

(* How mp_event_common judges level l with the memory readings m:          *)
(* the level to kill for, if any; m.usage is -1 when unreadable.           *)
Upgraded(l, m) ==
    IF config.enable_pressure_upgrade /\ l # CRITICAL /\ m.usage < upgrade_pressure
    THEN upgrade_level(l) ELSE l

Relaxed(m) == m.usage # -1 /\ m.swapFree /\ m.usage > upgrade_pressure

JudgedLevels(l, m) ==
    IF m.usage = -1 THEN {l}
    ELSE IF m.swapFree /\ m.usage > downgrade_pressure THEN {}
    ELSE IF Relaxed(m) /\ Upgraded(l, m) = CRITICAL THEN {downgrade_level(CRITICAL)}
    ELSE {Upgraded(l, m)}

LevelLimit(l, m, max) ==
    LET judged == JudgedLevels(l, m)
    IN  IF \/ LevelAdj[l] > KillAdjMax
           \/ judged = {}
           \/ ~config.low_ram_device /\ m.free >= max
        THEN NoLimit
        ELSE LevelAdj[CHOOSE j \in judged : TRUE]

Readings ==
    [free : FreePages, file : FilePages, usage : MemPressures \cup {-1}, swapFree : BOOLEAN]

Relevant(m) ==  \* readings the configuration makes no use of stay fixed
    IF config.use_minfree_levels THEN m.usage = -1 /\ ~m.swapFree
                                 ELSE m.file = Min(FilePages)

(* Past the pending-kill gate: memory is read, and the limit worked out.   *)
Judge(h, m) ==
    LET l     == Raised(h)
        limit == IF config.use_minfree_levels
                 THEN MinfreeLimit(m.free - ReservePages, m.file, NoLimit)
                 ELSE LevelLimit(l, m, lowMax')
    IN  /\ lowMax' = IF l = LOW /\ ~config.use_minfree_levels
                     THEN record_low_pressure_levels(m.free) ELSE lowMax
        /\ \/ limit = NoLimit /\ UNCHANGED <<pc, verdict>>
           \/ /\ limit # NoLimit
              /\ pc' = "kill"
              /\ verdict' = [levels |-> {h} \cup Reset, limit |-> limit,
                             free |-> m.free, file |-> m.file, relaxed |-> Relaxed(m)]

Gated == config.kill_timeout /\ recent /\ is_kill_pending

mp_event_common(h) ==
    /\ pc = "loop" /\ h \in batch
    /\ batch' = batch \ {h}
    /\ signals' = signals \ Reset
    /\ \/ Gated /\ UNCHANGED <<lowMax, waiting, pc, verdict>>
       \/ ~Gated /\ waiting' = FALSE /\ UNCHANGED <<lowMax, pc, verdict>>   \* parse error
       \/ ~Gated /\ waiting' = FALSE /\ \E m \in Readings : Relevant(m) /\ Judge(h, m)
    /\ UNCHANGED <<targetVars, countVars, recent, alive>>

(* find_and_kill_process (VictimSearch) kills a process, or finds none. *)
Kill(a) ==
    /\ pc = "kill"
    /\ a >= verdict.limit
    /\ MapThenSumSet(LAMBDA b : kills[b], KillAdjs) < MaxKills
    /\ inc_killcnt(a)
    /\ waiting' = TRUE /\ recent' = TRUE /\ alive' = TRUE
    /\ pc' = "loop" /\ verdict' = NoVerdict
    /\ UNCHANGED <<targetVars, signals, batch, lowMax>>

NothingToKill ==
    /\ pc = "kill"
    /\ pc' = "loop" /\ verdict' = NoVerdict
    /\ UNCHANGED <<targetVars, countVars, signals, batch, lowMax, waiting, recent, alive>>

-----------------------------------------------------------------------------
Next ==
    /\ \/ \E l \in Levels : Signal(l) \/ mp_event_common(l)
       \/ TimeoutPasses \/ VictimEnds \/ EpollWait \/ kill_done_handler
       \/ (\E r \in Requests : LMK_TARGET(r)) \/ TargetInterval
       \/ (\E a \in KillAdjs : Kill(a)) \/ NothingToKill
    /\ UNCHANGED config

Spec == Init /\ [][Next]_vars

-----------------------------------------------------------------------------
Ascending(r) ==
    \A i, j \in DOMAIN r :
      i < j => r[i].minfree <= r[j].minfree /\ r[i].oom_adj_score <= r[j].oom_adj_score

(* With minfree levels, a process is looked for only when free memory and  *)
(* file cache are both below a minfree of the last request that was        *)
(* accepted, and down to the lowest oom_score_adj of those breached: no    *)
(* target of an earlier request is left over (cmd_target, mp_event_common). *)
MinfreeMostSevere ==
    pc = "kill" /\ config.use_minfree_levels /\ Ascending(accepted) =>
      LET breached == {i \in DOMAIN accepted :
                         /\ verdict.free - ReservePages < accepted[i].minfree
                         /\ verdict.file < accepted[i].minfree}
      IN  /\ breached # {}
          /\ verdict.limit = Min({accepted[i].oom_adj_score : i \in breached})

(* "Check all event counters from low to critical and upgrade to the       *)
(* highest priority one": a handler that resets the counters of other      *)
(* levels kills down to the limit of the highest of them, or one level     *)
(* above when enough swap is left.                                         *)
PressureIsJudged ==
    pc = "kill" /\ ~config.use_minfree_levels =>
      \A l \in verdict.levels :
        \/ verdict.limit <= LevelAdj[l]
        \/ l = CRITICAL /\ verdict.relaxed /\ verdict.limit = LevelAdj[MEDIUM]
=============================================================================
