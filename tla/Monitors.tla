------------------------------ MODULE Monitors ------------------------------
(***************************************************************************)
(* How lmkd sets up what it watches, and keeps doing so: main and init,    *)
(* the PSI and vmpressure monitors, the reload of the properties           *)
(* (lmkd --reinit), the start of monitoring and the completion of boot     *)
(* (lmkd --boot_completed), with failing system calls, exits and restarts. *)
(*                                                                         *)
(* A property is read when the code reads it.  update_props keeps most of  *)
(* them; init_monitors reads use_psi and then use_new_strategy anew, so    *)
(* that a change may come between any two of the three.                    *)
(*                                                                         *)
(* The helpers that set up or tear down monitors work on a record m of the *)
(* statics concerned; those that may fail yield the set of outcomes.       *)
(***************************************************************************)
EXTENDS Integers, FiniteSets

CONSTANTS
    AllProps,           \* values the system properties may be set to
    Kernels,            \* what the kernel may support
    MAX_DATA_CONN

(* A system call works always, never, or sometimes. *)
Works == {"yes", "no", "maybe"}

Props == [use_psi : BOOLEAN, use_new_strategy : BOOLEAN,
          psi_partial_stall_ms : Nat, psi_complete_stall_ms : Nat,
          delay_monitors_until_boot : BOOLEAN, direct_reclaim_threshold_ms : Nat,
          hook : BOOLEAN]       \* lmkd_update_props_hook accepts them

(* What update_props keeps, and what has a trigger in lmkd.rc. *)
Kept == {"psi_partial_stall_ms", "psi_complete_stall_ms",
         "delay_monitors_until_boot", "direct_reclaim_threshold_ms"}
Triggers == {"psi_partial_stall_ms", "psi_complete_stall_ms", "direct_reclaim_threshold_ms"}

Kernel == [inkernel : BOOLEAN, memcg_v1 : BOOLEAN, psi : Works, vmpressure : Works,
           memevents : Works, reaper : Works]

ASSUME MonitorsAssumption ==
    /\ AllProps \subseteq Props
    /\ Kernels \subseteq Kernel
    /\ MAX_DATA_CONN \in Nat

Levels == {"low", "medium", "critical"}

(* Handlers epoll may be told of; with the connections and the pidfd of a  *)
(* pending kill they make MAX_EPOLL_EVENTS.                                *)
Sources == Levels \cup {"control", "kernel", "reaper", "memevents"}
MAX_EPOLL_EVENTS == 1 + MAX_DATA_CONN + Cardinality(Levels) + 1 + 1 + 1 + 1

VARIABLES
    kernel,
    boot,                   \* sys.boot_completed
    sysprops,               \* the system properties
    reinit,                 \* lmkd.reinit is 0
    toSend, requests,       \* commands of the clients, before and after they connect
    daemon,                 \* where the main thread is: see Stages
    props,                  \* what update_props last kept
    live,                   \* use_psi and use_new_strategy as init_monitors last read them
    mon,                    \* psi_thresholds, mpevfd, vmpressure_hinfo, epoll, maxevents ...
    listener,               \* memevent_listener
    threshold,              \* direct_reclaim_threshold_ms
    boot_completed_handled,
    early,                  \* the last reload came before boot_completed_handled
    missed                  \* a --reinit came between update_props and listen, and none since

lmkdVars == <<props, live, mon, listener, threshold, boot_completed_handled, early>>
vars     == <<kernel, boot, sysprops, reinit, toSend, requests, daemon, lmkdVars, missed>>

(* Before listen and after it, between update_props and init_monitors of a *)
(* reload, within init_monitors for one of its callers, and in mainloop.   *)
Calls  == {"init", "update", "start"}
Stages == {"down", "starting", "listening", "reloading", "running"} \cup Calls

KeptProps == [n \in Kept |-> sysprops[n]]

NotRead == [use_psi |-> FALSE, use_new_strategy |-> FALSE]

Fresh == [thresholds |-> [l \in Levels |-> IF l = "medium" THEN 100 ELSE 70],
          mpevfd |-> [l \in Levels |-> "none"],
          handler |-> [l \in Levels |-> "none"],
          use_psi_monitors |-> FALSE,
          monitors_initialized |-> FALSE,
          epoll |-> {}, maxevents |-> 0]

Init ==
    /\ kernel \in Kernels
    /\ boot = FALSE
    /\ sysprops \in AllProps
    /\ reinit = FALSE
    /\ toSend = {} /\ requests = {}
    /\ daemon = "down"
    /\ props = KeptProps
    /\ live = NotRead
    /\ mon = Fresh
    /\ listener = FALSE /\ threshold = 0
    /\ boot_completed_handled = FALSE
    /\ early = FALSE /\ missed = FALSE

-----------------------------------------------------------------------------
Outcomes(works) == CASE works = "yes" -> {TRUE} [] works = "no" -> {FALSE} [] OTHER -> BOOLEAN

Ok(m)     == [ok |-> TRUE, m |-> m]
Failed(m) == [ok |-> FALSE, m |-> m]

(* What may come of F after the outcomes before it. *)
Then(outcomes, F(_)) == UNION {IF o.ok THEN F(o.m) ELSE {o} : o \in outcomes}

(* A source is registered and counted. *)
Registered(m, s) == [m EXCEPT !.epoll = @ \cup {s}, !.maxevents = @ + 1]

Installed(m, l, kind) == [Registered(m, l) EXCEPT !.mpevfd[l] = kind]

init_mp_psi(m, l, new) ==
    IF m.thresholds[l] = 0 THEN {Ok(m)}
    ELSE LET handled == [m EXCEPT !.handler[l] = IF new THEN "mp_event_psi" ELSE "mp_event_common"]
         IN  UNION { IF works THEN {Ok(Installed(handled, l, "psi"))}
                              ELSE {Failed(m), Failed(handled)} : works \in Outcomes(kernel.psi) }

Open(m) == {l \in Levels : m.mpevfd[l] # "none"}

(* Mutant: the sources are still counted. *)
destroy_mp_Counted(m, levels) ==
    [m EXCEPT !.mpevfd = [l \in Levels |-> IF l \in levels THEN "none" ELSE @[l]],
              !.epoll = @ \ (levels \cap Open(m))]

(* destroy_mp_psi or destroy_mp_common of some levels; closing the         *)
(* descriptor takes it out of epoll even if unregistering it fails.        *)
destroy_mp(m, levels) ==
    [m EXCEPT !.mpevfd = [l \in Levels |-> IF l \in levels THEN "none" ELSE @[l]],
              !.epoll = @ \ (levels \cap Open(m)),
              !.maxevents = @ - Cardinality(levels \cap Open(m))]

(* What may come of a step whose failure undoes the levels before it. *)
OrUndo(outcomes, levels) ==
    {IF o.ok THEN o ELSE Failed(destroy_mp(o.m, levels)) : o \in outcomes}

(* In the default mode the stall amounts come from the properties. *)
Overridden(m, new) ==
    IF new
    THEN [m EXCEPT !.thresholds = [low |-> 0, medium |-> props.psi_partial_stall_ms,
                                   critical |-> props.psi_complete_stall_ms]]
    ELSE m

init_psi_monitors(m, new) ==
    LET low    == init_mp_psi(Overridden(m, new), "low", new)
        medium == Then(low, LAMBDA n : OrUndo(init_mp_psi(n, "medium", new), {"low"}))
    IN  IF ~new /\ ~kernel.memcg_v1 THEN {Failed(m)}
        ELSE Then(medium, LAMBDA n : OrUndo(init_mp_psi(n, "critical", new), {"medium", "low"}))

init_mp_common(m, l) ==
    LET handled == [m EXCEPT !.handler[l] = "mp_event_common"]
    IN  IF ~kernel.memcg_v1 THEN {Failed(m)}
        ELSE UNION { IF works THEN {Ok(Installed(handled, l, "vmpressure"))}
                              ELSE {Failed(m), Failed(handled)} :
                     works \in Outcomes(kernel.vmpressure) }

(* PSI if it is wanted and can be had, vmpressure otherwise. *)
init_monitors(m, use_psi, new) ==
    LET psi       == IF use_psi THEN init_psi_monitors(m, new) ELSE {Failed(m)}
        common(n) == Then(Then(init_mp_common([n EXCEPT !.use_psi_monitors = FALSE], "low"),
                               LAMBDA o : init_mp_common(o, "medium")),
                          LAMBDA o : init_mp_common(o, "critical"))
    IN  Then(UNION {IF o.ok THEN {Ok([o.m EXCEPT !.use_psi_monitors = TRUE])} ELSE common(o.m) :
                    o \in psi},
             LAMBDA o : {Ok([o EXCEPT !.monitors_initialized = TRUE])})

(* Mutant: the low level, which the new strategy does not use, is left. *)
destroy_monitors_TwoLevels(m) == destroy_mp(m, {"critical", "medium"})

destroy_monitors(m) == destroy_mp(m, Levels)

(* The notifications of failed kills; without them the reaper is unused. *)
init_reaper(m) ==
    {IF works THEN Registered(m, "reaper") ELSE m : works \in Outcomes(kernel.reaper)}

-----------------------------------------------------------------------------
(* The rest of the world.  lmkd.rc runs --reinit when a property that has  *)
(* a trigger changes after boot, and at the completion of boot if one      *)
(* changed before it; use_psi, use_new_strategy and                        *)
(* delay_monitors_until_boot have none.                                    *)
SetProps(p) ==
    /\ p # sysprops
    /\ sysprops' = p
    /\ LET triggered == \E n \in Triggers : p[n] # sysprops[n]
       IN  /\ reinit' = IF triggered THEN ~boot ELSE reinit
           /\ toSend' = IF triggered /\ boot THEN toSend \cup {"reinit"} ELSE toSend
    /\ UNCHANGED <<boot, requests, daemon, lmkdVars, missed>>

(* Mutant: lmkd.reinit=0 is not looked at. *)
ReinitAtBoot_Never == {}

ReinitAtBoot == IF reinit THEN {"reinit"} ELSE {}

BootCompletes ==
    /\ ~boot
    /\ boot' = TRUE
    /\ toSend' = {"boot_completed", "start"} \cup ReinitAtBoot
    /\ reinit' = FALSE
    /\ UNCHANGED <<sysprops, requests, daemon, lmkdVars, missed>>

(* issue_reinit, on_boot_completed, and LMK_START_MONITORING of            *)
(* ActivityManager: nobody tries again when lmkd does not listen.          *)
Send(r) ==
    /\ r \in toSend
    /\ toSend' = toSend \ {r}
    /\ requests' = IF daemon \in {"down", "starting"} THEN requests ELSE requests \cup {r}
    /\ missed' = (missed \/ (r = "reinit" /\ daemon = "starting"))
    /\ UNCHANGED <<boot, sysprops, reinit, daemon, lmkdVars>>

Down ==
    /\ daemon' = "down"
    /\ requests' = {}
    /\ mon' = Fresh
    /\ props' = KeptProps       \* meaningless until they are read again
    /\ live' = NotRead
    /\ listener' = FALSE /\ threshold' = 0
    /\ boot_completed_handled' = FALSE
    /\ early' = FALSE

Crash ==
    /\ daemon # "down"
    /\ Down
    /\ UNCHANGED <<boot, sysprops, reinit, toSend, missed>>

-----------------------------------------------------------------------------
(* main up to init: update_props. *)
Start ==
    /\ daemon = "down"
    /\ sysprops.hook
    /\ daemon' = "starting"
    /\ props' = KeptProps
    /\ threshold' = sysprops.direct_reclaim_threshold_ms
    /\ missed' = FALSE
    /\ UNCHANGED <<boot, sysprops, reinit, toSend, requests, live, mon, listener,
                   boot_completed_handled, early>>

(* init as far as listen and the registration of the control socket. *)
Listen ==
    /\ daemon = "starting"
    /\ daemon' = "listening"
    /\ mon' = Registered(mon, "control")
    /\ UNCHANGED <<boot, sysprops, reinit, toSend, requests, props, live, listener, threshold,
                   boot_completed_handled, early, missed>>

(* Mutant: monitoring is put off whenever the device is so configured. *)
MonitorNow_NotDelayed == ~props.delay_monitors_until_boot

MonitorNow == ~props.delay_monitors_until_boot \/ boot

(* init_monitors begins: use_psi is read. *)
CallInitMonitors(caller) ==
    /\ daemon' = caller
    /\ live' = [live EXCEPT !.use_psi = sysprops.use_psi]

(* The rest of init, and init_reaper; without monitors to set up, or up to *)
(* init_monitors.                                                          *)
init ==
    /\ daemon = "listening"
    /\ \/ /\ kernel.inkernel \/ ~MonitorNow
          /\ \E m \in {mon} \cup (IF kernel.inkernel THEN {Registered(mon, "kernel")} ELSE {}) :
               mon' \in init_reaper(m)
          /\ daemon' = "running"
          /\ UNCHANGED live
       \/ /\ ~kernel.inkernel /\ MonitorNow
          /\ CallInitMonitors("init")
          /\ UNCHANGED mon
    /\ UNCHANGED <<boot, sysprops, reinit, toSend, requests, props, listener, threshold,
                   boot_completed_handled, early, missed>>

Serve(r) ==
    /\ daemon = "running"
    /\ r \in requests

(* Mutant: without a listener the threshold is kept. *)
SupportedThreshold_Kept(t, supported) == t

SupportedThreshold(t, supported) == IF supported THEN t ELSE 0

(* What LMK_UPDATE_PROPS does last. *)
Reloaded ==
    /\ threshold' = SupportedThreshold(threshold, listener)
    /\ early' = ~boot_completed_handled
    /\ daemon' = "running"

(* update_props, and the monitors are torn down; lmkd exits when the hook  *)
(* refuses the properties.                                                 *)
LMK_UPDATE_PROPS ==
    /\ Serve("reinit")
    /\ \/ ~sysprops.hook /\ Down
       \/ /\ sysprops.hook
          /\ requests' = requests \ {"reinit"}
          /\ props' = KeptProps
          /\ threshold' = sysprops.direct_reclaim_threshold_ms
          /\ mon' = IF kernel.inkernel \/ ~mon.monitors_initialized THEN mon
                    ELSE destroy_monitors(mon)
          /\ daemon' = "reloading"
          /\ UNCHANGED <<live, listener, boot_completed_handled, early>>
    /\ missed' = FALSE
    /\ UNCHANGED <<boot, sysprops, reinit, toSend>>

Reload ==
    /\ daemon = "reloading"
    /\ \/ /\ kernel.inkernel \/ ~mon.monitors_initialized
          /\ Reloaded
          /\ UNCHANGED live
       \/ /\ ~kernel.inkernel /\ mon.monitors_initialized
          /\ CallInitMonitors("update")
          /\ UNCHANGED <<threshold, early>>
    /\ UNCHANGED <<boot, sysprops, reinit, toSend, requests, props, mon, listener,
                   boot_completed_handled, missed>>

(* Turned down before boot; an in-kernel killer makes no difference.       *)
LMK_START_MONITORING ==
    /\ Serve("start")
    /\ requests' = requests \ {"start"}
    /\ \/ /\ mon.monitors_initialized \/ ~boot
          /\ UNCHANGED <<daemon, live>>
       \/ /\ ~mon.monitors_initialized /\ boot
          /\ CallInitMonitors("start")
    /\ UNCHANGED <<boot, sysprops, reinit, toSend, props, mon, listener, threshold,
                   boot_completed_handled, early, missed>>

(* init_monitors from the reading of use_new_strategy on, and what its     *)
(* caller does after it; lmkd exits when there is nothing to monitor.      *)
InitMonitors ==
    /\ daemon \in Calls
    /\ LET new == live.use_psi /\ sysprops.use_new_strategy
       IN  \E o \in init_monitors(mon, live.use_psi, new) :
             \/ /\ o.ok
                /\ live' = [live EXCEPT !.use_new_strategy = new]
                /\ \/ /\ daemon = "update"
                      /\ mon' = o.m
                      /\ Reloaded
                   \/ /\ daemon # "update"
                      /\ mon' \in IF daemon = "init" THEN init_reaper(o.m) ELSE {o.m}
                      /\ daemon' = "running"
                      /\ UNCHANGED <<threshold, early>>
                /\ UNCHANGED <<requests, props, listener, boot_completed_handled>>
             \/ ~o.ok /\ Down
    /\ UNCHANGED <<boot, sysprops, reinit, toSend, missed>>

(* init_memevent_listener_monitoring, the first time. *)
LMK_BOOT_COMPLETED ==
    /\ Serve("boot_completed")
    /\ requests' = requests \ {"boot_completed"}
    /\ IF boot_completed_handled \/ ~boot
       THEN UNCHANGED <<mon, listener, threshold, boot_completed_handled>>
       ELSE /\ \E works \in Outcomes(kernel.memevents) :
                 /\ listener' = works
                 /\ mon' = IF works THEN Registered(mon, "memevents") ELSE mon
                 /\ threshold' = SupportedThreshold(threshold, works)
            /\ boot_completed_handled' = TRUE
    /\ UNCHANGED <<boot, sysprops, reinit, toSend, daemon, props, live, early, missed>>

-----------------------------------------------------------------------------
Requests == {"reinit", "start", "boot_completed"}

Lmkd == \/ Start \/ Listen \/ init \/ InitMonitors
        \/ LMK_UPDATE_PROPS \/ Reload \/ LMK_START_MONITORING \/ LMK_BOOT_COMPLETED

Next ==
    /\ \/ (\E p \in AllProps : SetProps(p)) \/ BootCompletes
       \/ (\E r \in Requests : Send(r)) \/ Crash
       \/ Lmkd
    /\ UNCHANGED kernel

Spec == Init /\ [][Next]_vars

(* Clients send what they have to send.  A handler runs to its end, and    *)
(* mainloop serves a waiting request whatever others come: epoll_wait      *)
(* reports them all.                                                       *)
FairSpec ==
    /\ Spec
    /\ WF_vars(Send("start") /\ UNCHANGED kernel)
    /\ WF_vars((Listen \/ init \/ InitMonitors \/ Reload) /\ UNCHANGED kernel)
    /\ SF_vars(LMK_START_MONITORING /\ UNCHANGED kernel)

-----------------------------------------------------------------------------
TypeOK ==
    /\ kernel \in Kernels /\ sysprops \in AllProps
    /\ props \in {[n \in Kept |-> p[n]] : p \in AllProps}
    /\ live \in [use_psi : BOOLEAN, use_new_strategy : BOOLEAN]
    /\ {boot, reinit, listener, boot_completed_handled, early, missed} \subseteq BOOLEAN
    /\ toSend \subseteq Requests /\ requests \subseteq Requests
    /\ daemon \in Stages
    /\ mon.epoll \subseteq Sources /\ mon.maxevents \in 0..MAX_EPOLL_EVENTS
    /\ threshold \in Nat

(* maxevents, which tells epoll_wait how many events may come, is the      *)
(* number of registered sources, whatever was set up, torn down and set up *)
(* again or failed in between; the connections (at most MAX_DATA_CONN) and *)
(* the pidfd of a pending kill still fit into the events array.            *)
EventsCounted ==
    /\ TypeOK
    /\ mon.maxevents = Cardinality(mon.epoll)
    /\ mon.maxevents + MAX_DATA_CONN + 1 <= MAX_EPOLL_EVENTS

Watched(m) == [use_psi_monitors |-> m.use_psi_monitors, mpevfd |-> m.mpevfd,
               handler |-> [l \in Open(m) |-> m.handler[l]]]

(* "Reinitialize monitors to apply new settings": what is monitored after  *)
(* any reloads is what a restarted lmkd might monitor had it read what     *)
(* lmkd read last, each property when it was read: no monitor of earlier   *)
(* settings is left, whichever changed in the middle of a reload.  The old *)
(* strategy is left out once the new one has changed psi_thresholds, which *)
(* only a restart undoes.                                                  *)
ReinitLikeRestart ==
    /\ daemon = "running" /\ ~kernel.inkernel /\ mon.monitors_initialized
    /\ live.use_psi => live.use_new_strategy \/ mon.thresholds = Fresh.thresholds
    => \E o \in init_monitors(Fresh, live.use_psi, live.use_new_strategy) :
         o.ok /\ Watched(o.m) = Watched(mon)

(* direct_reclaim_threshold_ms is in force only with a listener that       *)
(* reports direct reclaim, once boot completion was handled or properties  *)
(* were reloaded; and it is then the one asked for, unless the last reload *)
(* came before boot completion was handled and set it to 0.                *)
DirectReclaimWatched ==
    daemon = "running" =>
      /\ (boot_completed_handled \/ early) /\ threshold > 0 => listener
      /\ listener /\ ~early => threshold = props.direct_reclaim_threshold_ms

(* "setting persist.device_config.* property either triggers immediate     *)
(* lmkd re-initialization if the device finished booting or [...] after    *)
(* boot completes": of the properties that have a trigger, lmkd keeps the  *)
(* values they have, or it is being told, or will be after boot, unless it *)
(* was told between update_props and listen and not since.  A change of    *)
(* the others waits for the next reload or restart.                        *)
ChangesTakeEffect ==
    daemon # "down" /\ ~missed =>
      \/ \A n \in Triggers : props[n] = sysprops[n]
      \/ "reinit" \in toSend \cup requests
      \/ reinit /\ ~boot

(* After boot every lmkd that stays up gets to monitor memory pressure,    *)
(* also when LMK_START_MONITORING came while it was starting (init listens *)
(* before it reads sys.boot_completed) or in the middle of a reload.       *)
MonitoredAfterBoot ==
    (daemon # "down" /\ boot /\ ~kernel.inkernel)
      ~> (daemon = "down" \/ mon.monitors_initialized)
=============================================================================
