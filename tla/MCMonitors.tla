----------------------------- MODULE MCMonitors -----------------------------
EXTENDS Monitors

P(psi, new, partial, delay, ms, hook) ==
    [use_psi |-> psi, use_new_strategy |-> new, psi_partial_stall_ms |-> partial,
     psi_complete_stall_ms |-> 70, delay_monitors_until_boot |-> delay,
     direct_reclaim_threshold_ms |-> ms, hook |-> hook]

(* Both strategies, vmpressure, no partial stall, and a refused change; a   *)
(* change with a trigger (the first and the fourth), one without (the      *)
(* second and the third) and changes with both.                            *)
MCProps == {P(TRUE, TRUE, 0, FALSE, 0, TRUE), P(TRUE, FALSE, 0, TRUE, 10, TRUE),
            P(FALSE, FALSE, 0, FALSE, 10, TRUE), P(TRUE, TRUE, 200, FALSE, 0, TRUE),
            P(TRUE, TRUE, 200, FALSE, 10, FALSE)}

K(inkernel, v1, psi, common, memevents, reaper) ==
    [inkernel |-> inkernel, memcg_v1 |-> v1, psi |-> psi, vmpressure |-> common,
     memevents |-> memevents, reaper |-> reaper]

(* Anything that is set up may fail or not, no old cgroups, and an         *)
(* in-kernel low memory killer.                                            *)
MCKernels == {K(FALSE, TRUE, "maybe", "maybe", "maybe", "yes"),
              K(FALSE, FALSE, "yes", "no", "yes", "no"),
              K(TRUE, TRUE, "no", "yes", "no", "no")}
=============================================================================
