----------------------------- MODULE MCStrategy -----------------------------
EXTENDS OldStrategy

T(m, a) == [minfree |-> m, oom_adj_score |-> a]

(* Three targets whose text fits, three whose text does not, and one. *)
MCRequests == {
    <<T(5, 0), T(9, 0), T(30, 0)>>,
    <<T(21, 0), T(25, 100), T(30, 900)>>,
    <<T(30, 100)>> }

MCLevelAdj == [l \in Levels |-> CASE l = LOW -> KillAdjMax + 1 [] l = MEDIUM -> 900 [] OTHER -> 0]

Configured(psi, minfree, lowRam, upgrade) ==
    [use_psi_monitors |-> psi, use_minfree_levels |-> minfree, low_ram_device |-> lowRam,
     enable_pressure_upgrade |-> upgrade, kill_timeout |-> TRUE, pidfd_supported |-> psi,
     requests |-> IF minfree THEN MCRequests ELSE {}]

(* Eventfd counters and levels, PSI triggers and levels or minfree. *)
MCConfigs == {Configured(FALSE, FALSE, FALSE, TRUE), Configured(TRUE, FALSE, TRUE, FALSE),
              Configured(TRUE, TRUE, FALSE, FALSE)}
=============================================================================
