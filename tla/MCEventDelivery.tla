--------------------------- MODULE MCEventDelivery ---------------------------
(***************************************************************************)
(* The instances of EventDelivery that TLC checks.                          *)
(***************************************************************************)
EXTENDS EventDelivery, TLC

\* Sessions are interchangeable; used for the safety run only.
Symmetry == Permutations(Sessions)

Budget(press, crash, unload, loss, reboot, calm) ==
    [press |-> press, crash |-> crash, unload |-> unload, loss |-> loss,
     reboot |-> reboot, calm |-> calm]

\* Two faults of one boot in every combination, a crash and a reload around a
\* reboot, and calm runs, where nothing is handled twice.
SafetyBudgets ==
    {Budget(2, 1, 1, 0, 0, FALSE), Budget(2, 0, 1, 1, 0, FALSE), Budget(2, 1, 0, 1, 0, FALSE),
     Budget(1, 1, 1, 0, 1, FALSE), Budget(1, 0, 1, 1, 1, TRUE),
     Budget(2, 0, 0, 1, 1, TRUE), Budget(2, 0, 1, 1, 0, TRUE)}
LiveBudgets == {Budget(2, 0, 0, 1, 0, FALSE)}
NoFaults == {Budget(1, 0, 0, 0, 0, FALSE)}
=============================================================================
