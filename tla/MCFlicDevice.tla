----------------------------- MODULE MCFlicDevice -----------------------------
(***************************************************************************)
(* The instances of FlicDevice that TLC checks.  Two task slots let a done  *)
(* callback of one task meet a newer task; two clients let a replaced       *)
(* client meet its replacement.                                             *)
(***************************************************************************)
EXTENDS FlicDevice, TLC

\* Clients and tasks are interchangeable; used for the safety run only.
Symmetry == Permutations(Clients) \cup Permutations(Tasks)
=============================================================================
