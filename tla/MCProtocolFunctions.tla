-------------------------- MODULE MCProtocolFunctions --------------------------
(***************************************************************************)
(* The instance of ProtocolFunctions that TLC checks.                      *)
(***************************************************************************)
EXTENDS ProtocolFunctions

\* One button through every action; two buttons whose updates interleave.
OneAndTwoButtons ==
    {[pressed |-> {0}, updates |-> 6, note |-> 5],
     [pressed |-> {0, 1}, updates |-> 4, note |-> 3]}
=============================================================================
