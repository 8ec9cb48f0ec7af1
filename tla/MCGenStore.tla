------------------------------ MODULE MCGenStore ------------------------------
(***************************************************************************)
(* Instances of GenStore for TLC.                                          *)
(***************************************************************************)
EXTENDS GenStore

MCPayloads == {"A", "B"}

=============================================================================
