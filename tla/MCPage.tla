------------------------------- MODULE MCPage -------------------------------
(***************************************************************************)
(* Instances of Page for TLC.                                              *)
(***************************************************************************)
EXTENDS Page

\* Switching off is asked about first.
MCRisky == Controls \X {0}

=============================================================================
