------------------------------- MODULE MCTasks -------------------------------
(***************************************************************************)
(* An instance of Tasks for TLC: a post-cool of one output period, a       *)
(* safety cycle every two.                                                 *)
(***************************************************************************)
EXTENDS Tasks

MCParams ==
  [prestart |-> 1, rMinOn |-> 0, rMinOff |-> 0, hfMinOn |-> 0, hfMinOff |-> 0,
   vfMinOn |-> 0, vfMinOff |-> 0, pcMode |-> "TIME", pc |-> 1, pcMin |-> 1,
   pcMax |-> 1]

\* The modulator switches the lead resistor on and off.
MCAsks == {{}, {"R1"}}

=============================================================================
