------------------------------ MODULE MCHeating ------------------------------
(***************************************************************************)
(* Instances of Heating for TLC.                                           *)
(***************************************************************************)
EXTENDS Heating

PowerConfig(w, minOn, minOff, dwell, p1, p2) ==
  [window |-> w, minOn |-> minOn, minOff |-> minOff, on2 |-> 55, off2 |-> 45,
   dwell |-> dwell, power |-> [r \in R |-> IF r = "R1" THEN p1 ELSE p2],
   daily |-> TRUE]

\* Solid-state relays: short windows, and a dwell longer than the prestart and
\* the minimum off time.  Equal resistors, and a small second one.
Ssr == {PowerConfig(4, 1, 1, 2, 0, 0), PowerConfig(3, 1, 1, 2, 2, 1)}

\* The default timing of the RELAY driver in minutes: the minimum off time is
\* longer than the dwell.
Relay == {PowerConfig(10, 2, 3, 2, 0, 0)}

MCInterlockOf ==
  [c \in Ssr \union Relay |->
     [prestart |-> IF c \in Relay THEN 0 ELSE 1, rMinOn |-> c.minOn,
      rMinOff |-> c.minOff, hfMinOn |-> 0, hfMinOff |-> 0, vfMinOn |-> 0,
      vfMinOff |-> 0, pcMode |-> "TIME", pc |-> 1, pcMin |-> 1, pcMax |-> 1]]

MCDemands == {0, 20, 80, 100}

=============================================================================
