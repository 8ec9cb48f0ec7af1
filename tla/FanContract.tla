----------------------------- MODULE FanContract -----------------------------
(***************************************************************************)
(* What the output stage promises of the heater fan, whatever it is asked: *)
(*  - no resistor is on while the fan is off;                              *)
(*  - a resistor comes on only after the fan has run for the prestart;     *)
(*  - once there was heat, or a heating chain that could have made some,   *)
(*    cooling is owed, and the fan does not go off before the cooling time *)
(*    has passed without heat.                                             *)
(* Nothing else is said: the fan may run longer, and heat need not come.   *)
(***************************************************************************)
EXTENDS Naturals

CONSTANTS Elapsed,  \* the lengths a tick may have
          Forever   \* where a timer saturates

VARIABLES
  heat,    \* some resistor is on
  fan,     \* the heater fan is on
  ran,     \* how long the fan has been on without a break
  owed,    \* the fan has to go on cooling
  cooled,  \* time credited to that cooling
  limits   \* the prestart and the cooling time in force

vars == <<heat, fan, ran, owed, cooled, limits>>

Add(t, dt) == IF t + dt > Forever THEN Forever ELSE t + dt

LimitType == [prestart : Nat, cool : Nat]

Init ==
  /\ heat = FALSE
  /\ fan = FALSE
  /\ ran = 0
  /\ owed \in BOOLEAN
  /\ cooled = 0
  /\ limits \in LimitType

\* A tick of length dt.
Tick(dt) ==
  /\ heat' => fan' /\ owed'
  /\ ~heat /\ heat' => fan /\ ran >= limits.prestart
  /\ owed' => fan'
  /\ ran' = IF ~fan' THEN 0 ELSE IF fan THEN Add(ran, dt) ELSE Add(0, dt)
  /\ owed /\ ~owed' => ~heat' /\ cooled' >= limits.cool
  /\ cooled' <= Add(cooled, dt)
  /\ heat => cooled' = 0
  /\ heat' => cooled' = 0
  /\ UNCHANGED limits

\* New parameters, between two ticks.
Relimit ==
  /\ limits' \in LimitType
  /\ UNCHANGED <<heat, fan, ran, owed, cooled>>

Next == Relimit \/ \E dt \in Elapsed : Tick(dt)

Spec == Init /\ [][Next]_vars

=============================================================================
