-------------------------------- MODULE Power --------------------------------
(***************************************************************************)
(* The power manager (PowerManager::step): from a heat demand in per cent  *)
(* to a stage, from the stage to a duty for each of two resistors, and     *)
(* from the duties to on/off requests by time-proportional windows.        *)
(*                                                                         *)
(* Time is counted in output ticks, and every step is one tick long.       *)
(* Demands and duties are whole per cents; a share of the power that is    *)
(* none is rounded down.                                                   *)
(***************************************************************************)
EXTENDS Integers

CONSTANTS PowerConfigs,  \* the PowerParams a valid configuration can give
          Forever        \* where a Timer saturates

R == {"R1", "R2"}

PowerConfigType ==
  [window : Nat \ {0}, minOn : Nat \ {0}, minOff : Nat \ {0}, on2 : 40 .. 90,
   off2 : 10 .. 85, dwell : Nat, power : [R -> Nat], daily : BOOLEAN]

\* Rules 7, 8 and 9 of validateConfig, and the range of stage_min_dwell_s.  As
\* shares are whole per cents, no resistor has less than one of both's power.
ASSUME PowerConfigsAssumption ==
  /\ Forever \in Nat \ {0} /\ PowerConfigs \subseteq PowerConfigType
  /\ \A c \in PowerConfigs :
       /\ c.off2 + 5 <= c.on2 /\ c.minOn + c.minOff <= c.window /\ c.dwell <= Forever
       /\ \A r \in R : c.power[r] > 0 => c.power["R1"] + c.power["R2"] <= 100 * c.power[r]

VARIABLES
  pp,       \* p_: the parameters in force
  stage,    \* stage_
  stageT,   \* stage_t_
  lead,     \* lead_
  pending,  \* rotate_pending_
  ch,       \* ch_: a window's position, on-time and whether it runs
  req       \* prev_req_: the requests of the last step

powerVars == <<pp, stage, stageT, lead, pending, ch, req>>

-----------------------------------------------------------------------------
Other(r) == CHOOSE s \in R : s # r

Unequal(c) == c.power["R1"] > 0 /\ c.power["R2"] > 0 /\ c.power["R1"] # c.power["R2"]
Smaller(c) == IF c.power["R1"] <= c.power["R2"] THEN "R1" ELSE "R2"

\* autoLead
AutoLead(c, l) == IF Unequal(c) THEN Smaller(c) ELSE l

\* stage1Capacity, in per cent: what the lead resistor alone can give
Capacity ==
  IF Unequal(pp) THEN (100 * pp.power[lead]) \div (pp.power["R1"] + pp.power["R2"])
                 ELSE 50

\* The on-time of a window; no pulse shorter than minOn, no gap than minOff
Quantize(duty) ==
  LET W  == pp.window
      on == (2 * duty * W + 100) \div 200
  IN  IF duty <= 0 \/ on < pp.minOn THEN 0
      ELSE IF W - on < pp.minOff THEN W
      ELSE on

\* A slip: a Timer that does not saturate.
AgeUnsaturated == stageT + 1

\* Timer::add, for the time in the present stage
Age == IF stageT < Forever THEN stageT + 1 ELSE stageT
Dwelt == Age >= pp.dwell

\* Stages follow the demand d with a hysteresis, and change between 1 and 2
\* only after the dwell; no demand stops at once.
NextStage(d) ==
  IF d <= 0 THEN 0
  ELSE IF stage = 0 THEN 1
  ELSE IF stage = 1 /\ Dwelt /\ d >= Capacity + pp.on2 - 50 THEN 2
  ELSE IF stage = 2 /\ Dwelt /\ d <= Capacity - 50 + pp.off2 THEN 1
  ELSE stage

\* The lead changes when there is no demand.
Pending(rotate) == pending \/ (rotate /\ pp.daily /\ ~Unequal(pp))

\* A slip: the rotation does not wait for the end of the demand.
RotatesAtOnce(rotate, d) == Pending(rotate)
Rotates(rotate, d) == Pending(rotate) /\ NextStage(d) = 0
NextLead(rotate, d) == IF Rotates(rotate, d) THEN Other(lead) ELSE lead

Clamp(x) == IF x < 0 THEN 0 ELSE IF x > 100 THEN 100 ELSE x

\* The duties of stage s; l leads
Duty(s, l, d) ==
  [r \in R |-> IF s = 0 THEN 0
               ELSE IF r = l THEN IF s = 2 THEN 100 ELSE Clamp((100 * d) \div Capacity)
               ELSE IF s = 2 THEN Clamp((100 * (d - Capacity)) \div (100 - Capacity))
               ELSE 0]

\* A slip: a change to full power waits for the end of the window, too.
NextChannelLatched(c, duty, other) ==
  LET W   == pp.window
      pos == c.pos + 1
  IN  IF duty <= 0 THEN [c EXCEPT !.on = 0, !.active = FALSE]
      ELSE IF ~c.active
      THEN [pos |-> IF other.active THEN (other.pos + W \div 2) % W ELSE 0,
            on |-> Quantize(duty), active |-> TRUE]
      ELSE [pos |-> pos % W, on |-> IF pos >= W THEN Quantize(duty) ELSE c.on,
            active |-> TRUE]

\* A channel's window starts half a window after the other one's, goes on, and
\* takes a new duty at its end (or at once when that is full power).
NextChannel(c, duty, other) ==
  LET W   == pp.window
      pos == c.pos + 1
  IN  IF duty <= 0 THEN [c EXCEPT !.on = 0, !.active = FALSE]
      ELSE IF ~c.active
      THEN [pos |-> IF other.active THEN (other.pos + W \div 2) % W ELSE 0,
            on |-> Quantize(duty), active |-> TRUE]
      ELSE [pos |-> pos % W,
            on |-> IF pos >= W \/ (duty >= 100 /\ c.on < W) THEN Quantize(duty) ELSE c.on,
            active |-> TRUE]

\* The loop over the channels: the second one sees the first one's new window.
NextChannels(duty) ==
  LET c1 == NextChannel(ch["R1"], duty["R1"], ch["R2"])
  IN  [r \in R |-> IF r = "R1" THEN c1 ELSE NextChannel(ch["R2"], duty["R2"], c1)]

InWindow(c) == c.on > 0 /\ c.pos < c.on

\* A slip: the follower waits for a request of its own.
RequestsShy(c, l) ==
  [r \in R |-> InWindow(c[r]) /\ (r = l \/ ~InWindow(c[l]) \/ req[r])]

\* Two loads are not asked for in the same tick: the follower waits for one.
Requests(c, l) ==
  [r \in R |-> /\ InWindow(c[r])
               /\ r = l \/ ~InWindow(c[l]) \/ \E s \in R : req[s]]

-----------------------------------------------------------------------------
PowerInit ==
  /\ pp \in PowerConfigs
  /\ stage = 0
  /\ stageT = 0
  /\ lead = AutoLead(pp, "R1")
  /\ pending = FALSE
  /\ ch = [r \in R |-> [pos |-> IF r = "R2" THEN pp.window \div 2 ELSE 0,
                        on |-> 0, active |-> FALSE]]
  /\ req = [r \in R |-> FALSE]

\* PowerManager::step for a demand of d per cent, 0 when not enabled
PowerStep(d, rotate) ==
  /\ stage' = NextStage(d)
  /\ stageT' = IF stage' # stage THEN 0 ELSE Age
  /\ lead' = NextLead(rotate, d)
  /\ pending' = (Pending(rotate) /\ stage' # 0)
  /\ ch' = NextChannels(Duty(stage', lead', d))
  /\ req' = Requests(ch', lead')
  /\ UNCHANGED pp

\* PowerManager::setParams
SetPower(c) ==
  /\ pp' = c
  /\ lead' = AutoLead(c, lead)
  /\ UNCHANGED <<stage, stageT, pending, ch, req>>

-----------------------------------------------------------------------------
\* The types of the state.
PowerTypeOK ==
  /\ pp \in PowerConfigs
  /\ stage \in 0 .. 2 /\ stageT \in 0 .. Forever
  /\ lead \in R /\ pending \in BOOLEAN
  /\ ch \in [R -> [pos : Nat, on : Nat, active : BOOLEAN]]
  /\ req \in [R -> BOOLEAN]

=============================================================================
