---------------------------- MODULE HeatingProofs ----------------------------
(***************************************************************************)
(* Proofs about Heating, for every set of configurations and of demands:   *)
(* its type invariant, that the second resistor only adds to the first,    *)
(* that heat does not move from one to the other, and that whatever is     *)
(* asked for, the engine behind keeps heat under the fan.                  *)
(***************************************************************************)
EXTENDS Heating, TLAPS

Channel == [pos : Nat, on : Nat, active : BOOLEAN]

LEMMA OtherFacts ==
  ASSUME NEW r \in R
  PROVE  Other(r) \in R /\ Other(r) # r
<1>1. \E s \in R : s # r
  BY DEF R
<1> QED
  BY <1>1 DEF Other

(* What there is to know of the parameters.                                *)
LEMMA ConfigFacts ==
  ASSUME PowerTypeOK
  PROVE  /\ pp.window \in Nat \ {0} /\ pp.minOn \in Nat \ {0} /\ pp.minOff \in Nat \ {0}
         /\ pp.minOn <= pp.window
         /\ pp.power["R1"] \in Nat /\ pp.power["R2"] \in Nat
         /\ \A r \in R : pp.power[r] > 0 =>
                           pp.power["R1"] + pp.power["R2"] <= 100 * pp.power[r]
<1>1. pp \in PowerConfigs /\ pp \in PowerConfigType
  BY PowerConfigsAssumption DEF PowerTypeOK
<1>2. pp.power \in [R -> Nat]
  BY <1>1 DEF PowerConfigType
<1>3. /\ pp.window \in Nat \ {0} /\ pp.minOn \in Nat \ {0} /\ pp.minOff \in Nat \ {0}
  BY <1>1 DEF PowerConfigType
<1>4. /\ pp.minOn + pp.minOff <= pp.window
      /\ \A r \in R : pp.power[r] > 0 =>
                        pp.power["R1"] + pp.power["R2"] <= 100 * pp.power[r]
  BY <1>1, PowerConfigsAssumption
<1> QED
  BY <1>2, <1>3, <1>4 DEF R

(* A part of a whole in per cent, where the part is at least one of it.    *)
LEMMA Share ==
  ASSUME NEW p \in Nat, NEW q \in Nat \ {0}, p < q, q <= 100 * p
  PROVE  (100 * p) \div q \in 1 .. 99
OBVIOUS

LEMMA CapacityRange ==
  ASSUME PowerTypeOK
  PROVE  Capacity \in 1 .. 99
<1>1. CASE ~Unequal(pp)
  BY <1>1 DEF Capacity
<1>2. CASE Unequal(pp)
  <2> DEFINE p == pp.power[lead]
             q == pp.power["R1"] + pp.power["R2"]
  <2>1. /\ p \in Nat /\ q \in Nat \ {0}
        /\ p < q /\ q <= 100 * p
    BY <1>2, ConfigFacts DEF Unequal, PowerTypeOK, R
  <2>2. (100 * p) \div q \in 1 .. 99
    BY <2>1, Share
  <2> QED
    BY <1>2, <2>2 DEF Capacity
<1> QED
  BY <1>1, <1>2

LEMMA DivInt ==
  ASSUME NEW a \in Int, NEW b \in 1 .. 99
  PROVE  a \div b \in Int
OBVIOUS

LEMMA ClampRange ==
  ASSUME NEW x \in Int
  PROVE  Clamp(x) \in 0 .. 100
BY DEF Clamp

LEMMA DutyType ==
  ASSUME PowerTypeOK, NEW s \in 0 .. 2, NEW l \in R, NEW d \in 0 .. 100
  PROVE  Duty(s, l, d) \in [R -> 0 .. 100]
<1>1. /\ Clamp((100 * d) \div Capacity) \in 0 .. 100
      /\ Clamp((100 * (d - Capacity)) \div (100 - Capacity)) \in 0 .. 100
  <2>1. Capacity \in 1 .. 99 /\ 100 - Capacity \in 1 .. 99
    BY CapacityRange
  <2>2. 100 * d \in Int /\ 100 * (d - Capacity) \in Int
    BY <2>1
  <2> QED
    BY <2>1, <2>2, DivInt, ClampRange
<1> DEFINE u == Clamp((100 * d) \div Capacity)
           v == Clamp((100 * (d - Capacity)) \div (100 - Capacity))
<1>2. Duty(s, l, d) = [r \in R |-> IF s = 0 THEN 0
                                  ELSE IF r = l THEN IF s = 2 THEN 100 ELSE u
                                  ELSE IF s = 2 THEN v ELSE 0]
  BY DEF Duty
<1>3. u \in 0 .. 100 /\ v \in 0 .. 100
  BY <1>1
<1> HIDE DEF u, v
<1> QED
  BY <1>2, <1>3

(* The lead runs at full power in stage 2, and the other one only then.    *)
LEMMA FullDuty ==
  ASSUME NEW l \in R, NEW d
  PROVE  Duty(2, l, d)[l] = 100
BY DEF Duty

LEMMA NoDuty ==
  ASSUME NEW s, s # 2, NEW l \in R, NEW d
  PROVE  Duty(s, l, d)[Other(l)] = 0
BY OtherFacts DEF Duty

(* On-times: full power takes the whole window.                            *)
LEMMA QuantizeFacts ==
  ASSUME PowerTypeOK, NEW duty \in 0 .. 100
  PROVE  Quantize(duty) \in Nat /\ (duty = 100 => Quantize(duty) = pp.window)
<1>1. 2 * duty * pp.window \in Nat
  BY ConfigFacts
<1>2. (2 * duty * pp.window + 100) \div 200 \in Nat
  <2>1. \A n \in Nat : (n + 100) \div 200 \in Nat
    OBVIOUS
  <2> QED
    BY <1>1, <2>1
<1>3. duty = 100 => (2 * duty * pp.window + 100) \div 200 = pp.window
  <2>1. \A n \in Nat : (2 * 100 * n + 100) \div 200 = n
    OBVIOUS
  <2> QED
    BY <2>1, ConfigFacts
<1> QED
  BY <1>2, <1>3, ConfigFacts DEF Quantize

(* A channel that is stopped.                                              *)
LEMMA Stopped ==
  ASSUME NEW c \in Channel
  PROVE  /\ [c EXCEPT !.on = 0, !.active = FALSE] \in Channel
         /\ [c EXCEPT !.on = 0, !.active = FALSE].on = 0
BY DEF Channel

(* A channel without a duty gives nothing, one with a full duty never      *)
(* leaves its on-time, whatever window it comes from.                      *)
LEMMA ChannelFacts ==
  ASSUME PowerTypeOK, NEW duty \in 0 .. 100, NEW c \in Channel, NEW other \in Channel
  PROVE  /\ NextChannel(c, duty, other) \in Channel
         /\ duty = 0 => ~InWindow(NextChannel(c, duty, other))
         /\ duty = 100 => InWindow(NextChannel(c, duty, other))
<1> DEFINE W == pp.window
           n == NextChannel(c, duty, other)
<1>1. W \in Nat \ {0} /\ Quantize(duty) \in Nat /\ (duty = 100 => Quantize(duty) = W)
  BY ConfigFacts, QuantizeFacts
<1>2. /\ c.pos \in Nat /\ c.on \in Nat /\ c.active \in BOOLEAN
      /\ other.pos \in Nat /\ other.active \in BOOLEAN
  BY DEF Channel
<1>3. \A k \in Nat : k % W \in 0 .. W - 1
  BY <1>1
<1>4. CASE duty = 0
  <2>1. n = [c EXCEPT !.on = 0, !.active = FALSE]
    BY <1>4 DEF NextChannel
  <2>2. n \in Channel /\ n.on = 0
    BY <2>1, Stopped
  <2>3. ~InWindow(n)
    BY <2>2 DEF InWindow
  <2> QED
    BY <1>4, <2>2, <2>3
<1>5. CASE duty # 0 /\ ~c.active
  <2> DEFINE at == IF other.active THEN (other.pos + W \div 2) % W ELSE 0
  <2>1. n = [pos |-> at, on |-> Quantize(duty), active |-> TRUE]
    BY <1>5 DEF NextChannel
  <2>2. other.pos + W \div 2 \in Nat
    BY <1>1, <1>2
  <2>3. at \in 0 .. W - 1
    BY <1>1, <1>3, <2>2
  <2> QED
    BY <1>1, <1>5, <2>1, <2>3 DEF Channel, InWindow
<1>6. CASE duty # 0 /\ c.active
  <2> DEFINE on == IF c.pos + 1 >= W \/ (duty >= 100 /\ c.on < W) THEN Quantize(duty) ELSE c.on
  <2>1. n = [pos |-> (c.pos + 1) % W, on |-> on, active |-> TRUE]
    BY <1>6 DEF NextChannel
  <2>2. (c.pos + 1) % W \in 0 .. W - 1
    BY <1>2, <1>3
  <2>3. on \in Nat /\ (duty = 100 => on >= W)
    BY <1>1, <1>2
  <2> HIDE DEF on
  <2> QED
    BY <1>1, <1>6, <2>1, <2>2, <2>3 DEF Channel, InWindow
<1> QED
  BY <1>4, <1>5, <1>6

LEMMA ChannelsFacts ==
  ASSUME PowerTypeOK, NEW duty \in [R -> 0 .. 100]
  PROVE  /\ NextChannels(duty) \in [R -> Channel]
         /\ \A r \in R : /\ duty[r] = 0 => ~InWindow(NextChannels(duty)[r])
                         /\ duty[r] = 100 => InWindow(NextChannels(duty)[r])
<1> DEFINE c1 == NextChannel(ch["R1"], duty["R1"], ch["R2"])
           c2 == NextChannel(ch["R2"], duty["R2"], c1)
<1>1. ch["R1"] \in Channel /\ ch["R2"] \in Channel /\ duty["R1"] \in 0 .. 100 /\ duty["R2"] \in 0 .. 100
  BY DEF PowerTypeOK, R, Channel
<1>2. /\ c1 \in Channel /\ (duty["R1"] = 0 => ~InWindow(c1)) /\ (duty["R1"] = 100 => InWindow(c1))
  BY <1>1, ChannelFacts
<1> HIDE DEF c1
<1>3. /\ c2 \in Channel /\ (duty["R2"] = 0 => ~InWindow(c2)) /\ (duty["R2"] = 100 => InWindow(c2))
  BY <1>1, <1>2, ChannelFacts
<1>4. NextChannels(duty) = [r \in R |-> IF r = "R1" THEN c1 ELSE c2]
  BY DEF NextChannels, c1
<1> HIDE DEF c2
<1> QED
  BY <1>2, <1>3, <1>4 DEF R

-----------------------------------------------------------------------------
(* A step of the power manager: its types, and who is asked for heat.      *)
LEMMA PowerStepFacts ==
  ASSUME PowerTypeOK, NEW d \in 0 .. 100, NEW rotate \in BOOLEAN, PowerStep(d, rotate)
  PROVE  /\ PowerTypeOK'
         /\ req'[Other(lead')] => req'[lead'] /\ stage' = 2
         /\ stage' # 0 => lead' = lead
<1>1. stage' \in 0 .. 2
  BY DEF PowerStep, NextStage, PowerTypeOK
<1>2. stageT' \in 0 .. Forever
  BY PowerConfigsAssumption DEF PowerStep, Age, PowerTypeOK
<1>3. lead' \in R /\ (stage' # 0 => lead' = lead)
  BY OtherFacts DEF PowerStep, NextLead, Rotates, PowerTypeOK
<1>4. pending' \in BOOLEAN
  BY DEF PowerStep, Pending, PowerTypeOK
<1>5. PICK s \in 0 .. 2 : s = stage'
  BY <1>1
<1>6. PICK l \in R : l = lead'
  BY <1>3
<1> DEFINE duty == Duty(s, l, d)
           o    == Other(l)
           next == NextChannels(duty)
<1>7. /\ duty \in [R -> 0 .. 100]
      /\ s = 2 => duty[l] = 100
      /\ s # 2 => duty[o] = 0
  <2> HIDE DEF duty, o
  <2>1. duty \in [R -> 0 .. 100]
    BY DutyType DEF duty
  <2>2. CASE s = 2
    BY <2>1, <2>2, FullDuty DEF duty
  <2>3. CASE s # 2
    BY <2>1, <2>3, NoDuty DEF duty, o
  <2> QED
    BY <2>2, <2>3
<1>8. ch' = next /\ req' = Requests(next, l)
  BY <1>5, <1>6 DEF PowerStep
<1> HIDE DEF duty
<1>9. /\ next \in [R -> Channel]
      /\ \A r \in R : /\ duty[r] = 0 => ~InWindow(next[r])
                      /\ duty[r] = 100 => InWindow(next[r])
  BY <1>7, ChannelsFacts
<1> HIDE DEF next
<1>10. req' \in [R -> BOOLEAN]
  BY <1>8 DEF Requests
<1>11. req'[o] => req'[l] /\ s = 2
  <2> SUFFICES ASSUME req'[o] PROVE req'[l] /\ s = 2
    OBVIOUS
  <2>1. o \in R /\ InWindow(next[o])
    BY <1>8, OtherFacts DEF Requests
  <2>2. s = 2
    <3>1. duty[o] # 0
      BY <1>9, <2>1
    <3> QED
      BY <1>7, <3>1
  <2>3. InWindow(next[l])
    BY <1>7, <1>9, <2>2
  <2> QED
    BY <1>8, <2>2, <2>3 DEF Requests
<1>12. pp' \in PowerConfigs
  BY DEF PowerStep, PowerTypeOK
<1>13. PowerTypeOK'
  BY <1>1, <1>2, <1>3, <1>4, <1>8, <1>9, <1>10, <1>12 DEF PowerTypeOK, Channel
<1> QED
  BY <1>3, <1>5, <1>6, <1>11, <1>13

-----------------------------------------------------------------------------
(* The types, inductive as they stand.                                     *)
HInv == run \in BOOLEAN /\ PowerTypeOK

LEMMA LeadType ==
  ASSUME NEW c, NEW l \in R
  PROVE  AutoLead(c, l) \in R
BY DEF AutoLead, Smaller, R

LEMMA InitHInv == Init => HInv
<1> SUFFICES ASSUME Init PROVE HInv
  OBVIOUS
<1>1. pp \in PowerConfigs /\ pp.window \in Nat
  BY PowerConfigsAssumption DEF Init, PowerInit, PowerConfigType
<1>2. lead \in R
  BY LeadType DEF Init, PowerInit, R
<1>3. ch \in [R -> [pos : Nat, on : Nat, active : BOOLEAN]]
  <2>1. pp.window \div 2 \in Nat
    BY <1>1
  <2> QED
    BY <2>1 DEF Init, PowerInit
<1>4. stage \in 0 .. 2 /\ stageT \in 0 .. Forever
  BY PowerConfigsAssumption DEF Init, PowerInit
<1> QED
  BY <1>1, <1>2, <1>3, <1>4 DEF Init, PowerInit, HInv, PowerTypeOK

LEMMA Asked ==
  ASSUME NEW d \in Demands
  PROVE  (IF run THEN d ELSE 0) \in 0 .. 100
BY HeatingAssumption

LEMMA CommitHInv ==
  ASSUME HInv, NEW c \in PowerConfigs, Commit(c)
  PROVE  HInv'
<1>1. lead' \in R
  BY LeadType DEF Commit, SetPower, HInv, PowerTypeOK
<1> QED
  BY <1>1 DEF Commit, SetPower, HInv, PowerTypeOK

LEMMA NextHInv == HInv /\ [Next]_vars => HInv'
<1> SUFFICES ASSUME HInv, [Next]_vars PROVE HInv'
  OBVIOUS
<1>1. ASSUME NEW d \in Demands, NEW locked \in BOOLEAN, NEW rotate \in BOOLEAN,
             OutputTick(d, locked, rotate)
      PROVE  HInv'
  BY <1>1, Asked, PowerStepFacts DEF OutputTick, HInv
<1>2. ASSUME NEW c \in PowerConfigs, Commit(c)
      PROVE  HInv'
  BY <1>2, CommitHInv
<1>3. CASE UNCHANGED vars
  BY <1>3 DEF vars, powerVars, HInv, PowerTypeOK
<1> QED
  BY <1>1, <1>2, <1>3 DEF Next, SomeTick

LEMMA Invariance == Spec => []HInv
BY InitHInv, NextHInv, PTL DEF Spec

-----------------------------------------------------------------------------
(* What asks for heat is an environment that Interlock allows for, so that *)
(* what is proved of it there holds here.                                  *)
E == INSTANCE InterlockProofs WITH Configs <- EngineConfigs, Inputs <- HeatInputs

(* Interlock's assumptions.                                                *)
LEMMA Environment ==
  /\ Forever \in Nat \ {0}
  /\ HeatInputs \subseteq E!InputType
  /\ EngineConfigs \subseteq E!ConfigType
  /\ \A c \in EngineConfigs : 0 < c.pcMin /\ c.pcMin <= c.pc /\ c.pc <= c.pcMax
<1>1. HeatInputs \subseteq E!InputType
  <2> SUFFICES ASSUME NEW chain \in BOOLEAN, NEW blocked \in BOOLEAN, NEW on \in SUBSET R
               PROVE  HeatInput(chain, blocked, on) \in E!InputType
    BY DEF HeatInputs
  <2>1. [r \in R |-> r \in on] \in [R -> BOOLEAN]
    OBVIOUS
  <2> QED
    BY <2>1 DEF HeatInput, E!InputType, E!R, R
<1>2. EngineConfigs \subseteq E!ConfigType
  BY InterlockOfAssumption
     DEF EngineConfigs, E!ConfigType, E!CoolModes, Engine!ConfigType, Engine!CoolModes
<1>3. \A c \in EngineConfigs : 0 < c.pcMin /\ c.pcMin <= c.pc /\ c.pc <= c.pcMax
  BY InterlockOfAssumption DEF EngineConfigs
<1> QED
  BY <1>1, <1>2, <1>3, PowerConfigsAssumption

(* The two instances of Interlock say the same.                            *)
LEMMA SameStep ==
  ASSUME NEW in
  PROVE  Engine!OutputStep(in) => E!OutputStep(in)
BY DEF Engine!OutputStep, Engine!NextEff, Engine!NextHF, Engine!NextVF, Engine!NextR,
       Engine!MinTimed, Engine!Hot, Engine!StillCooling, Engine!Cooling, Engine!CoolTime,
       Engine!CoolDone, Engine!BootCooling, Engine!Chain, Engine!Blocked, Engine!FanReady,
       Engine!Want, Engine!Add, Engine!Guarded, Engine!GuardHF, Engine!Out, Engine!R,
       E!OutputStep, E!NextEff, E!NextHF, E!NextVF, E!NextR, E!MinTimed, E!Hot,
       E!StillCooling, E!Cooling, E!CoolTime, E!CoolDone, E!BootCooling, E!Chain,
       E!Blocked, E!FanReady, E!Want, E!Add, E!Guarded, E!GuardHF, E!Out, E!R

LEMMA TickIsOutputStep ==
  ASSUME NEW d \in Demands, NEW locked \in BOOLEAN, NEW rotate \in BOOLEAN,
         OutputTick(d, locked, rotate)
  PROVE  E!Next
<1> DEFINE asked == IF run THEN d ELSE 0
           chain == asked > 0
           blocked == locked \/ ~run
           on == {r \in R : req'[r]}
<1>1. chain \in BOOLEAN /\ blocked \in BOOLEAN /\ on \in SUBSET R
  BY Asked
<1>2. E!OutputStep(HeatInput(chain, blocked, on))
  BY SameStep DEF OutputTick
<1> HIDE DEF chain, blocked, on
<1>3. HeatInput(chain, blocked, on) \in HeatInputs
  BY <1>1 DEF HeatInputs
<1> QED
  BY <1>2, <1>3 DEF E!Next

(* Power manager and engine together are an Interlock: the power manager   *)
(* asks for nothing Interlock does not allow for, and does not reach past  *)
(* its inputs.                                                             *)
THEOREM ImplementsInterlock == Spec => E!Spec
<1>1. Init => E!Init
  BY DEF Init, Engine!Init, Engine!Out, Engine!R, E!Init, E!Out, E!R
<1>2. [Next]_vars => [E!Next]_(E!vars)
  <2> SUFFICES ASSUME [Next]_vars PROVE [E!Next]_(E!vars)
    OBVIOUS
  <2>1. ASSUME NEW d \in Demands, NEW locked \in BOOLEAN, NEW rotate \in BOOLEAN,
               OutputTick(d, locked, rotate)
        PROVE  E!Next
    BY <2>1, TickIsOutputStep
  <2>2. ASSUME NEW c \in PowerConfigs, Commit(c)
        PROVE  E!Next
    BY <2>2 DEF Commit, EngineConfigs, Engine!SetParams, E!SetParams, E!Next
  <2>3. CASE UNCHANGED vars
    BY <2>3 DEF vars, engineVars, E!vars
  <2> QED
    BY <2>1, <2>2, <2>3 DEF Next, SomeTick
<1> QED
  BY <1>1, <1>2, PTL DEF Spec, E!Spec

(* So the fan covers the heat, before, during and after it, whatever the   *)
(* demands are that the power manager turns into requests.                 *)
THEOREM KeepsFanContract == Spec => E!FanContractHolds
<1>1. E!Spec => E!FanContractHolds
  BY Environment, E!ImplementsFanContract
<1> QED
  BY <1>1, ImplementsInterlock, PTL

(* The state keeps its types, whatever the configurations and demands.     *)
THEOREM TypeCorrect == Spec => []TypeOK
<1>1. E!TypeOK => Engine!TypeOK
  BY DEF E!TypeOK, E!Out, E!R, Engine!TypeOK, Engine!Out, Engine!R
<1>2. HInv /\ E!TypeOK => TypeOK
  BY <1>1 DEF HInv, TypeOK
<1>3. E!Spec => []E!TypeOK
  BY Environment, E!TypeCorrect
<1> QED
  BY <1>2, <1>3, Invariance, ImplementsInterlock, PTL

-----------------------------------------------------------------------------
(* OUTPUT_AND_INTERLOCKS 3.1: whenever a tick asks for the second resistor *)
(* it asks for the lead, too, for any windows, powers and changes of both. *)
THEOREM FollowerNeverAlone == Spec => FollowerOnlyAdds
<1> DEFINE Adds == ch' # ch => (req'[Other(lead')] => req'[lead'] /\ stage' = 2)
<1>1. HInv /\ [Next]_vars => [Adds]_vars
  <2> SUFFICES ASSUME HInv, Next PROVE Adds
    OBVIOUS
  <2>1. ASSUME NEW d \in Demands, NEW locked \in BOOLEAN, NEW rotate \in BOOLEAN,
               OutputTick(d, locked, rotate)
        PROVE  Adds
    BY <2>1, Asked, PowerStepFacts DEF OutputTick, HInv
  <2>2. ASSUME NEW c \in PowerConfigs, Commit(c)
        PROVE  Adds
    BY <2>2 DEF Commit, SetPower
  <2> QED
    BY <2>1, <2>2 DEF Next, SomeTick
<1> QED
  BY <1>1, Invariance, PTL DEF Spec, FollowerOnlyAdds

(* OUTPUT_AND_INTERLOCKS 3.4: no rotation moves the heat while some is     *)
(* asked for, however long it has been waiting.                            *)
THEOREM LeadStays == Spec => LeadKeepsItsHeat
<1> DEFINE Keeps == ch' # ch /\ stage' # 0 => lead' = lead
<1>1. HInv /\ [Next]_vars => [Keeps]_vars
  <2> SUFFICES ASSUME HInv, Next PROVE Keeps
    OBVIOUS
  <2>1. ASSUME NEW d \in Demands, NEW locked \in BOOLEAN, NEW rotate \in BOOLEAN,
               OutputTick(d, locked, rotate)
        PROVE  Keeps
    BY <2>1, Asked, PowerStepFacts DEF OutputTick, HInv
  <2>2. ASSUME NEW c \in PowerConfigs, Commit(c)
        PROVE  Keeps
    BY <2>2 DEF Commit, SetPower
  <2> QED
    BY <2>1, <2>2 DEF Next, SomeTick
<1> QED
  BY <1>1, Invariance, PTL DEF Spec, LeadKeepsItsHeat

==============================================================================
