--------------------------- MODULE InterlockProofs ---------------------------
(***************************************************************************)
(* Proofs about Interlock, for every set of parameters and inputs: its     *)
(* type invariant, that the guard is transparent, that heat is covered by  *)
(* the fan, and that Interlock implements FanContract.                     *)
(***************************************************************************)
EXTENDS Interlock, TLAPS

USE ConfigsAssumption, InputsAssumption, ForeverAssumption

(* A timer stays within its range and never runs ahead of the clock.       *)
LEMMA AddType ==
  ASSUME NEW t \in 0 .. Forever, NEW dt \in Nat
  PROVE  Add(t, dt) \in 0 .. Forever /\ t <= Add(t, dt)
BY DEF Add

(* What one pass of the engine decides, output by output.                  *)
LEMMA NextEffFacts ==
  ASSUME NEW in
  PROVE  /\ NextEff(in) \in [Out -> BOOLEAN]
         /\ \A r \in R : NextEff(in)[r] <=> (NextR(in, r) /\ NextHF(in))
         /\ NextEff(in)["HF"] <=> NextHF(in)
BY DEF NextEff, Out, R, NextHF, NextVF, MinTimed, Hot, StillCooling

(* The guard passes on any state that keeps the fan on with the heat and   *)
(* turns a resistor on only where the fan was on already.                  *)
LEMMA GuardPasses ==
  ASSUME NEW d \in [Out -> BOOLEAN],
         \A r \in R : d[r] => d["HF"] /\ applied["HF"],
         \A r \in R : applied[r] => d["HF"]
  PROVE  Guarded(d) = d
<1>1. GuardHF(d) = d["HF"]
  BY DEF GuardHF, Out, R
<1> QED
  BY <1>1 DEF Guarded, Out, R

-----------------------------------------------------------------------------
(* The inductive invariant.  The guard remembers what the engine decided;  *)
(* while there is heat the fan is on and the heat is on record; a record   *)
(* of heat, too, keeps the fan on and excludes a post-cool.                *)
IInv ==
  /\ TypeOK
  /\ applied = eff
  /\ violation = FALSE
  /\ \A r \in R : eff[r] => wasHeating
  /\ wasHeating => eff["HF"] /\ ~postCool

LEMMA InitIInv == Init => IInv
<1> SUFFICES ASSUME Init PROVE IInv
  OBVIOUS
<1>1. held \in [Out -> 0 .. Forever] /\ pcT \in 0 .. Forever
  BY DEF Init
<1>2. \A r \in R : ~eff[r]
  BY DEF Init, Out
<1>3. TypeOK
  BY <1>1 DEF Init, TypeOK
<1> QED
  BY <1>2, <1>3 DEF Init, IInv

LEMMA StepTypes ==
  ASSUME IInv, NEW in \in Inputs, OutputStep(in)
  PROVE  TypeOK'
<1> USE DEF IInv
<1>1. in \in InputType /\ in.dt \in Nat
  BY DEF InputType
<1>2. eff' \in [Out -> BOOLEAN]
  BY NextEffFacts DEF OutputStep
<1>3. held' \in [Out -> 0 .. Forever]
  <2>1. Add(0, in.dt) \in 0 .. Forever
    BY <1>1 DEF Add
  <2>2. \A o \in Out : Add(held[o], in.dt) \in 0 .. Forever
    BY <1>1 DEF TypeOK, Add
  <2> QED
    BY <2>1, <2>2 DEF OutputStep, TypeOK
<1>4. pcT' \in 0 .. Forever
  <2>1. Add(pcT, in.dt) \in 0 .. Forever
    BY <1>1 DEF TypeOK, Add
  <2> QED
    BY <2>1 DEF OutputStep, CoolTime, TypeOK
<1>5. applied' \in [Out -> BOOLEAN]
  BY <1>2 DEF OutputStep, Guarded, GuardHF, Out
<1>6. /\ wasHeating' \in BOOLEAN
      /\ postCool' \in BOOLEAN
      /\ bootPc' \in BOOLEAN
      /\ violation' \in BOOLEAN
      /\ bootPc' => postCool'
      /\ cfg' \in Configs
  BY DEF OutputStep, Hot, StillCooling, Cooling, TypeOK
<1> QED
  BY <1>2, <1>3, <1>4, <1>5, <1>6 DEF TypeOK

LEMMA StepIInv ==
  ASSUME IInv, NEW in \in Inputs, OutputStep(in)
  PROVE  IInv'
<1> USE DEF IInv
<1>1. eff' \in [Out -> BOOLEAN] /\ TypeOK'
  BY NextEffFacts, StepTypes DEF OutputStep
<1>2. \A r \in R : eff'[r] => NextR(in, r) /\ eff'["HF"]
  BY NextEffFacts DEF OutputStep
<1>3. \A r \in R : eff'[r] => applied["HF"]
  <2> SUFFICES ASSUME NEW r \in R, eff'[r]
               PROVE  applied["HF"]
    OBVIOUS
  <2> QED
    BY <1>2 DEF NextR, FanReady
<1>4. \A r \in R : applied[r] => eff'["HF"]
  <2>1. 0 < cfg.pcMin /\ 0 < cfg.pc /\ cfg.pc \in Nat /\ cfg.pcMin \in Nat
    BY DEF TypeOK, ConfigType
  <2>2. wasHeating => ~CoolDone(in)
    BY <2>1 DEF CoolDone, CoolTime, BootCooling
  <2>3. wasHeating => NextHF(in)
    BY <2>2 DEF NextHF, StillCooling, Cooling
  <2> QED
    BY <2>3, NextEffFacts DEF OutputStep
<1>5. applied' = eff'
  BY <1>1, <1>2, <1>3, <1>4, GuardPasses DEF OutputStep
<1>6. violation' = FALSE
  BY <1>2 DEF OutputStep
<1>7. \A r \in R : eff'[r] => wasHeating'
  BY <1>2 DEF OutputStep, Hot
<1>8. wasHeating' => eff'["HF"] /\ ~postCool'
  BY NextEffFacts DEF OutputStep, NextHF, StillCooling, Cooling
<1> QED
  BY <1>1, <1>5, <1>6, <1>7, <1>8

(* Heat comes only after the fan, and not against a lockout.               *)
LEMMA HeatFacts ==
  ASSUME IInv, NEW in \in Inputs, OutputStep(in), NEW r \in R, applied'[r]
  PROVE  applied["HF"] /\ ~in.lockout
<1>1. applied'[r] = eff'[r]
  BY StepIInv DEF IInv
<1>2. NextR(in, r)
  BY <1>1, NextEffFacts DEF OutputStep
<1> QED
  BY <1>2 DEF NextR, FanReady, Blocked, IInv

LEMMA SetParamsIInv ==
  ASSUME IInv, NEW c \in Configs, SetParams(c)
  PROVE  IInv'
BY DEF IInv, TypeOK, SetParams

LEMMA NextIInv == IInv /\ [Next]_vars => IInv'
<1> SUFFICES ASSUME IInv, [Next]_vars PROVE IInv'
  OBVIOUS
<1>1. CASE \E in \in Inputs : OutputStep(in)
  BY <1>1, StepIInv
<1>2. CASE \E c \in Configs : SetParams(c)
  BY <1>2, SetParamsIInv
<1>3. CASE UNCHANGED vars
  BY <1>3 DEF vars, IInv, TypeOK
<1> QED
  BY <1>1, <1>2, <1>3 DEF Next

LEMMA Invariance == Spec => []IInv
BY InitIInv, NextIInv, PTL DEF Spec

-----------------------------------------------------------------------------
(* The state keeps its types, whatever the parameters and the inputs.      *)
THEOREM TypeCorrect == Spec => []TypeOK
<1>1. IInv => TypeOK
  BY DEF IInv
<1> QED
  BY <1>1, Invariance, PTL

(* OutputGuard never changes what InterlockEngine decided: the second line *)
(* of defence is never needed, and guard_violation_ is never raised.       *)
THEOREM Transparency == Spec => []GuardTransparent
<1>1. IInv => GuardTransparent
  BY DEF IInv, GuardTransparent
<1> QED
  BY <1>1, Invariance, PTL

(* The invariant of OUTPUT_AND_INTERLOCKS 5.2 for the relays: no resistor  *)
(* is on while the heater fan is off.                                      *)
THEOREM HeatIsCovered == Spec => []FanCoversHeat
<1>1. IInv => FanCoversHeat
  BY DEF IInv, FanCoversHeat
<1> QED
  BY <1>1, Invariance, PTL

-----------------------------------------------------------------------------
(* A tick of the output stage is a tick of the contract.                   *)
LEMMA StepRefines ==
  ASSUME IInv, IInv', NEW in \in Inputs, OutputStep(in)
  PROVE  Contract!Tick(in.dt)
<1> DEFINE heat  == \E r \in R : applied[r]
           owed  == wasHeating \/ postCool
           cooled == IF wasHeating THEN 0 ELSE pcT
<1> USE DEF IInv
<1>1. /\ in.dt \in Nat /\ in.dt > 0
      /\ eff' = NextEff(in) /\ applied' = eff'
      /\ "HF" \in Out /\ R \subseteq Out
  <2>1. in.dt \in Nat /\ in.dt > 0
    BY DEF InputType
  <2> QED
    BY <2>1 DEF OutputStep, Out
<1>2. /\ \A r \in R : eff'[r] <=> (NextR(in, r) /\ NextHF(in))
      /\ eff'["HF"] <=> NextHF(in)
  BY <1>1, NextEffFacts
<1>3. heat' => applied["HF"]' /\ owed'
  BY <1>1, <1>2 DEF OutputStep, Hot
<1>4. ~heat /\ heat' =>
        applied["HF"] /\ (IF applied["HF"] THEN held["HF"] ELSE 0) >= cfg.prestart
  <2> SUFFICES ASSUME ~heat, heat' PROVE FanReady
    BY DEF FanReady
  <2>1. PICK r \in R : eff'[r]
    BY <1>1
  <2> QED
    BY <1>2, <2>1 DEF NextR
<1>5. owed' => applied["HF"]'
  BY <1>1, <1>2 DEF OutputStep, NextHF
<1>6. applied["HF"]' =>
        held'["HF"] = IF applied["HF"] THEN Add(held["HF"], in.dt) ELSE Add(0, in.dt)
  BY <1>1 DEF OutputStep, TypeOK
<1>7. owed /\ ~owed' => ~heat' /\ cooled' >= (IF cfg.pcMode = "TEMPERATURE" THEN cfg.pcMin ELSE cfg.pc)
  <2> SUFFICES ASSUME owed, ~owed'
               PROVE  ~heat' /\ cooled' >= (IF cfg.pcMode = "TEMPERATURE" THEN cfg.pcMin ELSE cfg.pc)
    OBVIOUS
  <2>1. Cooling(in) /\ CoolDone(in) /\ cooled' = CoolTime(in)
    BY DEF OutputStep, StillCooling, Cooling
  <2>2. /\ cfg.pc \in Nat /\ cfg.pcMin \in Nat /\ cfg.pcMin <= cfg.pc
        /\ cfg.pcMode \in CoolModes
    BY DEF TypeOK, ConfigType
  <2>3. CoolTime(in) \in Nat
    BY <2>1 DEF TypeOK
  <2> QED
    BY <1>3, <2>1, <2>2, <2>3 DEF CoolDone
<1>8. cooled' <= Add(cooled, in.dt)
  BY <1>1 DEF OutputStep, CoolTime, Cooling, TypeOK, Add
<1>9. heat => cooled' = 0
  BY DEF OutputStep, CoolTime, Cooling
<1>10. heat' => cooled' = 0
  BY <1>3
<1> QED
  BY <1>3, <1>4, <1>5, <1>6, <1>7, <1>8, <1>9, <1>10
     DEF Contract!Tick, Contract!Add, Add, OutputStep

LEMMA InitRefines == Init => Contract!Init
<1> SUFFICES ASSUME Init PROVE Contract!Init
  OBVIOUS
<1>1. cfg \in ConfigType /\ "HF" \in Out /\ R \subseteq Out
  BY DEF Init, Out
<1>2. [prestart |-> cfg.prestart,
       cool |-> IF cfg.pcMode = "TEMPERATURE" THEN cfg.pcMin ELSE cfg.pc]
        \in Contract!LimitType
  BY <1>1 DEF ConfigType, Contract!LimitType
<1> QED
  BY <1>1, <1>2 DEF Init, Contract!Init

LEMMA SetParamsRefines ==
  ASSUME NEW c \in Configs, SetParams(c)
  PROVE  Contract!Relimit
<1>1. [prestart |-> cfg'.prestart,
       cool |-> IF cfg'.pcMode = "TEMPERATURE" THEN cfg'.pcMin ELSE cfg'.pc]
        \in Contract!LimitType
  BY DEF ConfigType, Contract!LimitType, SetParams
<1> QED
  BY <1>1 DEF Contract!Relimit, SetParams

(* Interlock implements FanContract: fan before heat, prestart and         *)
(* post-cool at the relays, for all parameters, inputs and tick lengths.   *)
THEOREM ImplementsFanContract == Spec => FanContractHolds
<1>1. IInv /\ IInv' /\ [Next]_vars => [Contract!Next]_(Contract!vars)
  <2> SUFFICES ASSUME IInv, IInv', [Next]_vars
               PROVE  [Contract!Next]_(Contract!vars)
    OBVIOUS
  <2>1. ASSUME NEW in \in Inputs, OutputStep(in)
        PROVE  Contract!Next
    BY <2>1, StepRefines DEF Contract!Next
  <2>2. ASSUME NEW c \in Configs, SetParams(c)
        PROVE  Contract!Next
    BY <2>2, SetParamsRefines DEF Contract!Next
  <2>3. CASE UNCHANGED vars
    BY <2>3 DEF vars, Contract!vars
  <2> QED
    BY <2>1, <2>2, <2>3 DEF Next
<1> QED
  BY <1>1, InitRefines, Invariance, PTL DEF Spec, FanContractHolds, Contract!Spec
=============================================================================
