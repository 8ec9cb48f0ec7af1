------------------------------ MODULE Interlock ------------------------------
(***************************************************************************)
(* The interlock engine and the output guard of the cabin heater           *)
(* (InterlockEngine::step and OutputGuard::apply), as ClimateCore's        *)
(* outputStep runs them one after the other on every output tick.          *)
(*                                                                         *)
(* The engine turns requests for two resistors (R1, R2), the heater fan    *)
(* (HF) and the ventilation fan (VF) into effective outputs; the guard     *)
(* filters those once more and its result is what reaches the relays.      *)
(* What asks for heat, and what locks it out, is the environment: every    *)
(* step takes any input of Inputs.                                         *)
(*                                                                         *)
(* Time is counted in output ticks.  A step that runs late passes the      *)
(* elapsed time in its input (in.dt), as waitPeriod does.                  *)
(***************************************************************************)
EXTENDS Naturals

CONSTANTS Configs,  \* the InterlockParams a valid configuration can give
          Inputs,   \* the InterlockInputs the environment can present
          Forever   \* where a Timer saturates (UINT32_MAX)

R   == {"R1", "R2"}
Out == R \union {"HF", "VF"}

CoolModes == {"TIME", "TEMPERATURE", "HYBRID"}

ConfigType ==
  [prestart : Nat, rMinOn : Nat, rMinOff : Nat, hfMinOn : Nat, hfMinOff : Nat,
   vfMinOn : Nat, vfMinOff : Nat, pcMode : CoolModes, pc : Nat, pcMin : Nat,
   pcMax : Nat]

InputType ==
  [dt : Nat \ {0}, chain : BOOLEAN, rReq : [R -> BOOLEAN], hfReq : BOOLEAN,
   vfReq : BOOLEAN, lockout : BOOLEAN, arm : BOOLEAN, vfForce : BOOLEAN,
   hfForce : BOOLEAN, antifreeze : BOOLEAN, vfInhibit : BOOLEAN,
   t2Cool : BOOLEAN]

\* pcMin <= pc <= pcMax is rule 10 of validateConfig, and post_cool_min_s is
\* at least 10 s.
ASSUME ConfigsAssumption ==
  /\ Configs \subseteq ConfigType
  /\ \A c \in Configs : 0 < c.pcMin /\ c.pcMin <= c.pc /\ c.pc <= c.pcMax
ASSUME InputsAssumption  == Inputs \subseteq InputType
ASSUME ForeverAssumption == Forever \in Nat \ {0}

VARIABLES
  cfg,         \* p_: the parameters in force
  eff,         \* eff_: the engine's effective outputs
  held,        \* on_t_ / off_t_: time an output has kept its present value
  wasHeating,  \* was_heating_
  postCool,    \* post_cool_
  bootPc,      \* boot_pc_
  pcT,         \* pc_t_
  applied,     \* OutputGuard::applied_: what the relays get
  violation    \* guard_violation_: the guard ever had to overrule the engine

vars == <<cfg, eff, held, wasHeating, postCool, bootPc, pcT, applied, violation>>

-----------------------------------------------------------------------------
\* A slip: a Timer that does not saturate.
AddUnsaturated(t, dt) == t + dt

\* Timer::add
Add(t, dt) == IF t + dt > Forever THEN Forever ELSE t + dt

Blocked(in) == in.lockout \/ ~in.arm
FanReady    == eff["HF"] /\ held["HF"] >= cfg.prestart
Want(in, r) == in.rReq[r] /\ in.chain

\* The request want for output o, delayed by its minimum on and off times.
MinTimed(o, want, minOn, minOff) ==
  \/ eff[o]  /\ (want \/ held[o] < minOn)
  \/ ~eff[o] /\ want /\ held[o] >= minOff

\* A slip: I-3 is forgotten, a resistor does not wait for the fan.
NextRUnready(in, r) ==
  /\ ~Blocked(in)
  /\ MinTimed(r, Want(in, r), cfg.rMinOn, cfg.rMinOff)

\* I-1, I-3, I-7, I-8 for a resistor
NextR(in, r) ==
  /\ ~Blocked(in)
  /\ eff[r] \/ FanReady
  /\ MinTimed(r, Want(in, r), cfg.rMinOn, cfg.rMinOff)

Chain(in) == in.chain /\ ~Blocked(in)
Hot(in)   == Chain(in) \/ \E r \in R : NextR(in, r)

\* A slip: the timer of the post-cool is not reset when the heat stops.
CoolTimeRunOn(in) == Add(pcT, in.dt)

\* Post-cool: it starts, with its timer at zero, in the step that stops the
\* heat, and a new demand for heat cancels it.
Cooling(in)  == ~Hot(in) /\ (wasHeating \/ postCool)
CoolTime(in) == IF wasHeating THEN 0 ELSE Add(pcT, in.dt)
BootCooling  == bootPc /\ ~wasHeating

CoolDone(in) ==
  LET timeOk == CoolTime(in) >= cfg.pc
      t2Ok   == in.t2Cool /\ CoolTime(in) >= cfg.pcMin
  IN  \/ timeOk /\ (BootCooling \/ cfg.pcMode = "TIME")
      \/ ~BootCooling /\ cfg.pcMode = "TEMPERATURE" /\ t2Ok
      \/ ~BootCooling /\ cfg.pcMode = "HYBRID" /\ timeOk /\ t2Ok

StillCooling(in) == Cooling(in) /\ ~CoolDone(in)

\* I-2: heat, a heating chain, a post-cool or an overheated duct force the
\* fan on past its minimum off time.
NextHF(in) ==
  \/ Hot(in) \/ StillCooling(in) \/ in.hfForce
  \/ MinTimed("HF", in.hfReq, cfg.hfMinOn, cfg.hfMinOff)

\* I-4, I-5, I-6 / I-9, I-7, I-8 for the ventilation fan
NextVF(in) ==
  \/ in.vfForce
  \/ /\ ~in.antifreeze
     /\ ~in.vfInhibit
     /\ MinTimed("VF", in.vfReq, cfg.vfMinOn, cfg.vfMinOff)

NextEff(in) ==
  [o \in Out |-> IF o = "VF" THEN NextVF(in)
                 ELSE NextHF(in) /\ (o \in R => NextR(in, o))]

\* A slip: a wrong index in the copy of the fan outputs.
GuardedSlip(d) ==
  [o \in Out |-> IF o \in {"HF", "VF"} THEN d["VF"]
                 ELSE d[o] /\ d["HF"] /\ applied["HF"]]

\* OutputGuard::apply(d), from the values it applied last
GuardHF(d) == d["HF"] \/ \E r \in R : d[r] \/ applied[r]
Guarded(d) ==
  [o \in Out |-> IF o = "VF" THEN d["VF"]
                 ELSE IF o = "HF" THEN GuardHF(d)
                 ELSE d[o] /\ d["HF"] /\ applied["HF"]]

-----------------------------------------------------------------------------
\* A fresh engine: outputs off for an unknown time, so every minimum off time
\* counts as met.  startBootPostCool has run or not.
Init ==
  /\ cfg \in Configs
  /\ eff = [o \in Out |-> FALSE]
  /\ held = [o \in Out |-> Forever]
  /\ wasHeating = FALSE
  /\ postCool \in BOOLEAN
  /\ bootPc = postCool
  /\ pcT = 0
  /\ applied = [o \in Out |-> FALSE]
  /\ violation = FALSE

OutputStep(in) ==
  /\ eff' = NextEff(in)
  /\ held' = [o \in Out |-> IF eff'[o] = eff[o] THEN Add(held[o], in.dt)
                                                ELSE Add(0, in.dt)]
  /\ wasHeating' = Hot(in)
  /\ postCool' = StillCooling(in)
  /\ bootPc' = (StillCooling(in) /\ BootCooling)
  /\ pcT' = IF Cooling(in) THEN CoolTime(in) ELSE pcT
  /\ applied' = Guarded(eff')
  /\ violation' = (violation \/ \E r \in R : eff'[r] /\ ~eff'["HF"])
  /\ UNCHANGED cfg

\* applyConfig -> InterlockEngine::setParams
SetParams(c) ==
  /\ cfg' = c
  /\ UNCHANGED <<eff, held, wasHeating, postCool, bootPc, pcT, applied, violation>>

Next ==
  \/ \E in \in Inputs : OutputStep(in)
  \/ \E c \in Configs : SetParams(c)

Spec == Init /\ [][Next]_vars

-----------------------------------------------------------------------------
\* The types of the state; a boot post-cool is a post-cool.
TypeOK ==
  /\ cfg \in Configs
  /\ eff \in [Out -> BOOLEAN]
  /\ held \in [Out -> 0 .. Forever]
  /\ wasHeating \in BOOLEAN
  /\ postCool \in BOOLEAN
  /\ bootPc \in BOOLEAN
  /\ pcT \in 0 .. Forever
  /\ applied \in [Out -> BOOLEAN]
  /\ violation \in BOOLEAN
  /\ bootPc => postCool

\* OUTPUT_AND_INTERLOCKS 5.2: in no sequence of states is a resistor's relay
\* on while the heater fan's relay is off.
FanCoversHeat == (\E r \in R : applied[r]) => applied["HF"]

\* The guard is a second line of defence that the first never needs: it
\* passes on what the engine decided, tick for tick, and never has an internal
\* fault to report, although it judges by its own memory of the relays.
GuardTransparent == applied = eff /\ ~violation

\* The output stage implements the promise about the heater fan at the
\* relays: fan before heat, prestart, and a post-cool after every heat, across
\* lockouts, renewed demands, manual fan requests and changes of parameters.
Contract ==
  INSTANCE FanContract WITH
    Elapsed <- {in.dt : in \in Inputs},
    heat    <- \E r \in R : applied[r],
    fan     <- applied["HF"],
    ran     <- IF applied["HF"] THEN held["HF"] ELSE 0,
    owed    <- wasHeating \/ postCool,
    cooled  <- IF wasHeating THEN 0 ELSE pcT,
    limits  <- [prestart |-> cfg.prestart,
                cool |-> IF cfg.pcMode = "TEMPERATURE" THEN cfg.pcMin ELSE cfg.pc]

FanContractHolds == Contract!Spec

=============================================================================
