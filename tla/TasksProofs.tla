----------------------------- MODULE TasksProofs -----------------------------
(***************************************************************************)
(* Proofs about Tasks, for every set of parameters, periods and limits:    *)
(* the fan covers the heat at the pins, heat does not outlive the tasks    *)
(* that control it, a lockout holds through resets, and a hot reset is     *)
(* followed by a post-cool.                                                *)
(***************************************************************************)
EXTENDS Tasks, TLAPS

E == INSTANCE InterlockProofs WITH Configs <- {Params}, Inputs <- CoreInputs

-----------------------------------------------------------------------------
(* The inductive invariant.                                                *)

Heat(o) == \E r \in R : o[r]

\* The pins that have their new values when OutputTask is at pc.
Written(pc) ==
  CASE pc = "R2" -> {"R1"} [] pc = "HF" -> R [] pc = "VF" -> R \union {"HF"}
    [] pc \in {"wait", "trace"} -> Out [] OTHER -> {}

\* The types but the engine's, which are part of its own invariant.
Types ==
  /\ sys \in {"SELF_TEST", "RUN", "FAILSAFE", "RECOVERY"}
  /\ {chainReq, latched, snapCool, trace, safLatch, safHealthy,
      reboot} \subseteq BOOLEAN
  /\ outPc \in Out \union {"wait", "trace"} /\ safPc \in {"wait", "rtc"}
  /\ {outs, gpio} \subseteq [Out -> BOOLEAN]
  /\ outIdle \in 0 .. Wdt /\ safIdle \in 0 .. Wdt /\ outAge \in Nat
  /\ miss \in 0 .. MissLimit - 1
  /\ fault \in Faults
  /\ rtc \in [wasOn : BOOLEAN, latch : BOOLEAN, boots : 0 .. StormLimit,
              sw : {FALSE}]
  /\ lockAge \in Nat

\* The pins are what the engine decided, or on the way there; on the way the
\* fan covers both the old heat and the new.
PinsFollow ==
  /\ \A o \in Written(outPc) : gpio[o] = applied[o]
  /\ outPc # "wait" => outs = applied
  /\ FanCoversHeatAtPins
  /\ outPc \in R \union {"HF"} => (Heat(outs) => gpio["HF"])

\* Heat is on record in RTC memory before the next pin is written.
HeatOnRecord ==
  /\ outPc # "wait" => (Heat(outs) => trace)
  /\ outPc \in {"wait", "R1"} => (HeatAtPins => rtc.wasOn)

\* The output task's last heartbeat is no older than the stall time when
\* SafetyTask has just looked; then both clocks run.  With SafetyTask spinning
\* the watchdog's clock of the one task or the other started no later.
AgesBounded ==
  /\ Core1Runs => /\ safIdle <= SafPeriod
                  /\ safPc = "wait" => outAge <= OutStall + safIdle
                  /\ safPc = "rtc" => outAge <= OutStall
  /\ ~Core1Runs => \/ outAge <= OutStall + outIdle
                   \/ safPc = "wait" /\ outAge <= OutStall + safIdle

\* A trip that is on record stays in force; heat outlives it only as long as
\* the output task has not come round, but for outputs decided before it.
TripsHold ==
  /\ lockAge > 0 => latched /\ rtc.latch /\ (safPc = "rtc" => safLatch)
  /\ HeatAtPins /\ lockAge > 0 => lockAge <= outAge + 1
  /\ outPc # "wait" /\ Core1Runs /\ Heat(outs) => lockAge <= 1

IInv == Types /\ E!IInv /\ PinsFollow /\ HeatOnRecord /\ AgesBounded /\ TripsHold

-----------------------------------------------------------------------------
(* The engine.                                                             *)

(* Interlock's assumptions.                                                *)
LEMMA Environment ==
  /\ Forever \in Nat \ {0}
  /\ CoreInputs \subseteq E!InputType
  /\ {Params} \subseteq E!ConfigType
  /\ \A c \in {Params} : 0 < c.pcMin /\ c.pcMin <= c.pc /\ c.pc <= c.pcMax
<1>1. CoreInputs \subseteq E!InputType
  <2> SUFFICES ASSUME NEW chain \in BOOLEAN, NEW run \in BOOLEAN, NEW locked \in BOOLEAN,
                      NEW on \in Asks
               PROVE  CoreInput(chain, run, locked, on) \in E!InputType
    BY DEF CoreInputs
  <2>1. [r \in R |-> chain /\ run /\ r \in on] \in [R -> BOOLEAN]
    OBVIOUS
  <2> QED
    BY <2>1 DEF CoreInput, E!InputType, E!R, R
<1>2. {Params} \subseteq E!ConfigType
  BY ParamsAssumption DEF E!ConfigType, E!CoolModes, Engine!ConfigType, Engine!CoolModes
<1> QED
  BY <1>1, <1>2, ParamsAssumption

(* The two instances of Interlock say the same.                            *)
LEMMA SameStep ==
  ASSUME NEW in
  PROVE  Engine!OutputStep(in) => E!OutputStep(in)
BY DEF Engine!OutputStep, Engine!NextEff, Engine!NextHF, Engine!NextVF, Engine!NextR,
       Engine!MinTimed, Engine!Hot, Engine!StillCooling, Engine!Cooling, Engine!CoolTime,
       Engine!CoolDone, Engine!BootCooling, Engine!Chain, Engine!Blocked, Engine!FanReady,
       Engine!Want, Engine!Add, Engine!Guarded, Engine!GuardHF, Engine!Out, Engine!R,
       E!OutputStep, E!NextEff, E!NextHF, E!NextVF, E!NextR, E!MinTimed, E!Hot,
       E!StillCooling, E!Cooling, E!CoolTime, E!CoolDone, E!BootCooling, E!Chain,
       E!Blocked, E!FanReady, E!Want, E!Add, E!Guarded, E!GuardHF, E!Out, E!R

LEMMA EngineFrame ==
  ASSUME E!IInv, UNCHANGED engineVars
  PROVE  E!IInv'
BY DEF E!IInv, E!TypeOK, engineVars

(* What OutputTask decides: heat is covered by the fan, and comes only     *)
(* after it and without a lockout.                                         *)
LEMMA EngineFacts ==
  ASSUME E!IInv, Types, NEW on \in Asks, OutputLocked(on)
  PROVE  /\ E!IInv' /\ applied' \in [Out -> BOOLEAN]
         /\ Heat(applied') => applied'["HF"] /\ applied["HF"] /\ ~latched
<1> DEFINE run == sys = "RUN"
           in  == CoreInput(chainReq, run, latched, on)
<1>1. in \in CoreInputs
  <2>1. chainReq \in BOOLEAN /\ run \in BOOLEAN /\ latched \in BOOLEAN
    BY DEF Types
  <2> HIDE DEF run
  <2> QED
    BY <2>1 DEF CoreInputs
<1>2. E!OutputStep(in) /\ in.lockout = (latched \/ ~run)
  BY SameStep DEF OutputLocked, CoreInput
<1> HIDE DEF in
<1>3. E!IInv'
  BY <1>1, <1>2, Environment, E!StepIInv
<1>4. \A r \in E!R : applied'[r] => applied["HF"] /\ ~in.lockout
  BY <1>1, <1>2, Environment, E!HeatFacts
<1>5. /\ applied' \in [Out -> BOOLEAN]
      /\ \A r \in E!R : applied'[r] => applied'["HF"]
  BY <1>3 DEF E!IInv, E!TypeOK, E!Out, E!R, Out, R
<1> QED
  BY <1>2, <1>3, <1>4, <1>5 DEF Heat, E!R, R

-----------------------------------------------------------------------------
(* What the types say, one by one.                                         *)
LEMMA TypeFacts ==
  ASSUME Types
  PROVE  /\ chainReq \in BOOLEAN /\ latched \in BOOLEAN /\ snapCool \in BOOLEAN
         /\ trace \in BOOLEAN /\ safLatch \in BOOLEAN /\ safHealthy \in BOOLEAN
         /\ outs \in [Out -> BOOLEAN] /\ gpio \in [Out -> BOOLEAN]
BY DEF Types

LEMMA AgeFacts ==
  ASSUME Types
  PROVE  outAge \in Nat /\ outIdle \in Nat /\ safIdle \in Nat /\ lockAge \in Nat
BY DEF Types

LEMMA LimitFacts ==
  /\ Second \in Nat \ {0} /\ SafPeriod \in Nat \ {0} /\ OutStall \in Nat \ {0}
  /\ MissLimit \in Nat \ {0} /\ Wdt \in Nat \ {0} /\ StormLimit \in Nat \ {0}
  /\ SafPeriod < Wdt
BY TasksAssumption

-----------------------------------------------------------------------------
(* OutputTask.                                                             *)

LEMMA OutputLockedIInv ==
  ASSUME IInv, NEW on \in Asks, OutputLocked(on)
  PROVE  IInv'
<1> USE DEF IInv
<1>1. /\ outPc = "wait" /\ outPc' = "R1" /\ outs' = applied' /\ Core1Runs
      /\ trace' = HeatTrace(applied')
  BY DEF OutputLocked, OutputDue, OutputAway, SafetyAway
<1>2. /\ E!IInv' /\ applied' \in [Out -> BOOLEAN]
      /\ Heat(applied') => applied'["HF"] /\ applied["HF"] /\ ~latched
  BY EngineFacts
<1>3. Types'
  <2>1. trace' \in BOOLEAN
    BY <1>1, TypeFacts DEF HeatTrace
  <2>2. sys' \in {"SELF_TEST", "RUN", "FAILSAFE", "RECOVERY"}
    BY DEF OutputLocked, Types
  <2> QED
    BY <1>1, <1>2, <2>1, <2>2 DEF OutputLocked, Types, safVars, devVars, Out, R
<1>4. PinsFollow'
  <2>1. gpio' = gpio /\ gpio["HF"] = applied["HF"]
    BY <1>1 DEF OutputLocked, PinsFollow, Written, Out
  <2>2. Written(outPc') = {}
    BY <1>1 DEF Written
  <2> QED
    BY <1>1, <1>2, <2>1, <2>2 DEF PinsFollow, FanCoversHeatAtPins, HeatAtPins
<1>5. HeatOnRecord'
  BY <1>1 DEF OutputLocked, HeatOnRecord, HeatTrace, Heat, HeatAtPins
<1>6. AgesBounded'
  BY DEF OutputLocked, AgesBounded, safVars, devVars, Core1Runs
<1>7. TripsHold'
  <2>1. Heat(outs') => lockAge = 0
    BY <1>1, <1>2 DEF TripsHold, Types
  <2>2. UNCHANGED <<latched, rtc, safPc, safLatch, gpio, lockAge, outAge, fault>>
    BY DEF OutputLocked, safVars, devVars
  <2> QED
    BY <2>1, <2>2 DEF TripsHold, HeatAtPins, Heat
<1> QED
  BY <1>2, <1>3, <1>4, <1>5, <1>6, <1>7

LEMMA OutputWriteIInv ==
  ASSUME IInv, OutputWrite
  PROVE  IInv'
<1> USE DEF IInv
<1>1. /\ outPc \in Out /\ outPc # "wait" /\ outPc # "trace" /\ Core1Runs
      /\ gpio' = [gpio EXCEPT ![outPc] = outs[outPc]] /\ outPc' = AfterPin[outPc]
      /\ outs' = outs /\ trace' = trace /\ rtc' = rtc /\ outAge' = outAge
      /\ lockAge' = lockAge /\ applied' = applied /\ fault' = fault
  BY DEF OutputWrite, SafetyAway, Out, R, coreVars, engineVars, devVars
<1>2. /\ gpio \in [Out -> BOOLEAN] /\ outs \in [Out -> BOOLEAN] /\ outs = applied
      /\ applied["HF"] \in BOOLEAN
  BY <1>1, TypeFacts DEF PinsFollow, Out
<1>3. E!IInv'
  BY EngineFrame DEF OutputWrite, coreVars
<1>4. Types'
  <2>1. gpio' \in [Out -> BOOLEAN]
    BY <1>1, <1>2
  <2>2. outPc' \in Out \union {"wait", "trace"}
    BY <1>1 DEF AfterPin, Out, R
  <2> QED
    BY <2>1, <2>2 DEF OutputWrite, Types, coreVars, safVars, devVars
<1>5. PinsFollow'
  <2>1. \A r \in R : outs[r] => outs["HF"]
    BY <1>2 DEF E!IInv, E!TypeOK, E!R, R
  <2>2. CASE outPc = "R1"
    BY <1>1, <1>2, <2>2
       DEF PinsFollow, AfterPin, Written, FanCoversHeatAtPins, HeatAtPins, Heat, Out, R
  <2>3. CASE outPc = "R2"
    BY <1>1, <1>2, <2>3
       DEF PinsFollow, AfterPin, Written, FanCoversHeatAtPins, HeatAtPins, Heat, Out, R
  <2>4. CASE outPc = "HF"
    BY <1>1, <1>2, <2>1, <2>4
       DEF PinsFollow, AfterPin, Written, FanCoversHeatAtPins, HeatAtPins, Heat, Out, R
  <2>5. CASE outPc = "VF"
    BY <1>1, <1>2, <2>5
       DEF PinsFollow, AfterPin, Written, FanCoversHeatAtPins, HeatAtPins, Heat, Out, R
  <2> QED
    BY <1>1, <2>2, <2>3, <2>4, <2>5 DEF Out, R
<1>6. HeatOnRecord'
  <2>1. outPc' \notin {"wait", "R1"}
    BY <1>1 DEF AfterPin, Out, R
  <2> QED
    BY <1>1, <2>1 DEF HeatOnRecord, Heat
<1>7. AgesBounded'
  BY DEF OutputWrite, AgesBounded, safVars, devVars, Core1Runs
<1>8. TripsHold'
  <2>1. HeatAtPins' => HeatAtPins \/ Heat(outs)
    BY <1>1, <1>2 DEF HeatAtPins, Heat, Out, R
  <2>2. Heat(outs) => lockAge <= 1
    BY <1>1 DEF TripsHold
  <2>3. UNCHANGED <<latched, safPc, safLatch, outs>>
    BY DEF OutputWrite, coreVars, safVars
  <2>4. lockAge \in Nat /\ outAge \in Nat
    BY DEF Types
  <2> QED
    BY <1>1, <2>1, <2>2, <2>3, <2>4 DEF TripsHold, Heat
<1> QED
  BY <1>3, <1>4, <1>5, <1>6, <1>7, <1>8

LEMMA OutputTraceIInv ==
  ASSUME IInv, OutputTrace
  PROVE  IInv'
<1> USE DEF IInv
<1>1. /\ outPc = "trace" /\ outPc' = "wait" /\ Core1Runs
      /\ outs' = Off /\ trace' = FALSE /\ outIdle' = 0 /\ outAge' = 0
      /\ rtc' = [rtc EXCEPT !.wasOn = trace] /\ gpio' = gpio /\ applied' = applied
      /\ lockAge' = lockAge /\ fault' = fault
  BY DEF OutputTrace, SafetyAway, coreVars, engineVars, devVars
<1>2. outs = applied /\ \A o \in Out : gpio[o] = outs[o]
  BY <1>1 DEF PinsFollow, Written
<1>3. E!IInv'
  BY EngineFrame DEF OutputTrace, coreVars
<1>4. Types'
  <2>1. /\ rtc' \in [wasOn : BOOLEAN, latch : BOOLEAN, boots : 0 .. StormLimit, sw : {FALSE}]
        /\ rtc'.wasOn = trace /\ rtc'.latch = rtc.latch
    BY <1>1, TypeFacts DEF Types
  <2>2. outs' \in [Out -> BOOLEAN]
    BY <1>1 DEF Off
  <2>3. outIdle' \in 0 .. Wdt /\ outAge' \in Nat
    BY <1>1, LimitFacts
  <2>4. UNCHANGED <<sys, chainReq, latched, snapCool, safVars, devVars, gpio, lockAge>>
    BY DEF OutputTrace, coreVars
  <2> QED
    BY <1>1, <2>1, <2>2, <2>3, <2>4 DEF Types, safVars, devVars
<1>5. PinsFollow'
  BY <1>1, <1>2 DEF PinsFollow, Written, FanCoversHeatAtPins, HeatAtPins, Out, R
<1>6. rtc'.wasOn = trace /\ rtc'.latch = rtc.latch
  BY <1>1 DEF Types
<1>7. HeatAtPins => Heat(outs)
  BY <1>2 DEF HeatAtPins, Heat, Out
<1>8. HeatOnRecord'
  BY <1>1, <1>6, <1>7 DEF HeatOnRecord, HeatAtPins
<1>9. AgesBounded'
  <2>1. UNCHANGED <<safPc, safIdle, fault>> /\ safIdle \in 0 .. Wdt
    BY DEF OutputTrace, safVars, devVars, Types
  <2>2. Core1Runs'
    BY <1>1, <2>1 DEF Core1Runs
  <2> QED
    BY <1>1, <2>1, <2>2, AgeFacts, LimitFacts DEF AgesBounded
<1>10. TripsHold'
  <2>1. HeatAtPins => lockAge <= 1
    BY <1>1, <1>7 DEF TripsHold
  <2>2. UNCHANGED <<latched, safPc, safLatch>>
    BY DEF OutputTrace, coreVars, safVars
  <2>3. lockAge \in Nat /\ outAge \in Nat
    BY DEF Types
  <2> QED
    BY <1>1, <1>6, <2>1, <2>2, <2>3 DEF TripsHold, HeatAtPins
<1> QED
  BY <1>3, <1>4, <1>5, <1>8, <1>9, <1>10

-----------------------------------------------------------------------------
(* SafetyTask.                                                             *)

LEMMA PinsFrame ==
  ASSUME PinsFollow, HeatOnRecord,
         UNCHANGED <<applied, gpio, outPc, outs, trace>>, rtc'.wasOn = rtc.wasOn
  PROVE  PinsFollow' /\ HeatOnRecord'
<1>1. PinsFollow'
  BY DEF PinsFollow, FanCoversHeatAtPins, HeatAtPins, Heat
<1>2. HeatOnRecord'
  BY DEF HeatOnRecord, HeatAtPins, Heat
<1> QED
  BY <1>1, <1>2

LEMMA SafetyLockedIInv ==
  ASSUME IInv, NEW tested \in {"SELF_TEST", "RUN", "FAILSAFE"}, NEW trips \in BOOLEAN,
         NEW grown \in BOOLEAN, SafetyLocked(tested, trips, grown)
  PROVE  IInv'
<1> USE DEF IInv
<1>1. /\ safPc = "wait" /\ safPc' = "rtc" /\ Core1Runs /\ ~(outAge > OutStall)
      /\ latched' = (latched \/ trips) /\ safLatch' = latched' /\ miss' = 0
      /\ snapCool' = CoolShown /\ safHealthy' = (sys' = "RUN" /\ grown)
      /\ sys' = IF sys = "SELF_TEST" THEN tested ELSE sys
      /\ UNCHANGED <<engineVars, chainReq, outVars, safIdle, devVars, gpio, rtc, lockAge>>
  BY DEF SafetyLocked, SafetyDue, SafetyAway, OutputStalled
<1>2. E!IInv'
  BY <1>1, EngineFrame
<1>3. Types'
  <2>1. snapCool' \in BOOLEAN /\ latched' \in BOOLEAN /\ safHealthy' \in BOOLEAN
    BY <1>1, TypeFacts DEF CoolShown, E!IInv, E!TypeOK
  <2>2. miss' \in 0 .. MissLimit - 1
    BY <1>1, LimitFacts
  <2>3. sys' \in {"SELF_TEST", "RUN", "FAILSAFE", "RECOVERY"}
    BY <1>1 DEF Types
  <2> QED
    BY <1>1, <2>1, <2>2, <2>3 DEF Types, outVars, devVars
<1>4. PinsFollow' /\ HeatOnRecord'
  BY <1>1, PinsFrame DEF engineVars, outVars
<1>5. AgesBounded'
  <2>1. outAge' = outAge /\ outIdle' = outIdle /\ safIdle' = safIdle
    BY <1>1 DEF outVars
  <2>2. Core1Runs'
    BY <1>1 DEF devVars, Core1Runs
  <2> QED
    BY <1>1, <2>1, <2>2, AgeFacts, LimitFacts DEF AgesBounded
<1>6. TripsHold'
  BY <1>1 DEF TripsHold, HeatAtPins, Heat, Core1Runs, outVars, devVars
<1> QED
  BY <1>2, <1>3, <1>4, <1>5, <1>6

LEMMA SafetyRtcIInv ==
  ASSUME IInv, SafetyRtc
  PROVE  IInv'
<1> USE DEF IInv
<1>1. /\ safPc = "rtc" /\ safPc' = "wait" /\ safIdle' = 0
      /\ safLatch' = FALSE /\ safHealthy' = FALSE
      /\ rtc' = [rtc EXCEPT !.latch = safLatch, !.boots = IF safHealthy THEN 0 ELSE @]
      /\ lockAge' = IF latched /\ safLatch /\ lockAge = 0 THEN 1 ELSE lockAge
      /\ UNCHANGED <<coreVars, outVars, miss, devVars, gpio>>
  BY DEF SafetyRtc
<1>2. E!IInv'
  BY <1>1, EngineFrame DEF coreVars
<1>3. /\ rtc' \in [wasOn : BOOLEAN, latch : BOOLEAN, boots : 0 .. StormLimit, sw : {FALSE}]
      /\ rtc'.wasOn = rtc.wasOn /\ rtc'.latch = safLatch
  <2> DEFINE boots == IF safHealthy THEN 0 ELSE rtc.boots
  <2>1. rtc \in [wasOn : BOOLEAN, latch : BOOLEAN, boots : 0 .. StormLimit, sw : {FALSE}]
    BY DEF Types
  <2>2. boots \in 0 .. StormLimit
    BY <2>1, LimitFacts
  <2>3. rtc' = [rtc EXCEPT !.latch = safLatch, !.boots = boots]
    BY <1>1, <2>1
  <2> HIDE DEF boots
  <2> QED
    BY <2>1, <2>2, <2>3, TypeFacts
<1>4. lockAge' \in Nat /\ lockAge \in Nat /\ outAge \in Nat
  BY <1>1 DEF Types
<1>5. Types'
  <2>1. safIdle' \in 0 .. Wdt
    BY <1>1, LimitFacts
  <2> QED
    BY <1>1, <1>3, <1>4, <2>1 DEF Types, coreVars, outVars, devVars
<1>6. PinsFollow' /\ HeatOnRecord'
  BY <1>1, <1>3, PinsFrame DEF coreVars, engineVars, outVars
<1>7. AgesBounded'
  <2>1. outAge' = outAge /\ outIdle' = outIdle
    BY <1>1 DEF outVars
  <2>2. Core1Runs' <=> Core1Runs
    BY <1>1 DEF devVars, Core1Runs
  <2>3. CASE Core1Runs
    BY <1>1, <2>1, <2>2, <2>3, AgeFacts, LimitFacts DEF AgesBounded
  <2>4. CASE ~Core1Runs
    BY <1>1, <2>1, <2>2, <2>4, AgeFacts, LimitFacts DEF AgesBounded
  <2> QED
    BY <2>3, <2>4
<1>8. TripsHold'
  <2>1. UNCHANGED <<outAge, outPc, outs, gpio, latched>>
    BY <1>1 DEF outVars, coreVars
  <2>2. Core1Runs' <=> Core1Runs
    BY <1>1 DEF devVars, Core1Runs
  <2>3. HeatAtPins' <=> HeatAtPins
    BY <2>1 DEF HeatAtPins
  <2>4. CASE lockAge' = lockAge
    BY <1>1, <1>3, <2>1, <2>2, <2>3, <2>4 DEF TripsHold, Heat
  <2>5. CASE lockAge' = 1 /\ latched /\ safLatch
    BY <1>1, <1>3, <2>1, <2>2, <2>3, <2>5, AgeFacts DEF TripsHold, Heat
  <2> QED
    BY <1>1, <2>4, <2>5
<1> QED
  BY <1>2, <1>5, <1>6, <1>7, <1>8

LEMMA SafetyMissIInv ==
  ASSUME IInv, SafetyMiss
  PROVE  IInv'
<1> USE DEF IInv
<1>1. /\ safPc = "wait" /\ Core1Runs /\ ~(outAge > OutStall)
      /\ miss + 1 < MissLimit /\ miss' = miss + 1 /\ safIdle' = 0
      /\ UNCHANGED <<coreVars, outVars, safPc, safLatch, safHealthy, devVars, gpio, rtc,
                    lockAge>>
  BY DEF SafetyMiss, SafetyDue, SafetyAway, OutputStalled
<1>2. E!IInv'
  BY <1>1, EngineFrame DEF coreVars
<1>3. Types'
  <2>1. safIdle' \in 0 .. Wdt /\ miss' \in 0 .. MissLimit - 1
    BY <1>1, LimitFacts DEF Types
  <2> QED
    BY <1>1, <2>1 DEF Types, coreVars, outVars, devVars
<1>4. PinsFollow' /\ HeatOnRecord'
  BY <1>1, PinsFrame DEF coreVars, engineVars, outVars
<1>5. AgesBounded'
  <2>1. UNCHANGED <<outAge, outIdle, fault>> /\ outAge \in Nat
    BY <1>1 DEF outVars, devVars, Types
  <2>2. Core1Runs'
    BY <1>1, <2>1 DEF Core1Runs
  <2> QED
    BY <1>1, <2>1, <2>2, AgeFacts, LimitFacts DEF AgesBounded
<1>6. TripsHold'
  BY <1>1 DEF TripsHold, HeatAtPins, Heat, Core1Runs, outVars, devVars, coreVars
<1> QED
  BY <1>2, <1>3, <1>4, <1>5, <1>6

-----------------------------------------------------------------------------
(* Resets.                                                                 *)

\* What may be in RTC memory at a reset.
AnyRtc == [wasOn : BOOLEAN, latch : BOOLEAN, boots : 0 .. StormLimit, sw : BOOLEAN]

(* The boot takes the mark of a restart by software out of the block,      *)
(* counts within its bound, and leaves the latch and the trace alone.      *)
LEMMA ReadBootFacts ==
  ASSUME NEW b \in AnyRtc, NEW hard \in BOOLEAN
  PROVE  /\ ReadBoot(b, hard) \in [wasOn : BOOLEAN, latch : BOOLEAN, boots : 0 .. StormLimit,
                                   sw : {FALSE}]
         /\ ReadBoot(b, hard).latch = b.latch /\ ReadBoot(b, hard).wasOn = b.wasOn
<1> DEFINE boots == IF (hard \/ b.sw) /\ b.boots < StormLimit THEN b.boots + 1 ELSE b.boots
<1>1. b.boots \in 0 .. StormLimit /\ b.latch \in BOOLEAN /\ b.wasOn \in BOOLEAN
  BY DEF AnyRtc
<1>2. boots \in 0 .. StormLimit
  BY <1>1, LimitFacts
<1>3. ReadBoot(b, hard) = [b EXCEPT !.sw = FALSE, !.boots = boots]
  BY DEF ReadBoot, AnyRtc
<1> HIDE DEF boots
<1> QED
  BY <1>1, <1>2, <1>3 DEF AnyRtc

(* Every reset starts from passive pins and a fresh engine.                *)
LEMMA ResetIInv ==
  ASSUME IInv, NEW b \in AnyRtc, NEW hard \in BOOLEAN, Reset(b, hard),
         lockAge' \in Nat, lockAge' > 0 => b.latch
  PROVE  IInv'
<1> USE DEF IInv
<1> DEFINE cool == (hard \/ b.sw) /\ b.wasOn
<1>1. /\ eff' = Off /\ held' = [o \in Out |-> Forever] /\ wasHeating' = FALSE
      /\ postCool' = cool /\ bootPc' = cool /\ pcT' = 0 /\ applied' = Off
      /\ violation' = FALSE /\ cfg' = cfg
  BY DEF Reset
<1>2. /\ sys' \in {"RECOVERY", "SELF_TEST"} /\ chainReq' = FALSE /\ latched' = b.latch
      /\ snapCool' = FALSE /\ outPc' = "wait" /\ outs' = Off /\ trace' = FALSE
      /\ outIdle' = 0 /\ outAge' = 0 /\ safPc' = "wait" /\ safLatch' = FALSE
      /\ safHealthy' = FALSE /\ safIdle' = 0 /\ miss' = 0 /\ fault' = "none"
      /\ reboot' = FALSE /\ gpio' = Off /\ rtc' = ReadBoot(b, hard)
  BY ReadBootFacts DEF Reset, EarlyPins
<1>3. /\ Off \in [Out -> BOOLEAN] /\ \A o \in Out : Off[o] = FALSE
      /\ b.latch \in BOOLEAN /\ cool \in BOOLEAN
  BY DEF Off, AnyRtc
<1>4. E!IInv'
  <2>1. held' \in [Out -> 0 .. Forever] /\ pcT' \in 0 .. Forever
    BY <1>1, ParamsAssumption
  <2>2. E!TypeOK'
    <3> HIDE DEF cool
    <3> QED
      BY <1>1, <1>3, <2>1 DEF E!TypeOK, E!IInv, E!Out, E!R, Out, R
  <2>3. \A r \in E!R : ~eff'[r]
    BY <1>1, <1>3 DEF E!R, Out, R
  <2> QED
    BY <1>1, <2>2, <2>3 DEF E!IInv
<1> HIDE DEF cool
<1>5. Types'
  <2>1. /\ outIdle' \in 0 .. Wdt /\ safIdle' \in 0 .. Wdt /\ outAge' \in Nat
        /\ miss' \in 0 .. MissLimit - 1
    BY <1>2, LimitFacts
  <2>2. rtc' \in [wasOn : BOOLEAN, latch : BOOLEAN, boots : 0 .. StormLimit, sw : {FALSE}]
    BY <1>2, ReadBootFacts
  <2> QED
    BY <1>2, <1>3, <2>1, <2>2 DEF Types, Faults
<1>6. ~HeatAtPins'
  BY <1>2, <1>3 DEF HeatAtPins, Out
<1>7. PinsFollow'
  <2>1. outPc' \notin R \union {"HF"}
    BY <1>2 DEF R
  <2> QED
    BY <1>1, <1>2, <1>6, <2>1 DEF PinsFollow, FanCoversHeatAtPins, Written
<1>8. HeatOnRecord'
  BY <1>2, <1>6 DEF HeatOnRecord
<1>9. AgesBounded'
  <2>1. Core1Runs'
    BY <1>2 DEF Core1Runs
  <2> QED
    BY <1>2, <2>1, LimitFacts DEF AgesBounded
<1>10. TripsHold'
  BY <1>2, <1>6, ReadBootFacts DEF TripsHold
<1> QED
  BY <1>4, <1>5, <1>7, <1>8, <1>9, <1>10

(* The blocks resets find: the present one, marked in an emergency, or none.*)
LEMMA Blocks ==
  ASSUME IInv
  PROVE  /\ rtc \in AnyRtc /\ NoRtc \in AnyRtc
         /\ [rtc EXCEPT !.sw = TRUE, !.wasOn = TRUE] \in AnyRtc
         /\ [rtc EXCEPT !.sw = TRUE, !.wasOn = TRUE].latch = rtc.latch
         /\ lockAge \in Nat /\ (lockAge > 0 => rtc.latch)
<1>1. rtc \in [wasOn : BOOLEAN, latch : BOOLEAN, boots : 0 .. StormLimit, sw : {FALSE}]
  BY DEF IInv, Types
<1>2. 0 \in 0 .. StormLimit
  BY LimitFacts
<1>3. NoRtc \in AnyRtc
  BY <1>2 DEF AnyRtc, NoRtc
<1>4. rtc \in AnyRtc
  BY <1>1 DEF AnyRtc
<1>5. /\ [rtc EXCEPT !.sw = TRUE, !.wasOn = TRUE] \in AnyRtc
      /\ [rtc EXCEPT !.sw = TRUE, !.wasOn = TRUE].latch = rtc.latch
  BY <1>1 DEF AnyRtc
<1> QED
  BY <1>3, <1>4, <1>5, AgeFacts DEF IInv, TripsHold

(* A reset that finds no valid block, with the trip's record gone.         *)
LEMMA VoidIInv ==
  ASSUME IInv, NEW hard \in BOOLEAN, Reset(NoRtc, hard), lockAge' = 0
  PROVE  IInv'
<1>1. NoRtc \in AnyRtc
  BY Blocks
<1>2. lockAge' \in Nat
  OBVIOUS
<1>3. lockAge' > 0 => NoRtc.latch
  OBVIOUS
<1> QED
  BY <1>1, <1>2, <1>3, ResetIInv

LEMMA AnyResetIInv ==
  ASSUME IInv, FaultReset \/ SoftRestart \/ TornPanic \/ PowerLoss
  PROVE  IInv'
<1>1. CASE SafetyEmergency
  BY <1>1, Blocks, ResetIInv DEF SafetyEmergency, Emergency
<1>2. CASE TaskWatchdog
  BY <1>2, Blocks, ResetIInv DEF TaskWatchdog
<1>3. CASE Panic
  BY <1>3, Blocks, ResetIInv DEF Panic
<1>4. CASE SoftRestart
  BY <1>4, Blocks, ResetIInv DEF SoftRestart
<1>5. CASE TornPanic
  BY <1>5, VoidIInv DEF TornPanic
<1>6. CASE PowerLoss
  BY <1>6, VoidIInv DEF PowerLoss
<1> QED
  BY <1>1, <1>2, <1>3, <1>4, <1>5, <1>6 DEF FaultReset

-----------------------------------------------------------------------------
(* Time, and what touches neither pins nor clocks.                         *)

LEMMA TickIInv ==
  ASSUME IInv, Tick
  PROVE  IInv'
<1> USE DEF IInv
<1>1. /\ outIdle < Wdt /\ safIdle < Wdt
      /\ outIdle' = outIdle + 1 /\ safIdle' = safIdle + 1 /\ outAge' = outAge + 1
      /\ lockAge' = IF lockAge \in 1 .. OutStall + Wdt + 1 THEN lockAge + 1 ELSE lockAge
      /\ UNCHANGED <<coreVars, outPc, outs, trace, safPc, safLatch, safHealthy, miss,
                    devVars, gpio, rtc>>
  BY DEF Tick
<1>2. Core1Runs => outPc = "wait" /\ safPc = "wait" /\ ~(safIdle >= SafPeriod)
  BY DEF Tick, OutputAway, SafetyAway, SafetyDue
<1>3. E!IInv'
  BY <1>1, EngineFrame DEF coreVars
<1>4. lockAge' \in Nat /\ lockAge' <= lockAge + 1 /\ (lockAge' > 0 => lockAge > 0)
  BY <1>1, AgeFacts, LimitFacts
<1>5. Types'
  <2>1. outIdle' \in 0 .. Wdt /\ safIdle' \in 0 .. Wdt /\ outAge' \in Nat
    BY <1>1, AgeFacts, LimitFacts
  <2> QED
    BY <1>1, <1>4, <2>1 DEF Types, coreVars, devVars
<1>6. PinsFollow' /\ HeatOnRecord'
  BY <1>1, PinsFrame DEF coreVars, engineVars
<1>7. Core1Runs' <=> Core1Runs
  BY <1>1 DEF devVars, Core1Runs
<1>8. AgesBounded'
  <2>1. CASE Core1Runs
    BY <1>1, <1>2, <1>7, <2>1, AgeFacts, LimitFacts DEF AgesBounded
  <2>2. CASE ~Core1Runs
    BY <1>1, <1>7, <2>2, AgeFacts, LimitFacts DEF AgesBounded
  <2> QED
    BY <2>1, <2>2
<1>9. TripsHold'
  <2>1. UNCHANGED <<latched, rtc, safPc, safLatch, outPc, outs, gpio>>
    BY <1>1 DEF coreVars
  <2>2. HeatAtPins' <=> HeatAtPins
    BY <2>1 DEF HeatAtPins
  <2>3. HeatAtPins /\ lockAge' > 0 => lockAge' <= outAge' + 1
    BY <1>1, <1>4, AgeFacts DEF TripsHold
  <2> QED
    BY <1>2, <1>4, <1>7, <2>1, <2>2, <2>3 DEF TripsHold, Heat
<1> QED
  BY <1>3, <1>5, <1>6, <1>8, <1>9

LEMMA OutputMissIInv ==
  ASSUME IInv, OutputMiss
  PROVE  IInv'
<1> USE DEF IInv
<1>1. /\ outPc = "wait" /\ safPc = "wait" /\ Core1Runs /\ outIdle' = 0
      /\ UNCHANGED <<coreVars, outPc, outs, trace, outAge, safVars, devVars, gpio, rtc,
                    lockAge>>
  BY DEF OutputMiss, OutputDue, OutputAway, SafetyAway
<1>2. E!IInv'
  BY <1>1, EngineFrame DEF coreVars
<1>3. Types'
  <2>1. outIdle' \in 0 .. Wdt
    BY <1>1, LimitFacts
  <2> QED
    BY <1>1, <2>1 DEF Types, coreVars, safVars, devVars
<1>4. PinsFollow' /\ HeatOnRecord'
  BY <1>1, PinsFrame DEF coreVars, engineVars
<1>5. AgesBounded'
  BY <1>1 DEF AgesBounded, Core1Runs, safVars, devVars
<1>6. TripsHold'
  BY <1>1 DEF TripsHold, HeatAtPins, Heat, Core1Runs, coreVars, safVars, devVars
<1> QED
  BY <1>2, <1>3, <1>4, <1>5, <1>6

-----------------------------------------------------------------------------
(* What moves neither time, nor the pins, nor the tasks that write them.   *)

QuietVars == <<engineVars, outVars, safPc, safLatch, safIdle, gpio, rtc, fault>>

LEMMA QuietFrame ==
  ASSUME IInv, UNCHANGED QuietVars
  PROVE  E!IInv' /\ PinsFollow' /\ HeatOnRecord' /\ AgesBounded'
<1> USE DEF IInv
<1>1. E!IInv'
  BY EngineFrame DEF QuietVars
<1>2. PinsFollow' /\ HeatOnRecord'
  BY PinsFrame DEF QuietVars, engineVars, outVars
<1>3. AgesBounded'
  BY DEF AgesBounded, Core1Runs, QuietVars, outVars
<1> QED
  BY <1>1, <1>2, <1>3

LEMMA ControlCycleIInv ==
  ASSUME IInv, NEW want \in BOOLEAN, ControlCycle(want)
  PROVE  IInv'
<1>1. /\ chainReq' = (want /\ sys = "RUN" /\ ~latched)
      /\ UNCHANGED <<engineVars, sys, latched, snapCool, outVars, safVars, devVars, gpio,
                    rtc, lockAge>>
  BY DEF ControlCycle
<1>2. E!IInv' /\ PinsFollow' /\ HeatOnRecord' /\ AgesBounded'
  BY <1>1, QuietFrame DEF QuietVars, safVars, devVars
<1>3. Types'
  <2>1. chainReq' \in BOOLEAN
    BY <1>1
  <2> QED
    BY <1>1, <2>1 DEF IInv, Types, outVars, safVars, devVars
<1>4. TripsHold'
  BY <1>1 DEF IInv, TripsHold, HeatAtPins, Heat, Core1Runs, outVars, safVars, devVars
<1> QED
  BY <1>2, <1>3, <1>4 DEF IInv

(* An alarm reset ends the trip's record with the latch.                   *)
LEMMA AlarmResetIInv ==
  ASSUME IInv, NEW trips \in BOOLEAN, AlarmReset(trips)
  PROVE  IInv'
<1>1. /\ latched' = trips /\ lockAge' = 0
      /\ UNCHANGED <<engineVars, sys, chainReq, snapCool, outVars, safVars, devVars, gpio,
                    rtc>>
  BY DEF AlarmReset
<1>2. E!IInv' /\ PinsFollow' /\ HeatOnRecord' /\ AgesBounded'
  BY <1>1, QuietFrame DEF QuietVars, safVars, devVars
<1>3. Types'
  BY <1>1 DEF IInv, Types, outVars, safVars, devVars
<1>4. TripsHold'
  BY <1>1 DEF TripsHold
<1> QED
  BY <1>2, <1>3, <1>4 DEF IInv

LEMMA RecoveryAckIInv ==
  ASSUME IInv, RecoveryAck
  PROVE  IInv'
<1>1. /\ sys' = "SELF_TEST"
      /\ UNCHANGED <<engineVars, chainReq, latched, snapCool, outVars, safVars, devVars,
                    gpio, rtc, lockAge>>
  BY DEF RecoveryAck
<1>2. E!IInv' /\ PinsFollow' /\ HeatOnRecord' /\ AgesBounded'
  BY <1>1, QuietFrame DEF QuietVars, safVars, devVars
<1>3. Types'
  BY <1>1 DEF IInv, Types, outVars, safVars, devVars
<1>4. TripsHold'
  BY <1>1 DEF IInv, TripsHold, HeatAtPins, Heat, Core1Runs, outVars, safVars, devVars
<1> QED
  BY <1>2, <1>3, <1>4 DEF IInv

LEMMA HandleRebootIInv ==
  ASSUME IInv, HandleReboot
  PROVE  IInv'
<1>1. /\ reboot' = TRUE
      /\ UNCHANGED <<coreVars, outVars, safVars, fault, gpio, rtc, lockAge>>
  BY DEF HandleReboot
<1>2. E!IInv' /\ PinsFollow' /\ HeatOnRecord' /\ AgesBounded'
  BY <1>1, QuietFrame DEF QuietVars, coreVars, safVars
<1>3. Types'
  BY <1>1 DEF IInv, Types, coreVars, outVars, safVars
<1>4. TripsHold'
  BY <1>1 DEF IInv, TripsHold, HeatAtPins, Heat, Core1Runs, coreVars, outVars, safVars
<1> QED
  BY <1>2, <1>3, <1>4 DEF IInv

-----------------------------------------------------------------------------
(* Faults.                                                                 *)

(* A fault that comes or goes; SafetyTask never starts to spin elsewhere   *)
(* than here, with its clock and the output task's within their bounds.    *)
LEMMA FaultIInv ==
  ASSUME IInv, fault' \in Faults, ~Core1Runs => ~Core1Runs',
         UNCHANGED <<coreVars, outVars, safVars, reboot, gpio, rtc, lockAge>>
  PROVE  IInv'
<1> USE DEF IInv
<1>1. UNCHANGED <<latched, outPc, outs, trace, outIdle, outAge, safPc, safLatch, safIdle,
                  gpio, rtc, lockAge, applied>>
  BY DEF coreVars, engineVars, outVars, safVars
<1>2. E!IInv'
  BY EngineFrame DEF coreVars
<1>3. Types'
  BY DEF Types, coreVars, outVars, safVars
<1>4. PinsFollow' /\ HeatOnRecord'
  BY <1>1, PinsFrame
<1>5. AgesBounded'
  <2>1. safPc \in {"wait", "rtc"}
    BY DEF Types
  <2>2. CASE Core1Runs /\ Core1Runs'
    BY <1>1, <2>2 DEF AgesBounded
  <2>3. CASE Core1Runs /\ ~Core1Runs'
    BY <1>1, <2>1, <2>3, AgeFacts, LimitFacts DEF AgesBounded
  <2>4. CASE ~Core1Runs
    BY <1>1, <2>4 DEF AgesBounded
  <2> QED
    BY <2>2, <2>3, <2>4
<1>6. TripsHold'
  <2>1. Core1Runs' => Core1Runs
    OBVIOUS
  <2>2. HeatAtPins' <=> HeatAtPins
    BY <1>1 DEF HeatAtPins
  <2> QED
    BY <1>1, <2>1, <2>2 DEF TripsHold, Heat
<1> QED
  BY <1>2, <1>3, <1>4, <1>5, <1>6

LEMMA StrikeIInv ==
  ASSUME IInv, NEW f \in Faults, Strike(f)
  PROVE  IInv'
BY FaultIInv DEF Strike, Core1Runs

LEMMA ReleaseIInv ==
  ASSUME IInv, Release
  PROVE  IInv'
BY FaultIInv DEF Release, Core1Runs, Faults

-----------------------------------------------------------------------------
(* The invariant.                                                          *)

LEMMA InitIInv == Init => IInv
<1> SUFFICES ASSUME Init
             PROVE  IInv
  OBVIOUS
<1>1. /\ Off \in [Out -> BOOLEAN] /\ \A o \in Out : Off[o] = FALSE
  BY DEF Off
<1>2. E!IInv
  <2>1. E!Init
    BY DEF Init, E!Init, Off, Out, R, E!Out, E!R
  <2> QED
    BY <2>1, Environment, E!InitIInv
<1>3. Types
  <2>1. /\ outIdle \in 0 .. Wdt /\ safIdle \in 0 .. Wdt /\ outAge \in Nat
        /\ miss \in 0 .. MissLimit - 1 /\ 0 \in 0 .. StormLimit
    BY LimitFacts DEF Init
  <2>2. rtc \in [wasOn : BOOLEAN, latch : BOOLEAN, boots : 0 .. StormLimit, sw : {FALSE}]
    BY <2>1 DEF Init, NoRtc
  <2> QED
    BY <1>1, <2>1, <2>2 DEF Init, Types, Faults
<1>4. ~HeatAtPins /\ outPc = "wait" /\ safPc = "wait" /\ fault = "none" /\ lockAge = 0
      /\ gpio = Off /\ applied = Off /\ outAge = 0 /\ safIdle = 0
  BY <1>1 DEF Init, HeatAtPins, Out
<1>5. PinsFollow
  <2>1. outPc \notin R \union {"HF"}
    BY <1>4 DEF R
  <2> QED
    BY <1>4, <2>1 DEF PinsFollow, FanCoversHeatAtPins, Written
<1>6. HeatOnRecord
  BY <1>4 DEF HeatOnRecord
<1>7. AgesBounded
  <2>1. Core1Runs
    BY <1>4 DEF Core1Runs
  <2> QED
    BY <1>4, <2>1, LimitFacts DEF AgesBounded
<1>8. TripsHold
  BY <1>4 DEF TripsHold
<1> QED
  BY <1>2, <1>3, <1>5, <1>6, <1>7, <1>8 DEF IInv

LEMMA StutterIInv ==
  ASSUME IInv, UNCHANGED vars
  PROVE  IInv'
<1>1. E!IInv' /\ PinsFollow' /\ HeatOnRecord' /\ AgesBounded'
  BY QuietFrame DEF QuietVars, vars, coreVars, safVars, devVars
<1>2. Types'
  BY DEF IInv, Types, vars, coreVars, outVars, safVars, devVars
<1>3. TripsHold'
  BY DEF IInv, TripsHold, HeatAtPins, Heat, Core1Runs, vars, coreVars, outVars, safVars,
         devVars
<1> QED
  BY <1>1, <1>2, <1>3 DEF IInv

LEMMA NextIInv == IInv /\ [Next]_vars => IInv'
<1> SUFFICES ASSUME IInv, [Next]_vars
             PROVE  IInv'
  OBVIOUS
<1>1. CASE \E on \in Asks : OutputLocked(on)
  BY <1>1, OutputLockedIInv
<1>2. CASE OutputMiss \/ OutputWrite \/ OutputTrace
  BY <1>2, OutputMissIInv, OutputWriteIInv, OutputTraceIInv
<1>3. CASE \E tested \in {"SELF_TEST", "RUN", "FAILSAFE"}, trips, grown \in BOOLEAN :
             SafetyLocked(tested, trips, grown)
  BY <1>3, SafetyLockedIInv
<1>4. CASE SafetyRtc \/ SafetyMiss
  BY <1>4, SafetyRtcIInv, SafetyMissIInv
<1>5. CASE \E want \in BOOLEAN : ControlCycle(want)
  BY <1>5, ControlCycleIInv
<1>6. CASE \E trips \in BOOLEAN : AlarmReset(trips)
  BY <1>6, AlarmResetIInv
<1>7. CASE RecoveryAck \/ HandleReboot
  BY <1>7, RecoveryAckIInv, HandleRebootIInv
<1>8. CASE FaultReset \/ SoftRestart \/ TornPanic \/ PowerLoss
  BY <1>8, AnyResetIInv
<1>9. CASE (\E f \in Faults : Strike(f)) \/ Release
  BY <1>9, StrikeIInv, ReleaseIInv
<1>10. CASE Tick
  BY <1>10, TickIInv
<1>11. CASE UNCHANGED vars
  BY <1>11, StutterIInv
<1> QED
  BY <1>1, <1>2, <1>3, <1>4, <1>5, <1>6, <1>7, <1>8, <1>9, <1>10, <1>11 DEF Next

(* The inductive invariant holds in every state.                           *)
THEOREM Invariance == Spec => []IInv
BY InitIInv, NextIInv, PTL DEF Spec

-----------------------------------------------------------------------------
(* The types of the state, with the pins, the clocks of the watchdog and   *)
(* the block in RTC memory within their bounds in every run.               *)
THEOREM TypeCorrect == Spec => []TypeOK
<1>1. IInv => TypeOK
  <2> SUFFICES ASSUME IInv
               PROVE  TypeOK
    OBVIOUS
  <2>1. Engine!TypeOK
    BY DEF IInv, E!IInv, E!TypeOK, Engine!TypeOK, E!Out, E!R, Engine!Out, Engine!R
  <2> QED
    BY <2>1 DEF IInv, Types, TypeOK
<1> QED
  BY <1>1, Invariance, PTL

(* outputsWrite sets the pins one by one, resistors first, after the mutex *)
(* is given back; a step of any task and any reset may come between two    *)
(* pins.  At no time does a resistor's pin have heat without the fan's.    *)
THEOREM PinsCovered == Spec => []FanCoversHeatAtPins
<1>1. IInv => FanCoversHeatAtPins
  BY DEF IInv, PinsFollow
<1> QED
  BY <1>1, Invariance, PTL

(* The age of the output task's last heartbeat, while the device lives.    *)
LEMMA AgeBound == IInv => outAge <= StaleLimit
<1> SUFFICES ASSUME IInv
             PROVE  outAge <= StaleLimit
  OBVIOUS
<1>1. outIdle <= Wdt /\ safIdle <= Wdt /\ safPc \in {"wait", "rtc"}
  BY LimitFacts DEF IInv, Types
<1>2. CASE Core1Runs
  <2>1. StaleLimit = OutStall + SafPeriod
    BY <1>2 DEF StaleLimit
  <2> QED
    BY <1>1, <1>2, <2>1, AgeFacts, LimitFacts DEF IInv, AgesBounded
<1>3. CASE ~Core1Runs
  <2>1. StaleLimit = OutStall + Wdt
    BY <1>3 DEF StaleLimit
  <2> QED
    BY <1>1, <1>3, <2>1, AgeFacts, LimitFacts DEF IInv, AgesBounded
<1> QED
  BY <1>2, <1>3

(* SafetyTask's look at the output task's heartbeat, or else the task      *)
(* watchdog, ends the run of the firmware before the pins have stood for   *)
(* longer than the stall time and one period of whoever looks.             *)
THEOREM HeatIsFresh == Spec => []NoStaleHeat
<1>1. IInv => NoStaleHeat
  BY AgeBound DEF NoStaleHeat
<1> QED
  BY <1>1, Invariance, PTL

(* safetyStep's latch, once rtcSetSafetyLatched has it on record, takes    *)
(* the heat off the pins within that time, and through every reset that    *)
(* leaves the record.                                                      *)
THEOREM LockoutIsKept == Spec => []LockoutHolds
<1>1. IInv => LockoutHolds
  <2> SUFFICES ASSUME IInv, HeatAtPins
               PROVE  lockAge <= StaleLimit + 1
    BY DEF LockoutHolds
  <2>1. outAge <= StaleLimit /\ StaleLimit \in Nat
    BY AgeBound, LimitFacts DEF StaleLimit
  <2>2. lockAge > 0 => lockAge <= outAge + 1
    BY DEF IInv, TripsHold
  <2> QED
    BY <2>1, <2>2, AgeFacts DEF IInv
<1> QED
  BY <1>1, Invariance, PTL

(* A reset that counts as a fault, with a resistor's pin on and no output  *)
(* cycle past its first pin, is followed by readBoot's post-cool.          *)
THEOREM HotResetCooled == Spec => HotResetIsCooled
<1>1. IInv /\ [Next]_vars =>
        [FaultReset /\ HeatAtPins /\ outPc \notin {"R2", "HF", "VF", "trace"}
           => postCool']_vars
  <2> SUFFICES ASSUME IInv, FaultReset, HeatAtPins,
                      outPc \notin {"R2", "HF", "VF", "trace"}
               PROVE  postCool'
    OBVIOUS
  <2>1. outPc \in {"wait", "R1"}
    BY DEF IInv, Types, Out, R
  <2>2. rtc.wasOn
    BY <2>1 DEF IInv, HeatOnRecord
  <2>3. CASE SafetyEmergency
    BY <2>3, Blocks DEF SafetyEmergency, Emergency, Reset, AnyRtc
  <2>4. CASE TaskWatchdog
    BY <2>2, <2>4 DEF TaskWatchdog, Reset
  <2>5. CASE Panic
    BY <2>2, <2>5 DEF Panic, Reset
  <2> QED
    BY <2>3, <2>4, <2>5 DEF FaultReset
<1> QED
  BY <1>1, Invariance, PTL DEF Spec, HotResetIsCooled

==============================================================================
