-------------------------------- MODULE Tasks --------------------------------
(***************************************************************************)
(* The control tasks of the firmware, the core mutex they share, the relay *)
(* pins, and what survives a reset in RTC memory (src/app/tasks.cpp and    *)
(* boot_state.cpp), around the interlock engine of module Interlock.       *)
(*                                                                         *)
(* The work a task does under the core mutex is one step.  What it does    *)
(* after giving the mutex back - writing the pins, writing RTC memory - are *)
(* steps of their own, and a reset may come between any two steps.         *)
(*                                                                         *)
(* Time is counted in output periods.  SafetyTask and OutputTask are the   *)
(* two tasks of the highest priority: unless one of them hangs, each runs  *)
(* in every period of its own before time goes on.                         *)
(***************************************************************************)
EXTENDS Naturals

CONSTANTS
  Params,      \* the interlock parameters in force (never changed here)
  Forever,     \* where a Timer saturates
  Asks,        \* sets of resistors the power manager asks for
  Second,      \* a second, in output periods
  SafPeriod,   \* kSafetyPeriodMs, in output periods
  OutStall,    \* kOutputStallMs
  MissLimit,   \* kSafetyLockMissLimit
  Wdt,         \* the task watchdog's timeout (esp_task_wdt_init)
  StormLimit   \* restart_storm_limit; fault boots past it are not told apart

R   == {"R1", "R2"}
Out == R \union {"HF", "VF"}
Off == [o \in Out |-> FALSE]

ASSUME TasksAssumption ==
  /\ {Second, SafPeriod, OutStall, MissLimit, Wdt, StormLimit} \subseteq Nat \ {0}
  /\ Asks \subseteq SUBSET R
  /\ SafPeriod < Wdt /\ OutStall < Wdt

VARIABLES
  \* the core, under g_mtx
  cfg, eff, held, wasHeating, postCool, bootPc, pcT, applied, violation,
  sys,       \* SystemSM's state
  chainReq,  \* chain_request_: the control loop asks for heat
  latched,   \* saf_: locked out by a fault that only an alarm reset clears
  snapCool,  \* snapshot().post_cool_remaining_s > 0
  \* OutputTask
  outPc, outs, trace, outIdle, outAge,
  \* SafetyTask
  safPc, safLatch, safHealthy, safIdle, miss,
  \* the rest of the device
  gpio,      \* the relay pins
  rtc,       \* RtcBlock
  fault,     \* what ails this run of the firmware
  reboot,    \* g_reboot
  \* history, read by no action
  lockAge    \* 0, or one more than the age of SafetyTask's last trip

engineVars == <<cfg, eff, held, wasHeating, postCool, bootPc, pcT, applied, violation>>
coreVars   == <<engineVars, sys, chainReq, latched, snapCool>>
outVars    == <<outPc, outs, trace, outIdle, outAge>>
safVars    == <<safPc, safLatch, safHealthy, safIdle, miss>>
devVars    == <<fault, reboot>>
vars == <<coreVars, outVars, safVars, devVars, gpio, rtc, lockAge>>

\* One fault per run of the firmware: another task sits on the core mutex,
\* OutputTask no longer comes round, or SafetyTask spins and, by its
\* priority, keeps the whole core to itself.
Faults == {"none", "lock held", "output hung", "safety spins"}

LockFree  == fault # "lock held"
Core1Runs == fault # "safety spins"

\* R pins may lag behind the core by this much.
StaleLimit == OutStall + (IF Core1Runs THEN SafPeriod ELSE Wdt)

-----------------------------------------------------------------------------
\* The interlock inputs outputStep makes of the state, when the power
\* manager's modulator asks for the resistors in on.
CoreInput(chain, run, locked, on) ==
  [dt |-> 1, chain |-> chain /\ run,
   rReq |-> [r \in R |-> chain /\ run /\ r \in on],
   lockout |-> locked \/ ~run, arm |-> run /\ ~locked,
   hfReq |-> FALSE, vfReq |-> FALSE, vfForce |-> FALSE, hfForce |-> FALSE,
   antifreeze |-> FALSE, vfInhibit |-> FALSE, t2Cool |-> FALSE]

CoreInputs ==
  {CoreInput(chain, run, locked, on) : chain, run, locked \in BOOLEAN, on \in Asks}

Engine == INSTANCE Interlock WITH Configs <- {Params}, Inputs <- CoreInputs

\* The engine's own assumptions (rule 10 of validateConfig).
ASSUME ParamsAssumption ==
  /\ Forever \in Nat \ {0} /\ Params \in Engine!ConfigType
  /\ 0 < Params.pcMin /\ Params.pcMin <= Params.pc /\ Params.pc <= Params.pcMax

\* ControlTask, OutputTask and SafetyTask are pinned to one core; none of them
\* goes on while one of a higher priority has work in hand.
SafetyAway == safPc = "wait" /\ Core1Runs
OutputAway == outPc = "wait" /\ SafetyAway

\* post_cool_remaining_s, rounded down to whole seconds
CoolShown == postCool /\ pcT + Second <= cfg.pc

\* What boots after a reset finds in RTC memory, and whether the reset counts
\* as a fault.
NoRtc == [wasOn |-> FALSE, latch |-> FALSE, boots |-> 0, sw |-> FALSE]

\* Slips in readBoot: the count of fault boots without its bound, the latch
\* cleared with the rest of the block.
ReadBootUnbounded(b, hard) ==
  [b EXCEPT !.sw = FALSE, !.boots = IF hard \/ b.sw THEN @ + 1 ELSE @]

ReadBootForgetful(b, hard) ==
  [NoRtc EXCEPT !.wasOn = b.wasOn,
                !.boots = IF (hard \/ b.sw) /\ b.boots < StormLimit
                          THEN b.boots + 1 ELSE b.boots]

\* readBoot's part for a reset that left the block b in RTC memory; its cause
\* is one of PANIC, ..._WDT and BROWNOUT, or (not hard) SOFTWARE
ReadBoot(b, hard) ==
  LET isFault == hard \/ b.sw
  IN  [b EXCEPT !.sw = FALSE,
                !.boots = IF isFault /\ @ < StormLimit THEN @ + 1 ELSE @]

\* A slip: only the fans' pins are made passive early.
EarlyFansOnly == [o \in Out |-> o \in R /\ gpio[o]]

\* outputsEarlyInit
EarlyPins == Off

\* setup() and begin()
Reset(b, hard) ==
  LET cool == (hard \/ b.sw) /\ b.wasOn
      kept == ReadBoot(b, hard)
  IN  /\ eff' = Off /\ held' = [o \in Out |-> Forever]
      /\ wasHeating' = FALSE /\ postCool' = cool /\ bootPc' = cool /\ pcT' = 0
      /\ applied' = Off /\ violation' = FALSE
      /\ sys' = IF kept.boots >= StormLimit THEN "RECOVERY" ELSE "SELF_TEST"
      /\ chainReq' = FALSE /\ latched' = kept.latch
      /\ snapCool' = FALSE
      /\ outPc' = "wait" /\ outs' = Off /\ trace' = FALSE
      /\ outIdle' = 0 /\ outAge' = 0
      /\ safPc' = "wait" /\ safLatch' = FALSE /\ safHealthy' = FALSE
      /\ safIdle' = 0 /\ miss' = 0
      /\ fault' = "none" /\ reboot' = FALSE
      /\ gpio' = EarlyPins
      /\ rtc' = kept
      /\ UNCHANGED cfg

\* emergency(): heaters off, the block marked, restart by software
Emergency == Reset([rtc EXCEPT !.sw = TRUE, !.wasOn = TRUE], FALSE)

-----------------------------------------------------------------------------
OutputDue == OutputAway /\ outIdle > 0 /\ fault # "output hung"

\* A slip: the resistors themselves are left out of the trace.
HeatTraceCoolOnly(o) == snapCool

HeatTrace(o) == snapCool \/ \E r \in R : o[r]

\* OutputTask: outputStep under the mutex, with copies of the outputs and of
\* the heat trace for later
OutputLocked(on) ==
  /\ OutputDue /\ LockFree
  /\ Engine!OutputStep(CoreInput(chainReq, sys = "RUN", latched, on))
  /\ sys' = IF sys = "RUN" /\ latched THEN "FAILSAFE"
            ELSE IF sys = "FAILSAFE" /\ ~latched THEN "RUN" ELSE sys
  /\ outPc' = "R1"
  /\ outs' = applied'
  /\ trace' = HeatTrace(applied')
  /\ UNCHANGED <<chainReq, latched, snapCool, outIdle, outAge,
                 safVars, devVars, gpio, rtc, lockAge>>

\* ... the mutex not to be had in time: no heartbeat, but the watchdog is fed
OutputMiss ==
  /\ OutputDue /\ ~LockFree
  /\ outIdle' = 0
  /\ UNCHANGED <<coreVars, outPc, outs, trace, outAge, safVars, devVars, gpio,
                 rtc, lockAge>>

\* ... outputsWrite(outs), after the mutex is given back: pin by pin
AfterPin == [R1 |-> "R2", R2 |-> "HF", HF |-> "VF", VF |-> "trace"]

OutputWrite ==
  /\ SafetyAway /\ outPc \in Out
  /\ gpio' = [gpio EXCEPT ![outPc] = outs[outPc]]
  /\ outPc' = AfterPin[outPc]
  /\ UNCHANGED <<coreVars, outs, trace, outIdle, outAge, safVars, devVars, rtc,
                 lockAge>>

\* ... rtcSetHeaterWasOn(heat_trace), the heartbeat, the watchdog
OutputTrace ==
  /\ SafetyAway /\ outPc = "trace"
  /\ rtc' = [rtc EXCEPT !.wasOn = trace]
  /\ outPc' = "wait" /\ outIdle' = 0 /\ outAge' = 0
  /\ outs' = Off /\ trace' = FALSE    \* dead until the next cycle
  /\ UNCHANGED <<coreVars, safVars, devVars, gpio, lockAge>>

-----------------------------------------------------------------------------
SafetyDue == SafetyAway /\ safIdle >= SafPeriod

\* A slip: the heartbeat is beaten in a cycle without the mutex, too.
OutputStalledIdle == outIdle > OutStall

\* now - g_hb[T_OUT] > kOutputStallMs
OutputStalled == outAge > OutStall

\* SafetyTask: baseTick (with the self-test), safetyStep (a fault
\* may trip) and publish, under the mutex; this run of the firmware may have grown
\* older than kFaultWindowMs
SafetyLocked(tested, trips, grown) ==
  /\ SafetyDue /\ ~OutputStalled /\ LockFree
  /\ sys' = IF sys = "SELF_TEST" THEN tested ELSE sys
  /\ latched' = (latched \/ trips)
  /\ snapCool' = CoolShown
  /\ safLatch' = latched'
  /\ safHealthy' = (sys' = "RUN" /\ grown)
  /\ safPc' = "rtc"
  /\ miss' = 0
  /\ UNCHANGED <<engineVars, chainReq, outVars, safIdle, devVars, gpio, rtc,
                 lockAge>>

\* ... rtcSetSafetyLatched and rtcClearFaultBoots, after the mutex is given
\* back
SafetyRtc ==
  /\ safPc = "rtc"
  /\ rtc' = [rtc EXCEPT !.latch = safLatch,
                        !.boots = IF safHealthy THEN 0 ELSE @]
  /\ safPc' = "wait" /\ safIdle' = 0
  /\ safLatch' = FALSE /\ safHealthy' = FALSE    \* dead until the next cycle
  /\ lockAge' = IF latched /\ safLatch /\ lockAge = 0 THEN 1 ELSE lockAge
  /\ UNCHANGED <<coreVars, outVars, miss, devVars, gpio>>

SafetyMiss ==
  /\ SafetyDue /\ ~OutputStalled /\ ~LockFree
  /\ miss + 1 < MissLimit
  /\ miss' = miss + 1
  /\ safIdle' = 0
  /\ UNCHANGED <<coreVars, outVars, safPc, safLatch, safHealthy, devVars, gpio,
                 rtc, lockAge>>

\* ... OUTPUT_TASK_STALL, seen without the mutex, or CORE_LOCK_TIMEOUT
SafetyEmergency ==
  /\ SafetyDue
  /\ OutputStalled \/ (~LockFree /\ miss + 1 >= MissLimit)
  /\ Emergency
  /\ UNCHANGED lockAge

-----------------------------------------------------------------------------
\* ControlTask: controlStep decides whether heat is wanted
ControlCycle(want) ==
  /\ LockFree /\ OutputAway
  /\ chainReq' = (want /\ sys = "RUN" /\ ~latched)
  /\ UNCHANGED <<engineVars, sys, latched, snapCool, outVars,
                 safVars, devVars, gpio, rtc, lockAge>>

\* alarmReset, which runs safetyStep(0) in the task of the operator's channel:
\* what has gone is cleared, what has come trips
AlarmReset(trips) ==
  /\ LockFree /\ latched # trips
  /\ latched' = trips
  /\ lockAge' = 0
  /\ UNCHANGED <<engineVars, sys, chainReq, snapCool, outVars,
                 safVars, devVars, gpio, rtc>>

RecoveryAck ==
  /\ LockFree /\ sys = "RECOVERY"
  /\ sys' = "SELF_TEST"
  /\ UNCHANGED <<engineVars, chainReq, latched, snapCool, outVars,
                 safVars, devVars, gpio, rtc, lockAge>>

\* handleReboot: refused while a resistor is on or a post-cool is shown
HandleReboot ==
  /\ LockFree /\ ~snapCool /\ \A r \in R : ~applied[r]
  /\ reboot' = TRUE
  /\ UNCHANGED <<coreVars, outVars, safVars, fault, gpio, rtc, lockAge>>

\* netTask, when the delay of the request is over: ESP.restart()
SoftRestart ==
  /\ reboot
  /\ Reset(rtc, FALSE)
  /\ UNCHANGED lockAge

-----------------------------------------------------------------------------
\* A fault strikes this run of the firmware.
Strike(f) ==
  /\ fault = "none" /\ fault' = f
  /\ UNCHANGED <<coreVars, outVars, safVars, reboot, gpio, rtc, lockAge>>

Release ==
  /\ fault = "lock held" /\ fault' = "none"
  /\ UNCHANGED <<coreVars, outVars, safVars, reboot, gpio, rtc, lockAge>>

\* Time goes on when nobody that can run is due, and until the watchdog bites.
Tick ==
  /\ Core1Runs => OutputAway
  /\ ~OutputDue /\ ~SafetyDue
  /\ outIdle < Wdt /\ safIdle < Wdt
  /\ outIdle' = outIdle + 1 /\ safIdle' = safIdle + 1 /\ outAge' = outAge + 1
  /\ lockAge' = IF lockAge \in 1 .. OutStall + Wdt + 1 THEN lockAge + 1 ELSE lockAge
  /\ UNCHANGED <<coreVars, outPc, outs, trace, safPc, safLatch, safHealthy,
                 miss, devVars, gpio, rtc>>

TaskWatchdog ==
  /\ outIdle >= Wdt \/ safIdle >= Wdt
  /\ Reset(rtc, TRUE)
  /\ UNCHANGED lockAge

\* A panic, an interrupt watchdog or a brownout, at any moment ...
Panic == Reset(rtc, TRUE) /\ UNCHANGED lockAge

\* ... between a field of the RTC block and its check sum: the block is void
TornPanic ==
  /\ outPc = "trace" \/ safPc = "rtc"
  /\ Reset(NoRtc, TRUE)
  /\ lockAge' = 0

PowerLoss == Reset(NoRtc, FALSE) /\ lockAge' = 0

-----------------------------------------------------------------------------
Init ==
  /\ cfg = Params
  /\ eff = Off
  /\ held = [o \in Out |-> Forever]
  /\ wasHeating = FALSE /\ postCool = FALSE /\ bootPc = FALSE /\ pcT = 0
  /\ applied = Off /\ violation = FALSE
  /\ sys = "SELF_TEST" /\ chainReq = FALSE
  /\ latched = FALSE /\ snapCool = FALSE
  /\ outPc = "wait" /\ outs = Off /\ trace = FALSE /\ outIdle = 0 /\ outAge = 0
  /\ safPc = "wait" /\ safLatch = FALSE /\ safHealthy = FALSE
  /\ safIdle = 0 /\ miss = 0
  /\ gpio = Off /\ rtc = NoRtc
  /\ fault = "none" /\ reboot = FALSE
  /\ lockAge = 0

FaultReset == SafetyEmergency \/ TaskWatchdog \/ Panic

Next ==
  \/ \E on \in Asks : OutputLocked(on)
  \/ OutputMiss \/ OutputWrite \/ OutputTrace
  \/ \E tested \in {"SELF_TEST", "RUN", "FAILSAFE"}, trips, grown \in BOOLEAN :
       SafetyLocked(tested, trips, grown)
  \/ SafetyRtc \/ SafetyMiss
  \/ \E want \in BOOLEAN : ControlCycle(want)
  \/ \E trips \in BOOLEAN : AlarmReset(trips)
  \/ RecoveryAck \/ HandleReboot \/ SoftRestart
  \/ (\E f \in Faults : Strike(f)) \/ Release \/ Tick
  \/ FaultReset \/ TornPanic \/ PowerLoss

Spec == Init /\ [][Next]_vars

-----------------------------------------------------------------------------
HeatAtPins == \E r \in R : gpio[r]

\* The types of the state.
TypeOK ==
  /\ Engine!TypeOK
  /\ sys \in {"SELF_TEST", "RUN", "FAILSAFE", "RECOVERY"}
  /\ {chainReq, latched, snapCool, trace, safLatch, safHealthy,
      reboot} \subseteq BOOLEAN
  /\ outPc \in Out \union {"wait", "trace"} /\ safPc \in {"wait", "rtc"}
  /\ {outs, gpio} \subseteq [Out -> BOOLEAN]
  /\ outIdle \in 0 .. Wdt /\ safIdle \in 0 .. Wdt /\ outAge \in Nat
  /\ miss \in 0 .. MissLimit - 1
  /\ fault \in Faults
  /\ rtc \in [wasOn : BOOLEAN, latch : BOOLEAN, boots : 0 .. StormLimit,
              sw : {FALSE}]
  /\ lockAge \in Nat

\* OUTPUT_AND_INTERLOCKS 5.2, at the pins: the fan covers the heat between the
\* writes of two pins, too, and through every reset.
FanCoversHeatAtPins == HeatAtPins => gpio["HF"]

\* SYSTEM_ARCHITECTURE 4.1: a resistor is not left on by an OutputTask that
\* hangs or is kept from the core; the pins follow the core within the stall
\* time and one safety period (or the watchdog, where SafetyTask is to blame).
NoStaleHeat == HeatAtPins => outAge <= StaleLimit

\* ALARM_AND_EVENTS, 64: a lockout that SafetyTask has tripped takes the
\* heaters off in bounded time, whatever hangs, and keeps them off through
\* resets, until an alarm reset or the loss of the RTC memory.
LockoutHolds == HeatAtPins => lockAge <= StaleLimit + 1

\* D-20: after a reset that counts as a fault, and that caught the device with
\* a resistor's pin on, the fan cools at once (but for a reset in the gap
\* between writing the pins and writing the trace).
HotResetIsCooled ==
  [][FaultReset /\ HeatAtPins /\ outPc \notin {"R2", "HF", "VF", "trace"}
       => postCool']_vars

\* boot_state.h, 17: the trace is kept in every cycle in which a resistor is on
\* or a post-cool goes on, so that a reset that counts as a fault between two
\* cycles, at a time when a resistor has been on and still is to be cooled, is
\* followed by a post-cool.  (It does not hold: see the README.)
TraceCoversCooling ==
  [][FaultReset /\ OutputAway /\ postCool /\ (\E r \in R : held[r] < Forever)
       => postCool']_vars

\* web.cpp, 574: a restart that an operator asks for does not come while the
\* device heats.  (It does not hold: see the README.)
RestartFindsNoHeat == [][SoftRestart => ~HeatAtPins]_vars

=============================================================================
