-------------------------------- MODULE Modes --------------------------------
(***************************************************************************)
(* The system state machine (cc_state) with what drives it: the control    *)
(* and output loops of the core, the service mode and its output tests,    *)
(* and a firmware update from the web page or the development tool, which  *)
(* needs the heating to have come to rest.                                 *)
(*                                                                         *)
(* A handler runs within one critical section of the core.  An upload is   *)
(* received by the one task that serves the network, while the core's      *)
(* loops go on.  What the interlock makes of a request is Interlock's      *)
(* matter: here resistors may be slow to follow, and post-cool may last.   *)
(***************************************************************************)
EXTENDS Naturals, FiniteSets

CONSTANTS
  Outputs,                    \* outputs a test may switch, "R1" and "R2" among them
  PrepTimeout,                \* ota_prep_timeout_ms, in output steps
  ServiceTimeout,             \* service_timeout_min
  TestMax,                    \* service_test_max_s
  MaxTries, MaxResets         \* bounds: ota/begin requests, restarts

VARIABLES
  sys,       \* SystemSM's state
  t,         \* its timer: t_ in OTA_PREP, svc_t_ in SERVICE
  chain,     \* chain_request_
  on,        \* resistors that are on
  cool,      \* post-cool goes on
  wasHeating,\* the interlock's: a resistor was on, or heat asked for
  tests,     \* svc_test_
  testT,     \* svc_test_t_
  lockout,   \* SafetySupervisor's
  page,      \* the page's update: "idle", "preparing", "ready", "uploading"
  tries,
  up,        \* the upload at the device
  rebooting, \* a restart is scheduled
  resets

loopVars == <<chain, on, cool, wasHeating, lockout>>
svcVars == <<tests, testT>>
updateVars == <<page, tries, up, rebooting>>
vars == <<sys, t, loopVars, svcVars, updateVars, resets>>

Resistors == {"R1", "R2"}
Longest == IF PrepTimeout < ServiceTimeout THEN ServiceTimeout ELSE PrepTimeout

\* SystemSM::go
Go(s) == sys' = s /\ t' = 0
Stay == UNCHANGED <<sys, t>>

-----------------------------------------------------------------------------
(* The loops of the core *)

\* Demand is made in RUN only; the self-test ends well, badly, or goes on.
ControlStep ==
  /\ chain' \in {FALSE, sys = "RUN" /\ ~lockout}
  /\ \/ sys = "SELF_TEST" /\ \E s \in {"RUN", "FAILSAFE"} : Go(s)
     \/ Stay
  /\ UNCHANGED <<on, cool, wasHeating, lockout, svcVars, updateVars, resets>>

SafetyStep ==
  /\ lockout' \in BOOLEAN
  /\ UNCHANGED <<sys, t, chain, on, cool, wasHeating, svcVars, updateVars, resets>>

\* The resistors the interlock may have on after a step: those asked for and,
\* for their minimum time, those that were; none outside RUN and SERVICE or
\* under a lockout.
MayBeOn(testing) ==
  CASE lockout         -> {}
    [] sys = "RUN"     -> IF chain THEN Resistors ELSE on
    [] sys = "SERVICE" -> (testing \union on) \intersect Resistors
    [] OTHER           -> {}

\* A slip: preparation waits for the heating however long it takes.
NextSysPatient(idle, timer) ==
  CASE sys \in {"RUN", "SERVICE", "OTA_PREP"} /\ lockout   -> "FAILSAFE"
    [] sys = "FAILSAFE" /\ ~lockout                        -> "RUN"
    [] sys = "OTA_PREP" /\ ~lockout /\ idle                -> "OTA"
    [] sys = "SERVICE" /\ ~lockout /\ timer >= ServiceTimeout        -> "RUN"
    [] OTHER                                               -> sys

\* SystemSM::step
NextSys(idle, timer) ==
  CASE sys \in {"RUN", "SERVICE", "OTA_PREP"} /\ lockout   -> "FAILSAFE"
    [] sys = "FAILSAFE" /\ ~lockout                        -> "RUN"
    [] sys = "OTA_PREP" /\ ~lockout /\ idle                -> "OTA"
    [] sys = "OTA_PREP" /\ ~lockout /\ ~idle /\ timer >= PrepTimeout -> "RUN"
    [] sys = "SERVICE" /\ ~lockout /\ timer >= ServiceTimeout        -> "RUN"
    [] OTHER                                               -> sys

\* Heat is asked for, whether or not a resistor is on yet (heat_chain).
HeatAsked(testing) ==
  /\ ~lockout
  /\ \/ sys = "RUN" /\ chain
     \/ sys = "SERVICE" /\ testing \intersect Resistors # {}

\* Heat that ends, even in the prestart of the fan, is followed by post-cool.
OutputStep ==
  LET testing == {k \in tests : sys = "SERVICE" /\ testT[k] + 1 < TestMax}
      timer == IF t < Longest THEN t + 1 ELSE t
  IN  /\ on' \in SUBSET MayBeOn(testing)
      /\ wasHeating' = (on' # {} \/ HeatAsked(testing))
      /\ cool' \in {~wasHeating' /\ (wasHeating \/ cool), FALSE}
      /\ sys' = NextSys(~chain /\ ~cool' /\ on' = {}, timer)
      /\ t' = IF sys' = sys THEN timer ELSE 0
      /\ tests' = IF sys = "SERVICE" /\ sys' # sys THEN {} ELSE testing
      /\ testT' = [k \in Outputs |-> IF k \in testing THEN testT[k] + 1 ELSE 0]
      /\ UNCHANGED <<chain, lockout, updateVars, resets>>

-----------------------------------------------------------------------------
(* The handlers; none runs while an upload is received. *)

Served == up # "writing"

recoveryAck ==
  /\ Served /\ sys = "RECOVERY"
  /\ Go("SELF_TEST")
  /\ UNCHANGED <<loopVars, svcVars, updateVars, resets>>

\* The phase of the heating chain, which it looks at too, is left out: here
\* it may let in a little more.
serviceEnter ==
  /\ Served /\ sys = "RUN" /\ ~chain /\ ~cool /\ on = {}
  /\ Go("SERVICE")
  /\ UNCHANGED <<loopVars, svcVars, updateVars, resets>>

serviceExit ==
  /\ Served /\ sys = "SERVICE"
  /\ Go("RUN") /\ tests' = {}
  /\ UNCHANGED <<loopVars, testT, updateVars, resets>>

\* A slip: the other resistor's test is not looked at.
serviceTestBoth(k, set) ==
  /\ Served /\ sys = "SERVICE"
  /\ tests' = IF set THEN tests \union {k} ELSE tests \ {k}
  /\ testT' = [testT EXCEPT ![k] = 0]
  /\ t' = 0
  /\ UNCHANGED <<sys, loopVars, updateVars, resets>>

\* One resistor at a time; any test puts off the end of the service mode.
serviceTest(k, set) ==
  /\ Served /\ sys = "SERVICE"
  /\ set /\ k \in Resistors => tests \intersect (Resistors \ {k}) = {}
  /\ tests' = IF set THEN tests \union {k} ELSE tests \ {k}
  /\ testT' = [testT EXCEPT ![k] = 0]
  /\ t' = 0
  /\ UNCHANGED <<sys, loopVars, updateVars, resets>>

-----------------------------------------------------------------------------
(* A firmware update *)

\* otaBegin; it refuses in the cold (\E cold) and outside RUN.
OtaBegin(cold) == IF ~cold /\ sys = "RUN" THEN Go("OTA_PREP") ELSE Stay
\* otaAbort
OtaAbort == IF sys = "OTA_PREP" THEN Go("RUN") ELSE Stay

Start ==
  /\ page = "idle"
  /\ page' = "preparing" /\ tries' = 0
  /\ UNCHANGED <<sys, t, loopVars, svcVars, up, rebooting, resets>>

\* The page asks every 2 s until the device is ready, and gives up when told
\* of the cold.
handleOtaBegin ==
  /\ Served /\ page = "preparing" /\ tries < MaxTries
  /\ tries' = tries + 1
  /\ \E cold \in BOOLEAN :
       IF sys = "OTA" THEN page' = "ready" /\ Stay
       ELSE OtaBegin(cold) /\ page' = IF cold THEN "idle" ELSE page
  /\ UNCHANGED <<loopVars, svcVars, up, rebooting, resets>>

\* It gives up after 15 minutes, or at any request that fails, or is closed.
GiveUp ==
  /\ page \in {"preparing", "ready"}
  /\ page' = "idle"
  /\ UNCHANGED <<sys, t, loopVars, svcVars, tries, up, rebooting, resets>>

\* RAW_START: no session, a wrong password, not ready, no room: refused.
otaRawStart ==
  /\ up = "none" /\ page = "ready"
  /\ page' = "uploading"
  /\ up' \in {"refused"} \union (IF sys = "OTA" THEN {"writing"} ELSE {})
  /\ UNCHANGED <<sys, t, loopVars, svcVars, tries, rebooting, resets>>

\* RAW_END.
otaRawEnd ==
  /\ up = "writing" /\ page = "uploading"
  /\ up' \in {"written", "refused"}
  /\ UNCHANGED <<sys, t, loopVars, svcVars, page, tries, rebooting, resets>>

\* RAW_ABORTED: the connection broke, and no handler is called.
otaRawAborted ==
  /\ page = "uploading" /\ up \in {"writing", "refused"}
  /\ up' = "none" /\ page' = "idle"
  /\ UNCHANGED <<sys, t, loopVars, svcVars, tries, rebooting, resets>>

otaDone ==
  /\ page = "uploading" /\ up \in {"written", "refused"}
  /\ page' = "idle" /\ up' = "none"
  /\ IF up = "written" THEN rebooting' = TRUE /\ Stay
     ELSE OtaAbort /\ UNCHANGED rebooting
  /\ UNCHANGED <<loopVars, svcVars, tries, resets>>

\* A slip: the upload goes on before the preparation has come to its end.
onStartUnready ==
  /\ up = "none"
  /\ \E cold \in BOOLEAN : OtaBegin(cold)
  /\ up' = "writing"
  /\ UNCHANGED <<loopVars, svcVars, page, tries, rebooting, resets>>

\* The development tool.  An upload that finds the device not ready begins
\* the preparation and is cancelled, which the library reports as an error.
onStart ==
  /\ up = "none"
  /\ \E cold \in BOOLEAN : OtaBegin(cold)
  /\ up' = IF sys = "OTA" THEN "writing" ELSE "refused"
  /\ UNCHANGED <<loopVars, svcVars, page, tries, rebooting, resets>>

onError ==
  /\ page # "uploading" /\ up \in {"writing", "refused"}
  /\ OtaAbort
  /\ up' = "none"
  /\ UNCHANGED <<loopVars, svcVars, page, tries, rebooting, resets>>

onEnd ==
  /\ page # "uploading" /\ up = "writing"
  /\ up' = "none" /\ rebooting' = TRUE
  /\ UNCHANGED <<sys, t, loopVars, svcVars, page, tries, resets>>

-----------------------------------------------------------------------------
AtRest(s) ==
  /\ sys = s /\ t = 0
  /\ chain = FALSE /\ on = {} /\ cool = FALSE /\ wasHeating = FALSE /\ lockout = FALSE
  /\ tests = {} /\ testT = [k \in Outputs |-> 0]
  /\ up = "none" /\ rebooting = FALSE

\* begin(), with a boot post-cool or not.
Restart ==
  /\ rebooting \/ resets < MaxResets
  /\ resets' = IF rebooting THEN resets ELSE resets + 1
  /\ \E s \in {"SELF_TEST", "RECOVERY"} : Go(s)
  /\ chain' = FALSE /\ on' = {} /\ cool' \in BOOLEAN /\ wasHeating' = FALSE /\ lockout' = FALSE
  /\ tests' = {} /\ testT' = [k \in Outputs |-> 0]
  /\ up' = "none" /\ rebooting' = FALSE /\ page' = "idle"
  /\ UNCHANGED tries

Init ==
  /\ \E s \in {"SELF_TEST", "RECOVERY"} : AtRest(s)
  /\ page = "idle" /\ tries = 0 /\ resets = 0

Handlers ==
  \/ recoveryAck \/ serviceEnter \/ serviceExit
  \/ \E k \in Outputs, set \in BOOLEAN : serviceTest(k, set)

Update ==
  \/ Start \/ handleOtaBegin \/ GiveUp
  \/ otaRawStart \/ otaRawEnd \/ otaRawAborted \/ otaDone
  \/ onStart \/ onError \/ onEnd

Next == ControlStep \/ SafetyStep \/ OutputStep \/ Handlers \/ Update \/ Restart

\* The loops of the core keep running, and an upload that was refused is
\* answered.
Fairness == WF_vars(OutputStep) /\ WF_vars(ControlStep) /\ WF_vars(otaDone \/ onError)

Spec == Init /\ [][Next]_vars /\ Fairness

-----------------------------------------------------------------------------
\* While an image is written the controller is in OTA with the heating at
\* rest, whatever the loops, a lockout and the page's other requests do
\* (otaRaw's test of otaReady, OTA's few ways out).
WritesAtRest == up = "writing" => sys = "OTA" /\ on = {} /\ ~chain /\ ~cool

\* An output test never outlives the service session it belongs to, and no
\* two resistors are under test at once (serviceTest, outputStep).
TestsInService ==
  /\ tests # {} => sys = "SERVICE"
  /\ ~(Resistors \subseteq tests)

\* Preparing for an update comes to an end even if post-cool never does and
\* the page keeps asking (ota_prep_timeout_ms: step, otaBegin).
PrepEnds == []<>(sys # "OTA_PREP")

\* An upload that failed gives the control back: "OTA --> RUN: OTA error
\* (image refused)" (docs/STATE_MACHINE.md), "preparation is taken back:
\* control goes on" (otaDone).
ControlResumes ==
  up = "refused" /\ sys = "OTA" ~> sys # "OTA" \/ up = "writing" \/ rebooting
=============================================================================
