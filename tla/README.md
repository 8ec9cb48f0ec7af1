# Verification of the cabin heating controller

This directory holds a TLA+ development beside the firmware in `src/`: an
ESP32 that heats a cabin with two resistors (R1, R2) behind a heater fan (HF)
and airs it with a ventilation fan (VF).  The firmware has a portable core
(`src/lib/core`, C++ without an operating system), an application around it
(`src/src/app`, FreeRTOS tasks, flash, network), and a page for the browser
(`src/tools/ui/src`) that the device serves and that polls and commands it.  Paths below are relative to
the directory that holds `src/`.

Modules are checked with TLC (`tlc -config X.cfg M`) and, where there is a
`...Proofs` module, proved with TLAPS (`tlapm M.tla`).  `PROJECT.json` lists the
runs, which definition models which lines, the hazards, and the theorems.

## 1. Inventory

| component | state it keeps | operations | who calls it |
|---|---|---|---|
| interlock engine, output guard (`cc_interlock`) | effective outputs, how long each has kept its value, post-cool and its timer; the outputs applied last | `step`, `startBootPostCool`, `setParams`; `apply` | `outputStep`, every 100 ms |
| power manager (`cc_power`) | stage, dwell, lead resistor, pending rotation, a window per resistor, requests of the last tick | `step`, `setParams` | `outputStep`, `commitConfig` |
| heating chain (`cc_state`) | phase of heating | `step` | `outputStep` |
| safety supervisor (`cc_safety`) | latches, sensor fault hystereses, sliding windows | `step`, `restoreLatched` | `safetyStep`, every 250 ms; `alarmReset` |
| alarm manager (`cc_alarm`) | a life cycle per alarm, a queue of transitions | `setCondition`, `step`, `ack`, `reset`, `importPersist` | `safetyStep`, commands, boot |
| demand, PID, ventilation, profiles, schedules, performance monitor | numbers and timers | `step` | `controlStep`, every 2 s or more |
| core orchestration (`cc_core`) | all of the above, commands, snapshot | `baseTick`, `safetyStep`, `controlStep`, `outputStep`, commands | tasks, web, MQTT |
| tasks (`tasks.cpp`) | the core mutex, heartbeats, miss counters | SafetyTask, OutputTask, ControlTask, SensorTask | FreeRTOS, one core, fixed priorities |
| boot state (`boot_state.cpp`) | a block in RTC memory with a check sum | `readBoot`, setters | boot, SafetyTask, OutputTask, emergency path |
| generation store (`cc_store`) | three files per record, generation | `load`, `save` | storage task |
| storage task (`storage.cpp`) | what is dirty, since when, requests to flush and erase | `cycle`, `flushNow`, `factoryErase`, `bootLoad` | itself, network task, web |
| network state machine, manager (`cc_netfsm`, `net_manager.cpp`) | phase, timers, access point, roll-back of credentials, restart request | `step`, `requestReboot` | network task |
| MQTT client (`mqtt_client.cpp`) | session, flags and queue from the library's task, order of first publications | events, `create`, `teardown`, publish steps | MQTT task, library callbacks |
| authentication (`cc_auth`, `auth.cpp`) | sessions, failed logins | login, check, password, PIN | web task |
| system state machine (`cc_state`), service and OTA | BOOT, SELF_TEST, RUN, FAILSAFE, SERVICE, OTA_PREP, OTA, RECOVERY; the upload received | `step`, one operation per event; `serviceTest`; `ota/begin`, upload | `outputStep`, web, development tool |
| schedules (`cc_schedule`) | the programs, the occurrence passed over | `evaluate`, `activeOccurrence`, hold | `controlStep`, commands |
| web server (`web.cpp`) | an upload, a restart that is due | a handler per path, each with one critical section or two | network task |
| page: polling, commands (`10_runtime`, `20_overview`, `30_control`, `40_outputs_trends`) | the last data and when it came, pending commands, controls that are busy or edited | `poll`, `sendCmd`, `renderAll` | a timer, the user |
| page: Wi-Fi set-up (`15_wifi`) | the request followed, its base and stage | `submitWifi`, `startRetry`, `finishSetup`, `progressState` | the user, every poll |
| page: settings (`60_settings`) | a baseline and inputs per section | `saveSection`, `revertSection` | the user |
| page: programs (`35_programs`) | a copy of the list, the editor | `load`, `save`, `drawWeek` | the user, every 10 s |
| page: feeds, session (`40`, `50`, `90`) | what was loaded last, the window chosen, whether a session is needed | `load`, `go`, `poll` | timers, the user |
| serial console, state JSON, LED, trend | little or none | format and forward | users |

How they interact.  The four control tasks share the core through one mutex.
They take it with a timeout and go on without it when they do not get it, and
what they do after giving it back (pins, RTC memory, heartbeats) is not covered
by it.  Commands from web, MQTT and console take the same mutex in their own
tasks.  The storage and MQTT tasks copy what they need under it.  SafetyTask
watches OutputTask by its heartbeat; the task watchdog watches both.

What is hard here, and hardly reached by a test:

* sequences of demands, lockouts, minimum times and configuration changes at the
  relays, judged a second time by a guard with a memory of its own;
* steps of two tasks in an unlucky order, values read under the mutex and used
  after it, snapshots that are older than they look;
* resets at any moment: watchdog, panic, power loss, software restart, each of
  which leaves something else behind;
* power cuts between the file operations of a save, failing operations, several
  boots in a row;
* check-then-act between tasks (restart, service, flush, erase);
* timers and counters at their ends;
* answers that come late, never, out of order or from before a restart, and page
  code that awaits them while the user, other pages, MQTT and the device go on;
* two critical sections in one handler; two programs for one arithmetic (the week
  as the device runs it and as the page draws it);
* modes that hand over to each other while the loops of the core go on.

What makes each component correct: heat never without the fan, before its
prestart, or without a post-cool (interlock); the follower only adds, the lead
does not change under load, a full demand is met (power); the pins follow the
core in bounded time or the device resets, a lockout holds across resets
(tasks, boot state); nothing saved is lost (store); a latched fault is not
forgotten and an alarm does not vanish unseen (safety, alarms); no state of the
system machine is a dead end, and an image is written only over a heater at rest
(state machine); what a caller is told has been written is written (storage task);
the device can always be reached again (network machine); the page does not call
old data live, does not report as done what the device has not done, frees every
control, undoes nothing it did not mean to, and comes to show what the device has
(page).

## 2. Modules

| module | models | with |
|---|---|---|
| `Interlock` | `InterlockEngine::step`, `postCoolDone`, `OutputGuard::apply` | one action `OutputStep(in)` per tick, `SetParams` |
| `FanContract` | nothing in the code: the abstract promise about the heater fan | `Tick`, `Relimit` |
| `InterlockProofs` | | the theorems about `Interlock` |
| `Tasks` | `tasks.cpp`, `boot_state.cpp`, pins, restart request, around `Interlock` (an instance of it, `Engine`) | an action per critical section and per write after it |
| `TasksProofs` | | the theorems about `Tasks`, with those about `Interlock` as an instance |
| `Power` | `PowerManager` | `PowerStep`, `SetPower` |
| `Heating` | the heating part of `outputStep`: `Power`, then `Interlock` | `OutputTick`, `Commit` |
| `HeatingProofs` | | the theorems about `Heating`, with those about `Interlock` as an instance |
| `GenStore` | `GenStore::load`, `save`, `LfsBlob` | an action per file operation |
| `GenStoreProofs` | | the theorems about `GenStore` |
| `Page` | polls, staleness, commands and their controls, against a device that publishes, is changed by others and restarts | `Tick` per POLL_MS; a poll or a command is sent, served and answered (or fails) in steps of its own |
| `PageProofs` | | the theorems about `Page` |
| `Attempts` | nothing in the code: what the network side promises to the page | `Ask`, `Begin`, `Proceed`, `Boot` |
| `NetFsm` | `NetFsm::step`, the loop of `netTask`, the handlers that ask for an attempt | an action per branch of `step`, one per request |
| `NetFsmProofs` | | the theorems about `NetFsm`, its refinement of `Attempts` among them |
| `Onboarding` | `15_wifi.js` on top of `Attempts` | an action per button, per request served, per answer, per poll |
| `Programs` | `35_programs.js` against `/api/programs` | clicks, loads, saves, answers |
| `Settings` | `60_settings.js` against `settingsPost`, `setField` and MQTT | edits, saves, two critical sections, answers |
| `Schedule` | `cc_schedule.cpp` and `drawWeek` | `Minute`, `programHold`, `setPrograms`; the rest are operators |
| `Feeds` | loads of trends and alarms, change of pages, session | clicks, loads, polls, answers |
| `Modes` | `SystemSM`, service, tests and update around the loops of the core | `ControlStep`, `SafetyStep`, `OutputStep`, an action per handler and per event of an upload |
| `Console` | the seven parts of the console side by side, and what is claimed of each | `NetFsm`, and the six others as instances with variables of their own |
| `ConsoleProofs` | | the theorems about the modes, the settings and the Wi-Fi set-up in `Console` |
| `ProgramsProofs` | | the theorems about the programs' list and their week in `Console` |
| `MC...` | | constants for TLC |

**Interlock.** Variables carry the members' names in short: `eff` (`eff_`),
`held` (`on_t_` or `off_t_`, whichever runs: the other one is zero), `wasHeating`,
`postCool`, `bootPc`, `pcT`, and `applied` of the guard.  An input is a record
with the fields of `InterlockInput`; the environment picks any of `Inputs` in
every tick, because what makes demands and lockouts (floating-point control)
is not needed for what is claimed.  Time is counted in output ticks; `dt` in the
input allows for ticks that run late.

**Tasks.** A task's work under the mutex is one action (nobody else sees the
middle of it); what follows the mutex is an action per write: four pins in the
order of `outputsWrite`, then the RTC trace; the RTC latch and fault boots for
SafetyTask.  Tasks of one core run by priority: SafetyTask preempts OutputTask
between any two of its actions, OutputTask preempts ControlTask.  `Tick` lets an
output period pass and waits for whoever is due, which is how FreeRTOS runs
two tasks of top priority that do not hang; the hanging ones are faults of their
own (`Strike`): the mutex is held by somebody, OutputTask hangs, SafetyTask spins.
Resets are actions: panic, watchdog, emergency path, software restart, power loss,
and a panic between a field of the RTC block and its check sum.

**Power, Heating.** Demands are per cents out of `Demands`; a stage, a duty and a
window per resistor as in `PowerManager::step`.  In `Heating` the requests feed
the interlock engine in the same tick, as in `outputStep`.  Floating-point shares
are rounded down to per cents, so that the powers are assumed to be such that neither
resistor has less than one per cent of both's power (`PowerConfigsAssumption`).

**GenStore.** A file holds a frame with a generation, or nothing readable
(generation 0 stands for a missing file, a bad magic, length or check sum).
Verification of a write is an outcome (`Write` or `WriteFails`), not arithmetic.
`LfsBlob::rename` removes its target first: `ClearTarget` is a step of its own,
with the power able to fail after it.  `kept` is a history variable: the frame
that was last acknowledged, by a load or by a save with result OK.

**Page.** Time is counted in POLL_MS; a request is at most `MaxDelay` old (the browser's
limit, as the code has none) and everything may be answered in any order until then, also
after a restart of the device, which takes `BootTime` and recalls nothing: no relation between
the two is assumed.  `cmd[c]` is the life of a command: sent, served (with the `seq` and, as
history, the run of the device and what it had published by then, `boot` and `at`), waiting for
its confirmation.  Every answer ends in `renderAll`, which
updates the widgets and looks at every waiting command.  `ConfirmedByDevice` says that the data that
confirms a command was published after it was taken (`Reflects`), with one exception that the
code leaves open: data of a run of the device that ended before the command was taken
(`Outlived`).  `seq_` starts anew at every boot and the page compares nothing else, so that such data
confirms a command of the new run if it happens to show the value asked for; without the exception TLC
finds the trace in seconds (a restart between two polls, a command taken by the new run, and the
next poll that fails).  What is left of the promise there is that the data is as old as the restart took.  A widget is a number with a
button, a radio group (both marked while edited) or a switch.

**NetFsm, Attempts, Onboarding.** `NetFsm` is one action per branch of `step`; time counts
up in a phase and down in a handover, in place of differences of `millis()`.  The page
sees of it only what `/api/data` says: the number of the latest attempt, its result, the
network, whether a handover is going on.  `Attempts` states that as an abstract machine,
with two history fields: how many requests had been accepted before the attempt began,
and in which run of the device.  An address may come after its attempt was given up (`LinkUp`), and takes the
machine online from every phase but AP_ONLY (`StepConnected`, as `NetFsm::step` looks at GOT_IP before the
phase); for the page that is a step from FAILED or NONE to CONNECTED without a new number, which
`Attempts` has among its `Moves`.  `NetFsm` is shown to implement `Attempts`; `Onboarding` extends
`Attempts`, so that what is shown of the page holds for every device that keeps the
promise, and for this one in particular.  The transition out of AP_ONLY with a
configured network (`cc_netfsm.cpp:94-95`) never fires: every way of storing a network also
asks for an attempt.  In `Onboarding` it is left out which view of the dialog is open: that
only keeps the user from some of the requests.  The answers to its requests and polls may come late, from
before a restart included.  Data of the run before has a count of its own, which may be beyond the base
of a request the new run took: that is the one exception in `SuccessIsNew`.

**Programs, Settings, Feeds.** A request is a record that is sent, served and answered, in
`Programs` and `Feeds` one of a sequence of requests under way.  History variables tell
what the page has been told of (`acked`), what it cannot know (`doubt`: a lost answer, a load
that was overtaken) and what others have changed (`foreign`), so that each property
excludes what the code cannot do, and no more.  Device-side checks of single values are
left out, those that relate two fields are there (`setField`, `Candidate`, key after key).

In `Settings` the sections in `Stored` (MQTT and network) are written to flash before the core's keys are applied
(`Store`: mqttcfg::apply, net::apply), one key after the other.  A write may fail after some of
them, and when all are written and in force the core's keys may still be refused (503, 409, "saved,
but..."), so that a save that is refused (`Refuse`) may have changed the device, against the comment in
`web.cpp:316`.  The page takes nothing of such a save for saved.  `CleanMeansSaved` therefore leaves out the
fields the device changed and then refused (`wrote`, from then on in `doubt`) until they are saved again: for
them an edit that is undone leaves a form without changes that differs from the device.  What a section
has stored when the write of a later key fails counts as changed, as it is in force after the next start.

In `Feeds` one page without loads stands for all of them; events load as alarms do.  Without a session every
request but login and logout is refused (`Refuses`: `authorize`); a page that lets guests read, or a device
without a password, counts as having one.  Of refusals there may be any number, of requests that fail
otherwise `MaxErrors`.  The page is sent to the form of the session once, and one that goes back to the trends or the
alarms without a session is refused every load: there the page shows old data for as long as that lasts,
which is why `WindowIsDrawn` and `AlarmsAreShown` have the session in their premise.

**Schedule.** A day has `DayLen` minutes and a week `WeekLen` days; occurrences, priorities,
the hold and the next change are the device's operators, `progLen`, `shownOn` and `Bars` the
page's.  The clock is valid and the programs are switched on.  What
`validatePrograms` asks of a program's times is `ValidProgram`, and `Console` assumes it of `Lists`.

**Modes.** `SystemSM` with its two timers; what the interlock makes of a request is
abstracted to what may be on after a tick (`MayBeOn`) and a post-cool that lasts as long as
it likes.  It begins when heat ends, and heat has begun with the demand (`HeatAsked`, `wasHeating`): a demand
dropped in the prestart of the fan, as `otaBegin` drops it, is followed by a post-cool although no resistor
was on.  That `serviceEnter` also looks at the phase of the heating chain is left out, which lets it
in a little more often.  A handler runs within one critical section; while an upload is received the
one task that serves the network serves nothing else.

**Console.** The run `console` checks seven parts that share no variable.  A behaviour
takes place in one part (`part`), while the others rest in one of their initial states; each
property speaks of its part.  Interleaving parts without common state would multiply
their states and show nothing more.

## 3. Runs

| run | checks | bounds |
|---|---|---|
| `interlock` | `FanCoversHeat`, `GuardTransparent`, `FanContractHolds` | three configurations, one per post-cool mode, exchanged at any time; thirty-odd inputs; timers saturate at 5, above every threshold |
| `tasks` | `FanCoversHeatAtPins`, `NoStaleHeat`, `LockoutHolds`, `HotResetIsCooled` | one resistor asked for; safety period 2, stall 2, watchdog 3 output periods, two misses, storm at two fault boots |
| `heating` | `FollowerOnlyAdds`, `LeadKeepsItsHeat`, `FullDemandIsMet` | two configurations, exchanged at any time, windows of 4 and 3 ticks, demands 0, 20, 80, 100 |
| `genstore` | `NothingKeptIsLost`, `GenerationsAreUnique` | two payloads, six generations |
| `commands` | `LiveMeansFresh`, `ConfirmedByDevice`, `BusyEnds` | one control, a number or a switch, two values; `Stale`, `Confirm` and `MaxDelay` 1 period, a restart 2; one publication per run, one restart |
| `console`, network | `ResultIsPhase`, `ReleaseInHandover`, `ImplementsPromise`, `WayIn` | one network; static address off, good or bad; times of 1 and 2; three requests, one lost connection, one restart |
| `console`, Wi-Fi | `SuccessIsNew`, `RequestsAreTried` | one network; one request of the page; accepted requests (other pages' included) and restarts together 2, restarts at most 1 |
| `console`, settings | `CleanMeansSaved`, `SaveKeepsOthers` | a section with a range, one with a number and a password that is stored first; one configuration to start with; one change by MQTT, two saves, together 2 |
| `console`, programs | `AckedIsShown`, `RowIsItsProgram`, `ListCatchesUp` | two programs; two requests at once; changes and errors together 2, errors at most 1 |
| `console`, week | `WeekShowsRuns`, `NextChangeIsNext` | days of 3 minutes, weeks of 2 days, 13 minutes; every program of each kind alone, six of them in pairs |
| `console`, feeds | `WindowIsDrawn`, `AlarmsAreShown`, `SessionIsNoted` | two windows; two requests at once; one change; errors and acknowledgements or logins together 1 |
| `console`, modes | `WritesAtRest`, `TestsInService`, `PrepEnds` | three outputs; times of 2 ticks; three requests, one restart |
| `tasks_trace` | `TraceCoversCooling` is violated | as `tasks` |
| `tasks_reboot` | `RestartFindsNoHeat` is violated | as `tasks` |
| `heating_relay` | `OneLoadAtATime` is violated | the RELAY timing, in minutes |
| `heating_lead` | `SmallerLeads` is violated | as `heating` |
| `ota_stuck` | `ControlResumes` is violated | as `console`, modes, with two outputs and no restart |
| `genstore_torn` | `IntactCopyLeft` is violated | as `genstore`, but a cut write leaves half a file |

Why the bounds are enough.  *interlock*: every comparison in the engine is of one
timer with one threshold; the configurations give the thresholds of one output
different values below saturation, so each order of expiry occurs, and two
outputs' timers reach every combination.  *tasks*: the ratios keep what matters,
that a stall is noticed after more than one safety period and before the watchdog,
and that two resets in a row reach the recovery state.  The real ratios (100 ms,
250 ms, 1 s, 5 s) only make the waits longer.  *heating*: a window has room for a
pulse, a gap and both of two lengths; dwell and prestart are longer than
one tick and differ from the window.  *genstore*: a save has five steps, three
generations are on disk at once at most, and six generations allow for saves that
fail or are cut in each step, across several boots.  The genstore run stops when
no generation is left; the device would go on, so a state without a further save
is no error there and deadlock is not checked.  *commands*: with one period each for
staleness, confirmation and delay there are already two polls under way, data that is live,
stale by a period or from before a restart, and a confirmation that comes, is late
or never comes; with a restart of two periods a command can be taken by the new run while the page still has
data of the old one.  Radio groups are in the module and the proofs, not in the instance.  *console*: each part has one actor
more than its hazard takes (the page, another page or MQTT, the device), and room for
one overtaking, one loss and one restart; the sums in `Console` leave out that all of them
come together.  The exception of `SuccessIsNew` takes two requests and a restart, one more than the sum for the
Wi-Fi set-up; TLC finds it there with `WifiEvents` 3, and the theorem holds for all of them.  Days of three minutes still have programs that end at, before and
after midnight, cover several days and leave gaps; a week of two days still has a day
chosen and one not.  Deadlock is not checked in `console` and `ota_stuck`, where the bounds let
parts come to an end.

Fairness.  `FullDemandIsMet` needs weak fairness of `SomeTick`.  The code
justifies it by SafetyTask and the watchdog: OutputTask runs in every period, or
the device resets (`NoStaleHeat` of run `tasks` is the safety side of that).
Nothing is assumed about commits, demands and lockouts; the property's
premise says that the demand stays.  On the page, `setInterval` goes on and a request
ends one way or another (`Tick`, `RequestEnds`); nothing is assumed of the answers, the user
or the device.  On the network side netTask goes round (`Step`) and time goes on; nothing is
assumed of connections or of when addresses come.  In `Onboarding`, an attempt that is asked for begins, which
`NetFsm` is shown to implement, and polls succeed again and again, without which the
page can know nothing.  In `Programs` and `Feeds`, loads go on to be made and requests to be
answered.  Loads and polls of `Feeds` need strong fairness only because `MaxOpen` disables them
for a while, which nothing in the browser does.  In `Modes` the loops of the core keep
running, as above; for `ControlResumes` an upload that was refused is also answered.

## 4. What the violated properties show

* **`TraceCoversCooling`** (`tasks.cpp:119`).  `boot_state.h:17` says that the trace
  for the boot post-cool is kept while a resistor is on *or a post-cool goes on*.
  OutputTask reads the second half from a snapshot that SafetyTask publishes every
  250 ms, in whole seconds, so the trace is dropped in the first cycles of a
  post-cool, and a fault reset in them is not followed by any cooling.
* **`RestartFindsNoHeat`** (`web.cpp:571`).  The handler refuses a restart while heat
  or cooling goes on, but the restart itself comes 800 ms and a flush later, and
  does not look again.
* **`OneLoadAtATime`** (`cc_power.cpp:130`).  The follower is delayed by one tick so
  that two large loads do not come on together; the engine behind it delays both
  resistors until the minimum off time is over, and with the defaults of the RELAY
  driver switches them on together.
* **`SmallerLeads`** (`cc_power.cpp:82`).  A rotation that was pending when unequal
  powers are configured makes the larger resistor lead.
* **`IntactCopyLeft`** (`cc_store.cpp:89`).  `cc_store.h:7` promises an intact copy
  after an interruption in any step.  After a first save that was cut before its
  renames, `.tmp` is the only copy; the next save writes over it.  With a file system
  in which a cut write leaves half a file (the tests' own `MemFs`), it is
  lost.  LittleFS replaces the contents of a file only when it is closed, which is
  the assumption `Torn = FALSE` of run `genstore` and of the theorems.

* **`ControlResumes`** (`web.cpp:1101`).  `STATE_MACHINE.md:24` has a transition out of
  OTA for an image that is refused, and the handler says that it takes the preparation back.
  It calls `otaAbort`, which acts in OTA_PREP only, while an upload is let in only in
  OTA; `otaFailed`, which would do it, is called by nothing but a test.  After an upload that
  failed the controller stays in OTA, with heating and frost protection off, until a
  restart.  The other ways for an update to end without one (an upload whose connection
  breaks, a page that is closed between "ready" and the upload, an error of the
  development tool) end there, too.

## 5. Proofs

**InterlockProofs** (for every set of configurations and of inputs that satisfies
the assumptions of the module, every `Forever`): `TypeCorrect`, `Transparency`,
`HeatIsCovered`, `ImplementsFanContract`.  `GuardTransparent` is not inductive by
itself: the guard lets a resistor on only when the fan was on in the tick before, so
that the engine must not switch both on in one tick; and it switches the fan on when
a resistor was on in the tick before, so that the engine must not drop both in one
tick.  The invariant adds that a resistor that is on has the fan on,
that `wasHeating` is true whenever a resistor is on, and that `applied` equals `eff`;
with it, the step that stops heat always starts a post-cool of at least one tick,
which keeps the fan on.  That is where the assumption `0 < pcMin <= pc` is used, which
is rule 10 of `validateConfig`.  The refinement maps the cooling owed to `wasHeating \/
postCool` and the time credited to it to `pcT`, zero while there is heat.

**HeatingProofs** (for all configurations that satisfy `PowerConfigsAssumption` and
`InterlockOfAssumption`, all demands and every `Forever`): `TypeCorrect`,
`FollowerNeverAlone`, `LeadStays`, `ImplementsInterlock`, `KeepsFanContract`.  The types
are inductive as they stand; the work is in the arithmetic of the windows.
`FollowerNeverAlone` rests on two facts about a channel, whatever window it comes from:
without a duty it gives nothing, and with a full one it never leaves its on-time, since a
change to full power is not left to the end of the window (`ChannelFacts`), and a full duty
makes an on-time of a whole window (`QuantizeFacts`).  The second resistor has a duty only
in stage 2, in which the lead's is full.  `ImplementsInterlock` shows that every tick of the
two in series is a step of `Interlock` with one of its inputs; the theorems of
`InterlockProofs`, taken as an instance with its assumptions proved (`Environment`), give the
rest.

**GenStoreProofs** (for every set of payloads and every `MaxGen`, with
`Torn = FALSE`): `StoreTypeCorrect`, `NothingLost`, `StoreUnique`.  The invariant says
that no frame is newer than what is kept but the temporary file, which is at most
one generation ahead (`Bounded`); that some frame is as new as what is kept
(`Covered`); and that a frame of the kept generation is what was kept (`Faithful`).
`NothingKeptIsLost` follows, since a load picks a newest frame.  That the primary file
can be taken away in the middle of a save rests on the last conjunct of `TypeOK`:
while files move, the temporary file is the verified new frame.  The lemmas
`DropFile`, `PutAhead`, `RetirePrimary`, `PromoteTmp` and `KeepNewest` say what each file operation
does to these.

**PageProofs** (for all controls, widgets, values, times, durations of a restart and bounds):
`TypeCorrect`, `LiveIsFresh`, `ConfirmsWhatWasTaken`.  The assumption only says that times are numbers.
The invariant bounds the age of data by the
age of the poll that carries it (`PollAges`), hence that of what is shown (`DataAge`), and says of data of an
earlier run that its age and the time the device is still off together make up a restart (`Past`).
A command is taken while the device is not off, so that data of a run before the one that took it is
as old as a restart from then on (`TakenAges`), and a command waits for the number that follows the last
publication before it was taken: data of the same run that confirms it was published after.

**NetFsmProofs** (for all networks, times and bounds): `TypeCorrect`, `ReportsItsPhase`,
`ReleasesInTime`, `KeepsPromise`.  `ReleaseInHandover` needs `HandingOver` (a handover goes on
only online and with the access point open), since only then the handler takes the
wish, and every step forgets it.  `KeepsPromise` needs `Attempting`: between two requests
the machine's network is the one stored, and an attempt or a connection is only ever
made with one configured, a late address included, which is taken in no other phase than those a configured
network leads to; otherwise a step could change what the page sees in a way that
`Attempts` does not allow.  Its fairness half is checked by TLC (`ImplementsPromise`).

**TasksProofs** (for all parameters that satisfy `ParamsAssumption`, all periods and
thresholds that satisfy `TasksAssumption`): `TypeCorrect`, `PinsCovered`, `HeatIsFresh`,
`LockoutIsKept`, `HotResetCooled`.  The engine in `Tasks` is an instance of `Interlock`; its
invariant is taken over for the outputs decided last (`E!IInv`), and the steps that move
no output leave it alone.  What is added is about the way from there to the pins:
`PinsFollow` says which pins already are what
the engine decided, that the fan's pin covers the resistors' at each place between two writes, and that
before the resistors' pins are written the fan's has been, when there is to be heat: that is
where the order of the writes in `outputsWrite` is used.  `HeatOnRecord` says that heat is in the
trace before the next round's pins are written, and in RTC memory before they change.
`AgesBounded` bounds OutputTask's last heartbeat by the time since SafetyTask looked, and, once one of
them no longer runs, by the time the watchdog has been counting, so that the device resets before the
pins are too old.  `TripsHold` says that a trip on record is in the core's latch and in the RTC block,
and that heat outlives it only as long as OutputTask has not come round.

**ConsoleProofs** (for all constants that satisfy `ConsoleAssumption`): `WritesOnlyAtRest`,
`TestsEndWithService`, `CleanFormsAreSaved`, `SavesKeepOthers`, `SuccessIsOfTheRequest`.  `PartSteps` says that a step of `Console` is a
step of the part the behaviour takes place in, and leaves the others alone; so each part has an
invariant of its own, and every theorem is of the whole specification that TLC runs.

* Modes (`ModesInv`): in OTA there is no demand, no heat, no post-cool and nothing of `wasHeating` that could begin one
  (`OtaRests`), which the step into OTA establishes and nothing disturbs, since demand is made in RUN and outputs follow
  demands; and an upload is received only in OTA (`WritesInOta`), because the network task serves no
  other request meanwhile and a lockout does not lead out of OTA.
* Settings (`SettingsInv`): a save under way has the section's fields, but for secrets left blank
  (`SavesOfSections`); between the two critical sections there is one, and its candidate is the
  configuration with its fields, but for what MQTT has written since (`Candidates`); a save that has been
  stored or confirmed has its fields in the configuration, but for the same (`AnswersTrue`); and wherever no
  confirmation is on its way, the baseline is the device's, but for what others have changed, what a lost answer
  leaves open and what a save under way has stored, which is added to the latter if it is refused
  (`BaselineKept`).
* Wi-Fi (`WifiInv`): data of the device's current run are not ahead of it (`World`).  Of every
  request answered (`AsksTracked`, of whichever run the answer is) and of the one followed (`Followed`) it
  holds that data of its run or a later one with a number above the request's base is of an attempt made after
  the request was accepted, for what the device shows and for what the page has of it (`Covers`): that is what a
  success is concluded from, and why data of an earlier run is the only exception.

**ProgramsProofs** (for all constants that satisfy `ConsoleAssumption` and `WeekAssumption`):
`ConfirmedIsShown`, `RowsKeepTheirPrograms`, `WeekIsTrue`, `NextChangeIsFirst`.

* The list (`ProgInv`): nothing has seen more changes than there have been (`ListSeen`), and what was
  read after the last of them is the list (`CopiesTrue`).  What was confirmed is shown, or a load is under
  way that will show it (`AckComing`).  The program a question names is where it was clicked, with
  nothing but loads of the same list under way (`QuestionHolds`); and so it is for the editor, as long as
  everything under way will close it (`EditorHolds`).  The two are claimed for a page that asked with
  no request under way (`alone`) and, for questions, no other page's change (`foreign`), as the
  property is.

* The week (`WeekInv`): the programs are valid as `validatePrograms` asks for (`WeekAssumption` says so of
  those to start with), and that is all that is invariant; the rest is arithmetic about one state.  A valid
  occurrence lasts a minute at least and a week at most, for the page as for the device
  (`Lengths`), so that looking back as many days as the device does (`CoverDays`), or a week as the
  page and the next change do, misses none.  With it `ActiveIs` says of `activeOccurrence`
  what it means, whatever the days it tries; `BarMarks` and `BarsShow` say the same of the bars, cut at midnight.
  That the bar that stands out is that of the program applied needs that there always is a best
  occurrence and that it is one that runs (`BestIn`, `AppliedRuns`).  `NextChangeIsFirst` takes the first minute
  at which something else applies: the minute before, everything was as now, so some program's active
  occurrences differ between the two (`SameEval`), one of them starts or ends there, and on a
  day among those tried (`TurnsAtBounds`).  Any hold will do.

Every safety property of every passing run is thereby proved.  Only model-checked is what is temporal, since liveness and
fairness are outside what the prover handles: `FullDemandIsMet`, `BusyEnds`, `WayIn`, `RequestsAreTried`,
`ListCatchesUp`, `WindowIsDrawn`, `AlarmsAreShown`, `SessionIsNoted`, `PrepEnds`, and the fairness half of
`ImplementsPromise`; of `Feeds` nothing else is claimed.

## 6. Not modelled

* Arithmetic on readings: PID, filters, slopes, the conditions of the safety supervisor,
  the performance monitor.  They are floating-point; what they lead to (a demand, a trip)
  may come at any time in the modules.
* The alarm manager, the storage task's policy (when to save, flush and erase), the daily
  rotation's request, the MQTT client, and sessions inside the device.  They are within
  reach of a model; the hazards in them are listed without a property, each with what is
  missing.
* Ventilation, profiles and antifreeze: inputs of the interlock.
* Formatting and parsing, PBKDF2, the DHT22 bit timing, LED and display, the drawing of
  charts, the helpers of `00_base.js`.  `app.js` is put together from the files of
  `src/tools/ui/src`.
* Partly modelled: the heating chain's phases, the network manager's scan, mDNS and time;
  the PID form, the LED palette and the factory reset of the settings page; the serial
  console, which calls operations that are modelled.

## 7. Plan

The order in which the modules were written is that of section 2: first what keeps the
cabin safe (interlock, tasks, power, store), then the console, which is most of the code by
lines and where interleavings are hardest to test.  What would come next, in the order of
importance:

1. The storage task around an abstract store: what a flush reports, that a change is written
   in bounded time, that nothing is written after an erase.
2. The alarm manager: an abstract life cycle as refinement target; that a latched alarm does
   not return to NORMAL unacknowledged and unreset, across power losses.
3. The request for a rotation between ControlTask, SafetyTask and OutputTask.
4. The MQTT client's flags and queue against the library's task; sessions modulo 2^32.
