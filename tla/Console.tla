------------------------------- MODULE Console -------------------------------
(***************************************************************************)
(* The parts of the console side by side: the way onto the network         *)
(* (NetFsm) with the promise it keeps to the page (Attempts), and, as      *)
(* instances with variables of their own, the Wi-Fi set-up, the settings,  *)
(* the programs and their week, the pages that load by themselves, and the *)
(* modes of the device.  A behaviour takes place in one part, the others   *)
(* rest in one of their initial states: they share no state, so nothing is *)
(* lost by not interleaving them.                                          *)
(***************************************************************************)
EXTENDS NetFsm, Sequences, FiniteSets

CONSTANTS
  None, Empty,
  \* the Wi-Fi set-up; WifiEvents, WriteEvents ... bound the sum of what may
  \* happen in a part
  WifiRequests, WifiBoots, WifiAsked, WifiEvents,
  \* the settings
  Fields, Secrets, Remote, Stored, Values, Configs, MaxRemote, MaxSaves, WriteEvents,
  \* the programs
  Names, ListChanges, ListErrors, ListOpen, ListEvents,
  \* their week
  DayLen, WeekLen, Lists, MaxTime,
  \* the pages that load by themselves
  Windows, FeedOpen, FeedChanges, FeedErrors, FeedAsked, FeedEvents,
  \* the modes
  Outputs, PrepTimeout, ServiceTimeout, TestMax, MaxTries, MaxResets

ASSUME ConsoleAssumption ==
  /\ {WifiRequests, WifiBoots, WifiAsked} \subseteq Nat
  /\ None \notin Nat
  /\ \A f \in Fields : f = <<f[1], f[2]>> /\ f[2] \in {"low", "high", "other"}
  /\ Configs \subseteq [Fields -> Values]
  /\ IsFiniteSet(Names) /\ None \notin Names

VARIABLES
  part,
  o_stored, o_pending, o_seen, o_accepted, o_boots, NT, ask, data, current, asked,
  cfg, base, draft, req, bad, remotes, saves, s_foreign, since, s_doubt,
  plist, vers, st, p_reqs, p_ask, p_errors, acked, doubt, foreign,
  progs, hold, now,
  ver, session, reqs, route, win, drawn, shown, authNeeded, f_asked, errors,
  sys, t, chain, on, cool, wasHeating, tests, testT, lockout, page, tries, up, rebooting, resets

wifiVars == <<o_stored, o_pending, o_seen, o_accepted, o_boots, NT, ask, data, current, asked>>
settingsVars == <<cfg, base, draft, req, bad, remotes, saves, s_foreign, since, s_doubt>>
programsVars == <<plist, vers, st, p_reqs, p_ask, p_errors, acked, doubt, foreign>>
weekVars == <<progs, hold, now>>
feedsVars == <<ver, session, reqs, route, win, drawn, shown, authNeeded, f_asked, errors>>
modesVars == <<sys, t, chain, on, cool, wasHeating, tests, testT, lockout, page, tries, up, rebooting, resets>>

-----------------------------------------------------------------------------
(* The instances *)

W == INSTANCE Onboarding WITH
  stored <- o_stored, pending <- o_pending, seen <- o_seen, accepted <- o_accepted,
  boots <- o_boots, MaxRequests <- WifiRequests, MaxBoots <- WifiBoots, MaxAsked <- WifiAsked

S == INSTANCE Settings WITH foreign <- s_foreign, doubt <- s_doubt

P == INSTANCE Programs WITH
  MaxChanges <- ListChanges, MaxErrors <- ListErrors, MaxOpen <- ListOpen,
  reqs <- p_reqs, ask <- p_ask, errors <- p_errors

F == INSTANCE Feeds WITH
  MaxOpen <- FeedOpen, MaxChanges <- FeedChanges, MaxErrors <- FeedErrors,
  MaxAsked <- FeedAsked, asked <- f_asked

M == INSTANCE Modes

C == INSTANCE Schedule

\* The programs to start with are as the device takes them.
ASSUME WeekAssumption ==
  /\ {DayLen, WeekLen} \subseteq Nat \ {0} /\ MaxTime \in Nat
  /\ \A l \in Lists : C!validatePrograms(l)

-----------------------------------------------------------------------------
Parts == {"network", "wifi", "settings", "programs", "week", "feeds", "modes"}

\* The network part rests with its access point open.
AtRest ==
  /\ net = [ssid |-> NoNet, static |-> "off"]
  /\ want = NoWish /\ link = FALSE
  /\ fsm = [Fresh EXCEPT !.phase = "AP_ONLY", !.ap = TRUE, !.try = 1]
  /\ accepted = 0 /\ drops = 0 /\ boots = 0

ConsoleInit ==
  /\ part \in Parts
  /\ IF part = "network" THEN Init ELSE AtRest
  /\ W!Init /\ (part # "wifi" => o_stored = NoNet)
  /\ S!Init /\ (part # "settings" => cfg = CHOOSE c \in Configs : S!Valid(c))
  /\ P!Init
  /\ C!Init /\ (part # "week" => now = 0 /\ progs = CHOOSE l \in Lists : TRUE)
  /\ F!Init /\ (part # "feeds" => session /\ win = CHOOSE w \in Windows : TRUE)
  /\ M!Init /\ (part # "modes" => sys = "RECOVERY")

\* Four parts have a bound of their own over the sum of what may happen.
Unserved == Cardinality({k \in DOMAIN p_reqs : p_reqs[k].kind = "save" /\ p_reqs[k].st = "sent"})

Only(p, step, others) == part = p /\ step /\ UNCHANGED <<part, others>>

NetworkStep == Only("network", Next, <<wifiVars, settingsVars, programsVars, weekVars, feedsVars, modesVars>>)
WifiStep == Only("wifi", W!Next /\ o_accepted' + o_boots' <= WifiEvents, <<vars, settingsVars, programsVars, weekVars, feedsVars, modesVars>>)
SettingsStep == Only("settings", S!Next /\ saves' + remotes' <= WriteEvents, <<vars, wifiVars, programsVars, weekVars, feedsVars, modesVars>>)
ProgramsStep == Only("programs", P!Next /\ vers' + Unserved' + p_errors' <= ListEvents, <<vars, wifiVars, settingsVars, weekVars, feedsVars, modesVars>>)
WeekStep == Only("week", C!Next, <<vars, wifiVars, settingsVars, programsVars, feedsVars, modesVars>>)
FeedsStep == Only("feeds", F!Next /\ f_asked' + errors' <= FeedEvents, <<vars, wifiVars, settingsVars, programsVars, weekVars, modesVars>>)
ModesStep == Only("modes", M!Next, <<vars, wifiVars, settingsVars, programsVars, weekVars, feedsVars>>)

ConsoleNext ==
  \/ NetworkStep \/ WifiStep \/ SettingsStep \/ ProgramsStep \/ WeekStep \/ FeedsStep \/ ModesStep

consoleVars == <<part, vars, wifiVars, settingsVars, programsVars, weekVars, feedsVars, modesVars>>

\* Each part's own fairness, or as much of it as its properties need, in the
\* behaviours that take place in it.
ConsoleFairness ==
  /\ WF_vars(part = "network" /\ Step) /\ WF_vars(part = "network" /\ Time)
  /\ WF_wifiVars(part = "wifi" /\ W!Begin /\ UNCHANGED <<NT, ask, data, current, asked>>)
  /\ WF_wifiVars(part = "wifi" /\ W!FreshAnswer)
  /\ WF_programsVars(part = "programs" /\ P!Progress)
  /\ SF_feedsVars(part = "feeds" /\ F!Due) /\ SF_feedsVars(part = "feeds" /\ F!Poll)
  /\ WF_feedsVars(part = "feeds" /\ F!Progress)
  /\ WF_modesVars(part = "modes" /\ M!OutputStep)

ConsoleSpec == ConsoleInit /\ [][ConsoleNext]_consoleVars /\ ConsoleFairness

-----------------------------------------------------------------------------
(* The properties, each of its own part; a part at rest satisfies its      *)
(* temporal properties.                                                    *)

\* The network machine implements the promise made to the page, the certain
\* begin of every attempt asked for included (net_try: web.cpp, 15_wifi.js:4-5).
ImplementsPromise ==
  /\ part = "network" => A!NetInit
  /\ [][A!NetNext]_(A!netVars)
  /\ A!NetFairness

\* The Wi-Fi set-up announces a connection only from an attempt that began
\* after the device had taken the request (progressState's base).
SuccessIsNew == W!SuccessIsNew

\* A request the device answered is followed by an attempt the page gets to
\* see (net_try_base).
RequestsAreTried == W!RequestsAreTried

\* A settings form without changes holds what the device has (saveSection's
\* baseline).
CleanMeansSaved == part = "settings" => S!CleanMeansSaved

\* Saving a section undoes nothing outside it but what MQTT wrote between
\* the two critical sections (settingsPost).
SaveKeepsOthers == S!SaveKeepsOthers

\* With no request under way, the page's programs have every change that was
\* confirmed to it (save's load).
AckedIsShown == part = "programs" => P!AckedIsShown

\* The save that comes of a question or of the editor is about the program
\* they name (save, load, the rows' places).
RowIsItsProgram == P!RowIsItsProgram

\* The page comes to show the device's programs again and again
\* (pageUpdaters.programs).
ListCatchesUp == P!ListCatchesUp

\* The week chart and the device agree on when a program runs (drawWeek,
\* activeOccurrence).
WeekShowsRuns == part = "week" => C!WeekShowsRuns

\* The next change reported is the first one there is (evaluate).
NextChangeIsNext == part = "week" => C!NextChangeIsNext

\* The trends come to show the window chosen for good (load).
WindowIsDrawn == F!WindowIsDrawn

\* The alarms come to be shown as they are for good (pageUpdaters.alarms).
AlarmsAreShown == F!AlarmsAreShown

\* The page comes to know for good whether it needs a session (poll).
SessionIsNoted == F!SessionIsNoted

\* An image is written only in OTA with the heating at rest (otaRaw, onStart).
WritesAtRest == part = "modes" => M!WritesAtRest

\* Output tests end with the service session, and one resistor is tested at
\* a time (serviceTest, SystemSM::step).
TestsInService == part = "modes" => M!TestsInService

\* The preparation of an update ends (ota_prep_timeout_ms).
PrepEnds == M!PrepEnds
=============================================================================
