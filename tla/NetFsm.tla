------------------------------- MODULE NetFsm -------------------------------
(***************************************************************************)
(* The device's way onto the network: the connection state machine         *)
(* (cc_netfsm), the loop of NetTask that drives it and the web handlers    *)
(* that ask it for a new attempt (net_manager, web).                       *)
(*                                                                         *)
(* NetTask does both: between two steps of the machine it serves the web,  *)
(* and a handler reads the status that the last step left.  Time is        *)
(* counted in units of the test instance's choice.                         *)
(***************************************************************************)
EXTENDS Naturals

CONSTANTS
  Networks, NoNet,            \* the networks that may be chosen; "no SSID"
  Statics,                    \* among "off", "good", "bad": the stored address
  ConnectTimeout,             \* connect_timeout_ms
  RetrySta, RetryAp,          \* retry_sta_ms, retry_ap_ms
  Handover,                   \* handover_ms
  MaxRequests,                \* bounds: requests the device accepts,
  MaxDrops, MaxBoots          \* connections lost, restarts

ASSUME NetAssumption ==
  /\ {ConnectTimeout, RetrySta, RetryAp, Handover, MaxRequests, MaxDrops, MaxBoots} \subseteq Nat
  /\ NoNet \notin Networks
  /\ "off" \in Statics /\ Statics \subseteq {"off", "good", "bad"}

VARIABLES
  net,      \* what is stored: the network and the static address
  want,     \* g_reconnect (with changed_) and g_release
  link,     \* g_ip, with a connection: set and cleared by the driver's events
  fsm,      \* the machine, with the network name of its last step
  accepted, \* history: the requests for an attempt taken so far
  drops, boots

vars == <<net, want, link, fsm, accepted, drops, boots>>

Configured == net.ssid # NoNet
Online == fsm.phase = "ONLINE"

Longest == IF RetrySta < RetryAp THEN RetryAp ELSE RetrySta
ElTop == IF Longest < ConnectTimeout THEN ConnectTimeout ELSE Longest

Fresh == [phase |-> "WAITING", ap |-> FALSE, staticFailed |-> FALSE, user |-> FALSE,
          hold |-> FALSE, el |-> 0, left |-> 0, try |-> 0, result |-> "NONE",
          ssid |-> NoNet, covers |-> 0]
NoWish == [reconnect |-> FALSE, release |-> FALSE]

\* What net::status() says after a step; boot and covers are history.
Status == [boot |-> boots, try |-> fsm.try, result |-> fsm.result, ssid |-> fsm.ssid,
           handover |-> fsm.hold, covers |-> fsm.covers]

-----------------------------------------------------------------------------
(* step() *)

BeginAttempt(f) ==
  IF Configured
  THEN [f EXCEPT !.staticFailed = @ \/ net.static = "bad",
                 !.result = "TRYING", !.phase = "CONNECTING", !.el = 0]
  ELSE [f EXCEPT !.ap = TRUE, !.phase = "AP_ONLY", !.el = 0]

\* A slip: the request to close the AP is left for later.
EndStepLate(f) ==
  /\ fsm' = [f EXCEPT !.ssid = net.ssid]
  /\ want' = [want EXCEPT !.reconnect = FALSE]

\* Every step ends with the request to close the AP forgotten and with the
\* network's name in the status.
EndStep(f) ==
  /\ fsm' = [f EXCEPT !.ssid = net.ssid]
  /\ want' = NoWish

\* A slip: a request in the middle of an attempt does not count as another.
StepChangedUncounted ==
  /\ want.reconnect
  /\ EndStep(BeginAttempt([fsm EXCEPT !.staticFailed = FALSE, !.hold = FALSE, !.left = 0,
                             !.user = fsm.ap, !.try = IF fsm.phase = "CONNECTING" THEN @ ELSE @ + 1,
                             !.covers = accepted,
                             !.result = IF Configured THEN @ ELSE "NONE"]))
  /\ link' = (link /\ ~Configured)

StepChanged ==
  /\ want.reconnect
  /\ EndStep(BeginAttempt([fsm EXCEPT !.staticFailed = FALSE, !.hold = FALSE, !.left = 0,
                             !.user = fsm.ap, !.try = @ + 1, !.covers = accepted,
                             !.result = IF Configured THEN @ ELSE "NONE"]))
  /\ link' = (link /\ ~Configured)

\* Connected: the AP stays for the handover when somebody is there to see
\* the result, and is closed when that is over.
StepConnected(clients) ==
  LET begins == ~Online /\ fsm.ap /\ (fsm.user \/ clients)
      held == fsm.hold \/ (begins /\ ~want.release /\ Handover > 0)
      left == IF held /\ ~fsm.hold THEN Handover ELSE fsm.left
      close == fsm.ap /\ (~held \/ want.release \/ left = 0)
  IN  /\ ~want.reconnect /\ link /\ fsm.phase # "AP_ONLY"
      /\ EndStep([fsm EXCEPT !.phase = "ONLINE", !.user = FALSE,
                             !.result = IF Online THEN @ ELSE "CONNECTED",
                             !.ap = @ /\ ~close, !.hold = held /\ ~close,
                             !.left = IF close THEN 0 ELSE left])
      /\ UNCHANGED link

\* An address is of no use to a machine that has no network to connect to.
Offline == ~want.reconnect /\ (link => fsm.phase = "AP_ONLY")

\* A slip: the result of the attempt outlives the connection.
StepLostSilently ==
  /\ Offline /\ Online
  /\ EndStep([fsm EXCEPT !.hold = FALSE, !.left = 0, !.phase = "WAITING", !.el = 0])
  /\ UNCHANGED link

StepLost ==
  /\ Offline /\ Online
  /\ EndStep([fsm EXCEPT !.hold = FALSE, !.left = 0, !.result = "NONE",
                         !.phase = "WAITING", !.el = 0])
  /\ UNCHANGED link

TimedOut == fsm.phase = "CONNECTING" /\ fsm.el >= ConnectTimeout
RetryDue == fsm.phase = "WAITING" /\ fsm.el >= (IF fsm.ap THEN RetryAp ELSE RetrySta)

\* A slip: an attempt that fails does not open the AP.
StepTimeoutClosed ==
  /\ Offline /\ TimedOut
  /\ EndStep(IF net.static # "off" /\ ~fsm.staticFailed
             THEN BeginAttempt([fsm EXCEPT !.staticFailed = TRUE])
             ELSE [fsm EXCEPT !.result = "FAILED", !.user = FALSE, !.phase = "WAITING", !.el = 0])
  /\ UNCHANGED link

StepTimeout ==
  /\ Offline /\ TimedOut
  /\ EndStep(IF net.static # "off" /\ ~fsm.staticFailed
             THEN BeginAttempt([fsm EXCEPT !.staticFailed = TRUE])
             ELSE [fsm EXCEPT !.result = "FAILED", !.user = FALSE, !.ap = TRUE,
                              !.phase = "WAITING", !.el = 0])
  /\ UNCHANGED link

StepRetry ==
  /\ Offline /\ RetryDue
  /\ EndStep(BeginAttempt(fsm))
  /\ UNCHANGED link

\* Nothing is due.
StepQuiet ==
  /\ Offline /\ ~Online /\ ~TimedOut /\ ~RetryDue
  /\ EndStep(fsm)
  /\ UNCHANGED link

Step ==
  /\ \/ StepChanged
     \/ \E clients \in BOOLEAN : StepConnected(clients)
     \/ StepLost \/ StepTimeout \/ StepRetry \/ StepQuiet
  /\ UNCHANGED <<net, accepted, drops, boots>>

-----------------------------------------------------------------------------
(* What the step finds *)

\* A slip: the time in a phase is not bounded.
TimeUnbounded ==
  /\ fsm' = [fsm EXCEPT !.el = @ + 1, !.left = IF @ > 0 THEN @ - 1 ELSE 0]
  /\ UNCHANGED <<net, want, link, accepted, drops, boots>>

Time ==
  /\ fsm' = [fsm EXCEPT !.el = IF @ < ElTop THEN @ + 1 ELSE @,
                        !.left = IF @ > 0 THEN @ - 1 ELSE 0]
  /\ UNCHANGED <<net, want, link, accepted, drops, boots>>

\* The driver's event may come late: after its attempt was given up for good,
\* or after the connection it was made in was lost.
LinkUp ==
  /\ ~link
  /\ link' = TRUE
  /\ UNCHANGED <<net, want, fsm, accepted, drops, boots>>

LinkDown ==
  /\ link /\ drops < MaxDrops
  /\ link' = FALSE /\ drops' = drops + 1
  /\ UNCHANGED <<net, want, fsm, accepted, boots>>

\* The machine starts anew, with what is stored; changed_ is initially set.
Boot ==
  /\ boots < MaxBoots
  /\ boots' = boots + 1
  /\ fsm' = Fresh /\ link' = FALSE
  /\ want' = [NoWish EXCEPT !.reconnect = TRUE]
  /\ UNCHANGED <<net, accepted, drops>>

-----------------------------------------------------------------------------
(* The handlers; each ends in one answer.  The web is served after the     *)
(* first step of a boot.                                                   *)

Serving == fsm.try > 0

Ask(n) ==
  /\ accepted < MaxRequests
  /\ accepted' = accepted + 1
  /\ net' = n
  /\ want' = [want EXCEPT !.reconnect = TRUE]
  /\ UNCHANGED <<link, fsm, drops, boots>>

\* net::apply with other credentials.
SaveNet(s) == Ask([net EXCEPT !.ssid = s])
RetryNow == Configured /\ Ask(net)
ResetWifi == Ask([ssid |-> NoNet, static |-> "off"])
FinishSetup ==
  /\ fsm.hold
  /\ want' = [want EXCEPT !.release = TRUE]
  /\ UNCHANGED <<net, link, fsm, accepted, drops, boots>>

-----------------------------------------------------------------------------
Init ==
  /\ net \in [ssid : Networks \union {NoNet}, static : Statics]
  /\ want = [NoWish EXCEPT !.reconnect = TRUE]
  /\ link = FALSE /\ fsm = Fresh
  /\ accepted = 0 /\ drops = 0 /\ boots = 0

Requests ==
  /\ Serving
  /\ \/ \E s \in Networks : SaveNet(s)
     \/ RetryNow \/ ResetWifi \/ FinishSetup

Surroundings == Time \/ LinkUp \/ LinkDown \/ Boot

Next == Step \/ Surroundings \/ Requests

\* NetTask goes round and time goes on.
Fairness == WF_vars(Step) /\ WF_vars(Time)

Spec == Init /\ [][Next]_vars /\ Fairness

-----------------------------------------------------------------------------
Machine == [phase : {"AP_ONLY", "CONNECTING", "ONLINE", "WAITING"},
            ap : BOOLEAN, staticFailed : BOOLEAN, user : BOOLEAN, hold : BOOLEAN,
            el : 0..ElTop, left : 0..Handover, try : Nat,
            result : {"NONE", "TRYING", "CONNECTED", "FAILED"},
            ssid : Networks \union {NoNet}, covers : 0..MaxRequests]

\* Every variable keeps to its range.
TypeOK ==
  /\ net \in [ssid : Networks \union {NoNet}, static : Statics]
  /\ want \in [reconnect : BOOLEAN, release : BOOLEAN]
  /\ link \in BOOLEAN /\ fsm \in Machine
  /\ accepted \in 0..MaxRequests /\ drops \in 0..MaxDrops /\ boots \in 0..MaxBoots

\* A wish to close the AP is only ever pending in the handover it was made
\* in; none is left to close the next one early (release_: cc_netfsm.cpp).
ReleaseInHandover == want.release => fsm.hold /\ fsm.ap /\ Online

\* The result that is reported is that of the machine's phase.
ResultIsPhase ==
  /\ Online <=> fsm.result = "CONNECTED"
  /\ fsm.phase = "CONNECTING" <=> fsm.result = "TRYING"

\* What the page sees of the machine.
A == INSTANCE Attempts WITH stored <- net.ssid, pending <- want.reconnect, seen <- Status

\* The device can be reached again and again, on its own network or on the
\* configured one, whatever is stored and asked for (cc_netfsm.h:3-8).
WayIn == []<>(fsm.ap \/ Online)

=============================================================================
