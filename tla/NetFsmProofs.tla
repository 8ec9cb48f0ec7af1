---------------------------- MODULE NetFsmProofs ----------------------------
(***************************************************************************)
(* Proofs about NetFsm, for every set of networks, every time-out and      *)
(* every bound: its type invariant, that the result reported is that of    *)
(* the phase, that a wish to close the AP never outlives its handover, and *)
(* that each of its steps is one of the promise made to the page           *)
(* (Attempts), or none that the page can see.                              *)
(***************************************************************************)
EXTENDS NetFsm, TLAPS

USE NetAssumption

(* The inductive invariant.  Whatever the machine does but wait for a      *)
(* network, it does for the one that is stored, unless a new attempt is    *)
(* asked for: an address that comes late is one of that network.  A        *)
(* handover is one of an AP that is open beside a connection.              *)
Attempting ==
  /\ ~want.reconnect => fsm.ssid = net.ssid
  /\ ~want.reconnect /\ fsm.phase # "AP_ONLY" => Configured

HandingOver == fsm.hold => fsm.ap /\ Online

IInv == TypeOK /\ ResultIsPhase /\ ReleaseInHandover /\ Attempting /\ HandingOver

LEMMA ElTopType == ElTop \in Nat
BY DEF ElTop, Longest

LEMMA FreshType == Fresh \in Machine
BY ElTopType DEF Fresh, Machine

LEMMA InitIInv == Init => IInv
<1> SUFFICES ASSUME Init PROVE IInv
  OBVIOUS
<1>1. want = [reconnect |-> TRUE, release |-> FALSE]
  BY DEF Init, NoWish
<1>2. TypeOK
  <2>1. 0 \in 0 .. MaxRequests /\ 0 \in 0 .. MaxDrops /\ 0 \in 0 .. MaxBoots
    OBVIOUS
  <2>2. want \in [reconnect : BOOLEAN, release : BOOLEAN]
    BY <1>1
  <2> QED
    BY <2>1, <2>2, FreshType DEF Init, TypeOK
<1> QED
  BY <1>1, <1>2 DEF Init, IInv, ResultIsPhase, ReleaseInHandover, Attempting, HandingOver,
                    Fresh, Online, Configured

-----------------------------------------------------------------------------
(* What a step of the machine makes of the machine *)

Results == {"NONE", "TRYING", "CONNECTED", "FAILED"}

(* A field of the machine may be given any value of its range.             *)
LEMMA Updates ==
  ASSUME NEW f \in Machine
  PROVE  /\ \A v \in {"AP_ONLY", "CONNECTING", "ONLINE", "WAITING"} : [f EXCEPT !.phase = v] \in Machine
         /\ \A v \in Results : [f EXCEPT !.result = v] \in Machine
         /\ \A v \in BOOLEAN : [f EXCEPT !.ap = v] \in Machine
         /\ \A v \in BOOLEAN : [f EXCEPT !.staticFailed = v] \in Machine
         /\ \A v \in BOOLEAN : [f EXCEPT !.user = v] \in Machine
         /\ \A v \in BOOLEAN : [f EXCEPT !.hold = v] \in Machine
         /\ \A v \in 0 .. ElTop : [f EXCEPT !.el = v] \in Machine
         /\ \A v \in 0 .. Handover : [f EXCEPT !.left = v] \in Machine
         /\ \A v \in Nat : [f EXCEPT !.try = v] \in Machine
         /\ \A v \in 0 .. MaxRequests : [f EXCEPT !.covers = v] \in Machine
         /\ \A v \in Networks \union {NoNet} : [f EXCEPT !.ssid = v] \in Machine
BY DEF Machine, Results

(* Its fields are in their ranges, and so is what they are set to.         *)
LEMMA Ranges ==
  ASSUME NEW f \in Machine
  PROVE  /\ f.ap \in BOOLEAN /\ f.user \in BOOLEAN /\ f.staticFailed \in BOOLEAN /\ f.hold \in BOOLEAN
         /\ f.el \in 0 .. ElTop /\ f.left \in 0 .. Handover /\ f.try \in Nat /\ f.try + 1 \in Nat
         /\ f.result \in Results /\ f.covers \in 0 .. MaxRequests /\ f.ssid \in Networks \union {NoNet}
         /\ 0 \in 0 .. ElTop /\ 0 \in 0 .. Handover
         /\ {"NONE", "TRYING", "CONNECTED", "FAILED"} = Results
BY ElTopType DEF Machine, Results

(* The first step of an attempt keeps to the ranges.                       *)
LEMMA BeginAttemptType ==
  ASSUME NEW f \in Machine PROVE BeginAttempt(f) \in Machine
<1>1. (f.staticFailed \/ net.static = "bad") \in BOOLEAN
  OBVIOUS
<1> QED
  BY <1>1, Updates, Ranges DEF BeginAttempt

(* So does the end of every step, which leaves no wish behind.             *)
LEMMA EndStepType ==
  ASSUME TypeOK, NEW f \in Machine, EndStep(f), UNCHANGED <<net, accepted, drops, boots>>,
         link' \in BOOLEAN
  PROVE  TypeOK'
<1>1. fsm' \in Machine
  BY Updates DEF TypeOK, EndStep
<1> QED
  BY <1>1 DEF TypeOK, EndStep, NoWish

LEMMA StepType == ASSUME TypeOK, Step PROVE TypeOK'
<1>0. fsm \in Machine /\ accepted \in 0 .. MaxRequests /\ link \in BOOLEAN
      /\ UNCHANGED <<net, accepted, drops, boots>>
  BY DEF TypeOK, Step
<1>1. CASE StepChanged
  <2> DEFINE f == [fsm EXCEPT !.staticFailed = FALSE, !.hold = FALSE, !.left = 0,
                              !.user = fsm.ap, !.try = @ + 1, !.covers = accepted,
                              !.result = IF Configured THEN @ ELSE "NONE"]
  <2>1. (IF Configured THEN fsm.result ELSE "NONE") \in Results
    BY <1>0, Ranges
  <2>2. BeginAttempt(f) \in Machine
    BY <1>0, <2>1, Updates, Ranges, BeginAttemptType
  <2>3. EndStep(BeginAttempt(f)) /\ link' \in BOOLEAN
    BY <1>1 DEF StepChanged
  <2> HIDE DEF f
  <2> QED
    BY <1>0, <2>2, <2>3, EndStepType
<1>2. ASSUME NEW clients \in BOOLEAN, StepConnected(clients) PROVE TypeOK'
  <2> DEFINE begins == ~Online /\ fsm.ap /\ (fsm.user \/ clients)
             held == fsm.hold \/ (begins /\ ~want.release /\ Handover > 0)
             left == IF held /\ ~fsm.hold THEN Handover ELSE fsm.left
             close == fsm.ap /\ (~held \/ want.release \/ left = 0)
             f == [fsm EXCEPT !.phase = "ONLINE", !.user = FALSE,
                              !.result = IF Online THEN @ ELSE "CONNECTED",
                              !.ap = @ /\ ~close, !.hold = held /\ ~close,
                              !.left = IF close THEN 0 ELSE left]
  <2>1. left \in 0 .. Handover
    BY <1>0, Ranges
  <2>2. EndStep(f) /\ UNCHANGED link
    BY <1>2 DEF StepConnected
  <2> HIDE DEF begins, held, left, close
  <2>3. /\ (fsm.ap /\ ~close) \in BOOLEAN /\ (held /\ ~close) \in BOOLEAN
        /\ (IF close THEN 0 ELSE left) \in 0 .. Handover
        /\ (IF Online THEN fsm.result ELSE "CONNECTED") \in Results
    BY <1>0, <2>1, Ranges
  <2>4. f \in Machine
    BY <1>0, <2>3, Updates
  <2> HIDE DEF f
  <2> QED
    BY <1>0, <2>2, <2>4, EndStepType
<1>3. CASE StepLost
  <2> DEFINE f == [fsm EXCEPT !.hold = FALSE, !.left = 0, !.result = "NONE",
                              !.phase = "WAITING", !.el = 0]
  <2>1. f \in Machine
    BY <1>0, Updates, Ranges
  <2>2. EndStep(f) /\ UNCHANGED link
    BY <1>3 DEF StepLost
  <2> HIDE DEF f
  <2> QED
    BY <1>0, <2>1, <2>2, EndStepType
<1>4. CASE StepTimeout
  <2> DEFINE g == [fsm EXCEPT !.staticFailed = TRUE]
             h == [fsm EXCEPT !.result = "FAILED", !.user = FALSE, !.ap = TRUE,
                              !.phase = "WAITING", !.el = 0]
             f == IF net.static # "off" /\ ~fsm.staticFailed THEN BeginAttempt(g) ELSE h
  <2>1. g \in Machine /\ h \in Machine
    BY <1>0, Updates, Ranges
  <2>2. BeginAttempt(g) \in Machine
    BY <2>1, BeginAttemptType
  <2>3. EndStep(f) /\ UNCHANGED link
    BY <1>4 DEF StepTimeout
  <2> HIDE DEF g, h
  <2>4. f \in Machine
    BY <2>1, <2>2
  <2> HIDE DEF f
  <2> QED
    BY <1>0, <2>3, <2>4, EndStepType
<1>5. CASE StepRetry
  BY <1>0, <1>5, BeginAttemptType, EndStepType DEF StepRetry
<1>6. CASE StepQuiet
  BY <1>0, <1>6, EndStepType DEF StepQuiet
<1> QED
  BY <1>1, <1>2, <1>3, <1>4, <1>5, <1>6 DEF Step

LEMMA StepInv == ASSUME IInv, Step PROVE IInv'
<1> DEFINE Rest == ResultIsPhase /\ ReleaseInHandover /\ Attempting /\ HandingOver
<1>0. TypeOK' /\ fsm \in Machine /\ net' = net
  BY StepType DEF IInv, TypeOK, Step
<1> USE DEF IInv, ResultIsPhase, ReleaseInHandover, Attempting, HandingOver, Online,
            Configured, EndStep, NoWish, BeginAttempt, Machine
<1>1. CASE StepChanged
  BY <1>0, <1>1 DEF StepChanged
<1>2. ASSUME NEW clients \in BOOLEAN, StepConnected(clients) PROVE Rest'
  BY <1>0, <1>2 DEF StepConnected
<1>3. CASE StepLost
  BY <1>0, <1>3 DEF StepLost, Offline
<1>4. CASE StepTimeout
  BY <1>0, <1>4 DEF StepTimeout, Offline, TimedOut
<1>5. CASE StepRetry
  BY <1>0, <1>5 DEF StepRetry, Offline, RetryDue
<1>6. CASE StepQuiet
  BY <1>0, <1>6 DEF StepQuiet, Offline
<1> QED
  BY <1>0, <1>1, <1>2, <1>3, <1>4, <1>5, <1>6 DEF Step

-----------------------------------------------------------------------------
Wish == [reconnect : BOOLEAN, release : BOOLEAN]

LEMMA SurroundingsInv == ASSUME IInv, Surroundings PROVE IInv'
<1>0. fsm \in Machine /\ TypeOK
  BY DEF IInv, TypeOK
<1> USE DEF IInv, ResultIsPhase, ReleaseInHandover, Attempting, HandingOver, Online, Configured
<1>1. CASE Time
  <2>1. /\ (IF fsm.el < ElTop THEN fsm.el + 1 ELSE fsm.el) \in 0 .. ElTop
        /\ (IF fsm.left > 0 THEN fsm.left - 1 ELSE 0) \in 0 .. Handover
    BY <1>0, Ranges, ElTopType
  <2>2. fsm' \in Machine
    BY <1>0, <1>1, <2>1, Updates DEF Time
  <2>3. TypeOK'
    BY <1>0, <1>1, <2>2 DEF Time, TypeOK
  <2>4. /\ fsm'.phase = fsm.phase /\ fsm'.result = fsm.result /\ fsm'.ssid = fsm.ssid
        /\ fsm'.hold = fsm.hold /\ fsm'.ap = fsm.ap
    BY <1>0, <1>1 DEF Time, Machine
  <2> QED
    BY <1>1, <2>3, <2>4 DEF Time
<1>2. CASE LinkUp
  BY <1>0, <1>2 DEF LinkUp, TypeOK
<1>3. CASE LinkDown
  <2>1. drops + 1 \in 0 .. MaxDrops
    BY <1>0, <1>3 DEF LinkDown, TypeOK
  <2> QED
    BY <1>0, <1>3, <2>1 DEF LinkDown, TypeOK
<1>4. CASE Boot
  <2>1. want' = [reconnect |-> TRUE, release |-> FALSE]
    BY <1>4 DEF Boot, NoWish
  <2>2. want' \in Wish
    BY <2>1 DEF Wish
  <2>3. boots + 1 \in 0 .. MaxBoots
    BY <1>0, <1>4 DEF Boot, TypeOK
  <2>4. TypeOK'
    BY <1>0, <1>4, <2>2, <2>3, FreshType DEF Boot, TypeOK, Wish
  <2>5. fsm' = Fresh
    BY <1>4 DEF Boot
  <2>6. want'.reconnect /\ ~want'.release
    BY <2>1
  <2> QED
    BY <2>4, <2>5, <2>6 DEF Fresh
<1> QED
  BY <1>1, <1>2, <1>3, <1>4 DEF Surroundings

(* A request that is accepted asks for an attempt; the end of the handover *)
(* is asked for in a handover only.                                        *)
LEMMA AskInv ==
  ASSUME IInv, NEW n \in [ssid : Networks \union {NoNet}, static : Statics], Ask(n)
  PROVE  IInv'
<1>0. want \in Wish /\ accepted \in 0 .. MaxRequests /\ TypeOK
  BY DEF IInv, TypeOK, Wish
<1>1. want' \in Wish /\ want'.reconnect /\ want'.release = want.release
  BY <1>0 DEF Ask, Wish
<1>2. accepted + 1 \in 0 .. MaxRequests
  BY <1>0 DEF Ask
<1>3. TypeOK'
  BY <1>0, <1>1, <1>2 DEF Ask, TypeOK, Wish
<1> QED
  BY <1>1, <1>3 DEF IInv, ResultIsPhase, ReleaseInHandover, Attempting, HandingOver, Online,
                    Configured, Ask

LEMMA RequestsInv == ASSUME IInv, Requests PROVE IInv'
<1>0. net \in [ssid : Networks \union {NoNet}, static : Statics]
  BY DEF IInv, TypeOK
<1>1. ASSUME NEW s \in Networks, SaveNet(s) PROVE IInv'
  BY <1>0, <1>1, AskInv DEF SaveNet
<1>2. CASE RetryNow
  BY <1>0, <1>2, AskInv DEF RetryNow
<1>3. CASE ResetWifi
  BY <1>3, AskInv DEF ResetWifi
<1>4. CASE FinishSetup
  BY <1>4 DEF FinishSetup, IInv, TypeOK, ResultIsPhase, ReleaseInHandover, Attempting,
              HandingOver, Online, Configured, Machine
<1> QED
  BY <1>1, <1>2, <1>3, <1>4 DEF Requests

LEMMA NextIInv == IInv /\ [Next]_vars => IInv'
<1>1. ASSUME IInv, UNCHANGED vars PROVE IInv'
  BY <1>1 DEF vars, IInv, TypeOK, ResultIsPhase, ReleaseInHandover, Attempting,
              HandingOver, Online, Configured, Machine
<1> QED
  BY <1>1, StepInv, SurroundingsInv, RequestsInv DEF Next

LEMMA Invariance == Spec => []IInv
BY InitIInv, NextIInv, PTL DEF Spec

(* Every variable keeps to its range.                                      *)
THEOREM TypeCorrect == Spec => []TypeOK
<1>1. IInv => TypeOK
  BY DEF IInv
<1> QED
  BY <1>1, Invariance, PTL

(* The result reported is that of the phase: neither a time-out, a retry   *)
(* by itself, a lost connection nor a request in the middle of an attempt  *)
(* leaves an older result standing (step, begin_attempt).                  *)
THEOREM ReportsItsPhase == Spec => []ResultIsPhase
<1>1. IInv => ResultIsPhase
  BY DEF IInv
<1> QED
  BY <1>1, Invariance, PTL

(* A wish to close the AP is pending only in the handover it was made in   *)
(* (release_).                                                             *)
THEOREM ReleasesInTime == Spec => []ReleaseInHandover
<1>1. IInv => ReleaseInHandover
  BY DEF IInv
<1> QED
  BY <1>1, Invariance, PTL

-----------------------------------------------------------------------------
(* NetFsm implements Attempts: the safety part of ImplementsPromise.       *)

LEMMA InitPromised == Init => A!NetInit
BY DEF Init, NoWish, Fresh, A!NetInit, A!Blank, Status

(* When the machine turns to another result the promise proceeds.          *)
LEMMA ProceedsTo ==
  ASSUME NEW r \in Results, NEW h \in BOOLEAN,
         UNCHANGED <<net, accepted, boots>>, want'.reconnect = want.reconnect,
         fsm'.try = fsm.try, fsm'.ssid = fsm.ssid, fsm'.covers = fsm.covers,
         fsm'.result = r, fsm'.hold = h,
         ~want.reconnect, net.ssid # NoNet, <<fsm.result, r>> \in A!Moves,
         h => r = "CONNECTED" /\ (fsm.hold \/ fsm.result # "CONNECTED")
  PROVE  A!Proceed
<1>1. Status' = [Status EXCEPT !.result = r, !.handover = h]
  <2> DEFINE s(a, o) == [boot |-> boots, try |-> fsm.try, result |-> a, ssid |-> fsm.ssid,
                         handover |-> o, covers |-> fsm.covers]
             turned == [Status EXCEPT !.result = r]
  <2>1. Status = s(fsm.result, fsm.hold) /\ Status' = s(r, h)
    BY DEF Status
  <2>2. \A a, o : [s(a, o) EXCEPT !.result = r] = s(r, o)
    OBVIOUS
  <2>3. \A a, o : [s(a, o) EXCEPT !.handover = h] = s(a, h)
    OBVIOUS
  <2> HIDE DEF s
  <2>4. turned = s(r, fsm.hold)
    BY <2>1, <2>2
  <2> HIDE DEF turned
  <2>5. Status' = [turned EXCEPT !.handover = h]
    BY <2>1, <2>3, <2>4
  <2> QED
    BY <2>5 DEF turned
<1>2. Status.result = fsm.result /\ Status.handover = fsm.hold
  BY DEF Status
<1> QED
  BY <1>1, <1>2 DEF A!Proceed, Results

(* When it shows the same as before, so does the promise.                  *)
LEMMA ShowsTheSame ==
  ASSUME UNCHANGED <<net, accepted, boots>>, want'.reconnect = want.reconnect,
         fsm'.try = fsm.try, fsm'.ssid = fsm.ssid, fsm'.covers = fsm.covers,
         fsm'.result = fsm.result, fsm'.hold = fsm.hold
  PROVE  UNCHANGED A!netVars
BY DEF A!netVars, Status

LEMMA StepPromised == ASSUME IInv, Step PROVE [A!NetNext]_(A!netVars)
<1>0. /\ fsm \in Machine /\ UNCHANGED <<net, accepted, boots>>
      /\ ResultIsPhase /\ Attempting /\ HandingOver /\ want \in Wish
  BY DEF IInv, TypeOK, Step, Wish
<1> USE DEF ResultIsPhase, Attempting, HandingOver, Online, Configured, EndStep, NoWish,
            BeginAttempt, Machine, Results, Wish
<1>1. CASE StepChanged
  <2>1. /\ fsm'.try = fsm.try + 1 /\ fsm'.ssid = net.ssid /\ fsm'.covers = accepted
        /\ fsm'.hold = FALSE /\ fsm'.result = IF net.ssid = NoNet THEN "NONE" ELSE "TRYING"
        /\ want.reconnect /\ want'.reconnect = FALSE
    BY <1>0, <1>1 DEF StepChanged
  <2>2. A!Begin
    BY <1>0, <2>1 DEF A!Begin, Status
  <2> QED
    BY <2>2 DEF A!NetNext
<1>2. ASSUME NEW clients \in BOOLEAN, StepConnected(clients) PROVE A!Proceed
  <2>1. <<fsm.result, "CONNECTED">> \in A!Moves /\ "CONNECTED" \in Results
    BY <1>0, <1>2 DEF StepConnected, A!Moves
  <2>2. fsm'.result = "CONNECTED" /\ fsm'.hold \in BOOLEAN
        /\ (fsm'.hold => fsm.hold \/ fsm.result # "CONNECTED")
    BY <1>0, <1>2 DEF StepConnected
  <2>3. fsm'.try = fsm.try /\ fsm'.ssid = fsm.ssid /\ fsm'.covers = fsm.covers
        /\ ~want.reconnect /\ want'.reconnect = want.reconnect /\ net.ssid # NoNet
    BY <1>0, <1>2 DEF StepConnected
  <2> QED
    BY <1>0, <2>1, <2>2, <2>3, ProceedsTo
<1>3. CASE StepLost
  <2>1. <<fsm.result, "NONE">> \in A!Moves /\ "NONE" \in Results
    BY <1>0, <1>3 DEF StepLost, A!Moves
  <2>2. fsm'.result = "NONE" /\ fsm'.hold = FALSE
        /\ fsm'.try = fsm.try /\ fsm'.ssid = fsm.ssid /\ fsm'.covers = fsm.covers
        /\ ~want.reconnect /\ want'.reconnect = want.reconnect /\ net.ssid # NoNet
    BY <1>0, <1>3 DEF StepLost, Offline
  <2>3. A!Proceed
    BY <1>0, <2>1, <2>2, ProceedsTo
  <2> QED
    BY <2>3 DEF A!NetNext
<1>4. CASE StepTimeout
  <2>1. /\ fsm.result = "TRYING" /\ fsm.hold = FALSE /\ fsm'.hold = FALSE
        /\ fsm'.try = fsm.try /\ fsm'.ssid = fsm.ssid /\ fsm'.covers = fsm.covers
        /\ ~want.reconnect /\ want'.reconnect = want.reconnect /\ net.ssid # NoNet
        /\ fsm'.result \in {"TRYING", "FAILED"}
    BY <1>0, <1>4 DEF StepTimeout, Offline, TimedOut
  <2>2. CASE fsm'.result = "TRYING"
    BY <1>0, <2>1, <2>2, ShowsTheSame
  <2>3. CASE fsm'.result = "FAILED"
    <3>1. <<fsm.result, "FAILED">> \in A!Moves /\ "FAILED" \in Results
      BY <2>1 DEF A!Moves
    <3>2. A!Proceed
      BY <1>0, <2>1, <2>3, <3>1, ProceedsTo
    <3> QED
      BY <3>2 DEF A!NetNext
  <2> QED
    BY <2>1, <2>2, <2>3
<1>5. CASE StepRetry
  <2>1. /\ fsm.result \in {"NONE", "FAILED"} /\ fsm.hold = FALSE /\ fsm'.hold = FALSE
        /\ fsm'.try = fsm.try /\ fsm'.ssid = fsm.ssid /\ fsm'.covers = fsm.covers
        /\ ~want.reconnect /\ want'.reconnect = want.reconnect
        /\ fsm'.result = IF net.ssid = NoNet THEN fsm.result ELSE "TRYING"
    BY <1>0, <1>5 DEF StepRetry, Offline, RetryDue
  <2>2. CASE net.ssid = NoNet
    BY <1>0, <2>1, <2>2, ShowsTheSame
  <2>3. CASE net.ssid # NoNet
    <3>1. <<fsm.result, "TRYING">> \in A!Moves /\ "TRYING" \in Results
      BY <2>1 DEF A!Moves
    <3>2. A!Proceed
      BY <1>0, <2>1, <2>3, <3>1, ProceedsTo
    <3> QED
      BY <3>2 DEF A!NetNext
  <2> QED
    BY <2>2, <2>3
<1>6. CASE StepQuiet
  <2>1. /\ fsm'.result = fsm.result /\ fsm'.hold = fsm.hold
        /\ fsm'.try = fsm.try /\ fsm'.ssid = fsm.ssid /\ fsm'.covers = fsm.covers
        /\ want'.reconnect = want.reconnect
    BY <1>0, <1>6 DEF StepQuiet, Offline
  <2> QED
    BY <1>0, <2>1, ShowsTheSame
<1> QED
  BY <1>1, <1>2, <1>3, <1>4, <1>5, <1>6 DEF Step, A!NetNext

LEMMA OthersPromised == ASSUME IInv, Surroundings \/ Requests PROVE [A!NetNext]_(A!netVars)
<1>0. fsm \in Machine /\ want \in [reconnect : BOOLEAN, release : BOOLEAN]
  BY DEF IInv, TypeOK
<1>1. CASE Time
  <2>1. /\ fsm'.result = fsm.result /\ fsm'.hold = fsm.hold
        /\ fsm'.try = fsm.try /\ fsm'.ssid = fsm.ssid /\ fsm'.covers = fsm.covers
    BY <1>0, <1>1 DEF Time, Machine
  <2> QED
    BY <1>1, <2>1, ShowsTheSame DEF Time
<1>2. CASE LinkUp \/ LinkDown
  BY <1>2, ShowsTheSame DEF LinkUp, LinkDown
<1>3. CASE Boot
  BY <1>3 DEF Boot, Fresh, NoWish, A!NetNext, A!Boot, A!Blank, Status
<1>4. ASSUME Serving, NEW n \in [ssid : Networks \union {NoNet}, static : Statics], Ask(n)
      PROVE  A!NetNext
  BY <1>0, <1>4 DEF Ask, Serving, A!NetNext, A!Ask, A!Serving, Status
<1>5. CASE Requests
  <2>1. net \in [ssid : Networks \union {NoNet}, static : Statics]
    BY DEF IInv, TypeOK
  <2>2. CASE FinishSetup
    BY <1>0, <2>2, ShowsTheSame DEF FinishSetup
  <2>3. ASSUME NEW s \in Networks, SaveNet(s) PROVE A!NetNext
    BY <1>4, <1>5, <2>1, <2>3 DEF SaveNet, Requests
  <2>4. CASE RetryNow \/ ResetWifi
    BY <1>4, <1>5, <2>1, <2>4 DEF RetryNow, ResetWifi, Requests
  <2> QED
    BY <1>5, <2>2, <2>3, <2>4 DEF Requests
<1> QED
  BY <1>1, <1>2, <1>3, <1>5 DEF Surroundings

(* Every step of the machine is a step of the promise or none the page can *)
(* see: a number of its own for every attempt asked for, a result that     *)
(* moves only as the promise says, a handover that only follows a          *)
(* connection.                                                             *)
THEOREM KeepsPromise == Spec => A!NetInit /\ [][A!NetNext]_(A!netVars)
<1>1. IInv /\ [Next]_vars => [A!NetNext]_(A!netVars)
  <2>1. ASSUME UNCHANGED vars PROVE UNCHANGED A!netVars
    BY <2>1 DEF vars, A!netVars, Status
  <2> QED
    BY <2>1, StepPromised, OthersPromised DEF Next
<1> QED
  BY <1>1, InitPromised, Invariance, PTL DEF Spec
=============================================================================
