----------------------------- MODULE Onboarding -----------------------------
(***************************************************************************)
(* The Wi-Fi set-up of the page against the device's network side          *)
(* (Attempts): choosing a network, saving it, retrying, ending the         *)
(* handover, deleting the network and following the outcome through        *)
(* /api/data (src/tools/ui/src/15_wifi.js).  "Saved" is not "connected": a *)
(* request is answered before its attempt begins, and the page may lose    *)
(* the device in between.                                                  *)
(***************************************************************************)
EXTENDS Attempts

CONSTANTS
  None,
  MaxAsked                    \* bound: requests of the page

VARIABLES
  NT,       \* the request followed; no and boot are history: which request
            \* the device took it for, and in which of its runs
  ask,      \* [request -> what became of it]
  data,     \* the last data (D)
  current,  \* ntFresh(): data came after NT.sentAt, and is not stale
  asked

pageVars == <<NT, ask, data, current, asked>>
vars == <<netVars, pageVars>>

Kinds == {"save", "again", "retry", "finish", "reset"}
NoAsk == [st |-> "none"]
LostAnswer == [st |-> "lost"]
Refusal == [st |-> "refused"]
Free(k) == ask[k] = NoAsk

Transition(base, ssid, stage) ==
  [ssid |-> ssid, base |-> base, stage |-> stage, err |-> FALSE, no |-> 0, boot |-> 0]
Try == IF data = None THEN None ELSE data.try
Known == IF data = None THEN NoNet ELSE data.ssid

-----------------------------------------------------------------------------
(* progressState, with what it writes *)

Settled(nt) == nt.stage \in {"sending", "finished", "finished-sta"} \/ nt.err

\* A slip: the attempt before the request is taken for its own.
ProgressEarly(nt, d, fresh) ==
  IF nt = None \/ ~fresh THEN nt
  ELSE IF Settled(nt) \/ nt.base = None \/ d.try < nt.base THEN nt
  ELSE [nt EXCEPT !.stage =
          IF d.result = "CONNECTED" THEN "connected"
          ELSE IF d.result = "FAILED" THEN "failed"
          ELSE IF @ = "uncertain" /\ d.ssid = nt.ssid THEN "saved" ELSE @]

Progress(nt, d, fresh) ==
  IF nt = None \/ ~fresh THEN nt
  ELSE IF Settled(nt) \/ nt.base = None \/ d.try <= nt.base THEN nt
  ELSE [nt EXCEPT !.stage =
          IF d.result = "CONNECTED" THEN "connected"
          ELSE IF d.result = "FAILED" THEN "failed"
          ELSE IF @ = "uncertain" /\ d.ssid = nt.ssid THEN "saved" ELSE @]
Shown(nt) == Progress(nt, data, current)

Staged(stage) == IF NT = None THEN None ELSE [NT EXCEPT !.stage = stage]

\* renderAll: ten minutes after the end the page forgets it; the progress is
\* not looked at while the dialog shows the list of networks or the form.
WifiTick(d, fresh) ==
  \/ NT # None /\ NT.stage = "finished" /\ NT' = Staged("finished-sta")
  \/ NT' \in {NT, Progress(NT, d, fresh)}

-----------------------------------------------------------------------------
(* What the user asks for.  Which view of the dialog is open is left out:  *)
(* it keeps the form from a user whose last request is under way, but only *)
(* for 15 minutes, and not once the request has failed.                    *)

Request(k, what) ==
  /\ asked < MaxAsked /\ asked' = asked + 1
  /\ Free(k)
  /\ ask' = [ask EXCEPT ![k] = [st |-> "sent", ssid |-> what]]
  /\ UNCHANGED <<netVars, data>>

\* A new request is followed from now on: sentAt and t0.
Follow(nt) == NT' = nt /\ current' = FALSE

\* The button is off until the earlier save has ended.
submitWifi(s) ==
  /\ Free("again") /\ ~(NT # None /\ NT.stage = "sending")
  /\ Request("save", s)
  /\ Follow(Transition(Try, s, "sending"))

\* The card of the setup on the overview page: it offers another attempt when
\* the machine is between two, and the end of a handover.
OffersRetry == data # None /\ data.ssid # NoNet /\ data.result \in {"NONE", "FAILED"}
OffersFinish == data # None /\ data.handover

\* From the card, whatever is under way, or after a failure.
startRetry ==
  /\ \/ OffersRetry
     \/ NT # None /\ NT.stage = "failed" /\ ~NT.err
  /\ Request("retry", NoNet)
  /\ Follow(Transition(Try, Known, "sending"))

\* On the card and with the result.
finishSetup ==
  /\ OffersFinish
  /\ Request("finish", NoNet)
  /\ NT' = IF NT = None THEN Transition(data.try - 1, data.ssid, "none") ELSE NT
  /\ UNCHANGED current

resetWifiFlow ==
  /\ Request("reset", NoNet)
  /\ Follow(Transition(None, NoNet, "saved"))

-----------------------------------------------------------------------------
(* The device takes a request *)

Sent(k) == Serving /\ ask[k].st = "sent"
Done(k, reconnect) ==
  ask' = [ask EXCEPT ![k] = [st |-> "done", base |-> seen.try, reconnect |-> reconnect,
                             no |-> IF reconnect THEN accepted' ELSE 0, boot |-> boots]]

\* A slip: the network is stored, but no attempt is asked for.
settingsPostQuiet ==
  /\ Sent("save")
  /\ accepted < MaxRequests /\ accepted' = accepted + 1
  /\ stored' = ask["save"].ssid /\ UNCHANGED <<pending, seen, boots>>
  /\ Done("save", TRUE)

settingsPost ==
  /\ Sent("save")
  /\ \/ Ask(ask["save"].ssid) /\ Done("save", TRUE)
     \/ /\ stored = ask["save"].ssid        \* with the password that is stored
        /\ UNCHANGED netVars /\ Done("save", FALSE)
handleNetRetry(k) == Sent(k) /\ stored # NoNet /\ Ask(stored) /\ Done(k, TRUE)
handleResetWifi == Sent("reset") /\ Ask(NoNet) /\ ask' = [ask EXCEPT !["reset"] = LostAnswer]

Serve ==
  /\ \/ settingsPost \/ handleResetWifi
     \/ \E k \in {"again", "retry"} : handleNetRetry(k)
  /\ UNCHANGED <<NT, data, current, asked>>

-----------------------------------------------------------------------------
(* The page learns of it: the answer, a refusal (no session, a field that  *)
(* is not valid, nothing to retry, the core or the store busy), or nothing *)
(* at all, whether or not the device has taken the request.  It is written *)
(* to the request that is followed by then, which need not be the one that *)
(* it answers.                                                             *)

Ends(k, a) ==
  /\ ~Free(k)
  /\ a \in {LostAnswer} \union (IF ask[k].st = "sent" THEN {Refusal} ELSE {})
                        \union (IF ask[k].st = "done" THEN {ask[k]} ELSE {})
  /\ ask' = [ask EXCEPT ![k] = NoAsk]
  /\ UNCHANGED <<netVars, data, asked>>

Outcomes == {LostAnswer, Refusal} \union {ask[k] : k \in Kinds}
Taken(a) == IF NT = None THEN None
            ELSE [NT EXCEPT !.base = a.base, !.no = a.no, !.boot = a.boot, !.stage = "saved"]

\* submitWifi after its await.
SaveEnds(a) ==
  /\ Ends("save", a)
  /\ \/ /\ a.st = "done" /\ a.reconnect
        /\ Follow(Taken(a))
     \/ /\ a.st = "refused"
        /\ NT' = None /\ UNCHANGED current
     \/ /\ a.st = "lost"
        /\ NT' = Shown(Staged("uncertain")) /\ UNCHANGED current

\* Nothing was to be saved: the user wants the same network tried again.
SaveRepeats ==
  /\ ask["save"].st = "done" /\ ~ask["save"].reconnect
  /\ Follow(Taken(ask["save"]))
  /\ ask' = [ask EXCEPT !["save"] = NoAsk, !["again"] = [st |-> "sent", ssid |-> NoNet]]
  /\ UNCHANGED <<netVars, data, asked>>

\* Whatever goes wrong with that makes the outcome uncertain.
AgainEnds(a) ==
  /\ Ends("again", a)
  /\ NT' = Shown(IF NT = None THEN None
                 ELSE IF a.st = "done" THEN [NT EXCEPT !.base = a.base, !.no = a.no, !.boot = a.boot]
                 ELSE Staged("uncertain"))
  /\ UNCHANGED current

RetryEnds(a) ==
  /\ Ends("retry", a)
  /\ \/ a.st = "done" /\ Follow(Taken(a))
     \/ /\ a.st = "refused" /\ UNCHANGED current
        /\ NT' = IF NT = None THEN None ELSE [NT EXCEPT !.stage = "failed", !.err = TRUE]
     \/ a.st = "lost" /\ NT' = Shown(Staged("uncertain")) /\ UNCHANGED current

\* Whatever the answer, the instructions are the same.
FinishEnds(a) ==
  /\ Ends("finish", a)
  /\ NT' = Staged("finished") /\ UNCHANGED current

ResetEnds(a) ==
  /\ Ends("reset", a)
  /\ NT' = IF a.st = "refused" THEN None ELSE NT
  /\ UNCHANGED current

RequestEnds ==
  \/ SaveRepeats
  \/ \E a \in Outcomes :
       SaveEnds(a) \/ AgainEnds(a) \/ RetryEnds(a) \/ FinishEnds(a) \/ ResetEnds(a)

-----------------------------------------------------------------------------
(* Polling *)

\* An answer arrives, made just now or long ago: the page asks every second
\* without a time limit, so that one may come even from before a restart.
PollAnswer(d) ==
  /\ data' = d /\ current' = TRUE
  /\ WifiTick(d, TRUE)
  /\ UNCHANGED <<netVars, ask, asked>>

FreshAnswer == Serving /\ PollAnswer(seen)
OldAnswer == data # None /\ PollAnswer(data)

PollError ==
  /\ WifiTick(data, current)
  /\ UNCHANGED <<netVars, ask, data, current, asked>>

\* STALE_MS without data.
GoStale ==
  /\ current /\ current' = FALSE
  /\ UNCHANGED <<netVars, NT, ask, data, asked>>

-----------------------------------------------------------------------------
\* A restart loses requests and answers on their way, or does not.
Device == (Begin \/ Proceed \/ Boot) /\ UNCHANGED pageVars

\* Somebody else's page.
Elsewhere == (\E s \in Networks \union {NoNet} : Ask(s)) /\ UNCHANGED pageVars

Init ==
  /\ NetInit
  /\ NT = None /\ ask = [k \in Kinds |-> NoAsk]
  /\ data = None /\ current = FALSE
  /\ asked = 0

\* One of the list of networks, or a hidden one by its name.
Choose == \E s \in Networks : submitWifi(s)

User ==
  \/ Choose
  \/ startRetry \/ finishSetup \/ resetWifiFlow

Next ==
  \/ Device \/ Elsewhere \/ Serve \/ User \/ RequestEnds
  \/ FreshAnswer \/ OldAnswer \/ PollError \/ GoStale

\* The device begins the attempts asked for, and the page goes on polling
\* with some success.
Fairness == WF_vars(Begin /\ UNCHANGED pageVars) /\ WF_vars(FreshAnswer)

Spec == Init /\ [][Next]_vars /\ Fairness

-----------------------------------------------------------------------------
\* Success is shown for a request that was answered only on data of an
\* attempt that began after the device had taken it: a connection that was
\* there before, or that another page brought about before, does not count.
\* Only data from before a restart may be mistaken for such, as net_try
\* starts anew with the run that took the request.
Succeeds == NT' # None /\ NT'.stage = "connected" /\ (NT = None \/ NT.stage # "connected")
SuccessIsNew ==
  [][Succeeds /\ NT'.no > 0 => data'.covers >= NT'.no \/ data'.boot < NT'.boot]_vars

\* A request that was answered is followed by an attempt that the page gets
\* to see, as long as the device does not restart (net_try_base).
Waits == NT # None /\ NT.boot = boots /\ NT.stage = "saved" /\ NT.no > 0
SeesAttempt == data # None /\ NT # None /\ data.boot >= NT.boot /\ data.try > NT.base
RequestsAreTried == []<>(~Waits \/ SeesAttempt)
=============================================================================
