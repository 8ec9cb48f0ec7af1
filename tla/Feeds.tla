-------------------------------- MODULE Feeds --------------------------------
(***************************************************************************)
(* The pages that load what they show by themselves (trends, alarms,       *)
(* events), the change from one page to another and the session            *)
(* (src/tools/ui/src: 10_runtime, 40_outputs_trends, 50_alarms_events,     *)
(* 90_init).  Loads overlap: every five seconds there is one, and a click  *)
(* makes another; nothing keeps their answers in order.                    *)
(***************************************************************************)
EXTENDS Naturals, Sequences, SequencesExt

CONSTANTS
  Windows,                    \* of the trends
  None,
  MaxOpen,                    \* bounds: requests under way at once,
  MaxChanges,                 \* changes of the list (alarms, events),
  MaxErrors,                  \* requests that fail,
  MaxAsked                    \* acknowledgements, logins and logouts

VARIABLES
  ver,         \* the device's list of alarms, by its number of changes
  session,     \* this browser has one, or needs none
  reqs,        \* the requests under way, the oldest first
  route,       \* currentRoute; "other" stands for the rest
  win,         \* the window chosen
  drawn,       \* the window of the data drawn
  shown,       \* the list shown
  authNeeded,
  asked, errors

deviceVars == <<ver, session>>
pageVars == <<route, win, drawn, shown, authNeeded>>
counts == <<asked, errors>>
vars == <<deviceVars, reqs, pageVars, counts>>

Sent(kind, arg) == [kind |-> kind, st |-> "sent", arg |-> arg]
Request(r) == Len(reqs) < MaxOpen /\ reqs' = Append(reqs, Sent(r[1], r[2]))

\* A slip: a load renews what is drawn, not what is chosen.
LoadOfDrawn(page, w) ==
  IF page = "trends" THEN <<"trend", IF drawn = None THEN w ELSE drawn>> ELSE <<"list", None>>

\* What the load of a page asks for.
LoadOf(page, w) == IF page = "trends" THEN <<"trend", w>> ELSE <<"list", None>>
Feeding == {"trends", "alarms"}

-----------------------------------------------------------------------------
(* The page *)

\* go: the page is shown, and loads; the page of the session stands for all
\* that load nothing.
Enter(r) ==
  /\ r # route /\ route' = r
  /\ IF r \in Feeding THEN Request(LoadOf(r, win)) ELSE UNCHANGED reqs
  /\ UNCHANGED <<deviceVars, win, drawn, shown, authNeeded, counts>>

\* A button of the trends.
Choose(w) ==
  /\ route = "trends" /\ w # win
  /\ win' = w
  /\ Request(LoadOf(route, w))
  /\ UNCHANGED <<deviceVars, route, drawn, shown, authNeeded, counts>>

\* A slip: only the trends are renewed.
DueTrends ==
  /\ route = "trends"
  /\ Request(LoadOf(route, win))
  /\ UNCHANGED <<deviceVars, pageVars, counts>>

\* pageUpdaters: a load is due.
Due ==
  /\ route \in Feeding
  /\ Request(LoadOf(route, win))
  /\ UNCHANGED <<deviceVars, pageVars, counts>>

\* "Acknowledge all", or a row's button.
Ack ==
  /\ route = "alarms" /\ asked < MaxAsked
  /\ asked' = asked + 1
  /\ Request(<<"ack", None>>)
  /\ UNCHANGED <<deviceVars, pageVars, errors>>

Poll ==
  /\ Request(<<"poll", None>>)
  /\ UNCHANGED <<deviceVars, pageVars, counts>>

\* The forms of the session page.
Login(kind) ==
  /\ route = "login" /\ asked < MaxAsked
  /\ asked' = asked + 1
  /\ Request(<<kind, None>>)
  /\ UNCHANGED <<deviceVars, pageVars, errors>>

-----------------------------------------------------------------------------
(* The device *)

Change ==
  /\ ver < MaxChanges /\ ver' = ver + 1
  /\ UNCHANGED <<session, reqs, pageVars, counts>>

Expire ==
  /\ session /\ session' = FALSE
  /\ UNCHANGED <<ver, reqs, pageVars, counts>>

\* authorize: all but the forms of the session need one.
Refuses(kind) == ~session /\ kind \notin {"login", "logout"}

Serve(k) ==
  /\ reqs[k].st = "sent"
  /\ LET kind == reqs[k].kind
     IN  /\ ver' = IF kind = "ack" /\ session THEN ver + 1 ELSE ver
         /\ session' = (kind = "login" \/ (session /\ kind # "logout"))
         /\ reqs' = [reqs EXCEPT ![k].st = IF Refuses(kind) THEN "refused" ELSE "done",
                                ![k].arg = IF kind = "list" THEN ver ELSE @]
  /\ UNCHANGED <<pageVars, asked, errors>>

-----------------------------------------------------------------------------
(* The answers *)

Ends(k, kind) == reqs[k].kind = kind /\ reqs[k].st = "done"
Done(k) == reqs' = RemoveAt(reqs, k)

\* load after its await: the data is kept and drawn, whatever is chosen by now.
TrendDrawn(k) ==
  /\ Ends(k, "trend") /\ Done(k)
  /\ drawn' = reqs[k].arg
  /\ UNCHANGED <<deviceVars, route, win, shown, authNeeded, counts>>

ListShown(k) ==
  /\ Ends(k, "list") /\ Done(k)
  /\ shown' = reqs[k].arg
  /\ UNCHANGED <<deviceVars, route, win, drawn, authNeeded, counts>>

\* The acknowledgement is followed by a load.
Acked(k) ==
  /\ Ends(k, "ack")
  /\ reqs' = [reqs EXCEPT ![k] = Sent("list", None)]
  /\ UNCHANGED <<deviceVars, pageVars, counts>>

\* A slip: the need of a session is never withdrawn.
PolledSilently(k) ==
  /\ Ends(k, "poll") /\ Done(k)
  /\ UNCHANGED <<deviceVars, pageVars, counts>>

Polled(k) ==
  /\ Ends(k, "poll") /\ Done(k)
  /\ authNeeded' = FALSE
  /\ UNCHANGED <<deviceVars, route, win, drawn, shown, counts>>

\* 401 to a load or an acknowledgement: what is shown stays.
Refused(k) ==
  /\ reqs[k].st = "refused" /\ reqs[k].kind # "poll" /\ Done(k)
  /\ UNCHANGED <<deviceVars, pageVars, counts>>

\* 401 to a poll: the page of the session is opened, once until one succeeds.
NoSession(k) ==
  /\ reqs[k].st = "refused" /\ reqs[k].kind = "poll" /\ Done(k)
  /\ route' = IF authNeeded THEN route ELSE "login"
  /\ authNeeded' = TRUE
  /\ UNCHANGED <<deviceVars, win, drawn, shown, counts>>

LoggedIn(k) ==
  /\ Ends(k, "login") /\ Done(k)
  /\ route' = "other"
  /\ UNCHANGED <<deviceVars, win, drawn, shown, authNeeded, counts>>

LoggedOut(k) ==
  /\ Ends(k, "logout") /\ Done(k)
  /\ UNCHANGED <<deviceVars, pageVars, counts>>

\* Lost, or refused for any other reason: what is shown stays.
Fail(k) ==
  /\ errors < MaxErrors
  /\ errors' = errors + 1 /\ Done(k)
  /\ UNCHANGED <<deviceVars, pageVars, asked>>

Answer(k) ==
  \/ TrendDrawn(k) \/ ListShown(k) \/ Acked(k) \/ Polled(k)
  \/ Refused(k) \/ NoSession(k) \/ LoggedIn(k) \/ LoggedOut(k)

-----------------------------------------------------------------------------
Init ==
  /\ ver = 0 /\ session \in BOOLEAN
  /\ reqs = <<>>
  /\ route = "other" /\ win \in Windows /\ drawn = None /\ shown = None
  /\ authNeeded = FALSE
  /\ asked = 0 /\ errors = 0

User ==
  \/ \E r \in Feeding \union {"login"} : Enter(r)
  \/ \E w \in Windows : Choose(w)
  \/ Ack \/ \E kind \in {"login", "logout"} : Login(kind)

Next ==
  \/ User \/ Due \/ Poll \/ Change \/ Expire
  \/ \E k \in DOMAIN reqs : Serve(k) \/ Answer(k) \/ Fail(k)

\* Every request is served and answered, and loads are made as they are due.
Progress == reqs # <<>> /\ (Serve(1) \/ Answer(1))
Fairness == SF_vars(Due) /\ SF_vars(Poll) /\ WF_vars(Progress)

Spec == Init /\ [][Next]_vars /\ Fairness

-----------------------------------------------------------------------------
\* When the user stays with a window of the trends and the session lasts, the
\* chart comes to show it for good, although the answers for windows chosen
\* before, and refusals from before a login, may still come in (load, win).
\* Without a session every load is refused and the page stays open.
WindowIsDrawn ==
  \A w \in Windows : <>[](route = "trends" /\ win = w /\ session) => <>[](drawn = w)

\* When the page of the alarms stays open and the session lasts, it comes to
\* show them as they are for good once they rest, as they do within the
\* bounds (load, pageUpdaters.alarms).
AlarmsAreShown == <>[](route = "alarms" /\ session) => <>[](shown = ver)

\* Whether a session is needed comes to be noted for good once nothing changes
\* it, although answers to the polls of the time before may still come in
\* (poll, authNeeded).
SessionIsNoted == <>[](authNeeded = ~session)
=============================================================================
