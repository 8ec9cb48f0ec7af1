--------------------------------- MODULE Page ---------------------------------
(***************************************************************************)
(* The web page against the device: polling of /api/data, the age of what  *)
(* is shown, the command flow of /api/cmd with its confirmation and the    *)
(* controls that carry it (src/tools/ui/src: 10_runtime, 20_overview,      *)
(* 30_control, 40_outputs_trends, 90_init), on a page that stays in view.  *)
(*                                                                         *)
(* Time is counted in POLL_MS.  A poll is sent in every period whether or  *)
(* not the earlier ones have come back, so polls[a] is the one that is a   *)
(* periods old.  The code sets no timeout on a request: MaxDelay is the    *)
(* browser's, and everything may come back in any order until then, also   *)
(* after a restart of the device.                                          *)
(***************************************************************************)
EXTENDS Naturals

CONSTANTS
  Controls,                   \* commands the page has a control for
  Kinds,                      \* the widgets that may carry one: among
                              \* "number", "radio" and "switch"
  Values,                     \* what a control may be set to
  Risky,                      \* [control, value] pairs asked about first
  None,
  Stale,                      \* STALE_MS
  Confirm,                    \* CONFIRM_MS
  MaxDelay,                   \* the longest a request is outstanding
  BootTime,                   \* how long a restart keeps the device off the net
  MaxSeq, MaxBoots            \* bounds: publications of a boot, restarts

ASSUME PageAssumption ==
  /\ {Stale, Confirm, MaxDelay, BootTime, MaxSeq, MaxBoots} \subseteq Nat
  /\ None \notin Controls /\ Kinds \subseteq {"number", "radio", "switch"}

VARIABLES
  \* the device
  val,     \* [control -> value], the core's
  snap,    \* what it published last: [boot, seq, val]
  down,    \* periods until it answers again
  \* the requests of the page
  polls,   \* [0..MaxDelay -> a poll, or the data that answers it, or Gone]
  cmd,     \* [control -> command], from the click to its end; boot and at
           \* are history: what was published last when it was taken
  \* the page
  kind,    \* [control -> its widget], the same for good
  D,       \* the last data, and how long ago the device gave it
  okAge,   \* now - lastOk
  off,     \* the buttons were disabled by the last update
  shown,   \* [control -> what its widget shows]
  mark,    \* [control -> dataset.dirty of a number, dataset.busy of a radio group]
  dlg      \* the open question

deviceVars == <<val, snap, down>>
lineVars   == <<polls, cmd>>
viewVars   == <<off, shown, mark>>
pageVars   == <<kind, D, okAge, dlg>>
vars       == <<deviceVars, lineVars, viewVars, pageVars>>

Numbers == {c \in Controls : kind[c] = "number"}
Radios  == {c \in Controls : kind[c] = "radio"}

Up == down = 0
\* stale()
IsStale(d, age) == d = None \/ age > Stale
\* What renderShell and the notices call the data.
Live == ~IsStale(D, okAge)

Gone  == [st |-> "gone"]
Asked == [st |-> "asked"]
Idle  == [st |-> "idle"]
Busy(c) == cmd[c].st # "idle"

\* A slip: an age grows without end.
OlderUnbounded(a, top) == a + 1

Older(a, top) == IF a < top THEN a + 1 ELSE top
\* Ages past these are not told apart.
OkTop == Stale + 1
OldTop == OkTop + MaxDelay
CmdTop(c) == IF cmd[c].st = "waiting" THEN Confirm + 1 ELSE MaxDelay

-----------------------------------------------------------------------------
(* The widgets *)

\* pageUpdaters: a widget takes the value of the data d unless it is marked
\* or, a number, has the cursor in it.
Synced(d, m, cursor) ==
  [c \in Controls |-> IF d = None \/ m[c] \/ c \in cursor THEN shown[c] ELSE d.val[c]]

\* The buttons go with the age of the data; without data they stay as built.
Disabled(d, age) == IF d = None THEN off ELSE IsStale(d, age)

\* A slip: any data with the value will do.
ConfirmsAnyData(c, d) == d # None /\ d.val[c] = cmd[c].want

\* p.check(): seq is new enough, and the field has the value asked for.
Confirms(c, d) == d # None /\ d.seq >= cmd[c].seq /\ d.val[c] = cmd[c].want
\* A slip: the wait for a confirmation has no end.
ExpiredNever(c) == FALSE

Expired(c) == cmd[c].age > Confirm

\* renderAll: first the page's updater, then every pending command.
RenderAll(d, age, m) ==
  LET waiting == {c \in Controls : cmd[c].st = "waiting"}
      done == {c \in waiting : Confirms(c, d)}
      late == {c \in waiting \ done : Expired(c)}
  IN  /\ \E cursor \in SUBSET Numbers : shown' = Synced(d, m, cursor)
      /\ off' = Disabled(d, age)
      /\ mark' = [c \in Controls |-> m[c] /\ c \notin done]
      /\ cmd' = [c \in Controls |-> IF c \in done \union late THEN Idle ELSE cmd[c]]

-----------------------------------------------------------------------------
(* Polling *)

\* setInterval(poll, POLL_MS); the ages of everything grow.
Tick ==
  /\ polls[MaxDelay] = Gone
  /\ \A c \in Controls : cmd[c].st \in {"sent", "served"} => cmd[c].age < MaxDelay
  /\ polls' = [a \in 0..MaxDelay |->
                 IF a = 0 THEN Asked
                 ELSE IF polls[a - 1].st = "data" THEN [polls[a - 1] EXCEPT !.d.old = @ + 1]
                 ELSE polls[a - 1]]
  /\ cmd' = [c \in Controls |->
               IF Busy(c) THEN [cmd[c] EXCEPT !.age = Older(@, CmdTop(c))] ELSE Idle]
  /\ D' = IF D = None THEN None ELSE [D EXCEPT !.old = Older(@, OldTop)]
  /\ okAge' = Older(okAge, OkTop)
  /\ down' = IF Up THEN 0 ELSE down - 1
  /\ UNCHANGED <<val, snap, viewVars, kind, dlg>>

\* handleData answers with the published snapshot.
ServePoll(a) ==
  /\ Up /\ polls[a] = Asked
  /\ polls' = [polls EXCEPT ![a] = [st |-> "data", d |->
       [boot |-> snap.boot, seq |-> snap.seq, val |-> snap.val, old |-> 0]]]
  /\ UNCHANGED <<deviceVars, cmd, viewVars, pageVars>>

\* The answer arrives.
PollAnswer(a) ==
  /\ polls[a].st = "data"
  /\ polls' = [polls EXCEPT ![a] = Gone]
  /\ D' = polls[a].d
  /\ okAge' = 0
  /\ RenderAll(polls[a].d, 0, mark)
  /\ UNCHANGED <<deviceVars, kind, dlg>>

\* A slip: a poll that fails counts as a sign of life.
PollErrorReassures(a) ==
  /\ polls[a] # Gone
  /\ polls' = [polls EXCEPT ![a] = Gone]
  /\ okAge' = 0
  /\ RenderAll(D, 0, mark)
  /\ UNCHANGED <<deviceVars, kind, D, dlg>>

\* The poll fails: no answer in time, none at all, or one that is not 200.
PollError(a) ==
  /\ polls[a] # Gone
  /\ polls' = [polls EXCEPT ![a] = Gone]
  /\ RenderAll(D, okAge, mark)
  /\ UNCHANGED <<deviceVars, pageVars>>

-----------------------------------------------------------------------------
(* Commands *)

\* sendCmd, up to the request.
Send(c, v) ==
  cmd' = IF Busy(c) \/ IsStale(D, okAge) THEN cmd
         ELSE [cmd EXCEPT ![c] = [st |-> "sent", want |-> v, age |-> 0]]

\* Keys in a number field.
Type(c, v) ==
  /\ dlg = None
  /\ shown' = [shown EXCEPT ![c] = v]
  /\ mark' = [mark EXCEPT ![c] = TRUE]
  /\ UNCHANGED <<deviceVars, lineVars, kind, D, okAge, dlg, off>>

\* numberCmd's button, setpointForm's submit.
Submit(c) ==
  /\ dlg = None /\ ~off
  /\ Send(c, shown[c])
  /\ UNCHANGED <<deviceVars, polls, pageVars, off, shown, mark>>

\* A radio or a switch is moved to v: asked about first when that is risky.
Choose(c, v) ==
  /\ dlg = None /\ ~off
  /\ shown[c] # v
  /\ shown' = [shown EXCEPT ![c] = v]
  /\ mark' = [mark EXCEPT ![c] = c \in Radios]
  /\ IF <<c, v>> \in Risky
     THEN dlg' = <<c, v>> /\ UNCHANGED cmd
     ELSE Send(c, v) /\ UNCHANGED dlg
  /\ UNCHANGED <<deviceVars, polls, kind, D, okAge, off>>

DialogOk ==
  /\ dlg # None
  /\ dlg' = None
  /\ Send(dlg[1], dlg[2])
  /\ UNCHANGED <<deviceVars, polls, kind, D, okAge, off, shown, mark>>

\* Cancelling clears the radio group's mark and renders everything.
DialogCancel ==
  /\ dlg # None
  /\ dlg' = None
  /\ RenderAll(D, okAge, [mark EXCEPT ![dlg[1]] = FALSE])
  /\ UNCHANGED <<deviceVars, polls, kind, D, okAge>>

\* handleCmd takes the command under the core mutex; its answer (ACCEPTED,
\* OVERRIDDEN) names the publication that will show it.
ServeCmd(c) ==
  /\ Up /\ cmd[c].st = "sent"
  /\ val' = [val EXCEPT ![c] = cmd[c].want]
  /\ cmd' = [cmd EXCEPT ![c] = [st |-> "served", want |-> @.want, age |-> @.age,
                                seq |-> snap.seq + 1, boot |-> snap.boot, at |-> snap.seq]]
  /\ UNCHANGED <<snap, down, polls, viewVars, pageVars>>

\* The answer arrives and the wait for the confirmation begins.
CmdAnswer(c) ==
  /\ cmd[c].st = "served"
  /\ cmd' = [cmd EXCEPT ![c].st = "waiting", ![c].age = 0]
  /\ UNCHANGED <<deviceVars, polls, viewVars, pageVars>>

\* The command is refused (401, 409, 503) or its answer is lost, and with it
\* the page's knowledge of whether the device took it.
CmdError(c) ==
  /\ cmd[c].st \in {"sent", "served"}
  /\ cmd' = [cmd EXCEPT ![c] = Idle]
  /\ UNCHANGED <<deviceVars, polls, viewVars, pageVars>>

-----------------------------------------------------------------------------
(* The device on its own *)

Publish ==
  /\ Up /\ snap.seq < MaxSeq
  /\ snap' = [snap EXCEPT !.seq = @ + 1, !.val = val]
  /\ UNCHANGED <<val, down, lineVars, viewVars, pageVars>>

\* MQTT, another page, a program.
OtherChange(c, v) ==
  /\ Up /\ v # val[c]
  /\ val' = [val EXCEPT ![c] = v]
  /\ UNCHANGED <<snap, down, lineVars, viewVars, pageVars>>

\* What is in flight is not recalled.
Restart ==
  /\ Up /\ snap.boot < MaxBoots
  /\ down' = BootTime
  /\ snap' = [boot |-> snap.boot + 1, seq |-> 0, val |-> val]
  /\ UNCHANGED <<val, lineVars, viewVars, pageVars>>

-----------------------------------------------------------------------------
Init ==
  /\ val \in [Controls -> Values]
  /\ snap = [boot |-> 0, seq |-> 0, val |-> val]
  /\ down = 0
  /\ polls = [a \in 0..MaxDelay |-> IF a = 0 THEN Asked ELSE Gone]
  /\ cmd = [c \in Controls |-> Idle]
  /\ kind \in [Controls -> Kinds]
  /\ D = None /\ okAge = OkTop
  /\ off = FALSE
  /\ shown \in [Controls -> Values]
  /\ mark = [c \in Controls |-> FALSE]
  /\ dlg = None

RequestEnds ==
  \/ \E a \in 0..MaxDelay : PollAnswer(a) \/ PollError(a)
  \/ \E c \in Controls : CmdAnswer(c) \/ CmdError(c)

User ==
  \/ \E c \in Numbers : Submit(c) \/ \E v \in Values : Type(c, v)
  \/ \E c \in Controls \ Numbers, v \in Values : Choose(c, v)
  \/ DialogOk \/ DialogCancel

Device ==
  \/ \E a \in 0..MaxDelay : ServePoll(a)
  \/ \E c \in Controls : ServeCmd(c) \/ \E v \in Values : OtherChange(c, v)
  \/ Publish \/ Restart

Next == Tick \/ RequestEnds \/ User \/ Device

\* Time goes on and every request comes to an end; nothing is assumed of the
\* user, of the device or of the answers.
Fairness == WF_vars(Tick) /\ WF_vars(RequestEnds)

Spec == Init /\ [][Next]_vars /\ Fairness

-----------------------------------------------------------------------------
Snapshot == [boot : 0..MaxBoots, seq : 0..MaxSeq, val : [Controls -> Values]]
Data == [boot : 0..MaxBoots, seq : 0..MaxSeq, val : [Controls -> Values], old : 0..OldTop]
Poll == {Gone, Asked} \union [st : {"data"}, d : Data]
Command == {Idle} \union [st : {"sent"}, want : Values, age : 0..MaxDelay]
             \union [st : {"served"}, want : Values, age : 0..MaxDelay,
                     seq : 1..(MaxSeq + 1), boot : 0..MaxBoots, at : 0..MaxSeq]
             \union [st : {"waiting"}, want : Values, age : 0..(Confirm + 1),
                     seq : 1..(MaxSeq + 1), boot : 0..MaxBoots, at : 0..MaxSeq]

\* Every variable keeps to its range.
TypeOK ==
  /\ val \in [Controls -> Values] /\ snap \in Snapshot /\ down \in 0..BootTime
  /\ polls \in [0..MaxDelay -> Poll] /\ cmd \in [Controls -> Command]
  /\ kind \in [Controls -> Kinds]
  /\ D \in Data \union {None} /\ okAge \in 0..OkTop
  /\ off \in BOOLEAN
  /\ shown \in [Controls -> Values] /\ mark \in [Controls -> BOOLEAN]
  /\ dlg \in (Controls \X Values) \union {None}

\* While the page calls its data live, the device gave that data not longer
\* ago than STALE_MS and the time one request may take: neither overlapping
\* polls nor a restart make old data young (stale, poll: 10_runtime.js).
LiveMeansFresh == Live => D.old <= Stale + MaxDelay

Confirmed(c) == cmd[c].st = "waiting" /\ ~Expired(c) /\ cmd'[c] = Idle

\* The data was published after the command was taken.
Reflects(d, c) ==
  \/ d.boot > cmd[c].boot
  \/ d.boot = cmd[c].boot /\ d.seq > cmd[c].at

\* The data is of an earlier run than the command, and older than a restart
\* takes, as far as ages are told apart.
RestartAge == IF BootTime < OldTop THEN BootTime ELSE OldTop
Outlived(d, c) == d.boot < cmd[c].boot /\ d.old >= RestartAge

\* A command is reported as done only on data with the value asked for that
\* the device published after it had taken the command, in whatever order the
\* answers come back; the one exception is data the device gave before a
\* restart that the command came after, and that is older than the restart
\* took (sendCmd's check, handleCmd's seq).
ConfirmedByDevice ==
  [][\A c \in Controls :
       Confirmed(c) => D'.val[c] = cmd[c].want /\ (Reflects(D', c) \/ Outlived(D', c))]_vars

\* A control that was made busy by a command is set free again, whatever
\* becomes of the request, the device and the page (sendCmd's setBusy).
BusyEnds == \A c \in Controls : Busy(c) ~> ~Busy(c)
=============================================================================
