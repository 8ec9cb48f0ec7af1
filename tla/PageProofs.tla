------------------------------ MODULE PageProofs ------------------------------
(***************************************************************************)
(* Proofs about Page, for every set of controls, values and questions,     *)
(* every time-out, duration of a restart and bound: its type invariant,    *)
(* that data called live is fresh, and what data a command is confirmed on.*)
(***************************************************************************)
EXTENDS Page, TLAPS

USE PageAssumption

(* The inductive invariant.  A poll that is a periods old was answered at  *)
(* most that long ago; data of an earlier run of the device has been about *)
(* for as long as the device has been off since.                           *)
Past(boot, old) == boot < snap.boot => RestartAge <= old + down

PollAges ==
  \A a \in 0 .. MaxDelay : polls[a].st = "data" =>
    /\ polls[a].d.old <= a
    /\ polls[a].d.boot <= snap.boot
    /\ Past(polls[a].d.boot, polls[a].d.old)

DataAge ==
  D # None => /\ D.old <= okAge + MaxDelay
              /\ D.boot <= snap.boot
              /\ Past(D.boot, D.old)

(* A command that was taken waits for the publication that follows; data   *)
(* of a run before the one that took it has outlived a restart.            *)
TakenAges ==
  \A c \in Controls : cmd[c].st \in {"served", "waiting"} =>
    /\ cmd[c].boot <= snap.boot /\ cmd[c].seq = cmd[c].at + 1
    /\ D # None /\ D.boot < cmd[c].boot => RestartAge <= D.old
    /\ \A a \in 0 .. MaxDelay : polls[a].st = "data" /\ polls[a].d.boot < cmd[c].boot =>
         RestartAge <= polls[a].d.old

Ages == PollAges /\ DataAge /\ TakenAges
IInv == TypeOK /\ Ages

-----------------------------------------------------------------------------
(* The ranges *)

LEMMA Bounds ==
  /\ Stale \in Nat /\ Confirm \in Nat /\ MaxDelay \in Nat /\ BootTime \in Nat
  /\ MaxSeq \in Nat /\ MaxBoots \in Nat
OBVIOUS

LEMMA OlderFacts ==
  ASSUME NEW top \in Nat, NEW a \in 0 .. top
  PROVE  /\ Older(a, top) \in 0 .. top
         /\ a < top => Older(a, top) = a + 1
         /\ a = top => Older(a, top) = top
BY DEF Older

LEMMA Tops == OkTop \in Nat /\ OldTop \in Nat /\ OkTop = Stale + 1 /\ OldTop = Stale + 1 + MaxDelay
BY DEF OkTop, OldTop

LEMMA OnePeriod ==
  ASSUME NEW r \in Nat, NEW x \in Nat, NEW y \in Nat, NEW z \in Nat, r <= x + y, y <= z + 1
  PROVE  r <= (x + 1) + z
OBVIOUS

LEMMA RestartAges == RestartAge \in Nat /\ RestartAge <= BootTime /\ RestartAge <= OldTop
BY Bounds, Tops DEF RestartAge

(* What there is to know of a poll that has been answered.                 *)
LEMMA PollFacts ==
  ASSUME NEW p \in Poll, p.st = "data"
  PROVE  p.d \in Data
BY DEF Poll, Gone, Asked

LEMMA DataFacts ==
  ASSUME NEW d \in Data
  PROVE  /\ d.boot \in 0 .. MaxBoots /\ d.seq \in 0 .. MaxSeq
         /\ d.val \in [Controls -> Values] /\ d.old \in 0 .. OldTop
BY DEF Data

(* What there is to know of a command.                                     *)
LEMMA CommandFacts ==
  ASSUME NEW k \in Command
  PROVE  /\ k.st \in {"idle", "sent", "served", "waiting"}
         /\ k.st = "idle" <=> k = Idle
         /\ k.st # "idle" => k.want \in Values
         /\ k.st \in {"sent", "served"} => k.age \in 0 .. MaxDelay
         /\ k.st = "waiting" => k.age \in 0 .. (Confirm + 1)
         /\ k.st \in {"served", "waiting"} =>
              k.seq \in 1 .. (MaxSeq + 1) /\ k.boot \in 0 .. MaxBoots /\ k.at \in 0 .. MaxSeq
BY DEF Command, Idle

LEMMA Sent ==
  ASSUME NEW v \in Values, NEW g \in 0 .. MaxDelay
  PROVE  [st |-> "sent", want |-> v, age |-> g] \in Command
BY DEF Command

LEMMA Taken ==
  ASSUME NEW v \in Values, NEW s \in 1 .. (MaxSeq + 1), NEW b \in 0 .. MaxBoots,
         NEW n \in 0 .. MaxSeq
  PROVE  /\ \A g \in 0 .. MaxDelay :
              [st |-> "served", want |-> v, age |-> g, seq |-> s, boot |-> b, at |-> n] \in Command
         /\ \A g \in 0 .. (Confirm + 1) :
              [st |-> "waiting", want |-> v, age |-> g, seq |-> s, boot |-> b, at |-> n] \in Command
BY DEF Command

(* A command grows older within its range, and stays what it is.           *)
LEMMA Aged ==
  ASSUME NEW k \in Command, k.st # "idle", NEW g \in Nat,
         g <= IF k.st = "waiting" THEN Confirm + 1 ELSE MaxDelay
  PROVE  /\ [k EXCEPT !.age = g] \in Command
         /\ [k EXCEPT !.age = g].st = k.st /\ [k EXCEPT !.age = g].age = g
         /\ k.st \in {"served", "waiting"} =>
              [k EXCEPT !.age = g].boot = k.boot /\ [k EXCEPT !.age = g].seq = k.seq
              /\ [k EXCEPT !.age = g].at = k.at
BY DEF Command, Idle

(* Rendering leaves every command as it is or ends it, and keeps the       *)
(* widgets to their ranges.                                                *)
LEMMA Rendering ==
  ASSUME NEW d \in Data \union {None}, NEW age \in Nat, NEW m \in [Controls -> BOOLEAN],
         RenderAll(d, age, m), TypeOK
  PROVE  /\ shown' \in [Controls -> Values] /\ off' \in BOOLEAN
         /\ mark' \in [Controls -> BOOLEAN] /\ cmd' \in [Controls -> Command]
         /\ \A c \in Controls : cmd'[c] \in {cmd[c], Idle}
         /\ \A c \in Controls : cmd[c].st = "waiting" /\ ~Expired(c) /\ cmd'[c] = Idle =>
              d # None /\ d.seq >= cmd[c].seq /\ d.val[c] = cmd[c].want
<1> DEFINE waiting == {c \in Controls : cmd[c].st = "waiting"}
           done == {c \in waiting : Confirms(c, d)}
           late == {c \in waiting \ done : Expired(c)}
<1>1. /\ \E cursor \in SUBSET Numbers : shown' = Synced(d, m, cursor)
      /\ off' = Disabled(d, age)
      /\ mark' = [c \in Controls |-> m[c] /\ c \notin done]
      /\ cmd' = [c \in Controls |-> IF c \in done \union late THEN Idle ELSE cmd[c]]
  BY DEF RenderAll
<1>2. shown' \in [Controls -> Values]
  BY <1>1 DEF Synced, TypeOK, Data
<1>3. off' \in BOOLEAN
  BY <1>1 DEF TypeOK, IsStale, Disabled
<1>4. mark' \in [Controls -> BOOLEAN]
  <2> HIDE DEF done
  <2> QED
    BY <1>1
<1>5. Idle \in Command
  BY DEF Command
<1>6. cmd \in [Controls -> Command]
  BY DEF TypeOK
<1>7. cmd' \in [Controls -> Command] /\ \A c \in Controls : cmd'[c] \in {cmd[c], Idle}
  <2> HIDE DEF done, late
  <2> QED
    BY <1>1, <1>5, <1>6
<1>8. ASSUME NEW c \in Controls, cmd[c].st = "waiting", ~Expired(c), cmd'[c] = Idle
      PROVE  Confirms(c, d)
  <2>1. cmd[c] # Idle
    BY <1>8 DEF Idle
  <2>2. c \in done
    BY <1>1, <1>8, <2>1
  <2> QED
    BY <2>2
<1> QED
  BY <1>2, <1>3, <1>4, <1>7, <1>8 DEF Confirms

-----------------------------------------------------------------------------
LEMMA InitIInv == Init => IInv
<1> SUFFICES ASSUME Init PROVE IInv
  OBVIOUS
<1>1. snap \in Snapshot
  BY DEF Init, Snapshot
<1>2. polls \in [0 .. MaxDelay -> Poll]
  BY DEF Init, Poll
<1>3. cmd \in [Controls -> Command]
  BY DEF Init, Command
<1>4. TypeOK
  <2>1. okAge \in 0 .. OkTop /\ down \in 0 .. BootTime
    BY Bounds, Tops DEF Init
  <2>2. D \in Data \union {None} /\ dlg \in (Controls \X Values) \union {None}
    BY DEF Init
  <2>3. mark \in [Controls -> BOOLEAN]
    BY DEF Init
  <2> QED
    BY <1>1, <1>2, <1>3, <2>1, <2>2, <2>3 DEF Init, TypeOK
<1>5. Ages
  BY <1>2 DEF Init, Ages, PollAges, DataAge, TakenAges, Gone, Asked, Idle
<1> QED
  BY <1>4, <1>5 DEF IInv

-----------------------------------------------------------------------------
(* Polling *)

LEMMA TickInv == ASSUME IInv, Tick PROVE IInv'
<1>0. TypeOK /\ PollAges /\ DataAge /\ TakenAges
  BY DEF IInv, Ages
<1>1. /\ polls[MaxDelay] = Gone
      /\ \A c \in Controls : cmd[c].st \in {"sent", "served"} => cmd[c].age < MaxDelay
      /\ UNCHANGED <<val, snap, off, shown, mark, kind, dlg>>
      /\ down' = (IF down = 0 THEN 0 ELSE down - 1) /\ okAge' = Older(okAge, OkTop)
      /\ D' = IF D = None THEN None ELSE [D EXCEPT !.old = Older(@, OldTop)]
  BY DEF Tick, viewVars, Up
<1>2. polls \in [0 .. MaxDelay -> Poll] /\ cmd \in [Controls -> Command]
      /\ D \in Data \union {None} /\ okAge \in 0 .. OkTop /\ down \in 0 .. BootTime /\ snap \in Snapshot
  BY <1>0 DEF TypeOK
<1>3. down' \in 0 .. BootTime /\ down \in Nat /\ down' \in Nat /\ down <= down' + 1
  <2>1. down \in Nat /\ down <= BootTime
    BY <1>2, Bounds
  <2>2. CASE down = 0
    BY <1>1, <2>1, <2>2, Bounds
  <2>3. CASE down # 0
    <3>1. down' = down - 1
      BY <1>1, <2>3
    <3> QED
      BY <2>1, <2>3, <3>1, Bounds
  <2> QED
    BY <2>2, <2>3
<1>4. okAge' \in 0 .. OkTop /\ (okAge < OkTop => okAge' = okAge + 1) /\ (okAge = OkTop => okAge' = OkTop)
  BY <1>1, <1>2, Tops, OlderFacts
\* the polls
<1>5. ASSUME NEW a \in 0 .. MaxDelay
      PROVE  /\ polls'[a] \in Poll
             /\ polls'[a].st = "data" =>
                  /\ a > 0 /\ polls[a - 1].st = "data"
                  /\ polls'[a].d.boot = polls[a - 1].d.boot
                  /\ polls'[a].d.old = polls[a - 1].d.old + 1
  <2>1. polls'[a] = IF a = 0 THEN Asked
                    ELSE IF polls[a - 1].st = "data" THEN [polls[a - 1] EXCEPT !.d.old = @ + 1]
                    ELSE polls[a - 1]
    BY DEF Tick
  <2>2. CASE a = 0
    BY <2>1, <2>2 DEF Poll, Asked
  <2>3. CASE a > 0 /\ polls[a - 1].st = "data"
    <3> DEFINE p == polls[a - 1]
    <3>1. a - 1 \in 0 .. MaxDelay
      BY <2>3
    <3>2. p \in Poll /\ p.st = "data" /\ p.d.old <= a - 1
      BY <1>0, <1>2, <2>3, <3>1 DEF PollAges
    <3>3. p.d \in Data
      BY <3>2, PollFacts
    <3>4. p.d.old + 1 \in 0 .. OldTop
      BY <3>2, <3>3, DataFacts, Tops
    <3> HIDE DEF p
    <3>5. [p.d EXCEPT !.old = @ + 1] \in Data
      BY <3>3, <3>4 DEF Data
    <3>6. polls'[a] = [p EXCEPT !.d = [p.d EXCEPT !.old = @ + 1]]
      BY <2>1, <2>3 DEF p
    <3>7. p \in [st : {"data"}, d : Data]
      BY <3>2 DEF Poll, Gone, Asked
    <3>8. polls'[a] \in Poll
      BY <3>5, <3>6, <3>7 DEF Poll
    <3>9. polls'[a].d = [p.d EXCEPT !.old = @ + 1]
      BY <3>6, <3>7
    <3>10. polls'[a].d.boot = p.d.boot /\ polls'[a].d.old = p.d.old + 1
      BY <3>3, <3>9 DEF Data
    <3> QED
      BY <2>3, <3>8, <3>10 DEF p
  <2>4. CASE a > 0 /\ polls[a - 1].st # "data"
    <3>1. a - 1 \in 0 .. MaxDelay
      BY <2>4
    <3> QED
      BY <1>2, <2>1, <2>4, <3>1
  <2> QED
    BY <2>2, <2>3, <2>4
<1>6. polls' \in [0 .. MaxDelay -> Poll]
  <2>1. polls' = [a \in 0 .. MaxDelay |-> polls'[a]]
    BY DEF Tick
  <2> QED
    BY <1>5, <2>1
<1>7. PollAges'
  <2> SUFFICES ASSUME NEW a \in 0 .. MaxDelay, polls'[a].st = "data"
               PROVE  /\ polls'[a].d.old <= a
                      /\ polls'[a].d.boot <= snap.boot
                      /\ polls'[a].d.boot < snap.boot => RestartAge <= polls'[a].d.old + down'
    BY <1>1 DEF PollAges, Past
  <2>1. a > 0 /\ polls[a - 1].st = "data" /\ a - 1 \in 0 .. MaxDelay
    BY <1>5
  <2>2. /\ polls[a - 1].d.old <= a - 1 /\ polls[a - 1].d.boot <= snap.boot
        /\ polls[a - 1].d.boot < snap.boot => RestartAge <= polls[a - 1].d.old + down
    BY <1>0, <2>1 DEF PollAges, Past
  <2>3. polls[a - 1].d \in Data
    BY <1>2, <2>1, PollFacts
  <2>4. polls[a - 1].d.old \in Nat
    BY <2>3, DataFacts
  <2>5. polls'[a].d.boot = polls[a - 1].d.boot /\ polls'[a].d.old = polls[a - 1].d.old + 1
    BY <1>5
  <2>6. ASSUME polls'[a].d.boot < snap.boot
        PROVE  RestartAge <= polls'[a].d.old + down'
    <3>1. RestartAge <= polls[a - 1].d.old + down
      BY <2>2, <2>5, <2>6
    <3>2. RestartAge <= (polls[a - 1].d.old + 1) + down'
      BY <1>3, <2>4, <3>1, RestartAges, OnePeriod
    <3> QED
      BY <2>5, <3>2
  <2>7. polls'[a].d.old <= a /\ polls'[a].d.boot <= snap.boot
    BY <2>1, <2>2, <2>4, <2>5
  <2> QED
    BY <2>6, <2>7
\* the data shown
<1>8. /\ D' \in Data \union {None}
      /\ D' # None => D # None /\ D \in Data /\ D'.boot = D.boot /\ D'.old = Older(D.old, OldTop)
  <2>1. CASE D = None
    BY <1>1, <2>1
  <2>2. CASE D # None
    <3>1. D \in Data /\ Older(D.old, OldTop) \in 0 .. OldTop
      BY <1>2, <2>2, DataFacts, Tops, OlderFacts
    <3> DEFINE o == Older(D.old, OldTop)
    <3>2. D' = [D EXCEPT !.old = o]
      BY <1>1, <2>2
    <3> HIDE DEF o
    <3>3. o \in 0 .. OldTop
      BY <3>1 DEF o
    <3>4. D' \in Data /\ D'.boot = D.boot /\ D'.old = o
      BY <3>1, <3>2, <3>3 DEF Data
    <3> QED
      BY <2>2, <3>1, <3>4 DEF o
  <2> QED
    BY <2>1, <2>2
<1>9. DataAge'
  <2> SUFFICES ASSUME D' # None
               PROVE  /\ D'.old <= okAge' + MaxDelay /\ D'.boot <= snap.boot
                      /\ D'.boot < snap.boot => RestartAge <= D'.old + down'
    BY <1>1 DEF DataAge, Past
  <2>1. /\ D \in Data /\ D.old <= okAge + MaxDelay /\ D.boot <= snap.boot
        /\ D.boot < snap.boot => RestartAge <= D.old + down
        /\ D'.boot = D.boot /\ D'.old = Older(D.old, OldTop)
    BY <1>0, <1>8 DEF DataAge, Past
  <2>2. D.old \in 0 .. OldTop
    BY <2>1, DataFacts
  <2>3. D'.old \in 0 .. OldTop /\ (D.old < OldTop => D'.old = D.old + 1) /\ (D.old = OldTop => D'.old = OldTop)
    BY <2>1, <2>2, Tops, OlderFacts
  <2>4. D'.old <= okAge' + MaxDelay
    BY <1>2, <1>4, <2>1, <2>2, <2>3, Tops, Bounds
  <2>5. ASSUME D'.boot < snap.boot PROVE RestartAge <= D'.old + down'
    <3>1. RestartAge <= D.old + down
      BY <2>1, <2>5
    <3>2. CASE D.old = OldTop
      BY <1>3, <2>3, <3>2, RestartAges, Tops
    <3>3. CASE D.old < OldTop
      <4>1. RestartAge <= (D.old + 1) + down'
        <5>1. D.old \in Nat
          BY <2>2, Tops
        <5> QED
          BY <1>3, <3>1, <5>1, RestartAges, OnePeriod
      <4> QED
        BY <2>3, <3>3, <4>1
    <3> QED
      BY <2>2, <3>2, <3>3, Tops
  <2> QED
    BY <2>1, <2>4, <2>5
\* the commands
<1>10. ASSUME NEW c \in Controls
       PROVE  /\ cmd'[c] \in Command
              /\ cmd'[c].st = cmd[c].st
              /\ cmd'[c].st \in {"served", "waiting"} =>
                   cmd'[c].boot = cmd[c].boot /\ cmd'[c].seq = cmd[c].seq /\ cmd'[c].at = cmd[c].at
  <2>1. cmd'[c] = IF Busy(c) THEN [cmd[c] EXCEPT !.age = Older(@, CmdTop(c))] ELSE Idle
    BY DEF Tick
  <2>2. cmd[c] \in Command
    BY <1>2
  <2>3. CASE ~Busy(c)
    BY <2>1, <2>2, <2>3, CommandFacts DEF Busy, Idle
  <2>4. CASE Busy(c)
    <3> DEFINE g == Older(cmd[c].age, CmdTop(c))
    <3>1. g \in Nat /\ g <= IF cmd[c].st = "waiting" THEN Confirm + 1 ELSE MaxDelay
      BY <2>2, <2>4, CommandFacts DEF Older, CmdTop, Busy
    <3>2. cmd'[c] = [cmd[c] EXCEPT !.age = g]
      BY <2>1, <2>4
    <3> HIDE DEF g
    <3> QED
      BY <2>2, <2>4, <3>1, <3>2, Aged DEF Busy
  <2> QED
    BY <2>3, <2>4
<1>11. cmd' \in [Controls -> Command]
  <2>1. cmd' = [c \in Controls |-> cmd'[c]]
    BY DEF Tick
  <2> QED
    BY <1>10, <2>1
<1>12. TakenAges'
  <2> SUFFICES ASSUME NEW c \in Controls, cmd'[c].st \in {"served", "waiting"}
               PROVE  /\ cmd'[c].boot <= snap.boot /\ cmd'[c].seq = cmd'[c].at + 1
                      /\ D' # None /\ D'.boot < cmd'[c].boot => RestartAge <= D'.old
                      /\ \A a \in 0 .. MaxDelay : polls'[a].st = "data" /\ polls'[a].d.boot < cmd'[c].boot =>
                           RestartAge <= polls'[a].d.old
    BY <1>1 DEF TakenAges
  <2>1. /\ cmd[c].st \in {"served", "waiting"} /\ cmd'[c].boot = cmd[c].boot
        /\ cmd'[c].seq = cmd[c].seq /\ cmd'[c].at = cmd[c].at
    BY <1>10
  <2>2. /\ cmd[c].boot <= snap.boot /\ cmd[c].seq = cmd[c].at + 1
        /\ D # None /\ D.boot < cmd[c].boot => RestartAge <= D.old
        /\ \A a \in 0 .. MaxDelay : polls[a].st = "data" /\ polls[a].d.boot < cmd[c].boot =>
             RestartAge <= polls[a].d.old
    BY <1>0, <2>1 DEF TakenAges
  <2>3. ASSUME D' # None, D'.boot < cmd'[c].boot PROVE RestartAge <= D'.old
    <3>1. D # None /\ D \in Data /\ D'.old = Older(D.old, OldTop) /\ RestartAge <= D.old
      BY <1>8, <2>1, <2>2, <2>3
    <3>2. D.old \in 0 .. OldTop
      BY <3>1, DataFacts
    <3>3. D.old <= Older(D.old, OldTop) /\ Older(D.old, OldTop) \in Nat
      BY <3>2, Tops DEF Older
    <3> QED
      BY <3>1, <3>2, <3>3, RestartAges, Tops
  <2>4. ASSUME NEW a \in 0 .. MaxDelay, polls'[a].st = "data", polls'[a].d.boot < cmd'[c].boot
        PROVE  RestartAge <= polls'[a].d.old
    <3>1. /\ a - 1 \in 0 .. MaxDelay /\ polls[a - 1].st = "data" /\ polls[a - 1].d.boot < cmd[c].boot
          /\ polls'[a].d.old = polls[a - 1].d.old + 1
      BY <1>5, <2>1, <2>4
    <3>2. polls[a - 1].d \in Data
      BY <1>2, <3>1, PollFacts
    <3>3. polls[a - 1].d.old \in Nat
      BY <3>2, DataFacts
    <3> QED
      BY <2>2, <3>1, <3>3, RestartAges
  <2> QED
    BY <2>1, <2>2, <2>3, <2>4
<1>13. TypeOK'
  BY <1>0, <1>1, <1>3, <1>4, <1>6, <1>8, <1>11 DEF TypeOK
<1> QED
  BY <1>7, <1>9, <1>12, <1>13 DEF IInv, Ages

(* Commands that stay as they are or end.                                  *)
LEMMA FewerCommands ==
  ASSUME IInv, \A c \in Controls : cmd'[c] \in {cmd[c], Idle},
         UNCHANGED snap,
         D' = D \/ \E a \in 0 .. MaxDelay : polls[a].st = "data" /\ D' = polls[a].d,
         \A a \in 0 .. MaxDelay : polls'[a] \in {polls[a], Gone}
  PROVE  TakenAges'
<1> SUFFICES ASSUME NEW c \in Controls, cmd'[c].st \in {"served", "waiting"}
             PROVE  /\ cmd'[c].boot <= snap.boot /\ cmd'[c].seq = cmd'[c].at + 1
                    /\ D' # None /\ D'.boot < cmd'[c].boot => RestartAge <= D'.old
                    /\ \A a \in 0 .. MaxDelay : polls'[a].st = "data" /\ polls'[a].d.boot < cmd'[c].boot =>
                         RestartAge <= polls'[a].d.old
  BY DEF TakenAges
<1>1. cmd'[c] = cmd[c]
  BY DEF Idle
<1>2. /\ cmd[c].boot <= snap.boot /\ cmd[c].seq = cmd[c].at + 1
      /\ D # None /\ D.boot < cmd[c].boot => RestartAge <= D.old
      /\ \A a \in 0 .. MaxDelay : polls[a].st = "data" /\ polls[a].d.boot < cmd[c].boot =>
           RestartAge <= polls[a].d.old
  BY <1>1 DEF IInv, Ages, TakenAges
<1>3. \A a \in 0 .. MaxDelay : polls'[a].st = "data" => polls'[a] = polls[a]
  BY DEF Gone
<1> QED
  BY <1>1, <1>2, <1>3

LEMMA ServePollInv == ASSUME IInv, NEW a \in 0 .. MaxDelay, ServePoll(a) PROVE IInv'
<1>0. TypeOK /\ PollAges /\ DataAge /\ TakenAges
  BY DEF IInv, Ages
<1> DEFINE d == [boot |-> snap.boot, seq |-> snap.seq, val |-> snap.val, old |-> 0]
<1>1. /\ down = 0 /\ polls' = [polls EXCEPT ![a] = [st |-> "data", d |-> d]]
      /\ UNCHANGED <<val, snap, down, cmd, off, shown, mark, kind, D, okAge, dlg>>
  BY DEF ServePoll, Up, deviceVars, viewVars, pageVars
<1>2. snap \in Snapshot /\ polls \in [0 .. MaxDelay -> Poll]
  BY <1>0 DEF TypeOK
<1>3. d \in Data /\ d.boot = snap.boot /\ d.old = 0
  BY <1>2, Tops DEF Snapshot, Data
<1> HIDE DEF d
<1>4. [st |-> "data", d |-> d] \in Poll
  BY <1>3 DEF Poll
<1>5. polls' \in [0 .. MaxDelay -> Poll]
  BY <1>1, <1>2, <1>4
<1>6. ASSUME NEW b \in 0 .. MaxDelay
      PROVE  polls'[b] = polls[b] \/ (polls'[b].st = "data" /\ polls'[b].d = d)
  BY <1>1, <1>2
<1>7. snap.boot \in Nat
  BY <1>2 DEF Snapshot
<1>8. PollAges'
  <2> SUFFICES ASSUME NEW b \in 0 .. MaxDelay, polls'[b].st = "data"
               PROVE  /\ polls'[b].d.old <= b /\ polls'[b].d.boot <= snap.boot
                      /\ polls'[b].d.boot < snap.boot => RestartAge <= polls'[b].d.old + down
    BY <1>1 DEF PollAges, Past
  <2>1. CASE polls'[b] = polls[b]
    BY <1>0, <2>1 DEF PollAges, Past
  <2>2. CASE polls'[b].d = d
    BY <1>3, <1>7, <2>2
  <2> QED
    BY <1>6, <2>1, <2>2
<1>9. TakenAges'
  <2> SUFFICES ASSUME NEW c \in Controls, cmd[c].st \in {"served", "waiting"}
               PROVE  /\ cmd[c].boot <= snap.boot /\ cmd[c].seq = cmd[c].at + 1
                      /\ D # None /\ D.boot < cmd[c].boot => RestartAge <= D.old
                      /\ \A b \in 0 .. MaxDelay : polls'[b].st = "data" /\ polls'[b].d.boot < cmd[c].boot =>
                           RestartAge <= polls'[b].d.old
    BY <1>1 DEF TakenAges
  <2>1. /\ cmd[c].boot <= snap.boot /\ cmd[c].seq = cmd[c].at + 1
        /\ D # None /\ D.boot < cmd[c].boot => RestartAge <= D.old
        /\ \A b \in 0 .. MaxDelay : polls[b].st = "data" /\ polls[b].d.boot < cmd[c].boot =>
             RestartAge <= polls[b].d.old
    BY <1>0 DEF TakenAges
  <2>2. cmd[c].boot \in Nat
    <3>1. cmd[c] \in Command
      BY <1>0 DEF TypeOK
    <3> QED
      BY <3>1, CommandFacts
  <2>3. ASSUME NEW b \in 0 .. MaxDelay, polls'[b].st = "data", polls'[b].d.boot < cmd[c].boot
        PROVE  RestartAge <= polls'[b].d.old
    <3>1. polls'[b].d # d
      BY <1>3, <1>7, <2>1, <2>2, <2>3
    <3> QED
      BY <1>6, <2>1, <2>3, <3>1
  <2> QED
    BY <2>1, <2>3
<1>10. DataAge' /\ TypeOK'
  BY <1>0, <1>1, <1>5 DEF DataAge, Past, TypeOK
<1> QED
  BY <1>8, <1>9, <1>10 DEF IInv, Ages

(* An answer brings data that is at most as old as its poll.               *)
LEMMA PollAnswerInv == ASSUME IInv, NEW a \in 0 .. MaxDelay, PollAnswer(a) PROVE IInv'
<1>0. TypeOK /\ PollAges /\ DataAge /\ TakenAges
  BY DEF IInv, Ages
<1>1. /\ polls[a].st = "data" /\ polls' = [polls EXCEPT ![a] = Gone]
      /\ D' = polls[a].d /\ okAge' = 0 /\ RenderAll(polls[a].d, 0, mark)
      /\ UNCHANGED <<val, snap, down, kind, dlg>>
  BY DEF PollAnswer, deviceVars
<1>2. polls \in [0 .. MaxDelay -> Poll] /\ mark \in [Controls -> BOOLEAN]
      /\ snap \in Snapshot /\ down \in 0 .. BootTime
  BY <1>0 DEF TypeOK
<1>3. polls[a].d \in Data
  BY <1>1, <1>2, PollFacts
<1>4. /\ shown' \in [Controls -> Values] /\ off' \in BOOLEAN
      /\ mark' \in [Controls -> BOOLEAN] /\ cmd' \in [Controls -> Command]
      /\ \A c \in Controls : cmd'[c] \in {cmd[c], Idle}
  BY <1>0, <1>1, <1>2, <1>3, Rendering
<1>5. \A b \in 0 .. MaxDelay : polls'[b] \in {polls[b], Gone}
  BY <1>1, <1>2
<1>6. polls' \in [0 .. MaxDelay -> Poll]
  BY <1>1, <1>2 DEF Poll
<1>7. /\ polls[a].d.old <= a /\ polls[a].d.boot <= snap.boot
      /\ polls[a].d.boot < snap.boot => RestartAge <= polls[a].d.old + down
  BY <1>0, <1>1 DEF PollAges, Past
<1>8. polls[a].d.boot \in Nat /\ snap.boot \in Nat /\ polls[a].d.old \in Nat
  BY <1>2, <1>3, DataFacts DEF Snapshot
<1>9. PollAges'
  <2>1. \A b \in 0 .. MaxDelay : polls'[b].st = "data" => polls'[b] = polls[b]
    BY <1>5 DEF Gone
  <2> QED
    BY <1>0, <1>1, <2>1 DEF PollAges, Past
<1>10. DataAge'
  BY <1>1, <1>2, <1>7, <1>8, Bounds DEF DataAge, Past
<1>11. TakenAges'
  BY <1>1, <1>4, <1>5, FewerCommands
<1>12. TypeOK'
  <2>1. okAge' \in 0 .. OkTop
    BY <1>1, Tops
  <2> QED
    BY <1>0, <1>1, <1>3, <1>4, <1>6, <2>1 DEF TypeOK
<1> QED
  BY <1>9, <1>10, <1>11, <1>12 DEF IInv, Ages

LEMMA PollErrorInv == ASSUME IInv, NEW a \in 0 .. MaxDelay, PollError(a) PROVE IInv'
<1>0. TypeOK /\ PollAges /\ DataAge /\ TakenAges
  BY DEF IInv, Ages
<1>1. /\ polls' = [polls EXCEPT ![a] = Gone] /\ RenderAll(D, okAge, mark)
      /\ UNCHANGED <<val, snap, down, kind, D, okAge, dlg>>
  BY DEF PollError, deviceVars, pageVars
<1>2. polls \in [0 .. MaxDelay -> Poll] /\ mark \in [Controls -> BOOLEAN]
      /\ D \in Data \union {None} /\ okAge \in Nat
  BY <1>0, Tops DEF TypeOK
<1>3. /\ shown' \in [Controls -> Values] /\ off' \in BOOLEAN
      /\ mark' \in [Controls -> BOOLEAN] /\ cmd' \in [Controls -> Command]
      /\ \A c \in Controls : cmd'[c] \in {cmd[c], Idle}
  BY <1>0, <1>1, <1>2, Rendering
<1>4. \A b \in 0 .. MaxDelay : polls'[b] \in {polls[b], Gone}
  BY <1>1, <1>2
<1>5. polls' \in [0 .. MaxDelay -> Poll]
  BY <1>1, <1>2 DEF Poll
<1>6. PollAges' /\ DataAge'
  <2>1. \A b \in 0 .. MaxDelay : polls'[b].st = "data" => polls'[b] = polls[b]
    BY <1>4 DEF Gone
  <2> QED
    BY <1>0, <1>1, <2>1 DEF PollAges, DataAge, Past
<1>7. TakenAges'
  BY <1>1, <1>3, <1>4, FewerCommands
<1>8. TypeOK'
  BY <1>0, <1>1, <1>3, <1>5 DEF TypeOK
<1> QED
  BY <1>6, <1>7, <1>8 DEF IInv, Ages

-----------------------------------------------------------------------------
(* Commands *)

LEMMA Unmoved ==
  ASSUME IInv, UNCHANGED <<snap, down, polls, D, okAge>> PROVE PollAges' /\ DataAge'
BY DEF IInv, Ages, PollAges, DataAge, Past

(* A command that goes out is not taken yet.                               *)
LEMMA Sending ==
  ASSUME IInv, NEW c \in Controls, NEW v \in Values, Send(c, v),
         UNCHANGED <<snap, down, polls, D, okAge>>
  PROVE  cmd' \in [Controls -> Command] /\ Ages'
<1>0. TakenAges /\ cmd \in [Controls -> Command]
  BY DEF IInv, Ages, TypeOK
<1> DEFINE k == [st |-> "sent", want |-> v, age |-> 0]
<1>1. k \in Command /\ k.st = "sent"
  BY Sent, Bounds
<1>2. cmd' \in {cmd, [cmd EXCEPT ![c] = k]}
  BY DEF Send
<1> HIDE DEF k
<1>3. cmd' \in [Controls -> Command] /\ \A e \in Controls : cmd'[e] \in {cmd[e], k}
  BY <1>0, <1>1, <1>2
<1>4. \A e \in Controls : cmd'[e].st \in {"served", "waiting"} => cmd'[e] = cmd[e]
  BY <1>1, <1>3
<1>5. TakenAges'
  BY <1>0, <1>4 DEF TakenAges
<1> QED
  BY <1>3, <1>5, Unmoved DEF Ages

LEMMA UserInv == ASSUME IInv, User PROVE IInv'
<1>0. TypeOK /\ Numbers \subseteq Controls
  BY DEF IInv, Numbers
<1>1. ASSUME NEW c \in Controls, NEW v \in Values, Type(c, v) PROVE IInv'
  <2>1. /\ shown' = [shown EXCEPT ![c] = v] /\ mark' = [mark EXCEPT ![c] = TRUE]
        /\ UNCHANGED <<val, snap, down, polls, cmd, kind, D, okAge, dlg, off>>
    BY <1>1 DEF Type, deviceVars, lineVars
  <2>2. shown' \in [Controls -> Values] /\ mark' \in [Controls -> BOOLEAN]
    BY <1>0, <2>1 DEF TypeOK
  <2>3. TypeOK'
    BY <1>0, <2>1, <2>2 DEF TypeOK
  <2>4. Ages'
    BY <2>1 DEF IInv, Ages, PollAges, DataAge, TakenAges, Past
  <2> QED
    BY <2>3, <2>4 DEF IInv
<1>2. ASSUME NEW c \in Controls, Submit(c) PROVE IInv'
  <2>1. /\ Send(c, shown[c])
        /\ UNCHANGED <<val, snap, down, polls, kind, D, okAge, dlg, off, shown, mark>>
    BY <1>2 DEF Submit, deviceVars, pageVars
  <2>2. shown[c] \in Values
    BY <1>0 DEF TypeOK
  <2>3. cmd' \in [Controls -> Command] /\ Ages'
    BY <2>1, <2>2, Sending
  <2> QED
    BY <1>0, <2>1, <2>3 DEF IInv, TypeOK
<1>3. ASSUME NEW c \in Controls, NEW v \in Values, Choose(c, v) PROVE IInv'
  <2>1. /\ shown' = [shown EXCEPT ![c] = v] /\ mark' = [mark EXCEPT ![c] = c \in Radios]
        /\ IF <<c, v>> \in Risky THEN dlg' = <<c, v>> /\ UNCHANGED cmd
           ELSE Send(c, v) /\ UNCHANGED dlg
        /\ UNCHANGED <<val, snap, down, polls, kind, D, okAge, off>>
    BY <1>3 DEF Choose, deviceVars
  <2>2. shown' \in [Controls -> Values]
    BY <1>0, <2>1 DEF TypeOK
  <2>3. mark' \in [Controls -> BOOLEAN]
    <3>1. (c \in Radios) \in BOOLEAN
      OBVIOUS
    <3> QED
      BY <1>0, <2>1, <3>1 DEF TypeOK
  <2>4. dlg' \in (Controls \X Values) \union {None}
    BY <1>0, <2>1 DEF TypeOK
  <2>5. cmd' \in [Controls -> Command] /\ Ages'
    <3>1. CASE UNCHANGED cmd
      BY <1>0, <2>1, <3>1 DEF TypeOK, IInv, Ages, PollAges, DataAge, TakenAges, Past
    <3>2. CASE Send(c, v)
      BY <2>1, <3>2, Sending
    <3> QED
      BY <2>1, <3>1, <3>2
  <2> QED
    BY <1>0, <2>1, <2>2, <2>3, <2>4, <2>5 DEF IInv, TypeOK
<1>4. CASE DialogOk
  <2>1. /\ dlg # None /\ dlg' = None /\ Send(dlg[1], dlg[2])
        /\ UNCHANGED <<val, snap, down, polls, kind, D, okAge, off, shown, mark>>
    BY <1>4 DEF DialogOk, deviceVars
  <2>2. dlg[1] \in Controls /\ dlg[2] \in Values
    BY <1>0, <2>1 DEF TypeOK
  <2>3. cmd' \in [Controls -> Command] /\ Ages'
    BY <2>1, <2>2, Sending
  <2> QED
    BY <1>0, <2>1, <2>3 DEF IInv, TypeOK
<1>5. CASE DialogCancel
  <2>1. /\ dlg # None /\ dlg' = None
        /\ RenderAll(D, okAge, [mark EXCEPT ![dlg[1]] = FALSE])
        /\ UNCHANGED <<val, snap, down, polls, kind, D, okAge>>
    BY <1>5 DEF DialogCancel, deviceVars
  <2>2. [mark EXCEPT ![dlg[1]] = FALSE] \in [Controls -> BOOLEAN]
    BY <1>0 DEF TypeOK
  <2>3. D \in Data \union {None} /\ okAge \in Nat
    BY <1>0, Tops DEF TypeOK
  <2>4. /\ shown' \in [Controls -> Values] /\ off' \in BOOLEAN
        /\ mark' \in [Controls -> BOOLEAN] /\ cmd' \in [Controls -> Command]
        /\ \A c \in Controls : cmd'[c] \in {cmd[c], Idle}
    BY <1>0, <2>1, <2>2, <2>3, Rendering
  <2>5. Ages'
    BY <2>1, <2>4, FewerCommands, Unmoved DEF Ages
  <2> QED
    BY <1>0, <2>1, <2>4, <2>5 DEF IInv, TypeOK
<1> QED
  BY <1>0, <1>1, <1>2, <1>3, <1>4, <1>5 DEF User

(* The device that takes a command is up: what is about of an earlier run  *)
(* of it has outlived the restart since.                                   *)
LEMMA ServeCmdInv == ASSUME IInv, NEW c \in Controls, ServeCmd(c) PROVE IInv'
<1>0. TypeOK /\ PollAges /\ DataAge /\ TakenAges
  BY DEF IInv, Ages
<1> DEFINE k == [st |-> "served", want |-> cmd[c].want, age |-> cmd[c].age,
                 seq |-> snap.seq + 1, boot |-> snap.boot, at |-> snap.seq]
<1>1. /\ down = 0 /\ cmd[c].st = "sent" /\ val' = [val EXCEPT ![c] = cmd[c].want]
      /\ cmd' = [cmd EXCEPT ![c] = k]
      /\ UNCHANGED <<snap, down, polls, off, shown, mark, kind, D, okAge, dlg>>
  BY DEF ServeCmd, Up, viewVars, pageVars
<1>2. cmd \in [Controls -> Command] /\ snap \in Snapshot /\ polls \in [0 .. MaxDelay -> Poll]
      /\ D \in Data \union {None}
  BY <1>0 DEF TypeOK
<1>3. cmd[c].want \in Values /\ cmd[c].age \in 0 .. MaxDelay
  BY <1>1, <1>2, CommandFacts
<1>4. snap.seq + 1 \in 1 .. (MaxSeq + 1) /\ snap.boot \in 0 .. MaxBoots /\ snap.seq \in 0 .. MaxSeq
  BY <1>2, Bounds DEF Snapshot
<1>5. k \in Command /\ k.st = "served" /\ k.boot = snap.boot /\ k.seq = k.at + 1
  BY <1>3, <1>4, Taken
<1> HIDE DEF k
<1>6. \A e \in Controls : cmd'[e] = cmd[e] \/ cmd'[e] = k
  BY <1>1, <1>2
<1>7. D # None /\ D.boot < snap.boot => RestartAge <= D.old
  <2> SUFFICES ASSUME D # None, D.boot < snap.boot PROVE RestartAge <= D.old
    OBVIOUS
  <2>1. D.old \in Nat
    BY <1>2, DataFacts
  <2> QED
    BY <1>0, <1>1, <2>1, RestartAges DEF DataAge, Past
<1>8. \A a \in 0 .. MaxDelay : polls[a].st = "data" /\ polls[a].d.boot < snap.boot =>
         RestartAge <= polls[a].d.old
  <2> SUFFICES ASSUME NEW a \in 0 .. MaxDelay, polls[a].st = "data", polls[a].d.boot < snap.boot
               PROVE  RestartAge <= polls[a].d.old
    OBVIOUS
  <2>1. polls[a].d \in Data
    BY <1>2, PollFacts
  <2>2. polls[a].d.old \in Nat
    BY <2>1, DataFacts
  <2> QED
    BY <1>0, <1>1, <2>2, RestartAges DEF PollAges, Past
<1>9. TakenAges'
  <2> SUFFICES ASSUME NEW e \in Controls, cmd'[e].st \in {"served", "waiting"}
               PROVE  /\ cmd'[e].boot <= snap.boot /\ cmd'[e].seq = cmd'[e].at + 1
                      /\ D # None /\ D.boot < cmd'[e].boot => RestartAge <= D.old
                      /\ \A a \in 0 .. MaxDelay : polls[a].st = "data" /\ polls[a].d.boot < cmd'[e].boot =>
                           RestartAge <= polls[a].d.old
    BY <1>1 DEF TakenAges
  <2>1. CASE cmd'[e] = cmd[e]
    BY <1>0, <2>1 DEF TakenAges
  <2>2. CASE cmd'[e] = k
    BY <1>4, <1>5, <1>7, <1>8, <2>2
  <2> QED
    BY <1>6, <2>1, <2>2
<1>10. TypeOK'
  <2>1. val' \in [Controls -> Values] /\ cmd' \in [Controls -> Command]
    BY <1>0, <1>1, <1>3, <1>5 DEF TypeOK
  <2> QED
    BY <1>0, <1>1, <2>1 DEF TypeOK
<1> QED
  BY <1>1, <1>9, <1>10, Unmoved DEF IInv, Ages

LEMMA CmdAnswerInv == ASSUME IInv, NEW c \in Controls, CmdAnswer(c) PROVE IInv'
<1>0. TypeOK /\ TakenAges
  BY DEF IInv, Ages
<1> DEFINE k == [cmd[c] EXCEPT !.st = "waiting", !.age = 0]
<1>1. /\ cmd[c].st = "served" /\ cmd' = [cmd EXCEPT ![c] = k]
      /\ UNCHANGED <<val, snap, down, polls, off, shown, mark, kind, D, okAge, dlg>>
  BY DEF CmdAnswer, deviceVars, viewVars, pageVars
<1>2. cmd \in [Controls -> Command]
  BY <1>0 DEF TypeOK
<1>3. k \in Command /\ k.st = "waiting" /\ k.boot = cmd[c].boot /\ k.seq = cmd[c].seq /\ k.at = cmd[c].at
  <2>1. cmd[c] \in [st : {"served"}, want : Values, age : 0 .. MaxDelay,
                    seq : 1 .. (MaxSeq + 1), boot : 0 .. MaxBoots, at : 0 .. MaxSeq]
    BY <1>1, <1>2 DEF Command, Idle
  <2>2. k \in [st : {"waiting"}, want : Values, age : 0 .. (Confirm + 1),
               seq : 1 .. (MaxSeq + 1), boot : 0 .. MaxBoots, at : 0 .. MaxSeq] /\ k.boot = cmd[c].boot /\ k.seq = cmd[c].seq /\ k.at = cmd[c].at
    <3> DEFINE w == [cmd[c] EXCEPT !.st = "waiting"]
    <3>1. w \in [st : {"waiting"}, want : Values, age : 0 .. MaxDelay,
                 seq : 1 .. (MaxSeq + 1), boot : 0 .. MaxBoots, at : 0 .. MaxSeq] 
        /\ w.boot = cmd[c].boot /\ w.seq = cmd[c].seq /\ w.at = cmd[c].at
      BY <2>1
    <3> HIDE DEF w
    <3>2. 0 \in 0 .. (Confirm + 1)
      BY Bounds
    <3>3. [w EXCEPT !.age = 0] \in [st : {"waiting"}, want : Values, age : 0 .. (Confirm + 1),
                                     seq : 1 .. (MaxSeq + 1), boot : 0 .. MaxBoots, at : 0 .. MaxSeq]
          /\ [w EXCEPT !.age = 0].boot = cmd[c].boot /\ [w EXCEPT !.age = 0].seq = cmd[c].seq
          /\ [w EXCEPT !.age = 0].at = cmd[c].at
      BY <3>1, <3>2
    <3> QED
      BY <3>3 DEF w
  <2> HIDE DEF k
  <2>3. k.st = "waiting"
    BY <2>2
  <2> QED
    BY <2>2, <2>3 DEF Command
<1> HIDE DEF k
<1>4. cmd' \in [Controls -> Command] /\ \A e \in Controls : cmd'[e] = cmd[e] \/ (e = c /\ cmd'[e] = k)
  BY <1>1, <1>2, <1>3
<1>5. TakenAges'
  <2>1. \A e \in Controls : cmd'[e].st \in {"served", "waiting"} =>
           /\ cmd[e].st \in {"served", "waiting"} /\ cmd'[e].boot = cmd[e].boot
           /\ cmd'[e].seq = cmd[e].seq /\ cmd'[e].at = cmd[e].at
    BY <1>1, <1>3, <1>4
  <2> QED
    BY <1>0, <1>1, <2>1 DEF TakenAges
<1>6. TypeOK'
  BY <1>0, <1>1, <1>4 DEF TypeOK
<1> QED
  BY <1>1, <1>5, <1>6, Unmoved DEF IInv, Ages

LEMMA CmdErrorInv == ASSUME IInv, NEW c \in Controls, CmdError(c) PROVE IInv'
<1>0. TypeOK
  BY DEF IInv
<1>1. /\ cmd' = [cmd EXCEPT ![c] = Idle]
      /\ UNCHANGED <<val, snap, down, polls, off, shown, mark, kind, D, okAge, dlg>>
  BY DEF CmdError, deviceVars, viewVars, pageVars
<1>2. cmd' \in [Controls -> Command] /\ \A e \in Controls : cmd'[e] \in {cmd[e], Idle}
  BY <1>0, <1>1 DEF TypeOK, Command
<1>3. Ages'
  BY <1>1, <1>2, FewerCommands, Unmoved DEF Ages
<1> QED
  BY <1>0, <1>1, <1>2, <1>3 DEF IInv, TypeOK

-----------------------------------------------------------------------------
(* The device on its own *)

LEMMA PublishInv == ASSUME IInv, Publish PROVE IInv'
<1>0. TypeOK /\ Ages /\ snap \in Snapshot /\ val \in [Controls -> Values]
  BY DEF IInv, TypeOK
<1>1. /\ snap.seq < MaxSeq /\ snap' = [snap EXCEPT !.seq = @ + 1, !.val = val]
      /\ UNCHANGED <<val, down, polls, cmd, off, shown, mark, kind, D, okAge, dlg>>
  BY DEF Publish, lineVars, viewVars, pageVars
<1>2. snap' \in Snapshot /\ snap'.boot = snap.boot
  <2> DEFINE n == [snap EXCEPT !.seq = @ + 1]
  <2>1. snap.seq + 1 \in 0 .. MaxSeq
    BY <1>0, <1>1, Bounds DEF Snapshot
  <2>2. n \in Snapshot /\ n.boot = snap.boot
    BY <1>0, <2>1 DEF Snapshot
  <2>3. snap' = [n EXCEPT !.val = val]
    BY <1>1
  <2> HIDE DEF n
  <2> QED
    BY <1>0, <2>2, <2>3 DEF Snapshot
<1>3. Ages'
  BY <1>0, <1>1, <1>2 DEF Ages, PollAges, DataAge, TakenAges, Past
<1> QED
  BY <1>0, <1>1, <1>2, <1>3 DEF IInv, TypeOK

LEMMA OtherChangeInv ==
  ASSUME IInv, NEW c \in Controls, NEW v \in Values, OtherChange(c, v) PROVE IInv'
<1>1. /\ val' = [val EXCEPT ![c] = v]
      /\ UNCHANGED <<snap, down, polls, cmd, off, shown, mark, kind, D, okAge, dlg>>
  BY DEF OtherChange, lineVars, viewVars, pageVars
<1>2. TypeOK'
  BY <1>1 DEF IInv, TypeOK
<1>3. Ages'
  BY <1>1 DEF IInv, Ages, PollAges, DataAge, TakenAges, Past
<1> QED
  BY <1>2, <1>3 DEF IInv

(* From now on everything about is of an earlier run, and all of the       *)
(* restart is still to come.                                               *)
LEMMA RestartInv == ASSUME IInv, Restart PROVE IInv'
<1>0. TypeOK /\ PollAges /\ DataAge /\ TakenAges
  BY DEF IInv, Ages
<1>1. /\ snap.boot < MaxBoots /\ down' = BootTime
      /\ snap' = [boot |-> snap.boot + 1, seq |-> 0, val |-> val]
      /\ UNCHANGED <<val, polls, cmd, off, shown, mark, kind, D, okAge, dlg>>
  BY DEF Restart, lineVars, viewVars, pageVars
<1>2. /\ snap \in Snapshot /\ val \in [Controls -> Values]
      /\ polls \in [0 .. MaxDelay -> Poll] /\ D \in Data \union {None} /\ cmd \in [Controls -> Command]
  BY <1>0 DEF TypeOK
<1>3. snap' \in Snapshot /\ snap'.boot = snap.boot + 1 /\ snap.boot \in Nat
  BY <1>1, <1>2, Bounds DEF Snapshot
<1>4. PollAges'
  <2> SUFFICES ASSUME NEW a \in 0 .. MaxDelay, polls[a].st = "data"
               PROVE  /\ polls[a].d.old <= a /\ polls[a].d.boot <= snap'.boot
                      /\ RestartAge <= polls[a].d.old + down'
    BY <1>1 DEF PollAges, Past
  <2>1. polls[a].d \in Data
    BY <1>2, PollFacts
  <2>2. polls[a].d.boot \in Nat /\ polls[a].d.old \in Nat
    BY <2>1, DataFacts
  <2> QED
    BY <1>0, <1>1, <1>3, <2>2, Bounds, RestartAges DEF PollAges
<1>5. DataAge'
  <2> SUFFICES ASSUME D # None
               PROVE  /\ D.old <= okAge + MaxDelay /\ D.boot <= snap'.boot
                      /\ RestartAge <= D.old + down'
    BY <1>1 DEF DataAge, Past
  <2>1. D.boot \in Nat /\ D.old \in Nat
    BY <1>2, DataFacts
  <2> QED
    BY <1>0, <1>1, <1>3, <2>1, Bounds, RestartAges DEF DataAge
<1>6. TakenAges'
  <2> SUFFICES ASSUME NEW c \in Controls, cmd[c].st \in {"served", "waiting"}
               PROVE  cmd[c].boot <= snap'.boot
    BY <1>0, <1>1 DEF TakenAges
  <2>1. cmd[c].boot \in Nat /\ cmd[c].boot <= snap.boot
    <3>1. cmd[c].boot \in 0 .. MaxBoots
      BY <1>2, CommandFacts
    <3> QED
      BY <1>0, <3>1 DEF TakenAges
  <2> QED
    BY <1>3, <2>1
<1>7. TypeOK'
  <2>1. down' \in 0 .. BootTime
    BY <1>1, Bounds
  <2> QED
    BY <1>0, <1>1, <1>3, <2>1 DEF TypeOK
<1> QED
  BY <1>4, <1>5, <1>6, <1>7 DEF IInv, Ages

-----------------------------------------------------------------------------
LEMMA NextIInv == IInv /\ [Next]_vars => IInv'
<1>1. ASSUME IInv, UNCHANGED vars PROVE IInv'
  <2>1. UNCHANGED <<val, snap, down, polls, cmd, off, shown, mark, kind, D, okAge, dlg>>
    BY <1>1 DEF vars, deviceVars, lineVars, viewVars, pageVars
  <2>2. TypeOK'
    BY <1>1, <2>1 DEF IInv, TypeOK
  <2>3. Ages'
    BY <1>1, <2>1 DEF IInv, Ages, PollAges, DataAge, TakenAges, Past
  <2> QED
    BY <2>2, <2>3 DEF IInv
<1>2. ASSUME IInv, RequestEnds PROVE IInv'
  BY <1>2, PollAnswerInv, PollErrorInv, CmdAnswerInv, CmdErrorInv DEF RequestEnds
<1>3. ASSUME IInv, Device PROVE IInv'
  BY <1>3, ServePollInv, ServeCmdInv, OtherChangeInv, PublishInv, RestartInv DEF Device
<1> QED
  BY <1>1, <1>2, <1>3, TickInv, UserInv DEF Next

LEMMA Invariance == Spec => []IInv
BY InitIInv, NextIInv, PTL DEF Spec

(* Every variable keeps to its range.                                      *)
THEOREM TypeCorrect == Spec => []TypeOK
<1>1. IInv => TypeOK
  BY DEF IInv
<1> QED
  BY <1>1, Invariance, PTL

(* Data that the page calls live is at most STALE_MS and one request old,  *)
(* in whatever order polls are answered and across restarts (stale, poll). *)
THEOREM LiveIsFresh == Spec => []LiveMeansFresh
<1>1. IInv => LiveMeansFresh
  <2> SUFFICES ASSUME IInv, ~IsStale(D, okAge) PROVE D.old <= Stale + MaxDelay
    BY DEF LiveMeansFresh, Live
  <2>1. D # None /\ okAge \in Nat /\ okAge <= Stale
    BY Tops, Bounds DEF IsStale, IInv, TypeOK
  <2>2. D \in Data
    BY <2>1 DEF IInv, TypeOK
  <2>3. D.old \in Nat
    BY <2>2, DataFacts
  <2> QED
    BY <2>1, <2>3, Bounds DEF IInv, Ages, DataAge
<1> QED
  BY <1>1, Invariance, PTL

(* Only rendering ends a command that waits for its confirmation in time,  *)
(* and then on the data that is shown from then on.                        *)
LEMMA ConfirmedOnData ==
  ASSUME IInv, [Next]_vars, NEW c \in Controls, Confirmed(c)
  PROVE  D'.val[c] = cmd[c].want /\ (Reflects(D', c) \/ Outlived(D', c))
<1>0. TypeOK /\ TakenAges /\ cmd \in [Controls -> Command]
  BY DEF IInv, Ages, TypeOK
<1>1. cmd[c].st = "waiting" /\ ~Expired(c) /\ cmd'[c] = Idle /\ cmd[c] # Idle
  BY DEF Confirmed, Idle
<1>2. ASSUME NEW a \in 0 .. MaxDelay, PollAnswer(a)
      PROVE  /\ D' # None /\ D'.seq >= cmd[c].seq /\ D'.val[c] = cmd[c].want
             /\ D'.boot < cmd[c].boot => RestartAge <= D'.old
  <2>1. polls[a].st = "data" /\ D' = polls[a].d /\ RenderAll(polls[a].d, 0, mark)
    BY <1>2 DEF PollAnswer
  <2>2. polls[a] \in Poll /\ mark \in [Controls -> BOOLEAN]
    BY <1>0 DEF TypeOK
  <2>3. polls[a].d \in Data
    BY <2>1, <2>2, PollFacts
  <2> QED
    BY <1>0, <1>1, <2>1, <2>2, <2>3, Tops, Rendering DEF TakenAges
<1>3. ASSUME D' = D, NEW m \in [Controls -> BOOLEAN], RenderAll(D, okAge, m)
      PROVE  /\ D' # None /\ D'.seq >= cmd[c].seq /\ D'.val[c] = cmd[c].want
             /\ D'.boot < cmd[c].boot => RestartAge <= D'.old
  <2>1. D \in Data \union {None} /\ okAge \in Nat
    BY <1>0, Tops DEF TypeOK
  <2> QED
    BY <1>0, <1>1, <1>3, <2>1, Rendering DEF TakenAges
<1>4. ASSUME NEW a \in 0 .. MaxDelay, PollError(a)
      PROVE  D' = D /\ \E m \in [Controls -> BOOLEAN] : RenderAll(D, okAge, m)
  BY <1>0, <1>4 DEF PollError, pageVars, TypeOK
<1>5. ASSUME DialogCancel
      PROVE  D' = D /\ \E m \in [Controls -> BOOLEAN] : RenderAll(D, okAge, m)
  BY <1>0, <1>5 DEF DialogCancel, TypeOK
<1>6. ASSUME NEW e \in Controls, NEW v, Send(e, v) PROVE cmd'[c] # Idle
  <2>1. CASE e = c
    BY <1>0, <1>1, <1>6, <2>1 DEF Send, Busy
  <2>2. CASE e # c
    BY <1>0, <1>1, <1>6, <2>2 DEF Send
  <2> QED
    BY <2>1, <2>2
<1>7. ~Tick
  <2> SUFFICES ASSUME Tick PROVE cmd'[c] # Idle
    BY <1>1
  <2>1. cmd'[c] = [cmd[c] EXCEPT !.age = Older(@, CmdTop(c))]
    BY <1>1 DEF Tick, Busy
  <2>2. cmd[c].age \in 0 .. (Confirm + 1)
    BY <1>0, <1>1, CommandFacts
  <2>3. Older(cmd[c].age, CmdTop(c)) \in 0 .. (Confirm + 1)
    BY <1>1, <2>2, Bounds, OlderFacts DEF CmdTop
  <2>4. cmd'[c].st = "waiting"
    BY <1>0, <1>1, <2>1, <2>3, Aged
  <2> QED
    BY <2>4 DEF Idle
<1>8. ~UNCHANGED cmd
  BY <1>1
<1>9. \A e \in Controls : ~CmdAnswer(e) /\ ~CmdError(e) /\ ~ServeCmd(e)
  <2> SUFFICES ASSUME NEW e \in Controls, CmdAnswer(e) \/ CmdError(e) \/ ServeCmd(e)
               PROVE  cmd'[c] = cmd[c]
    BY <1>1
  <2>1. e # c /\ \E x : cmd' = [cmd EXCEPT ![e] = x]
    BY <1>1 DEF CmdAnswer, CmdError, ServeCmd
  <2> QED
    BY <1>0, <2>1
<1>10. ASSUME RequestEnds
       PROVE  \E a \in 0 .. MaxDelay : PollAnswer(a) \/ PollError(a)
  BY <1>9, <1>10 DEF RequestEnds
<1>11. ASSUME User PROVE DialogCancel
  <2>1. dlg # None => dlg[1] \in Controls
    BY <1>0 DEF TypeOK
  <2>2. \A e \in Controls : ~Submit(e)
    BY <1>1, <1>6 DEF Submit
  <2>3. ~DialogOk
    BY <1>1, <1>6, <2>1 DEF DialogOk
  <2>4. \A e \in Controls, v \in Values : ~Type(e, v) /\ ~Choose(e, v)
    BY <1>1, <1>6, <1>8 DEF Type, Choose, lineVars
  <2> QED
    BY <1>11, <2>2, <2>3, <2>4 DEF User, Numbers
<1>12. ~Device
  BY <1>8, <1>9 DEF Device, ServePoll, OtherChange, Publish, Restart, lineVars
<1>13. ~UNCHANGED vars
  BY <1>8 DEF vars, lineVars
<1>14. /\ D' # None /\ D'.seq >= cmd[c].seq /\ D'.val[c] = cmd[c].want
       /\ D'.boot < cmd[c].boot => RestartAge <= D'.old
  BY <1>2, <1>3, <1>4, <1>5, <1>7, <1>10, <1>11, <1>12, <1>13 DEF Next
<1>15. D' \in Data /\ cmd[c].boot \in Nat /\ cmd[c].at \in Nat /\ cmd[c].seq = cmd[c].at + 1
  <2>1. D' \in Data
    BY <1>14, NextIInv DEF IInv, TypeOK
  <2>2. cmd[c].boot \in Nat /\ cmd[c].at \in Nat
    BY <1>0, <1>1, CommandFacts
  <2> QED
    BY <1>0, <1>1, <2>1, <2>2 DEF TakenAges
<1>16. D'.boot \in Nat /\ D'.seq \in Nat /\ D'.old \in Nat
  BY <1>15, DataFacts
<1> QED
  BY <1>14, <1>15, <1>16, RestartAges DEF Reflects, Outlived

(* A command is reported as done only on data with the value asked for     *)
(* that was published after the device had taken it, or on data from       *)
(* before a restart the command came after, older than that restart took   *)
(* (sendCmd's check, handleCmd's seq).                                     *)
THEOREM ConfirmsWhatWasTaken == Spec => ConfirmedByDevice
<1> DEFINE P == \A c \in Controls :
                  Confirmed(c) => D'.val[c] = cmd[c].want /\ (Reflects(D', c) \/ Outlived(D', c))
<1>1. IInv /\ [Next]_vars => [P]_vars
  BY ConfirmedOnData
<1> HIDE DEF P
<1>2. Spec => [][P]_vars
  BY <1>1, Invariance, PTL DEF Spec
<1> QED
  BY <1>2 DEF P, ConfirmedByDevice
=============================================================================
