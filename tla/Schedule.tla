------------------------------ MODULE Schedule ------------------------------
(***************************************************************************)
(* The local programs as the device runs them (lib/core cc_schedule.cpp,   *)
(* ClimateCore's hold) and as the page draws them over the week            *)
(* (src/tools/ui/src/35_programs.js), each by its own arithmetic.  A day   *)
(* has DayLen minutes, a week WeekLen days.                                *)
(***************************************************************************)
EXTENDS Integers, Sequences, FiniteSetsExt

CONSTANTS
  DayLen, WeekLen,
  Lists,         \* the lists of programs to start with
  MaxTime        \* bound: the last minute looked at

VARIABLES
  progs,         \* progs_: one list, valid as validatePrograms asks for
  hold,          \* hold_: the occurrence that is passed over
  now            \* localMinutes()

vars == <<progs, hold, now>>

-----------------------------------------------------------------------------
(* The device *)

Program ==
  [enabled : BOOLEAN, kind : {"WEEKLY", "DATE_RANGE", "ONCE"}, days : SUBSET (0 .. WeekLen - 1),
   from : Int, to : Int, start : Nat, end : {"ALL_DAY", "END_TIME", "DURATION"}, until : Nat,
   duration : Nat, action : {"SETPOINT", "PROFILE", "HEATING_OFF", "VENTILATE"}]

\* validatePrograms, as far as it is about time: names, targets and the
\* number of programs are left out.
ValidProgram(p) ==
  /\ p.kind = "WEEKLY" => p.days # {}
  /\ p.kind # "WEEKLY" => p.from > 0
  /\ p.kind = "DATE_RANGE" => p.to - p.from \in 0 .. 366
  /\ p.end # "ALL_DAY" => p.start < DayLen
  /\ p.end = "END_TIME" => p.until < DayLen /\ p.until # p.start
  /\ p.end = "DURATION" => p.duration \in 1 .. (IF p.kind = "ONCE" THEN WeekLen ELSE 1) * DayLen

validatePrograms(l) == l \in Seq(Program) /\ \A i \in DOMAIN l : ValidProgram(l[i])

floorDay(t) == t \div DayLen

occurrenceLength(p) ==
  CASE p.end = "ALL_DAY"  -> DayLen
    [] p.end = "END_TIME" -> (p.until + DayLen - p.start) % DayLen
    [] p.end = "DURATION" -> p.duration

occursOn(p, day) ==
  LET chosen == day % WeekLen \in p.days
  IN  CASE p.kind = "WEEKLY"     -> chosen
        [] p.kind = "DATE_RANGE" -> day \in p.from .. p.to /\ (p.days = {} \/ chosen)
        [] p.kind = "ONCE"       -> day = p.from

StartOn(p, day) == day * DayLen + (IF p.end = "ALL_DAY" THEN 0 ELSE p.start)

\* activeOccurrence: the starts of those that cover t, back as far as one is long.
Active(p, t) ==
  LET len == occurrenceLength(p)
      back == (len + DayLen - 1) \div DayLen
  IN  IF ~p.enabled THEN {}
      ELSE {StartOn(p, d) : d \in {e \in floorDay(t) - back .. floorDay(t) :
                                     occursOn(p, e) /\ t \in StartOn(p, e) .. StartOn(p, e) + len - 1}}

classOf(kind) == CASE kind = "ONCE" -> 3 [] kind = "DATE_RANGE" -> 2 [] kind = "WEEKLY" -> 1

NoOccurrence == [index |-> 0, start |-> 0]

better(a, b) ==
  LET ca == classOf(progs[a.index].kind)
      cb == classOf(progs[b.index].kind)
  IN  \/ ca > cb
      \/ ca = cb /\ a.start > b.start
      \/ ca = cb /\ a.start = b.start /\ a.index < b.index

evalAt(t) ==
  LET running == {[index |-> i, start |-> Max(Active(progs[i], t))] :
                    i \in {j \in DOMAIN progs : Active(progs[j], t) # {}}} \ {hold}
      Best(S) == IF S = {} THEN NoOccurrence
                 ELSE CHOOSE o \in S : \A q \in S \ {o} : better(o, q)
  IN  [climate |-> Best({o \in running : progs[o.index].action # "VENTILATE"}),
       vent |-> Best({o \in running : progs[o.index].action = "VENTILATE"})]

horizon == now + (WeekLen + 1) * DayLen

\* A slip: occurrences that began on an earlier day are forgotten.
NextChangeToday ==
  LET Bounds(p) ==
        UNION {{StartOn(p, d), StartOn(p, d) + occurrenceLength(p)} :
                 d \in {e \in floorDay(now) .. floorDay(now) + WeekLen + 1 : occursOn(p, e)}}
      candidates == UNION {Bounds(progs[i]) : i \in {j \in DOMAIN progs : progs[j].enabled}}
      changes == {t \in candidates : t > now /\ t <= horizon /\ evalAt(t) # evalAt(now)}
  IN  IF changes = {} THEN -1 ELSE Min(changes)

\* evaluate: starts and ends within the horizon are the candidates.
NextChange ==
  LET Bounds(p) ==
        UNION {{StartOn(p, d), StartOn(p, d) + occurrenceLength(p)} :
                 d \in {e \in floorDay(now) - WeekLen .. floorDay(now) + WeekLen + 1 : occursOn(p, e)}}
      candidates == UNION {Bounds(progs[i]) : i \in {j \in DOMAIN progs : progs[j].enabled}}
      changes == {t \in candidates : t > now /\ t <= horizon /\ evalAt(t) # evalAt(now)}
  IN  IF changes = {} THEN -1 ELSE Min(changes)

\* tick: another minute.
Minute ==
  /\ now < MaxTime /\ now' = now + 1
  /\ UNCHANGED <<progs, hold>>

programHold ==
  /\ evalAt(now).climate # NoOccurrence
  /\ hold' = evalAt(now).climate
  /\ UNCHANGED <<progs, now>>

\* A list comes in, here with one program paused or started again.
setPrograms(i) ==
  /\ progs' = [progs EXCEPT ![i].enabled = ~@]
  /\ hold' = NoOccurrence
  /\ UNCHANGED now

-----------------------------------------------------------------------------
(* The page: drawWeek, over what one answer of /api/programs says *)

monday == floorDay(now) - (floorDay(now) % WeekLen)

\* A slip: an end on the next day is not seen.
progLenFlat(p) ==
  CASE p.end = "ALL_DAY"  -> DayLen
    [] p.end = "END_TIME" -> p.until - p.start
    [] p.end = "DURATION" -> p.duration

progLen(p) ==
  CASE p.end = "ALL_DAY"  -> DayLen
    [] p.end = "END_TIME" -> (p.until - p.start + DayLen) % DayLen
    [] p.end = "DURATION" -> p.duration

shownOn(p, d) ==
  CASE p.kind = "WEEKLY"     -> d % WeekLen \in p.days
    [] p.kind = "DATE_RANGE" -> /\ d >= p.from /\ d <= p.to
                                /\ p.days = {} \/ d % WeekLen \in p.days
    [] p.kind = "ONCE"       -> d = p.from

\* The bars of a program: a row, a part of its day, and whether it stands out.
Bars(i) ==
  LET p == progs[i]
      start(d) == d * DayLen + (IF p.end = "ALL_DAY" THEN 0 ELSE p.start)
      end(d) == start(d) + progLen(p)
      active == i \in {evalAt(now).climate.index, evalAt(now).vent.index}
      Pieces(d) ==
        {[row |-> day - monday,
          from |-> Max({start(d), day * DayLen}) - day * DayLen,
          to |-> Min({end(d), (day + 1) * DayLen}) - day * DayLen,
          on |-> active /\ now >= start(d) /\ now < end(d)] :
            day \in floorDay(start(d)) .. floorDay(end(d) - 1)}
      starts == {d \in monday - WeekLen .. monday + WeekLen - 1 : shownOn(p, d)}
  IN  IF ~p.enabled THEN {}
      ELSE {b \in UNION {Pieces(d) : d \in starts} : b.row \in 0 .. WeekLen - 1}

Marks(b, t) == b.row = floorDay(t) - monday /\ t % DayLen \in b.from .. b.to - 1

-----------------------------------------------------------------------------
Init == progs \in Lists /\ hold = NoOccurrence /\ now \in {0, MaxTime \div 2}

Next == Minute \/ programHold \/ \E i \in DOMAIN progs : setPrograms(i)

Spec == Init /\ [][Next]_vars

-----------------------------------------------------------------------------
\* The week that is drawn has a bar over exactly the minutes in which the
\* device has an occurrence of the program, and the one that stands out at
\* this minute is the one that is applied (drawWeek against activeOccurrence
\* and evaluate).
WeekShowsRuns ==
  \A i \in DOMAIN progs :
    /\ \A t \in monday * DayLen .. (monday + WeekLen) * DayLen - 1 :
         (\E b \in Bars(i) : Marks(b, t)) <=> Active(progs[i], t) # {}
    /\ (\E b \in Bars(i) : b.on /\ Marks(b, now)) <=>
         i \in {evalAt(now).climate.index, evalAt(now).vent.index}

\* The next change that is reported is the first minute within the horizon at
\* which another program applies, though only starts and ends of occurrences
\* are tried (evaluate).
NextChangeIsNext ==
  LET changes == {t \in now + 1 .. horizon : evalAt(t) # evalAt(now)}
  IN  NextChange = IF changes = {} THEN -1 ELSE Min(changes)
=============================================================================
