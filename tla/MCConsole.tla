------------------------------ MODULE MCConsole ------------------------------
(***************************************************************************)
(* An instance of Console for TLC.                                         *)
(***************************************************************************)
EXTENDS Console

\* A range with its two ends, one of which MQTT may set; a number and a
\* password of the section that is stored first.
ControlLow == <<"ctrl", "low">>
MqttPassword == <<"mqtt", "other">>
MCFields == {ControlLow, <<"ctrl", "high">>, <<"mqtt", "low">>, MqttPassword}
MCSecrets == {MqttPassword}
MCRemote == {ControlLow}
\* The range at its widest to start with, from where either end may be moved
\* to the other; of the other fields' two values either will do.
MCConfigs == {[f \in MCFields |-> IF f = <<"ctrl", "high">> THEN 1 ELSE 0]}

\* Days of three minutes, weeks of two days: every program alone, some in pairs.
Times ==
  [end : {"ALL_DAY"}, start : {0}, until : {0}, duration : {1}]
    \union {e \in [end : {"END_TIME"}, start : 0..2, until : 0..2, duration : {1}] : e.start # e.until}
    \union [end : {"DURATION"}, start : 0..2, until : {0}, duration : 1..3]
LongTimes == [end : {"DURATION"}, start : 0..2, until : {0}, duration : 4..6]
Program(kind, days, from, to, e, action) ==
  [enabled |-> TRUE, kind |-> kind, days |-> days, from |-> from, to |-> to, start |-> e.start,
   end |-> e.end, until |-> e.until, duration |-> e.duration, action |-> action]
Single ==
  {Program("WEEKLY", ds, 1, 1, e, "SETPOINT") : ds \in {{0}, {1}, {0, 1}}, e \in Times}
    \union {Program("DATE_RANGE", ds, 1, to, e, "SETPOINT") :
              ds \in SUBSET {0, 1}, to \in {1, 2}, e \in Times}
    \union {Program("ONCE", {}, d, 1, e, "SETPOINT") : d \in {1, 2}, e \in Times \union LongTimes}
Paired ==
  LET Between(a, b) == [end |-> "END_TIME", start |-> a, until |-> b, duration |-> 1]
      long == [end |-> "DURATION", start |-> 1, until |-> 0, duration |-> 6]
  IN  {Program("WEEKLY", {0, 1}, 1, 1, Between(1, 2), "SETPOINT"),
       Program("WEEKLY", {1}, 1, 1, Between(2, 1), "SETPOINT"),
       Program("WEEKLY", {0}, 1, 1, Between(0, 2), "VENTILATE"),
       Program("DATE_RANGE", {}, 1, 2, Between(1, 0), "SETPOINT"),
       Program("ONCE", {}, 1, 1, long, "SETPOINT"),
       Program("ONCE", {}, 2, 1, Between(2, 1), "SETPOINT")}
MCLists == {<<p>> : p \in Single} \union (Paired \X Paired)
=============================================================================
