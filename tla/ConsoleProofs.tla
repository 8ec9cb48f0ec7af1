---------------------------- MODULE ConsoleProofs ----------------------------
(***************************************************************************)
(* Proofs about the parts of Console, for every value of its constants: an *)
(* image is written only at rest, and what the settings' forms and the     *)
(* Wi-Fi set-up show is what the device has.                               *)
(***************************************************************************)
EXTENDS Console, FiniteSetTheorems, SequenceTheorems, TLAPS

(* A step of the console is a step of a part or leaves it alone.           *)
LEMMA PartSteps ==
  ASSUME [ConsoleNext]_consoleVars
  PROVE  /\ [W!Next]_(W!vars) /\ [S!Next]_(S!vars)
         /\ [P!Next]_(P!vars) /\ [C!Next]_(C!vars) /\ [M!Next]_(M!vars)
<1>1. [W!Next]_(W!vars)
  BY DEF ConsoleNext, consoleVars, NetworkStep, WifiStep, SettingsStep, ProgramsStep,
         WeekStep, FeedsStep, ModesStep, Only, wifiVars, W!vars, W!netVars, W!pageVars
<1>2. [S!Next]_(S!vars)
  BY DEF ConsoleNext, consoleVars, NetworkStep, WifiStep, SettingsStep, ProgramsStep,
         WeekStep, FeedsStep, ModesStep, Only, settingsVars, S!vars, S!history
<1>3. [P!Next]_(P!vars)
  BY DEF ConsoleNext, consoleVars, NetworkStep, WifiStep, SettingsStep, ProgramsStep,
         WeekStep, FeedsStep, ModesStep, Only, programsVars, P!vars, P!deviceVars, P!history
<1>4. [M!Next]_(M!vars)
  BY DEF ConsoleNext, consoleVars, NetworkStep, WifiStep, SettingsStep, ProgramsStep,
         WeekStep, FeedsStep, ModesStep, Only, modesVars, M!vars, M!loopVars, M!svcVars,
         M!updateVars
<1>5. [C!Next]_(C!vars)
  BY DEF ConsoleNext, consoleVars, NetworkStep, WifiStep, SettingsStep, ProgramsStep,
         WeekStep, FeedsStep, ModesStep, Only, weekVars, C!vars
<1> QED
  BY <1>1, <1>2, <1>3, <1>4, <1>5

-----------------------------------------------------------------------------
(* The modes.                                                              *)

(* The inductive invariant: in OTA nothing heats or cools, no heat is left *)
(* that post-cool would still have to follow, and nothing but a restart    *)
(* leads out of OTA while an upload is received.                           *)
OtaRests == sys = "OTA" => on = {} /\ ~chain /\ ~cool /\ ~wasHeating
WritesInOta == up = "writing" => sys = "OTA"
ModesInv == OtaRests /\ WritesInOta /\ M!TestsInService

LEMMA ModesInit == M!Init => ModesInv
BY DEF M!Init, M!AtRest, ModesInv, OtaRests, WritesInOta, M!TestsInService, M!Resistors

LEMMA ControlModes == ASSUME ModesInv, M!ControlStep PROVE ModesInv'
BY DEF M!ControlStep, M!Go, M!Stay, ModesInv, OtaRests, WritesInOta, M!TestsInService,
       M!svcVars, M!updateVars

(* OTA is entered when the heating rests, is kept by every step, and lets  *)
(* no resistor be on.                                                      *)
LEMMA OutputModes == ASSUME ModesInv, M!OutputStep PROVE ModesInv'
<1> DEFINE testing == {k \in tests : sys = "SERVICE" /\ testT[k] + 1 < TestMax}
           timer == IF t < M!Longest THEN t + 1 ELSE t
<1>1. /\ on' \in SUBSET M!MayBeOn(testing)
      /\ wasHeating' = (on' # {} \/ M!HeatAsked(testing))
      /\ cool' \in {~wasHeating' /\ (wasHeating \/ cool), FALSE}
      /\ sys' = M!NextSys(~chain /\ ~cool' /\ on' = {}, timer)
      /\ tests' = (IF sys = "SERVICE" /\ sys' # sys THEN {} ELSE testing)
      /\ UNCHANGED <<chain, page, tries, up, rebooting>>
  BY DEF M!OutputStep, M!updateVars
<1>2. testing \subseteq tests /\ (testing # {} => sys = "SERVICE")
  OBVIOUS
<1> HIDE DEF testing, timer
<1>3. sys = "OTA" => sys' = "OTA"
  BY <1>1 DEF M!NextSys
<1>4. sys' = "OTA" /\ sys # "OTA" => ~chain /\ ~cool' /\ on' = {}
  BY <1>1 DEF M!NextSys
<1>5. sys = "OTA" => on' = {}
  BY <1>1 DEF M!MayBeOn
<1>6. OtaRests'
  <2>1. CASE sys = "OTA"
    BY <1>1, <1>5, <2>1 DEF ModesInv, OtaRests, M!HeatAsked
  <2>2. CASE sys # "OTA"
    <3>1. sys' = "OTA" => sys = "OTA_PREP"
      BY <1>1, <2>2 DEF M!NextSys
    <3> QED
      BY <1>1, <1>4, <2>2, <3>1 DEF OtaRests, M!HeatAsked
  <2> QED
    BY <2>1, <2>2
<1>7. WritesInOta'
  BY <1>1, <1>3 DEF ModesInv, WritesInOta
<1>8. M!TestsInService'
  BY <1>1, <1>2 DEF ModesInv, M!TestsInService
<1> QED
  BY <1>6, <1>7, <1>8 DEF ModesInv

LEMMA HandlersModes == ASSUME ModesInv, M!Handlers PROVE ModesInv'
<1> USE DEF ModesInv, OtaRests, WritesInOta, M!TestsInService, M!Go, M!loopVars, M!svcVars,
            M!updateVars
<1>1. CASE M!recoveryAck
  BY <1>1 DEF M!recoveryAck, M!Served
<1>2. CASE M!serviceEnter
  BY <1>2 DEF M!serviceEnter, M!Served
<1>3. CASE M!serviceExit
  BY <1>3 DEF M!serviceExit, M!Served, M!Resistors
<1>4. ASSUME NEW k \in Outputs, NEW set \in BOOLEAN, M!serviceTest(k, set) PROVE ModesInv'
  BY <1>4 DEF M!serviceTest, M!Served, M!Resistors
<1> QED
  BY <1>1, <1>2, <1>3, <1>4 DEF M!Handlers

LEMMA UpdateModes == ASSUME ModesInv, M!Update PROVE ModesInv'
<1> USE DEF ModesInv, OtaRests, WritesInOta, M!TestsInService, M!Go, M!Stay, M!loopVars,
            M!svcVars
<1>1. CASE M!Start \/ M!GiveUp
  BY <1>1 DEF M!Start, M!GiveUp
<1>2. CASE M!handleOtaBegin
  BY <1>2 DEF M!handleOtaBegin, M!OtaBegin, M!Served
<1>3. CASE M!otaRawStart
  BY <1>3 DEF M!otaRawStart
<1>4. CASE M!otaRawEnd \/ M!otaRawAborted
  BY <1>4 DEF M!otaRawEnd, M!otaRawAborted
<1>5. CASE M!otaDone
  BY <1>5 DEF M!otaDone, M!OtaAbort
<1>6. CASE M!onStart
  BY <1>6 DEF M!onStart, M!OtaBegin
<1>7. CASE M!onError \/ M!onEnd
  BY <1>7 DEF M!onError, M!onEnd, M!OtaAbort
<1> QED
  BY <1>1, <1>2, <1>3, <1>4, <1>5, <1>6, <1>7 DEF M!Update

LEMMA ModesNext == ModesInv /\ [M!Next]_(M!vars) => ModesInv'
<1>1. ASSUME ModesInv, M!SafetyStep PROVE ModesInv'
  BY <1>1 DEF M!SafetyStep, ModesInv, OtaRests, WritesInOta, M!TestsInService, M!svcVars,
              M!updateVars
<1>2. ASSUME ModesInv, M!Restart PROVE ModesInv'
  BY <1>2 DEF M!Restart, M!Go, ModesInv, OtaRests, WritesInOta, M!TestsInService, M!Resistors
<1>3. ASSUME ModesInv, UNCHANGED M!vars PROVE ModesInv'
  BY <1>3 DEF M!vars, ModesInv, OtaRests, WritesInOta, M!TestsInService, M!loopVars,
              M!svcVars, M!updateVars
<1> QED
  BY <1>1, <1>2, <1>3, ControlModes, OutputModes, HandlersModes, UpdateModes DEF M!Next

LEMMA ModesInvariance == ConsoleSpec => []ModesInv
<1>1. ConsoleInit => ModesInv
  BY ModesInit DEF ConsoleInit
<1>2. ModesInv /\ [ConsoleNext]_consoleVars => ModesInv'
  BY PartSteps, ModesNext
<1> QED
  BY <1>1, <1>2, PTL DEF ConsoleSpec

(* An image is written only in OTA with the heating at rest, for every set *)
(* of outputs and all time-outs (otaRaw, onStart).                         *)
THEOREM WritesOnlyAtRest == ConsoleSpec => []WritesAtRest
<1>1. ModesInv => WritesAtRest
  BY DEF ModesInv, OtaRests, WritesInOta, WritesAtRest, M!WritesAtRest
<1> QED
  BY <1>1, ModesInvariance, PTL

(* No output test outlives the service mode, and one resistor is tested at *)
(* a time (serviceTest, outputStep).                                       *)
THEOREM TestsEndWithService == ConsoleSpec => []TestsInService
<1>1. ModesInv => TestsInService
  BY DEF ModesInv, TestsInService
<1> QED
  BY <1>1, ModesInvariance, PTL

-----------------------------------------------------------------------------
(* The settings.                                                           *)

\* What a save under way has stored of its fields.
Wrote(s) == IF req[s] = S!Free THEN {} ELSE req[s].wrote

\* A form's save sends all of the section but the secrets left empty.
SavesOfSections ==
  \A s \in S!Sections :
    req[s] = S!Free \/ /\ req[s].st \in {"sent", "copied", "stored", "saved", "refused"}
                       /\ S!Body(s) \subseteq S!Of(s) /\ S!Of(s) \ Secrets \subseteq S!Body(s)
                       /\ req[s].st \in {"sent", "copied"} => Wrote(s) = {}

\* Between the two critical sections of settingsPost: one save at a time, and
\* its candidate is the configuration with the save's fields, but for what
\* MQTT has written since.
Candidates ==
  \A s \in S!Sections : req[s].st \in {"copied", "stored"} =>
    /\ \A z \in S!Sections : req[z].st \in {"copied", "stored"} => z = s
    /\ DOMAIN req[s].cand = Fields
    /\ \A f \in S!Body(s) : req[s].cand[f] = req[s].body[f]
    /\ \A f \in Fields \ S!Body(s) : req[s].cand[f] = cfg[f] \/ f \in since
    /\ since \subseteq s_foreign

\* An answer on its way tells of what the device still has; what is stored
\* to the last field is in the configuration before the answer.
AnswersTrue ==
  \A s \in S!Sections :
    /\ req[s].st = "stored" =>
         \A f \in S!Body(s) \ (Secrets \union since) : cfg[f] = req[s].body[f]
    /\ req[s].st = "saved" =>
         \A f \in S!Body(s) \ (Secrets \union s_foreign) : cfg[f] = req[s].body[f]

\* The baseline is the device's wherever no answer is on its way, but for
\* what a save that was or may yet be refused has stored.
BaselineKept ==
  \A f \in Fields \ (Secrets \union s_foreign \union s_doubt) :
    req[f[1]].st # "saved" => base[f] = cfg[f] \/ f \in Wrote(f[1])

SettingsInv ==
  /\ DOMAIN cfg = Fields /\ DOMAIN base = Fields /\ DOMAIN draft = Fields
  /\ DOMAIN req = S!Sections
  /\ SavesOfSections /\ Candidates /\ AnswersTrue /\ BaselineKept

(* A key of a section is one field.                                        *)
LEMMA OneField ==
  ASSUME NEW s, NEW f \in S!Of(s), NEW g \in S!Of(s), f[2] = g[2]
  PROVE  f = g
BY ConsoleAssumption DEF S!Of

LEMMA KeySets ==
  ASSUME NEW k, NEW c, NEW s, NEW body, DOMAIN body \subseteq S!Of(s), DOMAIN c = Fields,
         S!Key(k, c, body) # Empty
  PROVE  /\ DOMAIN S!Key(k, c, body) = Fields
         /\ \A g \in DOMAIN body : g[2] = k => S!Key(k, c, body)[g] = body[g]
         /\ \A g \in Fields : ~(g \in DOMAIN body /\ g[2] = k) => S!Key(k, c, body)[g] = c[g]
<1> DEFINE F0 == {g \in DOMAIN body : g[2] = k}
<1>1. CASE F0 = {}
  <2>1. S!Key(k, c, body) = c
    BY <1>1 DEF S!Key
  <2> QED
    BY <1>1, <2>1
<1>2. CASE F0 # {}
  <2> DEFINE h == CHOOSE g \in F0 : TRUE
  <2>1. h \in F0
    BY <1>2
  <2>2. S!Key(k, c, body) = S!setField(c, h, body[h])
    BY <1>2 DEF S!Key
  <2> HIDE DEF h
  <2>3. S!Key(k, c, body) = [c EXCEPT ![h] = body[h]]
    BY <2>2 DEF S!setField
  <2>4. h \in Fields /\ \A g \in F0 : g = h
    BY <2>1, OneField DEF S!Of
  <2> QED
    BY <2>1, <2>3, <2>4
<1> QED
  BY <1>1, <1>2

LEMMA KeyOfRefused ==
  ASSUME NEW k, NEW body
  PROVE  S!Key(k, Empty, body) = Empty
BY DEF S!Key, S!setField

(* The candidate has the save's fields and leaves the others alone.        *)
LEMMA CandidateSets ==
  ASSUME NEW c, NEW s, NEW body, DOMAIN body \subseteq S!Of(s), DOMAIN c = Fields,
         S!Candidate(c, body) # Empty
  PROVE  /\ DOMAIN S!Candidate(c, body) = Fields
         /\ \A g \in DOMAIN body : S!Candidate(c, body)[g] = body[g]
         /\ \A g \in Fields \ DOMAIN body : S!Candidate(c, body)[g] = c[g]
<1> DEFINE low == S!Key("low", c, body)
           high == S!Key("high", low, body)
           all == S!Key("other", high, body)
<1>1. S!Candidate(c, body) = all
  BY DEF S!Candidate
<1>2. \A g \in DOMAIN body : g \in Fields /\ g[2] \in {"low", "high", "other"}
  BY ConsoleAssumption DEF S!Of
<1>3. high # Empty /\ low # Empty
  BY <1>1, KeyOfRefused
<1>4. /\ DOMAIN low = Fields
      /\ \A g \in DOMAIN body : g[2] = "low" => low[g] = body[g]
      /\ \A g \in Fields : ~(g \in DOMAIN body /\ g[2] = "low") => low[g] = c[g]
  BY <1>3, KeySets
<1> HIDE DEF low
<1>5. /\ DOMAIN high = Fields
      /\ \A g \in DOMAIN body : g[2] = "high" => high[g] = body[g]
      /\ \A g \in Fields : ~(g \in DOMAIN body /\ g[2] = "high") => high[g] = low[g]
  BY <1>3, <1>4, KeySets
<1> HIDE DEF high
<1>6. /\ DOMAIN all = Fields
      /\ \A g \in DOMAIN body : g[2] = "other" => all[g] = body[g]
      /\ \A g \in Fields : ~(g \in DOMAIN body /\ g[2] = "other") => all[g] = high[g]
  BY <1>1, <1>5, KeySets
<1> HIDE DEF all
<1> QED
  BY <1>1, <1>2, <1>4, <1>5, <1>6

(* Every field belongs to one section.                                     *)
LEMMA SectionOf ==
  /\ \A f \in Fields : f[1] \in S!Sections /\ f \in S!Of(f[1])
  /\ \A s, z : \A f \in S!Of(s) : f \in Fields /\ (f \in S!Of(z) => s = z)
BY DEF S!Sections, S!Of

LEMMA SettingsInit == S!Init => SettingsInv
<1> SUFFICES ASSUME S!Init
             PROVE  SettingsInv
  OBVIOUS
<1>1. \A s \in S!Sections : req[s] = S!Free /\ req[s].st = "free"
  BY DEF S!Init, S!Free
<1>2. DOMAIN cfg = Fields /\ DOMAIN base = Fields /\ DOMAIN draft = Fields
      /\ DOMAIN req = S!Sections
  BY ConsoleAssumption DEF S!Init, S!Loaded
<1>3. BaselineKept
  BY DEF S!Init, S!Loaded, BaselineKept
<1> QED
  BY <1>1, <1>2, <1>3 DEF SettingsInv, SavesOfSections, Candidates, AnswersTrue

(* Edits and undone edits are the form's own.                              *)
LEMMA EditSettings ==
  ASSUME SettingsInv, DOMAIN draft' = Fields,
         UNCHANGED <<cfg, base, req, since, s_foreign, s_doubt>>
  PROVE  SettingsInv'
BY DEF SettingsInv, SavesOfSections, Candidates, AnswersTrue, BaselineKept, S!Body, Wrote

LEMMA SaveSettings ==
  ASSUME SettingsInv, NEW s \in S!Sections, S!saveSection(s)
  PROVE  SettingsInv'
<1> USE DEF SettingsInv
<1>1. /\ req[s] = S!Free /\ req[s].st = "free"
      /\ UNCHANGED <<cfg, base, draft, since, s_foreign, s_doubt>>
  BY DEF S!saveSection, S!Saving, S!Free
<1>2. /\ DOMAIN req' = S!Sections /\ \A z \in S!Sections \ {s} : req'[z] = req[z]
      /\ req'[s].st = "sent" /\ DOMAIN req'[s].body = S!Sent(s) /\ req'[s].wrote = {}
  BY DEF S!saveSection, S!Restrict
<1>3. S!Sent(s) \subseteq S!Of(s) /\ S!Of(s) \ Secrets \subseteq S!Sent(s)
  BY DEF S!Sent
<1>4. SavesOfSections'
  BY <1>2, <1>3 DEF SavesOfSections, S!Body, Wrote
<1>5. Candidates'
  BY <1>1, <1>2 DEF Candidates, S!Body
<1>6. AnswersTrue'
  BY <1>1, <1>2 DEF AnswersTrue, S!Body
<1>7. BaselineKept'
  BY <1>1, <1>2, SectionOf DEF BaselineKept, Wrote
<1> QED
  BY <1>1, <1>2, <1>4, <1>5, <1>6, <1>7

LEMMA CopySettings ==
  ASSUME SettingsInv, NEW s \in S!Sections, S!Copy(s)
  PROVE  SettingsInv'
<1> USE DEF SettingsInv
<1> DEFINE c == S!Candidate(cfg, req[s].body)
<1>1. /\ req[s].st = "sent" /\ \A z \in S!Sections : req[z].st \notin {"copied", "stored"}
      /\ since' = {} /\ UNCHANGED <<cfg, base, draft, s_foreign, s_doubt>>
      /\ req' = IF c = Empty
                THEN [req EXCEPT ![s] = [st |-> "refused", body |-> @.body, wrote |-> @.wrote]]
                ELSE [req EXCEPT ![s] = [st |-> "copied", body |-> @.body, wrote |-> {}, cand |-> c]]
  BY DEF S!Copy, S!Handling, S!Answered
<1>2. req[s] # S!Free
  BY <1>1 DEF S!Free
<1>3. /\ DOMAIN req[s].body \subseteq S!Of(s) /\ S!Of(s) \ Secrets \subseteq DOMAIN req[s].body
      /\ Wrote(s) = {} /\ req[s].wrote = {}
  BY <1>1, <1>2 DEF SavesOfSections, S!Body, Wrote
<1>4. c # Empty => /\ DOMAIN c = Fields
                   /\ \A g \in DOMAIN req[s].body : c[g] = req[s].body[g]
                   /\ \A g \in Fields \ DOMAIN req[s].body : c[g] = cfg[g]
  BY <1>3, CandidateSets
<1> HIDE DEF c
<1>5. /\ DOMAIN req' = S!Sections /\ \A z \in S!Sections \ {s} : req'[z] = req[z]
      /\ req'[s].body = req[s].body /\ req'[s].wrote = {}
      /\ \/ req'[s].st = "refused"
         \/ c # Empty /\ req'[s].st = "copied" /\ req'[s].cand = c
  BY <1>1, <1>3
<1>6. SavesOfSections'
  BY <1>3, <1>5 DEF SavesOfSections, S!Body, Wrote
<1>7. Candidates'
  BY <1>1, <1>4, <1>5 DEF Candidates, S!Body
<1>8. AnswersTrue'
  BY <1>1, <1>5 DEF AnswersTrue, S!Body
<1>9. BaselineKept'
  BY <1>1, <1>3, <1>5, SectionOf DEF BaselineKept, Wrote
<1> QED
  BY <1>1, <1>5, <1>6, <1>7, <1>8, <1>9

(* The keys that are written are the save's, and no one else's.            *)
LEMMA StoreSettings ==
  ASSUME SettingsInv, NEW s \in S!Sections, S!Store(s)
  PROVE  SettingsInv'
<1> USE DEF SettingsInv
<1>1. PICK keys \in SUBSET S!Body(s) :
        LET changed == {f \in keys : cfg[f] # req[s].body[f]}
        IN  /\ cfg' = [f \in Fields |-> IF f \in keys THEN req[s].body[f] ELSE cfg[f]]
            /\ since' = since \ keys
            /\ req' = [req EXCEPT ![s] = [st |-> IF keys = S!Body(s) THEN "stored" ELSE "refused",
                                         body |-> @.body, wrote |-> changed, cand |-> @.cand]]
  BY DEF S!Store
<1>2. req[s].st = "copied" /\ req[s] # S!Free /\ UNCHANGED <<base, draft, s_foreign, s_doubt>>
  BY DEF S!Store, S!Free
<1>3. S!Body(s) \subseteq S!Of(s) /\ S!Of(s) \ Secrets \subseteq S!Body(s) /\ Wrote(s) = {}
  BY <1>2 DEF SavesOfSections
<1>4. /\ DOMAIN req' = S!Sections /\ \A z \in S!Sections \ {s} : req'[z] = req[z]
      /\ req'[s].body = req[s].body /\ req'[s].cand = req[s].cand
      /\ (req'[s].st = "stored" /\ keys = S!Body(s)) \/ req'[s].st = "refused"
      /\ req'[s].wrote = {f \in keys : cfg[f] # req[s].body[f]}
  BY <1>1, <1>3
<1>5. /\ DOMAIN cfg' = Fields /\ \A f \in keys : f \in Fields /\ cfg'[f] = req[s].body[f]
      /\ \A f \in Fields \ keys : cfg'[f] = cfg[f]
      /\ \A f \in Fields : cfg'[f] # cfg[f] => f \in req'[s].wrote
  BY <1>1, <1>3, <1>4 DEF S!Of
<1>6. SavesOfSections'
  BY <1>3, <1>4 DEF SavesOfSections, S!Body, S!Free, Wrote
<1>7. Candidates'
  <2> SUFFICES ASSUME NEW z \in S!Sections, req'[z].st \in {"copied", "stored"}
               PROVE  /\ \A y \in S!Sections : req'[y].st \in {"copied", "stored"} => y = z
                      /\ DOMAIN req'[z].cand = Fields
                      /\ \A f \in DOMAIN req'[z].body : req'[z].cand[f] = req'[z].body[f]
                      /\ \A f \in Fields \ DOMAIN req'[z].body : req'[z].cand[f] = cfg'[f] \/ f \in since'
                      /\ since' \subseteq s_foreign'
    BY DEF Candidates, S!Body
  <2>1. z = s /\ keys = S!Body(s) /\ \A y \in S!Sections : req[y].st \in {"copied", "stored"} => y = s
    BY <1>2, <1>4 DEF Candidates
  <2> QED
    BY <1>1, <1>2, <1>4, <1>5, <2>1 DEF Candidates, S!Body
<1>8. AnswersTrue'
  <2>1. ASSUME NEW z \in S!Sections, req'[z].st = "stored",
               NEW f \in DOMAIN req'[z].body \ (Secrets \union since')
        PROVE  cfg'[f] = req'[z].body[f]
    <3>1. z = s /\ keys = S!Body(s)
      BY <1>2, <1>4, <2>1 DEF Candidates
    <3> QED
      BY <1>4, <1>5, <2>1, <3>1 DEF S!Body
  <2>2. ASSUME NEW z \in S!Sections, req'[z].st = "saved",
               NEW f \in DOMAIN req'[z].body \ (Secrets \union s_foreign')
        PROVE  cfg'[f] = req'[z].body[f]
    <3>1. z # s /\ req'[z] = req[z] /\ req[z].st = "saved" /\ req[z] # S!Free
      BY <1>4, <2>2 DEF S!Free
    <3>2. f \in S!Of(z) /\ f \notin S!Of(s) /\ f \in Fields
      BY <2>2, <3>1, SectionOf DEF SavesOfSections, S!Body
    <3> QED
      BY <1>2, <1>3, <1>5, <2>2, <3>1, <3>2 DEF AnswersTrue, S!Body
  <2> QED
    BY <2>1, <2>2 DEF AnswersTrue, S!Body
<1>9. BaselineKept'
  <2> SUFFICES ASSUME NEW f \in Fields \ (Secrets \union s_foreign' \union s_doubt'),
                      req'[f[1]].st # "saved"
               PROVE  base'[f] = cfg'[f] \/ f \in (IF req'[f[1]] = S!Free THEN {} ELSE req'[f[1]].wrote)
    BY DEF BaselineKept, Wrote
  <2>1. f[1] \in S!Sections /\ f \in S!Of(f[1])
    BY SectionOf
  <2>2. CASE f[1] = s
    <3>1. req'[s] # S!Free
      BY <1>4 DEF S!Free
    <3> QED
      BY <1>2, <1>3, <1>5, <2>2, <3>1 DEF BaselineKept
  <2>3. CASE f[1] # s
    <3>1. f \notin keys /\ req'[f[1]] = req[f[1]]
      BY <1>3, <1>4, <2>1, <2>3, SectionOf
    <3> QED
      BY <1>2, <1>5, <3>1 DEF BaselineKept, Wrote
  <2> QED
    BY <2>2, <2>3
<1> QED
  BY <1>2, <1>4, <1>5, <1>6, <1>7, <1>8, <1>9

(* No key of the core was changed: the answer is true as it is.            *)
LEMMA KeepSettings ==
  ASSUME SettingsInv, NEW s \in S!Sections, S!Keep(s)
  PROVE  SettingsInv'
<1> USE DEF SettingsInv
<1>1. /\ req[s].st = "stored" /\ UNCHANGED <<cfg, base, draft, since, s_doubt>>
      /\ s_foreign' = s_foreign \ (S!Body(s) \ since)
      /\ req' = [req EXCEPT ![s] = [st |-> "saved", body |-> @.body, wrote |-> @.wrote]]
  BY DEF S!Keep, S!Answered
<1>2. /\ DOMAIN req' = S!Sections /\ \A z \in S!Sections \ {s} : req'[z] = req[z]
      /\ req'[s].st = "saved" /\ req'[s].body = req[s].body
      /\ \A z \in S!Sections : req[z].st \in {"copied", "stored"} => z = s
      /\ since \subseteq s_foreign /\ S!Body(s) \subseteq S!Of(s)
  BY <1>1 DEF Candidates, SavesOfSections, S!Free
<1>3. SavesOfSections'
  BY <1>1, <1>2 DEF SavesOfSections, S!Body, S!Free, Wrote
<1>4. Candidates'
  BY <1>1, <1>2 DEF Candidates, S!Body
<1>5. AnswersTrue'
  <2> SUFFICES ASSUME NEW z \in S!Sections, req'[z].st = "saved",
                      NEW f \in DOMAIN req'[z].body \ (Secrets \union s_foreign')
               PROVE  cfg[f] = req'[z].body[f]
    BY <1>1, <1>2 DEF AnswersTrue, S!Body
  <2>1. CASE z = s
    BY <1>1, <1>2, <2>1 DEF AnswersTrue, S!Body
  <2>2. CASE z # s
    <3>1. req'[z] = req[z] /\ req[z] # S!Free
      BY <1>2, <2>2 DEF S!Free
    <3>2. f \in S!Of(z) /\ f \notin S!Of(s)
      BY <2>2, <3>1, SectionOf DEF SavesOfSections, S!Body
    <3> QED
      BY <1>1, <1>2, <3>1, <3>2 DEF AnswersTrue, S!Body
  <2> QED
    BY <2>1, <2>2
<1>6. BaselineKept'
  <2> SUFFICES ASSUME NEW f \in Fields \ (Secrets \union s_foreign' \union s_doubt),
                      req'[f[1]].st # "saved"
               PROVE  base[f] = cfg[f] \/ f \in (IF req'[f[1]] = S!Free THEN {} ELSE req'[f[1]].wrote)
    BY <1>1 DEF BaselineKept, Wrote
  <2>1. f[1] \in S!Sections \ {s} /\ f \in S!Of(f[1])
    BY <1>2, SectionOf
  <2>2. f \notin S!Body(s)
    BY <1>2, <2>1, SectionOf
  <2> QED
    BY <1>1, <1>2, <2>1, <2>2 DEF BaselineKept, Wrote
<1> QED
  BY <1>1, <1>2, <1>3, <1>4, <1>5, <1>6

(* The candidate is written: other sections keep what they have, but for   *)
(* what MQTT wrote.                                                        *)
LEMMA ApplySettings ==
  ASSUME SettingsInv, NEW s \in S!Sections, S!Apply(s)
  PROVE  SettingsInv'
<1> USE DEF SettingsInv
<1>1. /\ req[s].st \in {"copied", "stored"} /\ cfg' = req[s].cand
      /\ s_foreign' = s_foreign \ S!Body(s)
      /\ req' = [req EXCEPT ![s] = [st |-> "saved", body |-> @.body, wrote |-> @.wrote]]
      /\ UNCHANGED <<base, draft, since, s_doubt>>
  BY DEF S!Apply, S!Answered
<1>2. S!Body(s) \subseteq S!Of(s)
  BY <1>1 DEF SavesOfSections, S!Free
<1>3. /\ DOMAIN req' = S!Sections /\ \A z \in S!Sections \ {s} : req'[z] = req[z]
      /\ req'[s].st = "saved" /\ req'[s].body = req[s].body
  BY <1>1
<1>4. /\ \A z \in S!Sections : req[z].st \in {"copied", "stored"} => z = s
      /\ DOMAIN cfg' = Fields
      /\ \A f \in S!Body(s) : cfg'[f] = req[s].body[f]
      /\ \A f \in Fields \ (S!Body(s) \union s_foreign) : cfg'[f] = cfg[f]
  BY <1>1 DEF Candidates
<1>5. SavesOfSections'
  BY <1>1, <1>3 DEF SavesOfSections, S!Body, S!Free, Wrote
<1>6. Candidates'
  BY <1>3, <1>4 DEF Candidates
<1>7. AnswersTrue'
  <2> SUFFICES ASSUME NEW z \in S!Sections, req'[z].st = "saved",
                      NEW f \in S!Body(z)' \ (Secrets \union s_foreign')
               PROVE  cfg'[f] = req'[z].body[f]
    BY <1>3, <1>4 DEF AnswersTrue
  <2>1. CASE z = s
    BY <1>3, <1>4, <2>1 DEF S!Body
  <2>2. CASE z # s
    <3>1. req'[z] = req[z] /\ f \in S!Body(z)
      BY <1>3, <2>2 DEF S!Body
    <3>2. f \in S!Of(z)
      BY <3>1 DEF SavesOfSections, S!Free
    <3>3. f \in Fields /\ f \notin S!Body(s)
      BY <1>2, <2>2, <3>2, SectionOf
    <3>4. f \notin s_foreign
      BY <1>1, <3>3
    <3> QED
      BY <1>4, <3>1, <3>3, <3>4 DEF AnswersTrue
  <2> QED
    BY <2>1, <2>2
<1>8. BaselineKept'
  <2> SUFFICES ASSUME NEW f \in Fields \ (Secrets \union s_foreign' \union s_doubt'),
                      req'[f[1]].st # "saved"
               PROVE  base'[f] = cfg'[f] \/ f \in Wrote(f[1])'
    BY DEF BaselineKept
  <2>1. f[1] \in S!Sections /\ f[1] # s /\ f \notin S!Body(s)
    BY <1>2, <1>3, SectionOf
  <2>2. cfg'[f] = cfg[f] /\ base' = base /\ Wrote(f[1])' = Wrote(f[1]) /\ req'[f[1]] = req[f[1]]
    BY <1>1, <1>3, <1>4, <2>1 DEF Wrote
  <2> QED
    BY <1>1, <2>1, <2>2 DEF BaselineKept
<1> QED
  BY <1>1, <1>3, <1>4, <1>5, <1>6, <1>7, <1>8

LEMMA RefuseSettings ==
  ASSUME SettingsInv, NEW s \in S!Sections, S!Refuse(s)
  PROVE  SettingsInv'
<1> USE DEF SettingsInv
<1>1. /\ req[s].st \in {"sent", "copied", "stored"}
      /\ UNCHANGED <<cfg, base, draft, since, s_foreign, s_doubt>>
      /\ req' = [req EXCEPT ![s] = [st |-> "refused", body |-> @.body, wrote |-> @.wrote]]
  BY DEF S!Refuse, S!Answered, S!history
<1>2. /\ DOMAIN req' = S!Sections /\ \A z \in S!Sections \ {s} : req'[z] = req[z]
      /\ req'[s].st = "refused" /\ req'[s].body = req[s].body
      /\ req'[s].wrote = req[s].wrote /\ Wrote(s)' = Wrote(s)
  BY <1>1 DEF Wrote, S!Free
<1>3. SavesOfSections'
  BY <1>1, <1>2 DEF SavesOfSections, S!Body, S!Free, Wrote
<1>4. Candidates'
  BY <1>1, <1>2 DEF Candidates, S!Body
<1>5. AnswersTrue'
  BY <1>1, <1>2 DEF AnswersTrue, S!Body
<1>6. BaselineKept'
  BY <1>1, <1>2, SectionOf DEF BaselineKept, Wrote
<1> QED
  BY <1>1, <1>2, <1>3, <1>4, <1>5, <1>6

(* What was sent, not what is in the inputs by then, is the new baseline.  *)
LEMMA SavedSettings ==
  ASSUME SettingsInv, NEW s \in S!Sections, S!Saved(s)
  PROVE  SettingsInv'
<1> USE DEF SettingsInv
<1>1. /\ req[s].st = "saved" /\ s_doubt' = s_doubt \ S!Body(s)
      /\ req' = [req EXCEPT ![s] = S!Free] /\ UNCHANGED <<cfg, since, s_foreign>>
      /\ base' = [f \in Fields |-> IF f \in S!Body(s) \ Secrets THEN req[s].body[f] ELSE base[f]]
      /\ DOMAIN draft' = Fields
  BY DEF S!Saved
<1>2. S!Body(s) \subseteq S!Of(s) /\ S!Of(s) \ Secrets \subseteq S!Body(s)
  BY <1>1 DEF SavesOfSections, S!Free
<1>3. /\ DOMAIN req' = S!Sections /\ \A z \in S!Sections \ {s} : req'[z] = req[z]
      /\ req'[s] = S!Free /\ req'[s].st = "free"
  BY <1>1 DEF S!Free
<1>4. SavesOfSections'
  BY <1>3 DEF SavesOfSections, S!Body, Wrote
<1>5. Candidates'
  BY <1>1, <1>3 DEF Candidates, S!Body
<1>6. AnswersTrue'
  BY <1>1, <1>3 DEF AnswersTrue, S!Body
<1>7. BaselineKept'
  <2> SUFFICES ASSUME NEW f \in Fields \ (Secrets \union s_foreign \union s_doubt'),
                      req'[f[1]].st # "saved"
               PROVE  base'[f] = cfg[f] \/ f \in Wrote(f[1])'
    BY <1>1 DEF BaselineKept
  <2>1. CASE f[1] = s
    <3>1. f \in S!Body(s) \ Secrets
      BY <1>2, <2>1, SectionOf
    <3> QED
      BY <1>1, <3>1 DEF AnswersTrue
  <2>2. CASE f[1] # s
    <3>1. f[1] \in S!Sections /\ f \notin S!Body(s)
      BY <1>2, <2>2, SectionOf
    <3> QED
      BY <1>1, <1>3, <2>2, <3>1 DEF BaselineKept, Wrote
  <2> QED
    BY <2>1, <2>2
<1> QED
  BY <1>1, <1>3, <1>4, <1>5, <1>6, <1>7

LEMMA FailedSettings ==
  ASSUME SettingsInv, NEW s \in S!Sections, S!Failed(s)
  PROVE  SettingsInv'
<1> USE DEF SettingsInv
<1>1. /\ req[s].st \in {"sent", "saved", "refused"} /\ req' = [req EXCEPT ![s] = S!Free]
      /\ s_doubt' = s_doubt \union (IF req[s].st = "saved" THEN S!Body(s) ELSE req[s].wrote)
      /\ UNCHANGED <<cfg, base, draft, since, s_foreign>>
  BY DEF S!Failed
<1>2. S!Of(s) \ Secrets \subseteq S!Body(s) /\ Wrote(s) = req[s].wrote
  BY <1>1 DEF SavesOfSections, S!Free, Wrote
<1>3. /\ DOMAIN req' = S!Sections /\ \A z \in S!Sections \ {s} : req'[z] = req[z]
      /\ req'[s] = S!Free /\ req'[s].st = "free"
  BY <1>1 DEF S!Free
<1>4. SavesOfSections'
  BY <1>3 DEF SavesOfSections, S!Body, Wrote
<1>5. Candidates'
  BY <1>1, <1>3 DEF Candidates, S!Body
<1>6. AnswersTrue'
  BY <1>1, <1>3 DEF AnswersTrue, S!Body
<1>7. BaselineKept'
  BY <1>1, <1>2, <1>3, SectionOf DEF BaselineKept, Wrote
<1> QED
  BY <1>1, <1>3, <1>4, <1>5, <1>6, <1>7

(* MQTT's change is foreign to the page and to a save under way.           *)
LEMMA CommandSettings ==
  ASSUME SettingsInv, NEW f \in Remote, NEW v, S!command(f, v)
  PROVE  SettingsInv'
<1> USE DEF SettingsInv
<1>1. /\ cfg' = [cfg EXCEPT ![f] = v] /\ s_foreign' = s_foreign \union {f}
      /\ since' = since \union {f} /\ UNCHANGED <<base, draft, req, s_doubt>>
  BY DEF S!command
<1>2. DOMAIN cfg' = Fields /\ \A g \in Fields \ {f} : cfg'[g] = cfg[g]
  BY <1>1
<1>3. SavesOfSections'
  BY <1>1 DEF SavesOfSections, S!Body, Wrote
<1>4. Candidates'
  BY <1>1, <1>2 DEF Candidates, S!Body
<1>5. AnswersTrue'
  <2>1. \A s \in S!Sections : req[s].st \in {"stored", "saved"} => S!Body(s) \subseteq Fields
    BY SectionOf DEF SavesOfSections, S!Free
  <2> QED
    BY <1>1, <1>2, <2>1 DEF AnswersTrue, S!Body
<1>6. BaselineKept'
  BY <1>1, <1>2 DEF BaselineKept, Wrote
<1> QED
  BY <1>1, <1>2, <1>3, <1>4, <1>5, <1>6

LEMMA SettingsNext == SettingsInv /\ [S!Next]_(S!vars) => SettingsInv'
<1> SUFFICES ASSUME SettingsInv, [S!Next]_(S!vars)
             PROVE  SettingsInv'
  OBVIOUS
<1>1. ASSUME NEW f \in Fields, NEW v \in Values, S!Edit(f, v) PROVE SettingsInv'
  BY <1>1, EditSettings DEF S!Edit, S!history, SettingsInv
<1>2. ASSUME NEW s \in S!Sections, S!revertSection(s) PROVE SettingsInv'
  BY <1>2, EditSettings DEF S!revertSection, S!history
<1>3. CASE UNCHANGED S!vars
  BY <1>3, EditSettings DEF S!vars, S!history, SettingsInv
<1> QED
  BY <1>1, <1>2, <1>3, SaveSettings, CopySettings, StoreSettings, ApplySettings,
     KeepSettings, RefuseSettings, SavedSettings, FailedSettings, CommandSettings DEF S!Next

LEMMA SettingsInvariance == ConsoleSpec => []SettingsInv
<1>1. ConsoleInit => SettingsInv
  BY SettingsInit DEF ConsoleInit
<1>2. SettingsInv /\ [ConsoleNext]_consoleVars => SettingsInv'
  BY PartSteps, SettingsNext
<1> QED
  BY <1>1, <1>2, PTL DEF ConsoleSpec

(* A settings form without changes holds what the device has, whatever is  *)
(* typed while a save is under way and in whatever order the sections'     *)
(* saves and MQTT's changes come (saveSection's baseline).                 *)
THEOREM CleanFormsAreSaved == ConsoleSpec => []CleanMeansSaved
<1>1. SettingsInv => CleanMeansSaved
  <2> SUFFICES ASSUME SettingsInv, NEW f \in Fields \ (Secrets \union s_foreign \union s_doubt),
                      ~S!Saving(f[1])
               PROVE  base[f] = cfg[f]
    BY DEF CleanMeansSaved, S!CleanMeansSaved
  <2>1. req[f[1]].st # "saved" /\ Wrote(f[1]) = {}
    BY DEF S!Saving, S!Free, Wrote
  <2> QED
    BY <2>1 DEF SettingsInv, BaselineKept
<1> QED
  BY <1>1, SettingsInvariance, PTL

(* A save changes no field of another section, but for those MQTT changed  *)
(* between its copy and its write (settingsPost's two critical sections).  *)
THEOREM SavesKeepOthers == ConsoleSpec => SaveKeepsOthers
<1>1. SettingsInv /\ [ConsoleNext]_consoleVars =>
        [\A s \in S!Sections : S!Store(s) \/ S!Apply(s) =>
           \A f \in Fields \ S!Of(s) : cfg'[f] # cfg[f] => f \in since]_(S!vars)
  <2> SUFFICES ASSUME SettingsInv, NEW s \in S!Sections, S!Store(s) \/ S!Apply(s),
                      NEW f \in Fields \ S!Of(s), cfg'[f] # cfg[f]
               PROVE  f \in since
    OBVIOUS
  <2>1. req[s].st \in {"copied", "stored"}
    BY DEF S!Store, S!Apply
  <2>2. f \notin S!Body(s)
    BY <2>1 DEF SettingsInv, SavesOfSections, S!Free
  <2>3. ~S!Store(s)
    BY <2>2 DEF S!Store
  <2>4. cfg' = req[s].cand
    BY <2>3 DEF S!Apply
  <2> QED
    BY <2>1, <2>2, <2>4 DEF SettingsInv, Candidates
<1> QED
  BY <1>1, SettingsInvariance, PTL DEF ConsoleSpec, SaveKeepsOthers, S!SaveKeepsOthers

-----------------------------------------------------------------------------
(* The Wi-Fi set-up.                                                       *)

Telling(d) ==
  {"boot", "try", "covers"} \subseteq DOMAIN d /\ d.boot \in Nat /\ d.try \in Nat /\ d.covers \in Nat

Informed == data # None \/ current

\* The page's data is of the present run of the device, and then not ahead of
\* it, or of an earlier one.
World ==
  /\ Telling(o_seen) /\ o_seen.boot = o_boots /\ o_accepted \in Nat /\ o_boots \in Nat
  /\ Informed => /\ Telling(data) /\ data.boot <= o_boots
                 /\ data.boot = o_boots => data.try <= o_seen.try

\* Of the run that took request x, or a later one, data with a number above
\* the one the request was answered with is of an attempt made after it.
Covers(d, x) == d.boot >= x.boot /\ d.try > x.base => d.covers >= x.no

Tracked(x) ==
  /\ {"base", "no", "boot"} \subseteq DOMAIN x
  /\ x.base \in Nat /\ x.no \in 0 .. o_accepted /\ x.boot \in 0 .. o_boots
  /\ Covers(o_seen, x)
  /\ Informed => Covers(data, x)

\* So are the answers on their way, of whichever run.
AsksTracked ==
  /\ DOMAIN ask = W!Kinds
  /\ \A k \in W!Kinds : ask[k].st = "done" => Tracked(ask[k])

\* What is followed is tracked.
Followed(nt) ==
  nt # None => /\ {"base", "no", "boot", "stage"} \subseteq DOMAIN nt /\ nt.no \in Nat
               /\ nt.no > 0 => Tracked(nt)

WifiInv == World /\ AsksTracked /\ Followed(NT)

(* A step changes what the device shows or what the page has of it.        *)
LEMMA NetMoves ==
  ASSUME [W!Next]_(W!vars)
  PROVE  \/ /\ data' = data
            /\ \/ W!Begin \/ W!Proceed \/ W!Boot \/ \E s : W!Ask(s)
               \/ UNCHANGED W!netVars
         \/ data' = o_seen /\ UNCHANGED W!netVars
<1>1. CASE W!Device \/ W!Elsewhere \/ UNCHANGED W!vars
  BY <1>1 DEF W!Device, W!Elsewhere, W!vars, W!pageVars
<1>2. CASE W!Serve
  BY <1>2 DEF W!Serve, W!settingsPost, W!handleNetRetry, W!handleResetWifi
<1>3. CASE W!User
  BY <1>3 DEF W!User, W!Choose, W!submitWifi, W!startRetry, W!finishSetup, W!resetWifiFlow,
              W!Request
<1>4. CASE W!RequestEnds
  BY <1>4 DEF W!RequestEnds, W!SaveRepeats, W!SaveEnds, W!AgainEnds, W!RetryEnds,
              W!FinishEnds, W!ResetEnds, W!Ends
<1>5. CASE W!FreshAnswer \/ W!OldAnswer
  BY <1>5 DEF W!FreshAnswer, W!OldAnswer, W!PollAnswer
<1>6. CASE W!PollError \/ W!GoStale
  BY <1>6 DEF W!PollError, W!GoStale
<1> QED
  BY <1>1, <1>2, <1>3, <1>4, <1>5, <1>6 DEF W!Next

LEMMA Currently ==
  ASSUME [W!Next]_(W!vars)
  PROVE  current' => current \/ data' = o_seen \/ data # None
<1>1. CASE W!Device \/ W!Elsewhere \/ UNCHANGED W!vars
  BY <1>1 DEF W!Device, W!Elsewhere, W!vars, W!pageVars
<1>2. CASE W!Serve
  BY <1>2 DEF W!Serve
<1>3. CASE W!User
  BY <1>3 DEF W!User, W!Choose, W!submitWifi, W!startRetry, W!finishSetup, W!resetWifiFlow,
              W!Follow
<1>4. CASE W!RequestEnds
  BY <1>4 DEF W!RequestEnds, W!SaveRepeats, W!SaveEnds, W!AgainEnds, W!RetryEnds,
              W!FinishEnds, W!ResetEnds, W!Follow
<1>5. CASE W!FreshAnswer \/ W!OldAnswer
  BY <1>5 DEF W!FreshAnswer, W!OldAnswer, W!PollAnswer
<1>6. CASE W!PollError \/ W!GoStale
  BY <1>6 DEF W!PollError, W!GoStale
<1> QED
  BY <1>1, <1>2, <1>3, <1>4, <1>5, <1>6 DEF W!Next

(* Whatever the device and the page do, a request tracked stays tracked.   *)
LEMMA WorldStep ==
  ASSUME World, [W!Next]_(W!vars)
  PROVE  World' /\ \A x : Tracked(x) => Tracked(x)'
<1> USE DEF World, Telling
<1>1. Informed' => Informed \/ data' = o_seen
  BY NetMoves, Currently DEF Informed
<1>2. CASE data' = data /\ W!Begin
  BY <1>1, <1>2 DEF W!Begin, Tracked, Covers
<1>3. CASE data' = data /\ W!Proceed
  <2>1. PICK r, h : o_seen' = [o_seen EXCEPT !.result = r, !.handover = h]
    BY <1>3 DEF W!Proceed
  <2>2. /\ DOMAIN o_seen' = DOMAIN o_seen /\ o_seen'.boot = o_seen.boot
        /\ o_seen'.try = o_seen.try /\ o_seen'.covers = o_seen.covers
    BY <2>1
  <2>3. UNCHANGED <<o_accepted, o_boots>>
    BY <1>3 DEF W!Proceed
  <2> QED
    BY <1>1, <1>3, <2>2, <2>3 DEF Tracked, Covers
<1>4. CASE data' = data /\ W!Boot
  BY <1>1, <1>4 DEF W!Boot, W!Blank, Tracked, Covers
<1>5. CASE data' = data /\ \E s : W!Ask(s)
  BY <1>1, <1>5 DEF W!Ask, Tracked, Covers
<1>6. CASE data' = data /\ UNCHANGED W!netVars
  BY <1>1, <1>6 DEF W!netVars, Tracked, Covers
<1>7. CASE data' = o_seen /\ UNCHANGED W!netVars
  BY <1>1, <1>7 DEF W!netVars, Tracked, Covers
<1> QED
  BY <1>2, <1>3, <1>4, <1>5, <1>6, <1>7, NetMoves

\* x is about the request y was about.
About(x, y) ==
  {"base", "no", "boot", "stage"} \subseteq DOMAIN x /\ x.base = y.base /\ x.no = y.no /\ x.boot = y.boot

LEMMA StageAbout ==
  ASSUME NEW nt, {"base", "no", "boot", "stage"} \subseteq DOMAIN nt, NEW stage
  PROVE  About([nt EXCEPT !.stage = stage], nt) /\ [nt EXCEPT !.stage = stage].stage = stage
BY DEF About

(* progressState changes the stage only; to success with fresh data of a   *)
(* later attempt.                                                          *)
LEMMA ProgressAbout ==
  ASSUME NEW nt, {"base", "no", "boot", "stage"} \subseteq DOMAIN nt, nt # None, NEW d, NEW fresh
  PROVE  /\ About(W!Progress(nt, d, fresh), nt)
         /\ W!Progress(nt, d, fresh).stage = "connected" =>
              nt.stage = "connected" \/ (fresh /\ ~(d.try <= nt.base))
<1>1. PICK stage : \/ W!Progress(nt, d, fresh) = nt
                   \/ /\ fresh /\ ~(d.try <= nt.base)
                      /\ W!Progress(nt, d, fresh) = [nt EXCEPT !.stage = stage]
  BY DEF W!Progress
<1> QED
  BY <1>1, StageAbout DEF About

(* What a step may follow, and when it shows success.                      *)
Follows ==
  /\ \/ NT # None /\ About(NT', NT)
     \/ {"base", "no", "boot", "stage"} \subseteq DOMAIN NT' /\ NT'.no = 0
     \/ \E k \in W!Kinds : ask[k].st = "done" /\ About(NT', ask[k])
  /\ NT'.stage = "connected" =>
       (NT # None /\ NT.stage = "connected") \/ (current' /\ ~(data'.try <= NT'.base))

LEMMA FollowsSame ==
  ASSUME Followed(NT), NT' # None, NT' = NT
  PROVE  Follows
BY DEF Follows, Followed, About

LEMMA FollowsNew ==
  ASSUME NEW first, NEW ssid, NEW stage, stage # "connected", NT' = W!Transition(first, ssid, stage)
  PROVE  Follows
BY DEF Follows, W!Transition

(* The stage is set, and perhaps shown as the data has it.                 *)
LEMMA FollowsShown ==
  ASSUME Followed(NT), NT' # None, data' = data, current' = current, NEW stage, stage # "connected",
         NT' = W!Staged(stage) \/ NT' = W!Shown(W!Staged(stage))
  PROVE  Follows
<1> DEFINE nt == [NT EXCEPT !.stage = stage]
<1>1. NT # None
  BY DEF W!Staged, W!Shown, W!Progress
<1>2. W!Staged(stage) = nt /\ {"base", "no", "boot", "stage"} \subseteq DOMAIN NT
  BY <1>1 DEF W!Staged, Followed
<1>3. About(nt, NT) /\ nt.stage = stage
  BY <1>2, StageAbout
<1> HIDE DEF nt
<1>4. CASE NT' = nt
  BY <1>1, <1>3, <1>4 DEF Follows
<1>5. CASE NT' = W!Progress(nt, data, current) /\ nt # None
  <2>1. About(NT', nt) /\ (NT'.stage = "connected" => current /\ ~(data.try <= nt.base))
    BY <1>3, <1>5, ProgressAbout DEF About
  <2> QED
    BY <1>1, <1>3, <2>1 DEF Follows, About
<1>6. CASE NT' = W!Progress(nt, data, current) /\ nt = None
  BY <1>6 DEF W!Progress
<1> QED
  BY <1>2, <1>4, <1>5, <1>6 DEF W!Shown

(* An answer is written to the request that is followed by then.           *)
LEMMA FollowsTaken ==
  ASSUME Followed(NT), NT' # None, NEW k \in W!Kinds, ask[k].st = "done", current' = FALSE,
         NT' = W!Taken(ask[k])
  PROVE  Follows
<1>1. NT # None /\ {"base", "no", "boot", "stage"} \subseteq DOMAIN NT
  BY DEF W!Taken, Followed
<1>2. NT' = [NT EXCEPT !.base = ask[k].base, !.no = ask[k].no, !.boot = ask[k].boot, !.stage = "saved"]
  BY <1>1 DEF W!Taken
<1>3. About(NT', ask[k]) /\ NT'.stage = "saved"
  BY <1>1, <1>2 DEF About
<1> QED
  BY <1>3 DEF Follows

LEMMA FollowsTick ==
  ASSUME Followed(NT), NT' # None, NEW d, NEW fresh, W!WifiTick(d, fresh), d = data', fresh = current'
  PROVE  Follows
<1>1. NT # None
  BY DEF W!WifiTick, W!Progress
<1>2. {"base", "no", "boot", "stage"} \subseteq DOMAIN NT
  BY <1>1 DEF Followed
<1>3. CASE NT' = W!Staged("finished-sta")
  <2>1. About(NT', NT) /\ NT'.stage = "finished-sta"
    BY <1>1, <1>2, <1>3, StageAbout DEF W!Staged
  <2> QED
    BY <1>1, <2>1 DEF Follows
<1>4. CASE NT' = NT
  BY <1>1, <1>2, <1>4 DEF Follows, About
<1>5. CASE NT' = W!Progress(NT, d, fresh)
  <2>1. About(NT', NT) /\ (NT'.stage = "connected" =>
          NT.stage = "connected" \/ (current' /\ ~(data'.try <= NT.base)))
    BY <1>1, <1>2, <1>5, ProgressAbout
  <2> QED
    BY <1>1, <2>1 DEF Follows, About
<1> QED
  BY <1>3, <1>4, <1>5 DEF W!WifiTick

(* Trying again: the number is that of the second request.                 *)
LEMMA FollowsAgain ==
  ASSUME Followed(NT), NT' # None, ask["again"].st = "done", current' = current, data' = data,
         NT = None \/ NT' = W!Shown([NT EXCEPT !.base = ask["again"].base, !.no = ask["again"].no,
                                               !.boot = ask["again"].boot]),
         NT = None => NT' = W!Shown(None)
  PROVE  Follows
<1> DEFINE nt == [NT EXCEPT !.base = ask["again"].base, !.no = ask["again"].no,
                            !.boot = ask["again"].boot]
<1>1. NT # None
  BY DEF W!Shown, W!Progress
<1>2. {"base", "no", "boot", "stage"} \subseteq DOMAIN NT /\ NT' = W!Shown(nt)
  BY <1>1 DEF Followed
<1>3. About(nt, ask["again"]) /\ nt.stage = NT.stage
  BY <1>2 DEF About
<1> HIDE DEF nt
<1>4. nt # None
  BY <1>2 DEF W!Shown, W!Progress
<1>5. About(NT', nt) /\ (NT'.stage = "connected" =>
        nt.stage = "connected" \/ (current /\ ~(data.try <= nt.base)))
  BY <1>2, <1>3, <1>4, ProgressAbout DEF W!Shown, About
<1>6. "again" \in W!Kinds /\ About(NT', ask["again"])
  BY <1>3, <1>5 DEF W!Kinds, About
<1> QED
  BY <1>1, <1>3, <1>5, <1>6 DEF Follows, About

LEMMA FollowsStep ==
  ASSUME [W!Next]_(W!vars), WifiInv, NT' # None
  PROVE  Follows
<1> USE DEF WifiInv
<1>1. CASE W!Device \/ W!Elsewhere \/ W!Serve \/ UNCHANGED W!vars
  <2>1. UNCHANGED <<NT, data, current>>
    BY <1>1 DEF W!Device, W!Elsewhere, W!Serve, W!vars, W!pageVars
  <2> QED
    BY <2>1, FollowsSame
<1>2. CASE W!User
  <2>1. ASSUME NEW s, W!submitWifi(s) PROVE Follows
    BY <2>1, FollowsNew DEF W!submitWifi, W!Follow
  <2>2. CASE W!startRetry
    BY <2>2, FollowsNew DEF W!startRetry, W!Follow
  <2>3. CASE W!finishSetup
    <3>1. UNCHANGED <<data, current>>
      BY <2>3 DEF W!finishSetup, W!Request
    <3>2. NT' = NT \/ NT' = W!Transition(data.try - 1, data.ssid, "none")
      BY <2>3 DEF W!finishSetup
    <3> QED
      BY <3>1, <3>2, FollowsSame, FollowsNew
  <2>4. CASE W!resetWifiFlow
    BY <2>4, FollowsNew DEF W!resetWifiFlow, W!Follow
  <2> QED
    BY <1>2, <2>1, <2>2, <2>3, <2>4 DEF W!User, W!Choose
<1>3. CASE W!SaveRepeats
  BY <1>3, FollowsTaken DEF W!SaveRepeats, W!Follow, W!Kinds
<1>4. ASSUME NEW k \in W!Kinds, NEW a, W!Ends(k, a)
      PROVE  data' = data /\ (a.st = "done" => a = ask[k] /\ ask[k].st = "done")
  BY <1>4 DEF W!Ends, W!LostAnswer, W!Refusal
<1>5. ASSUME NEW a, W!SaveEnds(a) PROVE Follows
  <2>1. "save" \in W!Kinds /\ W!Ends("save", a)
    BY <1>5 DEF W!Kinds, W!SaveEnds
  <2>2. CASE a.st = "done" /\ W!Follow(W!Taken(a))
    BY <1>4, <2>1, <2>2, FollowsTaken DEF W!Follow
  <2>3. CASE NT' = W!Shown(W!Staged("uncertain")) /\ UNCHANGED current
    BY <1>4, <2>1, <2>3, FollowsShown
  <2> QED
    BY <1>5, <2>2, <2>3 DEF W!SaveEnds
<1>6. ASSUME NEW a, W!AgainEnds(a) PROVE Follows
  <2>1. "again" \in W!Kinds /\ W!Ends("again", a) /\ UNCHANGED current
    BY <1>6 DEF W!Kinds, W!AgainEnds
  <2>2. data' = data /\ (a.st = "done" => a = ask["again"] /\ ask["again"].st = "done")
    BY <1>4, <2>1
  <2>3. CASE NT = None
    BY <1>6, <2>3 DEF W!AgainEnds, W!Shown, W!Progress
  <2>4. CASE NT # None /\ a.st = "done"
    BY <1>6, <2>1, <2>2, <2>4, FollowsAgain DEF W!AgainEnds
  <2>5. CASE NT # None /\ a.st # "done"
    BY <1>6, <2>1, <2>2, <2>5, FollowsShown DEF W!AgainEnds
  <2> QED
    BY <2>3, <2>4, <2>5
<1>7. ASSUME NEW a, W!RetryEnds(a) PROVE Follows
  <2>1. "retry" \in W!Kinds /\ W!Ends("retry", a)
    BY <1>7 DEF W!Kinds, W!RetryEnds
  <2>2. CASE a.st = "done" /\ W!Follow(W!Taken(a))
    BY <1>4, <2>1, <2>2, FollowsTaken DEF W!Follow
  <2>3. CASE NT' = W!Shown(W!Staged("uncertain")) /\ UNCHANGED current
    BY <1>4, <2>1, <2>3, FollowsShown
  <2>4. CASE /\ UNCHANGED current
             /\ NT' = IF NT = None THEN None ELSE [NT EXCEPT !.stage = "failed", !.err = TRUE]
    <3>1. NT # None /\ {"base", "no", "boot", "stage"} \subseteq DOMAIN NT
      BY <2>4 DEF Followed
    <3>2. About(NT', NT) /\ NT'.stage = "failed"
      BY <2>4, <3>1 DEF About
    <3> QED
      BY <1>4, <2>1, <2>4, <3>1, <3>2 DEF Follows
  <2> QED
    BY <1>7, <2>2, <2>3, <2>4 DEF W!RetryEnds
<1>8. ASSUME NEW a, W!FinishEnds(a) PROVE Follows
  <2>1. "finish" \in W!Kinds /\ W!Ends("finish", a)
    BY <1>8 DEF W!Kinds, W!FinishEnds
  <2> QED
    BY <1>4, <1>8, <2>1, FollowsShown DEF W!FinishEnds
<1>9. ASSUME NEW a, W!ResetEnds(a) PROVE Follows
  <2>1. "reset" \in W!Kinds /\ W!Ends("reset", a)
    BY <1>9 DEF W!Kinds, W!ResetEnds
  <2> QED
    BY <1>4, <1>9, <2>1, FollowsSame DEF W!ResetEnds
<1>10. CASE W!FreshAnswer \/ W!OldAnswer
  <2>1. PICK d : W!PollAnswer(d)
    BY <1>10 DEF W!FreshAnswer, W!OldAnswer
  <2>2. data' = d /\ current' = TRUE /\ W!WifiTick(d, TRUE)
    BY <2>1 DEF W!PollAnswer
  <2> QED
    BY <2>1, <2>2, FollowsTick
<1>11. CASE W!PollError
  BY <1>11, FollowsTick DEF W!PollError
<1>12. CASE W!GoStale
  BY <1>12, FollowsSame DEF W!GoStale
<1> QED
  BY <1>1, <1>2, <1>3, <1>5, <1>6, <1>7, <1>8, <1>9, <1>10, <1>11, <1>12
     DEF W!Next, W!RequestEnds

(* The invariant's part about what is followed.                            *)
LEMMA FollowedStep ==
  ASSUME WifiInv, [W!Next]_(W!vars)
  PROVE  Followed(NT)'
<1> SUFFICES ASSUME NT' # None
             PROVE  /\ {"base", "no", "boot", "stage"} \subseteq DOMAIN NT' /\ NT'.no \in Nat
                    /\ NT'.no > 0 => Tracked(NT)'
  BY DEF Followed
<1>1. World' /\ \A x : Tracked(x) => Tracked(x)'
  BY WorldStep DEF WifiInv
<1>2. ASSUME NEW y, About(NT', y), Tracked(y)
      PROVE  Tracked(NT)'
  <2>1. Tracked(y)'
    BY <1>1, <1>2
  <2> QED
    BY <1>2, <2>1 DEF Tracked, Covers, About
<1>3. CASE NT # None /\ About(NT', NT)
  <2>1. NT.no \in Nat /\ (NT.no > 0 => Tracked(NT))
    BY <1>3 DEF WifiInv, Followed
  <2> QED
    BY <1>2, <1>3, <2>1 DEF About
<1>4. CASE {"base", "no", "boot", "stage"} \subseteq DOMAIN NT' /\ NT'.no = 0
  BY <1>4
<1>5. CASE \E k \in W!Kinds : ask[k].st = "done" /\ About(NT', ask[k])
  <2>1. PICK k \in W!Kinds : ask[k].st = "done" /\ About(NT', ask[k])
    BY <1>5
  <2>2. Tracked(ask[k])
    BY <2>1 DEF WifiInv, AsksTracked
  <2>3. Tracked(NT)' /\ ask[k].no \in Nat
    BY <1>2, <2>1, <2>2 DEF Tracked, WifiInv, World
  <2> QED
    BY <2>1, <2>3 DEF About
<1> QED
  BY <1>3, <1>4, <1>5, FollowsStep DEF Follows

(* Requests that go out or end leave the other answers as they are.        *)
LEMMA AsksKept ==
  ASSUME WifiInv, [W!Next]_(W!vars), DOMAIN ask' = W!Kinds,
         \A k \in W!Kinds : ask'[k].st = "done" => ask[k].st = "done" /\ ask'[k] = ask[k]
  PROVE  AsksTracked'
<1>1. \A x : Tracked(x) => Tracked(x)'
  BY WorldStep DEF WifiInv
<1>2. ASSUME NEW k \in W!Kinds, ask'[k].st = "done"
      PROVE  Tracked(ask[k])'
  <2>1. ask'[k] = ask[k] /\ Tracked(ask[k])
    BY <1>2 DEF WifiInv, AsksTracked
  <2>2. PICK x : x = ask[k]
    OBVIOUS
  <2>3. Tracked(x)
    BY <2>1, <2>2
  <2>4. Tracked(x)'
    BY <1>1, <2>3
  <2> QED
    BY <2>1, <2>2, <2>4 DEF Tracked, Covers
<1> QED
  BY <1>2 DEF AsksTracked

(* The device's answer: the number of the attempt before the one asked for.*)
LEMMA AskDone ==
  ASSUME WifiInv, [W!Next]_(W!vars), NEW k \in W!Kinds, ask[k].st = "sent",
         NEW reconnect \in BOOLEAN, W!Done(k, reconnect), o_accepted' \in Nat,
         UNCHANGED <<o_seen, o_boots, data, current>>
  PROVE  AsksTracked'
<1> DEFINE a == [st |-> "done", base |-> o_seen.try, reconnect |-> reconnect,
                 no |-> IF reconnect THEN o_accepted' ELSE 0, boot |-> o_boots]
<1>1. DOMAIN ask = W!Kinds /\ ask' = [ask EXCEPT ![k] = a]
  BY DEF WifiInv, AsksTracked, W!Done
<1>2. ask'[k] = a /\ DOMAIN ask' = W!Kinds /\ \A j \in W!Kinds \ {k} : ask'[j] = ask[j]
  BY <1>1
<1>3. /\ {"base", "no", "boot"} \subseteq DOMAIN a /\ a.base = o_seen.try /\ a.boot = o_boots
      /\ a.no \in 0 .. o_accepted' /\ a.st = "done"
  OBVIOUS
<1> HIDE DEF a
<1>4. Informed' <=> Informed
  BY DEF Informed
<1>5. Tracked(ask[k])'
  BY <1>2, <1>3, <1>4 DEF Tracked, Covers, WifiInv, World, Telling
<1>6. \A x : Tracked(x) => Tracked(x)'
  BY WorldStep DEF WifiInv
<1>7. ASSUME NEW j \in W!Kinds \ {k}, ask'[j].st = "done"
      PROVE  Tracked(ask[j])'
  <2>1. ask'[j] = ask[j] /\ Tracked(ask[j])
    BY <1>2, <1>7 DEF WifiInv, AsksTracked
  <2>2. PICK x : x = ask[j]
    OBVIOUS
  <2>3. Tracked(x)
    BY <2>1, <2>2
  <2>4. Tracked(x)'
    BY <1>6, <2>3
  <2> QED
    BY <2>1, <2>2, <2>4 DEF Tracked, Covers
<1> QED
  BY <1>2, <1>5, <1>7 DEF AsksTracked

LEMMA AsksServed == ASSUME WifiInv, W!Serve PROVE AsksTracked'
<1> USE DEF WifiInv
<1>1. [W!Next]_(W!vars) /\ UNCHANGED <<NT, data, current, asked>>
  BY DEF W!Next, W!Serve
<1>2. ASSUME NEW s, W!Ask(s) PROVE o_accepted' \in Nat /\ UNCHANGED <<o_seen, o_boots>>
  BY <1>2 DEF W!Ask, World
<1>3. CASE W!settingsPost
  <2>1. "save" \in W!Kinds /\ ask["save"].st = "sent"
    BY <1>3 DEF W!settingsPost, W!Sent, W!Kinds
  <2>2. PICK r \in BOOLEAN : W!Done("save", r) /\ ((\E s : W!Ask(s)) \/ UNCHANGED W!netVars)
    BY <1>3 DEF W!settingsPost
  <2>3. o_accepted' \in Nat /\ UNCHANGED <<o_seen, o_boots>>
    BY <1>2, <2>2 DEF W!netVars, World
  <2> QED
    BY <1>1, <2>1, <2>2, <2>3, AskDone
<1>4. ASSUME NEW k \in {"again", "retry"}, W!handleNetRetry(k) PROVE AsksTracked'
  <2>1. k \in W!Kinds /\ ask[k].st = "sent" /\ W!Done(k, TRUE) /\ W!Ask(o_stored)
    BY <1>4 DEF W!handleNetRetry, W!Sent, W!Kinds
  <2> QED
    BY <1>1, <1>2, <2>1, AskDone
<1>5. CASE W!handleResetWifi
  <2>1. ask' = [ask EXCEPT !["reset"] = W!LostAnswer] /\ UNCHANGED <<o_seen, o_boots>>
    BY <1>2, <1>5 DEF W!handleResetWifi
  <2>2. DOMAIN ask' = W!Kinds /\ ask'["reset"].st = "lost"
        /\ \A k \in W!Kinds \ {"reset"} : ask'[k] = ask[k]
    BY <2>1 DEF AsksTracked, W!LostAnswer, W!Kinds
  <2> QED
    BY <1>1, <2>2, AsksKept
<1> QED
  BY <1>3, <1>4, <1>5 DEF W!Serve

LEMMA AsksUser == ASSUME WifiInv, W!User PROVE AsksTracked'
<1> USE DEF WifiInv
<1>1. [W!Next]_(W!vars)
  BY DEF W!Next
<1>2. PICK k, what : k \in W!Kinds /\ W!Request(k, what)
  BY DEF W!User, W!Choose, W!submitWifi, W!startRetry, W!finishSetup, W!resetWifiFlow, W!Kinds
<1>3. ask' = [ask EXCEPT ![k] = [st |-> "sent", ssid |-> what]]
  BY <1>2 DEF W!Request
<1>4. /\ DOMAIN ask' = W!Kinds /\ ask'[k].st = "sent"
      /\ \A j \in W!Kinds \ {k} : ask'[j] = ask[j]
  BY <1>2, <1>3 DEF AsksTracked
<1> QED
  BY <1>1, <1>4, AsksKept

LEMMA AsksEnd == ASSUME WifiInv, W!RequestEnds PROVE AsksTracked'
<1> USE DEF WifiInv
<1>1. [W!Next]_(W!vars)
  BY DEF W!Next
<1>2. CASE W!SaveRepeats
  <2>1. ask' = [ask EXCEPT !["save"] = W!NoAsk, !["again"] = [st |-> "sent", ssid |-> NoNet]]
    BY <1>2 DEF W!SaveRepeats
  <2>2. DOMAIN ask' = W!Kinds /\ ask'["save"].st = "none" /\ ask'["again"].st = "sent"
        /\ \A k \in W!Kinds \ {"save", "again"} : ask'[k] = ask[k]
    BY <2>1 DEF AsksTracked, W!NoAsk, W!Kinds
  <2> QED
    BY <1>1, <2>2, AsksKept
<1>3. ASSUME NEW k \in W!Kinds, NEW a, W!Ends(k, a) PROVE AsksTracked'
  <2>1. ask' = [ask EXCEPT ![k] = W!NoAsk]
    BY <1>3 DEF W!Ends
  <2>2. DOMAIN ask' = W!Kinds /\ ask'[k].st = "none" /\ \A j \in W!Kinds \ {k} : ask'[j] = ask[j]
    BY <2>1 DEF AsksTracked, W!NoAsk
  <2> QED
    BY <1>1, <2>2, AsksKept
<1>4. W!SaveRepeats \/ \E k \in W!Kinds, a \in W!Outcomes : W!Ends(k, a)
  BY DEF W!RequestEnds, W!SaveEnds, W!AgainEnds, W!RetryEnds, W!FinishEnds, W!ResetEnds, W!Kinds
<1> QED
  BY <1>2, <1>3, <1>4

(* The device's own steps and the polls leave the requests as they are.    *)
LEMMA AsksAside ==
  ASSUME WifiInv, \/ W!Device \/ W!Elsewhere \/ UNCHANGED W!vars
                  \/ W!FreshAnswer \/ W!OldAnswer \/ W!PollError \/ W!GoStale
  PROVE  AsksTracked'
<1>1. [W!Next]_(W!vars)
  BY DEF W!Next
<1>2. ask' = ask
  BY DEF W!Device, W!Elsewhere, W!vars, W!pageVars, W!FreshAnswer, W!OldAnswer, W!PollAnswer,
         W!PollError, W!GoStale
<1>3. DOMAIN ask' = W!Kinds
  BY <1>2 DEF WifiInv, AsksTracked
<1> QED
  BY <1>1, <1>2, <1>3, AsksKept

LEMMA WifiNext == WifiInv /\ [W!Next]_(W!vars) => WifiInv'
<1> SUFFICES ASSUME WifiInv, [W!Next]_(W!vars)
             PROVE  WifiInv'
  OBVIOUS
<1>1. World'
  BY WorldStep DEF WifiInv
<1>2. AsksTracked'
  BY AsksServed, AsksUser, AsksEnd, AsksAside DEF W!Next
<1> QED
  BY <1>1, <1>2, FollowedStep DEF WifiInv

LEMMA WifiInit == W!Init => WifiInv
<1> SUFFICES ASSUME W!Init
             PROVE  WifiInv
  OBVIOUS
<1>1. /\ o_seen = W!Blank(0) /\ o_accepted = 0 /\ o_boots = 0
      /\ NT = None /\ data = None /\ current = FALSE /\ ask = [k \in W!Kinds |-> W!NoAsk]
  BY DEF W!Init, W!NetInit
<1>2. World
  BY <1>1 DEF World, Telling, Informed, W!Blank
<1>3. AsksTracked
  BY <1>1 DEF AsksTracked, W!NoAsk, W!Kinds
<1> QED
  BY <1>1, <1>2, <1>3 DEF WifiInv, Followed

LEMMA WifiInvariance == ConsoleSpec => []WifiInv
<1>1. ConsoleInit => WifiInv
  BY WifiInit DEF ConsoleInit
<1>2. WifiInv /\ [ConsoleNext]_consoleVars => WifiInv'
  BY PartSteps, WifiNext
<1> QED
  BY <1>1, <1>2, PTL DEF ConsoleSpec

(* The set-up announces a connection only of an attempt made after the     *)
(* device took the request that is followed, or on data from before the    *)
(* restart, through lost and late answers, other pages' requests and       *)
(* restarts (progressState's base, net_try).                               *)
THEOREM SuccessIsOfTheRequest == ConsoleSpec => SuccessIsNew
<1>1. WifiInv /\ [ConsoleNext]_consoleVars =>
        [W!Succeeds /\ NT'.no > 0 => data'.covers >= NT'.no \/ data'.boot < NT'.boot]_(W!vars)
  <2> SUFFICES ASSUME WifiInv, [ConsoleNext]_consoleVars, W!Succeeds, NT'.no > 0
               PROVE  data'.covers >= NT'.no \/ data'.boot < NT'.boot
    OBVIOUS
  <2>1. [W!Next]_(W!vars) /\ NT' # None
    BY PartSteps DEF W!Succeeds
  <2>2. current' /\ ~(data'.try <= NT'.base)
    BY <2>1, FollowsStep DEF Follows, W!Succeeds
  <2>3. WifiInv'
    BY <2>1, WifiNext
  <2>4. Tracked(NT)' /\ Informed' /\ Telling(data)' /\ o_boots' \in Nat
    BY <2>1, <2>2, <2>3 DEF WifiInv, Followed, World, Informed
  <2> QED
    BY <2>2, <2>4 DEF Tracked, Covers, Telling
<1> QED
  BY <1>1, WifiInvariance, PTL DEF ConsoleSpec, SuccessIsNew, W!SuccessIsNew
=============================================================================
