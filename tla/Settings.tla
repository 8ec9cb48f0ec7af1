------------------------------ MODULE Settings ------------------------------
(***************************************************************************)
(* The settings page (src/tools/ui/src/60_settings.js) against the         *)
(* device's configuration: every section is a form of its own, saved by a  *)
(* request with all its fields, while MQTT and the loops of the core write *)
(* the configuration too.  The page loads the settings once.               *)
(*                                                                         *)
(* Fields are the two ends "low" and "high" of a range the device checks   *)
(* (validate's V1, V2, V4, V7, V10), or anything else.                     *)
(***************************************************************************)
EXTENDS Naturals, Functions

CONSTANTS
  Fields,                     \* [section, key] pairs
  Secrets,                    \* those with a password input
  Remote,                     \* those MQTT may set
  Stored,                     \* sections written to flash first (MQTT, network)
  Values,                     \* a set of numbers
  Configs,                     \* configurations to start with
  Empty,
  MaxRemote, MaxSaves         \* bounds: changes by MQTT, saves

VARIABLES
  cfg,      \* the device's configuration, in force or stored for the next start
  base,     \* baseline: what the page holds to be saved
  draft,    \* what is in the inputs
  req,      \* [section -> its save, or Free]
  bad,      \* sections whose bar shows an error
  remotes, saves,
  foreign,  \* history: fields MQTT changed since the last save of them,
  since,    \* since the copy was taken that a save is made from or, one it
            \* stores, since that was stored,
  doubt     \* fields of a save whose outcome the page does not know, or was
            \* told wrongly: stored by a save that was then refused

history == <<remotes, saves, foreign, since, doubt>>
vars == <<cfg, base, draft, req, bad, history>>

Sections == {f[1] : f \in Fields}
Of(s) == {f \in Fields : f[1] = s}
Free == [st |-> "free"]
Saving(s) == req[s] # Free
Body(s) == DOMAIN req[s].body

-----------------------------------------------------------------------------
(* The page *)

\* isChanged; a secret's input is empty unless it is to be changed.
IsChanged(f) == draft[f] # base[f]
Dirty(s) == \E f \in Of(s) : IsChanged(f)

\* The inputs stay open while a save is under way.
Edit(f, v) ==
  /\ v # draft[f]
  /\ draft' = [draft EXCEPT ![f] = v]
  /\ UNCHANGED <<cfg, base, req, bad, history>>

revertSection(s) ==
  /\ Dirty(s) /\ ~Saving(s)
  /\ draft' = [f \in Fields |-> IF f \in Of(s) THEN base[f] ELSE draft[f]]
  /\ bad' = bad \ {s}
  /\ UNCHANGED <<cfg, base, req, history>>

\* A slip: a save sends the whole page.
SentAll(s) == {f \in Fields : f \in Secrets => draft[f] # Empty}

\* The fields a save sends: the section's, a secret only if one was typed.
Sent(s) == {f \in Of(s) : f \in Secrets => draft[f] # Empty}

saveSection(s) ==
  /\ ~Saving(s) /\ (Dirty(s) \/ s \in bad)
  /\ saves < MaxSaves /\ saves' = saves + 1
  /\ req' = [req EXCEPT ![s] = [st |-> "sent", body |-> Restrict(draft, Sent(s)), wrote |-> {}]]
  /\ UNCHANGED <<cfg, base, draft, bad, remotes, foreign, since, doubt>>

-----------------------------------------------------------------------------
(* The device, one request after the other *)

\* validate
Valid(c) ==
  \A s \in Sections : {<<s, "low">>, <<s, "high">>} \subseteq Fields => c[<<s, "low">>] <= c[<<s, "high">>]

\* setField: each field by itself is checked against the others as they then
\* are; the sections send "low" first.  None: refused.
setField(c, f, v) ==
  IF c # Empty /\ Valid([c EXCEPT ![f] = v]) THEN [c EXCEPT ![f] = v] ELSE Empty
Key(k, c, body) ==
  LET f == {g \in DOMAIN body : g[2] = k}
  IN  IF f = {} THEN c ELSE LET g == CHOOSE h \in f : TRUE IN setField(c, g, body[g])
Candidate(c, body) == Key("other", Key("high", Key("low", c, body), body), body)

Handling == {s \in Sections : req[s].st \in {"copied", "stored"}}
Answered(s, how) == req' = [req EXCEPT ![s] = [st |-> how, body |-> @.body, wrote |-> @.wrote]]

\* settingsPost, its first critical section: the copy, and the candidate
\* made of it.
Copy(s) ==
  /\ req[s].st = "sent" /\ Handling = {}
  /\ LET c == Candidate(cfg, req[s].body)
     IN  IF c = Empty THEN Answered(s, "refused")
         ELSE req' = [req EXCEPT ![s] = [st |-> "copied", body |-> @.body, wrote |-> {}, cand |-> c]]
  /\ since' = {}
  /\ UNCHANGED <<cfg, base, draft, bad, remotes, saves, foreign, doubt>>

\* mqttcfg::apply, net::apply: one key after the other is written, and all
\* of them are in force once the last one is; a failure between two leaves
\* what was written for the next start.  wrote is history: what that changed.
Store(s) ==
  /\ req[s].st = "copied" /\ s \in Stored
  /\ \E keys \in SUBSET Body(s) :
       LET changed == {f \in keys : cfg[f] # req[s].body[f]}
       IN  /\ cfg' = [f \in Fields |-> IF f \in keys THEN req[s].body[f] ELSE cfg[f]]
           /\ since' = since \ keys
           /\ req' = [req EXCEPT ![s] = [st |-> IF keys = Body(s) THEN "stored" ELSE "refused",
                                         body |-> @.body, wrote |-> changed, cand |-> @.cand]]
  /\ UNCHANGED <<base, draft, bad, remotes, saves, foreign, doubt>>

\* Its second: applyConfig with the whole candidate.
Apply(s) ==
  /\ req[s].st = IF s \in Stored THEN "stored" ELSE "copied"
  /\ cfg' = req[s].cand
  /\ foreign' = foreign \ Body(s)
  /\ Answered(s, "saved")
  /\ UNCHANGED <<base, draft, bad, remotes, saves, since, doubt>>

\* None of the core's keys was changed: storing them was all.
Keep(s) ==
  /\ req[s].st = "stored"
  /\ Answered(s, "saved")
  /\ foreign' = foreign \ (Body(s) \ since)
  /\ UNCHANGED <<cfg, base, draft, bad, remotes, saves, since, doubt>>

\* There is no session, a field is not valid, or the core is busy: before or
\* after the fields were stored.
Refuse(s) ==
  /\ req[s].st \in {"sent", "copied", "stored"}
  /\ Answered(s, "refused")
  /\ UNCHANGED <<cfg, base, draft, bad, history>>

\* MQTT's set.
command(f, v) ==
  /\ remotes < MaxRemote /\ remotes' = remotes + 1
  /\ v # cfg[f] /\ setField(cfg, f, v) # Empty
  /\ cfg' = [cfg EXCEPT ![f] = v]
  /\ foreign' = foreign \union {f} /\ since' = since \union {f}
  /\ UNCHANGED <<base, draft, req, bad, saves, doubt>>

-----------------------------------------------------------------------------
(* The answer; saveSection after its await *)

\* A slip: what is in the inputs by then is taken for saved.
SavedInputs(s) ==
  /\ req[s].st = "saved"
  /\ base' = [f \in Fields |-> IF f \in Body(s) \ Secrets THEN draft[f] ELSE base[f]]
  /\ draft' = [f \in Fields |-> IF f \in Of(s) \intersect Secrets THEN Empty ELSE draft[f]]
  /\ req' = [req EXCEPT ![s] = Free]
  /\ bad' = bad \ {s}
  /\ doubt' = doubt \ Body(s)
  /\ UNCHANGED <<cfg, remotes, saves, foreign, since>>

Saved(s) ==
  /\ req[s].st = "saved"
  /\ base' = [f \in Fields |-> IF f \in Body(s) \ Secrets THEN req[s].body[f] ELSE base[f]]
  /\ draft' = [f \in Fields |-> IF f \in Of(s) \intersect Secrets THEN Empty ELSE draft[f]]
  /\ req' = [req EXCEPT ![s] = Free]
  /\ bad' = bad \ {s}
  /\ doubt' = doubt \ Body(s)
  /\ UNCHANGED <<cfg, remotes, saves, foreign, since>>

\* Refused or lost: the edits stay in the form.
Failed(s) ==
  /\ req[s].st \in {"sent", "saved", "refused"}
  /\ req' = [req EXCEPT ![s] = Free]
  /\ bad' = bad \union {s}
  /\ doubt' = doubt \union (IF req[s].st = "saved" THEN Body(s) ELSE req[s].wrote)
  /\ UNCHANGED <<cfg, base, draft, remotes, saves, foreign, since>>

-----------------------------------------------------------------------------
\* load and render; a secret is not sent to the page.
Loaded == [f \in Fields |-> IF f \in Secrets THEN Empty ELSE cfg[f]]

Init ==
  /\ cfg \in Configs /\ Valid(cfg)
  /\ base = Loaded /\ draft = Loaded
  /\ req = [s \in Sections |-> Free] /\ bad = {}
  /\ remotes = 0 /\ saves = 0 /\ foreign = {} /\ since = {} /\ doubt = {}

Next ==
  \/ \E f \in Fields, v \in Values : Edit(f, v)
  \/ \E s \in Sections :
       \/ revertSection(s) \/ saveSection(s)
       \/ Copy(s) \/ Store(s) \/ Apply(s) \/ Keep(s) \/ Refuse(s) \/ Saved(s) \/ Failed(s)
  \/ \E f \in Remote, v \in Values : command(f, v)

Spec == Init /\ [][Next]_vars

-----------------------------------------------------------------------------
\* What the page holds to be saved is what the device has, so that a form
\* without changes shows the configuration and "undo" leads back to it: for
\* every field that is not being saved, that nobody else changed since the
\* page saved it, and that was in no save whose answer was lost or that was
\* refused after the field had been stored; edits made while a save was under
\* way, and the fields of a save refused at any other point, included
\* (saveSection's baseline).
CleanMeansSaved ==
  \A f \in Fields \ (Secrets \union foreign \union doubt) :
    ~Saving(f[1]) => base[f] = cfg[f]

\* A save changes no field of another section, except that it undoes a
\* change by MQTT that came between its copy of the configuration and the
\* write of it (settingsPost's two critical sections).
SaveKeepsOthers ==
  [][\A s \in Sections : Store(s) \/ Apply(s) =>
       \A f \in Fields \ Of(s) : cfg'[f] # cfg[f] => f \in since]_vars
=============================================================================
