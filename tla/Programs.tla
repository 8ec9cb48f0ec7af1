------------------------------ MODULE Programs ------------------------------
(***************************************************************************)
(* The page that edits the local programs (src/tools/ui/src/               *)
(* 35_programs.js) against the list of the device (/api/programs).  A      *)
(* save posts the whole list, made from the copy the page has; the copy    *)
(* is renewed by loads that may come back late or out of order, and rows   *)
(* are told apart by their place in it.                                    *)
(***************************************************************************)
EXTENDS Naturals, FiniteSets, Sequences, SequencesExt

CONSTANTS
  Names,                      \* programs there may be
  None,
  MaxChanges,                 \* bounds: changes of the list,
  MaxErrors,                  \* requests that fail,
  MaxOpen                     \* requests of the page under way at once

VARIABLES
  plist,    \* the device's list of programs; vers counts its changes
  vers,
  st,       \* the page's copy, with the count it was read at
  reqs,     \* the page's requests under way, the oldest first
  ask,      \* the dialog that is open: None, the editor or a question
  errors,
  acked,    \* history: the last save the page was told of,
  doubt,    \* a request failed or a load was overtaken,
  foreign   \* the list was changed elsewhere, unseen by the page when ask was
            \* opened, or since

deviceVars == <<plist, vers>>
history == <<errors, acked, doubt, foreign>>
vars == <<deviceVars, st, reqs, ask, history>>

Program == [name : Names, enabled : BOOLEAN]
NewProgram(n) == [name |-> n, enabled |-> TRUE]
NamesOf(l) == {l[i].name : i \in DOMAIN l}

Load(closes) == [kind |-> "load", st |-> "sent", closes |-> closes]
Save(l, closes) == [kind |-> "save", st |-> "sent", list |-> l, closes |-> closes]
Alone == reqs = <<>>
Saves == {k \in DOMAIN reqs : reqs[k].kind = "save" /\ reqs[k].st = "sent"}

\* A request goes out.
Request(r) == Len(reqs) < MaxOpen /\ reqs' = Append(reqs, r)
Done(k) == reqs' = RemoveAt(reqs, k)

-----------------------------------------------------------------------------
(* The user *)

Editing == ask # None /\ ask.what = "edit"

\* clone, change the copy, save.
Change(l, closes) ==
  /\ vers + Cardinality(Saves) < MaxChanges
  /\ Request(Save(l, closes))

Toggle(i) ==
  /\ ask = None
  /\ Change([st.list EXCEPT ![i].enabled = ~@], FALSE)
  /\ UNCHANGED <<deviceVars, st, ask, history>>

\* A row's button opens the question or the editor, which remember its place.
Open(what, i) ==
  /\ ask = None
  /\ ask' = [what |-> what, place |-> i, name |-> st.list[i].name, alone |-> Alone]
  /\ foreign' = (st.vers # vers)
  /\ UNCHANGED <<deviceVars, st, reqs, errors, acked, doubt>>
Add ==
  /\ ask = None
  /\ ask' = [what |-> "edit", place |-> 0, name |-> None, alone |-> Alone]
  /\ foreign' = (st.vers # vers)
  /\ UNCHANGED <<deviceVars, st, reqs, errors, acked, doubt>>

Cancel ==
  /\ ask # None /\ ask' = None
  /\ UNCHANGED <<deviceVars, st, reqs, history>>

\* The deletion is confirmed: the place is looked up in the copy of now.
Delete ==
  /\ ask # None /\ ask.what = "delete"
  /\ ask' = None
  /\ Change(IF ask.place \in DOMAIN st.list THEN RemoveAt(st.list, ask.place) ELSE st.list, FALSE)
  /\ UNCHANGED <<deviceVars, st, history>>

\* The editor's form is submitted; it stays open until the save has come out
\* well, and may be submitted again before.
Submit(p) ==
  /\ Editing /\ ask.place <= Len(st.list) + 1     \* a list with a hole is refused
  /\ Change(IF ask.place \in DOMAIN st.list THEN ReplaceAt(st.list, ask.place, p)
            ELSE Append(st.list, p), TRUE)
  /\ UNCHANGED <<deviceVars, st, ask, history>>

\* A slip: the copy is renewed under the open editor, too.
ReloadAlways ==
  /\ Request(Load(FALSE))
  /\ UNCHANGED <<deviceVars, st, ask, history>>

\* pageUpdaters.programs: every 10 s, not while the editor is open.
Reload ==
  /\ ~Editing
  /\ Request(Load(FALSE))
  /\ UNCHANGED <<deviceVars, st, ask, history>>

-----------------------------------------------------------------------------
(* The device, one request after the other *)

handlePrograms(k) ==
  /\ reqs[k].kind = "load" /\ reqs[k].st = "sent"
  /\ reqs' = [reqs EXCEPT ![k] = [kind |-> "load", st |-> "done", list |-> plist, vers |-> vers,
                                  closes |-> reqs[k].closes]]
  /\ UNCHANGED <<deviceVars, st, ask, history>>

\* setPrograms replaces the whole list.
handleProgramsPost(k) ==
  /\ k \in Saves
  /\ plist' = reqs[k].list /\ vers' = vers + 1
  /\ reqs' = [reqs EXCEPT ![k] = [kind |-> "save", st |-> "done", vers |-> vers', closes |-> reqs[k].closes]]
  /\ UNCHANGED <<st, ask, history>>

\* Another page.
Elsewhere(l) ==
  /\ vers + Cardinality(Saves) < MaxChanges
  /\ plist' = l /\ vers' = vers + 1 /\ foreign' = TRUE
  /\ UNCHANGED <<st, reqs, ask, errors, acked, doubt>>

-----------------------------------------------------------------------------
(* The answers *)

\* The editor whose save a load followed is closed, or the one that has been
\* opened since.
Close(closes) == ask' = IF closes /\ Editing THEN None ELSE ask

\* A slip: a copy once loaded is kept.
LoadedOnce(k) ==
  /\ reqs[k].kind = "load" /\ reqs[k].st = "done"
  /\ st' = IF st.list = <<>> THEN [list |-> reqs[k].list, vers |-> reqs[k].vers] ELSE st
  /\ doubt' = (doubt \/ reqs[k].vers < st.vers)
  /\ Done(k)
  /\ Close(reqs[k].closes)
  /\ UNCHANGED <<deviceVars, errors, acked, foreign>>

\* load after its await.
Loaded(k) ==
  /\ reqs[k].kind = "load" /\ reqs[k].st = "done"
  /\ st' = [list |-> reqs[k].list, vers |-> reqs[k].vers]
  /\ doubt' = (doubt \/ reqs[k].vers < st.vers)
  /\ Done(k)
  /\ Close(reqs[k].closes)
  /\ UNCHANGED <<deviceVars, errors, acked, foreign>>

\* A slip: the list is not loaded after a save.
SavedOnly(k) ==
  /\ reqs[k].kind = "save" /\ reqs[k].st = "done"
  /\ acked' = IF acked < reqs[k].vers THEN reqs[k].vers ELSE acked
  /\ Done(k)
  /\ Close(reqs[k].closes)
  /\ UNCHANGED <<deviceVars, st, errors, doubt, foreign>>

\* save after its first await: it loads the list.
Saved(k) ==
  /\ reqs[k].kind = "save" /\ reqs[k].st = "done"
  /\ acked' = IF acked < reqs[k].vers THEN reqs[k].vers ELSE acked
  /\ reqs' = [reqs EXCEPT ![k] = Load(reqs[k].closes)]
  /\ UNCHANGED <<deviceVars, st, ask, errors, doubt, foreign>>

\* The device refuses it, or it or its answer is lost.  After a save nothing
\* is loaded; after a load, which throws nothing, its save counts as done.
Failed(k) ==
  /\ errors < MaxErrors
  /\ errors' = errors + 1 /\ doubt' = TRUE
  /\ Done(k)
  /\ Close(reqs[k].kind = "load" /\ reqs[k].closes)
  /\ UNCHANGED <<deviceVars, st, acked, foreign>>

-----------------------------------------------------------------------------
Init ==
  /\ plist = SetToSeq({NewProgram(n) : n \in Names})
  /\ vers = 0
  /\ st = [list |-> plist, vers |-> 0]
  /\ reqs = <<>> /\ ask = None
  /\ errors = 0 /\ acked = 0 /\ doubt = FALSE /\ foreign = FALSE

User ==
  \/ \E i \in DOMAIN st.list : Toggle(i) \/ Open("edit", i) \/ Open("delete", i)
  \/ Add \/ Cancel \/ Delete
  \/ Editing /\ ask.name # None /\ Submit([name |-> ask.name, enabled |-> FALSE])
  \/ Editing /\ ask.name = None /\ \E n \in Names \ NamesOf(st.list) : Submit(NewProgram(n))

Answers == \E k \in DOMAIN reqs : Loaded(k) \/ Saved(k)
Serve == \E k \in DOMAIN reqs : handlePrograms(k) \/ handleProgramsPost(k)

Next ==
  \/ User \/ Reload \/ Serve \/ Answers
  \/ \E k \in DOMAIN reqs : Failed(k)
  \/ plist # <<>> /\ Elsewhere(Tail(plist))
  \/ \E n \in Names \ NamesOf(plist) : Elsewhere(<<NewProgram(n)>> \o plist)

\* The page goes on loading, and requests are served and answered.
Progress == Reload \/ Serve \/ Answers

Fairness == WF_vars(Progress)

Spec == Init /\ [][Next]_vars /\ Fairness

-----------------------------------------------------------------------------
\* When none of its requests is under way, the page's copy has every change
\* the device has confirmed to it, so that the next save undoes none of them
\* (save's await load()).  It need not when a request failed or a load was
\* overtaken by an older one, and a second click before the load is back
\* does undo the first.
AckedIsShown == Alone /\ ~doubt => st.vers >= acked

\* The question and the editor speak of one program by name: the save that
\* comes of them removes or replaces that program and no other.  The editor's does if no
\* request was under way when it was opened; the question's only if nobody
\* else changed the list in the meantime either, since the page goes on
\* loading below it.
NewList == Last(reqs').list
RowIsItsProgram ==
  [][/\ Delete /\ ask.alone /\ ~foreign =>
          \E i \in DOMAIN st.list : st.list[i].name = ask.name /\ NewList = RemoveAt(st.list, i)
     /\ (\E p \in Program : Submit(p)) /\ ask.name # None /\ ask.alone =>
          NamesOf(NewList) = NamesOf(st.list)]_vars

\* The page comes to show the device's list again and again, unless the
\* editor stays open.
ListCatchesUp == []<>(st.list = plist \/ Editing)
=============================================================================
