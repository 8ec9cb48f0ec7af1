------------------------------- MODULE GenStore -------------------------------
(***************************************************************************)
(* One record in flash (class GenStore on class LfsBlob): three files, each *)
(* of which holds a frame with a generation number, a payload and a check  *)
(* sum, or nothing that can be read.  A save writes the temporary file,    *)
(* reads it back, and moves the files up; a load takes the newest frame.   *)
(*                                                                         *)
(* Every operation of the file system is a step of its own.  It may fail,  *)
(* and the device may lose its power between any two steps.                *)
(***************************************************************************)
EXTENDS Naturals

CONSTANTS
  Payloads,
  Torn,     \* a write that is cut short or fails leaves half a file behind
  MaxGen    \* bound: no save beyond this generation (2^32 - 1 in the code)

ASSUME GenStoreAssumption == Payloads # {} /\ Torn \in BOOLEAN /\ MaxGen \in Nat

File == {"prim", "back", "tmp"}

AnyPayload == CHOOSE p \in Payloads : TRUE

\* A file's frame; generation 0 stands for no file, or one that readFrame
\* rejects.  (The first generation saved is 1.)
Frame   == [gen : Nat, data : Payloads]
NoFrame == [gen |-> 0, data |-> AnyPayload]

VARIABLES
  disk,   \* the frame in each file
  gen,    \* gen_
  pc,     \* what the storage task does next
  pay,    \* the payload of the save that is under way
  kept    \* history: the frame last loaded, or saved with result OK

vars == <<disk, gen, pc, pay, kept>>

-----------------------------------------------------------------------------
\* load tries the files in this order, and takes a later one only if it is
\* newer.
Rank == [prim |-> 1, back |-> 2, tmp |-> 3]

\* A slip: the temporary file is not looked at.
LoadableMoved(f) == f # "tmp" /\ disk[f].gen > 0

Loadable(f) == disk[f].gen > 0

Picked(f) ==
  /\ Loadable(f)
  /\ \A e \in File \ {f} :
       Loadable(e) => \/ disk[e].gen < disk[f].gen
                      \/ disk[e].gen = disk[f].gen /\ Rank[f] < Rank[e]

\* A slip: the generation is the primary file's, whichever was loaded.
PrimaryGen(f) == disk["prim"].gen

\* gen_ = best
LoadedGen(f) == disk[f].gen

\* A slip: the generation is not counted up.
SameGen == gen

NextGen == gen + 1

Rename(d, from, to) == [d EXCEPT ![to] = d[from], ![from] = NoFrame]

\* What a write of the temporary file that is cut short leaves behind.
Cut == IF Torn THEN [disk EXCEPT !["tmp"] = NoFrame] ELSE disk

-----------------------------------------------------------------------------
Init ==
  /\ disk = [f \in File |-> NoFrame]
  /\ gen = 0
  /\ pc = "boot"
  /\ pay = AnyPayload
  /\ kept = NoFrame

\* load, once per boot
Load ==
  /\ pc = "boot" /\ pc' = "idle"
  /\ \/ \E f \in File : Picked(f) /\ gen' = LoadedGen(f) /\ kept' = disk[f]
     \/ (\A f \in File : ~Loadable(f)) /\ UNCHANGED <<gen, kept>>
  /\ UNCHANGED <<disk, pay>>

\* save(p)
Save(p) ==
  /\ pc = "idle" /\ pc' = "write"
  /\ NextGen <= MaxGen
  /\ pay' = p
  /\ UNCHANGED <<disk, gen, kept>>

\* ... the temporary file is written and verified
Write ==
  /\ pc = "write" /\ pc' = "remove"
  /\ disk' = [disk EXCEPT !["tmp"] = [gen |-> NextGen, data |-> pay]]
  /\ UNCHANGED <<gen, pay, kept>>

\* ... IO_ERROR: the write failed, or what it wrote could not be read back
WriteFails ==
  /\ pc = "write" /\ pc' = "idle"
  /\ disk' \in {Cut, [disk EXCEPT !["tmp"] = [gen |-> NextGen, data |-> pay]]}
  /\ UNCHANGED <<gen, pay, kept>>

\* ... remove(back_); its result is not looked at
RemoveBack ==
  /\ pc = "remove" /\ pc' = "retire"
  /\ disk' \in {disk, [disk EXCEPT !["back"] = NoFrame]}
  /\ UNCHANGED <<gen, pay, kept>>

\* ... LfsBlob::rename removes a file that has the new name already
ClearTarget ==
  /\ \/ /\ pc = "retire" /\ disk["prim"].gen > 0 /\ disk["back"].gen > 0
        /\ disk' = [disk EXCEPT !["back"] = NoFrame]
     \/ /\ pc = "promote" /\ disk["prim"].gen > 0
        /\ disk' = [disk EXCEPT !["prim"] = NoFrame]
  /\ UNCHANGED <<gen, pc, pay, kept>>

\* ... rename(prim_, back_); it may fail, or there may be no primary file
Retire ==
  /\ pc = "retire" /\ pc' = "promote"
  /\ disk' \in IF disk["prim"].gen > 0 THEN {disk, Rename(disk, "prim", "back")}
                                       ELSE {disk}
  /\ UNCHANGED <<gen, pay, kept>>

\* ... rename(tmp_, prim_), and the save is done
Promote ==
  /\ pc = "promote" /\ pc' = "idle"
  /\ disk' = Rename(disk, "tmp", "prim")
  /\ gen' = NextGen
  /\ kept' = disk["tmp"]
  /\ UNCHANGED pay

\* ... or IO_ERROR
PromoteFails ==
  /\ pc = "promote" /\ pc' = "idle"
  /\ UNCHANGED <<disk, gen, pay, kept>>

\* The power fails, or the device restarts.
Crash ==
  /\ pc' = "boot"
  /\ gen' = 0
  /\ disk' \in IF pc = "write" THEN {disk, Cut} ELSE {disk}
  /\ UNCHANGED <<pay, kept>>

Next ==
  \/ Load \/ (\E p \in Payloads : Save(p))
  \/ Write \/ WriteFails \/ RemoveBack \/ ClearTarget
  \/ Retire \/ Promote \/ PromoteFails
  \/ Crash

Spec == Init /\ [][Next]_vars

-----------------------------------------------------------------------------
\* The types of the state; a save that is moving the files up has a verified
\* temporary file.
TypeOK ==
  /\ disk \in [File -> Frame]
  /\ gen \in Nat
  /\ pc \in {"boot", "idle", "write", "remove", "retire", "promote"}
  /\ pay \in Payloads
  /\ kept \in Frame
  /\ pc \in {"remove", "retire", "promote"} =>
       disk["tmp"] = [gen |-> gen + 1, data |-> pay]

\* cc_store.h, 7: what has been saved or loaded once is never lost again.
\* However saves fail and whenever the power does, across any number of boots,
\* a load finds it or a payload that was saved after it; it never goes back.
NothingKeptIsLost ==
  kept.gen > 0 =>
    \E f \in File : /\ Picked(f)
                    /\ disk[f].gen >= kept.gen
                    /\ disk[f].gen = kept.gen => disk[f].data = kept.data

\* cc_store.h, 6: the choice among the copies is determinate: two frames of
\* one generation never hold different payloads.
GenerationsAreUnique ==
  \A e, f \in File :
    disk[e].gen > 0 /\ disk[e].gen = disk[f].gen => disk[e].data = disk[f].data

\* cc_store.h, 7: in whichever step a save is interrupted, an intact copy is
\* left.  (It does not hold if a write can be torn: see the README.)
IntactCopyLeft == kept.gen > 0 => \E f \in File : Loadable(f)

=============================================================================
