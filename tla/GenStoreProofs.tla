---------------------------- MODULE GenStoreProofs ----------------------------
(***************************************************************************)
(* Proofs about GenStore: where a write either takes effect or does not    *)
(* (~Torn), nothing kept is ever lost, and generations are unique.  The    *)
(* argument: the frames on disk are never newer than what is kept but for  *)
(* the temporary file, which is at most one generation ahead; and the      *)
(* newest frame is never removed before a newer one has been verified.     *)
(***************************************************************************)
EXTENDS GenStore, TLAPS

\* The temporary file alone may be ahead, by one generation.
Bounded ==
  \A f \in File :
    disk[f].gen <= IF f = "tmp" THEN kept.gen + 1 ELSE kept.gen

\* A frame as new as what is kept is on disk.
Covered == kept.gen > 0 => \E f \in File : disk[f].gen >= kept.gen

\* A frame of the generation that is kept is what is kept.
Faithful ==
  \A f \in File : disk[f].gen = kept.gen /\ kept.gen > 0 => disk[f].data = kept.data

\* The inductive invariant
IInv ==
  /\ TypeOK
  /\ GenerationsAreUnique
  /\ Bounded
  /\ Covered
  /\ Faithful
  /\ gen = IF pc = "boot" THEN 0 ELSE kept.gen

-----------------------------------------------------------------------------
\* The default payload is one of the payloads, so the empty frame is a frame.
LEMMA NoFrameType == NoFrame \in Frame
  BY GenStoreAssumption DEF NoFrame, Frame, AnyPayload

\* The initial states satisfy the invariant.
LEMMA InitIInv == Init => IInv
  BY NoFrameType, GenStoreAssumption
  DEF Init, IInv, TypeOK, GenerationsAreUnique, Bounded, Covered, Faithful,
      NoFrame, Frame, File, AnyPayload

\* What the disk has to obey.
DiskOK ==
  /\ disk \in [File -> Frame] /\ kept \in Frame
  /\ GenerationsAreUnique
  /\ Bounded
  /\ Covered
  /\ Faithful

\* A file may be taken away when another one holds a frame as new as what is
\* kept.
LEMMA DropFile ==
  ASSUME DiskOK, NEW x \in File, disk' = [disk EXCEPT ![x] = NoFrame], kept' = kept,
         \E f \in File \ {x} : disk[f].gen >= kept.gen
  PROVE  DiskOK'
<1> USE NoFrameType
<1>1. \A f \in File : disk'[f] = IF f = x THEN NoFrame ELSE disk[f]
  BY DEF DiskOK
<1>2. NoFrame.gen = 0
  BY DEF NoFrame
<1>3. disk' \in [File -> Frame]
  BY DEF DiskOK
<1> QED
  BY <1>1, <1>2, <1>3
  DEF DiskOK, GenerationsAreUnique, Bounded, Covered, Faithful, Frame, File

\* A verified write of the temporary file, one generation ahead.
LEMMA PutAhead ==
  ASSUME DiskOK, NEW p \in Payloads, kept' = kept,
         disk' = [disk EXCEPT !["tmp"] = [gen |-> kept.gen + 1, data |-> p]]
  PROVE  DiskOK'
<1> DEFINE new == [gen |-> kept.gen + 1, data |-> p]
<1>1. kept.gen \in Nat /\ new \in Frame
  BY DEF DiskOK, Frame
<1>2. \A f \in File : disk'[f] = IF f = "tmp" THEN new ELSE disk[f]
  BY DEF DiskOK
<1>3. disk' \in [File -> Frame]
  BY <1>1 DEF DiskOK
<1> QED
  BY <1>1, <1>2, <1>3
  DEF DiskOK, GenerationsAreUnique, Bounded, Covered, Faithful, Frame, File

\* Renaming the primary file to the backup, over whatever is there.
LEMMA RetirePrimary ==
  ASSUME DiskOK, disk' = Rename(disk, "prim", "back"), kept' = kept,
         disk["tmp"].gen = kept.gen + 1
  PROVE  DiskOK'
<1>1. disk' \in [File -> Frame]
  BY NoFrameType DEF DiskOK, Rename, File
<1>2. /\ disk'["prim"] = NoFrame
      /\ disk'["back"] = disk["prim"]
      /\ disk'["tmp"] = disk["tmp"]
  BY DEF DiskOK, Rename, File
<1>3. NoFrame.gen = 0
  BY DEF NoFrame
<1> QED
  BY <1>1, <1>2, <1>3, NoFrameType
  DEF DiskOK, GenerationsAreUnique, Bounded, Covered, Faithful, Frame, File

\* Renaming the temporary file to the primary one: it becomes what is kept.
LEMMA PromoteTmp ==
  ASSUME DiskOK, disk' = Rename(disk, "tmp", "prim"), kept' = disk["tmp"],
         disk["tmp"].gen = kept.gen + 1
  PROVE  DiskOK'
<1>1. disk' \in [File -> Frame] /\ kept' \in Frame
  BY NoFrameType DEF DiskOK, Rename, File
<1>2. /\ disk'["tmp"] = NoFrame
      /\ disk'["prim"] = disk["tmp"]
      /\ disk'["back"] = disk["back"]
  BY DEF DiskOK, Rename, File
<1>3. NoFrame.gen = 0
  BY DEF NoFrame
<1> QED
  BY <1>1, <1>2, <1>3, NoFrameType
  DEF DiskOK, GenerationsAreUnique, Bounded, Covered, Faithful, Frame, File

-----------------------------------------------------------------------------
\* What a load picks becomes what is kept.
LEMMA KeepNewest ==
  ASSUME DiskOK, NEW f \in File, disk[f].gen > 0,
         \A e \in File : disk[e].gen <= disk[f].gen,
         disk' = disk, kept' = disk[f]
  PROVE  DiskOK'
<1>1. kept' \in Frame /\ disk[f] \in Frame
  BY DEF DiskOK
<1>2. kept'.gen > 0 => \E e \in File : disk'[e].gen >= kept'.gen
  BY <1>1 DEF Frame
<1>3. Bounded'
  BY <1>1 DEF Bounded, DiskOK, Frame
<1>4. Faithful'
  BY DEF Faithful, DiskOK, GenerationsAreUnique
<1> QED
  BY <1>1, <1>2, <1>3, <1>4 DEF DiskOK, GenerationsAreUnique, Covered

\* The invariant makes the disk obey.
LEMMA FromIInv == IInv => DiskOK
  BY DEF IInv, TypeOK, DiskOK

\* A load keeps the invariant.
LEMMA LoadIInv ==
  ASSUME IInv, Load
  PROVE  IInv'
<1>1. DiskOK /\ pay \in Payloads
  BY FromIInv DEF IInv, TypeOK
<1>2. pc' = "idle" /\ disk' = disk /\ pay' = pay /\ pc = "boot"
  BY DEF Load
<1>3. CASE \E f \in File : Picked(f) /\ gen' = LoadedGen(f) /\ kept' = disk[f]
  <2>1. PICK f \in File : Picked(f) /\ gen' = disk[f].gen /\ kept' = disk[f]
    BY <1>3 DEF LoadedGen
  <2>2. disk[f].gen > 0
    BY <2>1 DEF Picked, Loadable
  <2>3. \A e \in File : disk[e].gen \in Nat
    BY <1>1 DEF DiskOK, Frame
  <2>4. \A e \in File : disk[e].gen <= disk[f].gen
    BY <2>1, <2>3 DEF Picked, Loadable
  <2>5. DiskOK'
    BY <1>1, <1>2, <2>1, <2>2, <2>4, KeepNewest
  <2> QED
    BY <1>1, <1>2, <2>1, <2>3, <2>5 DEF IInv, TypeOK, DiskOK
<1>4. CASE (\A f \in File : ~Loadable(f)) /\ UNCHANGED <<gen, kept>>
  <2>1. \A f \in File : disk[f].gen = 0
    BY <1>1, <1>4 DEF DiskOK, Frame, Loadable
  <2>2. kept.gen \in Nat
    BY <1>1 DEF DiskOK, Frame
  <2>3. kept.gen = 0
    BY <1>1, <2>1, <2>2 DEF DiskOK, Covered
  <2>4. DiskOK'
    BY <1>1, <1>2, <1>4
    DEF DiskOK, GenerationsAreUnique, Bounded, Covered, Faithful
  <2> QED
    BY <1>1, <1>2, <1>4, <2>3, <2>4 DEF IInv, TypeOK, DiskOK
<1> QED
  BY <1>3, <1>4 DEF Load

-----------------------------------------------------------------------------
\* The steps that touch neither the disk nor what is kept keep the disk
\* obeying.
LEMMA Untouched ==
  ASSUME DiskOK, disk' = disk, kept' = kept
  PROVE  DiskOK'
  BY DEF DiskOK, GenerationsAreUnique, Bounded, Covered, Faithful

\* The temporary file of a save that is moving the files up is one ahead.
LEMMA TmpAhead ==
  ASSUME IInv, pc \in {"remove", "retire", "promote"}
  PROVE  disk["tmp"] = [gen |-> kept.gen + 1, data |-> pay] /\ kept.gen \in Nat
  BY DEF IInv, TypeOK, Frame

\* Taking away the primary or the backup file during a save.
LEMMA DropBehindTmp ==
  ASSUME IInv, pc \in {"remove", "retire", "promote"}, NEW x \in {"prim", "back"},
         disk' = [disk EXCEPT ![x] = NoFrame], kept' = kept
  PROVE  DiskOK' /\ disk'["tmp"] = disk["tmp"]
<1>1. disk["tmp"].gen >= kept.gen
  BY TmpAhead
<1>2. x \in File /\ "tmp" \in File \ {x}
  BY DEF File
<1>3. DiskOK /\ disk \in [File -> Frame]
  BY FromIInv DEF DiskOK
<1>4. DiskOK'
  BY <1>1, <1>2, <1>3, DropFile
<1> QED
  BY <1>2, <1>3, <1>4

\* The write, whether it is then found to be good or not.
LEMMA WriteAhead ==
  ASSUME IInv, pc = "write", kept' = kept,
         disk' = [disk EXCEPT !["tmp"] = [gen |-> NextGen, data |-> pay]]
  PROVE  DiskOK' /\ disk'["tmp"] = [gen |-> gen + 1, data |-> pay]
<1>1. DiskOK /\ pay \in Payloads /\ gen = kept.gen
  BY FromIInv DEF IInv, TypeOK
<1>2. DiskOK'
  BY <1>1, PutAhead DEF NextGen
<1>3. "tmp" \in File /\ disk \in [File -> Frame]
  BY <1>1 DEF File, DiskOK
<1> QED
  BY <1>2, <1>3 DEF NextGen

\* Every step preserves the invariant, where a write is never torn.
LEMMA NextIInv ==
  ASSUME Torn = FALSE, IInv, [Next]_vars
  PROVE  IInv'
<1> DEFINE Moving == {"remove", "retire", "promote"}
<1>1. DiskOK /\ TypeOK /\ gen = IF pc = "boot" THEN 0 ELSE kept.gen
  BY FromIInv DEF IInv
<1>2. Cut = disk
  BY DEF Cut
<1>3. ASSUME DiskOK', pay' \in Payloads, gen' \in Nat,
             pc' \in {"boot", "idle", "write"} \cup Moving,
             gen' = IF pc' = "boot" THEN 0 ELSE kept'.gen,
             pc' \in Moving => disk'["tmp"] = [gen |-> gen' + 1, data |-> pay']
      PROVE  IInv'
  BY <1>3 DEF IInv, TypeOK, DiskOK
<1>4. CASE Load
  BY <1>4, LoadIInv
<1>5. ASSUME NEW p \in Payloads, Save(p)
      PROVE  IInv'
  <2>1. DiskOK'
    BY <1>1, <1>5, Untouched DEF Save
  <2> QED
    BY <1>1, <1>3, <1>5, <2>1 DEF Save, TypeOK
<1>6. CASE Write
  <2>1. DiskOK' /\ disk'["tmp"] = [gen |-> gen + 1, data |-> pay]
    BY <1>6, WriteAhead DEF Write
  <2> QED
    BY <1>1, <1>3, <1>6, <2>1 DEF Write, TypeOK
<1>7. CASE WriteFails
  <2>1. DiskOK'
    BY <1>1, <1>2, <1>7, WriteAhead, Untouched DEF WriteFails
  <2> QED
    BY <1>1, <1>3, <1>7, <2>1 DEF WriteFails, TypeOK
<1>8. CASE RemoveBack
  <2>1. DiskOK' /\ disk'["tmp"] = disk["tmp"]
    BY <1>1, <1>8, DropBehindTmp, Untouched DEF RemoveBack
  <2> QED
    BY <1>1, <1>3, <1>8, <2>1 DEF RemoveBack, TypeOK
<1>9. CASE ClearTarget
  <2>1. DiskOK' /\ disk'["tmp"] = disk["tmp"]
    BY <1>9, DropBehindTmp DEF ClearTarget
  <2> QED
    BY <1>1, <1>3, <1>9, <2>1 DEF ClearTarget, TypeOK
<1>10. CASE Retire
  <2>1. pc = "retire" /\ disk["tmp"].gen = kept.gen + 1
    BY <1>10, TmpAhead DEF Retire
  <2>2. CASE disk' = disk
    <3>1. DiskOK'
      BY <1>1, <1>10, <2>2, Untouched DEF Retire
    <3> QED
      BY <1>1, <1>3, <1>10, <2>2, <3>1 DEF Retire, TypeOK
  <2>3. CASE disk' = Rename(disk, "prim", "back")
    <3>1. DiskOK'
      BY <1>1, <1>10, <2>1, <2>3, RetirePrimary DEF Retire
    <3>2. disk'["tmp"] = disk["tmp"]
      BY <1>1, <2>3 DEF DiskOK, Rename, File
    <3> QED
      BY <1>1, <1>3, <1>10, <3>1, <3>2 DEF Retire, TypeOK
  <2> QED
    BY <1>10, <2>2, <2>3 DEF Retire
<1>11. CASE Promote
  <2>1. disk["tmp"].gen = kept.gen + 1 /\ kept.gen \in Nat
    BY <1>11, TmpAhead DEF Promote
  <2>2. DiskOK'
    BY <1>1, <1>11, <2>1, PromoteTmp DEF Promote
  <2>3. gen' = kept'.gen /\ gen' \in Nat
    BY <1>1, <1>11, <2>1 DEF Promote, NextGen
  <2> QED
    BY <1>1, <1>3, <1>11, <2>2, <2>3 DEF Promote, TypeOK
<1>12. CASE PromoteFails
  <2>1. DiskOK'
    BY <1>1, <1>12, Untouched DEF PromoteFails
  <2> QED
    BY <1>1, <1>3, <1>12, <2>1 DEF PromoteFails, TypeOK
<1>13. CASE Crash
  <2>1. DiskOK'
    BY <1>1, <1>2, <1>13, Untouched DEF Crash
  <2> QED
    BY <1>1, <1>3, <1>13, <2>1 DEF Crash, TypeOK
<1>14. CASE UNCHANGED vars
  <2>1. DiskOK'
    BY <1>1, <1>14, Untouched DEF vars
  <2> QED
    BY <1>1, <1>3, <1>14, <2>1 DEF vars, TypeOK
<1> QED
  BY <1>4, <1>5, <1>6, <1>7, <1>8, <1>9, <1>10, <1>11, <1>12, <1>13, <1>14 DEF Next

-----------------------------------------------------------------------------
\* Where a write is never torn, every reachable state satisfies the invariant.
THEOREM Inductive ==
  ASSUME Torn = FALSE
  PROVE  Spec => []IInv
<1>1. Init => IInv
  BY InitIInv
<1>2. IInv /\ [Next]_vars => IInv'
  BY NextIInv
<1> QED
  BY <1>1, <1>2, PTL DEF Spec

\* A newest frame on disk covers what is kept, and load picks one.
LEMMA NewestIsPicked == IInv => NothingKeptIsLost
<1> SUFFICES ASSUME IInv, kept.gen > 0
             PROVE  \E f \in File : /\ Picked(f)
                                    /\ disk[f].gen >= kept.gen
                                    /\ disk[f].gen = kept.gen => disk[f].data = kept.data
  BY DEF NothingKeptIsLost
<1>1. /\ disk["prim"].gen \in Nat /\ disk["back"].gen \in Nat
      /\ disk["tmp"].gen \in Nat /\ kept.gen \in Nat
  BY DEF IInv, TypeOK, Frame, File
<1>2. PICK c \in File : disk[c].gen >= kept.gen
  BY DEF IInv, Covered
<1>3. \E f \in File : /\ \A e \in File : disk[e].gen <= disk[f].gen
                      /\ \A e \in File \ {f} : \/ disk[e].gen < disk[f].gen
                                               \/ Rank[f] < Rank[e]
  BY <1>1 DEF File, Rank
<1>4. PICK f \in File : /\ \A e \in File : disk[e].gen <= disk[f].gen
                        /\ \A e \in File \ {f} : \/ disk[e].gen < disk[f].gen
                                                 \/ Rank[f] < Rank[e]
  BY <1>3
<1>5. disk[f].gen \in Nat /\ \A e \in File : disk[e].gen \in Nat
  BY DEF IInv, TypeOK, Frame
<1>6. disk[f].gen >= kept.gen
  BY <1>1, <1>2, <1>4, <1>5
<1>7. Picked(f)
  BY <1>1, <1>4, <1>5, <1>6 DEF Picked, Loadable
<1>8. disk[f].gen = kept.gen => disk[f].data = kept.data
  BY DEF IInv, Faithful
<1> QED
  BY <1>6, <1>7, <1>8

\* Type correctness of the store (cc_store.cpp, 62-102): while a save moves
\* the files up, the temporary file is the verified one.
THEOREM StoreTypeCorrect ==
  ASSUME Torn = FALSE
  PROVE  Spec => []TypeOK
<1>1. IInv => TypeOK
  BY DEF IInv
<1> QED
  BY Inductive, <1>1, PTL

\* What has been saved or loaded once is never lost (cc_store.h, 7), across
\* any number of boots, power cuts, failed writes and failed renames.
THEOREM NothingLost ==
  ASSUME Torn = FALSE
  PROVE  Spec => []NothingKeptIsLost
  BY Inductive, NewestIsPicked, PTL

\* Two copies of one generation are the same (cc_store.h, 6).
THEOREM StoreUnique ==
  ASSUME Torn = FALSE
  PROVE  Spec => []GenerationsAreUnique
<1>1. IInv => GenerationsAreUnique
  BY DEF IInv
<1> QED
  BY Inductive, <1>1, PTL

=============================================================================
