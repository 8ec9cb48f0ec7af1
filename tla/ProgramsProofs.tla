--------------------------- MODULE ProgramsProofs ---------------------------
(***************************************************************************)
(* Proofs about the programs in Console, for every value of its constants: *)
(* the list the page shows has what was confirmed to it, a save is about   *)
(* the program that was clicked, and the week drawn and the next change    *)
(* told are those of the device.                                           *)
(***************************************************************************)
EXTENDS ConsoleProofs, WellFoundedInduction

-----------------------------------------------------------------------------
(* The programs: sequences.                                                *)

LEMMA RemoveFacts ==
  ASSUME NEW T, NEW q \in Seq(T), NEW k \in DOMAIN q
  PROVE  /\ P!RemoveAt(q, k) \in Seq(T) /\ Len(P!RemoveAt(q, k)) = Len(q) - 1
         /\ \A i \in 1 .. Len(q) - 1 : P!RemoveAt(q, k)[i] = IF i < k THEN q[i] ELSE q[i + 1]
<1> DEFINE a == SubSeq(q, 1, k - 1)
           b == SubSeq(q, k + 1, Len(q))
<1>1. /\ Len(q) \in Nat /\ DOMAIN q = 1 .. Len(q) /\ k \in 1 .. Len(q)
      /\ \A i \in 1 .. Len(q) : q[i] \in T
  BY LenProperties, ElementOfSeq
<1>2. a \in Seq(T) /\ Len(a) = k - 1 /\ \A i \in 1 .. k - 1 : a[i] = q[i]
  <2>1. \A i \in 1 .. k - 1 : q[i] \in T
    BY <1>1
  <2>2. /\ a \in Seq(T) /\ Len(a) = (IF 1 <= k - 1 THEN k - 1 - 1 + 1 ELSE 0)
        /\ \A i \in 1 .. (k - 1) - 1 + 1 : a[i] = q[1 + i - 1]
    BY <1>1, <2>1, SubSeqProperties
  <2> HIDE DEF a
  <2> QED
    BY <1>1, <2>2
<1>3. b \in Seq(T) /\ Len(b) = Len(q) - k /\ \A i \in 1 .. Len(q) - k : b[i] = q[k + i]
  <2>1. \A i \in k + 1 .. Len(q) : q[i] \in T
    BY <1>1
  <2>2. /\ b \in Seq(T) /\ Len(b) = (IF k + 1 <= Len(q) THEN Len(q) - (k + 1) + 1 ELSE 0)
        /\ \A i \in 1 .. Len(q) - (k + 1) + 1 : b[i] = q[(k + 1) + i - 1]
    BY <1>1, <2>1, SubSeqProperties
  <2> HIDE DEF b
  <2>3. Len(b) = Len(q) - k
    BY <1>1, <2>2
  <2>4. ASSUME NEW i \in 1 .. Len(q) - k PROVE b[i] = q[k + i]
    <3>1. i \in 1 .. Len(q) - (k + 1) + 1 /\ (k + 1) + i - 1 = k + i
      BY <1>1
    <3> QED
      BY <2>2, <3>1
  <2> QED
    BY <2>2, <2>3, <2>4
<1> HIDE DEF a, b
<1>4. /\ a \o b \in Seq(T) /\ Len(a \o b) = Len(a) + Len(b)
      /\ \A i \in 1 .. Len(a) + Len(b) : (a \o b)[i] = IF i <= Len(a) THEN a[i] ELSE b[i - Len(a)]
  BY <1>2, <1>3, ConcatProperties
<1>5. P!RemoveAt(q, k) = a \o b
  BY DEF P!RemoveAt, a, b
<1>6. Len(a) + Len(b) = Len(q) - 1
  BY <1>1, <1>2, <1>3
<1>7. ASSUME NEW i \in 1 .. Len(q) - 1
      PROVE  (a \o b)[i] = IF i < k THEN q[i] ELSE q[i + 1]
  <2>1. (a \o b)[i] = IF i <= Len(a) THEN a[i] ELSE b[i - Len(a)]
    BY <1>4, <1>6
  <2>2. CASE i < k
    <3>1. i \in 1 .. k - 1 /\ i <= Len(a)
      BY <1>1, <1>2, <2>2
    <3> QED
      BY <1>2, <2>1, <2>2, <3>1
  <2>3. CASE ~(i < k)
    <3>1. /\ i - Len(a) \in 1 .. Len(q) - k /\ ~(i <= Len(a))
          /\ k + (i - Len(a)) = i + 1
      BY <1>1, <1>2, <2>3
    <3> QED
      BY <1>3, <2>1, <2>3, <3>1
  <2> QED
    BY <2>2, <2>3
<1> QED
  BY <1>4, <1>5, <1>6, <1>7

(* What is left after one is removed, and what is there after one is added.*)
LEMMA RemoveLeaves ==
  ASSUME NEW T, NEW q \in Seq(T), NEW k \in DOMAIN q
  PROVE  /\ \A i \in DOMAIN P!RemoveAt(q, k) : \E j \in DOMAIN q \ {k} : P!RemoveAt(q, k)[i] = q[j]
         /\ \A j \in DOMAIN q \ {k} : \E i \in DOMAIN P!RemoveAt(q, k) : P!RemoveAt(q, k)[i] = q[j]
<1> DEFINE r == P!RemoveAt(q, k)
<1>1. /\ r \in Seq(T) /\ Len(r) = Len(q) - 1
      /\ \A i \in 1 .. Len(q) - 1 : r[i] = IF i < k THEN q[i] ELSE q[i + 1]
  BY RemoveFacts
<1> HIDE DEF r
<1>2. /\ Len(q) \in Nat /\ DOMAIN q = 1 .. Len(q) /\ k \in 1 .. Len(q)
      /\ DOMAIN r = 1 .. Len(q) - 1
  BY <1>1, LenProperties
<1>3. ASSUME NEW i \in DOMAIN r PROVE \E j \in DOMAIN q \ {k} : r[i] = q[j]
  <2>1. CASE i < k
    BY <1>1, <1>2, <2>1
  <2>2. CASE ~(i < k)
    <3>1. i + 1 \in DOMAIN q \ {k} /\ r[i] = q[i + 1]
      BY <1>1, <1>2, <2>2
    <3> QED
      BY <3>1
  <2> QED
    BY <2>1, <2>2
<1>4. ASSUME NEW j \in DOMAIN q \ {k} PROVE \E i \in DOMAIN r : r[i] = q[j]
  <2>1. CASE j < k
    BY <1>1, <1>2, <2>1
  <2>2. CASE ~(j < k)
    <3>1. j - 1 \in DOMAIN r /\ r[j - 1] = q[j]
      BY <1>1, <1>2, <2>2
    <3> QED
      BY <3>1
  <2> QED
    BY <2>1, <2>2
<1> QED
  BY <1>3, <1>4 DEF r

LEMMA AppendAdds ==
  ASSUME NEW T, NEW q \in Seq(T), NEW x \in T
  PROVE  /\ Append(q, x) \in Seq(T) /\ DOMAIN q \subseteq DOMAIN Append(q, x)
         /\ Len(Append(q, x)) = Len(q) + 1 /\ P!Last(Append(q, x)) = x
         /\ \A i \in DOMAIN q : Append(q, x)[i] = q[i]
         /\ \A i \in DOMAIN Append(q, x) : i \in DOMAIN q \/ Append(q, x)[i] = x
<1>1. Len(q) \in Nat /\ DOMAIN q = 1 .. Len(q)
  BY LenProperties
<1>2. /\ Append(q, x) \in Seq(T) /\ Len(Append(q, x)) = Len(q) + 1
      /\ \A i \in 1 .. Len(q) : Append(q, x)[i] = q[i]
      /\ Append(q, x)[Len(q) + 1] = x
  BY AppendProperties
<1>3. DOMAIN Append(q, x) = 1 .. Len(q) + 1
  BY <1>2, LenProperties
<1>4. P!Last(Append(q, x)) = x
  BY <1>2 DEF P!Last
<1>5. ASSUME NEW i \in DOMAIN Append(q, x) PROVE i \in DOMAIN q \/ Append(q, x)[i] = x
  BY <1>1, <1>2, <1>3
<1> QED
  BY <1>1, <1>2, <1>3, <1>4, <1>5

(* The list of programs to start with is a sequence.                       *)
LEMMA FirstList == P!SetToSeq({P!NewProgram(n) : n \in Names}) \in Seq(P!Program)
<1> DEFINE T == {P!NewProgram(n) : n \in Names}
           f == [n \in Names |-> P!NewProgram(n)]
<1>1. T \subseteq P!Program
  <2> SUFFICES ASSUME NEW n \in Names PROVE P!NewProgram(n) \in P!Program
    OBVIOUS
  <2> QED
    BY DEF P!NewProgram, P!Program
<1>2. f \in Surjection(Names, T)
  BY DEF Surjection
<1>3. IsFiniteSet(T)
  BY <1>2, FS_Surjection, ConsoleAssumption
<1> HIDE DEF T
<1>4. Cardinality(T) \in Nat /\ ExistsBijection(1 .. Cardinality(T), T)
  BY <1>3, FS_CardinalityType
<1>5. \E s \in [1 .. Cardinality(T) -> T] : P!IsInjective(s)
  BY <1>4 DEF ExistsBijection, Bijection, Injection, IsInjective, P!IsInjective
<1>8. P!Cardinality(T) = Cardinality(T)
  BY DEF P!Cardinality, Cardinality
<1>6. P!SetToSeq(T) \in [1 .. Cardinality(T) -> T]
  BY <1>5, <1>8 DEF P!SetToSeq
<1>7. P!SetToSeq(T) \in [1 .. Cardinality(T) -> P!Program]
  BY <1>1, <1>6
<1> QED
  BY <1>4, <1>7, SeqDef DEF T

-----------------------------------------------------------------------------
(* The programs: the invariant.                                            *)

ListRequests ==
  [kind : {"load"}, st : {"sent"}, closes : BOOLEAN]
    \cup [kind : {"load"}, st : {"done"}, list : Seq(P!Program), vers : Nat, closes : BOOLEAN]
    \cup [kind : {"save"}, st : {"sent"}, list : Seq(P!Program), closes : BOOLEAN]
    \cup [kind : {"save"}, st : {"done"}, vers : Nat, closes : BOOLEAN]

UnderWay == {p_reqs[k] : k \in DOMAIN p_reqs}
Loads == {r \in UnderWay : r.kind = "load"}

ListTypes ==
  /\ plist \in Seq(P!Program) /\ st.list \in Seq(P!Program) /\ p_reqs \in Seq(ListRequests)
  /\ {vers, st.vers, acked} \subseteq Nat

\* Nothing has seen more changes than there have been.
ListSeen ==
  /\ acked <= vers /\ st.vers <= vers
  /\ \A r \in UnderWay : r.st = "done" => r.vers <= vers

\* What was read after the last change is the list.
CopiesTrue ==
  /\ st.vers = vers => st.list = plist
  /\ \A r \in Loads : r.st = "done" /\ r.vers = vers => r.list = plist

\* What was confirmed is shown, or a load that will show it is under way.
AckComing ==
  doubt \/ st.vers >= acked \/ \E r \in Loads : r.st = "done" => r.vers >= acked

Named == p_ask.place \in DOMAIN st.list /\ st.list[p_ask.place].name = p_ask.name

\* The question, and the editor of a program, point at what they name; what is
\* under way brings the same list, or closes the editor.
QuestionHolds ==
  p_ask # None /\ p_ask.what = "delete" /\ p_ask.alone /\ ~foreign =>
    /\ st.vers = vers /\ Named
    /\ \A r \in UnderWay : r.kind = "load" /\ (r.st = "done" => r.vers = vers)

EditorHolds ==
  p_ask # None /\ p_ask.what = "edit" /\ p_ask.alone =>
    /\ p_ask.name # None => Named
    /\ \A r \in UnderWay : r.closes = TRUE

ProgInv ==
  ListTypes /\ ListSeen /\ CopiesTrue /\ AckComing /\ QuestionHolds /\ EditorHolds

LEMMA Grows ==
  ASSUME p_reqs \in Seq(ListRequests), NEW x \in ListRequests, p_reqs' = Append(p_reqs, x)
  PROVE  /\ p_reqs' \in Seq(ListRequests) /\ UnderWay' = UnderWay \cup {x}
         /\ P!Last(p_reqs') = x /\ Len(p_reqs') = Len(p_reqs) + 1
<1>1. /\ p_reqs' \in Seq(ListRequests) /\ DOMAIN p_reqs \subseteq DOMAIN p_reqs'
      /\ Len(p_reqs') = Len(p_reqs) + 1 /\ P!Last(p_reqs') = x
      /\ \A i \in DOMAIN p_reqs : p_reqs'[i] = p_reqs[i]
      /\ \A i \in DOMAIN p_reqs' : i \in DOMAIN p_reqs \/ p_reqs'[i] = x
  BY AppendAdds
<1>2. p_reqs'[Len(p_reqs')] = x /\ Len(p_reqs') \in DOMAIN p_reqs'
  <2>1. Len(p_reqs) \in Nat /\ DOMAIN p_reqs' = 1 .. Len(p_reqs')
    BY <1>1, LenProperties
  <2> QED
    BY <1>1, <2>1 DEF P!Last
<1>3. ASSUME NEW r \in UnderWay' PROVE r \in UnderWay \cup {x}
  BY <1>1 DEF UnderWay
<1>4. ASSUME NEW r \in UnderWay \cup {x} PROVE r \in UnderWay'
  BY <1>1, <1>2 DEF UnderWay
<1> QED
  BY <1>1, <1>3, <1>4

LEMMA Shrinks ==
  ASSUME p_reqs \in Seq(ListRequests), NEW k \in DOMAIN p_reqs, p_reqs' = P!RemoveAt(p_reqs, k)
  PROVE  /\ p_reqs' \in Seq(ListRequests) /\ p_reqs[k] \in UnderWay
         /\ UnderWay' \subseteq UnderWay /\ UnderWay \ {p_reqs[k]} \subseteq UnderWay'
         /\ Len(p_reqs') = Len(p_reqs) - 1
<1>1. p_reqs' \in Seq(ListRequests) /\ Len(p_reqs') = Len(p_reqs) - 1
  BY RemoveFacts
<1>2. /\ \A i \in DOMAIN p_reqs' : \E j \in DOMAIN p_reqs \ {k} : p_reqs'[i] = p_reqs[j]
      /\ \A j \in DOMAIN p_reqs \ {k} : \E i \in DOMAIN p_reqs' : p_reqs'[i] = p_reqs[j]
  BY RemoveLeaves
<1>3. ASSUME NEW r \in UnderWay' PROVE r \in UnderWay
  BY <1>2 DEF UnderWay
<1>4. ASSUME NEW r \in UnderWay \ {p_reqs[k]} PROVE r \in UnderWay'
  BY <1>2 DEF UnderWay
<1> QED
  BY <1>1, <1>3, <1>4 DEF UnderWay

LEMMA Changes ==
  ASSUME p_reqs \in Seq(ListRequests), NEW k \in DOMAIN p_reqs, NEW x \in ListRequests,
         p_reqs' = [p_reqs EXCEPT ![k] = x]
  PROVE  /\ p_reqs' \in Seq(ListRequests) /\ p_reqs[k] \in UnderWay /\ x \in UnderWay'
         /\ UnderWay' \subseteq UnderWay \cup {x} /\ UnderWay \ {p_reqs[k]} \subseteq UnderWay'
         /\ Len(p_reqs') = Len(p_reqs)
<1>1. DOMAIN p_reqs = 1 .. Len(p_reqs)
  BY LenProperties
<1>2. /\ p_reqs' \in Seq(ListRequests) /\ Len(p_reqs') = Len(p_reqs)
      /\ \A j \in 1 .. Len(p_reqs) : p_reqs'[j] = IF j = k THEN x ELSE p_reqs[j]
  BY <1>1, ExceptSeq
<1>3. DOMAIN p_reqs' = DOMAIN p_reqs
  BY <1>1, <1>2, LenProperties
<1> QED
  BY <1>1, <1>2, <1>3 DEF UnderWay

(* The lists that are saved.                                               *)
LEMMA SavedLists ==
  ASSUME NEW q \in Seq(P!Program)
  PROVE  /\ \A k \in DOMAIN q : /\ [q EXCEPT ![k].enabled = ~@] \in Seq(P!Program)
                                /\ P!RemoveAt(q, k) \in Seq(P!Program)
         /\ \A p \in P!Program : /\ Append(q, p) \in Seq(P!Program)
                                 /\ <<p>> \o q \in Seq(P!Program)
         /\ \A k \in DOMAIN q, p \in P!Program :
              /\ P!ReplaceAt(q, k, p) \in Seq(P!Program)
              /\ q[k].name = p.name => P!NamesOf(P!ReplaceAt(q, k, p)) = P!NamesOf(q)
         /\ q # <<>> => Tail(q) \in Seq(P!Program)
<1>1. DOMAIN q = 1 .. Len(q)
  BY LenProperties
<1>2. ASSUME NEW k \in DOMAIN q
      PROVE  [q EXCEPT ![k].enabled = ~@] \in Seq(P!Program) /\ P!RemoveAt(q, k) \in Seq(P!Program)
  <2>1. q[k] \in P!Program
    BY <1>1, ElementOfSeq
  <2>2. [q[k] EXCEPT !.enabled = ~@] \in P!Program
    BY <2>1 DEF P!Program
  <2>3. [q EXCEPT ![k] = [q[k] EXCEPT !.enabled = ~@]] \in Seq(P!Program)
    BY <1>1, <2>2, ExceptSeq
  <2> QED
    BY <2>3, RemoveFacts
<1>3. ASSUME NEW k \in DOMAIN q, NEW p \in P!Program
      PROVE  /\ P!ReplaceAt(q, k, p) \in Seq(P!Program)
             /\ q[k].name = p.name => P!NamesOf(P!ReplaceAt(q, k, p)) = P!NamesOf(q)
  <2> DEFINE s == P!ReplaceAt(q, k, p)
  <2>1. /\ s \in Seq(P!Program) /\ Len(s) = Len(q)
        /\ \A j \in 1 .. Len(q) : s[j] = IF j = k THEN p ELSE q[j]
    BY <1>1, ExceptSeq DEF P!ReplaceAt
  <2>2. DOMAIN s = DOMAIN q
    BY <1>1, <2>1, LenProperties
  <2> HIDE DEF s
  <2>3. q[k].name = p.name => \A j \in DOMAIN q : s[j].name = q[j].name
    BY <1>1, <2>1
  <2>4. q[k].name = p.name => P!NamesOf(s) = P!NamesOf(q)
    BY <2>2, <2>3 DEF P!NamesOf
  <2> QED
    BY <2>1, <2>4 DEF s
<1>4. ASSUME NEW p \in P!Program
      PROVE  Append(q, p) \in Seq(P!Program) /\ <<p>> \o q \in Seq(P!Program)
  <2>1. <<p>> \in Seq(P!Program)
    OBVIOUS
  <2> QED
    BY <2>1, AppendProperties, ConcatProperties
<1>5. q # <<>> => Tail(q) \in Seq(P!Program)
  BY HeadTailProperties
<1> QED
  BY <1>2, <1>3, <1>4, <1>5

LEMMA Sent ==
  ASSUME NEW l \in Seq(P!Program), NEW c \in BOOLEAN
  PROVE  /\ P!Save(l, c) \in ListRequests /\ P!Save(l, c).kind = "save" /\ P!Save(l, c).st = "sent"
         /\ P!Save(l, c).list = l /\ P!Save(l, c).closes = c
         /\ P!Load(c) \in ListRequests /\ P!Load(c).kind = "load" /\ P!Load(c).st = "sent"
         /\ P!Load(c).closes = c
<1>1. /\ P!Save(l, c).kind = "save" /\ P!Save(l, c).st = "sent" /\ P!Save(l, c).list = l
      /\ P!Save(l, c).closes = c
      /\ P!Load(c).kind = "load" /\ P!Load(c).st = "sent" /\ P!Load(c).closes = c
  BY DEF P!Save, P!Load
<1>2. P!Save(l, c) \in ListRequests
  BY DEF P!Save, ListRequests
<1>3. P!Load(c) \in ListRequests
  BY DEF P!Load, ListRequests
<1> QED
  BY <1>1, <1>2, <1>3

(* A save goes out: from a row, the question or the editor.                *)
LEMMA SaveGoes ==
  ASSUME ProgInv, NEW l \in Seq(P!Program), NEW c \in BOOLEAN, P!Change(l, c),
         UNCHANGED <<plist, vers, st, acked, doubt, foreign>>,
         p_ask' = None \/ (p_ask' = p_ask /\ p_ask.what = "edit" /\ c = TRUE)
  PROVE  ProgInv' /\ P!Last(p_reqs').list = l
<1> DEFINE x == P!Save(l, c)
<1>1. x \in ListRequests /\ x.kind = "save" /\ x.st = "sent" /\ x.list = l /\ x.closes = c
  BY Sent
<1>2. p_reqs' = Append(p_reqs, x)
  BY DEF P!Change, P!Request
<1> HIDE DEF x
<1>3. p_reqs' \in Seq(ListRequests) /\ UnderWay' = UnderWay \cup {x} /\ P!Last(p_reqs') = x
  BY <1>1, <1>2, Grows DEF ProgInv, ListTypes
<1>4. ListTypes'
  BY <1>3 DEF ProgInv, ListTypes
<1>5. ListSeen'
  BY <1>1, <1>3 DEF ProgInv, ListSeen
<1>6. CopiesTrue'
  BY <1>1, <1>3 DEF ProgInv, CopiesTrue, Loads
<1>7. AckComing'
  BY <1>3 DEF ProgInv, AckComing, Loads
<1>8. QuestionHolds'
  BY DEF QuestionHolds
<1>9. EditorHolds'
  BY <1>1, <1>3 DEF ProgInv, EditorHolds, Named
<1> QED
  BY <1>1, <1>3, <1>4, <1>5, <1>6, <1>7, <1>8, <1>9 DEF ProgInv

(* A dialog is opened or closed.                                           *)
LEMMA OnlyAsked ==
  ASSUME ProgInv, UNCHANGED <<plist, vers, st, p_reqs, acked, doubt>>
  PROVE  ListTypes' /\ ListSeen' /\ CopiesTrue' /\ AckComing' /\ UnderWay' = UnderWay
<1>1. UnderWay' = UnderWay /\ Loads' = Loads
  BY DEF UnderWay, Loads
<1> QED
  BY <1>1 DEF ProgInv, ListTypes, ListSeen, CopiesTrue, AckComing

LEMMA OpenKeeps ==
  ASSUME ProgInv, NEW what, NEW i, NEW name, name # None => i \in DOMAIN st.list /\ name = st.list[i].name,
         what = "delete" => name # None,
         p_ask' = [what |-> what, place |-> i, name |-> name, alone |-> P!Alone],
         foreign' = (st.vers # vers), UNCHANGED <<plist, vers, st, p_reqs, acked, doubt>>
  PROVE  ProgInv'
<1>1. ListTypes' /\ ListSeen' /\ CopiesTrue' /\ AckComing' /\ UnderWay' = UnderWay
  BY OnlyAsked
<1>2. p_ask'.what = what /\ p_ask'.place = i /\ p_ask'.name = name
  OBVIOUS
<1>3. p_ask'.alone => UnderWay' = {}
  <2>1. P!Alone => UnderWay = {}
    BY DEF P!Alone, UnderWay
  <2> QED
    BY <1>1, <2>1
<1>4. what = "delete" /\ ~foreign' => st.vers = vers
  OBVIOUS
<1>5. QuestionHolds'
  BY <1>2, <1>3, <1>4 DEF QuestionHolds, Named
<1>6. EditorHolds'
  BY <1>2, <1>3 DEF EditorHolds, Named
<1> QED
  BY <1>1, <1>5, <1>6 DEF ProgInv

LEMMA ReloadKeeps == ASSUME ProgInv, P!Reload PROVE ProgInv'
<1> DEFINE x == P!Load(FALSE)
<1>1. x \in ListRequests /\ x.kind = "load" /\ x.st = "sent"
  BY Sent, EmptySeq
<1>2. /\ p_reqs' = Append(p_reqs, x) /\ ~P!Editing
      /\ UNCHANGED <<plist, vers, st, p_ask, acked, doubt, foreign>>
  BY DEF P!Reload, P!Request, P!deviceVars, P!history
<1> HIDE DEF x
<1>3. p_reqs' \in Seq(ListRequests) /\ UnderWay' = UnderWay \cup {x}
  BY <1>1, <1>2, Grows DEF ProgInv, ListTypes
<1>4. ListTypes'
  BY <1>2, <1>3 DEF ProgInv, ListTypes
<1>5. ListSeen'
  BY <1>1, <1>2, <1>3 DEF ProgInv, ListSeen
<1>6. CopiesTrue'
  BY <1>1, <1>2, <1>3 DEF ProgInv, CopiesTrue, Loads
<1>7. AckComing'
  BY <1>2, <1>3 DEF ProgInv, AckComing, Loads
<1>8. QuestionHolds'
  BY <1>1, <1>2, <1>3 DEF ProgInv, QuestionHolds, Named
<1>9. EditorHolds'
  BY <1>2 DEF EditorHolds, P!Editing
<1> QED
  BY <1>4, <1>5, <1>6, <1>7, <1>8, <1>9 DEF ProgInv

(* What each kind of request carries.                                      *)
LEMMA RequestFields ==
  ASSUME NEW r \in ListRequests
  PROVE  /\ r.closes \in BOOLEAN /\ r.kind \in {"load", "save"} /\ r.st \in {"sent", "done"}
         /\ r.st = "done" => r.vers \in Nat
         /\ r.kind = "load" /\ r.st = "done" => r.list \in Seq(P!Program)
         /\ r.kind = "save" /\ r.st = "sent" => r.list \in Seq(P!Program)
BY DEF ListRequests

(* The device reads the list out.                                          *)
LEMMA ReadKeeps ==
  ASSUME ProgInv, NEW k \in DOMAIN p_reqs, P!handlePrograms(k)
  PROVE  ProgInv' /\ Len(p_reqs') = Len(p_reqs)
<1> DEFINE x == [kind |-> "load", st |-> "done", list |-> plist, vers |-> vers,
                 closes |-> p_reqs[k].closes]
           r == p_reqs[k]
<1>1. /\ p_reqs' = [p_reqs EXCEPT ![k] = x] /\ r.kind = "load" /\ r.st = "sent"
      /\ UNCHANGED <<plist, vers, st, p_ask, acked, doubt, foreign>>
  BY DEF P!handlePrograms, P!deviceVars, P!history
<1>2. r \in ListRequests
  BY LenProperties, ElementOfSeq DEF ProgInv, ListTypes
<1>3. /\ x \in ListRequests /\ x.kind = "load" /\ x.st = "done" /\ x.list = plist /\ x.vers = vers
      /\ x.closes = r.closes
  BY <1>2, RequestFields DEF ListRequests, ProgInv, ListTypes
<1> HIDE DEF x, r
<1>4. /\ p_reqs' \in Seq(ListRequests) /\ r \in UnderWay /\ x \in UnderWay'
      /\ UnderWay' \subseteq UnderWay \cup {x} /\ UnderWay \ {r} \subseteq UnderWay'
      /\ Len(p_reqs') = Len(p_reqs)
  BY <1>1, <1>3, Changes DEF ProgInv, ListTypes, r
<1>5. ListTypes'
  BY <1>1, <1>4 DEF ProgInv, ListTypes
<1>6. vers \in Nat /\ acked <= vers
  BY DEF ProgInv, ListTypes, ListSeen
<1>7. ListSeen'
  BY <1>1, <1>3, <1>4, <1>6 DEF ProgInv, ListSeen
<1>8. CopiesTrue'
  BY <1>1, <1>3, <1>4 DEF ProgInv, CopiesTrue, Loads
<1>9. AckComing'
  BY <1>1, <1>3, <1>4, <1>6 DEF ProgInv, AckComing, Loads
<1>10. QuestionHolds'
  BY <1>1, <1>3, <1>4 DEF ProgInv, QuestionHolds, Named
<1>11. EditorHolds'
  BY <1>1, <1>3, <1>4 DEF ProgInv, EditorHolds, Named
<1> QED
  BY <1>4, <1>5, <1>7, <1>8, <1>9, <1>10, <1>11 DEF ProgInv

(* The device takes the list of a save.                                    *)
LEMMA WriteKeeps ==
  ASSUME ProgInv, NEW k \in DOMAIN p_reqs, P!handleProgramsPost(k)
  PROVE  ProgInv' /\ Len(p_reqs') = Len(p_reqs)
<1> DEFINE x == [kind |-> "save", st |-> "done", vers |-> vers', closes |-> p_reqs[k].closes]
           r == p_reqs[k]
<1>1. /\ p_reqs' = [p_reqs EXCEPT ![k] = x] /\ r.kind = "save" /\ r.st = "sent"
      /\ plist' = r.list /\ vers' = vers + 1
      /\ UNCHANGED <<st, p_ask, acked, doubt, foreign>>
  BY DEF P!handleProgramsPost, P!Saves, P!history
<1>2. r \in ListRequests
  BY LenProperties, ElementOfSeq DEF ProgInv, ListTypes
<1>3. vers \in Nat /\ st.vers \in Nat /\ acked \in Nat /\ acked <= vers /\ st.vers <= vers
  BY DEF ProgInv, ListTypes, ListSeen
<1>4. x \in ListRequests /\ x.kind = "save" /\ x.st = "done" /\ x.vers = vers' /\ x.closes = r.closes
  BY <1>1, <1>2, <1>3, RequestFields DEF ListRequests
<1> HIDE DEF x, r
<1>5. /\ p_reqs' \in Seq(ListRequests) /\ r \in UnderWay /\ x \in UnderWay'
      /\ UnderWay' \subseteq UnderWay \cup {x} /\ UnderWay \ {r} \subseteq UnderWay'
      /\ Len(p_reqs') = Len(p_reqs)
  BY <1>1, <1>4, Changes DEF ProgInv, ListTypes, r
<1>6. \A y \in UnderWay : y.st = "done" => y.vers \in Nat /\ y.vers <= vers
  BY ElementOfSeq, LenProperties, RequestFields DEF ProgInv, ListTypes, ListSeen, UnderWay
<1>7. ListTypes'
  BY <1>1, <1>2, <1>3, <1>5, RequestFields DEF ProgInv, ListTypes
<1>8. ListSeen'
  BY <1>1, <1>3, <1>4, <1>5, <1>6 DEF ListSeen
<1>9. CopiesTrue'
  <2>1. st'.vers # vers'
    BY <1>1, <1>3
  <2>2. \A y \in Loads' : y.st = "done" => y.vers # vers'
    BY <1>1, <1>3, <1>4, <1>5, <1>6 DEF Loads
  <2> QED
    BY <2>1, <2>2 DEF CopiesTrue
<1>10. AckComing'
  BY <1>1, <1>5 DEF ProgInv, AckComing, Loads
<1>11. QuestionHolds'
  BY <1>1, <1>5 DEF ProgInv, QuestionHolds
<1>12. EditorHolds'
  BY <1>1, <1>4, <1>5 DEF ProgInv, EditorHolds, Named
<1> QED
  BY <1>5, <1>7, <1>8, <1>9, <1>10, <1>11, <1>12 DEF ProgInv

(* The list is changed elsewhere.                                          *)
LEMMA ElsewhereKeeps ==
  ASSUME ProgInv, NEW l \in Seq(P!Program), P!Elsewhere(l)
  PROVE  ProgInv'
<1>1. /\ plist' = l /\ vers' = vers + 1 /\ foreign' = TRUE
      /\ UNCHANGED <<st, p_reqs, p_ask, acked, doubt>>
  BY DEF P!Elsewhere
<1>2. UnderWay' = UnderWay
  BY <1>1 DEF UnderWay
<1>3. vers \in Nat /\ st.vers \in Nat /\ acked \in Nat /\ acked <= vers /\ st.vers <= vers
  BY DEF ProgInv, ListTypes, ListSeen
<1>4. \A y \in UnderWay : y.st = "done" => y.vers \in Nat /\ y.vers <= vers
  BY ElementOfSeq, LenProperties, RequestFields DEF ProgInv, ListTypes, ListSeen, UnderWay
<1>5. ListTypes'
  BY <1>1, <1>3 DEF ProgInv, ListTypes
<1>6. ListSeen'
  BY <1>1, <1>2, <1>3, <1>4 DEF ListSeen
<1>7. CopiesTrue'
  BY <1>1, <1>2, <1>3, <1>4 DEF CopiesTrue, Loads
<1>8. AckComing'
  BY <1>1, <1>2 DEF ProgInv, AckComing, Loads
<1>9. QuestionHolds'
  BY <1>1 DEF QuestionHolds
<1>10. EditorHolds'
  BY <1>1, <1>2 DEF ProgInv, EditorHolds, Named
<1> QED
  BY <1>5, <1>6, <1>7, <1>8, <1>9, <1>10 DEF ProgInv

\* The editor is closed by what was sent to close it; the question stays.
Closed(r) ==
  \/ p_ask' = None
  \/ p_ask' = p_ask /\ (r.closes = TRUE => ~P!Editing)

(* A load comes back: what it brings is shown.                             *)
LEMMA LoadKeeps ==
  ASSUME ProgInv, NEW k \in DOMAIN p_reqs, P!Loaded(k)
  PROVE  ProgInv' /\ Len(p_reqs') = Len(p_reqs) - 1
<1> DEFINE r == p_reqs[k]
<1>1. /\ p_reqs' = P!RemoveAt(p_reqs, k) /\ r.kind = "load" /\ r.st = "done"
      /\ st' = [list |-> r.list, vers |-> r.vers] /\ doubt' = (doubt \/ r.vers < st.vers)
      /\ UNCHANGED <<plist, vers, acked, foreign>>
  BY DEF P!Loaded, P!Done, P!deviceVars
<1>2. r \in ListRequests
  BY LenProperties, ElementOfSeq DEF ProgInv, ListTypes
<1>3. Closed(r)
  BY DEF P!Loaded, P!Close, Closed
<1>4. /\ p_reqs' \in Seq(ListRequests) /\ r \in UnderWay
      /\ UnderWay' \subseteq UnderWay /\ UnderWay \ {r} \subseteq UnderWay'
      /\ Len(p_reqs') = Len(p_reqs) - 1
  BY <1>1, Shrinks DEF ProgInv, ListTypes
<1> HIDE DEF r
<1>5. st'.list = r.list /\ st'.vers = r.vers /\ r.vers \in Nat /\ r.list \in Seq(P!Program)
  BY <1>1, <1>2, RequestFields
<1>6. ListTypes'
  BY <1>1, <1>4, <1>5 DEF ProgInv, ListTypes
<1>7. ListSeen'
  BY <1>1, <1>4, <1>5 DEF ProgInv, ListSeen
<1>8. CopiesTrue'
  BY <1>1, <1>4, <1>5 DEF ProgInv, CopiesTrue, Loads
<1>9. AckComing'
  <2>1. CASE doubt'
    BY <2>1 DEF AckComing
  <2>2. CASE ~doubt'
    <3>1. ~doubt /\ ~(r.vers < st.vers) /\ st.vers \in Nat /\ acked \in Nat
      BY <1>1, <2>2 DEF ProgInv, ListTypes
    <3>2. CASE r.vers >= acked
      BY <1>1, <1>5, <3>2 DEF AckComing
    <3>3. CASE ~(r.vers >= acked)
      <4>1. ~(st.vers >= acked)
        BY <1>5, <3>1, <3>3
      <4>2. PICK y \in Loads : y.st = "done" => y.vers >= acked
        BY <3>1, <4>1 DEF ProgInv, AckComing
      <4>3. y \in Loads'
        BY <1>1, <1>4, <3>3, <4>2 DEF Loads
      <4> QED
        BY <1>1, <4>2, <4>3 DEF AckComing
    <3> QED
      BY <3>2, <3>3
  <2> QED
    BY <2>1, <2>2
<1>10. QuestionHolds'
  <2> SUFFICES ASSUME p_ask' # None, p_ask'.what = "delete", p_ask'.alone, ~foreign'
               PROVE  /\ st'.vers = vers' /\ Named'
                      /\ \A y \in UnderWay' : y.kind = "load" /\ (y.st = "done" => y.vers = vers')
    BY DEF QuestionHolds
  <2>1. p_ask' = p_ask
    BY <1>3 DEF Closed
  <2>2. /\ st.vers = vers /\ Named
        /\ \A y \in UnderWay : y.kind = "load" /\ (y.st = "done" => y.vers = vers)
    BY <1>1, <2>1 DEF ProgInv, QuestionHolds
  <2>3. r.vers = vers /\ st.list = plist /\ r.list = plist
    BY <1>1, <1>4, <2>2 DEF ProgInv, CopiesTrue, Loads
  <2> QED
    BY <1>1, <1>4, <1>5, <2>1, <2>2, <2>3 DEF Named
<1>11. EditorHolds'
  <2>1. CASE p_ask' = None
    BY <2>1 DEF EditorHolds
  <2>2. CASE p_ask' = p_ask /\ (r.closes = TRUE => ~P!Editing)
    BY <1>4, <2>2 DEF ProgInv, EditorHolds, P!Editing
  <2> QED
    BY <1>3, <2>1, <2>2 DEF Closed
<1> QED
  BY <1>4, <1>6, <1>7, <1>8, <1>9, <1>10, <1>11 DEF ProgInv

(* A save comes back: the list is loaded.                                  *)
LEMMA SavedKeeps ==
  ASSUME ProgInv, NEW k \in DOMAIN p_reqs, P!Saved(k)
  PROVE  ProgInv' /\ Len(p_reqs') = Len(p_reqs)
<1> DEFINE r == p_reqs[k]
           x == P!Load(r.closes)
<1>1. /\ p_reqs' = [p_reqs EXCEPT ![k] = x] /\ r.kind = "save" /\ r.st = "done"
      /\ acked' = (IF acked < r.vers THEN r.vers ELSE acked)
      /\ UNCHANGED <<plist, vers, st, p_ask, doubt, foreign>>
  BY DEF P!Saved, P!deviceVars
<1>2. r \in ListRequests
  BY LenProperties, ElementOfSeq DEF ProgInv, ListTypes
<1>3. r.closes \in BOOLEAN /\ r.vers \in Nat
  BY <1>1, <1>2, RequestFields
<1>4. x \in ListRequests /\ x.kind = "load" /\ x.st = "sent" /\ x.closes = r.closes
  BY <1>3, Sent, EmptySeq
<1> HIDE DEF x, r
<1>5. /\ p_reqs' \in Seq(ListRequests) /\ r \in UnderWay /\ x \in UnderWay'
      /\ UnderWay' \subseteq UnderWay \cup {x} /\ UnderWay \ {r} \subseteq UnderWay'
      /\ Len(p_reqs') = Len(p_reqs)
  BY <1>1, <1>4, Changes DEF ProgInv, ListTypes, r
<1>6. ListTypes'
  BY <1>1, <1>3, <1>5 DEF ProgInv, ListTypes
<1>7. ListSeen'
  BY <1>1, <1>4, <1>5 DEF ProgInv, ListSeen
<1>8. CopiesTrue'
  BY <1>1, <1>4, <1>5 DEF ProgInv, CopiesTrue, Loads
<1>9. AckComing'
  BY <1>4, <1>5 DEF AckComing, Loads
<1>10. QuestionHolds'
  BY <1>1, <1>5 DEF ProgInv, QuestionHolds
<1>11. EditorHolds'
  BY <1>1, <1>4, <1>5 DEF ProgInv, EditorHolds, Named
<1> QED
  BY <1>5, <1>6, <1>7, <1>8, <1>9, <1>10, <1>11 DEF ProgInv

(* A request fails: from then on there is doubt.                           *)
LEMMA FailKeeps ==
  ASSUME ProgInv, NEW k \in DOMAIN p_reqs, P!Failed(k)
  PROVE  ProgInv' /\ Len(p_reqs') = Len(p_reqs) - 1
<1> DEFINE r == p_reqs[k]
<1>1. /\ p_reqs' = P!RemoveAt(p_reqs, k) /\ doubt' = TRUE
      /\ UNCHANGED <<plist, vers, st, acked, foreign>>
  BY DEF P!Failed, P!Done, P!deviceVars
<1>2. p_ask' = None \/ p_ask' = p_ask
  BY DEF P!Failed, P!Close
<1>3. /\ p_reqs' \in Seq(ListRequests) /\ UnderWay' \subseteq UnderWay
      /\ Len(p_reqs') = Len(p_reqs) - 1
  BY <1>1, Shrinks DEF ProgInv, ListTypes
<1>4. ListTypes'
  BY <1>1, <1>3 DEF ProgInv, ListTypes
<1>5. ListSeen'
  BY <1>1, <1>3 DEF ProgInv, ListSeen
<1>6. CopiesTrue'
  BY <1>1, <1>3 DEF ProgInv, CopiesTrue, Loads
<1>7. AckComing'
  BY <1>1 DEF AckComing
<1>8. QuestionHolds'
  BY <1>1, <1>2, <1>3 DEF ProgInv, QuestionHolds, Named
<1>9. EditorHolds'
  BY <1>1, <1>2, <1>3 DEF ProgInv, EditorHolds, Named
<1> QED
  BY <1>3, <1>4, <1>5, <1>6, <1>7, <1>8, <1>9 DEF ProgInv

(* The question and the editor, when they save.                            *)
LEMMA DeleteKeeps ==
  ASSUME ProgInv, P!Delete
  PROVE  /\ ProgInv'
         /\ p_ask.alone /\ ~foreign =>
              /\ Named /\ P!NewList = P!RemoveAt(st.list, p_ask.place)
<1> DEFINE l == IF p_ask.place \in DOMAIN st.list THEN P!RemoveAt(st.list, p_ask.place) ELSE st.list
<1>1. st.list \in Seq(P!Program)
  BY DEF ProgInv, ListTypes
<1>2. l \in Seq(P!Program)
  BY <1>1, SavedLists
<1>3. /\ P!Change(l, FALSE) /\ p_ask' = None /\ p_ask # None /\ p_ask.what = "delete"
      /\ UNCHANGED <<plist, vers, st, acked, doubt, foreign>>
  BY DEF P!Delete, P!deviceVars, P!history
<1> HIDE DEF l
<1>4. ProgInv' /\ P!Last(p_reqs').list = l
  BY <1>2, <1>3, SaveGoes
<1>5. p_ask.alone /\ ~foreign => Named
  BY <1>3 DEF ProgInv, QuestionHolds
<1> QED
  BY <1>4, <1>5 DEF P!NewList, Named, l

LEMMA SubmitKeeps ==
  ASSUME ProgInv, NEW p \in P!Program, P!Submit(p)
  PROVE  /\ ProgInv' /\ Len(p_reqs') = Len(p_reqs) + 1
         /\ p_ask' = p_ask /\ p_ask # None /\ p_ask.what = "edit"
         /\ p_ask.alone /\ p_ask.name # None /\ p.name = p_ask.name =>
              P!NamesOf(P!NewList) = P!NamesOf(st.list)
<1> DEFINE l == IF p_ask.place \in DOMAIN st.list THEN P!ReplaceAt(st.list, p_ask.place, p)
                ELSE Append(st.list, p)
<1>1. st.list \in Seq(P!Program)
  BY DEF ProgInv, ListTypes
<1>2. l \in Seq(P!Program)
  BY <1>1, SavedLists
<1>3. /\ P!Change(l, TRUE) /\ p_ask' = p_ask /\ p_ask # None /\ p_ask.what = "edit"
      /\ UNCHANGED <<plist, vers, st, acked, doubt, foreign>>
  BY DEF P!Submit, P!Editing, P!deviceVars, P!history
<1>4. Named /\ p.name = p_ask.name => P!NamesOf(l) = P!NamesOf(st.list)
  BY <1>1, SavedLists DEF Named
<1> HIDE DEF l
<1>5. ProgInv' /\ P!Last(p_reqs').list = l
  BY <1>2, <1>3, SaveGoes
<1>6. Len(p_reqs') = Len(p_reqs) + 1
  <2>1. p_reqs' = Append(p_reqs, P!Save(l, TRUE)) /\ P!Save(l, TRUE) \in ListRequests
    BY <1>2, <1>3, Sent DEF P!Change, P!Request
  <2> QED
    BY <2>1, Grows DEF ProgInv, ListTypes
<1>7. p_ask.alone /\ p_ask.name # None => Named
  BY <1>3 DEF ProgInv, EditorHolds
<1> QED
  BY <1>3, <1>4, <1>5, <1>6, <1>7 DEF P!NewList

(* The other buttons.                                                      *)
LEMMA ButtonsKeep ==
  ASSUME ProgInv,
         P!Add \/ P!Cancel \/ \E i \in DOMAIN st.list :
           P!Toggle(i) \/ P!Open("edit", i) \/ P!Open("delete", i)
  PROVE  ProgInv' /\ (p_ask = None \/ p_ask' = None)
<1>1. st.list \in Seq(P!Program) /\ DOMAIN st.list = 1 .. Len(st.list)
  BY LenProperties DEF ProgInv, ListTypes
<1>2. ASSUME NEW i \in DOMAIN st.list, P!Toggle(i) PROVE ProgInv' /\ p_ask = None
  <2>1. [st.list EXCEPT ![i].enabled = ~@] \in Seq(P!Program)
    BY <1>1, SavedLists
  <2>2. /\ P!Change([st.list EXCEPT ![i].enabled = ~@], FALSE) /\ p_ask = None /\ p_ask' = p_ask
        /\ UNCHANGED <<plist, vers, st, acked, doubt, foreign>>
    BY <1>2 DEF P!Toggle, P!deviceVars, P!history
  <2> QED
    BY <2>1, <2>2, SaveGoes
<1>3. ASSUME NEW i \in DOMAIN st.list, NEW what, P!Open(what, i) PROVE ProgInv' /\ p_ask = None
  <2>1. st.list[i].name # None
    <3>1. st.list[i] \in P!Program
      BY <1>1, ElementOfSeq
    <3> QED
      BY <3>1, ConsoleAssumption DEF P!Program
  <2>2. /\ p_ask' = [what |-> what, place |-> i, name |-> st.list[i].name, alone |-> P!Alone]
        /\ foreign' = (st.vers # vers) /\ UNCHANGED <<plist, vers, st, p_reqs, acked, doubt>>
        /\ p_ask = None
    BY <1>3 DEF P!Open, P!deviceVars
  <2> QED
    BY <2>1, <2>2, OpenKeeps
<1>4. CASE P!Add
  <2>1. /\ p_ask' = [what |-> "edit", place |-> 0, name |-> None, alone |-> P!Alone]
        /\ foreign' = (st.vers # vers) /\ UNCHANGED <<plist, vers, st, p_reqs, acked, doubt>>
        /\ p_ask = None
    BY <1>4 DEF P!Add, P!deviceVars
  <2> QED
    BY <2>1, OpenKeeps
<1>5. CASE P!Cancel
  <2>1. p_ask' = None /\ UNCHANGED <<plist, vers, st, p_reqs, acked, doubt>>
    BY <1>5 DEF P!Cancel, P!deviceVars, P!history
  <2>2. QuestionHolds' /\ EditorHolds'
    BY <2>1 DEF QuestionHolds, EditorHolds
  <2> QED
    BY <2>1, <2>2, OnlyAsked DEF ProgInv
<1> QED
  BY <1>2, <1>3, <1>4, <1>5

(* What is submitted: the program of the editor, or a new one.             *)
LEMMA Submitted ==
  /\ \A n \in Names, b \in BOOLEAN : [name |-> n, enabled |-> b] \in P!Program
  /\ \A n \in Names : P!NewProgram(n) \in P!Program
<1>1. ASSUME NEW n \in Names, NEW b \in BOOLEAN PROVE [name |-> n, enabled |-> b] \in P!Program
  BY DEF P!Program
<1>2. ASSUME NEW n \in Names PROVE P!NewProgram(n) \in P!Program
  BY <1>1 DEF P!NewProgram
<1> QED
  BY <1>1, <1>2

\* The editor names a program there may be.
AskNamed == p_ask # None => p_ask.name \in Names \cup {None}

LEMMA AskNamedKept ==
  ASSUME ProgInv, AskNamed, [P!Next]_(P!vars)
  PROVE  AskNamed'
<1>1. CASE p_ask' = None \/ p_ask' = p_ask
  BY <1>1 DEF AskNamed
<1>2. ASSUME NEW i \in DOMAIN st.list, NEW what, P!Open(what, i) PROVE AskNamed'
  <2>1. st.list[i] \in P!Program
    BY LenProperties, ElementOfSeq DEF ProgInv, ListTypes
  <2>2. st.list[i].name \in Names
    BY <2>1 DEF P!Program
  <2> QED
    BY <1>2, <2>2 DEF P!Open, AskNamed
<1>3. CASE P!Add
  BY <1>3 DEF P!Add, AskNamed
<1>4. CASE P!User
  <2>1. CASE \E i \in DOMAIN st.list : P!Toggle(i)
    BY <1>1, <2>1 DEF P!Toggle
  <2>2. CASE P!Cancel \/ P!Delete
    BY <1>1, <2>2 DEF P!Cancel, P!Delete
  <2>3. CASE \E p : P!Submit(p)
    BY <1>1, <2>3 DEF P!Submit
  <2> QED
    BY <1>2, <1>3, <1>4, <2>1, <2>2, <2>3 DEF P!User
<1>5. CASE P!Reload \/ P!Serve
  BY <1>1, <1>5 DEF P!Reload, P!Serve, P!handlePrograms, P!handleProgramsPost
<1>6. CASE P!Answers \/ \E k \in DOMAIN p_reqs : P!Failed(k)
  BY <1>1, <1>6 DEF P!Answers, P!Loaded, P!Saved, P!Failed, P!Close
<1>7. CASE UNCHANGED P!vars \/ \E l : P!Elsewhere(l)
  BY <1>1, <1>7 DEF P!vars, P!Elsewhere
<1> QED
  BY <1>4, <1>5, <1>6, <1>7 DEF P!Next

\* Which steps leave the editor open and send one request more: only its own.
LEMMA ProgNext ==
  ASSUME ProgInv, AskNamed, [P!Next]_(P!vars)
  PROVE  /\ ProgInv'
         /\ \/ Len(p_reqs') # Len(p_reqs) + 1 \/ p_ask = None \/ p_ask' = None \/ ~P!Editing
            \/ p_ask.name = None
            \/ P!NamesOf(P!NewList) = P!NamesOf(st.list) \/ ~p_ask.alone
<1>1. Len(p_reqs) \in Nat
  BY LenProperties DEF ProgInv, ListTypes
<1>2. CASE P!User
  <2>1. CASE P!Add \/ P!Cancel \/ \E i \in DOMAIN st.list :
               P!Toggle(i) \/ P!Open("edit", i) \/ P!Open("delete", i)
    BY <2>1, ButtonsKeep
  <2>2. CASE P!Delete
    BY <2>2, DeleteKeeps DEF P!Delete
  <2>3. CASE P!Editing /\ p_ask.name # None /\ P!Submit([name |-> p_ask.name, enabled |-> FALSE])
    <3>1. [name |-> p_ask.name, enabled |-> FALSE] \in P!Program
      BY <2>3, Submitted DEF AskNamed, P!Editing
    <3> QED
      BY <2>3, <3>1, SubmitKeeps
  <2>4. CASE P!Editing /\ p_ask.name = None
             /\ \E n \in Names \ P!NamesOf(st.list) : P!Submit(P!NewProgram(n))
    BY <2>4, Submitted, SubmitKeeps
  <2> QED
    BY <1>2, <2>1, <2>2, <2>3, <2>4 DEF P!User
<1>3. CASE P!Reload
  BY <1>3, ReloadKeeps DEF P!Reload
<1>4. CASE P!Serve
  BY <1>1, <1>4, ReadKeeps, WriteKeeps DEF P!Serve
<1>5. CASE P!Answers
  BY <1>1, <1>5, LoadKeeps, SavedKeeps DEF P!Answers
<1>6. CASE \E k \in DOMAIN p_reqs : P!Failed(k)
  BY <1>1, <1>6, FailKeeps
<1>7. CASE \E l \in Seq(P!Program) : P!Elsewhere(l)
  BY <1>1, <1>7, ElsewhereKeeps DEF P!Elsewhere
<1>8. CASE UNCHANGED P!vars
  <2>1. UNCHANGED <<plist, vers, st, p_reqs, p_ask, acked, doubt, foreign>>
    BY <1>8 DEF P!vars, P!deviceVars, P!history
  <2>2. ListTypes' /\ ListSeen' /\ CopiesTrue' /\ AckComing' /\ UnderWay' = UnderWay
    BY <2>1, OnlyAsked
  <2>3. QuestionHolds' /\ EditorHolds'
    BY <2>1, <2>2 DEF ProgInv, QuestionHolds, EditorHolds, Named
  <2> QED
    BY <1>1, <2>1, <2>2, <2>3 DEF ProgInv
<1>9. /\ plist # <<>> => Tail(plist) \in Seq(P!Program)
      /\ \A n \in Names : <<P!NewProgram(n)>> \o plist \in Seq(P!Program)
  BY SavedLists, Submitted DEF ProgInv, ListTypes
<1> QED
  BY <1>2, <1>3, <1>4, <1>5, <1>6, <1>7, <1>8, <1>9 DEF P!Next

LEMMA ProgInit == P!Init => ProgInv /\ AskNamed
<1> SUFFICES ASSUME P!Init PROVE ProgInv /\ AskNamed
  OBVIOUS
<1>1. /\ plist \in Seq(P!Program) /\ st.list = plist /\ st.vers = 0 /\ vers = 0 /\ acked = 0
      /\ p_reqs = <<>> /\ p_ask = None
  BY FirstList DEF P!Init
<1>2. p_reqs \in Seq(ListRequests) /\ UnderWay = {}
  BY <1>1, EmptySeq DEF UnderWay
<1>3. ListTypes
  BY <1>1, <1>2 DEF ListTypes
<1>4. ListSeen
  BY <1>1, <1>2 DEF ListSeen
<1>5. CopiesTrue
  BY <1>1, <1>2 DEF CopiesTrue, Loads
<1>6. AckComing
  BY <1>1 DEF AckComing
<1>7. QuestionHolds /\ EditorHolds /\ AskNamed
  BY <1>1 DEF QuestionHolds, EditorHolds, AskNamed
<1> QED
  BY <1>3, <1>4, <1>5, <1>6, <1>7 DEF ProgInv

THEOREM ProgInvariance == ConsoleSpec => [](ProgInv /\ AskNamed)
<1>1. ConsoleInit => ProgInv /\ AskNamed
  BY ProgInit DEF ConsoleInit
<1>2. ProgInv /\ AskNamed /\ [ConsoleNext]_consoleVars => (ProgInv /\ AskNamed)'
  BY PartSteps, ProgNext, AskNamedKept
<1> QED
  BY <1>1, <1>2, PTL DEF ConsoleSpec

\* With no request under way, and none that failed or was overtaken, the page
\* shows every change that was confirmed to it (save's await load()).
THEOREM ConfirmedIsShown == ConsoleSpec => []AckedIsShown
<1>1. ProgInv => AckedIsShown
  <2> SUFFICES ASSUME ProgInv, P!Alone, ~doubt PROVE st.vers >= acked
    BY DEF AckedIsShown, P!AckedIsShown
  <2>1. Loads = {}
    BY DEF P!Alone, UnderWay, Loads
  <2> QED
    BY <2>1 DEF ProgInv, AckComing
<1> QED
  BY <1>1, ProgInvariance, PTL

\* What is saved from the question or from the editor is about the program they
\* name (the rows' places in save and load).
THEOREM RowsKeepTheirPrograms == ConsoleSpec => RowIsItsProgram
<1>1. ProgInv /\ AskNamed /\ [ConsoleNext]_consoleVars =>
        [/\ P!Delete /\ p_ask.alone /\ ~foreign =>
              \E i \in DOMAIN st.list : st.list[i].name = p_ask.name /\ P!NewList = P!RemoveAt(st.list, i)
         /\ (\E p \in P!Program : P!Submit(p)) /\ p_ask.name # None /\ p_ask.alone =>
              P!NamesOf(P!NewList) = P!NamesOf(st.list)]_(P!vars)
  <2> SUFFICES ASSUME ProgInv, AskNamed, [ConsoleNext]_consoleVars
               PROVE  /\ P!Delete /\ p_ask.alone /\ ~foreign =>
                           \E i \in DOMAIN st.list : st.list[i].name = p_ask.name /\ P!NewList = P!RemoveAt(st.list, i)
                      /\ (\E p \in P!Program : P!Submit(p)) /\ p_ask.name # None /\ p_ask.alone =>
                           P!NamesOf(P!NewList) = P!NamesOf(st.list)
    OBVIOUS
  <2>1. [P!Next]_(P!vars)
    BY PartSteps
  <2>2. P!Delete /\ p_ask.alone /\ ~foreign => Named /\ P!NewList = P!RemoveAt(st.list, p_ask.place)
    BY DeleteKeeps
  <2>3. ASSUME NEW p \in P!Program, P!Submit(p), p_ask.name # None, p_ask.alone
        PROVE  P!NamesOf(P!NewList) = P!NamesOf(st.list)
    <3>1. Len(p_reqs') = Len(p_reqs) + 1 /\ p_ask' # None /\ P!Editing
      BY <2>3, SubmitKeeps DEF P!Editing
    <3> QED
      BY <2>1, <2>3, <3>1, ProgNext DEF P!Editing
  <2> QED
    BY <2>2, <2>3 DEF Named
<1> QED
  BY <1>1, ProgInvariance, PTL DEF ConsoleSpec, RowIsItsProgram, P!RowIsItsProgram

-----------------------------------------------------------------------------
(* The week.                                                               *)

(* Sets of integers have a least and a greatest element.                   *)
LEMMA LeastNat ==
  ASSUME NEW X, X \subseteq Nat, X # {}
  PROVE  \E x \in X : \A y \in X : x <= y
<1> DEFINE less == {ss \in Nat \X Nat : ss[1] < ss[2]}
<1>1. IsWellFoundedOn(less, Nat)
  BY NatLessThanWellFounded, Zenon DEF OpToRel
<1>2. \A x, y \in Nat : y < x => <<y, x>> \in less
  OBVIOUS
<1> HIDE DEF less
<1>3. PICK x \in X : \A y \in X : ~(<<y, x>> \in less)
  BY <1>1, WFMin
<1>4. ASSUME NEW y \in X PROVE x <= y
  <2>1. x \in Nat /\ y \in Nat
    OBVIOUS
  <2>2. ~(y < x)
    BY <1>2, <1>3, <2>1, Zenon
  <2> QED
    BY <2>1, <2>2
<1> QED
  BY <1>4

LEMMA MinFacts ==
  ASSUME NEW X, X \subseteq Nat, X # {}
  PROVE  C!Min(X) \in X /\ \A y \in X : C!Min(X) <= y
<1>1. PICK x \in X : \A y \in X : x <= y
  BY LeastNat
<1> QED
  BY <1>1 DEF C!Min

LEMMA MaxFacts ==
  ASSUME NEW X, X \subseteq Int, X # {}, \E high \in Int : \A x \in X : x <= high
  PROVE  C!Max(X) \in X /\ \A y \in X : y <= C!Max(X)
<1>1. PICK high \in Int : \A x \in X : x <= high
  OBVIOUS
<1> DEFINE B == {high - x : x \in X}
<1>2. B \subseteq Nat
  BY <1>1
<1>3. B # {}
  OBVIOUS
<1>4. PICK b \in B : \A c \in B : b <= c
  BY <1>2, <1>3, LeastNat
<1>5. PICK x \in X : b = high - x
  OBVIOUS
<1>6. ASSUME NEW y \in X PROVE x >= y
  <2>1. high - y \in B
    OBVIOUS
  <2>2. b <= high - y
    BY <1>4, <2>1
  <2> QED
    BY <1>5, <2>2
<1>7. C!Max(X) \in X /\ \A y \in X : C!Max(X) >= y
  BY <1>5, <1>6 DEF C!Max
<1> QED
  BY <1>7

(* Days and minutes.                                                       *)
Midnight(d) == d * DayLen

LEMMA Midnights ==
  ASSUME NEW a \in Int, NEW b \in Int
  PROVE  /\ Midnight(a) \in Int /\ Midnight(a + b) = Midnight(a) + Midnight(b)
         /\ Midnight(a - b) = Midnight(a) - Midnight(b)
         /\ a < b => Midnight(a) + DayLen <= Midnight(b)
         /\ Midnight(0) = 0 /\ Midnight(1) = DayLen
BY WeekAssumption DEF Midnight

LEMMA FloorDay ==
  ASSUME NEW m \in Int
  PROVE  /\ C!floorDay(m) \in Int
         /\ Midnight(C!floorDay(m)) <= m /\ m < Midnight(C!floorDay(m)) + DayLen
         /\ m % DayLen = m - Midnight(C!floorDay(m))
<1>1. \A len \in Nat \ {0} : /\ m \div len \in Int
                             /\ (m \div len) * len <= m /\ m < (m \div len) * len + len
                             /\ m % len = m - (m \div len) * len
  OBVIOUS
<1>2. DayLen \in Nat \ {0}
  BY WeekAssumption
<1> QED
  BY <1>1, <1>2 DEF C!floorDay, Midnight

(* A day is that of a minute when the minute lies in it; later minutes are *)
(* not of earlier days.                                                    *)
LEMMA DayOf ==
  ASSUME NEW m \in Int, NEW d \in Int
  PROVE  /\ Midnight(d) <= m /\ m < Midnight(d) + DayLen => C!floorDay(m) = d
         /\ Midnight(d) <= m => d <= C!floorDay(m)
         /\ m < Midnight(d) + DayLen => C!floorDay(m) <= d
<1>1. /\ C!floorDay(m) \in Int /\ Midnight(d) \in Int /\ Midnight(C!floorDay(m)) \in Int
      /\ Midnight(C!floorDay(m)) <= m /\ m < Midnight(C!floorDay(m)) + DayLen
      /\ DayLen \in Nat
  BY FloorDay, Midnights, WeekAssumption
<1>2. d < C!floorDay(m) => Midnight(d) + DayLen <= Midnight(C!floorDay(m))
  BY <1>1, Midnights
<1>3. C!floorDay(m) < d => Midnight(C!floorDay(m)) + DayLen <= Midnight(d)
  BY <1>1, Midnights
<1> QED
  BY <1>1, <1>2, <1>3

(* Where in its day an occurrence begins.                                  *)
Offset(p) == IF p.end = "ALL_DAY" THEN 0 ELSE p.start

LEMMA Starts ==
  ASSUME NEW p, NEW d \in Int, Offset(p) \in Int
  PROVE  C!StartOn(p, d) = Midnight(d) + Offset(p) /\ C!StartOn(p, d) \in Int
<1>1. Midnight(d) \in Int
  BY Midnights
<1> QED
  BY <1>1 DEF C!StartOn, Midnight, Offset

(* An occurrence lasts a minute at least and a week at most, for the page  *)
(* as for the device.                                                      *)
LEMMA Lengths ==
  ASSUME NEW p \in C!Program, C!ValidProgram(p)
  PROVE  /\ C!occurrenceLength(p) \in 1 .. Midnight(WeekLen)
         /\ C!progLen(p) = C!occurrenceLength(p)
         /\ Offset(p) \in 0 .. DayLen - 1
<1>1. DayLen \in Nat \ {0} /\ WeekLen \in Nat \ {0} /\ Midnight(WeekLen) \in Nat /\ DayLen <= Midnight(WeekLen)
  <2>1. Midnight(0) = 0 /\ Midnight(WeekLen) \in Int
        /\ (0 < WeekLen => Midnight(0) + DayLen <= Midnight(WeekLen))
    BY WeekAssumption, Midnights
  <2> QED
    BY <2>1, WeekAssumption
<1>2. /\ p.start \in Nat /\ p.until \in Nat /\ p.duration \in Nat
      /\ p.end \in {"ALL_DAY", "END_TIME", "DURATION"}
  BY DEF C!Program
<1>3. Offset(p) \in 0 .. DayLen - 1
  BY <1>1, <1>2 DEF C!ValidProgram, Offset
<1>4. CASE p.end = "ALL_DAY"
  BY <1>1, <1>3, <1>4 DEF C!occurrenceLength, C!progLen
<1>5. CASE p.end = "DURATION"
  <2>1. p.duration \in 1 .. (IF p.kind = "ONCE" THEN WeekLen ELSE 1) * DayLen
    BY <1>5 DEF C!ValidProgram
  <2>2. p.duration \in 1 .. Midnight(WeekLen)
    <3>1. Midnight(1) = DayLen
      BY Midnights, WeekAssumption
    <3>2. p.duration \in 1 .. IF p.kind = "ONCE" THEN Midnight(WeekLen) ELSE Midnight(1)
      BY <2>1 DEF Midnight
    <3> QED
      BY <1>1, <3>1, <3>2
  <2> QED
    BY <1>3, <1>5, <2>2 DEF C!occurrenceLength, C!progLen
<1>6. CASE p.end = "END_TIME"
  <2>1. /\ p.until < DayLen /\ p.start < DayLen /\ p.until # p.start
        /\ p.until + DayLen - p.start = p.until - p.start + DayLen
    BY <1>1, <1>2, <1>6 DEF C!ValidProgram
  <2> DEFINE x == p.until - p.start + DayLen
  <2>2. x \in Int /\ x \in 1 .. DayLen + DayLen - 1 /\ x # DayLen
    BY <1>1, <1>2, <2>1
  <2>3. C!occurrenceLength(p) = x % DayLen /\ C!progLen(p) = x % DayLen
    BY <1>6, <2>1 DEF C!occurrenceLength, C!progLen
  <2> HIDE DEF x
  <2>4. x % DayLen \in 1 .. DayLen - 1
    <3>1. x % DayLen = x - Midnight(C!floorDay(x)) /\ Midnight(0) = 0 /\ Midnight(1) = DayLen
      BY <2>2, FloorDay, Midnights
    <3>2. CASE x < DayLen
      <4>1. C!floorDay(x) = 0
        BY <1>1, <2>2, <3>1, <3>2, DayOf
      <4> QED
        BY <1>1, <2>2, <3>1, <3>2, <4>1
    <3>3. CASE ~(x < DayLen)
      <4>1. C!floorDay(x) = 1
        BY <1>1, <2>2, <3>1, <3>3, DayOf
      <4> QED
        BY <1>1, <2>2, <3>1, <3>3, <4>1
    <3> QED
      BY <3>2, <3>3
  <2> QED
    BY <1>1, <1>3, <2>3, <2>4
<1> QED
  BY <1>2, <1>4, <1>5, <1>6

(* The occurrence of day d covers minute m.                                *)
RunsOn(p, d, m) ==
  C!occursOn(p, d) /\ C!StartOn(p, d) <= m /\ m < C!StartOn(p, d) + C!occurrenceLength(p)

(* As many days as the device looks back.                                  *)
Back(p) == (C!occurrenceLength(p) + DayLen - 1) \div DayLen

(* Looking back as far as an occurrence is long finds all that cover m.    *)
LEMMA CoverDays ==
  ASSUME NEW p \in C!Program, C!ValidProgram(p), NEW m \in Int, NEW d \in Int,
         C!StartOn(p, d) <= m, m < C!StartOn(p, d) + C!occurrenceLength(p)
  PROVE  /\ d <= C!floorDay(m) /\ C!floorDay(m) - WeekLen <= d
         /\ Back(p) \in Int /\ C!floorDay(m) - Back(p) <= d
<1> DEFINE len == C!occurrenceLength(p)
           x == len + DayLen - 1
<1>1. len \in 1 .. Midnight(WeekLen) /\ Offset(p) \in 0 .. DayLen - 1
  BY Lengths
<1>2. DayLen \in Nat \ {0} /\ WeekLen \in Int /\ Midnight(WeekLen) \in Int /\ Midnight(d) \in Int
  BY WeekAssumption, Midnights
<1>3. Midnight(d) <= m /\ m < Midnight(d) + Offset(p) + len
  BY <1>1, <1>2, Starts
<1>4. Back(p) \in Int /\ Midnight(Back(p)) \in Int /\ len <= Midnight(Back(p))
  <2>1. x \in Int /\ len = x - DayLen + 1 /\ Back(p) = C!floorDay(x)
    BY <1>1, <1>2 DEF C!floorDay, Back
  <2> HIDE DEF len, x
  <2>2. C!floorDay(x) \in Int /\ Midnight(C!floorDay(x)) \in Int /\ x < Midnight(C!floorDay(x)) + DayLen
    BY <2>1, FloorDay, Midnights
  <2> QED
    BY <1>2, <2>1, <2>2
<1> HIDE DEF len
<1>5. ASSUME NEW k \in Int, Midnight(k) \in Int, len <= Midnight(k) PROVE C!floorDay(m) - k <= d
  <2>1. d + k \in Int /\ Midnight(d + k) = Midnight(d) + Midnight(k)
    BY Midnights
  <2>2. m < Midnight(d + k) + DayLen
    BY <1>1, <1>2, <1>3, <1>5, <2>1
  <2>3. C!floorDay(m) <= d + k /\ C!floorDay(m) \in Int
    BY <2>1, <2>2, DayOf, FloorDay
  <2> QED
    BY <2>3
<1>6. C!floorDay(m) - WeekLen <= d
  BY <1>1, <1>2, <1>5
<1>7. C!floorDay(m) - Back(p) <= d
  BY <1>4, <1>5
<1>8. d <= C!floorDay(m)
  BY <1>3, DayOf
<1> QED
  BY <1>4, <1>6, <1>7, <1>8

(* A program is active with the starts of the occurrences that cover the   *)
(* minute.                                                                 *)
LEMMA ActiveIs ==
  ASSUME NEW p \in C!Program, C!ValidProgram(p), NEW m \in Int
  PROVE  /\ \A s : s \in C!Active(p, m) <=>
                     p.enabled /\ \E d \in Int : s = C!StartOn(p, d) /\ RunsOn(p, d, m)
         /\ C!Active(p, m) \subseteq Int /\ \A s \in C!Active(p, m) : s <= m
<1> DEFINE len == C!occurrenceLength(p)
<1>1. /\ \A d \in Int : C!StartOn(p, d) \in Int
      /\ len \in Int /\ C!floorDay(m) \in Int /\ Back(p) \in Int
  <2>1. Offset(p) \in Int /\ len \in Int /\ DayLen \in Nat \ {0}
    BY Lengths, WeekAssumption
  <2>2. len + DayLen - 1 \in Int /\ Back(p) = C!floorDay(len + DayLen - 1)
    BY <2>1 DEF Back, C!floorDay
  <2> QED
    BY <2>1, <2>2, FloorDay, Starts
<1>2. C!Active(p, m) =
        IF ~p.enabled THEN {}
        ELSE {C!StartOn(p, d) :
                d \in {e \in C!floorDay(m) - Back(p) .. C!floorDay(m) :
                        C!occursOn(p, e) /\ m \in C!StartOn(p, e) .. C!StartOn(p, e) + len - 1}}
  BY DEF C!Active, Back
<1>3. ASSUME NEW s, s \in C!Active(p, m)
      PROVE  p.enabled /\ \E d \in Int : s = C!StartOn(p, d) /\ RunsOn(p, d, m)
  <2>1. p.enabled
    BY <1>2, <1>3
  <2>2. PICK d \in C!floorDay(m) - Back(p) .. C!floorDay(m) :
          /\ s = C!StartOn(p, d) /\ C!occursOn(p, d)
          /\ m \in C!StartOn(p, d) .. C!StartOn(p, d) + len - 1
    BY <1>2, <1>3, <2>1
  <2>3. d \in Int
    BY <1>1, <2>2
  <2> QED
    BY <1>1, <2>1, <2>2, <2>3 DEF RunsOn
<1>4. ASSUME p.enabled, NEW d \in Int, RunsOn(p, d, m) PROVE C!StartOn(p, d) \in C!Active(p, m)
  <2>1. d \in C!floorDay(m) - Back(p) .. C!floorDay(m)
    BY <1>1, <1>4, CoverDays DEF RunsOn
  <2>2. C!occursOn(p, d) /\ m \in C!StartOn(p, d) .. C!StartOn(p, d) + len - 1
    BY <1>1, <1>4 DEF RunsOn
  <2> QED
    BY <1>2, <1>4, <2>1, <2>2
<1>5. \A s \in C!Active(p, m) : s \in Int /\ s <= m
  BY <1>1, <1>3 DEF RunsOn
<1> QED
  BY <1>3, <1>4, <1>5

(* The occurrences of minute m, the best of some, and the evaluation by    *)
(* them.                                                                   *)
Occurrences(m) ==
  {[index |-> i, start |-> C!Max(C!Active(progs[i], m))] :
     i \in {j \in DOMAIN progs : C!Active(progs[j], m) # {}}} \ {hold}

BestOf(B) ==
  IF B = {} THEN C!NoOccurrence ELSE CHOOSE o \in B : \A q \in B \ {o} : C!better(o, q)

LEMMA EvalIs ==
  ASSUME NEW m
  PROVE  C!evalAt(m) =
           [climate |-> BestOf({o \in Occurrences(m) : progs[o.index].action # "VENTILATE"}),
            vent |-> BestOf({o \in Occurrences(m) : progs[o.index].action = "VENTILATE"})]
BY Zenon DEF C!evalAt, BestOf, Occurrences

(* The evaluation changes with the active occurrences only.                *)
LEMMA SameEval ==
  ASSUME NEW a, NEW b, \A i \in DOMAIN progs : C!Active(progs[i], a) = C!Active(progs[i], b)
  PROVE  C!evalAt(a) = C!evalAt(b)
<1>1. Occurrences(a) = Occurrences(b)
  <2> DEFINE Of(m) == {[index |-> i, start |-> C!Max(C!Active(progs[i], m))] :
                          i \in {j \in DOMAIN progs : C!Active(progs[j], m) # {}}}
  <2>1. Of(a) \subseteq Of(b) /\ Of(b) \subseteq Of(a)
    OBVIOUS
  <2>2. Occurrences(a) = Of(a) \ {hold} /\ Occurrences(b) = Of(b) \ {hold}
    BY DEF Occurrences
  <2> HIDE DEF Of
  <2> QED
    BY <2>1, <2>2
<1> QED
  BY <1>1, EvalIs, Zenon

(* The programs are valid, and the clock is a minute.                      *)
WeekInv == C!validatePrograms(progs) /\ now \in Nat

LEMMA ValidNow ==
  ASSUME WeekInv, NEW i \in DOMAIN progs
  PROVE  progs[i] \in C!Program /\ C!ValidProgram(progs[i]) /\ i \in Nat /\ i > 0
BY ElementOfSeq, LenProperties DEF WeekInv, C!validatePrograms

Boundaries ==
  UNION {UNION {{C!StartOn(progs[i], d), C!StartOn(progs[i], d) + C!occurrenceLength(progs[i])} :
                  d \in {e \in C!floorDay(now) - WeekLen .. C!floorDay(now) + WeekLen + 1 :
                           C!occursOn(progs[i], e)}} :
           i \in {j \in DOMAIN progs : progs[j].enabled}}

LEMMA NextIs ==
  C!NextChange =
    LET changes == {m \in Boundaries : m > now /\ m <= C!horizon /\ C!evalAt(m) # C!evalAt(now)}
    IN  IF changes = {} THEN -1 ELSE C!Min(changes)
BY Zenon DEF C!NextChange, Boundaries

(* A program that is active otherwise than a minute before starts or ends  *)
(* an occurrence.                                                          *)
LEMMA TurnsAtBounds ==
  ASSUME WeekInv, NEW i \in DOMAIN progs, NEW m \in Int, now < m, m <= C!horizon,
         C!Active(progs[i], m) # C!Active(progs[i], m - 1)
  PROVE  m \in Boundaries
<1> DEFINE p == progs[i]
           len == C!occurrenceLength(p)
<1>1. p \in C!Program /\ C!ValidProgram(p)
  BY ValidNow
<1>2. now \in Nat /\ m - 1 \in Int /\ DayLen \in Nat \ {0} /\ WeekLen \in Nat \ {0}
  BY WeekAssumption DEF WeekInv
<1> HIDE DEF p
<1>3. len \in Nat \ {0} /\ Offset(p) \in Nat /\ Offset(p) < DayLen /\ len <= Midnight(WeekLen)
  <2>1. Midnight(WeekLen) \in Int
    BY <1>2, Midnights
  <2> QED
    BY <1>1, <1>2, <2>1, Lengths
<1> HIDE DEF len
<1>4. \A d \in Int : C!StartOn(p, d) \in Int /\ C!StartOn(p, d) = Midnight(d) + Offset(p) /\ Midnight(d) \in Int
  <2>1. Offset(p) \in Int
    BY <1>3
  <2> QED
    BY <2>1, Starts, Midnights
<1>5. PICK d \in Int : p.enabled /\ (RunsOn(p, d, m) <=> ~RunsOn(p, d, m - 1))
  <2>1. PICK s : s \in C!Active(p, m) <=> s \notin C!Active(p, m - 1)
    BY DEF p
  <2>2. \A m0 \in Int : s \in C!Active(p, m0) <=>
          p.enabled /\ \E d \in Int : s = C!StartOn(p, d) /\ RunsOn(p, d, m0)
    BY <1>1, ActiveIs
  <2> QED
    BY <1>2, <2>1, <2>2, Zenon
<1>6. C!occursOn(p, d) /\ (m = C!StartOn(p, d) \/ m = C!StartOn(p, d) + len)
  BY <1>2, <1>3, <1>4, <1>5 DEF RunsOn, len
<1>7. d \in C!floorDay(now) - WeekLen .. C!floorDay(now) + WeekLen + 1
  <2>1. C!floorDay(now) \in Int
    BY <1>2, FloorDay
  <2>2. C!floorDay(now) - WeekLen <= d
    <3>1. /\ Midnight(C!floorDay(now)) <= now
          /\ d + WeekLen \in Int /\ Midnight(d + WeekLen) = Midnight(d) + Midnight(WeekLen)
          /\ Midnight(d) \in Int /\ Midnight(WeekLen) \in Int
      <4>1. d \in Int /\ WeekLen \in Int /\ d + WeekLen \in Int
        BY <1>2
      <4>2. Midnight(C!floorDay(now)) <= now
        BY <1>2, FloorDay
      <4> QED
        BY <4>1, <4>2, Midnights
    <3>2. now < Midnight(d + WeekLen) + DayLen
      BY <1>2, <1>3, <1>4, <1>6, <3>1
    <3>3. C!floorDay(now) <= d + WeekLen
      BY <1>2, <3>1, <3>2, DayOf
    <3> QED
      BY <1>2, <2>1, <3>3
  <2>3. d <= C!floorDay(now) + WeekLen + 1
    <3>1. m <= now + Midnight(WeekLen + 1)
      BY <1>2 DEF C!horizon, Midnight
    <3>2. Midnight(d) <= now + Midnight(WeekLen + 1)
      <4>1. WeekLen + 1 \in Int /\ Midnight(WeekLen + 1) \in Int
        BY <1>2, Midnights
      <4> QED
        BY <1>2, <1>3, <1>4, <1>6, <3>1, <4>1
    <3>3. /\ now < Midnight(C!floorDay(now)) + DayLen
          /\ Midnight(C!floorDay(now) + (WeekLen + 1)) = Midnight(C!floorDay(now)) + Midnight(WeekLen + 1)
          /\ Midnight(C!floorDay(now)) \in Int /\ Midnight(WeekLen + 1) \in Int
      <4>1. WeekLen + 1 \in Int
        BY <1>2
      <4>2. now < Midnight(C!floorDay(now)) + DayLen
        BY <1>2, FloorDay
      <4> QED
        BY <2>1, <4>1, <4>2, Midnights
    <3>4. Midnight(d) < Midnight(C!floorDay(now) + (WeekLen + 1)) + DayLen
      BY <1>2, <1>4, <3>2, <3>3
    <3>5. C!floorDay(now) + (WeekLen + 1) \in Int
      BY <1>2, <2>1
    <3>6. C!floorDay(now) + (WeekLen + 1) < d =>
            Midnight(C!floorDay(now) + (WeekLen + 1)) + DayLen <= Midnight(d)
      BY <3>5, Midnights
    <3> QED
      BY <1>2, <1>4, <2>1, <3>3, <3>4, <3>6
  <2> QED
    BY <1>2, <2>1, <2>2, <2>3
<1>8. m \in {C!StartOn(p, d), C!StartOn(p, d) + C!occurrenceLength(p)}
  BY <1>6 DEF len
<1> QED
  BY <1>5, <1>6, <1>7, <1>8 DEF Boundaries, p

(* The least of a set and of a part of it, when it is in the part.         *)
LEMMA LeastOfPart ==
  ASSUME NEW X, NEW B, X \subseteq Nat, B \subseteq X, X # {} => C!Min(X) \in B
  PROVE  (IF B = {} THEN -1 ELSE C!Min(B)) = (IF X = {} THEN -1 ELSE C!Min(X))
<1>1. CASE X = {}
  BY <1>1
<1>2. CASE X # {}
  <2>1. C!Min(X) \in X /\ \A y \in X : C!Min(X) <= y
    BY <1>2, MinFacts
  <2>2. B \subseteq Nat /\ B # {}
    BY <1>2
  <2>3. C!Min(B) \in B /\ \A y \in B : C!Min(B) <= y
    BY <2>2, MinFacts
  <2>4. C!Min(X) \in Nat /\ C!Min(B) \in Nat /\ C!Min(B) \in X
    BY <2>1, <2>3
  <2>5. C!Min(X) <= C!Min(B) /\ C!Min(B) <= C!Min(X)
    BY <1>2, <2>1, <2>3, <2>4
  <2> QED
    BY <1>2, <2>2, <2>4, <2>5
<1> QED
  BY <1>1, <1>2

LEMMA NextIsFirst == ASSUME WeekInv PROVE C!NextChangeIsNext
<1> DEFINE Differs(m) == C!evalAt(m) # C!evalAt(now)
           first == {m \in now + 1 .. C!horizon : Differs(m)}
           tried == {m \in Boundaries : m > now /\ m <= C!horizon /\ Differs(m)}
<1>1. now \in Nat /\ C!horizon \in Int
  <2>1. now \in Nat /\ WeekLen \in Nat /\ DayLen \in Nat
    BY WeekAssumption DEF WeekInv
  <2> QED
    BY <2>1 DEF C!horizon
<1>2. C!NextChange = IF tried = {} THEN -1 ELSE C!Min(tried)
  BY NextIs
<1>3. C!NextChangeIsNext <=> C!NextChange = IF first = {} THEN -1 ELSE C!Min(first)
  BY DEF C!NextChangeIsNext
<1>4. Boundaries \subseteq Int
  <2> SUFFICES ASSUME NEW i \in DOMAIN progs, NEW d \in C!floorDay(now) - WeekLen .. C!floorDay(now) + WeekLen + 1
               PROVE  {C!StartOn(progs[i], d), C!StartOn(progs[i], d) + C!occurrenceLength(progs[i])} \subseteq Int
    BY DEF Boundaries
  <2>1. d \in Int
    BY <1>1, FloorDay, WeekAssumption
  <2>2. C!occurrenceLength(progs[i]) \in Int /\ Offset(progs[i]) \in Int
    BY ValidNow, Lengths, WeekAssumption
  <2> QED
    BY <2>1, <2>2, Starts
<1>5. ~Differs(now)
  OBVIOUS
<1>6. ASSUME NEW m \in Int, now < m, m <= C!horizon, Differs(m), ~Differs(m - 1)
      PROVE  m \in Boundaries
  <2>1. PICK i \in DOMAIN progs : C!Active(progs[i], m) # C!Active(progs[i], m - 1)
    BY <1>6, SameEval
  <2> QED
    BY <1>6, <2>1, TurnsAtBounds
<1> HIDE DEF Differs
<1>7. tried \subseteq first /\ first \subseteq Nat /\ first \intersect Boundaries \subseteq tried
  <2>1. tried \subseteq first
    <3> SUFFICES ASSUME NEW m \in Boundaries, m > now, m <= C!horizon, Differs(m)
                 PROVE  m \in now + 1 .. C!horizon
      OBVIOUS
    <3>1. m \in Int
      BY <1>4
    <3> QED
      BY <1>1, <3>1
  <2>2. first \subseteq Nat
    BY <1>1
  <2>3. first \intersect Boundaries \subseteq tried
    BY <1>1
  <2> QED
    BY <2>1, <2>2, <2>3
<1>8. \A m \in first : m - 1 \in first \/ ~Differs(m - 1)
  <2> SUFFICES ASSUME NEW m \in first, Differs(m - 1) PROVE m - 1 \in first
    OBVIOUS
  <2>1. m \in Int /\ now < m /\ m <= C!horizon /\ m - 1 # now
    BY <1>1, <1>5
  <2> QED
    BY <1>1, <2>1
<1>9. \A m \in first : m \in Int /\ now < m /\ m <= C!horizon /\ Differs(m)
  BY <1>1
<1> HIDE DEF first, tried
<1>10. ASSUME first # {} PROVE C!Min(first) \in tried
  <2>1. PICK m : m = C!Min(first)
    OBVIOUS
  <2>2. m \in first /\ \A y \in first : m <= y
    BY <1>7, <1>10, <2>1, MinFacts
  <2>3. m - 1 \notin first
    BY <1>9, <2>2
  <2> QED
    BY <1>6, <1>7, <1>8, <1>9, <2>1, <2>2, <2>3
<1>11. (IF tried = {} THEN -1 ELSE C!Min(tried)) = (IF first = {} THEN -1 ELSE C!Min(first))
  BY <1>7, <1>10, LeastOfPart
<1> QED
  BY <1>2, <1>3, <1>11

(* Among occurrences there is a best one: of the highest class, then the   *)
(* latest start, then the lowest index.                                    *)
LEMMA BestIn ==
  ASSUME NEW B, B # {}, NEW high \in Int,
         \A o \in B : /\ o = [index |-> o.index, start |-> o.start] /\ o.index \in DOMAIN progs
                      /\ o.index \in Nat /\ progs[o.index] \in C!Program
                      /\ o.start \in Int /\ o.start <= high
  PROVE  BestOf(B) \in B
<1> DEFINE Class(o) == C!classOf(progs[o.index].kind)
           classes == {Class(o) : o \in B}
<1>1. \A o \in B : Class(o) \in 1 .. 3
  BY DEF C!Program, C!classOf
<1> HIDE DEF Class
<1>2. classes \subseteq Int /\ classes # {} /\ \E h \in Int : \A c \in classes : c <= h
  <2>1. classes \subseteq 1 .. 3 /\ classes # {}
    BY <1>1
  <2> HIDE DEF classes
  <2>2. \A c \in classes : c \in Int /\ c <= 3
    BY <2>1
  <2> QED
    BY <2>1, <2>2
<1>3. PICK c \in classes : \A k \in classes : k <= c
  <2> HIDE DEF classes
  <2>1. C!Max(classes) \in classes /\ \A k \in classes : k <= C!Max(classes)
    BY <1>2, MaxFacts
  <2> QED
    BY <2>1
<1> DEFINE B1 == {o \in B : Class(o) = c}
           starts == {o.start : o \in B1}
<1>4. starts \subseteq Int /\ starts # {} /\ \E h \in Int : \A s \in starts : s <= h
  BY <1>3
<1>5. PICK s \in starts : \A k \in starts : k <= s
  BY <1>4, MaxFacts
<1> DEFINE B2 == {o \in B1 : o.start = s}
           indexes == {o.index : o \in B2}
<1>6. indexes \subseteq Nat /\ indexes # {}
  BY <1>5
<1>7. PICK n \in indexes : \A k \in indexes : n <= k
  BY <1>6, LeastNat
<1>8. PICK o \in B : Class(o) = c /\ o.start = s /\ o.index = n
  BY <1>7
<1>9. ASSUME NEW q \in B \ {o} PROVE C!better(o, q)
  <2>1. /\ Class(q) \in Int /\ c \in Int /\ Class(q) <= c
        /\ q.start \in Int /\ s \in Int /\ q.index \in Nat /\ n \in Nat
    BY <1>1, <1>2, <1>3, <1>4, <1>5, <1>6, <1>7
  <2>2. Class(q) = c => q.start <= s
    BY <1>5
  <2>3. Class(q) = c /\ q.start = s => n <= q.index
    BY <1>7
  <2>4. q.start = s => q.index # n
    BY <1>8, <1>9
  <2>5. \/ Class(o) > Class(q)
        \/ Class(o) = Class(q) /\ o.start > q.start
        \/ Class(o) = Class(q) /\ o.start = q.start /\ o.index < q.index
    BY <1>8, <2>1, <2>2, <2>3, <2>4
  <2> QED
    BY <2>5 DEF C!better, Class
<1>10. \E x \in B : \A q \in B \ {x} : C!better(x, q)
  BY <1>9
<1>11. BestOf(B) = CHOOSE x \in B : \A q \in B \ {x} : C!better(x, q)
  BY DEF BestOf
<1> QED
  BY <1>10, <1>11, Zenon

(* What is applied runs.                                                   *)
Applied(i) == i \in {C!evalAt(now).climate.index, C!evalAt(now).vent.index}

LEMMA AppliedRuns ==
  ASSUME WeekInv, NEW i \in DOMAIN progs, Applied(i)
  PROVE  C!Active(progs[i], now) # {}
<1>1. now \in Int
  BY DEF WeekInv
<1>2. ASSUME NEW o \in Occurrences(now)
      PROVE  /\ o = [index |-> o.index, start |-> o.start] /\ o.index \in DOMAIN progs
             /\ o.index \in Nat /\ progs[o.index] \in C!Program
             /\ o.start \in Int /\ o.start <= now
             /\ C!Active(progs[o.index], now) # {}
  <2>1. PICK j \in DOMAIN progs : /\ C!Active(progs[j], now) # {}
                                  /\ o = [index |-> j, start |-> C!Max(C!Active(progs[j], now))]
    BY DEF Occurrences
  <2>2. progs[j] \in C!Program /\ C!ValidProgram(progs[j]) /\ j \in Nat
    BY ValidNow
  <2>3. C!Active(progs[j], now) \subseteq Int /\ \A s \in C!Active(progs[j], now) : s <= now
    BY <1>1, <2>2, ActiveIs
  <2>4. C!Max(C!Active(progs[j], now)) \in C!Active(progs[j], now)
    BY <1>1, <2>1, <2>3, MaxFacts
  <2> QED
    BY <2>1, <2>2, <2>3, <2>4
<1>3. ASSUME NEW B, B \subseteq Occurrences(now), BestOf(B).index = i
      PROVE  C!Active(progs[i], now) # {}
  <2>1. B # {}
    <3>1. i > 0
      BY ValidNow
    <3> QED
      BY <1>3, <3>1 DEF BestOf, C!NoOccurrence
  <2>2. \A o \in B : /\ o = [index |-> o.index, start |-> o.start] /\ o.index \in DOMAIN progs
                     /\ o.index \in Nat /\ progs[o.index] \in C!Program
                     /\ o.start \in Int /\ o.start <= now
    BY <1>2, <1>3
  <2>3. BestOf(B) \in B
    BY <1>1, <2>1, <2>2, BestIn
  <2> QED
    BY <1>2, <1>3, <2>3
<1>4. \/ BestOf({o \in Occurrences(now) : progs[o.index].action # "VENTILATE"}).index = i
      \/ BestOf({o \in Occurrences(now) : progs[o.index].action = "VENTILATE"}).index = i
  BY EvalIs DEF Applied
<1> QED
  BY <1>3, <1>4

(* The bars of the page.                                                   *)
Bar(i, d, day) ==
  [row |-> day - C!monday,
   from |-> C!Max({C!StartOn(progs[i], d), Midnight(day)}) - Midnight(day),
   to |-> C!Min({C!StartOn(progs[i], d) + C!progLen(progs[i]), Midnight(day + 1)}) - Midnight(day),
   on |-> Applied(i) /\ now >= C!StartOn(progs[i], d)
                     /\ now < C!StartOn(progs[i], d) + C!progLen(progs[i])]

LEMMA BarsAre ==
  ASSUME NEW i
  PROVE  C!Bars(i) =
           IF ~progs[i].enabled THEN {}
           ELSE {b \in UNION {{Bar(i, d, day) :
                                 day \in C!floorDay(C!StartOn(progs[i], d)) ..
                                         C!floorDay((C!StartOn(progs[i], d) + C!progLen(progs[i])) - 1)} :
                                d \in {e \in C!monday - WeekLen .. C!monday + WeekLen - 1 :
                                         C!shownOn(progs[i], e)}} :
                   b.row \in 0 .. WeekLen - 1}
BY Zenon DEF C!Bars, C!StartOn, Bar, Applied, Midnight

LEMMA Extremes ==
  ASSUME NEW a \in Int, NEW b \in Int
  PROVE  C!Max({a, b}) = (IF a >= b THEN a ELSE b) /\ C!Min({a, b}) = (IF a <= b THEN a ELSE b)
BY DEF C!Max, C!Min

LEMMA ShownIs ==
  ASSUME NEW p \in C!Program, NEW d \in Int
  PROVE  C!shownOn(p, d) <=> C!occursOn(p, d)
BY DEF C!shownOn, C!occursOn, C!Program

(* A bar marks the minutes of its day that its occurrence covers.          *)
LEMMA BarMarks ==
  ASSUME WeekInv, NEW i \in DOMAIN progs, NEW d \in Int, NEW day \in Int, NEW m \in Int
  PROVE  /\ C!Marks(Bar(i, d, day), m) <=>
              /\ day = C!floorDay(m)
              /\ C!StartOn(progs[i], d) <= m
              /\ m < C!StartOn(progs[i], d) + C!occurrenceLength(progs[i])
         /\ Bar(i, d, day).on <=>
              /\ Applied(i) /\ C!StartOn(progs[i], d) <= now
              /\ now < C!StartOn(progs[i], d) + C!occurrenceLength(progs[i])
<1> DEFINE begin == C!StartOn(progs[i], d)
           end == begin + C!occurrenceLength(progs[i])
           b == Bar(i, d, day)
<1>1. begin \in Int /\ end \in Int /\ C!progLen(progs[i]) = C!occurrenceLength(progs[i])
  BY ValidNow, Lengths, Starts, WeekAssumption
<1>2. /\ Midnight(day) \in Int /\ Midnight(day + 1) \in Int
      /\ Midnight(day + 1) = Midnight(day) + DayLen
  BY Midnights
<1>3. /\ b.row = day - C!monday
      /\ b.from = C!Max({begin, Midnight(day)}) - Midnight(day)
      /\ b.to = C!Min({end, Midnight(day + 1)}) - Midnight(day)
      /\ b.on <=> Applied(i) /\ now >= begin /\ now < end
  BY <1>1 DEF Bar
<1>4. /\ C!monday \in Int /\ C!floorDay(m) \in Int /\ now \in Int /\ DayLen \in Nat
      /\ Midnight(C!floorDay(m)) <= m /\ m < Midnight(C!floorDay(m)) + DayLen
      /\ m % DayLen = m - Midnight(C!floorDay(m)) /\ Midnight(C!floorDay(m)) \in Int
  <2>1. now \in Int /\ DayLen \in Nat /\ WeekLen \in Nat \ {0}
    BY WeekAssumption DEF WeekInv
  <2>2. C!monday \in Int
    BY <2>1, FloorDay DEF C!monday
  <2> QED
    BY <2>1, <2>2, FloorDay, Midnights
<1>5. C!Marks(b, m) <=> b.row = C!floorDay(m) - C!monday /\ m % DayLen \in b.from .. b.to - 1
  BY DEF C!Marks
<1> HIDE DEF begin, end, b
<1>6. /\ b.from = (IF begin >= Midnight(day) THEN begin ELSE Midnight(day)) - Midnight(day)
      /\ b.to = (IF end <= Midnight(day + 1) THEN end ELSE Midnight(day + 1)) - Midnight(day)
  BY <1>1, <1>2, <1>3, Extremes
<1>7. C!Marks(b, m) <=> day = C!floorDay(m) /\ begin <= m /\ m < end
  <2>1. CASE day = C!floorDay(m)
    <3>1. /\ Midnight(day) <= m /\ m < Midnight(day + 1) /\ m % DayLen = m - Midnight(day)
          /\ b.row = C!floorDay(m) - C!monday
      BY <1>2, <1>3, <1>4, <2>1
    <3>2. b.from \in Int /\ b.to \in Int
      BY <1>1, <1>2, <1>6
    <3>3. C!Marks(b, m) <=> b.from <= m - Midnight(day) /\ m - Midnight(day) < b.to
      BY <1>2, <1>5, <3>1, <3>2
    <3>4. b.from <= m - Midnight(day) <=> begin <= m
      BY <1>1, <1>2, <1>6, <3>1
    <3>5. m - Midnight(day) < b.to <=> m < end
      BY <1>1, <1>2, <1>6, <3>1
    <3> QED
      BY <2>1, <3>3, <3>4, <3>5
  <2>2. CASE day # C!floorDay(m)
    <3>1. day - C!monday # C!floorDay(m) - C!monday
      BY <1>4, <2>2
    <3>2. ~C!Marks(b, m)
      BY <1>3, <1>5, <3>1, Zenon
    <3> QED
      BY <2>2, <3>2
  <2> QED
    BY <2>1, <2>2
<1>8. b.on <=> Applied(i) /\ begin <= now /\ now < end
  BY <1>1, <1>3, <1>4
<1> QED
  BY <1>7, <1>8 DEF b, begin, end

(* The week drawn holds the day of this minute.                            *)
LEMMA Monday ==
  ASSUME WeekInv
  PROVE  C!monday \in Int /\ C!monday <= C!floorDay(now) /\ C!floorDay(now) < C!monday + WeekLen
<1>1. C!floorDay(now) \in Int /\ WeekLen \in Nat \ {0}
  BY FloorDay, WeekAssumption DEF WeekInv
<1>2. C!floorDay(now) % WeekLen \in 0 .. WeekLen - 1
  BY <1>1
<1> QED
  BY <1>1, <1>2 DEF C!monday

(* A minute of the week drawn has a bar of the program when the program is *)
(* active in it, one that stands out at this minute if it is applied.      *)
LEMMA BarsShow ==
  ASSUME WeekInv, NEW i \in DOMAIN progs, NEW m \in Int,
         C!floorDay(m) \in C!monday .. C!monday + WeekLen - 1
  PROVE  /\ (\E b \in C!Bars(i) : C!Marks(b, m)) <=> C!Active(progs[i], m) # {}
         /\ m = now => \A b \in C!Bars(i) : C!Marks(b, m) => (b.on <=> Applied(i))
<1> DEFINE p == progs[i]
           len == C!occurrenceLength(p)
<1>1. p \in C!Program /\ C!ValidProgram(p)
  BY ValidNow
<1>2. /\ \A d \in Int : C!StartOn(p, d) \in Int
      /\ len \in Nat \ {0} /\ C!progLen(p) = len /\ WeekLen \in Nat \ {0}
  BY <1>1, Lengths, Starts, WeekAssumption
<1>3. C!monday \in Int /\ C!floorDay(m) \in Int
  BY Monday, FloorDay
<1>4. ASSUME NEW b \in C!Bars(i), C!Marks(b, m)
      PROVE  /\ p.enabled /\ \E d \in Int : RunsOn(p, d, m)
             /\ m = now => (b.on <=> Applied(i))
  <2>1. PICK d \in C!monday - WeekLen .. C!monday + WeekLen - 1 :
          /\ p.enabled /\ C!shownOn(p, d)
          /\ \E day \in C!floorDay(C!StartOn(p, d)) .. C!floorDay((C!StartOn(p, d) + C!progLen(p)) - 1) :
               b = Bar(i, d, day)
    BY <1>4, BarsAre
  <2> PICK day \in C!floorDay(C!StartOn(p, d)) .. C!floorDay((C!StartOn(p, d) + C!progLen(p)) - 1) :
             b = Bar(i, d, day)
    BY <2>1
  <2>2. d \in Int
    BY <1>2, <1>3
  <2>3. (C!StartOn(p, d) + C!progLen(p)) - 1 \in Int /\ C!StartOn(p, d) \in Int
    BY <1>2, <2>2
  <2>4. day \in Int
    BY <2>3, FloorDay
  <2>5. C!StartOn(p, d) <= m /\ m < C!StartOn(p, d) + len
    BY <1>4, <2>1, <2>2, <2>4, BarMarks
  <2>6. b.on <=> Applied(i) /\ C!StartOn(p, d) <= now /\ now < C!StartOn(p, d) + len
    BY <2>1, <2>2, <2>4, BarMarks
  <2> QED
    BY <1>1, <2>1, <2>2, <2>5, <2>6, ShownIs DEF RunsOn
<1>5. ASSUME p.enabled, NEW d \in Int, RunsOn(p, d, m)
      PROVE  \E b \in C!Bars(i) : C!Marks(b, m)
  <2> DEFINE day == C!floorDay(m)
             b == Bar(i, d, day)
             begin == C!StartOn(p, d)
  <2>1. begin <= m /\ m < begin + len /\ C!shownOn(p, d)
    BY <1>1, <1>5, ShownIs DEF RunsOn
  <2>2. begin \in Int /\ day \in Int /\ (begin + len) - 1 \in Int
    BY <1>2, <1>3
  <2>3. C!Marks(b, m)
    BY <2>1, <2>2, BarMarks
  <2>4. d \in C!monday - WeekLen .. C!monday + WeekLen - 1
    <3>1. d <= C!floorDay(m) /\ C!floorDay(m) - WeekLen <= d
      BY <1>1, <2>1, CoverDays
    <3> QED
      BY <1>2, <1>3, <3>1
  <2>5. day \in C!floorDay(begin) .. C!floorDay((begin + len) - 1)
    <3>1. /\ Midnight(C!floorDay(begin)) <= begin /\ C!floorDay(begin) \in Int
          /\ Midnight(C!floorDay(begin)) \in Int
      BY <2>2, FloorDay, Midnights
    <3>2. C!floorDay(begin) <= day
      BY <2>1, <2>2, <3>1, DayOf
    <3>3. Midnight(day) <= m /\ Midnight(day) \in Int
      BY <2>2, FloorDay, Midnights
    <3>4. Midnight(day) <= (begin + len) - 1
      BY <1>2, <2>1, <2>2, <3>3
    <3>5. day <= C!floorDay((begin + len) - 1) /\ C!floorDay((begin + len) - 1) \in Int
      BY <2>2, <3>4, DayOf, FloorDay
    <3> QED
      BY <2>2, <3>1, <3>2, <3>5
  <2>6. b.row \in 0 .. WeekLen - 1
    <3>1. b.row = day - C!monday
      BY DEF Bar
    <3> QED
      BY <1>2, <1>3, <3>1
  <2>7. b \in C!Bars(i)
    BY <1>2, <1>5, <2>1, <2>4, <2>5, <2>6, BarsAre
  <2> QED
    BY <2>3, <2>7
<1>6. C!Active(p, m) # {} <=> p.enabled /\ \E d \in Int : RunsOn(p, d, m)
  BY <1>1, ActiveIs
<1> QED
  BY <1>4, <1>5, <1>6

LEMMA WeekIsShown == ASSUME WeekInv PROVE C!WeekShowsRuns
<1> SUFFICES ASSUME NEW i \in DOMAIN progs
             PROVE  /\ \A m \in C!monday * DayLen .. (C!monday + WeekLen) * DayLen - 1 :
                         (\E b \in C!Bars(i) : C!Marks(b, m)) <=> C!Active(progs[i], m) # {}
                    /\ (\E b \in C!Bars(i) : b.on /\ C!Marks(b, now)) <=> Applied(i)
  BY DEF C!WeekShowsRuns, Applied
<1>1. now \in Int /\ WeekLen \in Nat \ {0} /\ C!floorDay(now) \in Int /\ C!monday \in Int
  BY FloorDay, Monday, WeekAssumption DEF WeekInv
<1>2. ASSUME NEW m \in C!monday * DayLen .. (C!monday + WeekLen) * DayLen - 1
      PROVE  (\E b \in C!Bars(i) : C!Marks(b, m)) <=> C!Active(progs[i], m) # {}
  <2>1. /\ m \in Int /\ Midnight(C!monday) <= m /\ m < Midnight(C!monday + WeekLen)
    <3>1. Midnight(C!monday) \in Int /\ Midnight(C!monday + WeekLen) \in Int
      BY <1>1, Midnights
    <3> QED
      BY <3>1, <1>2 DEF Midnight
  <2>2. C!floorDay(m) \in Int /\ C!monday <= C!floorDay(m)
    BY <1>1, <2>1, FloorDay, DayOf
  <2>3. C!floorDay(m) < C!monday + WeekLen
    <3>1. Midnight(C!floorDay(m)) <= m /\ Midnight(C!floorDay(m)) \in Int
      BY <2>1, FloorDay, Midnights
    <3>2. C!monday + WeekLen \in Int
      BY <1>1
    <3>3. Midnight(C!monday + WeekLen) \in Int /\ DayLen \in Nat
      BY <3>2, Midnights, WeekAssumption
    <3>4. C!monday + WeekLen < C!floorDay(m) =>
            Midnight(C!monday + WeekLen) + DayLen <= Midnight(C!floorDay(m))
      BY <2>2, <3>2, Midnights
    <3>5. C!monday + WeekLen # C!floorDay(m)
      BY <2>1, <3>1, <3>3
    <3> QED
      BY <2>1, <2>2, <3>1, <3>2, <3>3, <3>4, <3>5
  <2>4. C!floorDay(m) \in C!monday .. C!monday + WeekLen - 1
    BY <1>1, <2>2, <2>3
  <2> QED
    BY <2>1, <2>4, BarsShow
<1>3. (\E b \in C!Bars(i) : b.on /\ C!Marks(b, now)) <=> Applied(i)
  <2>1. C!floorDay(now) \in C!monday .. C!monday + WeekLen - 1
    BY <1>1, Monday
  <2>2. /\ (\E b \in C!Bars(i) : C!Marks(b, now)) <=> C!Active(progs[i], now) # {}
        /\ \A b \in C!Bars(i) : C!Marks(b, now) => (b.on <=> Applied(i))
    BY <1>1, <2>1, BarsShow
  <2> QED
    BY <2>2, AppliedRuns
<1> QED
  BY <1>2, <1>3

(* Pausing a program or starting it again leaves the list valid.           *)
LEMMA PausedIsValid ==
  ASSUME WeekInv, NEW i \in DOMAIN progs, C!setPrograms(i)
  PROVE  C!validatePrograms(progs')
<1> DEFINE p == progs[i]
           q == [p EXCEPT !.enabled = ~p.enabled]
<1>1. p \in C!Program /\ C!ValidProgram(p) /\ progs \in Seq(C!Program)
  BY ValidNow DEF WeekInv, C!validatePrograms
<1>2. progs' = [progs EXCEPT ![i] = q]
  BY DEF C!setPrograms
<1>3. q \in C!Program
  BY <1>1 DEF C!Program
<1>4. /\ q.kind = p.kind /\ q.days = p.days /\ q.from = p.from /\ q.to = p.to /\ q.end = p.end
      /\ q.start = p.start /\ q.until = p.until /\ q.duration = p.duration
  BY <1>1 DEF C!Program
<1> HIDE DEF p, q
<1>5. C!ValidProgram(q)
  BY <1>1, <1>4 DEF C!ValidProgram
<1>6. progs' \in Seq(C!Program) /\ DOMAIN progs' = DOMAIN progs
  BY <1>1, <1>2, <1>3, ExceptSeq
<1>7. \A k \in DOMAIN progs : progs'[k] = IF k = i THEN q ELSE progs[k]
  BY <1>2
<1>8. \A k \in DOMAIN progs : C!ValidProgram(progs[k])
  BY ValidNow
<1> QED
  BY <1>5, <1>6, <1>7, <1>8 DEF C!validatePrograms

LEMMA WeekNext == WeekInv /\ [C!Next]_(C!vars) => WeekInv'
<1> SUFFICES ASSUME WeekInv, [C!Next]_(C!vars) PROVE WeekInv'
  OBVIOUS
<1>1. CASE C!Minute \/ C!programHold \/ UNCHANGED C!vars
  <2>1. progs' = progs /\ now' \in Nat
    BY <1>1 DEF C!Minute, C!programHold, C!vars, WeekInv
  <2> QED
    BY <2>1 DEF WeekInv, C!validatePrograms, C!ValidProgram, C!Program
<1>2. ASSUME NEW i \in DOMAIN progs, C!setPrograms(i) PROVE WeekInv'
  <2>1. now' = now
    BY <1>2 DEF C!setPrograms
  <2>2. C!validatePrograms(progs')
    BY <1>2, PausedIsValid
  <2> QED
    BY <2>1, <2>2 DEF WeekInv
<1> QED
  BY <1>1, <1>2 DEF C!Next

LEMMA WeekInit == C!Init => WeekInv
<1> SUFFICES ASSUME C!Init PROVE WeekInv
  OBVIOUS
<1>1. now \in Nat
  BY WeekAssumption DEF C!Init
<1> QED
  BY <1>1, WeekAssumption DEF WeekInv, C!Init

LEMMA WeekInvariance == ConsoleSpec => []WeekInv
<1>1. ConsoleInit => WeekInv
  BY WeekInit DEF ConsoleInit
<1>2. WeekInv /\ [ConsoleNext]_consoleVars => WeekInv'
  BY PartSteps, WeekNext
<1> QED
  BY <1>1, <1>2, PTL DEF ConsoleSpec

(* The week the page draws and the device's own evaluation agree, whatever *)
(* the programs, the minute and the hold: a program has a bar over exactly *)
(* the minutes it is active in, and stands out at this minute exactly when *)
(* it is applied (drawWeek, activeOccurrence, evaluate).                   *)
THEOREM WeekIsTrue == ConsoleSpec => []WeekShowsRuns
<1>1. WeekInv => WeekShowsRuns
  BY WeekIsShown DEF WeekShowsRuns
<1> QED
  BY <1>1, WeekInvariance, PTL

(* Trying the starts and ends of a week's occurrences and a day more finds *)
(* the first minute within the horizon at which something else applies     *)
(* (evaluate).                                                             *)
THEOREM NextChangeIsFirst == ConsoleSpec => []NextChangeIsNext
<1>1. WeekInv => NextChangeIsNext
  BY NextIsFirst DEF NextChangeIsNext
<1> QED
  BY <1>1, WeekInvariance, PTL
=============================================================================
