-------------------------- MODULE SharedHandlesProofs --------------------------
(***********************************************************************************)
(* What SharedHandles checks on two threads and a few handles, for any number of   *)
(* them: the counts are exact, a handle or a record never denotes another text,    *)
(* a copy is erased once, and both are shared values in the sense of SharedValues. *)
(***********************************************************************************)
EXTENDS SharedHandles, FiniteSetTheorems, TLAPS

(* An atom table has one entry for a text. *)
TextsDiffer == \A c, d \in Cells : text[c] # None /\ text[c] = text[d] => c = d

(* What functors and the like keep and what stands on a stack is an atom, and an atom
   that was read and is not yet registered is one of those. *)
TermsAreThere ==
  /\ \A c \in kept : text[c] # None
  /\ \A t \in Threads : \A c \in stack[t] : text[c] # None
  /\ \A t \in Threads : \A named \in raw[t] : named.cell \in stack[t] \cup kept

(* An Arc counts the Records on it, and no Record is on a copy that is gone. *)
ArcsAreExact ==
  /\ \A r \in Live : copy[r].strong = Cardinality(RecordsOf(r))
  /\ \A k \in Records : record[k] # None => record[k] \in Live

(* The properties and what they need to be inductive. *)
AtomInv == TextsDiffer /\ TermsAreThere /\ HandlesMeanTheirText /\ RecordsMeanTheirText
RecordInv == ArcsAreExact /\ OneErase
IInv == HandlesTypeOK /\ AtomInv /\ CountsAreExact /\ RecordInv
----------------------------------------------------------------------------------
(* Counting, and what the types say of the values inside. *)

LEMMA GainOne ==
  ASSUME NEW S, IsFiniteSet(S), NEW x, x \notin S
  PROVE  /\ Cardinality(S) \in Nat
         /\ Cardinality(S \cup {x}) = Cardinality(S) + 1
BY FS_CardinalityType, FS_AddElement

LEMMA LoseOne ==
  ASSUME NEW S, IsFiniteSet(S), NEW x \in S
  PROVE  /\ Cardinality(S) \in Nat /\ Cardinality(S) > 0
         /\ Cardinality(S \ {x}) = Cardinality(S) - 1
<1>1. Cardinality(S) \in Nat
  BY FS_CardinalityType
<1>2. Cardinality(S \ {x}) = Cardinality(S) - 1
  BY FS_RemoveElement
<1>3. Cardinality(S \ {x}) \in Nat
  BY FS_RemoveElement, FS_CardinalityType
<1> QED
  BY <1>1, <1>2, <1>3

(* The owners of a cell and of a copy are finitely many. *)
LEMMA OwnersFinite ==
  /\ \A c \in Cells : IsFiniteSet(AtomsOn(c)) /\ IsFiniteSet(CopiesOn(c))
  /\ \A r \in Copies : IsFiniteSet(RecordsOf(r))
<1>1. \A c \in Cells : AtomsOn(c) \subseteq Atoms /\ CopiesOn(c) \subseteq Copies
  BY DEF AtomsOn, CopiesOn, Live
<1>2. \A r \in Copies : RecordsOf(r) \subseteq Records
  BY DEF RecordsOf
<1> QED
  BY <1>1, <1>2, FS_Subset, HandlesAssumption

LEMMA ValuesTyped ==
  ASSUME HandlesTypeOK
  PROVE  /\ \A h \in Atoms : atom[h] # None =>
              atom[h] \in Named /\ atom[h].cell \in Cells /\ atom[h].text \in Texts
         /\ \A t \in Threads : \A n \in raw[t] :
              n \in Named /\ n.cell \in Cells /\ n.text \in Texts
         /\ \A r \in Live :
              /\ r \in Copies /\ copy[r] \in Copy
              /\ copy[r].cell \in Cells /\ copy[r].text \in Texts /\ copy[r].strong \in Nat
BY DEF HandlesTypeOK, Named, Copy, NoCopy, Live

----------------------------------------------------------------------------------
(* The steps of the atom table. *)

(* Finding or making the cell of a text changes no text, and gives none twice. *)
LEMMA InterningIsHarmless ==
  ASSUME IInv, NEW x \in Texts, NEW c \in Cells, Interned(x, c),
         text' = [text EXCEPT ![c] = x]
  PROVE  /\ text' \in [Cells -> Texts \cup {None}]
         /\ TextsDiffer'
         /\ text'[c] = x
         /\ \A d \in Cells : text[d] # None => text'[d] = text[d]
<1>1. text \in [Cells -> Texts \cup {None}] /\ x # None
  BY HandlesAssumption DEF IInv, HandlesTypeOK
<1>2. TextsDiffer'
  BY <1>1 DEF IInv, AtomInv, TextsDiffer, Interned
<1> QED
  BY <1>1, <1>2 DEF Interned

(* While the texts that are there stay, so does what was not touched means. *)
LEMMA MeaningsStay ==
  ASSUME IInv, \A d \in Cells : text[d] # None => text'[d] = text[d]
  PROVE  /\ \A h \in Atoms : atom[h] # None => text'[atom[h].cell] = atom[h].text
         /\ \A t \in Threads : \A n \in raw[t] : text'[n.cell] = n.text
         /\ \A c \in kept : text'[c] # None
         /\ \A t \in Threads : \A c \in stack[t] : text'[c] # None
         /\ UNCHANGED copy => RecordsMeanTheirText'
<1> USE HandlesAssumption DEF IInv, AtomInv
<1>1. \A h \in Atoms : atom[h] # None => text'[atom[h].cell] = atom[h].text
  BY ValuesTyped DEF HandlesMeanTheirText
<1>2. \A t \in Threads : \A n \in raw[t] : text'[n.cell] = n.text
  BY ValuesTyped DEF HandlesMeanTheirText
<1>3. /\ \A c \in kept : text'[c] # None
      /\ \A t \in Threads : \A c \in stack[t] : text'[c] # None
  BY DEF TermsAreThere, HandlesTypeOK
<1>4. \A r \in Live : text'[copy[r].cell] = copy[r].text
  BY ValuesTyped DEF RecordsMeanTheirText
<1> QED
  BY <1>1, <1>2, <1>3, <1>4 DEF RecordsMeanTheirText, Live

(* The record part is not touched by the operations on atoms. *)
LEMMA RecordsUntouched ==
  ASSUME IInv, UNCHANGED recordVars
  PROVE  /\ RecordInv'
         /\ \A c : CopiesOn(c)' = CopiesOn(c)
         /\ /\ copy' \in [Copies -> Copy \cup {NoCopy}]
            /\ record' \in [Records -> Copies \cup {None}]
            /\ recalling' \in [Threads -> Records \cup {None}]
            /\ erasing' \in [Threads -> Copies \cup {None}]
BY DEF IInv, HandlesTypeOK, RecordInv, ArcsAreExact, OneErase, Live, RecordsOf, CopiesOn, recordVars

(* A handle that comes with a reference. *)
LEMMA HandleMade ==
  ASSUME IInv, NEW h \in Atoms, NEW named \in Named,
         atom[h] = None, atom' = [atom EXCEPT ![h] = named],
         Register(named.cell), UNCHANGED recordVars
  PROVE  /\ count' \in [Cells -> Nat]
         /\ atom' \in [Atoms -> Named \cup {None}]
         /\ CountsAreExact'
<1> DEFINE c == named.cell
<1>1. c \in Cells /\ named # None
  BY HandlesAssumption DEF Named
<1>2. /\ count' \in [Cells -> Nat]
      /\ atom' \in [Atoms -> Named \cup {None}]
  BY <1>1 DEF IInv, HandlesTypeOK, Register
<1>3. AtomsOn(c)' = AtomsOn(c) \cup {h} /\ h \notin AtomsOn(c)
  BY <1>1 DEF AtomsOn, IInv, HandlesTypeOK
<1>4. \A d \in Cells \ {c} : AtomsOn(d)' = AtomsOn(d)
  BY <1>1 DEF AtomsOn, IInv, HandlesTypeOK
<1>5. Cardinality(AtomsOn(c))' = Cardinality(AtomsOn(c)) + 1 /\ Cardinality(AtomsOn(c)) \in Nat
  BY <1>1, <1>3, GainOne, OwnersFinite
<1>6. \A d \in Cells : CopiesOn(d)' = CopiesOn(d) /\ Cardinality(CopiesOn(d)) \in Nat
  BY RecordsUntouched, OwnersFinite, FS_CardinalityType
<1>7. count'[c] = count[c] + 1 /\ \A d \in Cells \ {c} : count'[d] = count[d]
  BY <1>1 DEF Register, IInv, HandlesTypeOK
<1>8. \A d \in Cells : count[d] = Cardinality(AtomsOn(d)) + Cardinality(CopiesOn(d))
  BY DEF IInv, CountsAreExact
<1>9. \A d \in Cells \ {c} :
        count'[d] = Cardinality(AtomsOn(d)') + Cardinality(CopiesOn(d)')
  BY <1>4, <1>6, <1>7, <1>8
<1>10. count'[c] = Cardinality(AtomsOn(c)') + Cardinality(CopiesOn(c)')
  <2> HIDE DEF c
  <2> QED
    BY <1>1, <1>5, <1>6, <1>7, <1>8
<1> QED
  BY <1>2, <1>9, <1>10 DEF CountsAreExact

(* Every operation on atoms and terms. *)
LEMMA AtomStepKeeps ==
  ASSUME IInv, NEW t \in Threads, Idle(t), AtomStep(t)
  PROVE  IInv'
<1> USE HandlesAssumption
<1>1. ASSUME NEW h \in Atoms, NEW x \in Texts, NEW c \in Cells, AtomNew(h, x, c)
      PROVE  IInv'
  <2> DEFINE named == [cell |-> c, text |-> x]
  <2>1. named \in Named /\ named.cell = c /\ named.text = x
    BY DEF Named
  <2>2. /\ text' \in [Cells -> Texts \cup {None}]
        /\ TextsDiffer'
        /\ text'[c] = x
        /\ \A d \in Cells : text[d] # None => text'[d] = text[d]
    BY <1>1, InterningIsHarmless DEF AtomNew
  <2>3. /\ count' \in [Cells -> Nat]
        /\ atom' \in [Atoms -> Named \cup {None}]
        /\ CountsAreExact'
    BY <1>1, <2>1, HandleMade DEF AtomNew
  <2>4. HandlesTypeOK' /\ RecordInv'
    BY <1>1, <2>2, <2>3, RecordsUntouched DEF AtomNew, HandlesTypeOK, IInv
  <2>5. TermsAreThere' /\ RecordsMeanTheirText'
    BY <1>1, <2>2, MeaningsStay DEF AtomNew, TermsAreThere, IInv, AtomInv, recordVars
  <2>6. HandlesMeanTheirText'
    <3>1. \A g \in Atoms : atom'[g] = IF g = h THEN named ELSE atom[g]
      BY <1>1 DEF AtomNew, IInv, HandlesTypeOK
    <3> QED
      BY <1>1, <2>1, <2>2, <3>1, MeaningsStay DEF AtomNew, HandlesMeanTheirText
  <2> QED
    BY <2>2, <2>3, <2>4, <2>5, <2>6 DEF IInv, AtomInv
<1>2. ASSUME NEW h \in Atoms, NEW g \in Atoms, AtomClone(h, g)
      PROVE  IInv'
  <2>1. atom[h] \in Named
    BY <1>2, ValuesTyped DEF AtomClone, IInv
  <2>2. /\ count' \in [Cells -> Nat]
        /\ atom' \in [Atoms -> Named \cup {None}]
        /\ CountsAreExact'
    BY <1>2, <2>1, HandleMade DEF AtomClone
  <2>3. HandlesTypeOK' /\ RecordInv'
    BY <1>2, <2>2, RecordsUntouched DEF AtomClone, HandlesTypeOK, IInv
  <2>4. TextsDiffer' /\ TermsAreThere' /\ RecordsMeanTheirText'
    BY <1>2, MeaningsStay DEF AtomClone, TextsDiffer, TermsAreThere, IInv, AtomInv, recordVars
  <2>5. HandlesMeanTheirText'
    BY <1>2, MeaningsStay DEF AtomClone, HandlesMeanTheirText, IInv, HandlesTypeOK
  <2> QED
    BY <2>2, <2>3, <2>4, <2>5 DEF IInv, AtomInv
<1>3. ASSUME NEW h \in Atoms, AtomDrop(h)
      PROVE  IInv'
  <2>1. PICK c \in Cells : c = atom[h].cell /\ atom[h] # None
    BY <1>3, ValuesTyped DEF AtomDrop, IInv
  <2>2. /\ atom' \in [Atoms -> Named \cup {None}]
        /\ \A g \in Atoms : atom'[g] = IF g = h THEN None ELSE atom[g]
    BY <1>3 DEF AtomDrop, IInv, HandlesTypeOK
  <2>3. AtomsOn(c)' = AtomsOn(c) \ {h} /\ h \in AtomsOn(c)
    BY <2>1, <2>2 DEF AtomsOn
  <2>4. \A d \in Cells \ {c} : AtomsOn(d)' = AtomsOn(d)
    BY <2>1, <2>2 DEF AtomsOn
  <2>5. \A d \in Cells : CopiesOn(d)' = CopiesOn(d) /\ Cardinality(CopiesOn(d)) \in Nat
    BY <1>3, RecordsUntouched, OwnersFinite, FS_CardinalityType DEF AtomDrop
  <2>6. /\ Cardinality(AtomsOn(c)) \in Nat /\ Cardinality(AtomsOn(c)) > 0
        /\ Cardinality(AtomsOn(c)') = Cardinality(AtomsOn(c)) - 1
    BY <2>1, <2>3, LoseOne, OwnersFinite
  <2>7. /\ count'[c] = count[c] - 1
        /\ \A d \in Cells \ {c} : count'[d] = count[d]
        /\ count' = [count EXCEPT ![c] = @ - 1]
    BY <1>3, <2>1 DEF AtomDrop, IInv, HandlesTypeOK
  <2>8. \A d \in Cells : count[d] = Cardinality(AtomsOn(d)) + Cardinality(CopiesOn(d))
    BY DEF IInv, CountsAreExact
  <2>9. count' \in [Cells -> Nat]
    <3>1. count[c] - 1 \in Nat
      BY <2>1, <2>5, <2>6, <2>8
    <3> QED
      BY <2>1, <2>7, <3>1 DEF IInv, HandlesTypeOK
  <2>10. CountsAreExact'
    <3>1. \A d \in Cells \ {c} : count'[d] = Cardinality(AtomsOn(d)') + Cardinality(CopiesOn(d)')
      BY <2>4, <2>5, <2>7, <2>8
    <3>2. count'[c] = Cardinality(AtomsOn(c)') + Cardinality(CopiesOn(c)')
      BY <2>1, <2>5, <2>6, <2>7, <2>8
    <3> QED
      BY <3>1, <3>2 DEF CountsAreExact
  <2>11. HandlesTypeOK' /\ RecordInv'
    BY <1>3, <2>2, <2>9, RecordsUntouched DEF AtomDrop, HandlesTypeOK, IInv
  <2>12. TextsDiffer' /\ TermsAreThere' /\ RecordsMeanTheirText' /\ HandlesMeanTheirText'
    BY <1>3, <2>2, MeaningsStay DEF AtomDrop, TextsDiffer, TermsAreThere, HandlesMeanTheirText,
                                    IInv, AtomInv, recordVars
  <2> QED
    BY <2>10, <2>11, <2>12 DEF IInv, AtomInv
<1>4. ASSUME NEW h \in Atoms, Keep(h)
      PROVE  IInv'
  <2>1. HandlesTypeOK' /\ RecordInv'
    BY <1>4, ValuesTyped, RecordsUntouched DEF Keep, HandlesTypeOK, IInv
  <2>2. CountsAreExact'
    BY <1>4 DEF Keep, IInv, CountsAreExact, AtomsOn, CopiesOn, Live, recordVars
  <2>3. text[atom[h].cell] # None
    BY <1>4, ValuesTyped DEF Keep, IInv, AtomInv, HandlesMeanTheirText
  <2>4. AtomInv'
    BY <1>4, <2>3, MeaningsStay DEF Keep, IInv, AtomInv, TextsDiffer, TermsAreThere,
                                    HandlesMeanTheirText, recordVars
  <2> QED
    BY <2>1, <2>2, <2>4 DEF IInv
<1>5. ASSUME NEW x \in Texts, NEW c \in Cells, KeepText(x, c)
      PROVE  IInv'
  <2>1. /\ text' \in [Cells -> Texts \cup {None}]
        /\ TextsDiffer'
        /\ text'[c] = x
        /\ \A d \in Cells : text[d] # None => text'[d] = text[d]
    BY <1>5, InterningIsHarmless DEF KeepText
  <2>2. HandlesTypeOK' /\ RecordInv'
    BY <1>5, <2>1, RecordsUntouched DEF KeepText, HandlesTypeOK, IInv
  <2>3. CountsAreExact'
    BY <1>5 DEF KeepText, IInv, CountsAreExact, AtomsOn, CopiesOn, Live, recordVars
  <2>4. AtomInv'
    BY <1>5, <2>1, MeaningsStay DEF KeepText, IInv, AtomInv, TermsAreThere,
                                    HandlesMeanTheirText, recordVars
  <2> QED
    BY <2>2, <2>3, <2>4 DEF IInv
<1>6. ASSUME NEW h \in Atoms, PutAtom(t, h)
      PROVE  IInv'
  <2>1. HandlesTypeOK' /\ RecordInv'
    BY <1>6, ValuesTyped, RecordsUntouched DEF PutAtom, HandlesTypeOK, IInv
  <2>2. CountsAreExact'
    BY <1>6 DEF PutAtom, IInv, CountsAreExact, AtomsOn, CopiesOn, Live, recordVars
  <2>3. text[atom[h].cell] # None
    BY <1>6, ValuesTyped DEF PutAtom, IInv, AtomInv, HandlesMeanTheirText
  <2>4. \A s \in Threads : stack'[s] = IF s = t THEN stack[s] \cup {atom[h].cell} ELSE stack[s]
    BY <1>6 DEF PutAtom, IInv, HandlesTypeOK
  <2>5. AtomInv'
    BY <1>6, <2>3, <2>4, MeaningsStay DEF PutAtom, IInv, AtomInv, TextsDiffer, TermsAreThere,
                                          HandlesMeanTheirText, recordVars
  <2> QED
    BY <2>1, <2>2, <2>5 DEF IInv
<1>7. ASSUME NEW x \in Texts, NEW c \in Cells, PutAtomText(t, x, c)
      PROVE  IInv'
  <2>1. /\ text' \in [Cells -> Texts \cup {None}]
        /\ TextsDiffer'
        /\ text'[c] = x
        /\ \A d \in Cells : text[d] # None => text'[d] = text[d]
    BY <1>7, InterningIsHarmless DEF PutAtomText
  <2>2. HandlesTypeOK' /\ RecordInv'
    BY <1>7, <2>1, RecordsUntouched DEF PutAtomText, HandlesTypeOK, IInv
  <2>3. CountsAreExact'
    BY <1>7 DEF PutAtomText, IInv, CountsAreExact, AtomsOn, CopiesOn, Live, recordVars
  <2>4. \A s \in Threads : stack'[s] = IF s = t THEN stack[s] \cup {c} ELSE stack[s]
    BY <1>7 DEF PutAtomText, IInv, HandlesTypeOK
  <2>5. AtomInv'
    BY <1>7, <2>1, <2>4, MeaningsStay DEF PutAtomText, IInv, AtomInv, TermsAreThere,
                                    HandlesMeanTheirText, recordVars
  <2> QED
    BY <2>2, <2>3, <2>5 DEF IInv
<1>8. CASE CloseFrame(t)
  <2>1. HandlesTypeOK' /\ RecordInv'
    BY <1>8, RecordsUntouched DEF CloseFrame, HandlesTypeOK, IInv
  <2>2. CountsAreExact'
    BY <1>8 DEF CloseFrame, IInv, CountsAreExact, AtomsOn, CopiesOn, Live, recordVars
  <2>3. \A s \in Threads : stack'[s] = IF s = t THEN {} ELSE stack[s]
    BY <1>8 DEF CloseFrame, IInv, HandlesTypeOK
  <2>4. raw[t] = {}
    BY DEF Idle
  <2>5. AtomInv'
    BY <1>8, <2>3, <2>4, MeaningsStay DEF CloseFrame, IInv, AtomInv, TextsDiffer, TermsAreThere,
                                          HandlesMeanTheirText, recordVars
  <2> QED
    BY <2>1, <2>2, <2>5 DEF IInv
<1>9. ASSUME NEW c \in Cells, ReadName(t, c)
      PROVE  IInv'
  <2> DEFINE named == [cell |-> c, text |-> text[c]]
  <2>1. text[c] # None /\ text[c] \in Texts
    BY <1>9 DEF ReadName, IInv, AtomInv, TermsAreThere, HandlesTypeOK
  <2>2. named \in Named /\ named.cell = c /\ named.text = text[c]
    BY <2>1 DEF Named
  <2>3. \A s \in Threads : raw'[s] = IF s = t THEN {named} ELSE raw[s]
    BY <1>9 DEF ReadName, IInv, HandlesTypeOK
  <2>4. HandlesTypeOK' /\ RecordInv'
    BY <1>9, <2>2, RecordsUntouched DEF ReadName, HandlesTypeOK, IInv
  <2>5. CountsAreExact'
    BY <1>9 DEF ReadName, IInv, CountsAreExact, AtomsOn, CopiesOn, Live, recordVars
  <2>6. AtomInv'
    BY <1>9, <2>2, <2>3, MeaningsStay DEF ReadName, IInv, AtomInv, TextsDiffer, TermsAreThere,
                                          HandlesMeanTheirText, recordVars
  <2> QED
    BY <2>4, <2>5, <2>6 DEF IInv
<1> QED
  BY <1>1, <1>2, <1>3, <1>4, <1>5, <1>6, <1>7, <1>8, <1>9 DEF AtomStep

(* The rest of reading atoms from a term, and the collector. *)
LEMMA AtomReadingKeeps ==
  ASSUME IInv, NEW t \in Threads
  PROVE  /\ \A c \in Cells : ReadAtom(t, c) => IInv'
         /\ \A h \in Atoms, named \in raw[t] : FromRaw(t, h, named) => IInv'
         /\ Abandon(t) => IInv'
<1> USE HandlesAssumption
<1>1. ASSUME NEW c \in Cells, ReadAtom(t, c)
      PROVE  IInv'
  <2> DEFINE named == [cell |-> c, text |-> text[c]]
  <2>1. text[c] # None /\ text[c] \in Texts
    BY <1>1 DEF ReadAtom, IInv, AtomInv, TermsAreThere, HandlesTypeOK
  <2>2. named \in Named /\ named.cell = c /\ named.text = text[c]
    BY <2>1 DEF Named
  <2>3. \A s \in Threads : raw'[s] = IF s = t THEN raw[s] \cup {named} ELSE raw[s]
    BY <1>1 DEF ReadAtom, IInv, HandlesTypeOK
  <2>4. HandlesTypeOK' /\ RecordInv'
    BY <1>1, <2>2, RecordsUntouched DEF ReadAtom, HandlesTypeOK, IInv
  <2>5. CountsAreExact'
    BY <1>1 DEF ReadAtom, IInv, CountsAreExact, AtomsOn, CopiesOn, Live, recordVars
  <2>6. AtomInv'
    BY <1>1, <2>2, <2>3, MeaningsStay DEF ReadAtom, IInv, AtomInv, TextsDiffer, TermsAreThere,
                                          HandlesMeanTheirText, recordVars
  <2> QED
    BY <2>4, <2>5, <2>6 DEF IInv
<1>2. ASSUME NEW h \in Atoms, NEW named \in raw[t], FromRaw(t, h, named)
      PROVE  IInv'
  <2>1. named \in Named
    BY ValuesTyped DEF IInv
  <2>2. /\ count' \in [Cells -> Nat]
        /\ atom' \in [Atoms -> Named \cup {None}]
        /\ CountsAreExact'
    BY <1>2, <2>1, HandleMade DEF FromRaw
  <2>3. /\ \A g \in Atoms : atom'[g] = IF g = h THEN named ELSE atom[g]
        /\ \A s \in Threads : raw'[s] \subseteq raw[s]
        /\ raw' \in [Threads -> SUBSET Named]
    BY <1>2 DEF FromRaw, IInv, HandlesTypeOK
  <2>4. HandlesTypeOK' /\ RecordInv'
    BY <1>2, <2>2, <2>3, RecordsUntouched DEF FromRaw, HandlesTypeOK, IInv
  <2>5. TextsDiffer' /\ RecordsMeanTheirText' /\ HandlesMeanTheirText'
    BY <1>2, <2>3, MeaningsStay DEF FromRaw, TextsDiffer, HandlesMeanTheirText, IInv, AtomInv,
                                    recordVars
  <2>6. TermsAreThere'
    BY <1>2, <2>3 DEF FromRaw, TermsAreThere, IInv, AtomInv
  <2> QED
    BY <2>2, <2>4, <2>5, <2>6 DEF IInv, AtomInv
<1>3. ASSUME Abandon(t)
      PROVE  IInv'
  <2>1. \A s \in Threads : raw'[s] \subseteq raw[s]
    BY <1>3 DEF Abandon, IInv, HandlesTypeOK
  <2>2. HandlesTypeOK' /\ RecordInv'
    BY <1>3, RecordsUntouched DEF Abandon, HandlesTypeOK, IInv
  <2>3. CountsAreExact'
    BY <1>3 DEF Abandon, IInv, CountsAreExact, AtomsOn, CopiesOn, Live, recordVars
  <2>4. TextsDiffer' /\ RecordsMeanTheirText' /\ HandlesMeanTheirText'
    BY <1>3, <2>1, MeaningsStay DEF Abandon, TextsDiffer, HandlesMeanTheirText, IInv, AtomInv,
                                    recordVars
  <2>5. TermsAreThere'
    BY <1>3, <2>1 DEF Abandon, TermsAreThere, IInv, AtomInv
  <2> QED
    BY <2>2, <2>3, <2>4, <2>5 DEF IInv, AtomInv
<1> QED
  BY <1>1, <1>2, <1>3

(* What the collector takes has no owner: the counts are exact. *)
LEMMA CollectedIsUnowned ==
  ASSUME IInv, NEW c \in Cells, Collect(c)
  PROVE  AtomsOn(c) = {} /\ CopiesOn(c) = {}
<1>1. count[c] = Cardinality(AtomsOn(c)) + Cardinality(CopiesOn(c)) /\ count[c] = 0
  BY DEF IInv, CountsAreExact, Collect
<1>2. Cardinality(AtomsOn(c)) \in Nat /\ Cardinality(CopiesOn(c)) \in Nat
  BY OwnersFinite, FS_CardinalityType
<1>3. Cardinality(AtomsOn(c)) = 0 /\ Cardinality(CopiesOn(c)) = 0
  BY <1>1, <1>2
<1> QED
  BY <1>3, OwnersFinite, FS_EmptySet

LEMMA CollectKeeps ==
  ASSUME IInv, NEW c \in Cells, Collect(c)
  PROVE  IInv'
<1> USE HandlesAssumption
<1>1. /\ \A d \in Cells : text'[d] = IF d = c THEN None ELSE text[d]
      /\ text' \in [Cells -> Texts \cup {None}]
  BY DEF Collect, IInv, HandlesTypeOK
<1>2. HandlesTypeOK' /\ RecordInv'
  BY <1>1, RecordsUntouched DEF Collect, HandlesTypeOK, IInv
<1>3. CountsAreExact'
  BY DEF Collect, IInv, CountsAreExact, AtomsOn, CopiesOn, Live, recordVars
<1>4. TextsDiffer'
  BY <1>1 DEF TextsDiffer, IInv, AtomInv
<1>5. TermsAreThere'
  BY <1>1 DEF Collect, TermsAreThere, IInv, AtomInv, HandlesTypeOK
<1>6. \A t \in Threads : \A named \in raw[t] : named.cell # c
  BY DEF Collect, TermsAreThere, IInv, AtomInv
<1>7. \A h \in Atoms : atom[h] # None => atom[h].cell # c
  BY CollectedIsUnowned DEF AtomsOn
<1>8. \A r \in Live : copy[r].cell # c
  BY CollectedIsUnowned DEF CopiesOn
<1>9. HandlesMeanTheirText'
  BY <1>1, <1>6, <1>7, ValuesTyped DEF Collect, HandlesMeanTheirText, IInv, AtomInv
<1>10. RecordsMeanTheirText'
  BY <1>1, <1>8, ValuesTyped DEF Collect, RecordsMeanTheirText, Live, IInv, AtomInv, recordVars
<1> QED
  BY <1>2, <1>3, <1>4, <1>5, <1>9, <1>10 DEF IInv, AtomInv

----------------------------------------------------------------------------------
(* The steps of records. *)

(* A Record that is being recalled is there, and its copy is live. *)
LEMMA RecallingIsSafe ==
  ASSUME IInv, NEW t \in Threads, recalling[t] # None
  PROVE  recalling[t] \in Records /\ record[recalling[t]] \in Live /\ record[recalling[t]] # None
BY HandlesAssumption DEF IInv, HandlesTypeOK, RecordInv, OneErase, Live

(* Steps that leave the atoms of the program and the terms alone keep what they mean,
   as long as live copies keep theirs. *)
LEMMA AtomsUntouched ==
  ASSUME IInv, UNCHANGED <<text, kept, stack, raw, atom>>,
         \A r \in Live' : text[copy'[r].cell] = copy'[r].text
  PROVE  AtomInv'
BY DEF IInv, AtomInv, TextsDiffer, TermsAreThere, HandlesMeanTheirText, RecordsMeanTheirText

LEMMA RecordTermKeeps ==
  ASSUME IInv, NEW t \in Threads, NEW r \in Copies, NEW k \in Records, NEW c \in Cells,
         RecordTerm(t, r, k, c)
  PROVE  IInv'
<1> USE HandlesAssumption DEF RecordTerm
<1> DEFINE made == [state |-> "live", strong |-> 1, cell |-> c, text |-> text[c]]
<1>1. made \in Copy /\ made.cell = c /\ made.text = text[c] /\ made.strong = 1 /\ made.state = "live"
  BY DEF Copy, IInv, HandlesTypeOK
<1>2. /\ \A s \in Copies : copy'[s] = IF s = r THEN made ELSE copy[s]
      /\ \A l \in Records : record'[l] = IF l = k THEN r ELSE record[l]
  BY DEF IInv, HandlesTypeOK
<1>3. r \notin Live
  BY DEF Live, NoCopy
<1>4. Live' = Live \cup {r}
  BY <1>1, <1>2 DEF Live
<1>5. HandlesTypeOK'
  <2>1. copy' \in [Copies -> Copy \cup {NoCopy}]
    BY <1>1 DEF IInv, HandlesTypeOK
  <2>2. count' \in [Cells -> Nat]
    BY DEF IInv, HandlesTypeOK, Register
  <2> QED
    BY <2>1, <2>2 DEF IInv, HandlesTypeOK
<1>6. AtomInv'
  BY <1>1, <1>2, <1>4, AtomsUntouched DEF IInv, AtomInv, RecordsMeanTheirText, Live
<1>7. CountsAreExact'
  <2>1. CopiesOn(c)' = CopiesOn(c) \cup {r} /\ r \notin CopiesOn(c)
    BY <1>1, <1>2, <1>3, <1>4 DEF CopiesOn, Live
  <2>2. \A d \in Cells \ {c} : CopiesOn(d)' = CopiesOn(d)
    BY <1>1, <1>2, <1>3, <1>4 DEF CopiesOn, Live
  <2>3. Cardinality(CopiesOn(c)') = Cardinality(CopiesOn(c)) + 1 /\ Cardinality(CopiesOn(c)) \in Nat
    BY <2>1, GainOne, OwnersFinite
  <2>4. \A d \in Cells : AtomsOn(d)' = AtomsOn(d) /\ Cardinality(AtomsOn(d)) \in Nat
    <3>1. \A d \in Cells : AtomsOn(d)' = AtomsOn(d)
      BY DEF AtomsOn
    <3> QED
      BY <3>1, OwnersFinite, FS_CardinalityType
  <2>5. count'[c] = count[c] + 1 /\ \A d \in Cells \ {c} : count'[d] = count[d]
    BY DEF Register, IInv, HandlesTypeOK
  <2>6. \A d \in Cells : count[d] = Cardinality(AtomsOn(d)) + Cardinality(CopiesOn(d))
    BY DEF IInv, CountsAreExact
  <2>7. \A d \in Cells \ {c} : count'[d] = Cardinality(AtomsOn(d)') + Cardinality(CopiesOn(d)')
    BY <2>2, <2>4, <2>5, <2>6
  <2>8. count'[c] = Cardinality(AtomsOn(c)') + Cardinality(CopiesOn(c)')
    BY <2>3, <2>4, <2>5, <2>6
  <2> QED
    BY <2>7, <2>8 DEF CountsAreExact
<1>8. RecordsOf(r)' = {k} /\ \A s \in Live : RecordsOf(s)' = RecordsOf(s)
  <2>1. \A j \in Records : record[j] # r
    BY <1>3 DEF IInv, RecordInv, ArcsAreExact
  <2>2. \A s \in Live : s # None /\ s # r
    BY <1>3 DEF Live
  <2> QED
    BY <1>2, <2>1, <2>2 DEF RecordsOf
<1>9. ArcsAreExact'
  BY <1>1, <1>2, <1>3, <1>4, <1>8, FS_Singleton DEF ArcsAreExact, IInv, RecordInv
<1>10. OneErase'
  <2>1. \A s \in Threads : erasing[s] # r
    BY <1>3 DEF IInv, RecordInv, OneErase
  <2>2. \A s \in Live' : RecordsOf(s)' = {} <=> \E u \in Threads : erasing'[u] = s
    BY <1>4, <1>8, <2>1 DEF IInv, RecordInv, OneErase
  <2>3. \A s \in Threads : recalling[s] # None => record'[recalling[s]] \in Live'
    BY <1>2, <1>4, RecallingIsSafe
  <2> QED
    BY <1>4, <2>2, <2>3 DEF IInv, RecordInv, OneErase
<1> QED
  BY <1>5, <1>6, <1>7, <1>9, <1>10 DEF IInv, RecordInv

LEMMA RecordCloneKeeps ==
  ASSUME IInv, NEW k \in Records, NEW l \in Records, RecordClone(k, l)
  PROVE  IInv'
<1> USE HandlesAssumption DEF RecordClone, atomVars
<1>1. PICK r \in Copies : r = record[k] /\ r \in Live
  BY DEF IInv, RecordInv, ArcsAreExact, Live
<1>2. /\ \A s \in Copies \ {r} : copy'[s] = copy[s]
      /\ copy'[r] = [copy[r] EXCEPT !.strong = @ + 1]
      /\ \A j \in Records : record'[j] = IF j = l THEN r ELSE record[j]
  BY <1>1 DEF IInv, HandlesTypeOK
<1>3. /\ copy'[r] \in Copy /\ copy'[r].state = "live" /\ copy'[r].strong = copy[r].strong + 1
      /\ copy'[r].cell = copy[r].cell /\ copy'[r].text = copy[r].text
  BY <1>1, <1>2, ValuesTyped DEF Copy, IInv, Live
<1>4. Live' = Live
  BY <1>1, <1>2, <1>3 DEF Live
<1>5. HandlesTypeOK'
  <2>1. copy' \in [Copies -> Copy \cup {NoCopy}]
    BY <1>1, <1>2, <1>3 DEF IInv, HandlesTypeOK
  <2> QED
    BY <1>1, <2>1 DEF IInv, HandlesTypeOK
<1>6. AtomInv'
  BY <1>1, <1>2, <1>3, <1>4, AtomsUntouched DEF IInv, AtomInv, RecordsMeanTheirText, Live
<1>7. \A c : CopiesOn(c)' = CopiesOn(c) /\ AtomsOn(c)' = AtomsOn(c)
  BY <1>1, <1>2, <1>3, <1>4 DEF CopiesOn, AtomsOn, Live
<1>8. CountsAreExact'
  BY <1>7 DEF CountsAreExact, IInv
<1>9. /\ RecordsOf(r)' = RecordsOf(r) \cup {l} /\ l \notin RecordsOf(r)
      /\ \A s \in Live \ {r} : RecordsOf(s)' = RecordsOf(s)
  BY <1>1, <1>2 DEF RecordsOf, Live
<1>10. ArcsAreExact'
  <2>1. Cardinality(RecordsOf(r)') = Cardinality(RecordsOf(r)) + 1
    BY <1>9, GainOne, OwnersFinite
  <2> QED
    BY <1>1, <1>2, <1>3, <1>4, <1>9, <2>1 DEF ArcsAreExact, IInv, RecordInv
<1>11. OneErase'
  <2>1. k \in RecordsOf(r) /\ RecordsOf(r) # {} /\ RecordsOf(r)' # {}
    BY <1>1, <1>9 DEF RecordsOf
  <2>2. \A s \in Live' : RecordsOf(s)' = {} <=> \E u \in Threads : erasing'[u] = s
    BY <1>1, <1>4, <1>9, <2>1 DEF IInv, RecordInv, OneErase
  <2>3. \A s \in Threads : recalling[s] # None => record'[recalling[s]] \in Live'
    BY <1>1, <1>2, <1>4, RecallingIsSafe
  <2> QED
    BY <1>4, <2>2, <2>3 DEF IInv, RecordInv, OneErase
<1> QED
  BY <1>5, <1>6, <1>8, <1>10, <1>11 DEF IInv, RecordInv

LEMMA RecordDropKeeps ==
  ASSUME IInv, NEW t \in Threads, Idle(t), NEW k \in Records, RecordDrop(t, k)
  PROVE  IInv'
<1> USE HandlesAssumption DEF RecordDrop, atomVars
<1>1. PICK r \in Copies : r = record[k] /\ r \in Live
  BY DEF IInv, RecordInv, ArcsAreExact, Live
<1>2. /\ \A s \in Copies \ {r} : copy'[s] = copy[s]
      /\ copy'[r] = [copy[r] EXCEPT !.strong = @ - 1]
      /\ \A j \in Records : record'[j] = IF j = k THEN None ELSE record[j]
      /\ \A s \in Threads : erasing'[s] = IF s = t THEN IF copy[r].strong = 1 THEN r ELSE None
                                                   ELSE erasing[s]
  BY <1>1 DEF IInv, HandlesTypeOK
<1>3. /\ RecordsOf(r)' = RecordsOf(r) \ {k} /\ k \in RecordsOf(r)
      /\ \A s \in Live \ {r} : RecordsOf(s)' = RecordsOf(s)
  <2>1. \A s \in Live : s # None
    BY DEF Live
  <2> QED
    BY <1>1, <1>2, <2>1 DEF RecordsOf
<1>4. /\ Cardinality(RecordsOf(r)) \in Nat /\ Cardinality(RecordsOf(r)) > 0
      /\ Cardinality(RecordsOf(r)') = Cardinality(RecordsOf(r)) - 1
  BY <1>3, LoseOne, OwnersFinite
<1>5. copy[r].strong = Cardinality(RecordsOf(r)) /\ copy[r].strong - 1 \in Nat
  BY <1>1, <1>4 DEF ArcsAreExact, IInv, RecordInv
<1>6. /\ copy'[r] \in Copy /\ copy'[r].state = "live" /\ copy'[r].strong = copy[r].strong - 1
      /\ copy'[r].cell = copy[r].cell /\ copy'[r].text = copy[r].text
  BY <1>1, <1>2, <1>5, ValuesTyped DEF Copy, IInv, Live
<1>7. Live' = Live
  BY <1>1, <1>2, <1>6 DEF Live
<1>8. HandlesTypeOK'
  <2>1. copy' \in [Copies -> Copy \cup {NoCopy}]
    BY <1>1, <1>2, <1>6 DEF IInv, HandlesTypeOK
  <2>2. erasing' \in [Threads -> Copies \cup {None}]
    BY <1>1 DEF IInv, HandlesTypeOK
  <2> QED
    BY <1>1, <2>1, <2>2 DEF IInv, HandlesTypeOK
<1>9. AtomInv'
  BY <1>1, <1>2, <1>6, <1>7, AtomsUntouched DEF IInv, AtomInv, RecordsMeanTheirText, Live
<1>10. \A c : CopiesOn(c)' = CopiesOn(c) /\ AtomsOn(c)' = AtomsOn(c)
  BY <1>1, <1>2, <1>6, <1>7 DEF CopiesOn, AtomsOn, Live
<1>11. CountsAreExact'
  BY <1>10 DEF CountsAreExact, IInv
<1>12. ArcsAreExact'
  <2>1. \A s \in Live' : copy'[s].strong = Cardinality(RecordsOf(s)')
    <3>1. \A s \in Live : s \in Copies /\ copy[s].strong = Cardinality(RecordsOf(s))
      BY DEF ArcsAreExact, IInv, RecordInv, Live
    <3>2. copy'[r].strong = Cardinality(RecordsOf(r)')
      BY <1>4, <1>5, <1>6
    <3>3. \A s \in Live \ {r} : copy'[s].strong = Cardinality(RecordsOf(s)')
      BY ZenonT(30), <1>2, <1>3, <3>1
    <3> QED
      BY <1>7, <3>2, <3>3
  <2>2. \A j \in Records : record'[j] # None => record'[j] \in Live'
    BY <1>2, <1>7 DEF ArcsAreExact, IInv, RecordInv
  <2> QED
    BY <2>1, <2>2 DEF ArcsAreExact
<1>13. OneErase'
  <2>1. \A s \in Threads : erasing[s] # r
    BY <1>1, <1>3 DEF IInv, RecordInv, OneErase
  <2>2. RecordsOf(r)' = {} <=> copy[r].strong = 1
    <3>1. IsFiniteSet(RecordsOf(r)')
      BY <1>3, OwnersFinite, FS_RemoveElement
    <3>2. RecordsOf(r)' = {} <=> Cardinality(RecordsOf(r)') = 0
      BY <3>1, FS_EmptySet
    <3> QED
      BY <1>4, <1>5, <3>2
  <2>3. erasing[t] = None /\ \A s \in Live : s # None
    BY DEF Idle, Live
  <2>4. \A s \in Live' : RecordsOf(s)' = {} <=> \E u \in Threads : erasing'[u] = s
    <3>1. RecordsOf(r)' = {} <=> \E u \in Threads : erasing'[u] = r
      BY <1>1, <1>2, <2>1, <2>2, <2>3
    <3>2. \A s \in Live \ {r} : RecordsOf(s)' = {} <=> \E u \in Threads : erasing'[u] = s
      <4>1. \A s \in Live : RecordsOf(s) = {} <=> \E u \in Threads : erasing[u] = s
        BY DEF IInv, RecordInv, OneErase
      <4>2. \A s \in Live \ {r}, u \in Threads : erasing'[u] = s <=> erasing[u] = s
        BY <1>2, <2>3
      <4> QED
        BY <1>3, <4>1, <4>2
    <3> QED
      BY <1>7, <3>1, <3>2
  <2>5. \A s, u \in Threads : erasing'[s] # None /\ erasing'[s] = erasing'[u] => s = u
    BY <1>2, <2>1 DEF IInv, RecordInv, OneErase
  <2>6. \A s \in Threads : erasing'[s] # None => erasing'[s] \in Live'
    BY <1>1, <1>2, <1>7 DEF IInv, RecordInv, OneErase
  <2>7. \A s \in Threads : recalling[s] # None => record'[recalling[s]] \in Live'
    BY <1>2, <1>7, RecallingIsSafe DEF Borrowed
  <2> QED
    BY <2>4, <2>5, <2>6, <2>7 DEF OneErase
<1> QED
  BY <1>8, <1>9, <1>11, <1>12, <1>13 DEF IInv, RecordInv

LEMMA EraseKeeps ==
  ASSUME IInv, NEW t \in Threads, Erase(t)
  PROVE  IInv'
<1> USE HandlesAssumption DEF Erase
<1>1. PICK r \in Copies : r = erasing[t] /\ r \in Live
  BY DEF IInv, RecordInv, OneErase, Live
<1>2. PICK c \in Cells : c = copy[r].cell
  BY <1>1, ValuesTyped DEF IInv
<1>3. /\ \A s \in Copies \ {r} : copy'[s] = copy[s]
      /\ copy'[r] = [copy[r] EXCEPT !.state = "erased"]
      /\ \A s \in Threads : erasing'[s] = IF s = t THEN None ELSE erasing[s]
  BY <1>1 DEF IInv, HandlesTypeOK
<1>4. /\ copy'[r] \in Copy /\ copy'[r].state = "erased"
  BY <1>1, <1>3, ValuesTyped DEF Copy, IInv
<1>5. Live' = Live \ {r}
  BY <1>1, <1>3, <1>4 DEF Live
<1>6. RecordsOf(r) = {}
  BY <1>1 DEF IInv, RecordInv, OneErase
<1>7. /\ CopiesOn(c)' = CopiesOn(c) \ {r} /\ r \in CopiesOn(c)
      /\ \A d \in Cells \ {c} : CopiesOn(d)' = CopiesOn(d)
  BY <1>1, <1>2, <1>3, <1>4, <1>5 DEF CopiesOn, Live
<1>8. /\ Cardinality(CopiesOn(c)) \in Nat /\ Cardinality(CopiesOn(c)) > 0
      /\ Cardinality(CopiesOn(c)') = Cardinality(CopiesOn(c)) - 1
  BY <1>7, LoseOne, OwnersFinite
<1>9. \A d \in Cells : AtomsOn(d)' = AtomsOn(d) /\ Cardinality(AtomsOn(d)) \in Nat
  <2>1. \A d \in Cells : AtomsOn(d)' = AtomsOn(d)
    BY DEF AtomsOn
  <2> QED
    BY <2>1, OwnersFinite, FS_CardinalityType
<1>10. count[c] - 1 \in Nat
  BY <1>8, <1>9 DEF IInv, CountsAreExact
<1>11. count' \in [Cells -> Nat] /\ count'[c] = count[c] - 1
       /\ \A d \in Cells \ {c} : count'[d] = count[d]
  BY <1>1, <1>2, <1>10 DEF IInv, HandlesTypeOK
<1>12. HandlesTypeOK'
  <2>1. copy' \in [Copies -> Copy \cup {NoCopy}]
    BY <1>1, <1>3, <1>4 DEF IInv, HandlesTypeOK
  <2> QED
    BY <1>11, <2>1 DEF IInv, HandlesTypeOK
<1>13. AtomInv'
  BY <1>3, <1>5, AtomsUntouched DEF IInv, AtomInv, RecordsMeanTheirText, Live
<1>14. CountsAreExact'
  <2>1. \A d \in Cells : count[d] = Cardinality(AtomsOn(d)) + Cardinality(CopiesOn(d))
    BY DEF IInv, CountsAreExact
  <2>2. \A d \in Cells \ {c} : count'[d] = Cardinality(AtomsOn(d)') + Cardinality(CopiesOn(d)')
    BY <1>7, <1>9, <1>11, <2>1
  <2>3. count'[c] = Cardinality(AtomsOn(c)') + Cardinality(CopiesOn(c)')
    BY <1>8, <1>9, <1>11, <2>1
  <2> QED
    BY <2>2, <2>3 DEF CountsAreExact
<1>15. \A k \in Records : record[k] # r
  BY <1>6 DEF RecordsOf
<1>16. ArcsAreExact'
  <2>1. \A s \in Live' : copy'[s] = copy[s] /\ RecordsOf(s)' = RecordsOf(s) /\ s \in Live
    BY <1>3, <1>5 DEF RecordsOf, Live
  <2> QED
    BY <1>5, <1>15, <2>1 DEF IInv, RecordInv, ArcsAreExact
<1>17. OneErase'
  <2>1. \A s \in Threads \ {t} : erasing[s] # r
    BY <1>1 DEF IInv, RecordInv, OneErase
  <2>2. \A s \in Live' : RecordsOf(s)' = {} <=> \E u \in Threads : erasing'[u] = s
    <3>1. \A s \in Live' : s \in Live /\ s # r /\ s # None /\ RecordsOf(s)' = RecordsOf(s)
      BY <1>5 DEF Live, RecordsOf
    <3>2. \A s \in Live' : \A u \in Threads : erasing'[u] = s <=> erasing[u] = s
      BY <1>1, <1>3, <3>1
    <3>3. \A s \in Live : RecordsOf(s) = {} <=> \E u \in Threads : erasing[u] = s
      BY DEF IInv, RecordInv, OneErase
    <3> QED
      BY <3>1, <3>2, <3>3
  <2>3. \A s \in Threads : erasing'[s] # None => erasing'[s] \in Live'
    BY <1>3, <1>5, <2>1 DEF IInv, RecordInv, OneErase
  <2>4. \A s \in Threads : recalling[s] # None => record[recalling[s]] \in Live'
    BY <1>5, <1>15, RecallingIsSafe
  <2>5. \A s, u \in Threads : erasing'[s] # None /\ erasing'[s] = erasing'[u] => s = u
    BY <1>3 DEF IInv, RecordInv, OneErase
  <2> QED
    BY <2>2, <2>3, <2>4, <2>5 DEF OneErase
<1> QED
  BY <1>12, <1>13, <1>14, <1>16, <1>17 DEF IInv, RecordInv

LEMMA RecallKeeps ==
  ASSUME IInv, NEW t \in Threads
  PROVE  /\ \A k \in Records : BeginRecall(t, k) => IInv'
         /\ EndRecall(t) => IInv'
<1> USE HandlesAssumption
<1>1. ASSUME NEW k \in Records, BeginRecall(t, k)
      PROVE  IInv'
  <2>1. HandlesTypeOK'
    BY <1>1 DEF BeginRecall, IInv, HandlesTypeOK, atomVars
  <2>2. Live' = Live /\ \A r \in Live : RecordsOf(r)' = RecordsOf(r)
    BY <1>1 DEF BeginRecall, Live, RecordsOf
  <2>3. AtomInv' /\ CountsAreExact' /\ ArcsAreExact'
    BY <1>1, <2>2, AtomsUntouched DEF BeginRecall, IInv, AtomInv, RecordsMeanTheirText,
       CountsAreExact, AtomsOn, CopiesOn, RecordInv, ArcsAreExact, atomVars
  <2>4. \A s \in Threads : recalling'[s] # None => record'[recalling'[s]] \in Live'
    BY <1>1, <2>2 DEF BeginRecall, IInv, HandlesTypeOK, RecordInv, ArcsAreExact, OneErase
  <2>5. OneErase'
    BY <1>1, <2>2, <2>4 DEF BeginRecall, IInv, RecordInv, OneErase
  <2> QED
    BY <2>1, <2>3, <2>5 DEF IInv, RecordInv
<1>2. ASSUME EndRecall(t)
      PROVE  IInv'
  <2>1. PICK r \in Live : r = record[recalling[t]]
    BY <1>2, RecallingIsSafe DEF EndRecall
  <2>2. copy[r].cell \in Cells /\ text[copy[r].cell] # None
    BY ValuesTyped DEF IInv, AtomInv, RecordsMeanTheirText
  <2>3. \A s \in Threads : stack[s] \subseteq stack'[s] /\ stack'[s] \subseteq stack[s] \cup {copy[r].cell}
    BY <1>2, <2>1 DEF EndRecall, IInv, HandlesTypeOK
  <2>4. HandlesTypeOK'
    BY <1>2, <2>1, <2>2 DEF EndRecall, IInv, HandlesTypeOK
  <2>5. Live' = Live /\ \A s \in Live : RecordsOf(s)' = RecordsOf(s)
    BY <1>2 DEF EndRecall, Live, RecordsOf
  <2>6. TermsAreThere'
    BY <1>2, <2>2, <2>3 DEF EndRecall, IInv, AtomInv, TermsAreThere
  <2>7. AtomInv' /\ CountsAreExact' /\ ArcsAreExact'
    BY <1>2, <2>5, <2>6 DEF EndRecall, IInv, AtomInv, TextsDiffer, HandlesMeanTheirText,
       RecordsMeanTheirText, CountsAreExact, AtomsOn, CopiesOn, RecordInv, ArcsAreExact
  <2>8. \A s \in Threads : recalling'[s] # None => recalling'[s] = recalling[s]
    BY <1>2 DEF EndRecall, IInv, HandlesTypeOK
  <2>9. OneErase'
    BY <1>2, <2>5, <2>8 DEF EndRecall, IInv, RecordInv, OneErase
  <2> QED
    BY <2>4, <2>7, <2>9 DEF IInv, RecordInv
<1> QED
  BY <1>1, <1>2

(* Every operation on records that starts where the thread is idle. *)
LEMMA RecordStepKeeps ==
  ASSUME IInv, NEW t \in Threads, Idle(t), RecordStep(t)
  PROVE  IInv'
BY RecordTermKeeps, RecordCloneKeeps, RecordDropKeeps, RecallKeeps DEF RecordStep

LEMMA InitEstablishes == Init => IInv
<1> SUFFICES ASSUME Init PROVE IInv
  OBVIOUS
<1> USE HandlesAssumption DEF Init
<1>1. HandlesTypeOK
  BY DEF HandlesTypeOK
<1>2. Live = {}
  BY DEF Live, NoCopy
<1>3. AtomInv
  BY <1>2 DEF AtomInv, TextsDiffer, TermsAreThere, HandlesMeanTheirText, RecordsMeanTheirText
<1>4. CountsAreExact
  <2>1. \A c \in Cells : AtomsOn(c) = {} /\ CopiesOn(c) = {}
    BY <1>2 DEF AtomsOn, CopiesOn
  <2>2. \A c \in Cells : count[c] = 0
    OBVIOUS
  <2>3. \A c \in Cells : Cardinality(AtomsOn(c)) = 0 /\ Cardinality(CopiesOn(c)) = 0
    BY <2>1, FS_EmptySet
  <2> QED
    BY <2>2, <2>3 DEF CountsAreExact
<1>5. RecordInv
  BY <1>2 DEF RecordInv, ArcsAreExact, OneErase
<1> QED
  BY <1>1, <1>3, <1>4, <1>5 DEF IInv

LEMMA NextKeeps == IInv /\ [Next]_vars => IInv'
<1> SUFFICES ASSUME IInv, [Next]_vars PROVE IInv'
  OBVIOUS
<1>1. ASSUME NEW t \in Threads, Idle(t), AtomStep(t) \/ RecordStep(t)
      PROVE  IInv'
  BY <1>1, AtomStepKeeps, RecordStepKeeps
<1>2. ASSUME NEW t \in Threads, Inside(t)
      PROVE  IInv'
  BY <1>2, AtomReadingKeeps, EraseKeeps, RecallKeeps DEF Inside
<1>3. ASSUME NEW c \in Cells, Collect(c)
      PROVE  IInv'
  BY <1>3, CollectKeeps
<1>4. CASE UNCHANGED vars
  BY <1>4 DEF vars, IInv, HandlesTypeOK, AtomInv, TextsDiffer, TermsAreThere, HandlesMeanTheirText,
     RecordsMeanTheirText, CountsAreExact, AtomsOn, CopiesOn, RecordInv, ArcsAreExact, OneErase,
     Live, RecordsOf
<1> QED
  BY <1>1, <1>2, <1>3, <1>4 DEF Next

LEMMA Invariance == Spec => []IInv
BY InitEstablishes, NextKeeps, PTL DEF Spec

----------------------------------------------------------------------------------
(* The theorems. *)

(* The values of the model stay what their declarations say. *)
THEOREM HandlesTypeCorrect == Spec => []HandlesTypeOK
<1>1. IInv => HandlesTypeOK
  BY DEF IInv
<1> QED
  BY <1>1, Invariance, PTL

(* A1: whatever threads make, clone, read and drop while the collector runs, an Atom
   and an atom on its way to becoming one denote the text they were made for. *)
THEOREM HandlesKeepTheirText == Spec => []HandlesMeanTheirText
<1>1. IInv => HandlesMeanTheirText
  BY DEF IInv, AtomInv
<1> QED
  BY <1>1, Invariance, PTL

(* Eq and Hash of Atom, which look at atom_t alone, are those of the texts. *)
THEOREM AtomEqualityIsByText == Spec => []EqualityIsByText
<1>1. IInv => EqualityIsByText
  <2> SUFFICES ASSUME IInv, NEW h \in Atoms, NEW g \in Atoms, atom[h] # None, atom[g] # None
               PROVE  atom[h].cell = atom[g].cell <=> atom[h].text = atom[g].text
    BY DEF EqualityIsByText
  <2> QED
    BY ValuesTyped, HandlesAssumption DEF IInv, AtomInv, TextsDiffer, HandlesMeanTheirText
<1> QED
  BY <1>1, Invariance, PTL

(* A1: PL_register_atom and PL_unregister_atom are paired over every path. *)
THEOREM CountsStayExact == Spec => []CountsAreExact
<1>1. IInv => CountsAreExact
  BY DEF IInv
<1> QED
  BY <1>1, Invariance, PTL

(* RC1: PL_erase is called once for a record, after its last clone went and while
   nobody recalls it. *)
THEOREM ErasedOnce == Spec => []OneErase
<1>1. IInv => OneErase
  BY DEF IInv, RecordInv
<1> QED
  BY <1>1, Invariance, PTL

(* What a Record gives back is what was recorded. *)
THEOREM RecordsKeepTheirText == Spec => []RecordsMeanTheirText
<1>1. IInv => RecordsMeanTheirText
  BY DEF IInv, AtomInv
<1> QED
  BY <1>1, Invariance, PTL

----------------------------------------------------------------------------------
(* Atoms are shared values. *)

(* Whatever owns a cell keeps an atom in it. *)
OwnedCellsAreUsed == \A c \in Cells : AtomsOn(c) \cup CopiesOn(c) # {} => text[c] # None

LEMMA OwnedIsPresent == IInv => OwnedCellsAreUsed
<1> SUFFICES ASSUME IInv PROVE OwnedCellsAreUsed
  OBVIOUS
<1> QED
  BY ValuesTyped, HandlesAssumption
     DEF OwnedCellsAreUsed, IInv, AtomInv, HandlesMeanTheirText, RecordsMeanTheirText, AtomsOn,
         CopiesOn

(* Only the collector frees a cell. *)
LEMMA OnlyCollectFrees ==
  ASSUME IInv, [Next]_vars, NEW c \in Cells, text[c] # None, text'[c] = None
  PROVE  Collect(c)
<1>1. ASSUME NEW x \in Texts, NEW d \in Cells, text' = [text EXCEPT ![d] = x]
      PROVE  FALSE
  BY <1>1, HandlesAssumption DEF IInv, HandlesTypeOK
<1>2. CASE UNCHANGED text
  BY <1>2
<1>3. ASSUME NEW t \in Threads, AtomStep(t)
      PROVE  FALSE
  BY <1>1, <1>2, <1>3
     DEF AtomStep, AtomNew, AtomClone, AtomDrop, Keep, KeepText, PutAtom, PutAtomText, CloseFrame,
         ReadName
<1>4. ASSUME NEW t \in Threads, RecordStep(t)
      PROVE  FALSE
  BY <1>2, <1>4 DEF RecordStep, RecordTerm, RecordClone, RecordDrop, BeginRecall, atomVars
<1>5. ASSUME NEW t \in Threads, Inside(t)
      PROVE  FALSE
  BY <1>2, <1>5 DEF Inside, ReadAtom, FromRaw, Abandon, Erase, EndRecall
<1>6. CASE UNCHANGED vars
  BY <1>2, <1>6 DEF vars
<1>7. ASSUME NEW d \in Cells, Collect(d)
      PROVE  Collect(c)
  BY <1>7 DEF Collect, IInv, HandlesTypeOK
<1> QED
  BY <1>3, <1>4, <1>5, <1>6, <1>7 DEF Next

LEMMA AtomStepsAreShared ==
  IInv /\ IInv' /\ [Next]_vars => [SharedAtoms!Next]_(SharedAtoms!sharedVars)
<1>0. IInv' => OwnedCellsAreUsed'
  BY OwnedIsPresent, PTL
<1> SUFFICES ASSUME IInv, IInv', [Next]_vars PROVE SharedAtoms!Next
  OBVIOUS
<1> DEFINE own == [c \in Cells |-> AtomsOn(c) \cup CopiesOn(c)]
           there == [c \in Cells |-> text[c] # None]
<1>1. own' \in [Cells -> SUBSET (Atoms \cup Copies)]
  BY DEF AtomsOn, CopiesOn, Live
<1>2. there' \in [Cells -> BOOLEAN]
  OBVIOUS
<1>3. ASSUME NEW c \in Cells
      PROVE  \/ SharedAtoms!Create(c) \/ SharedAtoms!Change(c)
             \/ SharedAtoms!Reclaim(c) \/ SharedAtoms!Absent(c)
  <2>1. text'[c] = None => (AtomsOn(c) \cup CopiesOn(c))' = {}
    BY <1>0 DEF OwnedCellsAreUsed
  <2>2. text[c] # None /\ text'[c] = None => AtomsOn(c) \cup CopiesOn(c) = {}
    BY OnlyCollectFrees, CollectedIsUnowned
  <2> QED
    BY <2>1, <2>2 DEF SharedAtoms!Create, SharedAtoms!Change, SharedAtoms!Reclaim,
                      SharedAtoms!Absent
<1> QED
  BY <1>1, <1>2, <1>3 DEF SharedAtoms!Next

(* Atom and Record together are owners of an atom: while one of them is there, so is
   the atom, and the collector takes only what nobody owns. *)
THEOREM AtomsAreShared == Spec => ImplementsSharedAtoms
<1>1. Init => SharedAtoms!Init
  <2> SUFFICES ASSUME Init PROVE SharedAtoms!Init
    OBVIOUS
  <2>1. \A c \in Cells : AtomsOn(c) \cup CopiesOn(c) = {} /\ text[c] = None
    BY DEF Init, AtomsOn, CopiesOn, Live, NoCopy
  <2> QED
    BY <2>1 DEF SharedAtoms!Init
<1> QED
  BY <1>1, Invariance, AtomStepsAreShared, PTL DEF Spec, ImplementsSharedAtoms, SharedAtoms!Spec

----------------------------------------------------------------------------------
(* Recorded copies are shared values that are not revived. *)

(* What a step may do to a copy: it comes with a Record, goes without one, and gets no
   Record once it has none. *)
CopyStep(r) ==
  /\ r \notin Live /\ r \in Live' => RecordsOf(r)' # {}
  /\ r \in Live /\ r \notin Live' => RecordsOf(r) = {}
  /\ r \in Live /\ RecordsOf(r) = {} => RecordsOf(r)' = {}

LEMMA CopyStepUntouched ==
  ASSUME NEW r \in Copies, UNCHANGED <<copy, record>>
  PROVE  CopyStep(r)
BY DEF CopyStep, Live, RecordsOf

LEMMA CopyStepAlways ==
  ASSUME IInv, [Next]_vars, NEW r \in Copies
  PROVE  CopyStep(r)
<1> USE HandlesAssumption
<1>1. ASSUME NEW t \in Threads, NEW q \in Copies, NEW k \in Records, NEW c \in Cells,
             RecordTerm(t, q, k, c)
      PROVE  CopyStep(r)
  <2>1. \A j \in Records : record'[j] = IF j = k THEN q ELSE record[j]
    BY <1>1 DEF RecordTerm, IInv, HandlesTypeOK
  <2>2. q \notin Live /\ \A s \in Copies \ {q} : copy'[s] = copy[s]
    BY <1>1 DEF RecordTerm, Live, NoCopy, IInv, HandlesTypeOK
  <2>3. CASE r = q
    BY <2>1, <2>2, <2>3 DEF CopyStep, RecordsOf
  <2>4. CASE r # q
    BY <2>1, <2>2, <2>4 DEF CopyStep, RecordsOf, Live
  <2> QED
    BY <2>3, <2>4
<1>2. ASSUME NEW k \in Records, NEW l \in Records, RecordClone(k, l)
      PROVE  CopyStep(r)
  <2>1. PICK q \in Live : q = record[k]
    BY <1>2 DEF RecordClone, IInv, RecordInv, ArcsAreExact
  <2>2. \A j \in Records : record'[j] = IF j = l THEN q ELSE record[j]
    BY <1>2, <2>1 DEF RecordClone, IInv, HandlesTypeOK
  <2>3. copy'[r].state = copy[r].state
    BY <1>2, <2>1, ValuesTyped DEF RecordClone, IInv, HandlesTypeOK, Copy, NoCopy
  <2> QED
    BY <2>1, <2>2, <2>3 DEF CopyStep, RecordsOf, Live
<1>3. ASSUME NEW t \in Threads, NEW k \in Records, RecordDrop(t, k)
      PROVE  CopyStep(r)
  <2>1. PICK q \in Live : q = record[k]
    BY <1>3 DEF RecordDrop, IInv, RecordInv, ArcsAreExact
  <2>2. \A j \in Records : record'[j] = IF j = k THEN None ELSE record[j]
    BY <1>3 DEF RecordDrop, IInv, HandlesTypeOK
  <2>3. copy'[r].state = copy[r].state
    BY <1>3, <2>1, ValuesTyped DEF RecordDrop, IInv, HandlesTypeOK, Copy, NoCopy
  <2> QED
    BY <2>1, <2>2, <2>3 DEF CopyStep, RecordsOf, Live
<1>4. ASSUME NEW t \in Threads, Erase(t)
      PROVE  CopyStep(r)
  <2>1. PICK q \in Live : q = erasing[t] /\ RecordsOf(q) = {}
    BY <1>4 DEF Erase, IInv, RecordInv, OneErase
  <2>2. \A s \in Copies \ {q} : copy'[s] = copy[s]
    BY <1>4, <2>1 DEF Erase, IInv, HandlesTypeOK
  <2>3. copy'[q].state = "erased"
    BY <1>4, <2>1, ValuesTyped DEF Erase, IInv, HandlesTypeOK, Copy
  <2> QED
    BY <1>4, <2>1, <2>2, <2>3 DEF Erase, CopyStep, RecordsOf, Live
<1>5. ASSUME NEW t \in Threads, AtomStep(t)
      PROVE  CopyStep(r)
  BY <1>5, CopyStepUntouched
     DEF AtomStep, AtomNew, AtomClone, AtomDrop, Keep, KeepText, PutAtom, PutAtomText, CloseFrame,
         ReadName, recordVars
<1>6. ASSUME NEW t \in Threads, RecordStep(t)
      PROVE  CopyStep(r)
  BY <1>1, <1>2, <1>3, <1>6, CopyStepUntouched DEF RecordStep, BeginRecall
<1>7. ASSUME NEW t \in Threads, Inside(t)
      PROVE  CopyStep(r)
  BY <1>4, <1>7, CopyStepUntouched DEF Inside, ReadAtom, FromRaw, Abandon, EndRecall, recordVars
<1>8. CASE UNCHANGED vars
  BY <1>8, CopyStepUntouched DEF vars
<1>9. ASSUME NEW c \in Cells, Collect(c)
      PROVE  CopyStep(r)
  BY <1>9, CopyStepUntouched DEF Collect, recordVars
<1> QED
  BY <1>5, <1>6, <1>7, <1>8, <1>9 DEF Next

(* A Record is on a live copy. *)
RecordsAreOnCopies == \A r \in Copies : r \notin Live => RecordsOf(r) = {}

LEMMA RecordedIsPresent == IInv => RecordsAreOnCopies
BY HandlesAssumption DEF IInv, RecordInv, ArcsAreExact, RecordsOf, RecordsAreOnCopies

LEMMA RecordStepsAreShared ==
  IInv /\ IInv' /\ [Next]_vars => [SharedCopies!Next]_(SharedCopies!sharedVars)
<1>0. /\ IInv => RecordsAreOnCopies
      /\ IInv' => RecordsAreOnCopies'
  BY RecordedIsPresent, PTL
<1> SUFFICES ASSUME IInv, IInv', [Next]_vars PROVE SharedCopies!Next
  OBVIOUS
<1> DEFINE own == [r \in Copies |-> RecordsOf(r)]
           there == [r \in Copies |-> r \in Live]
<1>1. own' \in [Copies -> SUBSET Records]
  BY DEF RecordsOf
<1>2. there' \in [Copies -> BOOLEAN]
  OBVIOUS
<1>3. ASSUME NEW r \in Copies
      PROVE  \/ SharedCopies!Create(r) \/ SharedCopies!Change(r)
             \/ SharedCopies!Reclaim(r) \/ SharedCopies!Absent(r)
  <2>1. CopyStep(r)
    BY CopyStepAlways
  <2>2. r \notin Live' => RecordsOf(r)' = {}
    BY <1>0 DEF RecordsAreOnCopies
  <2> QED
    BY <2>1, <2>2 DEF CopyStep, SharedCopies!Create, SharedCopies!Change, SharedCopies!Reclaim,
                      SharedCopies!Absent
<1> QED
  BY <1>1, <1>2, <1>3 DEF SharedCopies!Next

(* The clones of a Record are the owners of one recorded copy, which comes and goes
   with them: a copy whose last clone went is not shared again and is not gone before. *)
THEOREM CopiesAreShared == Spec => ImplementsSharedCopies
<1>1. Init => SharedCopies!Init
  <2> SUFFICES ASSUME Init PROVE SharedCopies!Init
    OBVIOUS
  <2>1. \A r \in Copies : RecordsOf(r) = {} /\ r \notin Live
    BY HandlesAssumption DEF Init, RecordsOf, Live, NoCopy
  <2>2. [r \in Copies |-> RecordsOf(r)] = [v \in Copies |-> {}]
    BY <2>1
  <2>3. \A r \in Copies : (r \in Live) = FALSE
    BY <2>1
  <2>4. [r \in Copies |-> r \in Live] = [v \in Copies |-> FALSE]
    BY <2>3, Zenon
  <2> QED
    BY <2>2, <2>4, Zenon DEF SharedCopies!Init
<1> QED
  BY <1>1, Invariance, RecordStepsAreShared, PTL
     DEF Spec, ImplementsSharedCopies, SharedCopies!Spec

===================================================================================
