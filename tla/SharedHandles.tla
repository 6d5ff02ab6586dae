------------------------------ MODULE SharedHandles ------------------------------
(***********************************************************************************)
(* The values a program holds across engines and threads: atoms (handles.rs) and  *)
(* records (record.rs).  An Atom is one reference on an entry of SWI-Prolog's      *)
(* atom table, whose entries the atom collector frees and reuses; a Record shares *)
(* one recorded copy, erased when the last clone goes.  Several threads make,      *)
(* clone, read and drop them while the collector runs.                              *)
(*                                                                                 *)
(* A recorded term and a term on a stack are represented by the atom in it.  Terms *)
(* keep atoms alive by being found by the collector, everything else by count.     *)
(***********************************************************************************)
EXTENDS Naturals, FiniteSets

CONSTANTS
  Threads,
  Cells,     \* entries of the atom table: the values of atom_t
  Texts,     \* the texts of atoms
  Atoms,     \* identities of Atom values
  Copies,    \* recorded copies; bound: never reused
  Records,   \* identities of Record values
  None

ASSUME HandlesAssumption ==
  /\ None \notin Texts \cup Atoms \cup Copies \cup Records
  /\ None \notin [cell : Cells, text : Texts]
  /\ IsFiniteSet(Atoms) /\ IsFiniteSet(Copies) /\ IsFiniteSet(Records)
  /\ Atoms \cap Copies = {}

VARIABLES
  text,       \* C side: the text of each cell, None if it is free
  count,      \* C side: the references on it
  kept,       \* C side: cells that functors, modules and predicates keep for good
  stack,      \* C side: the cells in terms on each thread's stacks
  raw,        \* atoms the thread has read from a term and holds no reference on yet
  atom,       \* the Atom values
  copy,       \* the recorded copies and the Arcs around them
  record,     \* the Record values
  recalling,  \* the Record a thread is recalling, which it borrows
  erasing     \* the copy a thread has dropped the last Record of

atomVars == <<text, count, kept, stack, raw, atom>>
recordVars == <<copy, record, recalling, erasing>>
vars == <<text, count, kept, stack, raw, atom, copy, record, recalling, erasing>>

----------------------------------------------------------------------------------

(* A cell and the text that was meant; the text is a ghost. *)
Named == [cell : Cells, text : Texts]

NoCopy == [state |-> "unused", strong |-> 0]
Copy == [state : {"live", "erased"}, strong : Nat, cell : Cells, text : Texts]

HandlesTypeOK ==
  /\ text \in [Cells -> Texts \cup {None}]
  /\ count \in [Cells -> Nat]
  /\ kept \in SUBSET Cells
  /\ stack \in [Threads -> SUBSET Cells]
  /\ raw \in [Threads -> SUBSET Named]
  /\ atom \in [Atoms -> Named \cup {None}]
  /\ copy \in [Copies -> Copy \cup {NoCopy}]
  /\ record \in [Records -> Copies \cup {None}]
  /\ recalling \in [Threads -> Records \cup {None}]
  /\ erasing \in [Threads -> Copies \cup {None}]

(* A thread that is not inside a function of the crate. *)
Idle(t) == raw[t] = {} /\ recalling[t] = None /\ erasing[t] = None

AtomsOn(c) == {h \in Atoms : atom[h] # None /\ atom[h].cell = c}
Live == {r \in Copies : copy[r].state = "live"}
CopiesOn(c) == {r \in Live : copy[r].cell = c}
RecordsOf(r) == {k \in Records : record[k] = r}
Borrowed(k) == \E t \in Threads : recalling[t] = k

Init ==
  /\ text = [c \in Cells |-> None]
  /\ count = [c \in Cells |-> 0]
  /\ kept = {}
  /\ stack = [t \in Threads |-> {}]
  /\ raw = [t \in Threads |-> {}]
  /\ atom = [h \in Atoms |-> None]
  /\ copy = [r \in Copies |-> NoCopy]
  /\ record = [k \in Records |-> None]
  /\ recalling = [t \in Threads |-> None]
  /\ erasing = [t \in Threads |-> None]

----------------------------------------------------------------------------------
(* Atoms. *)

(* The cell of a text: the one that has it, or else a free one. *)
Interned(x, c) == text[c] = x \/ (text[c] = None /\ \A d \in Cells : text[d] # x)

(* PL_register_atom *)
Register(c) == count' = [count EXCEPT ![c] = @ + 1]

(* Faulty variant: a reference is taken on top of the one that comes with the atom. *)
AtomNewRegistering(h, x, c) ==
  /\ atom[h] = None
  /\ Interned(x, c)
  /\ text' = [text EXCEPT ![c] = x]
  /\ count' = [count EXCEPT ![c] = @ + 2]
  /\ atom' = [atom EXCEPT ![h] = [cell |-> c, text |-> x]]
  /\ UNCHANGED <<kept, stack, raw, recordVars>>

(* Atom::new: the atom PL_new_atom_nchars returns carries a reference. *)
AtomNew(h, x, c) ==
  /\ atom[h] = None
  /\ Interned(x, c)
  /\ text' = [text EXCEPT ![c] = x]
  /\ Register(c)
  /\ atom' = [atom EXCEPT ![h] = [cell |-> c, text |-> x]]
  /\ UNCHANGED <<kept, stack, raw, recordVars>>

(* Faulty variant: a clone that shares the reference it was made from. *)
AtomCloneSharing(h, g) ==
  /\ atom[h] # None /\ atom[g] = None
  /\ atom' = [atom EXCEPT ![g] = atom[h]]
  /\ UNCHANGED <<text, count, kept, stack, raw, recordVars>>

AtomClone(h, g) ==
  /\ atom[h] # None /\ atom[g] = None
  /\ Register(atom[h].cell)
  /\ atom' = [atom EXCEPT ![g] = atom[h]]
  /\ UNCHANGED <<text, kept, stack, raw, recordVars>>

(* Drop for Atom: PL_unregister_atom. *)
AtomDrop(h) ==
  /\ atom[h] # None
  /\ count' = [count EXCEPT ![atom[h].cell] = @ - 1]
  /\ atom' = [atom EXCEPT ![h] = None]
  /\ UNCHANGED <<text, kept, stack, raw, recordVars>>

(* Functor::new and Module::new; their from_name makes an Atom and drops it again. *)
Keep(h) ==
  /\ atom[h] # None
  /\ kept' = kept \cup {atom[h].cell}
  /\ UNCHANGED <<text, count, stack, raw, atom, recordVars>>

(* Predicate::from_name: C finds or makes the name's atom and keeps it. *)
KeepText(x, c) ==
  /\ Interned(x, c)
  /\ text' = [text EXCEPT ![c] = x]
  /\ kept' = kept \cup {c}
  /\ UNCHANGED <<count, stack, raw, atom, recordVars>>

(* put_atom and put_dict *)
PutAtom(t, h) ==
  /\ atom[h] # None
  /\ stack' = [stack EXCEPT ![t] = @ \cup {atom[h].cell}]
  /\ UNCHANGED <<text, count, kept, raw, atom, recordVars>>

(* put_atom_text, and any term Prolog itself makes on the engine: no reference. *)
PutAtomText(t, x, c) ==
  /\ Interned(x, c)
  /\ text' = [text EXCEPT ![c] = x]
  /\ stack' = [stack EXCEPT ![t] = @ \cup {c}]
  /\ UNCHANGED <<count, kept, raw, atom, recordVars>>

(* The frame of the terms is closed. *)
CloseFrame(t) ==
  /\ stack[t] # {}
  /\ stack' = [stack EXCEPT ![t] = {}]
  /\ UNCHANGED <<text, count, kept, raw, atom, recordVars>>

(* get_atom, name_arity and dict_entries first read raw atoms from a term; dict_entries
   reads one for each key before it registers any. *)
ReadAtom(t, c) ==
  /\ recalling[t] = None /\ erasing[t] = None
  /\ c \in stack[t]
  /\ raw' = [raw EXCEPT ![t] = @ \cup {[cell |-> c, text |-> text[c]]}]
  /\ UNCHANGED <<text, count, kept, stack, atom, recordVars>>

(* Predicate::name, Functor::name and Module::name read it from the handle. *)
ReadName(t, c) ==
  /\ c \in kept
  /\ raw' = [raw EXCEPT ![t] = {[cell |-> c, text |-> text[c]]}]
  /\ UNCHANGED <<text, count, kept, stack, atom, recordVars>>

(* Faulty variant: the handle is wrapped around a raw atom as it is. *)
FromRawUnregistered(t, h, named) ==
  /\ named \in raw[t] /\ atom[h] = None
  /\ atom' = [atom EXCEPT ![h] = named]
  /\ raw' = [raw EXCEPT ![t] = @ \ {named}]
  /\ UNCHANGED <<text, count, kept, stack, recordVars>>

(* Atom::from_raw: then a reference is taken on each. *)
FromRaw(t, h, named) ==
  /\ named \in raw[t] /\ atom[h] = None
  /\ Register(named.cell)
  /\ atom' = [atom EXCEPT ![h] = named]
  /\ raw' = [raw EXCEPT ![t] = @ \ {named}]
  /\ UNCHANGED <<text, kept, stack, recordVars>>

(* dict_entries fails at a later entry. *)
Abandon(t) ==
  /\ raw[t] # {}
  /\ raw' = [raw EXCEPT ![t] = {}]
  /\ UNCHANGED <<text, count, kept, stack, atom, recordVars>>

(* The atom collector, run by Prolog in any thread at any time. *)
Collect(c) ==
  /\ text[c] # None /\ count[c] = 0 /\ c \notin kept
  /\ \A t \in Threads : c \notin stack[t]
  /\ text' = [text EXCEPT ![c] = None]
  /\ UNCHANGED <<count, kept, stack, raw, atom, recordVars>>

----------------------------------------------------------------------------------
(* Records. *)

(* Term::record: the copy takes references on its atoms. *)
RecordTerm(t, r, k, c) ==
  /\ c \in stack[t] /\ text[c] # None
  /\ copy[r] = NoCopy /\ record[k] = None
  /\ copy' = [copy EXCEPT ![r] = [state |-> "live", strong |-> 1, cell |-> c, text |-> text[c]]]
  /\ Register(c)
  /\ record' = [record EXCEPT ![k] = r]
  /\ UNCHANGED <<text, kept, stack, raw, atom, recalling, erasing>>

(* Faulty variant: a clone that is not counted by the Arc. *)
RecordCloneUncounted(k, l) ==
  /\ record[k] # None /\ record[l] = None
  /\ record' = [record EXCEPT ![l] = record[k]]
  /\ UNCHANGED <<atomVars, copy, recalling, erasing>>

RecordClone(k, l) ==
  /\ record[k] # None /\ record[l] = None
  /\ copy' = [copy EXCEPT ![record[k]].strong = @ + 1]
  /\ record' = [record EXCEPT ![l] = record[k]]
  /\ UNCHANGED <<atomVars, recalling, erasing>>

(* Faulty variant: every Record erases. *)
RecordDropErasing(t, k) ==
  /\ record[k] # None /\ ~Borrowed(k)
  /\ copy' = [copy EXCEPT ![record[k]].strong = @ - 1]
  /\ erasing' = [erasing EXCEPT ![t] = record[k]]
  /\ record' = [record EXCEPT ![k] = None]
  /\ UNCHANGED <<atomVars, recalling>>

(* Drop of a Record: the Arc counts down, and the thread that takes the last one
   goes on to drop the RawRecord. *)
RecordDrop(t, k) ==
  /\ record[k] # None /\ ~Borrowed(k)
  /\ copy' = [copy EXCEPT ![record[k]].strong = @ - 1]
  /\ erasing' = [erasing EXCEPT ![t] = IF copy[record[k]].strong = 1 THEN record[k] ELSE None]
  /\ record' = [record EXCEPT ![k] = None]
  /\ UNCHANGED <<atomVars, recalling>>

(* Drop for RawRecord: PL_erase. *)
Erase(t) ==
  /\ erasing[t] # None
  /\ copy' = [copy EXCEPT ![erasing[t]].state = "erased"]
  /\ count' = [count EXCEPT ![copy[erasing[t]].cell] = @ - 1]
  /\ erasing' = [erasing EXCEPT ![t] = None]
  /\ UNCHANGED <<text, kept, stack, raw, atom, record, recalling>>

(* Record::recall, recall_into and to_external: PL_recorded takes its time. *)
BeginRecall(t, k) ==
  /\ record[k] # None
  /\ recalling' = [recalling EXCEPT ![t] = k]
  /\ UNCHANGED <<atomVars, copy, record, erasing>>

EndRecall(t) ==
  /\ recalling[t] # None
  /\ recalling' = [recalling EXCEPT ![t] = None]
  /\ \/ stack' = [stack EXCEPT ![t] = @ \cup {copy[record[recalling[t]]].cell}]
     \/ UNCHANGED stack
  /\ UNCHANGED <<text, count, kept, raw, atom, copy, record, erasing>>

----------------------------------------------------------------------------------

AtomStep(t) ==
  \/ \E h \in Atoms, x \in Texts, c \in Cells : AtomNew(h, x, c)
  \/ \E h \in Atoms, g \in Atoms : AtomClone(h, g)
  \/ \E h \in Atoms : AtomDrop(h)
  \/ \E h \in Atoms : Keep(h)
  \/ \E x \in Texts, c \in Cells : KeepText(x, c)
  \/ \E h \in Atoms : PutAtom(t, h)
  \/ \E x \in Texts, c \in Cells : PutAtomText(t, x, c)
  \/ CloseFrame(t)
  \/ \E c \in Cells : ReadName(t, c)

RecordStep(t) ==
  \/ \E r \in Copies, k \in Records, c \in Cells : RecordTerm(t, r, k, c)
  \/ \E k \in Records, l \in Records : RecordClone(k, l)
  \/ \E k \in Records : RecordDrop(t, k)
  \/ \E k \in Records : BeginRecall(t, k)

(* The rest of a function that was begun. *)
Inside(t) ==
  \/ \E c \in Cells : ReadAtom(t, c)
  \/ \E h \in Atoms, named \in raw[t] : FromRaw(t, h, named)
  \/ Abandon(t)
  \/ Erase(t)
  \/ EndRecall(t)

Next ==
  \/ \E t \in Threads : (Idle(t) /\ (AtomStep(t) \/ RecordStep(t))) \/ Inside(t)
  \/ \E c \in Cells : Collect(c)

Spec == Init /\ [][Next]_vars

----------------------------------------------------------------------------------
(* The properties. *)

(* A1: an Atom, and an atom read from a term and not yet registered, denote the text
   they were made for, whatever was collected and reused in between. *)
HandlesMeanTheirText ==
  /\ \A h \in Atoms : atom[h] # None => text[atom[h].cell] = atom[h].text
  /\ \A t \in Threads : \A named \in raw[t] : text[named.cell] = named.text

(* Atoms compare and hash by their raw handle: that is comparing texts. *)
EqualityIsByText ==
  \A h, g \in Atoms :
    atom[h] # None /\ atom[g] # None =>
      (atom[h].cell = atom[g].cell <=> atom[h].text = atom[g].text)

(* A1: no reference is lost and none is left behind: an atom that no handle and no
   record owns can be collected. *)
CountsAreExact ==
  \A c \in Cells : count[c] = Cardinality(AtomsOn(c)) + Cardinality(CopiesOn(c))

(* RC1: a copy is erased by the thread that dropped its last Record, by one thread,
   once; a copy that is being recalled is still there. *)
OneErase ==
  /\ \A r \in Live : RecordsOf(r) = {} <=> \E t \in Threads : erasing[t] = r
  /\ \A s, t \in Threads : erasing[s] # None /\ erasing[s] = erasing[t] => s = t
  /\ \A t \in Threads : erasing[t] # None => erasing[t] \in Live
  /\ \A t \in Threads : recalling[t] # None => record[recalling[t]] \in Live

(* What is recalled is what was recorded, also when the atom in it has lost every
   other owner meanwhile. *)
RecordsMeanTheirText == \A r \in Live : text[copy[r].cell] = copy[r].text

(* Atoms and records are shared values; a copy without Records is not shared again. *)
SharedAtoms ==
  INSTANCE SharedValues WITH
    Values <- Cells,
    Owners <- Atoms \cup Copies,
    Revivable <- TRUE,
    owners <- [c \in Cells |-> AtomsOn(c) \cup CopiesOn(c)],
    present <- [c \in Cells |-> text[c] # None]

SharedCopies ==
  INSTANCE SharedValues WITH
    Values <- Copies,
    Owners <- Records,
    Revivable <- FALSE,
    owners <- [r \in Copies |-> RecordsOf(r)],
    present <- [r \in Copies |-> r \in Live]

ImplementsSharedAtoms == SharedAtoms!Spec
ImplementsSharedCopies == SharedCopies!Spec
===================================================================================
