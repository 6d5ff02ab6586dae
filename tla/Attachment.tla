------------------------------- MODULE Attachment -------------------------------
(***********************************************************************************)
(* Engines, the threads they are attached to, and the attach guards (engine.rs,   *)
(* the engine half of runtime.rs, and the activation record of scope.rs).         *)
(*                                                                                 *)
(* Every thread has a C-side slot (the engine PL_set_engine made current) and a   *)
(* Rust-side activation record that claims to describe it.  Engine values are     *)
(* created, sent to other threads, attached for the duration of a callback,       *)
(* nested, and dropped.  What the two sides must agree on is invariant C1; that a *)
(* guard can always restore what it replaced is invariant E5.                     *)
(*                                                                                 *)
(* The persistent engine of a thread t (the main engine, or the one created by    *)
(* Runtime::engine) has no handle; it is named t.  A refused or failed operation  *)
(* (AlreadyAttached, NotInnermost, EngineCreateError) changes nothing and is a    *)
(* stuttering step.                                                                *)
(***********************************************************************************)
EXTENDS Scope, Sequences, FiniteSets

CONSTANTS
  Threads,       \* native threads
  Engines,       \* identities of the engines Engine::new can create
  MainThread,    \* the thread that initialized the runtime
  None,          \* the empty engine slot, and the absent holder
  MaxGen,        \* bound: generations minted
  MaxWitnesses   \* bound: CurrentEngine witnesses remembered

ASSUME AttachmentAssumption ==
  /\ MainThread \in Threads
  /\ Threads \cap Engines = {}
  /\ None \notin Threads \cup Engines
  /\ MaxGen \in Nat
  /\ MaxWitnesses \in Nat

VARIABLES
  phase,       \* C side: which engines exist
  holder,      \* the thread that owns the Engine value, or None once it is gone
  slot,        \* C side: the engine attached to each thread
  activation,  \* each thread's ACTIVATION cell
  guards,      \* each thread's live AttachedEngine guards, outermost first
  genMint,     \* GEN_MINT
  witnesses    \* the CurrentEngine witnesses taken so far

attachVars == <<phase, holder, slot, activation, guards, genMint, witnesses>>

----------------------------------------------------------------------------------
(* The types. *)

Slots == Threads \cup Engines \cup {None}

(* The fields of AttachedEngine, and the engine it borrows exclusively. *)
Guard == [engine : Engines, gen : Nat, previous : Slots, saved : Activation]

(* CurrentEngine: its snapshot, with the thread and the engine it was taken on. *)
Witness == [thread : Threads, engine : Threads \cup Engines, act : Activation]

TypeOK ==
  /\ phase \in [Engines -> {"absent", "alive", "destroyed"}]
  /\ holder \in [Engines -> Threads \cup {None}]
  /\ slot \in [Threads -> Slots]
  /\ activation \in [Threads -> Activation]
  /\ guards \in [Threads -> Seq(Guard)]
  /\ genMint \in Nat \ {0}
  /\ witnesses \in SUBSET Witness

----------------------------------------------------------------------------------
(* Borrows, and the C API as this crate uses it. *)

Top(s) == s[Len(s)]
Pop(s) == SubSeq(s, 1, Len(s) - 1)

(* Faulty variant: attaching through a shared borrow. *)
NeverBorrowed(e) == FALSE

(* A live guard holds the engine's `&mut`. *)
Borrowed(e) == \E t \in Threads : \E i \in 1..Len(guards[t]) : guards[t][i].engine = e

(* Thread t may call a `&mut self` method of e, move it or drop it. *)
Owns(t, e) == holder[e] = t /\ ~Borrowed(e)

AttachedElsewhere(t, e) == \E u \in Threads \ {t} : slot[u] = e

(* PL_set_engine answers PL_ENGINE_SET: not PL_ENGINE_INVAL, not PL_ENGINE_INUSE. *)
Settable(t, x) ==
  \/ x = None
  \/ /\ x \in Engines => phase[x] = "alive"
     /\ ~AttachedElsewhere(t, x)

----------------------------------------------------------------------------------
(* The operations. *)

Init ==
  /\ phase = [e \in Engines |-> "absent"]
  /\ holder = [e \in Engines |-> None]
  /\ slot = [t \in Threads |-> IF t = MainThread THEN t ELSE None]
  /\ activation = [t \in Threads |-> Unmanaged]
  /\ guards = [t \in Threads |-> <<>>]
  /\ genMint = 1
  /\ witnesses = {}

EngineNew(t, e) ==
  /\ phase[e] = "absent"
  /\ phase' = [phase EXCEPT ![e] = "alive"]
  /\ holder' = [holder EXCEPT ![e] = t]
  /\ UNCHANGED <<slot, activation, guards, genMint, witnesses>>

(* Engine is Send: an owner that has not lent it moves it to another thread. *)
EngineSend(t, u, e) ==
  /\ Owns(t, e)
  /\ holder' = [holder EXCEPT ![e] = u]
  /\ UNCHANGED <<phase, slot, activation, guards, genMint, witnesses>>

(* Faulty variant: the generation of the saved record is reused. *)
EnterEngineReusing(t) ==
  /\ activation' = [activation EXCEPT ![t] = Entered(activation[t].gen + 1)]
  /\ genMint' = genMint + 1

EnterEngine(t) ==
  /\ activation' = [activation EXCEPT ![t] = Entered(genMint)]
  /\ genMint' = genMint + 1

AttachUnchecked(t, e) ==
  /\ genMint <= MaxGen
  /\ Settable(t, e)
  /\ slot' = [slot EXCEPT ![t] = e]
  /\ EnterEngine(t)
  /\ guards' = [guards EXCEPT ![t] = Append(@,
       [engine |-> e, gen |-> activation'[t].gen, previous |-> slot[t], saved |-> activation[t]])]
  /\ UNCHANGED <<phase, holder, witnesses>>

Attach(t, e) ==
  /\ Owns(t, e)
  /\ activation[t].gen = 0
  /\ AttachUnchecked(t, e)

(* The outer guard is one lent to an enclosing callback, so it is still live. *)
AttachWithin(t, e) ==
  /\ Owns(t, e)
  /\ \E i \in 1..Len(guards[t]) : activation[t].gen = guards[t][i].gen
  /\ AttachUnchecked(t, e)

(* Faulty variants: detaching instead of restoring; restoring the slot only; no
   check that the guard is the innermost attachment. *)
GuardDropDetaching(t) ==
  /\ guards[t] # <<>>
  /\ guards' = [guards EXCEPT ![t] = Pop(@)]
  /\ slot' = [slot EXCEPT ![t] = None]
  /\ activation' = [activation EXCEPT ![t] = Top(guards[t]).saved]
  /\ UNCHANGED <<phase, holder, genMint, witnesses>>

GuardDropRecordOnly(t) ==
  /\ guards[t] # <<>>
  /\ guards' = [guards EXCEPT ![t] = Pop(@)]
  /\ activation' = [activation EXCEPT ![t] = Top(guards[t]).saved]
  /\ UNCHANGED <<phase, holder, slot, genMint, witnesses>>

GuardDropUnchecked(t) ==
  /\ guards[t] # <<>>
  /\ guards' = [guards EXCEPT ![t] = Pop(@)]
  /\ slot' = [slot EXCEPT ![t] = Top(guards[t]).previous]
  /\ activation' = [activation EXCEPT ![t] = Top(guards[t]).saved]
  /\ UNCHANGED <<phase, holder, genMint, witnesses>>

(* A callback returns or unwinds and its guard is dropped.  A guard that is not
   the innermost attachment, or whose PL_set_engine is refused, panics (or stays
   silent while unwinding) and leaves slot and record alone. *)
GuardDrop(t) ==
  LET g == Top(guards[t]) IN
  /\ guards[t] # <<>>
  /\ guards' = [guards EXCEPT ![t] = Pop(@)]
  /\ IF activation[t].gen = g.gen /\ Settable(t, g.previous)
     THEN /\ slot' = [slot EXCEPT ![t] = g.previous]
          /\ activation' = [activation EXCEPT ![t] = g.saved]
     ELSE UNCHANGED <<slot, activation>>
  /\ UNCHANGED <<phase, holder, genMint, witnesses>>

(* PL_destroy_engine is refused for an engine attached elsewhere (it leaks); it
   also detaches the engine from the calling thread. *)
EngineDrop(t, e) ==
  /\ Owns(t, e)
  /\ holder' = [holder EXCEPT ![e] = None]
  /\ IF AttachedElsewhere(t, e)
     THEN UNCHANGED <<phase, slot>>
     ELSE /\ phase' = [phase EXCEPT ![e] = "destroyed"]
          /\ slot' = [slot EXCEPT ![t] = IF @ = e THEN None ELSE @]
  /\ UNCHANGED <<activation, guards, genMint, witnesses>>

(* CurrentEngine::new: a snapshot of the record, remembered while there is room. *)
TakeWitness(t, engine) ==
  witnesses' =
    IF Cardinality(witnesses) < MaxWitnesses
    THEN witnesses \cup {[thread |-> t, engine |-> engine, act |-> activation[t]]}
    ELSE witnesses

(* Faulty variant: no check that an engine is attached. *)
CurrentEngineUnchecked(t) ==
  /\ TakeWitness(t, slot[t])
  /\ UNCHANGED <<phase, holder, slot, activation, guards, genMint>>

(* Runtime::current_engine, and Runtime::engine on a thread that has one. *)
CurrentEngine(t) ==
  /\ slot[t] # None
  /\ TakeWitness(t, slot[t])
  /\ UNCHANGED <<phase, holder, slot, activation, guards, genMint>>

(* Runtime::engine on a thread that has none: the new engine stays attached. *)
RuntimeEngine(t) ==
  /\ slot[t] = None
  /\ slot' = [slot EXCEPT ![t] = t]
  /\ TakeWitness(t, t)
  /\ UNCHANGED <<phase, holder, activation, guards, genMint>>

AttachStep(t, e) ==
  EngineNew(t, e) \/ Attach(t, e) \/ AttachWithin(t, e) \/ EngineDrop(t, e)

ThreadStep(t) == GuardDrop(t) \/ CurrentEngine(t) \/ RuntimeEngine(t)

Next ==
  \/ \E t \in Threads, e \in Engines : AttachStep(t, e)
  \/ \E t \in Threads, u \in Threads, e \in Engines : EngineSend(t, u, e)
  \/ \E t \in Threads : ThreadStep(t)

Spec == Init /\ [][Next]_attachVars

----------------------------------------------------------------------------------
(* The properties. *)

(* C1 and C3: a handle stamped with a generation is used only while the record
   still shows that generation, and then the engine attached to the thread is the
   one the handle was made on -- after any nesting, restoring and sending. *)
StampedHandleFindsItsEngine ==
  \A w \in witnesses : SameGen(activation[w.thread], w.act.gen) => slot[w.thread] = w.engine

(* E5: whatever the other threads have done since, each guard is still able to put
   back the engine it replaced, and the innermost one finds its own generation. *)
RestoreSucceeds ==
  \A t \in Threads :
    /\ \A i \in 1..Len(guards[t]) : Settable(t, guards[t][i].previous)
    /\ guards[t] # <<>> => activation[t].gen = Top(guards[t]).gen

(* E1, E4: an engine nobody has borrowed is attached nowhere, so attaching it from
   any thread never answers INUSE and dropping it never leaks it. *)
IdleEngineIsDetached ==
  \A e \in Engines : phase[e] = "alive" /\ ~Borrowed(e) => \A t \in Threads : slot[t] # e

(* E5, E6, E7: the guards implement per-thread stacks of engines: each thread gets
   back exactly what it had, an engine is in one stack at most and is destroyed
   only outside every stack, and a persistent engine is never given up. *)
Base(t) == IF guards[t] = <<>> THEN slot[t] ELSE guards[t][1].previous

StackOf(t) ==
  (IF Base(t) = None THEN <<>> ELSE <<Base(t)>>)
    \o [i \in 1..Len(guards[t]) |-> guards[t][i].engine]

Stacks == INSTANCE EngineStacks WITH stack <- [t \in Threads |-> StackOf(t)]

ImplementsEngineStacks == Stacks!Spec
==================================================================================
