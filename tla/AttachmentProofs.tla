---------------------------- MODULE AttachmentProofs ----------------------------
(***********************************************************************************)
(* Proofs about the attach layer, for any number of threads, engines, generations *)
(* and witnesses.  The inductive invariant says that the guards of a thread form  *)
(* a chain from its base slot up to its current slot, each link recording what it *)
(* replaced, and that no engine or generation occurs in two links.                *)
(***********************************************************************************)
EXTENDS Attachment, SequenceTheorems, TLAPS

(* What a guard records: a borrowed living engine, a minted generation, and the
   record and slot of the attachment below it. *)
Linked(t, i) ==
  LET g == guards[t][i] IN
  /\ g.gen \in 1..(genMint - 1)
  /\ phase[g.engine] = "alive"
  /\ holder[g.engine] = t
  /\ i = 1 => g.saved.gen = 0 /\ g.previous \in {None, t}
  /\ i > 1 => g.saved.gen = guards[t][i - 1].gen /\ g.previous = guards[t][i - 1].engine

(* C1: slot and record are those of the innermost guard, or unmanaged. *)
Current(t) ==
  IF guards[t] = <<>>
  THEN activation[t].gen = 0 /\ slot[t] \in {None, t}
  ELSE activation[t].gen = Top(guards[t]).gen /\ slot[t] = Top(guards[t]).engine

Chain == \A t \in Threads : Current(t) /\ \A i \in 1..Len(guards[t]) : Linked(t, i)

Distinct ==
  \A t, u \in Threads : \A i \in 1..Len(guards[t]), j \in 1..Len(guards[u]) :
    guards[t][i].gen = guards[u][j].gen \/ guards[t][i].engine = guards[u][j].engine
      => t = u /\ i = j

(* A witness of the unmanaged record saw the persistent engine; a witness of a
   live attachment saw that attachment's engine on its thread. *)
Attributed(w) ==
  /\ w.act.gen < genMint
  /\ w.act.gen = 0 => w.engine = w.thread /\ Base(w.thread) = w.thread
  /\ \A t \in Threads : \A i \in 1..Len(guards[t]) :
       w.act.gen = guards[t][i].gen => w.thread = t /\ w.engine = guards[t][i].engine

IInv ==
  /\ TypeOK
  /\ Chain
  /\ Distinct
  /\ \A w \in witnesses : Attributed(w)

----------------------------------------------------------------------------------
(* Sequences as stacks. *)

(* Pushing onto a stack: attach appends the new guard. *)
LEMMA PushStack ==
  ASSUME NEW S, NEW s \in Seq(S), NEW x \in S
  PROVE  /\ Append(s, x) \in Seq(S)
         /\ Append(s, x) # <<>>
         /\ Len(Append(s, x)) = Len(s) + 1
         /\ Top(Append(s, x)) = x
         /\ \A i \in 1..Len(s) : Append(s, x)[i] = s[i]
  BY DEF Top

(* Popping a stack: a guard's drop removes the innermost guard only. *)
LEMMA PopStack ==
  ASSUME NEW S, NEW s \in Seq(S), s # <<>>
  PROVE  /\ Pop(s) \in Seq(S)
         /\ Len(s) \in Nat \ {0}
         /\ Len(Pop(s)) = Len(s) - 1
         /\ Top(s) \in S
         /\ \A i \in 1..Len(s) : s[i] \in S
         /\ \A i \in 1..(Len(s) - 1) : Pop(s)[i] = s[i]
         /\ Pop(s) = <<>> <=> Len(s) = 1
<1>1. Len(s) \in Nat \ {0}
  BY EmptySeq, LenProperties
<1>2. \A i \in 1..Len(s) : s[i] \in S
  BY ElementOfSeq
<1>3. Top(s) \in S
  BY <1>1, <1>2 DEF Top
<1>4. /\ Pop(s) \in Seq(S)
      /\ Len(Pop(s)) = Len(s) - 1
      /\ \A i \in 1..(Len(s) - 1) : Pop(s)[i] = s[i]
  <2>1. /\ 1 \in Int /\ Len(s) - 1 \in Int
        /\ \A i \in 1..(Len(s) - 1) : s[i] \in S
    BY <1>1, <1>2
  <2> DEFINE q == SubSeq(s, 1, Len(s) - 1)
  <2>2. /\ q \in Seq(S)
        /\ Len(q) = IF 1 <= Len(s) - 1 THEN Len(s) - 1 - 1 + 1 ELSE 0
        /\ \A i \in 1..(Len(s) - 1 - 1 + 1) : q[i] = s[1 + i - 1]
    BY <2>1, SubSeqProperties
  <2>3. Pop(s) = q
    BY DEF Pop
  <2> HIDE DEF q
  <2>4. Len(q) = Len(s) - 1
    <3> DEFINE n == Len(s)
    <3>1. n \in Nat /\ n >= 1 /\ Len(q) = IF 1 <= n - 1 THEN n - 1 - 1 + 1 ELSE 0
      BY <1>1, <2>2
    <3> HIDE DEF n
    <3>2. Len(q) = n - 1
      BY <3>1
    <3>. QED
      BY <3>2 DEF n
  <2>5. ASSUME NEW i \in 1..(Len(s) - 1) PROVE q[i] = s[i]
    BY <1>1, <2>2
  <2>. QED
    BY <2>2, <2>3, <2>4, <2>5
<1>5. Pop(s) = <<>> <=> Len(s) = 1
  BY <1>1, <1>4, EmptySeq
<1>. QED
  BY <1>1, <1>2, <1>3, <1>4, <1>5

----------------------------------------------------------------------------------
(* Type correctness. *)

(* The initial state is well typed. *)
LEMMA TypeInit == Init => TypeOK
  BY AttachmentAssumption
  DEF Init, TypeOK, Unmanaged, Activation, Slots, Guard, Witness

(* Attaching keeps the types: the guard it appends is a Guard. *)
LEMMA TypeAttach ==
  ASSUME TypeOK, NEW t \in Threads, NEW e \in Engines, AttachUnchecked(t, e)
  PROVE  TypeOK'
<1> DEFINE g == [engine |-> e, gen |-> activation'[t].gen, previous |-> slot[t],
                 saved |-> activation[t]]
<1>1. activation' \in [Threads -> Activation] /\ genMint' \in Nat \ {0}
  BY DEF TypeOK, AttachUnchecked, EnterEngine, Entered, Activation
<1>2. activation'[t].gen \in Nat
  BY <1>1 DEF Activation
<1>3. g \in Guard
  BY <1>2 DEF TypeOK, Guard, Slots
<1>4. guards' = [guards EXCEPT ![t] = Append(guards[t], g)]
  BY DEF AttachUnchecked
<1>5. guards' \in [Threads -> Seq(Guard)]
  BY <1>3, <1>4, PushStack DEF TypeOK
<1>6. slot' \in [Threads -> Slots]
  BY DEF TypeOK, AttachUnchecked, Slots
<1>. QED
  BY <1>1, <1>5, <1>6 DEF TypeOK, AttachUnchecked

(* Dropping a guard keeps the types. *)
LEMMA TypeGuardDrop ==
  ASSUME TypeOK, NEW t \in Threads, GuardDrop(t)
  PROVE  TypeOK'
<1>1. guards[t] \in Seq(Guard) /\ guards[t] # <<>>
  BY DEF TypeOK, GuardDrop
<1>2. Pop(guards[t]) \in Seq(Guard) /\ Top(guards[t]) \in Guard
  BY <1>1, PopStack
<1>3. guards' \in [Threads -> Seq(Guard)]
  BY <1>2 DEF TypeOK, GuardDrop
<1>4. slot' \in [Threads -> Slots] /\ activation' \in [Threads -> Activation]
  BY <1>2 DEF TypeOK, GuardDrop, Guard
<1>. QED
  BY <1>3, <1>4 DEF TypeOK, GuardDrop

(* Every step keeps the types. *)
LEMMA TypeNext == TypeOK /\ [Next]_attachVars => TypeOK'
<1> SUFFICES ASSUME TypeOK, [Next]_attachVars PROVE TypeOK'
  OBVIOUS
<1>1. ASSUME NEW t \in Threads, NEW e \in Engines, AttachStep(t, e) PROVE TypeOK'
  <2>1. CASE EngineNew(t, e)
    BY <2>1 DEF TypeOK, EngineNew
  <2>2. CASE Attach(t, e)
    BY <2>2, TypeAttach DEF Attach
  <2>3. CASE AttachWithin(t, e)
    BY <2>3, TypeAttach DEF AttachWithin
  <2>4. CASE EngineDrop(t, e)
    BY <2>4 DEF TypeOK, EngineDrop, Slots
  <2>. QED
    BY <1>1, <2>1, <2>2, <2>3, <2>4 DEF AttachStep
<1>2. ASSUME NEW t \in Threads, NEW u \in Threads, NEW e \in Engines, EngineSend(t, u, e)
      PROVE  TypeOK'
  BY <1>2 DEF TypeOK, EngineSend
<1>3. ASSUME NEW t \in Threads, ThreadStep(t) PROVE TypeOK'
  <2>1. CASE GuardDrop(t)
    BY <2>1, TypeGuardDrop
  <2>2. CASE CurrentEngine(t)
    BY <2>2 DEF TypeOK, CurrentEngine, TakeWitness, Witness, Slots
  <2>3. CASE RuntimeEngine(t)
    BY <2>3 DEF TypeOK, RuntimeEngine, TakeWitness, Witness, Slots
  <2>. QED
    BY <1>3, <2>1, <2>2, <2>3 DEF ThreadStep
<1>4. CASE UNCHANGED attachVars
  BY <1>4 DEF TypeOK, attachVars
<1>. QED
  BY <1>1, <1>2, <1>3, <1>4 DEF Next

(* The state of the attach layer is always well typed. *)
THEOREM TypeCorrect == Spec => []TypeOK
  BY TypeInit, TypeNext, PTL DEF Spec

----------------------------------------------------------------------------------
(* What the invariant says of a thread, in the forms the steps use. *)

(* Guards, their engines and their saved records have the declared types. *)
LEMMA GuardTypes ==
  ASSUME TypeOK, NEW t \in Threads
  PROVE  /\ guards[t] \in Seq(Guard)
         /\ Len(guards[t]) \in Nat
         /\ guards[t] # <<>> => Len(guards[t]) \in 1..Len(guards[t])
         /\ guards[t] = <<>> => Len(guards[t]) = 0
         /\ \A i \in 1..Len(guards[t]) :
              /\ guards[t][i] \in Guard
              /\ guards[t][i].engine \in Engines
              /\ guards[t][i].gen \in Nat
              /\ guards[t][i].previous \in Slots
              /\ guards[t][i].saved \in Activation
<1>1. guards[t] \in Seq(Guard)
  BY DEF TypeOK
<1>2. Len(guards[t]) \in Nat /\ (guards[t] # <<>> => Len(guards[t]) \in Nat \ {0})
  BY <1>1, EmptySeq, LenProperties
<1>3. \A i \in 1..Len(guards[t]) : guards[t][i] \in Guard
  BY <1>1, ElementOfSeq
<1>. QED
  BY <1>1, <1>2, <1>3 DEF Guard

(* C1 read from the C side: an engine made by Engine::new that is attached to a
   thread is the engine of that thread's innermost guard. *)
LEMMA AttachedIsInnermost ==
  ASSUME TypeOK, Chain, NEW t \in Threads, NEW e \in Engines, slot[t] = e
  PROVE  /\ guards[t] # <<>>
         /\ Len(guards[t]) \in 1..Len(guards[t])
         /\ guards[t][Len(guards[t])].engine = e
         /\ activation[t].gen = guards[t][Len(guards[t])].gen
<1>1. guards[t] # <<>>
  BY AttachmentAssumption DEF Chain, Current
<1>. QED
  BY <1>1, GuardTypes DEF Chain, Current, Top

(* A persistent engine is attached to no thread but its own. *)
LEMMA PersistentStaysHome ==
  ASSUME TypeOK, Chain, NEW t \in Threads
  PROVE  ~AttachedElsewhere(t, t)
<1> SUFFICES ASSUME NEW u \in Threads \ {t}, slot[u] = t PROVE FALSE
  BY DEF AttachedElsewhere
<1>1. guards[u] # <<>>
  BY AttachmentAssumption DEF Chain, Current
<1>2. slot[u] \in Engines
  BY <1>1, GuardTypes DEF Chain, Current, Top
<1>. QED
  BY <1>2, AttachmentAssumption

(* E5: the slot a guard replaced can be attached again, whatever else happened. *)
LEMMA PreviousIsSettable ==
  ASSUME IInv, NEW t \in Threads, NEW i \in 1..Len(guards[t])
  PROVE  Settable(t, guards[t][i].previous)
<1> USE DEF IInv
<1>1. Linked(t, i)
  BY DEF Chain
<1>2. CASE i = 1
  <2>1. guards[t][i].previous \in {None, t}
    BY <1>1, <1>2 DEF Linked
  <2>. QED
    BY <2>1, PersistentStaysHome, AttachmentAssumption DEF Settable
<1>3. CASE i > 1
  <2> DEFINE e == guards[t][i - 1].engine
  <2>1. i - 1 \in 1..Len(guards[t]) /\ Len(guards[t]) \in Nat
    BY <1>3, GuardTypes
  <2>2. guards[t][i].previous = e /\ e \in Engines
    BY <1>1, <1>3, <2>1, GuardTypes DEF Linked
  <2>3. phase[e] = "alive"
    BY <2>1 DEF Chain, Linked
  <2>4. ~AttachedElsewhere(t, e)
    <3> SUFFICES ASSUME NEW u \in Threads \ {t}, slot[u] = e PROVE FALSE
      BY DEF AttachedElsewhere
    <3>1. /\ Len(guards[u]) \in 1..Len(guards[u])
          /\ guards[u][Len(guards[u])].engine = e
      BY <2>2, AttachedIsInnermost
    <3>. QED
      BY <2>1, <3>1 DEF Distinct
  <2>. QED
    BY <2>2, <2>3, <2>4 DEF Settable
<1>. QED
  BY <1>2, <1>3, GuardTypes

(* E1, E4: an engine nobody borrows is attached nowhere. *)
LEMMA UnborrowedIsDetached ==
  ASSUME IInv, NEW e \in Engines, ~Borrowed(e), NEW t \in Threads
  PROVE  slot[t] # e
  BY AttachedIsInnermost DEF IInv, Borrowed

----------------------------------------------------------------------------------
(* The invariant, one lemma per kind of step. *)

(* Attaching pushes a link that records the current slot and record. *)
LEMMA AttachKeepsIInv ==
  ASSUME IInv, NEW t \in Threads, NEW e \in Engines, Owns(t, e), AttachUnchecked(t, e)
  PROVE  IInv'
<1>n. PICK n \in Nat : n = Len(guards[t])
  BY GuardTypes DEF IInv
<1>g. PICK g : g = [engine |-> e, gen |-> genMint, previous |-> slot[t],
                    saved |-> activation[t]]
  OBVIOUS
<1>0. TypeOK /\ TypeOK' /\ Chain /\ Distinct /\ genMint \in Nat \ {0}
  BY TypeAttach DEF IInv, TypeOK
<1>1. /\ slot' = [slot EXCEPT ![t] = e]
      /\ activation' = [activation EXCEPT ![t] = Entered(genMint)]
      /\ activation'[t].gen = genMint
      /\ genMint' = genMint + 1
      /\ UNCHANGED <<phase, holder, witnesses>>
      /\ phase[e] = "alive"
  BY <1>0, AttachmentAssumption DEF AttachUnchecked, EnterEngine, Entered, Settable, TypeOK
<1>2. /\ guards' = [guards EXCEPT ![t] = Append(guards[t], g)]
      /\ g \in Guard
  <2>1. guards' = [guards EXCEPT ![t] = Append(guards[t], g)]
    BY <1>1, <1>g DEF AttachUnchecked
  <2>2. g \in Guard
    BY <1>0, <1>g DEF Guard, TypeOK, Slots
  <2>. QED
    BY <2>1, <2>2
<1>3. /\ Len(guards'[t]) = n + 1
      /\ guards'[t] # <<>>
      /\ Top(guards'[t]) = g
      /\ guards'[t][n + 1] = g
      /\ \A i \in 1..n : guards'[t][i] = guards[t][i]
      /\ \A u \in Threads \ {t} : guards'[u] = guards[u]
  <2>1. guards[t] \in Seq(Guard) /\ guards'[t] = Append(guards[t], g)
    BY <1>0, <1>2 DEF TypeOK
  <2>2. /\ Len(guards'[t]) = n + 1 /\ guards'[t] # <<>> /\ Top(guards'[t]) = g
        /\ \A i \in 1..n : guards'[t][i] = guards[t][i]
    BY <1>2, <1>n, <2>1, PushStack
  <2>3. guards'[t][n + 1] = g
    BY <2>2 DEF Top
  <2>4. \A u \in Threads \ {t} : guards'[u] = guards[u]
    BY <1>0, <1>2 DEF TypeOK
  <2>. QED
    BY <2>2, <2>3, <2>4
<1>4. n = Len(guards[t])
  BY <1>n
<1>5. g.engine = e /\ g.gen = genMint /\ g.previous = slot[t] /\ g.saved = activation[t]
  BY <1>g
<1>6. \A u \in Threads : \A i \in 1..Len(guards[u]) :
        /\ guards[u][i].gen \in 1..(genMint - 1)
        /\ guards[u][i].engine # e
  BY <1>0 DEF Chain, Linked, Owns, Borrowed
<1>7. Chain'
  <2>1. ASSUME NEW u \in Threads PROVE Current(u)'
    BY <1>0, <1>1, <1>3, <1>5 DEF Chain, Current, TypeOK
  <2>2. ASSUME NEW u \in Threads \ {t}, NEW i \in 1..Len(guards'[u]) PROVE Linked(u, i)'
    BY <1>0, <1>1, <1>3, <2>2 DEF Chain, Linked
  <2>3. ASSUME NEW i \in 1..n PROVE Linked(t, i)'
    <3>1. Linked(t, i)
      BY <1>0, <1>4, <2>3 DEF Chain
    <3>2. i > 1 => i - 1 \in 1..n
      BY <1>0
    <3>. QED
      BY SMTT(30), <1>0, <1>1, <1>3, <3>1, <3>2 DEF Linked
  <2>4. Linked(t, n + 1)'
    <3>1. n + 1 = 1 => activation[t].gen = 0 /\ slot[t] \in {None, t}
      BY <1>0, <1>4, GuardTypes DEF Chain, Current
    <3>2. n + 1 > 1 => /\ activation[t].gen = guards'[t][n].gen
                       /\ slot[t] = guards'[t][n].engine
      <4> SUFFICES ASSUME n + 1 > 1
                   PROVE  /\ activation[t].gen = guards'[t][n].gen
                          /\ slot[t] = guards'[t][n].engine
        OBVIOUS
      <4>1. n \in 1..n /\ guards[t] # <<>>
        BY <1>0, <1>4, GuardTypes
      <4>. QED
        BY <1>0, <1>3, <1>4, <4>1 DEF Chain, Current, Top
    <3>3. n + 1 - 1 = n
      BY <1>0
    <3>4. genMint \in 1..(genMint' - 1) /\ phase'[e] = "alive" /\ holder'[e] = t
      BY <1>0, <1>1 DEF Owns
    <3>5. guards'[t][n + 1].engine = e /\ guards'[t][n + 1].gen = genMint
      BY <1>3, <1>5
    <3>6. guards'[t][n + 1].previous = slot[t] /\ guards'[t][n + 1].saved = activation[t]
      BY <1>3, <1>5
    <3>. QED
      BY <3>1, <3>2, <3>3, <3>4, <3>5, <3>6 DEF Linked
  <2>5. \A i \in 1..Len(guards'[t]) : Linked(t, i)'
    <3>1. \A i \in 1..Len(guards'[t]) : i \in 1..n \/ i = n + 1
      BY <1>0, <1>3
    <3>. QED
      BY <2>3, <2>4, <3>1
  <2>6. \A u \in Threads : \A i \in 1..Len(guards'[u]) : Linked(u, i)'
    BY <2>2, <2>5
  <2>. QED
    BY <2>1, <2>6 DEF Chain
<1>8. Distinct'
  <2>1. \A u \in Threads : \A i \in 1..Len(guards'[u]) :
          \/ /\ i \in 1..Len(guards[u])
             /\ guards'[u][i] = guards[u][i]
             /\ guards'[u][i].gen # genMint
             /\ guards'[u][i].engine # e
          \/ u = t /\ i = n + 1 /\ guards'[u][i].gen = genMint /\ guards'[u][i].engine = e
    BY SMTT(30), <1>0, <1>3, <1>4, <1>5, <1>6
  <2>2. SUFFICES ASSUME NEW u \in Threads, NEW v \in Threads,
                        NEW i \in 1..Len(guards'[u]), NEW j \in 1..Len(guards'[v]),
                        \/ guards'[u][i].gen = guards'[v][j].gen
                        \/ guards'[u][i].engine = guards'[v][j].engine
                 PROVE  u = v /\ i = j
    BY DEF Distinct
  <2>3. \/ /\ i \in 1..Len(guards[u]) /\ guards'[u][i] = guards[u][i]
           /\ guards'[u][i].gen # genMint /\ guards'[u][i].engine # e
        \/ u = t /\ i = n + 1 /\ guards'[u][i].gen = genMint /\ guards'[u][i].engine = e
    BY <2>1
  <2>4. \/ /\ j \in 1..Len(guards[v]) /\ guards'[v][j] = guards[v][j]
           /\ guards'[v][j].gen # genMint /\ guards'[v][j].engine # e
        \/ v = t /\ j = n + 1 /\ guards'[v][j].gen = genMint /\ guards'[v][j].engine = e
    BY <2>1
  <2>. QED
    BY SMTT(30), <1>0, <2>2, <2>3, <2>4 DEF Distinct
<1>9. ASSUME NEW w \in witnesses PROVE Attributed(w)'
  <2>1. Attributed(w) /\ w.act.gen \in Nat /\ w.thread \in Threads
    BY <1>0, <1>9 DEF IInv, TypeOK, Witness, Activation
  <2>2. Base(t)' = Base(t)
    <3>1. CASE guards[t] = <<>>
      BY <1>0, <1>3, <1>4, <1>5, <3>1, GuardTypes DEF Base
    <3>2. CASE guards[t] # <<>>
      <4>1. 1 \in 1..n
        BY <1>0, <1>4, <3>2, GuardTypes
      <4>. QED
        BY <1>3, <3>2, <4>1 DEF Base
    <3>. QED
      BY <3>1, <3>2
  <2>3. \A u \in Threads \ {t} : Base(u)' = Base(u)
    BY <1>0, <1>1, <1>3 DEF Base, TypeOK
  <2>4. \A u \in Threads : Base(u)' = Base(u)
    BY <2>2, <2>3
  <2>5. ASSUME NEW u \in Threads, NEW i \in 1..Len(guards'[u]), w.act.gen = guards'[u][i].gen
        PROVE  w.thread = u /\ w.engine = guards'[u][i].engine
    <3>1. i \in 1..Len(guards[u]) /\ guards'[u][i] = guards[u][i]
      BY <1>0, <1>3, <1>4, <1>5, <2>1, <2>5 DEF Attributed
    <3>. QED
      BY <2>1, <2>5, <3>1 DEF Attributed
  <2>. QED
    BY <1>0, <1>1, <2>1, <2>4, <2>5 DEF Attributed
<1>. QED
  BY <1>0, <1>1, <1>7, <1>8, <1>9 DEF IInv

(* Dropping a guard pops the innermost link and puts back what it recorded. *)
LEMMA GuardDropKeepsIInv ==
  ASSUME IInv, NEW t \in Threads, GuardDrop(t)
  PROVE  IInv'
<1>0. /\ TypeOK /\ TypeOK' /\ Chain /\ Distinct /\ genMint \in Nat \ {0}
      /\ guards[t] \in Seq(Guard) /\ guards[t] # <<>>
  BY TypeGuardDrop DEF IInv, TypeOK, GuardDrop
<1>1. PICK n \in Nat \ {0} : n = Len(guards[t])
  BY <1>0, PopStack
<1>2. PICK g \in Guard : g = guards[t][n]
  BY <1>0, <1>1, PopStack DEF Top
<1>3. /\ n \in 1..Len(guards[t]) /\ Top(guards[t]) = g /\ Linked(t, n)
      /\ activation[t].gen = g.gen /\ slot[t] = g.engine
      /\ Settable(t, g.previous)
  BY <1>0, <1>1, <1>2, PreviousIsSettable DEF Chain, Current, Top
<1>4. /\ guards' = [guards EXCEPT ![t] = Pop(guards[t])]
      /\ slot' = [slot EXCEPT ![t] = g.previous]
      /\ activation' = [activation EXCEPT ![t] = g.saved]
      /\ UNCHANGED <<phase, holder, genMint, witnesses>>
  BY <1>3 DEF GuardDrop
<1>5. /\ Len(guards'[t]) = n - 1
      /\ \A i \in 1..(n - 1) : guards'[t][i] = guards[t][i]
      /\ guards'[t] = <<>> <=> n = 1
      /\ \A u \in Threads \ {t} : guards'[u] = guards[u]
  <2>1. guards'[t] = Pop(guards[t])
    BY <1>0, <1>4 DEF TypeOK
  <2>2. \A u \in Threads \ {t} : guards'[u] = guards[u]
    BY <1>0, <1>4 DEF TypeOK
  <2>. QED
    BY <1>0, <1>1, <2>1, <2>2, PopStack
<1>6. slot'[t] = g.previous /\ activation'[t] = g.saved
  BY <1>0, <1>4 DEF TypeOK
<1>7. \A u \in Threads : \A i \in 1..Len(guards'[u]) :
        i \in 1..Len(guards[u]) /\ guards'[u][i] = guards[u][i]
  BY <1>1, <1>5
<1>8. Chain'
  <2>1. ASSUME NEW u \in Threads \ {t} PROVE Current(u)'
    BY <1>0, <1>4, <1>5 DEF Chain, Current, TypeOK
  <2>2. Current(t)'
    <3>1. CASE n = 1
      BY <1>2, <1>3, <1>5, <1>6, <3>1 DEF Current, Linked
    <3>2. CASE n > 1
      <4>1. /\ g.saved.gen = guards[t][n - 1].gen
            /\ g.previous = guards[t][n - 1].engine
        BY <1>2, <1>3, <3>2 DEF Linked
      <4>2. n - 1 \in 1..(n - 1) /\ n # 1
        BY <3>2
      <4>3. Top(guards'[t]) = guards[t][n - 1]
        BY <1>5, <4>2 DEF Top
      <4>. QED
        BY <1>5, <1>6, <4>1, <4>2, <4>3 DEF Current
    <3>. QED
      BY <3>1, <3>2
  <2>3. ASSUME NEW u \in Threads, NEW i \in 1..Len(guards'[u]) PROVE Linked(u, i)'
    <3>1. Linked(u, i) /\ guards'[u][i] = guards[u][i]
      BY <1>0, <1>7 DEF Chain
    <3>2. i > 1 => guards'[u][i - 1] = guards[u][i - 1]
      <4>1. Len(guards'[u]) \in Nat
        BY <1>0, GuardTypes, LenProperties DEF TypeOK
      <4>2. i > 1 => i - 1 \in 1..Len(guards'[u])
        BY <4>1
      <4>. QED
        BY <1>7, <4>2
    <3>. QED
      BY <1>4, <3>1, <3>2 DEF Linked
  <2>. QED
    BY <2>1, <2>2, <2>3 DEF Chain
<1>9. Distinct'
  BY SMTT(30), <1>0, <1>7 DEF Distinct
<1>10. ASSUME NEW w \in witnesses PROVE Attributed(w)'
  <2>1. Attributed(w) /\ w.thread \in Threads
    BY <1>0, <1>10 DEF IInv, TypeOK, Witness
  <2>2. Base(t)' = Base(t)
    <3>1. CASE n = 1
      BY <1>2, <1>5, <1>6, <1>0, <3>1 DEF Base
    <3>2. CASE n > 1
      <4>1. 1 \in 1..(n - 1) /\ n # 1
        BY <3>2
      <4>. QED
        BY <1>0, <1>5, <4>1 DEF Base
    <3>. QED
      BY <3>1, <3>2
  <2>3. \A u \in Threads \ {t} : Base(u)' = Base(u)
    BY <1>0, <1>4, <1>5 DEF Base, TypeOK
  <2>4. Base(w.thread)' = Base(w.thread)
    BY <2>1, <2>2, <2>3
  <2>. QED
    BY <1>4, <1>7, <2>1, <2>4 DEF Attributed
<1>. QED
  BY <1>0, <1>4, <1>8, <1>9, <1>10 DEF IInv

(* A step that leaves slots, records and guards alone, and the engines that are
   borrowed in the hands of their owner, keeps every link. *)
LEMMA BorrowsUntouched ==
  ASSUME IInv, TypeOK', UNCHANGED <<slot, activation, guards, genMint>>,
         \A e \in Engines : Borrowed(e) => phase'[e] = phase[e] /\ holder'[e] = holder[e],
         \A w \in witnesses' : w \in witnesses \/ Attributed(w)
  PROVE  IInv'
<1>1. Chain'
  <2>1. ASSUME NEW t \in Threads PROVE Current(t)'
    BY DEF IInv, Chain, Current
  <2>2. ASSUME NEW t \in Threads, NEW i \in 1..Len(guards'[t]) PROVE Linked(t, i)'
    <3>1. Linked(t, i) /\ Borrowed(guards[t][i].engine) /\ guards[t][i].engine \in Engines
      BY GuardTypes DEF IInv, Chain, Borrowed
    <3>. QED
      BY <3>1 DEF Linked
  <2>. QED
    BY <2>1, <2>2 DEF Chain
<1>2. Distinct'
  BY DEF IInv, Distinct
<1>3. \A w \in witnesses' : Attributed(w)'
  BY DEF IInv, Attributed, Base
<1>. QED
  BY <1>1, <1>2, <1>3 DEF IInv

(* Creating, moving or destroying an engine needs that nobody borrows it. *)
LEMMA EngineStepKeepsIInv ==
  ASSUME IInv, TypeOK', NEW t \in Threads, NEW u \in Threads, NEW e \in Engines,
         EngineNew(t, e) \/ EngineSend(t, u, e) \/ EngineDrop(t, e)
  PROVE  IInv'
<1>1. ~Borrowed(e)
  <2>1. CASE EngineNew(t, e)
    <3> SUFFICES ASSUME NEW v \in Threads, NEW i \in 1..Len(guards[v]),
                        guards[v][i].engine = e
                 PROVE  FALSE
      BY DEF Borrowed
    <3>. QED
      BY <2>1 DEF IInv, Chain, Linked, EngineNew
  <2>2. CASE EngineSend(t, u, e) \/ EngineDrop(t, e)
    BY <2>2 DEF EngineSend, EngineDrop, Owns
  <2>. QED
    BY <2>1, <2>2
<1>2. slot[t] # e
  BY <1>1, UnborrowedIsDetached
<1>3. UNCHANGED <<slot, activation, guards, genMint, witnesses>>
  BY <1>2 DEF EngineNew, EngineSend, EngineDrop, IInv, TypeOK
<1>4. \A f \in Engines : Borrowed(f) => phase'[f] = phase[f] /\ holder'[f] = holder[f]
  BY <1>1 DEF EngineNew, EngineSend, EngineDrop, IInv, TypeOK
<1>. QED
  BY <1>3, <1>4, BorrowsUntouched

(* A witness names the engine attached to its thread, under the current record. *)
LEMMA CurrentEngineKeepsIInv ==
  ASSUME IInv, TypeOK', NEW t \in Threads, CurrentEngine(t)
  PROVE  IInv'
<1> DEFINE w == [thread |-> t, engine |-> slot[t], act |-> activation[t]]
<1>1. Attributed(w)
  <2>1. CASE guards[t] = <<>>
    <3>1. slot[t] = t /\ activation[t].gen = 0 /\ Base(t) = t
      BY <2>1 DEF IInv, Chain, Current, CurrentEngine, Base
    <3>2. \A u \in Threads : \A i \in 1..Len(guards[u]) : guards[u][i].gen # 0
      BY DEF IInv, Chain, Linked, TypeOK
    <3>. QED
      BY <3>1, <3>2 DEF Attributed, IInv, TypeOK
  <2>2. CASE guards[t] # <<>>
    <3>1. PICK n \in 1..Len(guards[t]) :
            activation[t].gen = guards[t][n].gen /\ slot[t] = guards[t][n].engine
      BY <2>2, GuardTypes DEF IInv, Chain, Current, Top
    <3>2. guards[t][n].gen \in 1..(genMint - 1) /\ genMint \in Nat
      BY DEF IInv, Chain, Linked, TypeOK
    <3>. QED
      BY <3>1, <3>2 DEF Attributed, IInv, Distinct
  <2>. QED
    BY <2>1, <2>2
<1>2. \A v \in witnesses' : v \in witnesses \/ v = w
  BY DEF CurrentEngine, TakeWitness
<1>3. UNCHANGED <<phase, holder, slot, activation, guards, genMint>>
  BY DEF CurrentEngine
<1>. QED
  BY <1>1, <1>2, <1>3, BorrowsUntouched

(* Runtime::engine attaches a persistent engine below every guard of the thread. *)
LEMMA RuntimeEngineKeepsIInv ==
  ASSUME IInv, TypeOK', NEW t \in Threads, RuntimeEngine(t)
  PROVE  IInv'
<1> DEFINE w == [thread |-> t, engine |-> t, act |-> activation[t]]
<1>1. guards[t] = <<>> /\ activation[t].gen = 0 /\ Base(t) = None
  <2>1. guards[t] = <<>>
    <3> SUFFICES ASSUME guards[t] # <<>> PROVE FALSE
      OBVIOUS
    <3>1. slot[t] \in Engines
      BY GuardTypes DEF IInv, Chain, Current, Top
    <3>. QED
      BY <3>1, AttachmentAssumption DEF RuntimeEngine
  <2>. QED
    BY <2>1 DEF IInv, Chain, Current, RuntimeEngine, Base
<1>2. /\ slot' = [slot EXCEPT ![t] = t]
      /\ UNCHANGED <<phase, holder, activation, guards, genMint>>
      /\ \A v \in witnesses' : v \in witnesses \/ v = w
  BY DEF RuntimeEngine, TakeWitness
<1>3. slot'[t] = t /\ \A u \in Threads \ {t} : slot'[u] = slot[u]
  BY <1>2 DEF IInv, TypeOK
<1>4. Chain'
  <2>1. ASSUME NEW u \in Threads PROVE Current(u)'
    BY <1>1, <1>2, <1>3 DEF IInv, Chain, Current
  <2>2. ASSUME NEW u \in Threads, NEW i \in 1..Len(guards'[u]) PROVE Linked(u, i)'
    BY <1>2 DEF IInv, Chain, Linked
  <2>. QED
    BY <2>1, <2>2 DEF Chain
<1>5. Distinct'
  BY <1>2 DEF IInv, Distinct
<1>6. Base(t)' = t /\ \A u \in Threads \ {t} : Base(u)' = Base(u)
  BY <1>1, <1>2, <1>3 DEF Base
<1>7. ASSUME NEW v \in witnesses, Attributed(v) PROVE Attributed(v)'
  <2>1. v.thread \in Threads
    BY DEF IInv, TypeOK, Witness
  <2>. QED
    BY <1>2, <1>6, <1>7, <2>1 DEF Attributed
<1>8. Attributed(w)'
  <2>1. \A u \in Threads : \A i \in 1..Len(guards[u]) : guards[u][i].gen # 0
    BY DEF IInv, Chain, Linked, TypeOK
  <2>2. genMint \in Nat \ {0}
    BY DEF IInv, TypeOK
  <2>. QED
    BY <1>1, <1>2, <1>6, <2>1, <2>2 DEF Attributed
<1>. QED
  BY <1>2, <1>4, <1>5, <1>7, <1>8 DEF IInv

(* The initial state: no guard, no witness, the main engine on its thread. *)
LEMMA IInvInit == Init => IInv
<1> SUFFICES ASSUME Init PROVE IInv
  OBVIOUS
<1>1. \A t \in Threads : guards[t] = <<>> /\ Len(guards[t]) = 0
  BY DEF Init
<1>2. Chain
  BY <1>1 DEF Init, Chain, Current, Unmanaged
<1>3. Distinct
  BY <1>1 DEF Distinct
<1>. QED
  BY <1>2, <1>3, TypeInit DEF Init, IInv

(* Every step keeps the invariant. *)
LEMMA IInvNext == IInv /\ [Next]_attachVars => IInv'
<1> SUFFICES ASSUME IInv, [Next]_attachVars PROVE IInv'
  OBVIOUS
<1>0. TypeOK'
  BY TypeNext DEF IInv
<1>1. ASSUME NEW t \in Threads, NEW e \in Engines, AttachStep(t, e) PROVE IInv'
  BY <1>0, <1>1, AttachKeepsIInv, EngineStepKeepsIInv DEF AttachStep, Attach, AttachWithin
<1>2. ASSUME NEW t \in Threads, NEW u \in Threads, NEW e \in Engines, EngineSend(t, u, e)
      PROVE  IInv'
  BY <1>0, <1>2, EngineStepKeepsIInv
<1>3. ASSUME NEW t \in Threads, ThreadStep(t) PROVE IInv'
  BY <1>0, <1>3, GuardDropKeepsIInv, CurrentEngineKeepsIInv, RuntimeEngineKeepsIInv
  DEF ThreadStep
<1>4. CASE UNCHANGED attachVars
  BY <1>0, <1>4, BorrowsUntouched DEF attachVars
<1>. QED
  BY <1>1, <1>2, <1>3, <1>4 DEF Next

----------------------------------------------------------------------------------
(* The theorems. *)

(* The guards of every thread always form a chain, with no link in two places. *)
THEOREM ChainCorrect == Spec => []IInv
  BY IInvInit, IInvNext, PTL DEF Spec

(* What the chain means for handles, guards and idle engines. *)
LEMMA ChainFindsEngines == IInv => StampedHandleFindsItsEngine
<1> SUFFICES ASSUME IInv, NEW w \in witnesses, SameGen(activation[w.thread], w.act.gen)
             PROVE  slot[w.thread] = w.engine
  BY DEF StampedHandleFindsItsEngine
<1>1. Attributed(w) /\ w.thread \in Threads /\ activation[w.thread].gen = w.act.gen
  BY DEF IInv, TypeOK, Witness, SameGen
<1>2. CASE guards[w.thread] = <<>>
  BY <1>1, <1>2 DEF IInv, Chain, Current, Attributed, Base
<1>3. CASE guards[w.thread] # <<>>
  <2>1. PICK n \in 1..Len(guards[w.thread]) :
          /\ activation[w.thread].gen = guards[w.thread][n].gen
          /\ slot[w.thread] = guards[w.thread][n].engine
    BY <1>1, <1>3, GuardTypes DEF IInv, Chain, Current, Top
  <2>. QED
    BY <1>1, <2>1 DEF Attributed
<1>. QED
  BY <1>2, <1>3

LEMMA ChainRestores == IInv => RestoreSucceeds
BY PreviousIsSettable DEF IInv, Chain, Current, RestoreSucceeds

LEMMA ChainHoldsAttached == IInv => IdleEngineIsDetached
BY UnborrowedIsDetached DEF IdleEngineIsDetached

(* C1, C3: whatever was nested, restored, sent or destroyed in between, a handle
   that passes the generation check finds the engine it was made on. *)
THEOREM StampedHandles == Spec => []StampedHandleFindsItsEngine
BY ChainCorrect, ChainFindsEngines, PTL

(* E5: every live guard can put back the engine it replaced, and the innermost one
   finds its own generation in the record: no guard's drop ever panics. *)
THEOREM GuardsRestore == Spec => []RestoreSucceeds
BY ChainCorrect, ChainRestores, PTL

(* E1, E4: an engine nobody borrows is attached nowhere, so attaching or dropping
   it on any thread succeeds. *)
THEOREM IdleEngines == Spec => []IdleEngineIsDetached
BY ChainCorrect, ChainHoldsAttached, PTL

(* E1, E6: an attached engine exists, is attached to no other thread, and, if made by
   Engine::new, is owned by the thread it is attached to. *)
AttachedOnceByOwner ==
  \A t \in Threads : slot[t] # None =>
    /\ ~AttachedElsewhere(t, slot[t])
    /\ slot[t] \in Engines => phase[slot[t]] = "alive" /\ holder[slot[t]] = t

LEMMA ChainAttachesOnce == IInv => AttachedOnceByOwner
<1> SUFFICES ASSUME IInv, NEW t \in Threads, slot[t] # None
             PROVE  /\ ~AttachedElsewhere(t, slot[t])
                    /\ slot[t] \in Engines => phase[slot[t]] = "alive" /\ holder[slot[t]] = t
  BY DEF AttachedOnceByOwner
<1>1. TypeOK /\ Chain /\ Distinct
  BY DEF IInv
<1>2. CASE slot[t] \in Engines
  <2>1. PICK n \in 1..Len(guards[t]) : guards[t][n].engine = slot[t]
    BY <1>1, <1>2, AttachedIsInnermost
  <2>2. phase[slot[t]] = "alive" /\ holder[slot[t]] = t
    BY <1>1, <2>1 DEF Chain, Linked
  <2>3. ASSUME NEW u \in Threads \ {t}, slot[u] = slot[t] PROVE FALSE
    <3>1. PICK m \in 1..Len(guards[u]) : guards[u][m].engine = slot[t]
      BY <1>1, <1>2, <2>3, AttachedIsInnermost
    <3>. QED
      BY <1>1, <2>1, <3>1 DEF Distinct
  <2>. QED
    BY <2>2, <2>3 DEF AttachedElsewhere
<1>3. CASE slot[t] \notin Engines
  <2>1. guards[t] = <<>>
    BY <1>1, <1>3, GuardTypes DEF Chain, Current, Top
  <2>2. slot[t] = t
    BY <1>1, <2>1 DEF Chain, Current
  <2>. QED
    BY <1>1, <1>3, <2>2, PersistentStaysHome
<1>. QED
  BY <1>2, <1>3

(* E1, E6: whatever was sent, nested and destroyed, no engine is attached to two
   threads, to a thread that does not own it, or after it was destroyed. *)
THEOREM EnginesAreAttachedOnce == Spec => []AttachedOnceByOwner
BY ChainCorrect, ChainAttachesOnce, PTL

----------------------------------------------------------------------------------
(* The guards, records and slots of Attachment implement the per-thread stacks of
   EngineStacks, for any number of threads, engines and generations. *)

(* The stack of a thread whose guards are gs on top of slot b. *)
Persistents == Threads \cup Engines
BaseStack(b) == IF b = None THEN <<>> ELSE <<b>>
LentEngines(gs) == [i \in 1..Len(gs) |-> gs[i].engine]

LEMMA UnderIsSeq ==
  ASSUME NEW b \in Threads \cup {None}
  PROVE  /\ BaseStack(b) \in Seq(Persistents)
         /\ \A i \in 1..Len(BaseStack(b)) : BaseStack(b)[i] = b
<1>1. CASE b = None
  BY <1>1, EmptySeq DEF BaseStack
<1>2. CASE b # None
  BY <1>2 DEF BaseStack, Persistents
<1> QED
  BY <1>1, <1>2

LEMMA LentIsSeq ==
  ASSUME NEW gs \in Seq(Guard)
  PROVE  /\ LentEngines(gs) \in Seq(Persistents)
         /\ Len(LentEngines(gs)) = Len(gs)
         /\ \A i \in 1..Len(gs) : LentEngines(gs)[i] = gs[i].engine /\ gs[i].engine \in Engines
<1>1. PICK n \in Nat : n = Len(gs)
  BY LenProperties
<1>2. \A i \in 1..n : gs[i].engine \in Engines
  <2>1. \A i \in 1..n : gs[i] \in Guard
    BY <1>1, ElementOfSeq
  <2> QED
    BY <2>1 DEF Guard
<1>3. LentEngines(gs) = [i \in 1..n |-> gs[i].engine]
  BY <1>1 DEF LentEngines
<1>4. [i \in 1..n |-> gs[i].engine] \in Seq(Persistents)
  BY <1>2 DEF Persistents
<1>5. Len([i \in 1..n |-> gs[i].engine]) = n
  OBVIOUS
<1> QED
  BY <1>1, <1>2, <1>3, <1>4, <1>5

(* Lending one more engine. *)
LEMMA LentPush ==
  ASSUME NEW gs \in Seq(Guard), NEW g \in Guard
  PROVE  LentEngines(Append(gs, g)) = Append(LentEngines(gs), g.engine)
<1>1. PICK n \in Nat : n = Len(gs)
  BY LenProperties
<1>2. /\ Append(gs, g) \in Seq(Guard) /\ Len(Append(gs, g)) = n + 1
      /\ \A i \in 1..n : Append(gs, g)[i] = gs[i]
      /\ Append(gs, g)[n + 1] = g
  BY <1>1, AppendProperties
<1>3. g.engine \in Engines
  BY DEF Guard
<1> DEFINE left == LentEngines(Append(gs, g))
           right == Append(LentEngines(gs), g.engine)
<1>4. /\ left \in Seq(Persistents) /\ Len(left) = n + 1
      /\ \A i \in 1..(n + 1) : left[i] = Append(gs, g)[i].engine
  BY <1>2, LentIsSeq
<1>5. /\ right \in Seq(Persistents) /\ Len(right) = n + 1
      /\ \A i \in 1..n : right[i] = gs[i].engine
      /\ right[n + 1] = g.engine
  BY <1>1, <1>3, LentIsSeq, AppendProperties DEF Persistents
<1>6. \A i \in 1..(n + 1) : left[i] = right[i]
  BY <1>2, <1>4, <1>5
<1> HIDE DEF left, right
<1>7. left = right
  BY <1>4, <1>5, <1>6, SeqEqual
<1> QED
  BY <1>7 DEF left, right

(* What the stack of guards gs, pushed or popped, is as a sequence; b is its base. *)
WholeStack(b, gs) == BaseStack(b) \o LentEngines(gs)

LEMMA WholeIsSeq ==
  ASSUME NEW b \in Threads \cup {None}, NEW gs \in Seq(Guard)
  PROVE  /\ WholeStack(b, gs) \in Seq(Persistents)
         /\ \A i \in 1..Len(WholeStack(b, gs)) :
              WholeStack(b, gs)[i] = b \/ \E j \in 1..Len(gs) : WholeStack(b, gs)[i] = gs[j].engine
<1>1. PICK m \in Nat : m = Len(BaseStack(b))
  BY UnderIsSeq, LenProperties
<1>2. PICK n \in Nat : n = Len(LentEngines(gs)) /\ n = Len(gs)
  BY LentIsSeq, LenProperties
<1>3. /\ WholeStack(b, gs) \in Seq(Persistents)
      /\ Len(WholeStack(b, gs)) = m + n
      /\ \A i \in 1..(m + n) :
           WholeStack(b, gs)[i] = IF i <= m THEN BaseStack(b)[i] ELSE LentEngines(gs)[i - m]
  <2> DEFINE u == BaseStack(b)
             l == LentEngines(gs)
  <2>1. u \in Seq(Persistents) /\ l \in Seq(Persistents) /\ m = Len(u) /\ n = Len(l)
    BY <1>1, <1>2, UnderIsSeq, LentIsSeq
  <2> HIDE DEF u, l
  <2>2. /\ u \o l \in Seq(Persistents)
        /\ Len(u \o l) = m + n
        /\ \A i \in 1..(m + n) : (u \o l)[i] = IF i <= m THEN u[i] ELSE l[i - m]
    BY <2>1, ConcatProperties
  <2> QED
    BY <2>2 DEF WholeStack, u, l
<1>4. ASSUME NEW i \in 1..(m + n)
      PROVE  WholeStack(b, gs)[i] = b \/ \E j \in 1..n : WholeStack(b, gs)[i] = gs[j].engine
  <2>1. CASE i <= m
    BY <1>1, <1>3, <2>1, UnderIsSeq
  <2>2. CASE ~(i <= m)
    <3>1. i - m \in 1..n
      BY <2>2
    <3> QED
      BY <1>2, <1>3, <2>2, <3>1, LentIsSeq
  <2> QED
    BY <2>1, <2>2
<1> QED
  BY <1>2, <1>3, <1>4

LEMMA WholePush ==
  ASSUME NEW b \in Threads \cup {None}, NEW gs \in Seq(Guard), NEW g \in Guard
  PROVE  WholeStack(b, Append(gs, g)) = Append(WholeStack(b, gs), g.engine)
<1> DEFINE u == BaseStack(b)
           l == LentEngines(gs)
           x == g.engine
<1>1. u \in Seq(Persistents) /\ l \in Seq(Persistents) /\ x \in Persistents
  BY UnderIsSeq, LentIsSeq DEF Guard, Persistents
<1>2. WholeStack(b, Append(gs, g)) = u \o Append(l, x)
  BY LentPush DEF WholeStack
<1>3. WholeStack(b, gs) = u \o l /\ u \o l \in Seq(Persistents)
  BY <1>1, ConcatProperties DEF WholeStack
<1> HIDE DEF u, l, x
<1>4. <<x>> \in Seq(Persistents)
  BY <1>1
<1>5. u \o Append(l, x) = u \o (l \o <<x>>)
  BY <1>1, AppendIsConcat
<1>6. u \o (l \o <<x>>) = (u \o l) \o <<x>>
  BY <1>1, <1>4, ConcatAssociative
<1>7. (u \o l) \o <<x>> = Append(u \o l, x)
  BY <1>1, <1>3, AppendIsConcat
<1> QED
  BY <1>2, <1>3, <1>5, <1>6, <1>7 DEF x

(* The last of a sequence goes. *)
LEMMA DropLast ==
  ASSUME NEW S, NEW s \in Seq(S), NEW x \in S
  PROVE  /\ Append(s, x) # <<>>
         /\ Append(s, x)[Len(Append(s, x))] = x
         /\ SubSeq(Append(s, x), 1, Len(Append(s, x)) - 1) = s
<1>1. PICK n \in Nat : n = Len(s)
  BY LenProperties
<1>2. /\ Append(s, x) \in Seq(S) /\ Append(s, x) # <<>> /\ Len(Append(s, x)) = n + 1
      /\ \A i \in 1..n : Append(s, x)[i] = s[i]
      /\ Append(s, x)[n + 1] = x
  BY <1>1, AppendProperties
<1> DEFINE a == Append(s, x)
           q == SubSeq(a, 1, n)
<1>3. 1 \in Int /\ n \in Int /\ \A i \in 1..n : a[i] \in S
  BY <1>1, <1>2, ElementOfSeq
<1> HIDE DEF a
<1>4. /\ q \in Seq(S) /\ Len(q) = IF 1 <= n THEN n - 1 + 1 ELSE 0
      /\ \A i \in 1..(n - 1 + 1) : q[i] = a[1 + i - 1]
  BY <1>3, SubSeqProperties
<1> HIDE DEF q
<1>5. Len(q) = n /\ \A i \in 1..n : q[i] = s[i]
  BY <1>2, <1>4 DEF a
<1>6. q = s
  BY <1>1, <1>4, <1>5, SeqEqual
<1>7. Len(Append(s, x)) - 1 = n
  BY <1>2
<1> QED
  BY <1>2, <1>6, <1>7 DEF a, q

LEMMA WholePop ==
  ASSUME NEW b \in Threads \cup {None}, NEW gs \in Seq(Guard), gs # <<>>
  PROVE  LET w == WholeStack(b, gs) IN
         /\ w # <<>>
         /\ w[Len(w)] = Top(gs).engine
         /\ WholeStack(b, Pop(gs)) = SubSeq(w, 1, Len(w) - 1)
<1>1. PICK rest \in Seq(Guard), g \in Guard : gs = Append(rest, g)
  BY SequenceEmptyOrAppend
<1>2. Top(gs) = g /\ Pop(gs) = rest
  BY <1>1, DropLast DEF Top, Pop
<1>3. WholeStack(b, gs) = Append(WholeStack(b, rest), g.engine)
  BY <1>1, WholePush
<1>4. WholeStack(b, rest) \in Seq(Persistents) /\ g.engine \in Persistents
  BY WholeIsSeq DEF Guard, Persistents
<1> HIDE DEF WholeStack
<1> QED
  BY <1>2, <1>3, <1>4, DropLast

----------------------------------------------------------------------------------
(* The state of Attachment as stacks. *)

LEMMA StackOfIsWhole == \A t : StackOf(t) = WholeStack(Base(t), guards[t])
BY DEF StackOf, WholeStack, BaseStack, LentEngines

LEMMA BaseIsHome ==
  ASSUME IInv, NEW t \in Threads
  PROVE  /\ guards[t] \in Seq(Guard)
         /\ Base(t) \in {None, t}
         /\ guards[t] # <<>> => 1 \in 1..Len(guards[t]) /\ Base(t) = guards[t][1].previous
<1>1. guards[t] \in Seq(Guard)
  BY DEF IInv, TypeOK
<1>2. guards[t] # <<>> => 1 \in 1..Len(guards[t])
  BY <1>1, EmptySeq
<1>3. CASE guards[t] = <<>>
  BY <1>1, <1>3 DEF IInv, Chain, Current, Base
<1>4. CASE guards[t] # <<>>
  <2>1. Linked(t, 1)
    BY <1>2, <1>4 DEF IInv, Chain
  <2> QED
    BY <1>1, <1>2, <1>4, <2>1 DEF Linked, Base
<1> QED
  BY <1>3, <1>4

(* An engine that is not lent lies in no stack. *)
LEMMA UnborrowedIsInNoStack ==
  ASSUME IInv, NEW e \in Engines, ~Borrowed(e)
  PROVE  ~Stacks!InStack(e)
<1> SUFFICES ASSUME NEW t \in Threads, NEW i \in 1..Len(StackOf(t)), StackOf(t)[i] = e
             PROVE  FALSE
  BY DEF Stacks!InStack
<1>1. PICK b \in Threads \cup {None}, gs \in Seq(Guard) : b = Base(t) /\ gs = guards[t] /\ b # e
  BY BaseIsHome, AttachmentAssumption
<1>2. StackOf(t) = WholeStack(b, gs)
  BY <1>1, StackOfIsWhole
<1>3. i \in 1..Len(WholeStack(b, gs)) /\ WholeStack(b, gs)[i] = e
  BY <1>2
<1>4. WholeStack(b, gs)[i] = b \/ \E j \in 1..Len(gs) : WholeStack(b, gs)[i] = gs[j].engine
  BY <1>3, WholeIsSeq
<1> QED
  BY <1>1, <1>3, <1>4 DEF Borrowed

(* Whoever holds an Engine holds one that exists: only its drop destroys it. *)
HeldIsAlive == \A e \in Engines : holder[e] # None => phase[e] = "alive"

LEMMA HeldAliveNext == IInv /\ HeldIsAlive /\ [Next]_attachVars => HeldIsAlive'
<1> SUFFICES ASSUME IInv, HeldIsAlive, [Next]_attachVars PROVE HeldIsAlive'
  OBVIOUS
<1> USE DEF IInv, TypeOK, HeldIsAlive
<1>1. ASSUME NEW t \in Threads, NEW e \in Engines, EngineNew(t, e) PROVE HeldIsAlive'
  BY <1>1 DEF EngineNew
<1>2. ASSUME NEW t \in Threads, NEW e \in Engines, EngineDrop(t, e) PROVE HeldIsAlive'
  BY <1>2 DEF EngineDrop
<1>3. ASSUME NEW t \in Threads, NEW e \in Engines, Attach(t, e) \/ AttachWithin(t, e)
      PROVE  HeldIsAlive'
  BY <1>3 DEF Attach, AttachWithin, AttachUnchecked
<1>4. ASSUME NEW t \in Threads, NEW u \in Threads, NEW e \in Engines, EngineSend(t, u, e)
      PROVE  HeldIsAlive'
  BY <1>4, AttachmentAssumption DEF EngineSend, Owns
<1>5. ASSUME NEW t \in Threads, ThreadStep(t) PROVE HeldIsAlive'
  BY <1>5 DEF ThreadStep, GuardDrop, CurrentEngine, RuntimeEngine
<1>6. CASE UNCHANGED attachVars
  BY <1>6 DEF attachVars
<1> QED
  BY <1>1, <1>2, <1>3, <1>4, <1>5, <1>6 DEF Next, AttachStep

LEMMA HeldAliveInit == Init => HeldIsAlive
BY DEF Init, HeldIsAlive

LEMMA HeldAlive == Spec => []HeldIsAlive
BY HeldAliveInit, HeldAliveNext, ChainCorrect, PTL DEF Spec

(* A step that leaves slots and guards alone leaves the stacks alone. *)
LEMMA EngineStacksStay ==
  ASSUME UNCHANGED <<slot, guards>>
  PROVE  \A t \in Threads : StackOf(t)' = StackOf(t)
<1> SUFFICES ASSUME NEW t \in Threads PROVE StackOf(t)' = StackOf(t)
  OBVIOUS
<1>1. Base(t)' = Base(t)
  BY DEF Base
<1> QED
  BY <1>1, Zenon DEF StackOf
----------------------------------------------------------------------------------
(* Every step is a step of the stacks. *)

LEMMA AttachPushes ==
  ASSUME IInv, IInv', NEW t \in Threads, NEW e \in Engines, Owns(t, e), AttachUnchecked(t, e)
  PROVE  Stacks!Push(t, e)
<1>1. PICK g : g = [engine |-> e, gen |-> activation'[t].gen, previous |-> slot[t],
                    saved |-> activation[t]]
  OBVIOUS
<1>2. /\ guards' = [guards EXCEPT ![t] = Append(guards[t], g)]
      /\ guards \in [Threads -> Seq(Guard)]
      /\ slot \in [Threads -> Slots] /\ slot' = [slot EXCEPT ![t] = e]
      /\ phase' = phase
  BY <1>1 DEF AttachUnchecked, IInv, TypeOK
<1>3. g \in Guard /\ g.engine = e /\ g.previous = slot[t]
  <2>1. activation[t] \in Activation /\ activation'[t].gen \in Nat
    BY DEF IInv, TypeOK, Activation
  <2> QED
    BY <1>1, <1>2, <2>1 DEF Guard
<1>4. PICK b \in {None, t} : b = Base(t)
  BY BaseIsHome
<1>5. PICK gs \in Seq(Guard) : gs = guards[t]
  BY <1>2
<1>6. guards'[t] = Append(gs, g) /\ Append(gs, g) # <<>>
      /\ (gs # <<>> => Append(gs, g)[1] = gs[1]) /\ (gs = <<>> => Append(gs, g)[1] = g)
  <2>1. guards'[t] = Append(gs, g)
    BY <1>2, <1>5
  <2>2. PICK n \in Nat : n = Len(gs)
    BY LenProperties
  <2>3. /\ Append(gs, g) # <<>>
        /\ \A i \in 1..n : Append(gs, g)[i] = gs[i]
        /\ Append(gs, g)[n + 1] = g
    BY <1>3, <2>2, AppendProperties
  <2>4. gs # <<>> => 1 \in 1..n
    BY <2>2, EmptySeq
  <2>5. gs = <<>> => n = 0
    BY <2>2, EmptySeq
  <2> QED
    BY <2>1, <2>3, <2>4, <2>5
<1>7. Base(t)' = b
  <2>1. CASE gs = <<>>
    <3>1. b = slot[t]
      BY <1>4, <1>5, <2>1 DEF Base
    <3> QED
      BY <1>3, <1>6, <2>1, <3>1 DEF Base
  <2>2. CASE gs # <<>>
    BY <1>4, <1>5, <1>6, <2>2 DEF Base
  <2> QED
    BY <2>1, <2>2
<1>8. StackOf(t) = WholeStack(b, gs)
  BY <1>4, <1>5, StackOfIsWhole
<1>9. StackOf(t)' = WholeStack(b, Append(gs, g))
  BY <1>6, <1>7 DEF StackOf, WholeStack, BaseStack, LentEngines
<1>10. StackOf(t)' = Append(StackOf(t), e)
  BY <1>3, <1>4, <1>8, <1>9, WholePush
<1>11. ASSUME NEW u \in Threads, u # t
       PROVE  StackOf(u)' = StackOf(u)
  <2>1. guards'[u] = guards[u] /\ slot'[u] = slot[u]
    BY <1>2, <1>11
  <2>2. Base(u)' = Base(u)
    BY <2>1 DEF Base
  <2> QED
    BY <2>1, <2>2, Zenon DEF StackOf
<1>12. phase[e] = "alive"
  BY AttachmentAssumption DEF AttachUnchecked, Settable
<1>13. ~Stacks!InStack(e)
  BY UnborrowedIsInNoStack DEF Owns
<1> QED
  BY <1>2, <1>10, <1>11, <1>12, <1>13 DEF Stacks!Push

LEMMA GuardDropPops ==
  ASSUME IInv, IInv', NEW t \in Threads, GuardDrop(t)
  PROVE  Stacks!Pop(t)
<1>1. PICK gs \in Seq(Guard) : gs = guards[t] /\ gs # <<>>
  BY DEF GuardDrop, IInv, TypeOK
<1>2. PICK n \in Nat \ {0} : n = Len(gs)
  BY <1>1, EmptySeq
<1>3. /\ Pop(gs) \in Seq(Guard) /\ Len(Pop(gs)) = n - 1
      /\ \A i \in 1..(n - 1) : Pop(gs)[i] = gs[i]
      /\ Pop(gs) = <<>> <=> n = 1
      /\ Top(gs) \in Guard
  BY <1>1, <1>2, PopStack
<1>4. Top(gs) = gs[n] /\ n \in 1..n
  BY <1>2 DEF Top
<1>5. Settable(t, Top(gs).previous) /\ activation[t].gen = Top(gs).gen
  <2>1. Settable(t, guards[t][n].previous)
    BY <1>1, <1>2, <1>4, PreviousIsSettable
  <2>2. activation[t].gen = Top(guards[t]).gen
    BY <1>1 DEF IInv, Chain, Current
  <2> QED
    BY <1>1, <1>4, <2>1, <2>2
<1>6. /\ guards' = [guards EXCEPT ![t] = Pop(gs)] /\ slot' = [slot EXCEPT ![t] = Top(gs).previous]
      /\ phase' = phase
      /\ guards \in [Threads -> Seq(Guard)] /\ slot \in [Threads -> Slots]
  BY <1>1, <1>5 DEF GuardDrop, IInv, TypeOK
<1>7. guards'[t] = Pop(gs) /\ slot'[t] = Top(gs).previous
  BY <1>6
<1>8. PICK b \in {None, t} : b = Base(t)
  BY BaseIsHome
<1>9. b = gs[1].previous
  BY <1>1, <1>8 DEF Base
<1>10. Base(t)' = b
  <2>1. CASE n = 1
    BY <1>3, <1>4, <1>7, <1>9, <2>1 DEF Base
  <2>2. CASE n # 1
    <3>1. 1 \in 1..(n - 1)
      BY <2>2
    <3>2. Pop(gs)[1] = gs[1] /\ Pop(gs) # <<>>
      BY <1>3, <2>2, <3>1
    <3> QED
      BY <1>7, <1>9, <3>2 DEF Base
  <2> QED
    BY <2>1, <2>2
<1>11. StackOf(t) = WholeStack(b, gs)
  BY <1>1, <1>8, StackOfIsWhole
<1>12. StackOf(t)' = WholeStack(b, Pop(gs))
  BY <1>7, <1>10 DEF StackOf, WholeStack, BaseStack, LentEngines
<1>13. /\ StackOf(t) # <<>>
       /\ StackOf(t)[Len(StackOf(t))] = Top(gs).engine /\ Top(gs).engine \in Engines
       /\ StackOf(t)' = SubSeq(StackOf(t), 1, Len(StackOf(t)) - 1)
  <2>1. Top(gs).engine \in Engines
    BY <1>3 DEF Guard
  <2> QED
    BY <1>1, <1>11, <1>12, <2>1, WholePop
<1>14. ASSUME NEW u \in Threads, u # t
       PROVE  StackOf(u)' = StackOf(u)
  <2>1. guards'[u] = guards[u] /\ slot'[u] = slot[u]
    BY <1>6, <1>14
  <2>2. Base(u)' = Base(u)
    BY <2>1 DEF Base
  <2> QED
    BY <2>1, <2>2, Zenon DEF StackOf
<1> QED
  BY <1>6, <1>13, <1>14 DEF Stacks!Pop

LEMMA RuntimeEngineAdopts ==
  ASSUME IInv, NEW t \in Threads, RuntimeEngine(t)
  PROVE  Stacks!Adopt(t)
<1>1. guards[t] = <<>>
  <2> SUFFICES ASSUME guards[t] # <<>> PROVE FALSE
    OBVIOUS
  <2>1. PICK gs \in Seq(Guard) : gs = guards[t] /\ gs # <<>>
    BY DEF IInv, TypeOK
  <2>2. Top(gs) \in Guard /\ slot[t] = Top(gs).engine
    BY <2>1, PopStack DEF IInv, Chain, Current
  <2>3. slot[t] \in Engines
    BY <2>2 DEF Guard
  <2> QED
    BY <2>3, AttachmentAssumption DEF RuntimeEngine
<1>2. /\ slot[t] = None /\ slot' = [slot EXCEPT ![t] = t] /\ slot \in [Threads -> Slots]
      /\ guards' = guards /\ phase' = phase
  BY DEF RuntimeEngine, IInv, TypeOK
<1>3. t # None
  BY AttachmentAssumption
<1>4. \A b : WholeStack(b, <<>>) = IF b = None THEN <<>> ELSE <<b>>
  <2> SUFFICES ASSUME NEW b PROVE WholeStack(b, <<>>) = IF b = None THEN <<>> ELSE <<b>>
    OBVIOUS
  <2>1. LentEngines(<<>>) = <<>>
    BY DEF LentEngines
  <2>2. BaseStack(b) \in Seq({b})
    <3>1. <<>> \in Seq({b}) /\ <<b>> \in Seq({b})
      BY EmptySeq
    <3> QED
      BY <3>1 DEF BaseStack
  <2>3. WholeStack(b, <<>>) = BaseStack(b)
    BY <2>1, <2>2, ConcatEmptySeq DEF WholeStack
  <2> QED
    BY <2>3 DEF BaseStack
<1>5. Base(t) = None /\ Base(t)' = t
  BY <1>1, <1>2 DEF Base
<1>6. StackOf(t) = WholeStack(None, <<>>) /\ StackOf(t)' = WholeStack(t, <<>>)
  BY <1>1, <1>2, <1>5 DEF StackOf, WholeStack, BaseStack, LentEngines
<1>7. StackOf(t) = <<>> /\ StackOf(t)' = <<t>>
  BY <1>3, <1>4, <1>6
<1>8. ASSUME NEW u \in Threads, u # t
      PROVE  StackOf(u)' = StackOf(u)
  <2>1. guards'[u] = guards[u] /\ slot'[u] = slot[u]
    BY <1>2, <1>8
  <2>2. Base(u)' = Base(u)
    BY <2>1 DEF Base
  <2> QED
    BY <2>1, <2>2, Zenon DEF StackOf
<1> QED
  BY <1>2, <1>7, <1>8 DEF Stacks!Adopt

(* An engine that nobody borrows is attached nowhere: its drop destroys it, outside of
   every stack. *)
LEMMA EngineDropDestroys ==
  ASSUME IInv, HeldIsAlive, NEW t \in Threads, NEW e \in Engines, EngineDrop(t, e)
  PROVE  Stacks!Destroy(e)
<1>1. ~Borrowed(e) /\ holder[e] = t /\ t # None
  BY AttachmentAssumption DEF EngineDrop, Owns
<1>2. \A u \in Threads : slot[u] # e
  BY <1>1, UnborrowedIsDetached
<1>3. ~AttachedElsewhere(t, e)
  BY <1>2 DEF AttachedElsewhere
<1>4. phase[e] = "alive"
  BY <1>1 DEF HeldIsAlive
<1>5. phase' = [phase EXCEPT ![e] = "destroyed"] /\ guards' = guards
      /\ slot' = [slot EXCEPT ![t] = IF @ = e THEN None ELSE @]
  BY <1>3 DEF EngineDrop
<1>6. slot' = slot
  BY <1>2, <1>5 DEF IInv, TypeOK
<1>7. ~Stacks!InStack(e)
  BY <1>1, UnborrowedIsInNoStack
<1>8. \A u \in Threads : StackOf(u)' = StackOf(u)
  BY <1>5, <1>6, EngineStacksStay
<1> QED
  BY <1>4, <1>5, <1>7, <1>8 DEF Stacks!Destroy

LEMMA EngineNewCreates ==
  ASSUME NEW t \in Threads, NEW e \in Engines, EngineNew(t, e)
  PROVE  Stacks!Create(e)
<1>1. \A u \in Threads : StackOf(u)' = StackOf(u)
  BY EngineStacksStay DEF EngineNew
<1> QED
  BY <1>1 DEF EngineNew, Stacks!Create

LEMMA OthersStutter ==
  ASSUME UNCHANGED <<phase, slot, guards>>
  PROVE  UNCHANGED Stacks!stackVars
<1>1. \A u \in Threads : StackOf(u)' = StackOf(u)
  BY EngineStacksStay
<1> QED
  BY <1>1 DEF Stacks!stackVars

LEMMA StepsAreStackSteps ==
  IInv /\ IInv' /\ HeldIsAlive /\ [Next]_attachVars => [Stacks!Next]_(Stacks!stackVars)
<1> SUFFICES ASSUME IInv, IInv', HeldIsAlive, [Next]_attachVars
             PROVE  Stacks!Next \/ UNCHANGED Stacks!stackVars
  OBVIOUS
<1>1. ASSUME NEW t \in Threads, NEW e \in Engines, AttachStep(t, e)
      PROVE  Stacks!Next
  <2>1. CASE EngineNew(t, e)
    BY <2>1, EngineNewCreates DEF Stacks!Next
  <2>2. CASE Attach(t, e) \/ AttachWithin(t, e)
    BY <2>2, AttachPushes DEF Attach, AttachWithin, Stacks!Next
  <2>3. CASE EngineDrop(t, e)
    BY <2>3, EngineDropDestroys DEF Stacks!Next
  <2> QED
    BY <1>1, <2>1, <2>2, <2>3 DEF AttachStep
<1>2. ASSUME NEW t \in Threads, NEW u \in Threads, NEW e \in Engines, EngineSend(t, u, e)
      PROVE  UNCHANGED Stacks!stackVars
  BY <1>2, OthersStutter DEF EngineSend
<1>3. ASSUME NEW t \in Threads, GuardDrop(t)
      PROVE  Stacks!Next
  BY <1>3, GuardDropPops DEF Stacks!Next
<1>4. ASSUME NEW t \in Threads, CurrentEngine(t)
      PROVE  UNCHANGED Stacks!stackVars
  BY <1>4, OthersStutter DEF CurrentEngine
<1>5. ASSUME NEW t \in Threads, RuntimeEngine(t)
      PROVE  Stacks!Next
  BY <1>5, RuntimeEngineAdopts DEF Stacks!Next
<1>6. CASE UNCHANGED attachVars
  BY <1>6, OthersStutter DEF attachVars
<1> QED
  BY <1>1, <1>2, <1>3, <1>4, <1>5, <1>6 DEF Next, ThreadStep

(* The main thread starts with its engine, the others with none. *)
LEMMA StacksBegin == Init => Stacks!Init
<1> SUFFICES ASSUME Init PROVE Stacks!Init
  OBVIOUS
<1>1. ASSUME NEW t \in Threads
      PROVE  StackOf(t) = IF t = MainThread THEN <<t>> ELSE <<>>
  <2>1. guards[t] = <<>> /\ Base(t) = IF t = MainThread THEN t ELSE None
    BY <1>1 DEF Init, Base
  <2>2. LentEngines(<<>>) = <<>> /\ t # None
    BY AttachmentAssumption DEF LentEngines
  <2>3. BaseStack(t) = <<t>> /\ BaseStack(None) = <<>>
    BY <2>2 DEF BaseStack
  <2>4. <<t>> \in Seq(Threads) /\ <<>> \in Seq(Threads)
    BY EmptySeq
  <2>5. <<t>> \o <<>> = <<t>> /\ <<>> \o <<>> = <<>>
    BY <2>4, ConcatEmptySeq
  <2>6. StackOf(t) = BaseStack(Base(t)) \o LentEngines(<<>>)
    BY <2>1, StackOfIsWhole DEF WholeStack
  <2> QED
    BY <2>1, <2>2, <2>3, <2>5, <2>6
<1> QED
  BY <1>1 DEF Init, Stacks!Init

(* E5, E6, E7: whatever threads attach, nest, unwind, send and drop, each gets back
   exactly the engine it had, no engine is current on two threads or destroyed while
   it is current on one, and a thread never loses its persistent engine. *)
THEOREM AttachmentImplementsStacks == Spec => ImplementsEngineStacks
BY ChainCorrect, HeldAlive, StacksBegin, StepsAreStackSteps, PTL
   DEF Spec, ImplementsEngineStacks, Stacks!Spec

==================================================================================
