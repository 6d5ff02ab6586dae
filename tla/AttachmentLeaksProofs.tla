-------------------------- MODULE AttachmentLeaksProofs --------------------------
(***********************************************************************************)
(* What AttachmentLeaks checks, for any number of threads, engines, generations    *)
(* and witnesses.  The chain of AttachmentProofs survives a leak but for its end:  *)
(* slot and record are either those of the innermost guard, or those of an         *)
(* attachment no guard owns any more, which nothing can then replace.              *)
(***********************************************************************************)
EXTENDS AttachmentLeaks, AttachmentProofs

LeakyChain ==
  \A t \in Threads :
    /\ Current(t) \/ LeakIsCurrent(t)
    /\ \A i \in 1..Len(guards[t]) : Linked(t, i)

(* The generation of a record is shown by guards of its own thread at most. *)
RecordsAreOwn ==
  \A t \in Threads :
    /\ activation[t].gen < genMint
    /\ \A u \in Threads : \A i \in 1..Len(guards[u]) :
         guards[u][i].gen = activation[t].gen => u = t

(* What a witness finds: its engine, or that engine's end. *)
Found(w) ==
  \/ slot[w.thread] = w.engine
  \/ w.engine \in Engines /\ phase[w.engine] = "destroyed" /\ slot[w.thread] \notin Engines

(* A witness of a guarded attachment saw the guard's engine, one of a leaked, current
   attachment saw the engine of that, and one of the unmanaged record saw the persistent
   engine, to which the guards of its thread lead back unless one was leaked. *)
SawItsEngine(w) ==
  /\ w.act.gen < genMint
  /\ \A t \in Threads : \A i \in 1..Len(guards[t]) :
       w.act.gen = guards[t][i].gen => w.thread = t /\ w.engine = guards[t][i].engine
  /\ LeakIsCurrent(w.thread) /\ activation[w.thread].gen = w.act.gen => Found(w)
  /\ w.act.gen = 0 =>
       w.engine = w.thread /\ (Current(w.thread) => Base(w.thread) = w.thread)

LeakInv ==
  /\ TypeOK
  /\ LeakyChain
  /\ Distinct
  /\ RecordsAreOwn
  /\ \A w \in witnesses : SawItsEngine(w)

----------------------------------------------------------------------------------
(* Leaks step by step. *)

(* A leak keeps the types, as every other step does. *)
LEMMA LeakTypeNext == TypeOK /\ [LeakNext]_attachVars => TypeOK'
<1> SUFFICES ASSUME TypeOK, [LeakNext]_attachVars PROVE TypeOK'
  OBVIOUS
<1>1. CASE Next \/ UNCHANGED attachVars
  BY <1>1, TypeNext
<1>2. ASSUME NEW t \in Threads, GuardLeak(t) PROVE TypeOK'
  <2>1. guards[t] \in Seq(Guard) /\ guards[t] # <<>>
    BY <1>2 DEF TypeOK, GuardLeak
  <2>2. Pop(guards[t]) \in Seq(Guard)
    BY <2>1, PopStack
  <2>. QED
    BY <1>2, <2>2 DEF TypeOK, GuardLeak
<1>3. ASSUME NEW t \in Threads, NEW e \in Engines, EngineForget(t, e) PROVE TypeOK'
  BY <1>3 DEF TypeOK, EngineForget
<1>. QED
  BY <1>1, <1>2, <1>3 DEF LeakNext

(* A current attachment that a guard owns, or that none was needed for, is no leak. *)
LEMMA CurrentIsNoLeak == TypeOK => \A t \in Threads : Current(t) => ~LeakIsCurrent(t)
<1> SUFFICES ASSUME TypeOK, NEW t \in Threads, Current(t) PROVE ~LeakIsCurrent(t)
  OBVIOUS
<1>1. guards[t] # <<>> => Len(guards[t]) \in 1..Len(guards[t])
  BY GuardTypes
<1>. QED
  BY <1>1 DEF Current, LeakIsCurrent, Top

LEMMA CurrentIsNoLeakAfter ==
  (TypeOK => \A t \in Threads : Current(t) => ~LeakIsCurrent(t))'
  BY CurrentIsNoLeak, PTL

(* The guards left by a pop, and their links. *)
LEMMA PoppedGuards ==
  ASSUME TypeOK, NEW t \in Threads, guards[t] # <<>>,
         guards' = [guards EXCEPT ![t] = Pop(@)]
  PROVE  /\ Len(guards[t]) \in Nat \ {0}
         /\ Len(guards'[t]) = Len(guards[t]) - 1
         /\ guards'[t] = <<>> <=> Len(guards[t]) = 1
         /\ \A i \in 1..(Len(guards[t]) - 1) : guards'[t][i] = guards[t][i]
         /\ \A u \in Threads \ {t} : guards'[u] = guards[u]
         /\ \A u \in Threads : \A i \in 1..Len(guards'[u]) :
              i \in 1..Len(guards[u]) /\ guards'[u][i] = guards[u][i]
<1>1. guards[t] \in Seq(Guard) /\ guards'[t] = Pop(guards[t])
  BY DEF TypeOK
<1>2. \A u \in Threads \ {t} : guards'[u] = guards[u]
  BY DEF TypeOK
<1>3. PICK n \in Nat \ {0} : n = Len(guards[t])
  BY <1>1, PopStack
<1>4. /\ Len(guards'[t]) = n - 1
      /\ guards'[t] = <<>> <=> n = 1
      /\ \A i \in 1..(n - 1) : guards'[t][i] = guards[t][i]
  BY <1>1, <1>3, PopStack
<1>. QED
  BY <1>2, <1>3, <1>4

LEMMA PoppedLinks ==
  ASSUME LeakInv, NEW t \in Threads, guards[t] # <<>>,
         guards' = [guards EXCEPT ![t] = Pop(@)], UNCHANGED <<phase, holder, genMint>>
  PROVE  \A u \in Threads : \A i \in 1..Len(guards'[u]) : Linked(u, i)'
<1> SUFFICES ASSUME NEW u \in Threads, NEW i \in 1..Len(guards'[u]) PROVE Linked(u, i)'
  OBVIOUS
<1>1. \A j \in 1..Len(guards'[u]) : j \in 1..Len(guards[u]) /\ guards'[u][j] = guards[u][j]
  BY PoppedGuards DEF LeakInv
<1>2. Linked(u, i)
  BY <1>1 DEF LeakInv, LeakyChain
<1>3. i > 1 => i - 1 \in 1..Len(guards'[u])
  <2>1. Len(guards'[u]) \in Nat
    BY PoppedGuards, GuardTypes DEF LeakInv
  <2>. QED
    BY <2>1
<1>. QED
  BY <1>1, <1>2, <1>3 DEF Linked

(* A guard that goes without restoring anything leaves its attachment a leak. *)
LEMMA GuardLostKeepsLeakInv ==
  ASSUME LeakInv, TypeOK', NEW t \in Threads, guards[t] # <<>>,
         guards' = [guards EXCEPT ![t] = Pop(@)],
         UNCHANGED <<phase, holder, slot, activation, genMint, witnesses>>
  PROVE  LeakInv'
<1>1. PICK n \in Nat \ {0} : n = Len(guards[t])
  BY PoppedGuards DEF LeakInv
<1>2. /\ TypeOK /\ LeakyChain /\ Distinct /\ RecordsAreOwn
      /\ Len(guards'[t]) = n - 1
      /\ \A u \in Threads \ {t} : guards'[u] = guards[u]
      /\ \A u \in Threads : \A i \in 1..Len(guards'[u]) :
           i \in 1..Len(guards[u]) /\ guards'[u][i] = guards[u][i]
  BY <1>1, PoppedGuards DEF LeakInv
<1>3. \A u \in Threads : LeakIsCurrent(u) => LeakIsCurrent(u)'
  BY <1>2 DEF LeakIsCurrent
<1>4. Current(t) => /\ LeakIsCurrent(t)'
                    /\ activation[t].gen = guards[t][n].gen /\ slot[t] = guards[t][n].engine
                    /\ n \in 1..Len(guards[t])
  <2> SUFFICES ASSUME Current(t)
               PROVE  /\ LeakIsCurrent(t)'
                      /\ activation[t].gen = guards[t][n].gen /\ slot[t] = guards[t][n].engine
                      /\ n \in 1..Len(guards[t])
    OBVIOUS
  <2>1. /\ n \in 1..Len(guards[t]) /\ Linked(t, n)
        /\ activation[t].gen = guards[t][n].gen /\ slot[t] = guards[t][n].engine
    BY <1>1, <1>2 DEF Current, LeakyChain, Top
  <2>2. activation[t].gen # 0
    BY <1>2, <2>1 DEF Linked, TypeOK
  <2>3. ASSUME NEW i \in 1..Len(guards'[t]) PROVE guards'[t][i].gen # activation[t].gen
    <3>1. i # n
      BY <1>2
    <3>. QED
      BY <1>2, <2>1, <3>1 DEF Distinct
  <2>. QED
    BY <2>1, <2>2, <2>3 DEF LeakIsCurrent
<1>5. LeakyChain'
  <2>1. \A u \in Threads \ {t} : Current(u) => Current(u)'
    BY <1>2 DEF Current
  <2>2. \A u \in Threads : Current(u)' \/ LeakIsCurrent(u)'
    BY <1>2, <1>3, <1>4, <2>1 DEF LeakyChain
  <2>. QED
    BY <2>2, PoppedLinks DEF LeakyChain
<1>6. Distinct' /\ RecordsAreOwn'
  BY SMTT(30), <1>2 DEF Distinct, RecordsAreOwn
<1>7. ASSUME NEW w \in witnesses PROVE SawItsEngine(w)'
  <2>1. SawItsEngine(w) /\ w.thread \in Threads
    BY DEF LeakInv, TypeOK, Witness
  <2>2. ASSUME LeakIsCurrent(w.thread)', activation[w.thread].gen = w.act.gen
        PROVE  Found(w)'
    <3>1. CASE LeakIsCurrent(w.thread)
      BY <2>1, <2>2, <3>1 DEF SawItsEngine, Found
    <3>2. CASE Current(w.thread) /\ w.thread = t
      BY <1>4, <2>1, <2>2, <3>2 DEF SawItsEngine, Found
    <3>3. CASE Current(w.thread) /\ w.thread # t
      <4>1. Current(w.thread)'
        BY <1>2, <2>1, <3>3 DEF Current
      <4>. QED
        BY <1>2, <2>1, <2>2, <3>3, CurrentIsNoLeak DEF LeakIsCurrent
    <3>. QED
      BY <1>2, <2>1, <3>1, <3>2, <3>3 DEF LeakyChain
  <2>3. ASSUME w.act.gen = 0, Current(w.thread)' PROVE Base(w.thread)' = w.thread
    <3>1. w.thread # t
      <4>1. LeakIsCurrent(t)'
        BY <1>2, <1>3, <1>4 DEF LeakyChain
      <4>2. ~Current(t)'
        BY <4>1, CurrentIsNoLeakAfter
      <4>. QED
        BY <2>3, <4>2
    <3>2. Current(w.thread) /\ Base(w.thread)' = Base(w.thread)
      BY <1>2, <2>1, <2>3, <3>1 DEF Current, Base
    <3>. QED
      BY <2>1, <2>3, <3>2 DEF SawItsEngine
  <2>. QED
    BY <1>2, <2>1, <2>2, <2>3 DEF SawItsEngine
<1>. QED
  BY <1>5, <1>6, <1>7 DEF LeakInv

(* A guard that restores is the innermost and current: what it puts back is current. *)
LEMMA RestoreKeepsLeakInv ==
  ASSUME LeakInv, TypeOK', NEW t \in Threads, guards[t] # <<>>,
         guards' = [guards EXCEPT ![t] = Pop(@)],
         activation[t].gen = Top(guards[t]).gen,
         slot' = [slot EXCEPT ![t] = Top(guards[t]).previous],
         activation' = [activation EXCEPT ![t] = Top(guards[t]).saved],
         UNCHANGED <<phase, holder, genMint, witnesses>>
  PROVE  LeakInv'
<1>1. PICK n \in Nat \ {0} : n = Len(guards[t])
  BY PoppedGuards DEF LeakInv
<1>g. PICK g \in Guard : g = guards[t][n]
  BY <1>1, PopStack DEF LeakInv, TypeOK
<1>2. /\ TypeOK /\ LeakyChain /\ Distinct /\ RecordsAreOwn
      /\ Len(guards'[t]) = n - 1
      /\ guards'[t] = <<>> <=> n = 1
      /\ \A i \in 1..(n - 1) : guards'[t][i] = guards[t][i]
      /\ \A u \in Threads \ {t} : guards'[u] = guards[u]
      /\ \A u \in Threads : \A i \in 1..Len(guards'[u]) :
           i \in 1..Len(guards[u]) /\ guards'[u][i] = guards[u][i]
  BY <1>1, PoppedGuards DEF LeakInv
<1>3. /\ n \in 1..Len(guards[t]) /\ Linked(t, n) /\ Top(guards[t]) = g
      /\ slot'[t] = g.previous /\ activation'[t] = g.saved
      /\ \A u \in Threads \ {t} : slot'[u] = slot[u] /\ activation'[u] = activation[u]
  BY <1>1, <1>2, <1>g DEF LeakyChain, Top, TypeOK
<1>4. /\ n = 1 => g.saved.gen = 0 /\ g.previous \in {None, t}
      /\ n > 1 => g.saved.gen = guards[t][n - 1].gen /\ g.previous = guards[t][n - 1].engine
  BY <1>3, <1>g DEF Linked
<1>5. n > 1 => n - 1 \in 1..(n - 1) /\ n - 1 \in 1..Len(guards[t])
  BY <1>1
<1>6. Current(t)'
  <2>1. CASE n = 1
    BY <1>2, <1>3, <1>4, <2>1 DEF Current
  <2>2. CASE n > 1
    <3>1. Top(guards'[t]) = guards[t][n - 1] /\ guards'[t] # <<>>
      BY <1>2, <1>5, <2>2 DEF Top
    <3>. QED
      BY <1>3, <1>4, <2>2, <3>1 DEF Current
  <2>. QED
    BY <2>1, <2>2
<1>7. LeakyChain'
  <2>1. \A u \in Threads \ {t} : Current(u)' = Current(u) /\ LeakIsCurrent(u)' = LeakIsCurrent(u)
    BY <1>2, <1>3 DEF Current, LeakIsCurrent
  <2>2. \A u \in Threads : Current(u)' \/ LeakIsCurrent(u)'
    BY <1>2, <1>6, <2>1 DEF LeakyChain
  <2>. QED
    BY <2>2, PoppedLinks DEF LeakyChain
<1>8. RecordsAreOwn'
  <2>1. \A u \in Threads : \A i \in 1..Len(guards[u]) :
          guards[u][i].gen \in 1..(genMint - 1) /\ genMint \in Nat \ {0}
    BY <1>2 DEF LeakyChain, Linked, TypeOK
  <2>2. g.saved.gen < genMint
    BY <1>2, <1>4, <1>5, <2>1 DEF TypeOK
  <2>3. ASSUME NEW u \in Threads, NEW i \in 1..Len(guards'[u]), guards'[u][i].gen = g.saved.gen
        PROVE  u = t
    <3>1. i \in 1..Len(guards[u]) /\ guards[u][i].gen = g.saved.gen
      BY <1>2, <2>3
    <3>2. n > 1
      BY <1>4, <2>1, <3>1
    <3>. QED
      BY <1>2, <1>4, <1>5, <3>1, <3>2 DEF Distinct
  <2>. QED
    BY <1>2, <1>3, <2>2, <2>3 DEF RecordsAreOwn
<1>9. Distinct'
  BY <1>2 DEF Distinct
<1>10. ASSUME NEW w \in witnesses PROVE SawItsEngine(w)'
  <2>1. SawItsEngine(w) /\ w.thread \in Threads
    BY DEF LeakInv, TypeOK, Witness
  <2>2. ASSUME LeakIsCurrent(w.thread)', activation'[w.thread].gen = w.act.gen
        PROVE  Found(w)'
    <3>1. ~LeakIsCurrent(t)'
      BY <1>6, CurrentIsNoLeakAfter
    <3>2. w.thread # t
      BY <2>2, <3>1
    <3>3. LeakIsCurrent(w.thread)
      BY <1>2, <1>3, <2>1, <2>2, <3>2 DEF LeakIsCurrent
    <3>. QED
      BY <1>3, <2>1, <2>2, <3>2, <3>3 DEF SawItsEngine, Found
  <2>3. ASSUME w.act.gen = 0, Current(w.thread)' PROVE Base(w.thread)' = w.thread
    <3>1. CASE w.thread # t
      <4>1. Current(w.thread) /\ Base(w.thread)' = Base(w.thread)
        BY <1>2, <1>3, <2>1, <2>3, <3>1 DEF Current, Base
      <4>. QED
        BY <2>1, <2>3, <4>1 DEF SawItsEngine
    <3>2. CASE w.thread = t
      <4>1. ~LeakIsCurrent(t)
        BY <1>3, <1>g DEF LeakIsCurrent
      <4>2. Current(t) /\ guards[t] # <<>> /\ Base(t) = guards[t][1].previous
        BY <1>2, <4>1 DEF LeakyChain, Base
      <4>3. Base(t)' = Base(t)
        <5>1. CASE n = 1
          BY <1>2, <1>3, <1>g, <4>2, <5>1 DEF Base
        <5>2. CASE n > 1
          <6>1. 1 \in 1..(n - 1) /\ guards'[t] # <<>>
            BY <1>2, <5>2
          <6>. QED
            BY <1>2, <4>2, <6>1 DEF Base
        <5>. QED
          BY <5>1, <5>2
      <4>. QED
        BY <2>1, <2>3, <3>2, <4>2, <4>3 DEF SawItsEngine
    <3>. QED
      BY <3>1, <3>2
  <2>. QED
    BY <1>2, <2>1, <2>2, <2>3 DEF SawItsEngine
<1>. QED
  BY <1>7, <1>8, <1>9, <1>10 DEF LeakInv

(* Attaching needs a record that is no leak, and pushes a link onto a chain. *)
LEMMA AttachKeepsLeakInv ==
  ASSUME LeakInv, TypeOK', NEW t \in Threads, NEW e \in Engines, Owns(t, e), Current(t),
         AttachUnchecked(t, e)
  PROVE  LeakInv'
<1>n. PICK n \in Nat : n = Len(guards[t])
  BY GuardTypes DEF LeakInv
<1>g. PICK g : g = [engine |-> e, gen |-> genMint, previous |-> slot[t],
                    saved |-> activation[t]]
  OBVIOUS
<1>0. TypeOK /\ LeakyChain /\ Distinct /\ RecordsAreOwn /\ genMint \in Nat \ {0}
  BY DEF LeakInv, TypeOK
<1>1. /\ slot' = [slot EXCEPT ![t] = e]
      /\ activation' = [activation EXCEPT ![t] = Entered(genMint)]
      /\ activation'[t].gen = genMint /\ slot'[t] = e
      /\ \A u \in Threads \ {t} : slot'[u] = slot[u] /\ activation'[u] = activation[u]
      /\ genMint' = genMint + 1
      /\ UNCHANGED <<phase, holder, witnesses>>
      /\ phase[e] = "alive" /\ holder[e] = t
  BY <1>0, AttachmentAssumption
  DEF AttachUnchecked, EnterEngine, Entered, Settable, TypeOK, Owns
<1>2. g.engine = e /\ g.gen = genMint /\ g.previous = slot[t] /\ g.saved = activation[t]
  BY <1>g
<1>3. guards' = [guards EXCEPT ![t] = Append(guards[t], g)] /\ g \in Guard
  <2>1. guards' = [guards EXCEPT ![t] = Append(guards[t], g)]
    BY <1>1, <1>g DEF AttachUnchecked
  <2>2. g \in Guard
    BY <1>0, <1>g DEF Guard, TypeOK, Slots
  <2>. QED
    BY <2>1, <2>2
<1>4. /\ Len(guards'[t]) = n + 1 /\ guards'[t] # <<>> /\ Top(guards'[t]) = g
      /\ guards'[t][n + 1] = g
      /\ \A i \in 1..n : guards'[t][i] = guards[t][i]
      /\ \A u \in Threads \ {t} : guards'[u] = guards[u]
  <2>1. guards[t] \in Seq(Guard) /\ guards'[t] = Append(guards[t], g)
    BY <1>0, <1>3 DEF TypeOK
  <2>2. \A u \in Threads \ {t} : guards'[u] = guards[u]
    BY <1>0, <1>3 DEF TypeOK
  <2>. QED
    BY <1>3, <1>n, <2>1, <2>2, PushStack DEF Top
<1>5. \A u \in Threads : \A i \in 1..Len(guards[u]) :
        /\ guards[u][i].gen \in 1..(genMint - 1)
        /\ guards[u][i].engine # e
  BY <1>0 DEF LeakyChain, Linked, Owns, Borrowed
<1>6. \A u \in Threads : \A i \in 1..Len(guards'[u]) :
        \/ /\ i \in 1..Len(guards[u])
           /\ guards'[u][i] = guards[u][i]
           /\ guards'[u][i].gen # genMint
           /\ guards'[u][i].engine # e
        \/ u = t /\ i = n + 1 /\ guards'[u][i].gen = genMint /\ guards'[u][i].engine = e
  <2> SUFFICES ASSUME NEW u \in Threads, NEW i \in 1..Len(guards'[u])
               PROVE  \/ /\ i \in 1..Len(guards[u])
                         /\ guards'[u][i] = guards[u][i]
                         /\ guards'[u][i].gen # genMint
                         /\ guards'[u][i].engine # e
                      \/ /\ u = t /\ i = n + 1
                         /\ guards'[u][i].gen = genMint /\ guards'[u][i].engine = e
    OBVIOUS
  <2>1. \A j \in 1..Len(guards[u]) : guards[u][j].gen # genMint /\ guards[u][j].engine # e
    BY <1>0, <1>5
  <2>2. CASE i \in 1..Len(guards[u]) /\ guards'[u][i] = guards[u][i]
    BY <2>1, <2>2
  <2>3. CASE u = t /\ i = n + 1
    BY <1>2, <1>4, <2>3
  <2>4. CASE u = t /\ i # n + 1
    <3>1. i \in 1..n
      BY <1>4, <2>4
    <3>. QED
      BY <1>4, <1>n, <2>2, <2>4, <3>1
  <2>5. CASE u # t
    BY <1>4, <2>2, <2>5
  <2>. QED
    BY <2>3, <2>4, <2>5
<1>7. LeakyChain'
  <2>1. ASSUME NEW u \in Threads \ {t}
        PROVE  Current(u)' = Current(u) /\ LeakIsCurrent(u)' = LeakIsCurrent(u)
    BY <1>1, <1>4 DEF Current, LeakIsCurrent
  <2>2. Current(t)'
    BY <1>1, <1>2, <1>4 DEF Current
  <2>3. ASSUME NEW u \in Threads \ {t}, NEW i \in 1..Len(guards'[u]) PROVE Linked(u, i)'
    <3>1. i \in 1..Len(guards[u]) /\ Linked(u, i)
      BY <1>0, <1>4, <2>3 DEF LeakyChain
    <3>2. guards'[u] = guards[u] /\ phase' = phase /\ holder' = holder
      BY <1>1, <1>4
    <3>3. guards[u][i].gen \in 1..(genMint' - 1)
      BY <1>0, <1>1, <3>1 DEF Linked
    <3>. QED
      BY <3>1, <3>2, <3>3 DEF Linked
  <2>4. ASSUME NEW i \in 1..n PROVE Linked(t, i)'
    <3>1. Linked(t, i)
      BY <1>0, <1>n, <2>4 DEF LeakyChain
    <3>2. i > 1 => i - 1 \in 1..n
      OBVIOUS
    <3>. QED
      BY <1>0, <1>1, <1>4, <3>1, <3>2 DEF Linked
  <2>5. Linked(t, n + 1)'
    <3>1. n + 1 = 1 => activation[t].gen = 0 /\ slot[t] \in {None, t}
      BY <1>0, <1>n, GuardTypes DEF Current
    <3>2. n + 1 > 1 => /\ activation[t].gen = guards'[t][n].gen
                       /\ slot[t] = guards'[t][n].engine
      <4> SUFFICES ASSUME n + 1 > 1
                   PROVE  /\ activation[t].gen = guards'[t][n].gen
                          /\ slot[t] = guards'[t][n].engine
        OBVIOUS
      <4>1. n \in 1..n /\ guards[t] # <<>>
        BY <1>0, <1>n, GuardTypes
      <4>. QED
        BY <1>0, <1>4, <1>n, <4>1 DEF Current, Top
    <3>3. n + 1 - 1 = n
      OBVIOUS
    <3>4. genMint \in 1..(genMint' - 1) /\ phase'[e] = "alive" /\ holder'[e] = t
      BY <1>0, <1>1
    <3>5. /\ guards'[t][n + 1].engine = e /\ guards'[t][n + 1].gen = genMint
          /\ guards'[t][n + 1].previous = slot[t] /\ guards'[t][n + 1].saved = activation[t]
      BY <1>2, <1>4
    <3>. QED
      BY <3>1, <3>2, <3>3, <3>4, <3>5 DEF Linked
  <2>6. \A i \in 1..Len(guards'[t]) : i \in 1..n \/ i = n + 1
    BY <1>4
  <2>. QED
    BY <1>0, <2>1, <2>2, <2>3, <2>4, <2>5, <2>6 DEF LeakyChain
<1>8. Distinct'
  <2>1. SUFFICES ASSUME NEW u \in Threads, NEW v \in Threads,
                        NEW i \in 1..Len(guards'[u]), NEW j \in 1..Len(guards'[v]),
                        \/ guards'[u][i].gen = guards'[v][j].gen
                        \/ guards'[u][i].engine = guards'[v][j].engine
                 PROVE  u = v /\ i = j
    BY DEF Distinct
  <2>2. \/ /\ i \in 1..Len(guards[u]) /\ guards'[u][i] = guards[u][i]
           /\ guards'[u][i].gen # genMint /\ guards'[u][i].engine # e
        \/ u = t /\ i = n + 1 /\ guards'[u][i].gen = genMint /\ guards'[u][i].engine = e
    BY <1>6
  <2>3. \/ /\ j \in 1..Len(guards[v]) /\ guards'[v][j] = guards[v][j]
           /\ guards'[v][j].gen # genMint /\ guards'[v][j].engine # e
        \/ v = t /\ j = n + 1 /\ guards'[v][j].gen = genMint /\ guards'[v][j].engine = e
    BY <1>6
  <2>4. CASE /\ i \in 1..Len(guards[u]) /\ guards'[u][i] = guards[u][i]
             /\ j \in 1..Len(guards[v]) /\ guards'[v][j] = guards[v][j]
    BY <1>0, <2>1, <2>4 DEF Distinct
  <2>5. CASE u = t /\ i = n + 1 /\ guards'[u][i].gen = genMint /\ guards'[u][i].engine = e
    BY <2>1, <2>3, <2>5
  <2>6. CASE v = t /\ j = n + 1 /\ guards'[v][j].gen = genMint /\ guards'[v][j].engine = e
    BY <2>1, <2>2, <2>6
  <2>. QED
    BY <2>2, <2>3, <2>4, <2>5, <2>6
<1>9. RecordsAreOwn'
  <2>1. ASSUME NEW u \in Threads \ {t}
        PROVE  /\ activation'[u].gen < genMint'
               /\ \A v \in Threads : \A i \in 1..Len(guards'[v]) :
                    guards'[v][i].gen = activation'[u].gen => v = u
    <3>1. activation'[u] = activation[u] /\ activation[u].gen < genMint /\ activation[u].gen \in Nat
      BY <1>0, <1>1 DEF RecordsAreOwn, TypeOK, Activation
    <3>2. activation'[u].gen < genMint' /\ activation'[u].gen # genMint
      BY <1>0, <1>1, <3>1
    <3>. QED
      BY <1>0, <1>6, <3>1, <3>2 DEF RecordsAreOwn
  <2>2. /\ activation'[t].gen < genMint'
        /\ \A v \in Threads : \A i \in 1..Len(guards'[v]) :
             guards'[v][i].gen = activation'[t].gen => v = t
    BY <1>0, <1>1, <1>6
  <2>. QED
    BY <2>1, <2>2 DEF RecordsAreOwn
<1>10. ASSUME NEW w \in witnesses PROVE SawItsEngine(w)'
  <2>1. SawItsEngine(w) /\ w.act.gen \in Nat /\ w.thread \in Threads
    BY <1>0, <1>10 DEF LeakInv, TypeOK, Witness, Activation
  <2>2. w.act.gen < genMint' /\ w.act.gen # genMint
    BY <1>0, <1>1, <2>1 DEF SawItsEngine
  <2>3. ASSUME NEW u \in Threads, NEW i \in 1..Len(guards'[u]), w.act.gen = guards'[u][i].gen
        PROVE  w.thread = u /\ w.engine = guards'[u][i].engine
    <3>1. i \in 1..Len(guards[u]) /\ guards'[u][i] = guards[u][i]
      BY <1>6, <2>2, <2>3
    <3>. QED
      BY <2>1, <2>3, <3>1 DEF SawItsEngine
  <2>4. ASSUME LeakIsCurrent(w.thread)', activation'[w.thread].gen = w.act.gen
        PROVE  Found(w)'
    <3>1. w.thread # t
      BY <1>1, <2>2, <2>4
    <3>2. LeakIsCurrent(w.thread)
      BY <1>1, <1>4, <2>1, <2>4, <3>1 DEF LeakIsCurrent
    <3>. QED
      BY <1>1, <2>1, <2>4, <3>1, <3>2 DEF SawItsEngine, Found
  <2>5. ASSUME w.act.gen = 0, Current(w.thread)' PROVE Base(w.thread)' = w.thread
    <3>1. CASE w.thread # t
      <4>1. Current(w.thread) /\ Base(w.thread)' = Base(w.thread)
        BY <1>1, <1>4, <2>1, <2>5, <3>1 DEF Current, Base
      <4>. QED
        BY <2>1, <2>5, <4>1 DEF SawItsEngine
    <3>2. CASE w.thread = t
      <4>1. Base(t)' = Base(t)
        <5>1. CASE n = 0
          <6>1. guards[t] = <<>>
            BY <1>0, <1>n, <5>1, EmptySeq DEF TypeOK
          <6>2. guards'[t][1].previous = slot[t]
            BY <1>2, <1>4, <5>1
          <6>. QED
            BY <1>4, <6>1, <6>2 DEF Base
        <5>2. CASE n # 0
          <6>1. 1 \in 1..n /\ guards[t] # <<>>
            BY <1>0, <1>n, <5>2, GuardTypes
          <6>. QED
            BY <1>4, <6>1 DEF Base
        <5>. QED
          BY <5>1, <5>2
      <4>. QED
        BY <2>1, <2>5, <3>2, <4>1 DEF SawItsEngine
    <3>. QED
      BY <3>1, <3>2
  <2>. QED
    BY <1>1, <2>1, <2>2, <2>3, <2>4, <2>5 DEF SawItsEngine
<1>. QED
  BY <1>1, <1>7, <1>8, <1>9, <1>10 DEF LeakInv

(* The slot of a thread whose guards do not need it: its engine is destroyed, or its
   persistent engine is attached. *)
Vacated(u) ==
  /\ guards[u] = <<>> \/ LeakIsCurrent(u)
  /\ slot[u] \in Engines /\ phase'[slot[u]] = "destroyed" /\ slot'[u] = None

Filled(u) ==
  /\ guards[u] = <<>> \/ LeakIsCurrent(u)
  /\ slot[u] = None /\ slot'[u] = u

(* A step that leaves guards and records alone keeps the chain if it leaves alone the
   engines guards borrow, and the slots they are attached to. *)
LEMMA SlotsKeepLeakInv ==
  ASSUME LeakInv, TypeOK', UNCHANGED <<activation, guards, genMint>>,
         \A e \in Engines : Borrowed(e) => phase'[e] = phase[e] /\ holder'[e] = holder[e],
         \A e \in Engines : phase[e] = "destroyed" => phase'[e] = "destroyed",
         \A u \in Threads : slot'[u] = slot[u] \/ Vacated(u) \/ Filled(u),
         \A w \in witnesses' : w \in witnesses \/ SawItsEngine(w)'
  PROVE  LeakInv'
<1>0. TypeOK /\ LeakyChain /\ Distinct /\ RecordsAreOwn
  BY DEF LeakInv
<1>1. LeakyChain'
  <2>1. ASSUME NEW u \in Threads PROVE Current(u)' \/ LeakIsCurrent(u)'
    BY <1>0 DEF LeakyChain, Current, LeakIsCurrent, Vacated, Filled
  <2>2. ASSUME NEW u \in Threads, NEW i \in 1..Len(guards'[u]) PROVE Linked(u, i)'
    <3>1. Linked(u, i) /\ Borrowed(guards[u][i].engine) /\ guards[u][i].engine \in Engines
      BY <1>0, GuardTypes DEF LeakyChain, Borrowed
    <3>. QED
      BY <3>1 DEF Linked
  <2>. QED
    BY <2>1, <2>2 DEF LeakyChain
<1>2. Distinct' /\ RecordsAreOwn'
  BY <1>0 DEF Distinct, RecordsAreOwn
<1>3. ASSUME NEW w \in witnesses PROVE SawItsEngine(w)'
  <2>1. SawItsEngine(w) /\ w.thread \in Threads
    BY <1>0 DEF LeakInv, TypeOK, Witness
  <2>2. ASSUME Found(w) PROVE Found(w)'
    <3>1. CASE slot'[w.thread] = slot[w.thread]
      BY <2>2, <3>1 DEF Found
    <3>2. CASE Vacated(w.thread)
      BY <2>2, <3>2, AttachmentAssumption DEF Found, Vacated
    <3>3. CASE Filled(w.thread)
      <4>1. w.engine # None /\ w.thread \notin Engines
        BY <1>0, <2>1, AttachmentAssumption DEF TypeOK, Witness
      <4>. QED
        BY <2>2, <3>3, <4>1 DEF Found, Filled
    <3>. QED
      BY <2>1, <3>1, <3>2, <3>3
  <2>3. LeakIsCurrent(w.thread)' = LeakIsCurrent(w.thread)
    BY DEF LeakIsCurrent
  <2>4. ASSUME w.act.gen = 0, Current(w.thread)' PROVE Base(w.thread)' = w.thread
    <3>1. Current(w.thread) /\ ~LeakIsCurrent(w.thread)
      <4>1. ~LeakIsCurrent(w.thread)'
        BY <2>1, <2>4, CurrentIsNoLeakAfter
      <4>. QED
        BY <1>0, <2>1, <2>3, <4>1 DEF LeakyChain
    <3>2. Base(w.thread) = w.thread
      BY <2>1, <2>4, <3>1 DEF SawItsEngine
    <3>3. CASE guards[w.thread] # <<>>
      BY <3>2, <3>3 DEF Base
    <3>4. CASE guards[w.thread] = <<>>
      <4>1. slot[w.thread] = w.thread
        BY <3>2, <3>4 DEF Base
      <4>2. slot'[w.thread] = slot[w.thread]
        BY <2>1, <4>1, AttachmentAssumption DEF Vacated, Filled
      <4>. QED
        BY <3>4, <4>1, <4>2 DEF Base
    <3>. QED
      BY <3>3, <3>4
  <2>. QED
    BY <2>1, <2>2, <2>3, <2>4 DEF SawItsEngine
<1>. QED
  BY <1>1, <1>2, <1>3 DEF LeakInv

(* Creating, moving, destroying or forgetting an engine needs that no guard borrows it. *)
LEMMA EngineStepKeepsLeakInv ==
  ASSUME LeakInv, TypeOK', NEW t \in Threads, NEW u \in Threads, NEW e \in Engines,
         EngineNew(t, e) \/ EngineSend(t, u, e) \/ EngineDrop(t, e) \/ EngineForget(t, e)
  PROVE  LeakInv'
<1>0. TypeOK /\ LeakyChain
  BY DEF LeakInv
<1>1. ~Borrowed(e)
  <2>1. CASE EngineNew(t, e)
    <3> SUFFICES ASSUME NEW v \in Threads, NEW i \in 1..Len(guards[v]),
                        guards[v][i].engine = e
                 PROVE  FALSE
      BY DEF Borrowed
    <3>. QED
      BY <1>0, <2>1 DEF LeakyChain, Linked, EngineNew
  <2>2. CASE EngineSend(t, u, e) \/ EngineDrop(t, e) \/ EngineForget(t, e)
    BY <2>2 DEF EngineSend, EngineDrop, EngineForget, Owns
  <2>. QED
    BY <2>1, <2>2
<1>2. slot[t] = e => guards[t] = <<>> \/ LeakIsCurrent(t)
  <2> SUFFICES ASSUME slot[t] = e, guards[t] # <<>>, Current(t) PROVE FALSE
    BY <1>0 DEF LeakyChain
  <2>1. Len(guards[t]) \in 1..Len(guards[t]) /\ guards[t][Len(guards[t])].engine = e
    BY <1>0, GuardTypes DEF Current, Top
  <2>. QED
    BY <1>1, <2>1 DEF Borrowed
<1>3. UNCHANGED <<activation, guards, genMint, witnesses>>
  BY DEF EngineNew, EngineSend, EngineDrop, EngineForget
<1>4. \A f \in Engines : Borrowed(f) => phase'[f] = phase[f] /\ holder'[f] = holder[f]
  BY <1>0, <1>1 DEF EngineNew, EngineSend, EngineDrop, EngineForget, TypeOK
<1>5. \A v \in Threads : slot'[v] = slot[v] \/ Vacated(v)
  BY <1>0, <1>2 DEF EngineNew, EngineSend, EngineDrop, EngineForget, TypeOK, Vacated
<1>6. \A f \in Engines : phase[f] = "destroyed" => phase'[f] = "destroyed"
  BY <1>0 DEF EngineNew, EngineSend, EngineDrop, EngineForget, TypeOK
<1>. QED
  BY <1>3, <1>4, <1>5, <1>6, SlotsKeepLeakInv

(* A witness names the engine that is, or just was, attached to its thread. *)
LEMMA WitnessKeepsLeakInv ==
  ASSUME LeakInv, TypeOK', NEW t \in Threads, CurrentEngine(t) \/ RuntimeEngine(t)
  PROVE  LeakInv'
<1>0. /\ TypeOK /\ LeakyChain /\ Distinct /\ RecordsAreOwn
      /\ UNCHANGED <<phase, holder, activation, guards, genMint>>
  BY DEF LeakInv, CurrentEngine, RuntimeEngine
<1>1. /\ \/ slot'[t] = slot[t]
         \/ slot'[t] = t /\ slot[t] = None
      /\ \A u \in Threads \ {t} : slot'[u] = slot[u]
      /\ slot'[t] \in Slots /\ slot'[t] # None
  <2>1. CASE CurrentEngine(t)
    <3>1. slot \in [Threads -> Slots] /\ slot' = slot /\ slot[t] # None
      BY <1>0, <2>1 DEF CurrentEngine, TypeOK
    <3>. QED
      BY <3>1
  <2>2. CASE RuntimeEngine(t)
    <3>1. slot \in [Threads -> Slots] /\ slot' = [slot EXCEPT ![t] = t] /\ slot[t] = None
      BY <1>0, <2>2 DEF RuntimeEngine, TypeOK
    <3>2. slot'[t] = t /\ \A u \in Threads \ {t} : slot'[u] = slot[u]
      BY <3>1
    <3>. QED
      BY <3>1, <3>2, AttachmentAssumption DEF Slots
  <2>. QED
    BY <2>1, <2>2
<1>2. PICK w : w = [thread |-> t, engine |-> slot'[t], act |-> activation[t]]
  OBVIOUS
<1>3. \A v \in witnesses' : v \in witnesses \/ v = w
  <2>1. CASE CurrentEngine(t)
    BY <1>2, <2>1 DEF CurrentEngine, TakeWitness
  <2>2. CASE RuntimeEngine(t)
    <3>1. slot'[t] = t
      BY <1>0, <2>2 DEF RuntimeEngine, TypeOK
    <3>. QED
      BY <1>2, <2>2, <3>1 DEF RuntimeEngine, TakeWitness
  <2>. QED
    BY <2>1, <2>2
<1>4. \A i \in 1..Len(guards[t]) : guards[t][i].gen = activation[t].gen =>
        slot[t] = guards[t][i].engine /\ slot[t] \in Engines
  <2> SUFFICES ASSUME NEW i \in 1..Len(guards[t]), guards[t][i].gen = activation[t].gen
               PROVE  slot[t] = guards[t][i].engine /\ slot[t] \in Engines
    OBVIOUS
  <2>1. Current(t)
    BY <1>0 DEF LeakyChain, LeakIsCurrent
  <2>2. guards[t] # <<>>
    <3>1. guards[t] = <<>> => Len(guards[t]) = 0
      BY <1>0, GuardTypes
    <3>. QED
      BY <3>1
  <2>3. PICK n \in 1..Len(guards[t]) :
          activation[t].gen = guards[t][n].gen /\ slot[t] = guards[t][n].engine
    BY <1>0, <2>1, <2>2, GuardTypes DEF Current, Top
  <2>. QED
    BY <1>0, <2>3, GuardTypes DEF Distinct
<1>5. SawItsEngine(w)'
  <2>1. w.thread = t /\ w.engine = slot'[t] /\ w.act.gen = activation[t].gen
    BY <1>2
  <2>2. ASSUME NEW u \in Threads, NEW i \in 1..Len(guards[u]),
               guards[u][i].gen = activation[t].gen
        PROVE  t = u /\ slot'[t] = guards[u][i].engine
    <3>1. u = t
      BY <1>0, <2>2 DEF RecordsAreOwn
    <3>. QED
      BY <1>1, <1>4, <2>2, <3>1, AttachmentAssumption
  <2>3. activation[t].gen < genMint
    BY <1>0 DEF RecordsAreOwn
  <2>4. ASSUME activation[t].gen = 0
        PROVE  slot'[t] = t /\ (Current(t)' => Base(t)' = t)
    <3>1. Current(t)
      BY <1>0, <2>4 DEF LeakyChain, LeakIsCurrent
    <3>2. guards[t] = <<>>
      <4> SUFFICES ASSUME guards[t] # <<>> PROVE FALSE
        OBVIOUS
      <4>1. Len(guards[t]) \in 1..Len(guards[t]) /\ activation[t].gen = Top(guards[t]).gen
        BY <1>0, <3>1, GuardTypes DEF Current
      <4>2. Linked(t, Len(guards[t]))
        BY <1>0, <4>1 DEF LeakyChain
      <4>. QED
        BY <1>0, <2>4, <4>1, <4>2 DEF Linked, Top, TypeOK
    <3>3. slot'[t] = t
      BY <1>1, <3>1, <3>2 DEF Current
    <3>. QED
      BY <1>0, <3>2, <3>3 DEF Base
  <2>5. slot'[t] = w.engine /\ w.thread = t
    BY <2>1
  <2>. QED
    BY <1>0, <2>1, <2>2, <2>3, <2>4, <2>5 DEF SawItsEngine, Found
<1>6. slot'[t] # slot[t] => guards[t] = <<>> \/ LeakIsCurrent(t)
  <2> SUFFICES ASSUME slot[t] = None, guards[t] # <<>>, Current(t) PROVE FALSE
    BY <1>0, <1>1 DEF LeakyChain
  <2>1. slot[t] \in Engines
    BY <1>0, GuardTypes DEF Current, Top
  <2>. QED
    BY <2>1, AttachmentAssumption
<1>7. \A u \in Threads : slot'[u] = slot[u] \/ Filled(u)
  BY <1>1, <1>6 DEF Filled
<1>. QED
  BY <1>0, <1>3, <1>5, <1>7, SlotsKeepLeakInv

(* At the start there is nothing to leak. *)
LEMMA LeakInvInit == Init => LeakInv
<1> SUFFICES ASSUME Init PROVE LeakInv
  OBVIOUS
<1>1. IInv
  BY IInvInit
<1>2. \A t \in Threads : guards[t] = <<>> /\ Len(guards[t]) = 0 /\ activation[t].gen = 0
  BY DEF Init, Unmanaged
<1>3. genMint = 1 /\ witnesses = {}
  BY DEF Init
<1>. QED
  BY <1>1, <1>2, <1>3 DEF IInv, Chain, LeakInv, LeakyChain, RecordsAreOwn

(* Every step keeps the invariant. *)
LEMMA LeakInvNext == LeakInv /\ [LeakNext]_attachVars => LeakInv'
<1> SUFFICES ASSUME LeakInv, [LeakNext]_attachVars PROVE LeakInv'
  OBVIOUS
<1>0. TypeOK /\ TypeOK' /\ LeakyChain
  BY LeakTypeNext DEF LeakInv
<1>1. ASSUME NEW t \in Threads, NEW e \in Engines, Attach(t, e) \/ AttachWithin(t, e)
      PROVE  LeakInv'
  <2>1. Owns(t, e) /\ AttachUnchecked(t, e) /\ ~LeakIsCurrent(t)
    BY <1>1 DEF Attach, AttachWithin, LeakIsCurrent
  <2>2. Current(t)
    BY <1>0, <2>1 DEF LeakyChain
  <2>. QED
    BY <1>0, <2>1, <2>2, AttachKeepsLeakInv
<1>2. ASSUME NEW t \in Threads, NEW u \in Threads, NEW e \in Engines,
             EngineNew(t, e) \/ EngineSend(t, u, e) \/ EngineDrop(t, e) \/ EngineForget(t, e)
      PROVE  LeakInv'
  BY <1>0, <1>2, EngineStepKeepsLeakInv
<1>3. ASSUME NEW t \in Threads, CurrentEngine(t) \/ RuntimeEngine(t) PROVE LeakInv'
  BY <1>0, <1>3, WitnessKeepsLeakInv
<1>4. ASSUME NEW t \in Threads, GuardLeak(t) PROVE LeakInv'
  <2>1. /\ guards[t] # <<>> /\ guards' = [guards EXCEPT ![t] = Pop(@)]
        /\ UNCHANGED <<phase, holder, slot, activation, genMint, witnesses>>
    BY <1>4 DEF GuardLeak
  <2>. QED
    BY <1>0, <2>1, GuardLostKeepsLeakInv
<1>5. ASSUME NEW t \in Threads, GuardDrop(t) PROVE LeakInv'
  <2>1. /\ guards[t] # <<>> /\ guards' = [guards EXCEPT ![t] = Pop(@)]
        /\ UNCHANGED <<phase, holder, genMint, witnesses>>
    BY <1>5 DEF GuardDrop
  <2>2. CASE /\ activation[t].gen = Top(guards[t]).gen
             /\ Settable(t, Top(guards[t]).previous)
    <3>1. /\ slot' = [slot EXCEPT ![t] = Top(guards[t]).previous]
          /\ activation' = [activation EXCEPT ![t] = Top(guards[t]).saved]
      BY <1>5, <2>2 DEF GuardDrop
    <3>. QED
      BY <1>0, <2>1, <2>2, <3>1, RestoreKeepsLeakInv
  <2>3. CASE ~(/\ activation[t].gen = Top(guards[t]).gen
               /\ Settable(t, Top(guards[t]).previous))
    <3>1. UNCHANGED <<slot, activation>>
      BY <1>5, <2>3 DEF GuardDrop
    <3>. QED
      BY <1>0, <2>1, <3>1, GuardLostKeepsLeakInv
  <2>. QED
    BY <2>2, <2>3
<1>6. CASE UNCHANGED attachVars
  BY <1>0, <1>6, SlotsKeepLeakInv DEF attachVars
<1>. QED
  BY <1>1, <1>2, <1>3, <1>4, <1>5, <1>6 DEF LeakNext, Next, AttachStep, ThreadStep

----------------------------------------------------------------------------------
(* The theorems. *)

(* C3 with leaked engines and attachments: a stamped handle that passes its check finds
   the engine it was made on, or that engine is destroyed and the handle finds no other
   engine with an owner. *)
THEOREM LeaksNeverCross == LeakSpec => []LeakNeverCrossesEngines
<1>1. LeakInv => LeakNeverCrossesEngines
  <2> SUFFICES ASSUME LeakInv, NEW w \in witnesses,
                      SameGen(activation[w.thread], w.act.gen)
               PROVE  Found(w)
    BY DEF LeakNeverCrossesEngines, Found
  <2>1. /\ TypeOK /\ SawItsEngine(w) /\ w.thread \in Threads
        /\ activation[w.thread].gen = w.act.gen
        /\ Current(w.thread) \/ LeakIsCurrent(w.thread)
    BY DEF LeakInv, LeakyChain, TypeOK, Witness, SameGen
  <2>2. CASE LeakIsCurrent(w.thread)
    BY <2>1, <2>2 DEF SawItsEngine
  <2>3. CASE Current(w.thread) /\ guards[w.thread] # <<>>
    <3>1. PICK n \in 1..Len(guards[w.thread]) :
            /\ activation[w.thread].gen = guards[w.thread][n].gen
            /\ slot[w.thread] = guards[w.thread][n].engine
      BY <2>1, <2>3, GuardTypes DEF Current, Top
    <3>. QED
      BY <2>1, <3>1 DEF SawItsEngine, Found
  <2>4. CASE Current(w.thread) /\ guards[w.thread] = <<>>
    BY <2>1, <2>4 DEF SawItsEngine, Found, Current, Base
  <2>. QED
    BY <2>1, <2>2, <2>3, <2>4
<1>2. LeakSpec => []LeakInv
  BY LeakInvInit, LeakInvNext, PTL DEF LeakSpec
<1>. QED
  BY <1>1, <1>2, PTL

(* No step replaces the record of a leaked attachment. *)
LEMMA LeakedRecordStays ==
  TypeOK /\ [LeakNext]_attachVars =>
    [\A t \in Threads : LeakIsCurrent(t) => activation'[t] = activation[t]]_attachVars
<1> SUFFICES ASSUME TypeOK, LeakNext, NEW t \in Threads, LeakIsCurrent(t)
             PROVE  activation'[t] = activation[t]
  OBVIOUS
<1>1. ASSUME NEW u \in Threads, NEW e \in Engines, Attach(u, e) \/ AttachWithin(u, e)
      PROVE  activation'[t] = activation[t]
  <2>1. u # t
    BY <1>1 DEF Attach, AttachWithin, LeakIsCurrent
  <2>. QED
    BY <1>1, <2>1 DEF Attach, AttachWithin, AttachUnchecked, EnterEngine, TypeOK
<1>2. ASSUME NEW u \in Threads, GuardDrop(u) PROVE activation'[t] = activation[t]
  <2>1. CASE u # t
    BY <1>2, <2>1 DEF GuardDrop, TypeOK
  <2>2. CASE u = t
    <3>1. activation[t].gen # Top(guards[t]).gen
      BY <1>2, <2>2, GuardTypes DEF GuardDrop, LeakIsCurrent, Top
    <3>. QED
      BY <1>2, <2>2, <3>1 DEF GuardDrop
  <2>. QED
    BY <2>1, <2>2
<1>3. ASSUME NEW u \in Threads, NEW v \in Threads, NEW e \in Engines,
             \/ EngineNew(u, e) \/ EngineSend(u, v, e) \/ EngineDrop(u, e)
             \/ EngineForget(u, e) \/ GuardLeak(u) \/ CurrentEngine(u) \/ RuntimeEngine(u)
      PROVE  activation'[t] = activation[t]
  BY <1>3 DEF EngineNew, EngineSend, EngineDrop, EngineForget, GuardLeak, CurrentEngine,
              RuntimeEngine
<1>4. ASSUME NEW u \in Threads, GuardLeak(u) \/ CurrentEngine(u) \/ RuntimeEngine(u)
      PROVE  activation'[t] = activation[t]
  BY <1>4 DEF GuardLeak, CurrentEngine, RuntimeEngine
<1>. QED
  BY <1>1, <1>2, <1>3, <1>4 DEF LeakNext, Next, AttachStep, ThreadStep

(* E5 and "Leaking values": a leaked attachment stays current on its thread for good. *)
THEOREM LeaksStayCurrent == LeakSpec => LeakStaysCurrent
<1>1. LeakSpec => []TypeOK
  BY TypeInit, LeakTypeNext, PTL DEF LeakSpec
<1>. QED
  BY <1>1, LeakedRecordStays, PTL DEF LeakSpec, LeakStaysCurrent
==================================================================================
