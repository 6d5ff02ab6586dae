--------------------------- MODULE RuntimeInitProofs ---------------------------
(***********************************************************************************)
(* What RuntimeInit checks for two callers, for any number of them and any number  *)
(* of attempts.                                                                     *)
(***********************************************************************************)
EXTENDS RuntimeInit, FiniteSetTheorems, TLAPS

(* The state tells whether Prolog is up, and who got past the check under the lock
   is there only while it is not. *)
StateIsTrue == (up <=> state = "Initialized") /\ (lock # Nobody => ~up)

IInv == InitTypeOK /\ StateIsTrue /\ OneRuntime /\ RefusedOnlyWhenUp

----------------------------------------------------------------------------------

(* No caller has started, and Prolog is down. *)
LEMMA InitEstablishes == Init => IInv
<1> SUFFICES ASSUME Init PROVE IInv
  OBVIOUS
<1> USE InitAssumption DEF Init
<1>1. InitTypeOK
  <2>1. /\ booting \in [Callers -> BOOLEAN]
        /\ up \in BOOLEAN
    BY Zenon
  <2>2. attempts \in [Callers -> 0..MaxAttempts]
    OBVIOUS
  <2>3. \A c \in Callers : pc[c] \notin {"args", "resource", "initialise"} /\ lock # c
    OBVIOUS
  <2>4. pc \in [Callers -> {"idle", "lock", "args", "resource", "initialise"}]
    OBVIOUS
  <2>5. result \in [Callers -> Results]
    BY DEF Results
  <2> QED
    BY <2>1, <2>2, <2>3, <2>4, <2>5 DEF InitTypeOK
<1>2. StateIsTrue
  BY DEF StateIsTrue
<1>3. OneRuntime
  BY DEF OneRuntime
<1>4. RefusedOnlyWhenUp
  BY DEF RefusedOnlyWhenUp
<1> QED
  BY <1>1, <1>2, <1>3, <1>4 DEF IInv

(* Every step of a caller leaves the lock, the state and what C did in agreement. *)
LEMMA StepKeeps == IInv /\ [Next]_vars => IInv'
<1> SUFFICES ASSUME IInv, [Next]_vars PROVE IInv'
  OBVIOUS
<1> USE InitAssumption
<1>1. ASSUME NEW c \in Callers, NEW fromState \in BOOLEAN, Initialize(c, fromState)
      PROVE  IInv'
  <2>1. InitTypeOK'
    BY <1>1 DEF IInv, InitTypeOK, Initialize, Goto
  <2> QED
    BY <1>1, <2>1 DEF IInv, StateIsTrue, OneRuntime, RefusedOnlyWhenUp, Initialize
<1>2. ASSUME NEW c \in Callers, Lock(c)
      PROVE  IInv'
  <2>1. InitTypeOK'
    BY <1>2 DEF IInv, InitTypeOK, StateIsTrue, Results, Lock, Goto, Return
  <2>2. StateIsTrue'
    BY <1>2 DEF IInv, InitTypeOK, StateIsTrue, Lock, Return
  <2>3. OneRuntime' /\ RefusedOnlyWhenUp'
    BY <1>2 DEF IInv, InitTypeOK, StateIsTrue, OneRuntime, RefusedOnlyWhenUp, Lock, Return
  <2> QED
    BY <2>1, <2>2, <2>3 DEF IInv
<1>3. ASSUME NEW c \in Callers, Args(c)
      PROVE  IInv'
  <2>1. InitTypeOK'
    <3>1. ASSUME NEW answer \in {"InvalidArgument", "panic"}, Return(c, answer)
          PROVE  InitTypeOK'
      <4>1. poisoned' \in BOOLEAN
        BY <3>1 DEF Return
      <4> QED
        BY <1>3, <3>1, <4>1 DEF IInv, InitTypeOK, Results, Args, Goto, Return
    <3>2. ASSUME Goto(c, IF booting[c] THEN "resource" ELSE "initialise"),
                 UNCHANGED <<lock, poisoned, result>>
          PROVE  InitTypeOK'
      BY <1>3, <3>2 DEF IInv, InitTypeOK, Args, Goto
    <3> QED
      BY <1>3, <3>1, <3>2 DEF Args
  <2>2. StateIsTrue' /\ OneRuntime' /\ RefusedOnlyWhenUp'
    BY <1>3 DEF IInv, InitTypeOK, StateIsTrue, OneRuntime, RefusedOnlyWhenUp, Args, Return
  <2> QED
    BY <2>1, <2>2 DEF IInv
<1>4. ASSUME NEW c \in Callers, EnterC(c)
      PROVE  IInv'
  <2>1. InitTypeOK'
    BY <1>4 DEF IInv, InitTypeOK, EnterC
  <2> QED
    BY <1>4, <2>1 DEF IInv, StateIsTrue, OneRuntime, RefusedOnlyWhenUp, EnterC
<1>5. ASSUME NEW c \in Callers, SetResource(c)
      PROVE  IInv'
  <2>1. InitTypeOK'
    BY <1>5 DEF IInv, InitTypeOK, Results, SetResource, Goto, Return
  <2>2. StateIsTrue' /\ OneRuntime' /\ RefusedOnlyWhenUp'
    BY <1>5 DEF IInv, InitTypeOK, StateIsTrue, OneRuntime, RefusedOnlyWhenUp, SetResource, Return
  <2> QED
    BY <2>1, <2>2 DEF IInv
<1>6. ASSUME NEW c \in Callers, Initialise(c)
      PROVE  IInv'
  <2>1. lock = c /\ ~up
    BY <1>6 DEF IInv, InitTypeOK, StateIsTrue, Initialise
  <2>2. InitTypeOK'
    BY <1>6, <2>1 DEF IInv, InitTypeOK, Results, Initialise, Goto, Return
  <2>3. StateIsTrue' /\ OneRuntime' /\ RefusedOnlyWhenUp'
    BY <1>6, <2>1 DEF IInv, InitTypeOK, StateIsTrue, OneRuntime, RefusedOnlyWhenUp,
                      Initialise, Return
  <2> QED
    BY <2>2, <2>3 DEF IInv
<1>7. CASE UNCHANGED vars
  BY <1>7 DEF IInv, InitTypeOK, StateIsTrue, OneRuntime, RefusedOnlyWhenUp, vars
<1> QED
  BY <1>1, <1>2, <1>3, <1>4, <1>5, <1>6, <1>7 DEF Next, Step

LEMMA Invariance == Spec => []IInv
BY InitEstablishes, StepKeeps, PTL DEF Spec

(* Whoever is in C holds the lock, so two callers cannot be; and holds it only while
   Prolog is down. *)
LEMMA LockAdmitsOne == IInv => InitialiseSerialized
<1> SUFFICES ASSUME IInv PROVE InitialiseSerialized
  OBVIOUS
<1>1. \A c \in inC : c \in Callers /\ lock = c
  BY DEF IInv, InitTypeOK
<1>2. up => inC = {}
  BY <1>1, InitAssumption DEF IInv, StateIsTrue
<1>3. Cardinality(inC) <= 1
  <2>1. CASE inC = {}
    BY <2>1, FS_EmptySet
  <2>2. CASE inC # {}
    <3>1. inC = {lock}
      BY <1>1, <2>2
    <3> QED
      BY SMTT(30), <3>1, FS_Singleton
  <2> QED
    BY <2>1, <2>2
<1> QED
  BY <1>2, <1>3 DEF InitialiseSerialized

----------------------------------------------------------------------------------

(* The holder of RUNTIME_STATE is the caller that is past taking it, and only it is
   inside a C function. *)
THEOREM InitTypeCorrect == Spec => []InitTypeOK
<1>1. IInv => InitTypeOK
  BY DEF IInv
<1> QED
  BY <1>1, Invariance, PTL

(* R2: PL_initialise and PL_set_resource_db_mem never overlap and never run once
   Prolog is up. *)
THEOREM InitialiseIsSerialized == Spec => []InitialiseSerialized
BY LockAdmitsOne, Invariance, PTL

(* R1: at most one Runtime is ever returned, and one exactly if Prolog came up. *)
THEOREM OnlyOneRuntime == Spec => []OneRuntime
<1>1. IInv => OneRuntime
  BY DEF IInv
<1> QED
  BY <1>1, Invariance, PTL

(* AlreadyInitialized is never the answer where no attempt succeeded. *)
THEOREM RefusalsAreTrue == Spec => []RefusedOnlyWhenUp
<1>1. IInv => RefusedOnlyWhenUp
  BY DEF IInv
<1> QED
  BY <1>1, Invariance, PTL
===================================================================================
