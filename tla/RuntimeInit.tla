------------------------------- MODULE RuntimeInit -------------------------------
(***********************************************************************************)
(* Runtime::initialize and initialize_from_state called by several threads: the   *)
(* mutex RUNTIME_STATE, the caller's argument iterator that runs under it, and    *)
(* the two C calls it serializes, neither of which is safe to overlap or to make  *)
(* once Prolog is up.                                                              *)
(*                                                                                 *)
(* The iterator is foreign code: it may yield a bad argument or panic, which       *)
(* poisons the mutex.  One that calls initialize itself waits for a lock its own  *)
(* thread holds; such iterators are left out.                                      *)
(***********************************************************************************)
EXTENDS Naturals, FiniteSets

CONSTANTS
  Callers,      \* threads that initialize
  Nobody,       \* no holder of the lock
  MaxAttempts   \* bound: calls of each thread

ASSUME InitAssumption == Nobody \notin Callers /\ MaxAttempts \in Nat

VARIABLES
  state,     \* RUNTIME_STATE
  lock,      \* the holder of its mutex
  poisoned,  \* whether a panic has dropped the mutex guard
  pc,        \* where each caller is in initialize_inner
  booting,   \* whether the caller passed a saved state
  attempts,  \* calls each thread made
  result,    \* what its last call returned
  inC,       \* C side: the callers inside one of the two C functions
  up,        \* C side: PL_initialise has succeeded
  runtimes   \* how many Runtime values were returned

vars == <<state, lock, poisoned, pc, booting, attempts, result, inC, up, runtimes>>

Results == {"none", "runtime", "AlreadyInitialized", "InvalidArgument", "panic",
            "InvalidSavedState", "InitialiseFailed", "PoisonError"}

InitTypeOK ==
  /\ state \in {"Uninitialized", "Initialized"}
  /\ lock \in Callers \cup {Nobody}
  /\ poisoned \in BOOLEAN
  /\ pc \in [Callers -> {"idle", "lock", "args", "resource", "initialise"}]
  /\ booting \in [Callers -> BOOLEAN]
  /\ attempts \in [Callers -> 0..MaxAttempts]
  /\ result \in [Callers -> Results]
  /\ inC \in SUBSET Callers
  /\ up \in BOOLEAN
  /\ runtimes \in Nat
  /\ \A c \in Callers : pc[c] \in {"args", "resource", "initialise"} <=> lock = c
  /\ \A c \in inC : pc[c] \in {"resource", "initialise"}

----------------------------------------------------------------------------------

Init ==
  /\ state = "Uninitialized"
  /\ lock = Nobody
  /\ poisoned = FALSE
  /\ pc = [c \in Callers |-> "idle"]
  /\ booting = [c \in Callers |-> FALSE]
  /\ attempts = [c \in Callers |-> 0]
  /\ result = [c \in Callers |-> "none"]
  /\ inC = {}
  /\ up = FALSE
  /\ runtimes = 0

Goto(c, label) == pc' = [pc EXCEPT ![c] = label]

(* Faulty variant: an early return that keeps the mutex. *)
ReturnHolding(c, answer) ==
  /\ result' = [result EXCEPT ![c] = answer]
  /\ lock' = IF answer = "InvalidArgument" THEN lock ELSE Nobody
  /\ poisoned' = (poisoned \/ answer = "panic")
  /\ Goto(c, "idle")

(* Return drops the mutex guard, whatever the result; unwinding poisons it. *)
Return(c, answer) ==
  /\ result' = [result EXCEPT ![c] = answer]
  /\ lock' = Nobody
  /\ poisoned' = (poisoned \/ answer = "panic")
  /\ Goto(c, "idle")

Initialize(c, fromState) ==
  /\ pc[c] = "idle"
  /\ attempts[c] < MaxAttempts
  /\ attempts' = [attempts EXCEPT ![c] = @ + 1]
  /\ booting' = [booting EXCEPT ![c] = fromState]
  /\ Goto(c, "lock")
  /\ UNCHANGED <<state, lock, poisoned, result, inC, up, runtimes>>

(* Faulty variants: the state is read before the mutex is taken; not at all; a
   poisoned mutex is refused. *)
LockEarlyCheck(c) ==
  /\ pc[c] = "lock"
  /\ lock' = c
  /\ Goto(c, "args")
  /\ UNCHANGED <<state, poisoned, booting, attempts, result, inC, up, runtimes>>

LockNoCheck(c) ==
  /\ pc[c] = "lock"
  /\ lock = Nobody
  /\ lock' = c
  /\ Goto(c, "args")
  /\ UNCHANGED <<state, poisoned, booting, attempts, result, inC, up, runtimes>>

LockUnlessPoisoned(c) ==
  /\ pc[c] = "lock"
  /\ lock = Nobody
  /\ CASE poisoned                -> Return(c, "PoisonError")
       [] state = "Initialized"   -> Return(c, "AlreadyInitialized")
       [] OTHER                   -> lock' = c /\ Goto(c, "args") /\ UNCHANGED <<poisoned, result>>
  /\ UNCHANGED <<state, booting, attempts, inC, up, runtimes>>

(* The lock is taken, poisoned or not: only a panic before the state is written
   poisons it, so what it guards is sound.  The state is looked at under it. *)
Lock(c) ==
  /\ pc[c] = "lock"
  /\ lock = Nobody
  /\ IF state = "Initialized"
     THEN Return(c, "AlreadyInitialized")
     ELSE lock' = c /\ Goto(c, "args") /\ UNCHANGED <<poisoned, result>>
  /\ UNCHANGED <<state, booting, attempts, inC, up, runtimes>>

(* leak_argv *)
Args(c) ==
  /\ pc[c] = "args"
  /\ \/ \E answer \in {"InvalidArgument", "panic"} : Return(c, answer)
     \/ /\ Goto(c, IF booting[c] THEN "resource" ELSE "initialise")
        /\ UNCHANGED <<lock, poisoned, result>>
  /\ UNCHANGED <<state, booting, attempts, inC, up, runtimes>>

EnterC(c) ==
  /\ pc[c] \in {"resource", "initialise"}
  /\ c \notin inC
  /\ inC' = inC \cup {c}
  /\ UNCHANGED <<state, lock, poisoned, pc, booting, attempts, result, up, runtimes>>

(* PL_set_resource_db_mem *)
SetResource(c) ==
  /\ pc[c] = "resource"
  /\ c \in inC
  /\ inC' = inC \ {c}
  /\ \/ Return(c, "InvalidSavedState")
     \/ Goto(c, "initialise") /\ UNCHANGED <<lock, poisoned, result>>
  /\ UNCHANGED <<state, booting, attempts, up, runtimes>>

(* Faulty variant: the state is never recorded. *)
InitialiseForgetting(c) ==
  /\ pc[c] = "initialise"
  /\ c \in inC
  /\ inC' = inC \ {c}
  /\ \E ok \in BOOLEAN :
       /\ up' = (up \/ ok)
       /\ runtimes' = IF ok THEN runtimes + 1 ELSE runtimes
       /\ Return(c, IF ok THEN "runtime" ELSE "InitialiseFailed")
  /\ UNCHANGED <<state, booting, attempts>>

(* PL_initialise *)
Initialise(c) ==
  /\ pc[c] = "initialise"
  /\ c \in inC
  /\ inC' = inC \ {c}
  /\ \E ok \in BOOLEAN :
       /\ up' = (up \/ ok)
       /\ runtimes' = IF ok THEN runtimes + 1 ELSE runtimes
       /\ state' = IF ok THEN "Initialized" ELSE state
       /\ Return(c, IF ok THEN "runtime" ELSE "InitialiseFailed")
  /\ UNCHANGED <<booting, attempts>>

Step(c) == Lock(c) \/ Args(c) \/ EnterC(c) \/ SetResource(c) \/ Initialise(c)

Next == \E c \in Callers : Step(c) \/ \E fromState \in BOOLEAN : Initialize(c, fromState)

Spec == Init /\ [][Next]_vars

(* A thread that is scheduled and not blocked moves on: the iterators end and the C
   functions return. *)
FairSpec == Spec /\ \A c \in Callers : WF_vars(Step(c))

----------------------------------------------------------------------------------
(* The properties. *)

(* R2: the C functions never overlap, and neither is called once Prolog is up. *)
InitialiseSerialized == Cardinality(inC) <= 1 /\ (up => inC = {})

(* R1: at most one Runtime is ever made, and one is exactly if Prolog came up. *)
OneRuntime == runtimes = IF up THEN 1 ELSE 0

(* A failed or panicked attempt does not lock the others out: a caller is turned
   away at the lock, by what it guards or by its poison, only where Prolog really
   is up. *)
RefusedOnlyWhenUp ==
  \A c \in Callers : result[c] \in {"AlreadyInitialized", "PoisonError"} => up

(* Every call returns: no failure, panic or refusal keeps the mutex. *)
CallsReturn == \A c \in Callers : pc[c] # "idle" ~> pc[c] = "idle"
==================================================================================
