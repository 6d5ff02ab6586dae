------------------------------ MODULE EngineStacks ------------------------------
(***********************************************************************************)
(* What the attach layer promises, with no generations, guards or handles: each   *)
(* thread has a stack of engines whose top is the engine attached to it.  A       *)
(* persistent engine (the main engine, or the one Runtime::engine creates) is     *)
(* named after its thread and only ever lies at the bottom of that thread's       *)
(* stack.  An owned engine is in at most one stack, once, and is destroyed only   *)
(* when it is in none.                                                            *)
(***********************************************************************************)
EXTENDS Naturals, Sequences

CONSTANTS Threads, Engines, MainThread

VARIABLES stack, phase

stackVars == <<stack, phase>>

InStack(e) == \E t \in Threads : \E i \in 1..Len(stack[t]) : stack[t][i] = e

Init ==
  /\ stack = [t \in Threads |-> IF t = MainThread THEN <<t>> ELSE <<>>]
  /\ phase = [e \in Engines |-> "absent"]

Create(e) ==
  /\ phase[e] = "absent"
  /\ phase' = [phase EXCEPT ![e] = "alive"]
  /\ UNCHANGED stack

Destroy(e) ==
  /\ phase[e] = "alive"
  /\ ~InStack(e)
  /\ phase' = [phase EXCEPT ![e] = "destroyed"]
  /\ UNCHANGED stack

Push(t, e) ==
  /\ phase[e] = "alive"
  /\ ~InStack(e)
  /\ stack' = [stack EXCEPT ![t] = Append(@, e)]
  /\ UNCHANGED phase

Pop(t) ==
  /\ stack[t] # <<>>
  /\ stack[t][Len(stack[t])] \in Engines
  /\ stack' = [stack EXCEPT ![t] = SubSeq(@, 1, Len(@) - 1)]
  /\ UNCHANGED phase

Adopt(t) ==
  /\ stack[t] = <<>>
  /\ stack' = [stack EXCEPT ![t] = <<t>>]
  /\ UNCHANGED phase

Next ==
  \/ \E e \in Engines : Create(e) \/ Destroy(e)
  \/ \E t \in Threads, e \in Engines : Push(t, e)
  \/ \E t \in Threads : Pop(t) \/ Adopt(t)

Spec == Init /\ [][Next]_stackVars
==================================================================================
