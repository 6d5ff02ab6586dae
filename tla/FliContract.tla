------------------------------- MODULE FliContract -------------------------------
(***********************************************************************************)
(* What SWI-Prolog demands of a program that opens foreign frames and queries: an *)
(* engine is attached to one thread at a time; a scope is opened on top of the    *)
(* stack of the engine attached to the caller; the only scope that may be closed  *)
(* is the one on top of that stack; and neither a rewind nor a backtrack may cut  *)
(* a scope off.  PL_close_foreign_frame checks none of this itself.               *)
(***********************************************************************************)
EXTENDS Sequences, Naturals

CONSTANTS Threads, Engines, MainThread, None, ScopeIds

VARIABLES attached, open

contractVars == <<attached, open>>

Init ==
  /\ attached = [t \in Threads |-> IF t = MainThread THEN t ELSE None]
  /\ open = [e \in Engines \cup Threads |-> <<>>]

SetEngine(t, e) ==
  /\ \A u \in Threads \ {t} : attached[u] # e
  /\ attached' = [attached EXCEPT ![t] = e]
  /\ UNCHANGED open

Detach(t) ==
  /\ attached' = [attached EXCEPT ![t] = None]
  /\ UNCHANGED open

Open(t, s) ==
  /\ attached[t] # None
  /\ \A e \in Engines \cup Threads : \A i \in 1..Len(open[e]) : open[e][i] # s
  /\ open' = [open EXCEPT ![attached[t]] = Append(@, s)]
  /\ UNCHANGED attached

Close(t) ==
  /\ attached[t] # None
  /\ open[attached[t]] # <<>>
  /\ open' = [open EXCEPT ![attached[t]] = SubSeq(@, 1, Len(@) - 1)]
  /\ UNCHANGED attached

(* Destroying an engine discards whatever was left open on it. *)
Destroy(e) ==
  /\ \A t \in Threads : attached[t] # e
  /\ open' = [open EXCEPT ![e] = <<>>]
  /\ UNCHANGED attached

Next ==
  \/ \E t \in Threads, e \in Engines \cup Threads : SetEngine(t, e)
  \/ \E t \in Threads, s \in ScopeIds : Open(t, s)
  \/ \E t \in Threads : Close(t) \/ Detach(t)
  \/ \E e \in Engines : Destroy(e)

Spec == Init /\ [][Next]_contractVars
==================================================================================
