------------------------------ MODULE Transactions ------------------------------
(***********************************************************************************)
(* What the callback-scoped calls promise about bindings: nested transactions.    *)
(* Level 1 is what is bound outside every call; each open call has a level of its *)
(* own.  Ending a call either merges its level into the one below or drops it,    *)
(* and what the caller is told goes with that choice: a value means the bindings  *)
(* were kept, and no value, a callback's error or a panic that they are gone.     *)
(***********************************************************************************)
EXTENDS Naturals, Sequences

CONSTANT Bindings

VARIABLES levels, told

transactionVars == <<levels, told>>

Depth == Len(levels)

Init == levels = << <<>> >> /\ told = "nothing"

Begin ==
  /\ levels' = Append(levels, <<>>)
  /\ told' = "nothing"

Write(b) ==
  /\ levels' = [levels EXCEPT ![Depth] = Append(@, b)]
  /\ told' = "nothing"

(* A retry undoes the level and may leave the bindings of the next solution. *)
Retry ==
  /\ Depth > 1
  /\ \/ levels' = [levels EXCEPT ![Depth] = <<>>]
     \/ \E b \in Bindings : levels' = [levels EXCEPT ![Depth] = <<b>>]
  /\ told' = "nothing"

Yield ==
  /\ Depth > 1
  /\ told' = "item"
  /\ UNCHANGED levels

(* "late": the call succeeded, and ending it raised an exception afterwards. *)
Commit ==
  /\ Depth > 1
  /\ levels' = Append(SubSeq(levels, 1, Depth - 2), levels[Depth - 1] \o levels[Depth])
  /\ told' \in {"value", "late"}

Abort ==
  /\ Depth > 1
  /\ levels' = SubSeq(levels, 1, Depth - 1)
  /\ told' \in {"none", "error", "panic", "dropped"}

(* Work on the way to an end, a caught panic, or an iterator that is over. *)
Report ==
  /\ told' \in {"nothing", "over"}
  /\ UNCHANGED levels

Next ==
  \/ Begin
  \/ \E b \in Bindings : Write(b)
  \/ Retry
  \/ Yield
  \/ Commit
  \/ Abort
  \/ Report

Spec == Init /\ [][Next]_transactionVars
==================================================================================
