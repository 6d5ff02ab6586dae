------------------------------- MODULE ScopedCalls -------------------------------
(***********************************************************************************)
(* The callback-scoped calls of term.rs and query.rs on one thread: with_frame,   *)
(* try_with_frame and Frame; once, try_once (with their optional and prepared     *)
(* forms); solutions and try_solutions with the iterators they return.  A program *)
(* nests them, binds variables, returns, fails or panics in its callbacks, keeps  *)
(* iterators suspended and abandons them.                                          *)
(*                                                                                 *)
(* Three parties take turns.  The program runs in callbacks and between calls; the *)
(* crate registers scopes, makes one C call at a time and looks at what it          *)
(* returned; Prolog answers each call as it likes, and may leave an exception       *)
(* pending on the engine for the crate to take.                                     *)
(*                                                                                 *)
(* One engine stays attached, calls are made in the innermost context and nothing  *)
(* is leaked: what happens otherwise is the business of Attachment and              *)
(* ForeignScopes.                                                                   *)
(***********************************************************************************)
EXTENDS Scope, Sequences

CONSTANTS
  MaxCalls,      \* bound: calls opened
  MaxSolutions,  \* bound: solutions of a query
  MaxTrail       \* bound: bindings on the trail

ASSUME CallsAssumption == MaxCalls \in Nat /\ MaxSolutions \in Nat /\ MaxTrail \in Nat

VARIABLES
  calls,       \* the open frames and queries, outermost first
  activation,  \* the activation record of scope.rs
  trail,       \* C side: the bindings in force
  pending,     \* C side: the exception pending on the engine, named by what raised it
  returned,    \* what the C call made last has returned, until the crate has acted on it
  panicking,   \* a panic is unwinding
  spent,       \* the levels whose code holds an iterator that has given up its query
  last,        \* what the caller was last told, and what had gone wrong
  opened       \* how many calls were made

engineVars == <<trail, pending, returned>>
vars == <<calls, activation, engineVars, panicking, spent, last, opened>>

----------------------------------------------------------------------------------

FrameApis == {"frame", "with_frame", "try_with_frame"}
QueryApis == {"once", "try_once", "solutions", "try_solutions"}

Iterator(api) == api \in {"solutions", "try_solutions"}
Fallible(api) == api \in {"try_with_frame", "try_once", "try_solutions"}

(* What can go wrong in a call: opening raises or is refused, advancing raises or
   ends in a status that says nothing, the callback fails, ending raises. *)
Faults == {"open", "refused", "advance", "status", "body", "end"}

(* The program runs in a callback, holds a frame, or holds a suspended iterator;
   Prolog works for the call, or has just returned; in the last three the call is
   no longer registered, and keeps or discards its bindings. *)
ProgramStates == {"body", "held", "suspended"}
EndStates == {"cut", "close", "drop"}
CrateStates == {"open", "advance"} \cup EndStates

(* `errors` are what the crate holds to report; `occurred` is what really went wrong,
   in order, whoever knows of it. *)
Call == [api : FrameApis \cup QueryApis, state : ProgramStates \cup CrateStates,
         mark : Nat, depth : Nat, solutions : Nat, exhausted : BOOLEAN,
         errors : Seq(Faults), occurred : Seq(Faults)]

Report == [outcome : {"nothing", "item", "over", "value", "late", "none", "error", "panic",
                      "dropped"},
           occurred : Seq(Faults), told : Seq(Faults)]

(* A binding made by the program, or by the k-th solution of a query. *)
Bindings == 0..MaxSolutions

(* The generation of the attached engine. *)
Gen == 1

CallsTypeOK ==
  /\ calls \in Seq(Call)
  /\ activation \in Activation
  /\ trail \in Seq(Bindings)
  /\ pending \in Faults \cup {"none"}
  /\ returned \in {"nothing", "yes", "last", "no", "exception", "unknown"}
  /\ panicking \in BOOLEAN
  /\ spent \subseteq 0..Len(calls)
  /\ last \in Report
  /\ opened \in 0..MaxCalls
  /\ \A i \in 1..Len(calls) : calls[i].mark <= Len(trail)
  /\ \A i \in 1..(Len(calls) - 1) : calls[i].state \in {"body", "held"}

Inner == calls[Len(calls)]
Outer == SubSeq(calls, 1, Len(calls) - 1)
Continue(call) == calls' = Append(Outer, call)

InnerIs(states) == calls # <<>> /\ Inner.state \in states

(* What the innermost context has for an activation: the guard's, or a scope's. *)
Context == [gen |-> Gen, depth |-> IF calls = <<>> THEN 0 ELSE Inner.depth + 1]

Undone(call) == SubSeq(trail, 1, call.mark)

Tell(outcome, occurred, told) ==
  last' = [outcome |-> outcome, occurred |-> occurred, told |-> told]
Quiet == Tell("nothing", <<>>, <<>>)

(* Control is with the program. *)
InProgram == ~panicking /\ (calls # <<>> => Inner.state \in ProgramStates)

(* The iterators of the innermost call's code go with it.  An iterator that ends its
   query within `next` is left to the code that asked it. *)
Left == spent' = spent \ {Len(calls)}
Spend == spent' = spent \cup (IF Iterator(Inner.api) THEN {Len(calls) - 1} ELSE {})

(* The start of an end: the scope is taken off the record, and then C is called. *)
EndBy(state, call) ==
  /\ Closable(activation, Gen, call.depth)
  /\ activation' = Closed(Gen, call.depth)
  /\ Continue([call EXCEPT !.state = state])

----------------------------------------------------------------------------------
(* The program's steps. *)

Init ==
  /\ calls = <<>>
  /\ activation = Entered(Gen)
  /\ trail = <<>>
  /\ pending = "none"
  /\ returned = "nothing"
  /\ panicking = FALSE
  /\ spent = {}
  /\ last = [outcome |-> "nothing", occurred |-> <<>>, told |-> <<>>]
  /\ opened = 0

NewCall(api) ==
  [api |-> api, state |-> "open", mark |-> Len(trail), depth |-> activation.depth,
   solutions |-> 0, exhausted |-> FALSE, errors |-> <<>>, occurred |-> <<>>]

(* Faulty variant: no check that the context is innermost. *)
OpenAnywhere(api) ==
  /\ InProgram
  /\ opened < MaxCalls
  /\ opened' = opened + 1
  /\ calls' = Append(calls, NewCall(api))
  /\ activation' = Opened(activation)
  /\ Quiet
  /\ UNCHANGED <<engineVars, panicking, spent>>

(* Frame::open and Query::open up to the C call.  A suspended iterator holds the
   innermost query and lends no context, so nothing can be opened around it. *)
Open(api) ==
  /\ InProgram
  /\ ~InnerIs({"suspended"})
  /\ Innermost(activation, Context)
  /\ opened < MaxCalls
  /\ opened' = opened + 1
  /\ calls' = Append(calls, NewCall(api))
  /\ activation' = Opened(activation)
  /\ Quiet
  /\ UNCHANGED <<engineVars, panicking, spent>>

(* Terms outside the innermost scope can be bound at any time. *)
Bind ==
  /\ InProgram
  /\ Len(trail) < MaxTrail
  /\ trail' = Append(trail, 0)
  /\ Quiet
  /\ UNCHANGED <<calls, activation, pending, returned, panicking, spent, opened>>

(* The callback returns: an iterator yields what was mapped and stays open. *)
Yield ==
  /\ InProgram
  /\ InnerIs({"body"}) /\ Iterator(Inner.api)
  /\ Continue([Inner EXCEPT !.state = "suspended"])
  /\ Left
  /\ Tell("item", <<>>, <<>>)
  /\ UNCHANGED <<activation, engineVars, panicking, opened>>

Return ==
  /\ InProgram
  /\ InnerIs({"body"}) /\ ~Iterator(Inner.api)
  /\ EndBy("cut", Inner)
  /\ Quiet
  /\ UNCHANGED <<engineVars, panicking, spent, opened>>

(* The callback of a try_ function returns an error. *)
ReturnErr ==
  /\ InProgram
  /\ InnerIs({"body"}) /\ Fallible(Inner.api)
  /\ EndBy("close", [Inner EXCEPT !.errors = Append(@, "body"),
                                  !.occurred = Append(@, "body")])
  /\ Spend
  /\ Quiet
  /\ UNCHANGED <<engineVars, panicking, opened>>

(* The owner of a suspended iterator asks for the next solution, and the owner of an
   iterator or a frame ends or drops it. *)
Ask ==
  /\ InProgram
  /\ InnerIs({"suspended"})
  /\ Inner.exhausted \/ Innermost(activation, Context)
  /\ Continue([Inner EXCEPT !.state = "advance"])
  /\ Quiet
  /\ UNCHANGED <<activation, engineVars, panicking, spent, opened>>

CloseEarly ==
  /\ InProgram
  /\ InnerIs({"suspended"})
  /\ EndBy("close", Inner)
  /\ Quiet
  /\ UNCHANGED <<engineVars, panicking, spent, opened>>

CutEarly ==
  /\ InProgram
  /\ InnerIs({"suspended", "held"})
  /\ EndBy("cut", Inner)
  /\ Quiet
  /\ UNCHANGED <<engineVars, panicking, spent, opened>>

Abandon ==
  /\ InProgram
  /\ InnerIs({"suspended", "held"})
  /\ EndBy("drop", Inner)
  /\ Quiet
  /\ UNCHANGED <<engineVars, panicking, spent, opened>>

(* An iterator that has given up its query, also because its mapper panicked, is
   asked again, cut or closed: it has nothing to say, and C is not called. *)
AskSpent ==
  /\ InProgram
  /\ spent # {}
  /\ Tell("over", <<>>, <<>>)
  /\ UNCHANGED <<calls, activation, engineVars, panicking, spent, opened>>

Rewind ==
  /\ InProgram
  /\ InnerIs({"held"})
  /\ Innermost(activation, Context)
  /\ trail' = Undone(Inner)
  /\ Left
  /\ Quiet
  /\ UNCHANGED <<calls, activation, pending, returned, panicking, opened>>

Panic ==
  /\ InProgram
  /\ calls # <<>>
  /\ panicking' = TRUE
  /\ Quiet
  /\ UNCHANGED <<calls, activation, engineVars, spent, opened>>

(* catch_unwind in the program, below a call that the panic went through. *)
Catch ==
  /\ panicking
  /\ last.outcome = "panic"
  /\ panicking' = FALSE
  /\ Quiet
  /\ UNCHANGED <<calls, activation, engineVars, spent, opened>>

----------------------------------------------------------------------------------
(* Prolog's steps: the answers to the C calls. *)

Answers(answer) ==
  /\ returned' = answer
  /\ UNCHANGED <<calls, pending>>

Raises(answer, fault) ==
  /\ returned' = answer
  /\ pending' = fault
  /\ Continue([Inner EXCEPT !.occurred = Append(@, fault)])

(* A failure with no exception to explain it. *)
Refuses(answer, fault) ==
  /\ returned' = answer
  /\ Continue([Inner EXCEPT !.occurred = Append(@, fault)])
  /\ UNCHANGED pending

OpenReturns ==
  /\ InnerIs({"open"})
  /\ Answers("yes") \/ Raises("no", "open") \/ Refuses("no", "refused")
  /\ UNCHANGED trail

SolutionFound ==
  /\ InnerIs({"advance"}) /\ ~Inner.exhausted
  /\ Inner.solutions < MaxSolutions
  /\ Continue([Inner EXCEPT !.solutions = @ + 1])
  /\ trail' = Append(Undone(Inner), Inner.solutions + 1)
  /\ returned' \in {"yes", "last"}
  /\ UNCHANGED pending

NothingFound ==
  /\ InnerIs({"advance"}) /\ ~Inner.exhausted
  /\ \/ Answers("no")
     \/ Raises("exception", "advance")
     \/ \E answer \in {"exception", "unknown"} : Refuses(answer, "status")
  /\ trail' = Undone(Inner)

(* Faulty variant: a dropped frame or query is closed as if it had been kept. *)
KeepsUnlessClosed(call) == call.state \in {"cut", "drop"}

(* Frame::close and cut call the C functions that keep the bindings; discard, close
   and the destructors those that undo them. *)
Keeps(call) == call.state = "cut"

(* Ending a frame cannot fail.  A query is ended whatever is returned; its undo and
   cleanup handlers may raise. *)
EndReturns ==
  /\ InnerIs(EndStates)
  /\ \/ Answers("yes")
     \/ Inner.api \in QueryApis /\ (Raises("no", "end") \/ Answers("no"))
  /\ trail' = IF Keeps(Inner) THEN trail ELSE Undone(Inner)

CReturns ==
  /\ returned = "nothing"
  /\ OpenReturns \/ SolutionFound \/ NothingFound \/ EndReturns
  /\ Quiet
  /\ UNCHANGED <<activation, panicking, spent, opened>>

----------------------------------------------------------------------------------
(* The crate's steps. *)

(* take_pending_exception where a failure was answered: the exception, or what is
   reported if there is none. *)
Taken(otherwise) == IF pending = "none" THEN otherwise ELSE pending

ClearOn(answer) == pending' = IF returned = answer THEN "none" ELSE pending

Acted == returned' = "nothing"

FirstState(api) ==
  CASE api = "frame" -> "held"
    [] api \in {"with_frame", "try_with_frame"} -> "body"
    [] Iterator(api) -> "suspended"
    [] OTHER -> "advance"

Opens ==
  /\ InnerIs({"open"}) /\ returned = "yes"
  /\ Continue([Inner EXCEPT !.state = FirstState(Inner.api)])
  /\ Acted
  /\ Quiet
  /\ UNCHANGED <<activation, trail, pending, panicking, spent, opened>>

(* Opening failed: the scope is withdrawn before the exception is looked at. *)
OpenFails ==
  /\ InnerIs({"open"}) /\ returned = "no"
  /\ Closable(activation, Gen, Inner.depth)
  /\ activation' = Closed(Gen, Inner.depth)
  /\ calls' = Outer /\ Left
  /\ Acted /\ ClearOn("no")
  /\ Tell("error", Inner.occurred, Append(Inner.errors, Taken("refused")))
  /\ UNCHANGED <<trail, panicking, opened>>

(* next_solution, and what its callers do with each status. *)
Solution ==
  /\ InnerIs({"advance"}) /\ returned \in {"yes", "last"}
  /\ Continue([Inner EXCEPT !.state = "body", !.exhausted = (returned = "last")])
  /\ Acted
  /\ Quiet
  /\ UNCHANGED <<activation, trail, pending, panicking, spent, opened>>

NoMore ==
  /\ InnerIs({"advance"}) /\ (returned = "no" \/ Inner.exhausted)
  /\ EndBy("close", [Inner EXCEPT !.exhausted = TRUE])
  /\ Spend
  /\ Acted
  /\ Quiet
  /\ UNCHANGED <<trail, pending, panicking, opened>>

Failed(call) ==
  [call EXCEPT !.exhausted = (returned = "exception"),
               !.errors = Append(@, IF returned = "exception" THEN Taken("status")
                                    ELSE "status")]

(* Faulty variant: an iterator that reports a failed advance and stays open. *)
AdvanceFailsOpen ==
  /\ InnerIs({"advance"}) /\ returned \in {"exception", "unknown"}
  /\ IF Iterator(Inner.api)
     THEN /\ Continue([Inner EXCEPT !.state = "suspended", !.occurred = <<>>,
                                    !.exhausted = (returned = "exception")])
          /\ Tell("error", Inner.occurred, Failed(Inner).errors)
          /\ UNCHANGED <<activation, spent>>
     ELSE EndBy("close", Failed(Inner)) /\ Spend /\ Quiet
  /\ Acted /\ ClearOn("exception")
  /\ UNCHANGED <<trail, panicking, opened>>

AdvanceFails ==
  /\ InnerIs({"advance"}) /\ returned \in {"exception", "unknown"}
  /\ EndBy("close", Failed(Inner))
  /\ Spend
  /\ Acted /\ ClearOn("exception")
  /\ Quiet
  /\ UNCHANGED <<trail, panicking, opened>>

(* finish: the query is gone, and only a false status makes it look for an
   exception. *)
Finish == IF returned = "no" THEN pending ELSE "none"

(* A call that keeps its bindings has a value, unless ending it raised. *)
FinishCut ==
  /\ InnerIs({"cut"}) /\ returned # "nothing"
  /\ calls' = Outer /\ Left
  /\ Acted /\ ClearOn("no")
  /\ IF Finish = "none" THEN Tell("value", Inner.occurred, <<>>)
     ELSE Tell("late", Inner.occurred, <<Finish>>)
  /\ UNCHANGED <<activation, trail, panicking, opened>>

(* Faulty variant: closing with `?`, so that its error takes the place of the
   operation's. *)
CleanupInstead(errors) == IF Finish = "none" THEN errors ELSE <<Finish>>

(* cleanup_after_operation and close_after_body: the error in hand, paired with that
   of closing if there is one. *)
WithCleanup(errors) == IF Finish = "none" THEN errors ELSE Append(errors, Finish)

FinishClose ==
  /\ InnerIs({"close"}) /\ returned # "nothing"
  /\ calls' = Outer /\ Left
  /\ Acted /\ ClearOn("no")
  /\ Tell(IF WithCleanup(Inner.errors) = <<>> THEN "none" ELSE "error",
          Inner.occurred, WithCleanup(Inner.errors))
  /\ UNCHANGED <<activation, trail, panicking, opened>>

(* Faulty variant: the destructor does not look for an exception. *)
DroppedUnlooked ==
  /\ InnerIs({"drop"}) /\ returned # "nothing"
  /\ calls' = Outer /\ Left
  /\ Acted
  /\ Tell(IF panicking THEN "panic" ELSE "dropped", Inner.occurred, <<>>)
  /\ UNCHANGED <<activation, trail, pending, panicking, opened>>

(* The destructors of Frame and Query.  What ending a query raises is cleared and
   lost, as a destructor has nobody to tell. *)
Dropped ==
  /\ InnerIs({"drop"}) /\ returned # "nothing"
  /\ calls' = Outer /\ Left
  /\ Acted
  /\ pending' = IF Inner.api \in QueryApis THEN "none" ELSE pending
  /\ Tell(IF panicking THEN "panic" ELSE "dropped", Inner.occurred, <<>>)
  /\ UNCHANGED <<activation, trail, panicking, opened>>

(* A panic passes through the innermost frame or query.  The iterator whose mapper
   panicked drops its query before it resumes the panic, and may live on. *)
Unwind ==
  /\ panicking
  /\ InnerIs(ProgramStates)
  /\ EndBy("drop", Inner)
  /\ IF Inner.state = "body" THEN Spend ELSE UNCHANGED spent
  /\ Quiet
  /\ UNCHANGED <<engineVars, panicking, opened>>

----------------------------------------------------------------------------------

ProgramEnds == Yield \/ Return \/ ReturnErr \/ Ask \/ CloseEarly \/ CutEarly \/ Abandon

CrateStep ==
  \/ Opens \/ OpenFails
  \/ Solution \/ NoMore \/ AdvanceFails
  \/ FinishCut \/ FinishClose \/ Dropped
  \/ Unwind

Next ==
  \/ \E api \in FrameApis \cup QueryApis : Open(api)
  \/ Bind
  \/ ProgramEnds
  \/ AskSpent
  \/ Rewind
  \/ Panic
  \/ Catch
  \/ CReturns
  \/ CrateStep

Spec == Init /\ [][Next]_vars

(* The C calls return and so does the crate, and the program is not stuck in a
   callback or with an iterator it never asks nor gives up. *)
FairSpec == Spec /\ WF_vars(CReturns) /\ WF_vars(CrateStep)
                 /\ WF_vars(Yield \/ Return \/ ReturnErr)
                 /\ WF_vars(Ask) /\ WF_vars(CutEarly \/ Abandon)

----------------------------------------------------------------------------------
(* The properties. *)

(* C2, A3: however a call went, the program never runs and no C call is made with an
   exception of an earlier one still pending; and the program never runs with the
   record counting another number of scopes than are open. *)
EngineInOrder ==
  /\ returned = "nothing" => pending = "none"
  /\ InProgram => activation.depth = Len(calls)

(* Every fault of a call reaches its caller, in order and as what it was: an exception
   where one was raised, also when ending the call raises another.  Only what a
   destructor meets is lost, and that is never more than its own exception. *)
NothingSwallowed ==
  IF last.outcome \in {"panic", "dropped"} THEN last.occurred \in {<<>>, <<"end">>}
  ELSE last.told = last.occurred

(* F6, Q1: nested calls are nested transactions. *)
Top(i) == IF i = Len(calls) THEN Len(trail) ELSE calls[i + 1].mark
Floor(i) == IF i = 0 THEN 0 ELSE calls[i].mark

Levels ==
  INSTANCE Transactions WITH
    told <- last.outcome,
    levels <- [i \in 1..(Len(calls) + 1) |-> SubSeq(trail, Floor(i - 1) + 1, Top(i - 1))]

ImplementsTransactions == Levels!Spec

(* A query is ended in the end: an iterator that is asked again and again runs out,
   whatever Prolog answers, and a panic is not kept in the crate. *)
EverythingCloses == calls # <<>> ~> calls = <<>>
==================================================================================
