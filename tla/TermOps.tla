--------------------------------- MODULE TermOps ---------------------------------
(***********************************************************************************)
(* The operations on terms, dicts, handles and records (term.rs, term/dict.rs,     *)
(* handles.rs, record.rs, external_record.rs and the helpers of codec.rs), each   *)
(* as the C calls it makes in order.  A call may fail, with an exception pending   *)
(* or without; the crate turns that into an error, cleans up, and returns.         *)
(*                                                                                 *)
(* One call is trusted: PL_for_dict goes through a whole dict and fails only where *)
(* its callback does, because dict_entries ignores what it returns.  If it failed   *)
(* by itself, the entries so far would pass for all.                                *)
(*                                                                                 *)
(* One engine, one operation at a time; what the terms say matters only for lists *)
(* and dicts, which are taken apart item by item.                                   *)
(***********************************************************************************)
EXTENDS Naturals, Sequences

CONSTANT MaxLen   \* bound: items of a list or dict, arguments of a compound

ASSUME OpsAssumption == MaxLen \in Nat

VARIABLES
  input,      \* the list or dict the operation was given
  todo,       \* the calls it has still to make
  returned,   \* C side: what the last call returned, until the crate looks at it
  pending,    \* C side: the exception pending on the engine, 0 for none
  raised,     \* C side: how many exceptions were raised in the operation
  held,       \* C side: what the operation has open or allocated
  items,      \* what was collected
  errors,     \* errors noted and not yet reported, in order
  answer      \* what the operation returned, or Running

vars == <<input, todo, returned, pending, raised, held, items, errors, answer>>

----------------------------------------------------------------------------------

Running == <<"running">>
Ok == <<"ok">>
False == <<"false">>
NoTag == <<"none">>
Mismatch == <<"mismatch">>
NotAProperList == <<"not a proper list">>
Failed == <<"failed">>
Panic == <<"panic">>
Exception(n) == <<"exception", n>>
IsException(error) == error[1] = "exception"

Errors == {Mismatch, Failed, Panic, NotAProperList} \cup {Exception(n) : n \in 1..2}
Answers == Errors \cup {Running, Ok, False, NoTag}

(* A list: its cells, and what its spine ends in.  A dict: the kinds of its keys, in
   sorted order; the crate knows two. *)
UpTo(S) == UNION {[1..n -> S] : n \in 0..MaxLen}
Lists == [cells : UpTo({"item"}), end : {"nil", "variable", "other", "cycle"}]
Dicts == [cells : UpTo({"atom", "int", "unknown"}), end : {"dict"}]
Nothing == [cells |-> <<>>, end |-> "none"]

Times(n, calls) == [i \in 1..(n * Len(calls)) |-> calls[((i - 1) % Len(calls)) + 1]]

(* The calls of the operations that always make the same ones. *)
Put == <<"put">>
Get == <<"get">>
GetText == <<"text", "copy_text">>
Unify == <<"unify">>
NewHandle == <<"handle">>
GetArg == <<"new_ref", "get">>
GetList == <<"new_ref", "new_ref", "get">>
DictTag == <<"is_dict", "handle", "new_ref", "put", "open", "advance", "end", "is_variable", "get">>
RecordTerm == <<"record">>
RecordExternal == <<"external", "copy_out">>
RecallInto == <<"recall">>
Recall == <<"new_ref">> \o RecallInto
RecallExternal == <<"new_ref", "recall">>
ToExternal == Recall \o RecordExternal
ToRecord == RecallExternal \o RecordTerm

Scripts ==
  {Put, Get, GetText, Unify, NewHandle, GetArg, GetList, DictTag, RecordTerm,
   RecordExternal, RecallInto, Recall, RecallExternal, ToExternal, ToRecord}

(* The codec's helpers: put_compound, put_list_terms, put_dict and compound_args. *)
PutCompound(n) ==
  IF n = 0 THEN <<"put">> ELSE <<"new_ref">> \o Times(n, <<"put">>) \o <<"handle", "put">>
PutListTerms(n) == <<"new_ref", "put">> \o Times(n, <<"new_ref", "put">>) \o <<"put">>
PutDict(n) == <<"new_ref">> \o Times(n, <<"put">>) \o <<"put">>
CompoundArgs(n) == <<"get">> \o Times(n, GetArg)

Calls == {"put", "get", "unify", "new_ref", "skip_list", "copy_ref", "cell", "is_dict", "for_dict",
          "handle", "open", "advance", "end", "is_variable", "record", "recall", "external", "copy_out",
          "text", "copy_text"}

OpsTypeOK ==
  /\ input \in Lists \cup Dicts \cup {Nothing}
  /\ todo \in Seq(Calls)
  /\ returned \in {"nothing", "yes", "no", "unknown"}
  /\ pending \in 0..2 /\ raised \in 0..2
  /\ held \in SUBSET {"query", "buffer"}
  /\ items \in Seq(1..MaxLen)
  /\ errors \in Seq(Errors)
  /\ answer \in Answers
  /\ answer # Running <=> todo = <<>>
  /\ pending # 0 => pending = raised

Call == Head(todo)
Making(calls) == todo # <<>> /\ Call \in calls /\ returned = "nothing"
Made(calls) == todo # <<>> /\ Call \in calls /\ returned # "nothing"

Init ==
  /\ input = Nothing
  /\ todo = <<>>
  /\ returned = "nothing"
  /\ pending = 0 /\ raised = 0
  /\ held = {}
  /\ items = <<>>
  /\ errors = <<>>
  /\ answer = Ok

(* The program calls an operation, which has checked its generations. *)
Begin(given, calls) ==
  /\ answer # Running
  /\ input' = given
  /\ todo' = calls
  /\ raised' = 0
  /\ items' = <<>>
  /\ errors' = <<>>
  /\ answer' = Running
  /\ UNCHANGED <<returned, pending, held>>

(* put_dict, cons_functor and get_arg look at their arguments before the first call. *)
ArgumentsDoNotFit ==
  /\ answer # Running
  /\ answer' = Mismatch
  /\ input' = Nothing /\ items' = <<>> /\ errors' = <<>> /\ raised' = 0
  /\ UNCHANGED <<todo, returned, pending, held>>

CollectList(list) == Begin(list, <<"skip_list">>)
DictEntries(dict) == Begin(dict, <<"is_dict", "for_dict">>)

----------------------------------------------------------------------------------
(* Prolog's side. *)

Raise == raised' = raised + 1 /\ pending' = raised + 1
Quietly == UNCHANGED <<pending, raised>>

(* References and new values come or raise; tests answer and never raise. *)
NeverRefused == {"new_ref", "copy_ref", "put", "end", "skip_list"}
NeverRaise == {"is_dict", "is_variable", "skip_list"}

Size == Len(input.cells)

(* The cell that a walk has come to; a cyclic spine always has one more. *)
AtCell == Len(items) < Size \/ (input.end = "cycle" /\ Size > 0)

Succeed ==
  /\ Call = "cell" => AtCell
  /\ returned' = "yes"
  /\ held' = IF Call = "open" THEN held \cup {"query"}
             ELSE IF Call \in {"external", "text"} THEN held \cup {"buffer"}
             ELSE held \ {IF Call = "end" THEN "query" ELSE "nothing"}
  /\ Quietly

(* A failure with nothing pending; PL_S_FALSE. *)
Refuse ==
  /\ Call \notin NeverRefused
  /\ Call = "cell" => ~AtCell
  /\ returned' = "no"
  /\ Quietly
  /\ UNCHANGED held

UnknownStatus ==
  /\ Call = "advance"
  /\ returned' = "unknown"
  /\ Quietly
  /\ UNCHANGED held

FailRaising ==
  /\ Call \notin NeverRaise
  /\ returned' = IF Call = "advance" THEN "unknown" ELSE "no"
  /\ held' = IF Call = "end" THEN held \ {"query"} ELSE held
  /\ Raise

CCall ==
  /\ Making(Calls \ {"for_dict", "copy_out", "copy_text"})
  /\ Succeed \/ Refuse \/ UnknownStatus \/ FailRaising
  /\ UNCHANGED <<input, todo, items, errors, answer>>

(* PL_for_dict calls collect_dict_entry for each entry until it returns non-zero.
   The callback notes what went wrong: an error of its own, or as Failed that a copy
   failed (resource_failed), whose exception it leaves pending. *)
Collected ==
  /\ input.cells[Len(items) + 1] # "unknown"
  /\ items' = Append(items, Len(items) + 1)
  /\ Quietly
  /\ UNCHANGED <<errors, returned>>

Malformed ==
  /\ input.cells[Len(items) + 1] = "unknown"
  /\ errors' = <<Mismatch>>
  /\ returned' = "no"
  /\ Quietly
  /\ UNCHANGED items

CopyFailed ==
  /\ input.cells[Len(items) + 1] # "unknown"
  /\ errors' = <<Failed>>
  /\ returned' = "no"
  /\ Raise
  /\ UNCHANGED items

CollectDictEntry ==
  /\ Making({"for_dict"}) /\ Len(items) < Size
  /\ Collected \/ Malformed \/ CopyFailed
  /\ UNCHANGED <<input, todo, held, answer>>

(* PL_for_dict ends by itself after the last entry only: assumed, see above. *)
IterationEnds ==
  /\ Making({"for_dict"}) /\ Len(items) = Size
  /\ returned' = "yes"
  /\ UNCHANGED <<input, todo, pending, raised, held, items, errors, answer>>

----------------------------------------------------------------------------------
(* The crate's side. *)

Return(result) ==
  /\ todo' = <<>>
  /\ answer' = result

Continue == IF Len(todo) = 1 THEN Return(Ok) ELSE todo' = Tail(todo) /\ UNCHANGED answer

(* take_pending_exception, or what the crate says if there is none. *)
Taken(otherwise) == IF pending # 0 THEN Exception(pending) ELSE otherwise
Clear == pending' = 0

(* check_put and check_get, pending_record_error, and the failures of handles, that
   dict_tag and the codec pass on. *)
Otherwise(call) ==
  CASE call \in {"put", "new_ref", "copy_ref"} -> Panic
    [] call \in {"get", "text", "cell", "is_dict"} -> Mismatch
    [] call = "unify" -> False
    [] OTHER -> Failed

Simple == {"put", "get", "unify", "new_ref", "copy_ref", "cell", "is_dict", "handle", "record",
           "recall", "external", "text"}

Proceed ==
  /\ Made(Simple) /\ returned = "yes"
  /\ Continue
  /\ items' = IF Call = "cell" THEN Append(items, (Len(items) % Size) + 1) ELSE items
  /\ UNCHANGED <<pending, errors, held>>

Fail ==
  /\ Made(Simple) /\ returned = "no"
  /\ Return(Taken(Otherwise(Call)))
  /\ Clear
  /\ UNCHANGED <<items, errors, held>>

(* Faulty variant: a partial list is taken for a list. *)
WalkablePartial(list) == list.end \in {"nil", "variable"}

Walkable(list) == list.end = "nil"

(* collect_list: only a proper list is walked, for as many cells as it has. *)
AfterSkipList ==
  /\ Made({"skip_list"})
  /\ IF Walkable(input)
     THEN /\ todo' = <<"copy_ref">> \o Times(Size, <<"new_ref", "new_ref", "cell">>)
          /\ UNCHANGED answer
     ELSE Return(NotAProperList)
  /\ UNCHANGED <<pending, items, errors, held>>

(* Faulty variant: the pending exception is not looked for. *)
AfterForDictUntaken ==
  /\ Made({"for_dict"})
  /\ Return(IF errors = <<>> THEN Ok ELSE errors[1])
  /\ UNCHANGED <<pending, items, errors, held>>

(* dict_entries takes the exception only now. *)
AfterForDict ==
  /\ Made({"for_dict"})
  /\ CASE errors = <<>> -> Return(Ok) /\ UNCHANGED pending
       [] errors = <<Failed>> -> Return(Taken(Panic)) /\ Clear
       [] OTHER -> Return(errors[1]) /\ UNCHANGED pending
  /\ UNCHANGED <<items, errors, held>>

(* The query of dict_tag.  The error of the advance is kept while the query is
   closed, which may raise again. *)
AfterOpen ==
  /\ Made({"open"})
  /\ IF returned = "yes" THEN Continue /\ UNCHANGED pending ELSE Return(Taken(Failed)) /\ Clear
  /\ UNCHANGED <<items, errors, held>>

AfterAdvance ==
  /\ Made({"advance"})
  /\ todo' = IF returned = "yes" THEN Tail(todo) ELSE <<"end">>
  /\ IF returned = "unknown"
     THEN errors' = <<Taken(Failed)>> /\ Clear
     ELSE UNCHANGED <<errors, pending>>
  /\ UNCHANGED <<items, held, answer>>

(* Faulty variant: the error of the operation, whatever it is. *)
DictQueryErrorFirst(failures) == failures[1]

(* dict_query_error: an exception of the operation, else one of the cleanup. *)
DictQueryError(failures) ==
  CASE IsException(failures[1]) -> failures[1]
    [] OTHER -> failures[Len(failures)]

AfterEnd ==
  /\ Made({"end"})
  /\ LET failures == IF returned = "yes" THEN errors ELSE Append(errors, Taken(Failed))
     IN  CASE failures # <<>> -> Return(DictQueryError(failures))
           [] OTHER -> IF Len(todo) = 1 THEN Return(Mismatch) ELSE Continue
  /\ Clear
  /\ UNCHANGED <<items, errors, held>>

AfterIsVariable ==
  /\ Made({"is_variable"})
  /\ IF returned = "yes" THEN Return(NoTag) ELSE Continue
  /\ UNCHANGED <<pending, items, errors, held>>

(* Faulty variant: without the guard, a panic keeps the buffer. *)
CopyOutUnguarded ==
  /\ Making({"copy_out"})
  /\ \/ Return(Ok) /\ held' = held \ {"buffer"}
     \/ Return(Panic) /\ UNCHANGED held
  /\ UNCHANGED <<pending, items, errors>>

(* The bytes of an external record are copied; ExternalRecordGuard erases them, also
   if the copy panics. *)
CopyOut ==
  /\ Making({"copy_out"})
  /\ Return(Ok) \/ Return(Panic)
  /\ held' = held \ {"buffer"}
  /\ UNCHANGED <<pending, items, errors>>

(* text_from_term copies the text and frees the C buffer; it needs no guard. *)
CopyText ==
  /\ Making({"copy_text"})
  /\ Return(Ok)
  /\ held' = held \ {"buffer"}
  /\ UNCHANGED <<pending, items, errors>>

CrateStep ==
  /\ Proceed \/ Fail \/ AfterSkipList \/ AfterForDict \/ AfterOpen \/ AfterAdvance \/ AfterEnd
     \/ AfterIsVariable \/ CopyOut \/ CopyText
  /\ returned' = "nothing"
  /\ UNCHANGED <<input, raised>>

----------------------------------------------------------------------------------

Next ==
  \/ \E calls \in Scripts : Begin(Nothing, calls)
  \/ \E n \in 0..MaxLen :
       \E calls \in {PutCompound(n), PutListTerms(n), PutDict(n), CompoundArgs(n)} :
         Begin(Nothing, calls)
  \/ ArgumentsDoNotFit
  \/ \E list \in Lists : CollectList(list)
  \/ \E dict \in Dicts : DictEntries(dict)
  \/ CCall
  \/ CollectDictEntry
  \/ IterationEnds
  \/ CrateStep

Spec == Init /\ [][Next]_vars

----------------------------------------------------------------------------------
(* The properties. *)

Done == answer # Running

(* A3, XR1: when an operation has returned, in whatever way, no exception is pending,
   no query of its own is open and no buffer left to Rust.  (Of dict_entries, as of
   every property here, this holds if PL_for_dict does not fail by itself.) *)
EngineLeftClean == Done => pending = 0 /\ held = {}

(* An exception is never flattened into another error, nor made up: the operation
   reports the first that was raised, also where closing the query raised a second,
   and only if one was raised during it. *)
FirstExceptionReported ==
  Done => IF raised > 0 THEN answer = Exception(1) ELSE ~IsException(answer)

(* collect_list and dict_entries return every item in order, or an error: no prefix of
   a list that is not proper, no more items than there are.  (Of dicts this rests on
   PL_for_dict not failing by itself.) *)
CollectedWhole ==
  /\ items = [i \in 1..Len(items) |-> i] /\ Len(items) <= Size
  /\ answer = Ok => Len(items) = Size /\ input.end \in {"nil", "dict", "none"}
===================================================================================
