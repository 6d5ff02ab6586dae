------------------------------ MODULE ArgumentBlock ------------------------------
(***********************************************************************************)
(* A prepared predicate call (args.rs, codec_args.rs): an argument block is       *)
(* allocated and seeded from Rust values, Prolog binds what was left unbound once *)
(* per solution, and each solution is decoded into Rust values.                   *)
(*                                                                                 *)
(* How one argument is written and read is a parameter here (Argument::seed and   *)
(* Argument::decode), and so is what is asked of one argument; PreparedArgs gives *)
(* the conversions of Codec for them.                                             *)
(***********************************************************************************)
EXTENDS Results, Sequences

CONSTANTS
  Calls,             \* argument tuples: sequences of [kind, ty, out, val]
  Seeding(_),        \* the result of writing an argument to its term
  Decoding(_, _),    \* the result of reading an argument from a term
  AnswersTo(_),      \* the terms Prolog may bind an argument to that is unbound
  Restores(_, _),    \* whether a value is the one an input was written from
  Says(_, _, _),     \* whether a term says the value that an argument was read as
  Encodes(_, _)      \* whether a term encodes a value an argument may be read as

VARIABLES
  args,     \* the specification with its values: [kind, ty, out, val]
  seeds,    \* the argument block as prepared
  block,    \* the argument block at the current solution
  phase,
  outcome   \* of preparing or of decoding

argsVars == <<args, seeds, block, phase, outcome>>

Kinds == {"input", "input_as", "output", "term", "term_arg"}
Unbound == <<"var">>
Nothing == <<"none">>

(* What the block may hold for an argument that was seeded. *)
MayHold(a) == IF Seeding(a)[2] = Unbound THEN AnswersTo(a) ELSE {Seeding(a)[2]}

ASSUME CallsAssumption ==
  \A call \in Calls : /\ call \in Seq({call[i] : i \in DOMAIN call})
                      /\ \A i \in DOMAIN call : call[i].kind \in Kinds
ASSUME ConversionsAssumption ==
  \A call \in Calls : \A i \in DOMAIN call :
    /\ IsResult(Seeding(call[i]))
    /\ IsOk(Seeding(call[i])) => \A t \in MayHold(call[i]) : IsResult(Decoding(call[i], t))

----------------------------------------------------------------------------------
Init ==
  /\ args \in Calls
  /\ seeds = <<>> /\ block = <<>>
  /\ phase = "idle"
  /\ outcome = Nothing

Seeded == Collect([i \in DOMAIN args |-> Seeding(args[i])])
Decoded == Collect([i \in DOMAIN args |-> Decoding(args[i], block[i])])

(* FliContext::args, prepare_args: the block is allocated, then seeded in order. *)
PrepareArgsRegardless ==
  /\ phase = "idle"
  /\ seeds' = SelectSeq([i \in DOMAIN args |-> Seeding(args[i])], IsOk)
  /\ block' = seeds'
  /\ phase' = "prepared"
  /\ UNCHANGED <<args, outcome>>
Allocated(result) ==
  IF IsOk(result)
  THEN seeds' = result[2] /\ block' = result[2] /\ phase' = "prepared" /\ outcome' = Nothing
  ELSE UNCHANGED <<seeds, block>> /\ phase' = "refused" /\ outcome' = result
PrepareArgs ==
  /\ phase = "idle"
  /\ Allocated(Seeded) \/ Allocated(Fail(<<"Exception">>))
  /\ UNCHANGED args

(* A solution binds arguments that were unbound; another one replaces its bindings, *)
(* unless decoding the last one failed, which closes the query.                     *)
NextSolution ==
  /\ phase = "prepared" \/ (phase = "decoded" /\ IsOk(outcome))
  /\ LET unbound == {i \in DOMAIN args : seeds[i] = Unbound}
         bindings == UNION {{<<i, t>> : t \in AnswersTo(args[i])} : i \in unbound}
     IN \E bound \in {f \in [unbound -> bindings] : \A i \in unbound : f[i][1] = i} :
          block' = [i \in DOMAIN args |-> IF i \in unbound THEN bound[i][2] ELSE seeds[i]]
  /\ phase' = "solved"
  /\ outcome' = Nothing
  /\ UNCHANGED <<args, seeds>>

(* decode_args, for the solution in the block. *)
DecodeArgs ==
  /\ phase = "solved"
  /\ outcome' = Decoded
  /\ phase' = "decoded"
  /\ UNCHANGED <<args, seeds, block>>

Next == PrepareArgs \/ NextSolution \/ DecodeArgs
Spec == Init /\ [][Next]_argsVars

----------------------------------------------------------------------------------
(* Properties. *)

(* The block has one term per argument once it is prepared, and a decoded solution *)
(* one value per argument; before that there is neither.                           *)
PreparedTypeOK ==
  /\ \A i \in DOMAIN args : args[i].kind \in Kinds
  /\ phase \in {"idle", "prepared", "solved", "decoded", "refused"}
  /\ Len(seeds) = (IF phase \in {"idle", "refused"} THEN 0 ELSE Len(args))
  /\ Len(block) = Len(seeds)
  /\ (outcome = Nothing) = (phase \in {"idle", "prepared", "solved"})
  /\ outcome # Nothing /\ IsOk(outcome) => phase = "decoded" /\ Len(outcome[2]) = Len(args)

(* An input comes back from a call as the value it was, with skipped fields reset,  *)
(* unless the type itself leaves room for a confusion (args.rs seeds every position  *)
(* and decodes every position, Input<T> in both directions with one type).          *)
InputsComeBack ==
  phase = "decoded" /\ IsOk(outcome) =>
    \A i \in DOMAIN args : args[i].kind = "input" => Restores(args[i], outcome[2][i])

(* What an answer is read as is what it says: the value can be written again, and   *)
(* what is written agrees with the answer, fully if the answer is the encoding of   *)
(* a value.  No number is wrapped, no item or key dropped or misread, no argument   *)
(* taken from another functor or tag (the from_term of each type and decode_key in  *)
(* codec.rs, enum_from and struct_from in the derive macros).                       *)
AnswersAreRead ==
  phase = "decoded" /\ IsOk(outcome) =>
    \A i \in DOMAIN args : args[i].kind \in {"output", "input_as", "term_arg"} =>
      Says(args[i], block[i], outcome[2][i])

(* A solution is refused only over an answer that is not, up to the spellings Prolog *)
(* treats alike, the encoding of a value of the type asked for.                      *)
RefusalsAreJustified ==
  phase = "decoded" /\ ~IsOk(outcome) =>
    \E i \in DOMAIN args : args[i].kind # "term" /\ ~Encodes(args[i], block[i])

----------------------------------------------------------------------------------
(* What is asked of the conversions of one argument, whatever the others are.        *)

(* Written to a term and read from it, an input is the value it was. *)
InputsAloneComeBack ==
  \A call \in Calls : \A i \in DOMAIN call : call[i].kind = "input" =>
    \A t \in MayHold(call[i]) :
      IsOk(Seeding(call[i])) /\ IsOk(Decoding(call[i], t)) =>
        Restores(call[i], Decoding(call[i], t)[2])

(* An argument that may be read as another type than it was written is read as what *)
(* its term says.                                                                   *)
AnswersAloneAreRead ==
  \A call \in Calls : \A i \in DOMAIN call : call[i].kind \in {"output", "input_as", "term_arg"} =>
    \A t \in MayHold(call[i]) :
      IsOk(Seeding(call[i])) /\ IsOk(Decoding(call[i], t)) =>
        Says(call[i], t, Decoding(call[i], t)[2])

(* An argument is refused only over a term that does not encode a value of its type. *)
RefusalsAloneAreJustified ==
  \A call \in Calls : \A i \in DOMAIN call : \A t \in MayHold(call[i]) :
    IsOk(Seeding(call[i])) /\ ~IsOk(Decoding(call[i], t)) =>
      call[i].kind # "term" /\ ~Encodes(call[i], t)

==================================================================================
