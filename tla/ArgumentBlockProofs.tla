--------------------------- MODULE ArgumentBlockProofs ---------------------------
(***********************************************************************************)
(* Proofs about prepared calls, for any calls, answers and conversions: what       *)
(* holds of every argument alone holds of every position of every solution.        *)
(***********************************************************************************)
EXTENDS ArgumentBlock, WellFoundedInduction, TLAPS

(* A set of naturals has a least element. *)
LEMMA LeastOf ==
  ASSUME NEW S \in SUBSET Nat, S # {}
  PROVE  \E i \in S : \A j \in S : i <= j
<1>1. IsWellFoundedOn(OpToRel(<, Nat), Nat)
  BY NatLessThanWellFounded, Zenon
<1>2. PICK i \in S : \A j \in S : ~(<<j, i>> \in OpToRel(<, Nat))
  BY <1>1, WFMin, Zenon
<1>3. \A j \in S : i <= j
  <2>1. SUFFICES ASSUME NEW j \in S, j < i
                 PROVE  FALSE
    OBVIOUS
  <2>2. <<j, i>> \in OpToRel(<, Nat)
    BY <2>1, Zenon DEF OpToRel
  <2> QED
    BY <1>2, <2>2
<1> QED
  BY <1>3

----------------------------------------------------------------------------------
(* Results. *)

LEMMA OkOrFail ==
  ASSUME NEW x
  PROVE  /\ IsOk(Ok(x)) /\ Ok(x)[2] = x
         /\ ~IsOk(Fail(x)) /\ Fail(x)[2] = x
         /\ Ok(x) # Nothing /\ Fail(x) # Nothing
BY DEF IsOk, Ok, Fail, Nothing

LEMMA ResultIsSomething ==
  ASSUME NEW r, IsResult(r)
  PROVE  r # Nothing /\ (IsOk(r) => r = Ok(r[2])) /\ (~IsOk(r) => r = Fail(r[2]))
BY OkOrFail DEF IsResult

(* What `?` makes of a row of results: all the values in their places, or the first
   error. *)
LEMMA CollectInOrder ==
  ASSUME NEW n \in Nat, NEW rs, DOMAIN rs = 1 .. n
  PROVE  \/ /\ \A i \in 1 .. n : IsOk(rs[i])
            /\ Collect(rs) = Ok([i \in 1 .. n |-> rs[i][2]])
         \/ \E i \in 1 .. n : /\ ~IsOk(rs[i])
                              /\ \A j \in 1 .. i - 1 : IsOk(rs[j])
                              /\ Collect(rs) = rs[i]
<1>1. CASE \A i \in 1 .. n : IsOk(rs[i])
  BY <1>1, Zenon DEF Collect
<1>2. CASE \E i \in 1 .. n : ~IsOk(rs[i])
  <2> DEFINE First(i) == ~IsOk(rs[i]) /\ \A j \in 1 .. i - 1 : IsOk(rs[j])
             failed == {i \in 1 .. n : ~IsOk(rs[i])}
  <2>1. PICK i \in failed : \A j \in failed : i <= j
    <3>1. failed \in SUBSET Nat /\ failed # {}
      BY <1>2
    <3> QED
      BY <3>1, LeastOf
  <2>2. First(i)
    <3>1. SUFFICES ASSUME NEW j \in 1 .. i - 1, ~IsOk(rs[j])
                   PROVE  FALSE
      BY <2>1
    <3>2. j \in failed /\ j < i
      BY <2>1, <3>1
    <3> QED
      BY <2>1, <3>2
  <2>3. i \in 1 .. n
    BY <2>1
  <2> HIDE DEF First
  <2>4. PICK k \in 1 .. n : k = CHOOSE m \in 1 .. n : First(m)
    BY <2>2, <2>3, Zenon
  <2>5. First(k)
    BY <2>2, <2>3, <2>4, Zenon
  <2>6. Collect(rs) = rs[k]
    BY <1>2, <2>4, Zenon DEF Collect, First
  <2> QED
    BY <2>5, <2>6, Zenon DEF First
<1> QED
  BY <1>1, <1>2


----------------------------------------------------------------------------------
(* The inductive invariant: every position of the block holds what its own argument
   was seeded with, or an answer to it, and the outcome is the row of the positions'
   results. *)

Prepared == phase \in {"prepared", "solved", "decoded"}

SeedsInv ==
  /\ args \in Calls
  /\ phase \in {"idle", "prepared", "solved", "decoded", "refused"}
  /\ phase \in {"idle", "refused"} => seeds = <<>> /\ block = <<>>
  /\ Prepared => /\ \A i \in DOMAIN args : IsOk(Seeding(args[i]))
                 /\ seeds = [i \in DOMAIN args |-> Seeding(args[i])[2]]
BlockInv ==
  /\ phase = "prepared" => block = seeds
  /\ phase \in {"solved", "decoded"} =>
       /\ block = [i \in DOMAIN args |-> block[i]]
       /\ \A i \in DOMAIN args : block[i] \in MayHold(args[i])
OutcomeInv ==
  /\ phase \in {"idle", "prepared", "solved"} => outcome = Nothing
  /\ phase = "refused" => IsResult(outcome) /\ ~IsOk(outcome)
  /\ phase = "decoded" => outcome = Decoded
CallInv == SeedsInv /\ BlockInv /\ OutcomeInv

(* The positions of a call are 1 .. n. *)
LEMMA CallsAreSequences ==
  ASSUME NEW call \in Calls
  PROVE  \E n \in Nat : n = Len(call) /\ DOMAIN call = 1 .. n
<1>1. PICK S : S = {call[i] : i \in DOMAIN call}
  OBVIOUS
<1>2. call \in Seq(S)
  BY <1>1, CallsAssumption
<1>3. Len(call) \in Nat /\ DOMAIN call = 1 .. Len(call)
  BY <1>2
<1> QED
  BY <1>3

(* Every position is seeded with a result, and each of its terms is decoded to one. *)
LEMMA SeedsAreResults ==
  ASSUME NEW call \in Calls, NEW n \in Nat, DOMAIN call = 1 .. n
  PROVE  \A i \in 1 .. n : IsResult(Seeding(call[i]))
BY ConversionsAssumption, Zenon

LEMMA ReadingsAreResults ==
  ASSUME NEW call \in Calls, NEW i \in DOMAIN call, IsOk(Seeding(call[i])),
         NEW t \in MayHold(call[i])
  PROVE  IsResult(Decoding(call[i], t))
BY ConversionsAssumption, Zenon

(* What decoding a solution comes to. *)
LEMMA DecodedInOrder ==
  ASSUME SeedsInv, BlockInv, phase \in {"solved", "decoded"}
  PROVE  \/ /\ \A i \in DOMAIN args : IsOk(Decoding(args[i], block[i]))
            /\ Decoded = Ok([i \in DOMAIN args |-> Decoding(args[i], block[i])[2]])
         \/ \E i \in DOMAIN args : /\ ~IsOk(Decoding(args[i], block[i]))
                                   /\ \A j \in 1 .. i - 1 : IsOk(Decoding(args[j], block[j]))
                                   /\ Decoded = Decoding(args[i], block[i])
<1>1. PICK n \in Nat : n = Len(args) /\ DOMAIN args = 1 .. n
  BY CallsAreSequences DEF SeedsInv
<1>2. PICK rs : rs = [i \in 1 .. n |-> Decoding(args[i], block[i])]
  OBVIOUS
<1>3. DOMAIN rs = 1 .. n /\ Decoded = Collect(rs)
  BY <1>1, <1>2 DEF Decoded
<1>4. \A i \in 1 .. n : rs[i] = Decoding(args[i], block[i])
  BY <1>2
<1>5. CASE /\ \A i \in 1 .. n : IsOk(rs[i])
           /\ Collect(rs) = Ok([i \in 1 .. n |-> rs[i][2]])
  <2>1. [i \in 1 .. n |-> rs[i][2]] = [i \in DOMAIN args |-> Decoding(args[i], block[i])[2]]
    BY <1>1, <1>4
  <2> QED
    BY <1>1, <1>3, <1>4, <1>5, <2>1, ZenonT(30)
<1>6. CASE \E i \in 1 .. n : /\ ~IsOk(rs[i])
                             /\ \A j \in 1 .. i - 1 : IsOk(rs[j])
                             /\ Collect(rs) = rs[i]
  <2>1. PICK i \in 1 .. n : /\ ~IsOk(rs[i])
                            /\ \A j \in 1 .. i - 1 : IsOk(rs[j])
                            /\ Collect(rs) = rs[i]
    BY <1>6
  <2>2. \A j \in 1 .. i - 1 : j \in 1 .. n
    OBVIOUS
  <2>3. \A j \in 1 .. i - 1 : IsOk(Decoding(args[j], block[j]))
    BY <1>4, <2>1, <2>2, Zenon
  <2> QED
    BY <1>1, <1>3, <1>4, <2>1, <2>3, Zenon
<1> QED
  BY <1>3, <1>5, <1>6, CollectInOrder

(* Nothing is prepared at first. *)
LEMMA CallInit == Init => CallInv
BY DEF Init, CallInv, SeedsInv, BlockInv, OutcomeInv, Prepared

(* Seeding fills every position with its own argument's term, or refuses. *)
LEMMA PrepareKeeps ==
  ASSUME CallInv, PrepareArgs
  PROVE  CallInv'
<1>1. PICK n \in Nat : n = Len(args) /\ DOMAIN args = 1 .. n
  BY CallsAreSequences DEF CallInv, SeedsInv
<1>2. PICK rs : rs = [i \in 1 .. n |-> Seeding(args[i])]
  OBVIOUS
<1>3. DOMAIN rs = 1 .. n /\ Seeded = Collect(rs)
  BY <1>1, <1>2 DEF Seeded
<1>4. \A i \in 1 .. n : rs[i] = Seeding(args[i]) /\ IsResult(rs[i])
  BY <1>1, <1>2, SeedsAreResults DEF CallInv, SeedsInv
<1>5. /\ args \in Calls /\ seeds = <<>> /\ block = <<>> /\ args' = args
  BY DEF CallInv, SeedsInv, PrepareArgs
<1>6. ASSUME NEW result, Allocated(result), IsResult(result), ~IsOk(result)
      PROVE  CallInv'
  BY <1>5, <1>6 DEF Allocated, CallInv, SeedsInv, BlockInv, OutcomeInv, Prepared
<1>7. CASE Allocated(Fail(<<"Exception">>))
  <2>1. PICK e : e = Fail(<<"Exception">>)
    OBVIOUS
  <2>2. IsResult(e) /\ ~IsOk(e)
    BY <2>1, OkOrFail DEF IsResult
  <2> QED
    BY <1>6, <1>7, <2>1, <2>2
<1>8. CASE Allocated(Seeded) /\ ~IsOk(Seeded)
  <2>1. ASSUME Collect(rs) = Ok([i \in 1 .. n |-> rs[i][2]])
        PROVE  FALSE
    BY <1>3, <1>8, <2>1, OkOrFail, Zenon
  <2>2. \E i \in 1 .. n : Collect(rs) = rs[i]
    BY <1>3, <2>1, CollectInOrder, Zenon
  <2>3. IsResult(Seeded)
    BY <1>3, <1>4, <2>2, Zenon
  <2> QED
    BY <1>6, <1>8, <2>3
<1>9. CASE Allocated(Seeded) /\ IsOk(Seeded)
  <2>1. /\ \A i \in 1 .. n : IsOk(rs[i])
        /\ Seeded = Ok([i \in 1 .. n |-> rs[i][2]])
    BY <1>3, <1>9, CollectInOrder
  <2>2. Seeded[2] = [i \in 1 .. n |-> rs[i][2]]
    BY <2>1, OkOrFail, Zenon
  <2>3. seeds' = [i \in 1 .. n |-> rs[i][2]] /\ block' = seeds'
        /\ phase' = "prepared" /\ outcome' = Nothing
    BY <1>9, <2>2 DEF Allocated
  <2>4. seeds' = [i \in DOMAIN args |-> Seeding(args[i])[2]]
    BY <1>1, <1>4, <2>3
  <2>5. \A i \in DOMAIN args : IsOk(Seeding(args[i]))
    BY <1>1, <1>4, <2>1
  <2> QED
    BY <1>5, <2>3, <2>4, <2>5 DEF CallInv, SeedsInv, BlockInv, OutcomeInv, Prepared
<1> QED
  BY <1>7, <1>8, <1>9 DEF PrepareArgs

(* A solution gives unbound positions an answer and leaves the others. *)
LEMMA SolutionKeeps ==
  ASSUME CallInv, NextSolution
  PROVE  CallInv'
<1>1. /\ args \in Calls /\ Prepared
      /\ \A i \in DOMAIN args : IsOk(Seeding(args[i]))
      /\ seeds = [i \in DOMAIN args |-> Seeding(args[i])[2]]
  BY DEF CallInv, SeedsInv, NextSolution, Prepared
<1>2. UNCHANGED <<args, seeds>> /\ phase' = "solved" /\ outcome' = Nothing
  BY DEF NextSolution
<1> DEFINE Open == {i \in DOMAIN args : seeds[i] = Unbound}
           Pairs == UNION {{<<i, t>> : t \in AnswersTo(args[i])} : i \in Open}
           Choices(U, B) == {f \in [U -> B] : \A i \in U : f[i][1] = i}
           Filled(U, f) == [i \in DOMAIN args |-> IF i \in U THEN f[i][2] ELSE seeds[i]]
<1>3. \E f \in Choices(Open, Pairs) : block' = Filled(Open, f)
  BY Zenon DEF NextSolution
<1> HIDE DEF Open, Pairs
<1>4. PICK unbound, bindings : unbound = Open /\ bindings = Pairs
  OBVIOUS
<1>5. PICK bound \in Choices(unbound, bindings) : block' = Filled(unbound, bound)
  BY <1>3, <1>4
<1>6. \A i \in unbound : bound[i][2] \in AnswersTo(args[i])
  <2>1. TAKE i \in unbound
  <2>2. bound[i] \in bindings /\ bound[i][1] = i
    BY <1>5
  <2>3. PICK j \in unbound : \E t \in AnswersTo(args[j]) : bound[i] = <<j, t>>
    <3>1. bindings = UNION {{<<j, t>> : t \in AnswersTo(args[j])} : j \in unbound}
      BY <1>4 DEF Pairs
    <3> QED
      BY <2>2, <3>1, Zenon
  <2>4. PICK t \in AnswersTo(args[j]) : bound[i] = <<j, t>>
    BY <2>3
  <2> QED
    BY <2>2, <2>4
<1>7. \A i \in DOMAIN args : block'[i] \in MayHold(args[i])
  <2>1. TAKE i \in DOMAIN args
  <2>2. CASE i \in unbound
    BY <1>1, <1>4, <1>5, <1>6, <2>2 DEF Open, MayHold
  <2>3. CASE i \notin unbound
    BY <1>1, <1>4, <1>5, <2>3 DEF Open, MayHold
  <2> QED
    BY <2>2, <2>3
<1>8. block' = [i \in DOMAIN args |-> block'[i]]
  BY <1>5
<1>9. SeedsInv'
  BY <1>1, <1>2 DEF SeedsInv, Prepared
<1>10. BlockInv' /\ OutcomeInv'
  BY <1>2, <1>7, <1>8 DEF BlockInv, OutcomeInv
<1> QED
  BY <1>9, <1>10 DEF CallInv

(* Decoding reads the block and leaves it. *)
LEMMA DecodeKeeps ==
  ASSUME CallInv, DecodeArgs
  PROVE  CallInv'
<1>1. Decoded' = Decoded
  BY DEF DecodeArgs, Decoded
<1> QED
  BY <1>1 DEF DecodeArgs, CallInv, SeedsInv, BlockInv, OutcomeInv, Prepared

THEOREM CallCorrect == Spec => []CallInv
<1>1. CallInv /\ [Next]_argsVars => CallInv'
  <2> SUFFICES ASSUME CallInv, [Next]_argsVars
               PROVE  CallInv'
    OBVIOUS
  <2>1. CASE UNCHANGED argsVars
    <3>1. Decoded' = Decoded
      BY <2>1 DEF argsVars, Decoded
    <3> QED
      BY <2>1, <3>1 DEF argsVars, CallInv, SeedsInv, BlockInv, OutcomeInv, Prepared
  <2> QED
    BY <2>1, PrepareKeeps, SolutionKeeps, DecodeKeeps DEF Next
<1> QED
  BY <1>1, CallInit, PTL DEF Spec

----------------------------------------------------------------------------------
(* What a call comes to. *)

(* Once a call is decoded, its outcome is that of the positions read one by one: all
   their values in order, or the error of the first that cannot be read (the `?` of
   ArgsSpec::decode), each read from the term that its own argument was seeded with
   or that answered it. *)
OutcomeByPosition ==
  phase = "decoded" =>
    /\ \A i \in DOMAIN args : IsOk(Seeding(args[i])) /\ block[i] \in MayHold(args[i])
    /\ \/ /\ \A i \in DOMAIN args : IsOk(Decoding(args[i], block[i]))
          /\ outcome = Ok([i \in DOMAIN args |-> Decoding(args[i], block[i])[2]])
       \/ \E i \in DOMAIN args : /\ ~IsOk(Decoding(args[i], block[i]))
                                 /\ \A j \in 1 .. i - 1 : IsOk(Decoding(args[j], block[j]))
                                 /\ outcome = Decoding(args[i], block[i])

LEMMA ByPosition == CallInv => OutcomeByPosition
<1> SUFFICES ASSUME CallInv, phase = "decoded"
             PROVE  OutcomeByPosition
  BY DEF OutcomeByPosition
<1>1. outcome = Decoded
  BY DEF CallInv, OutcomeInv
<1>2. \A i \in DOMAIN args : IsOk(Seeding(args[i])) /\ block[i] \in MayHold(args[i])
  BY DEF CallInv, SeedsInv, BlockInv, Prepared
<1> QED
  BY <1>1, <1>2, DecodedInOrder, Zenon DEF OutcomeByPosition, CallInv

(* A call that was decoded has the value of each position, or the error of one. *)
LEMMA DecodedValues ==
  ASSUME CallInv, phase = "decoded", IsOk(outcome)
  PROVE  /\ \A i \in DOMAIN args : /\ args \in Calls
                                   /\ IsOk(Seeding(args[i])) /\ block[i] \in MayHold(args[i])
                                   /\ IsOk(Decoding(args[i], block[i]))
                                   /\ outcome[2][i] = Decoding(args[i], block[i])[2]
         /\ outcome[2] = [i \in DOMAIN args |-> Decoding(args[i], block[i])[2]]
<1>1. OutcomeByPosition /\ args \in Calls
  BY ByPosition DEF CallInv, SeedsInv
<1>2. /\ \A i \in DOMAIN args : IsOk(Decoding(args[i], block[i]))
      /\ outcome = Ok([i \in DOMAIN args |-> Decoding(args[i], block[i])[2]])
  BY <1>1, Zenon DEF OutcomeByPosition
<1>3. outcome[2] = [i \in DOMAIN args |-> Decoding(args[i], block[i])[2]]
  BY <1>2, OkOrFail, Zenon
<1>4. \A i \in DOMAIN args : outcome[2][i] = Decoding(args[i], block[i])[2]
  BY <1>3
<1> QED
  BY <1>1, <1>2, <1>3, <1>4, Zenon DEF OutcomeByPosition

LEMMA DecodedError ==
  ASSUME CallInv, phase = "decoded", ~IsOk(outcome)
  PROVE  \E i \in DOMAIN args : /\ args \in Calls
                                /\ IsOk(Seeding(args[i])) /\ block[i] \in MayHold(args[i])
                                /\ ~IsOk(Decoding(args[i], block[i]))
                                /\ outcome = Decoding(args[i], block[i])
<1>1. OutcomeByPosition /\ args \in Calls
  BY ByPosition DEF CallInv, SeedsInv
<1>2. outcome # Ok([i \in DOMAIN args |-> Decoding(args[i], block[i])[2]])
  BY OkOrFail, Zenon
<1> QED
  BY <1>1, <1>2, Zenon DEF OutcomeByPosition

(* The outcome of every solution is that of its positions, read in order and each from
   its own term (args.rs: terms.get($index) in seed and in decode). *)
THEOREM CallsArePositional == Spec => []OutcomeByPosition
  BY ByPosition, CallCorrect, PTL

(* A block has a term per argument exactly when the call was prepared, and a solution
   has a value per argument: prepare_args never leaves a block half seeded. *)
THEOREM PreparedCallsAreWellFormed == Spec => []PreparedTypeOK
<1>1. CallInv => PreparedTypeOK
  <2> SUFFICES ASSUME CallInv
               PROVE  PreparedTypeOK
    OBVIOUS
  <2>1. PICK n \in Nat : n = Len(args) /\ DOMAIN args = 1 .. n
    BY CallsAreSequences DEF CallInv, SeedsInv
  <2>2. \A i \in DOMAIN args : args[i].kind \in Kinds
    BY CallsAssumption DEF CallInv, SeedsInv
  <2>3. Prepared => Len(seeds) = n /\ Len(block) = n
    <3>1. SUFFICES ASSUME Prepared
                   PROVE  Len(seeds) = n /\ Len(block) = n
      OBVIOUS
    <3>2. seeds = [i \in 1 .. n |-> Seeding(args[i])[2]]
      BY <2>1, <3>1 DEF CallInv, SeedsInv
    <3>3. block = seeds \/ block = [i \in 1 .. n |-> block[i]]
      BY <2>1, <3>1 DEF CallInv, BlockInv, Prepared
    <3>4. Len(seeds) = n
      BY <3>2
    <3>5. ASSUME block = [i \in 1 .. n |-> block[i]]
          PROVE  Len(block) = n
      BY <3>5
    <3> QED
      BY <3>3, <3>4, <3>5
  <2>4. /\ phase \in {"idle", "prepared", "solved", "decoded", "refused"}
        /\ phase \in {"idle", "refused"} => Len(seeds) = 0 /\ Len(block) = 0
    BY DEF CallInv, SeedsInv
  <2>5. phase \in {"idle", "prepared", "solved"} => outcome = Nothing
    BY DEF CallInv, OutcomeInv
  <2>6. phase = "refused" => outcome # Nothing /\ ~IsOk(outcome)
    BY ResultIsSomething DEF CallInv, OutcomeInv
  <2>7. phase = "decoded" => /\ outcome # Nothing
                             /\ IsOk(outcome) => Len(outcome[2]) = n
    <3>1. SUFFICES ASSUME phase = "decoded"
                   PROVE  outcome # Nothing /\ (IsOk(outcome) => Len(outcome[2]) = n)
      OBVIOUS
    <3>2. CASE IsOk(outcome)
      <4>1. outcome[2] = [i \in 1 .. n |-> Decoding(args[i], block[i])[2]]
        BY <2>1, <3>1, <3>2, DecodedValues
      <4>2. Len(outcome[2]) = n
        BY <4>1
      <4>3. outcome # Nothing
        BY <3>2 DEF IsOk, Nothing
      <4> QED
        BY <4>2, <4>3
    <3>3. CASE ~IsOk(outcome)
      <4>1. IsResult(outcome)
        BY <3>1, <3>3, DecodedError, ReadingsAreResults
      <4> QED
        BY <3>3, <4>1, ResultIsSomething
    <3> QED
      BY <3>2, <3>3
  <2> QED
    BY <2>1, <2>2, <2>3, <2>4, <2>5, <2>6, <2>7 DEF PreparedTypeOK, Prepared
<1> QED
  BY <1>1, CallCorrect, PTL

(* If every input comes back from its own term, every input of every call does,
   whatever the other arguments are bound to. *)
THEOREM InputsSurviveCalls ==
  ASSUME InputsAloneComeBack
  PROVE  Spec => []InputsComeBack
<1>1. CallInv => InputsComeBack
  BY DecodedValues DEF InputsAloneComeBack, InputsComeBack
<1> QED
  BY <1>1, CallCorrect, PTL

(* If what each argument is read as is what its term says, so it is in every position
   of every solution. *)
THEOREM AnswersAreReadInCalls ==
  ASSUME AnswersAloneAreRead
  PROVE  Spec => []AnswersAreRead
<1>1. CallInv => AnswersAreRead
  BY DecodedValues DEF AnswersAloneAreRead, AnswersAreRead
<1> QED
  BY <1>1, CallCorrect, PTL

(* If no argument is refused over an encoding of its own type, a solution is refused
   only over a position that holds no such encoding. *)
THEOREM RefusalsAreJustifiedInCalls ==
  ASSUME RefusalsAloneAreJustified
  PROVE  Spec => []RefusalsAreJustified
<1>1. CallInv => RefusalsAreJustified
  BY DecodedError DEF RefusalsAloneAreJustified, RefusalsAreJustified
<1> QED
  BY <1>1, CallCorrect, PTL
==================================================================================
