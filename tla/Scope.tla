---------------------------------- MODULE Scope ----------------------------------
(***********************************************************************************)
(* The activation record of scope.rs: which engine activation is current on a     *)
(* thread (gen) and how many frame/query scopes are open within it (depth).  Each *)
(* operator is one function of scope.rs, as a test on the record (its asserts) or *)
(* as the record the function stores.                                             *)
(***********************************************************************************)
EXTENDS Integers

Activation == [gen : Nat, depth : Nat]

(* The state of a thread that has no engine attached through a guard. *)
Unmanaged == [gen |-> 0, depth |-> 0]

(* enter_engine: the record of a freshly minted generation. *)
Entered(gen) == [gen |-> gen, depth |-> 0]

(* assert_gen *)
SameGen(now, gen) == now.gen = gen

(* Faulty variant: an innermost check that compares generations only. *)
InnermostGenOnly(now, ctx) == now.gen = ctx.gen

(* assert_innermost, and the asserts of open_scope. *)
Innermost(now, ctx) == now.gen = ctx.gen /\ now.depth = ctx.depth

(* The record open_scope stores, and the activation of the opened scope. *)
Opened(now) == [gen |-> now.gen, depth |-> now.depth + 1]

(* Faulty variants: a close check without the depth, or without the generation. *)
ClosableAnyDepth(now, gen, depth) == now.gen = gen /\ now.depth > depth
ClosableAnyGen(now, gen, depth) == now.depth = depth + 1

(* The asserts of close_scope, and the test of try_close_scope. *)
Closable(now, gen, depth) == now.gen = gen /\ now.depth = depth + 1

(* Faulty variants: the depth of the scope below is stored; the closed scope stays
   counted. *)
ClosedTooFar(gen, depth) == [gen |-> gen, depth |-> depth - 1]
ClosedKeeping(gen, depth) == [gen |-> gen, depth |-> depth + 1]

(* The record close_scope and try_close_scope store. *)
Closed(gen, depth) == [gen |-> gen, depth |-> depth]
==================================================================================
