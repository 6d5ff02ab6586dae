------------------------------ MODULE ForeignScopes ------------------------------
(***********************************************************************************)
(* Frames, queries and term references (term.rs, query.rs) on top of the attach   *)
(* layer.  Each engine has a C-side stack of open scopes; the Rust side holds     *)
(* handles that know the generation and depth they were opened at.  Handles are   *)
(* closed, dropped, leaked, rewound and advanced in any order the borrow checker  *)
(* admits, engines are switched in between, and CurrentEngine witnesses alias     *)
(* scopes without borrowing them.                                                 *)
(*                                                                                 *)
(* An operation whose check fails panics before it has changed anything and is a  *)
(* stuttering step, except that a handle it consumes is lost: its scope stays     *)
(* open on the C side and its depth stays registered.  Bindings and what Prolog   *)
(* answers are the business of ScopedCalls.                                      *)
(***********************************************************************************)
EXTENDS Attachment

CONSTANTS
  ScopeIds,   \* frames and queries ever opened (a bound; identities are not reused)
  TermIds     \* term references held at once (a bound)

ASSUME ScopesAssumption == None \notin ScopeIds

VARIABLES
  cstack,  \* C side: the scopes open on each engine, outermost first
  scope,   \* the Frame and Query values
  term     \* the Term and TermList values a program can still use

scopeVars == <<cstack, scope, term>>
vars == <<attachVars, scopeVars>>

----------------------------------------------------------------------------------
(* Handles and the contexts they are made through. *)

(* An FliContext as a borrow: the guard of a generation, a scope, or a witness
   (which borrows nothing but the Runtime). *)
Lender == [by : {"guard", "scope", "witness"}, id : Nat \cup ScopeIds]

Handle == [status : {"unopened", "open", "lost", "ended"}, kind : {"frame", "query"},
           thread : Threads, engine : Slots, gen : Nat, depth : Nat, lender : Lender]

Reference == [live : BOOLEAN, valid : BOOLEAN, thread : Threads, engine : Slots,
              gen : Nat, lender : Lender, home : ScopeIds \cup {None}]

NoLender == [by |-> "witness", id |-> 0]

NoHandle(status) ==
  [status |-> status, kind |-> "frame", thread |-> MainThread, engine |-> None,
   gen |-> 0, depth |-> 0, lender |-> NoLender]

NoReference ==
  [live |-> FALSE, valid |-> FALSE, thread |-> MainThread, engine |-> None,
   gen |-> 0, lender |-> NoLender, home |-> None]

ScopesTypeOK ==
  /\ TypeOK
  /\ cstack \in [Engines \cup Threads -> Seq(ScopeIds)]
  /\ scope \in [ScopeIds -> Handle]
  /\ term \in [TermIds -> Reference]

(* Activation of a Frame or Query as a context: one deeper than it was opened at. *)
ScopeActivation(s) == Opened([gen |-> scope[s].gen, depth |-> scope[s].depth])

GuardLender(g) == [by |-> "guard", id |-> g.gen]
ScopeLender(s) == [by |-> "scope", id |-> s]

(* The implementors of FliContext within reach of thread t. *)
Contexts(t) ==
  {[lender |-> GuardLender(guards[t][i]), act |-> Entered(guards[t][i].gen)]
     : i \in 1..Len(guards[t])}
  \cup {[lender |-> ScopeLender(s), act |-> ScopeActivation(s)]
     : s \in {r \in ScopeIds : scope[r].status = "open" /\ scope[r].thread = t}}
  \cup {[lender |-> NoLender, act |-> w.act] : w \in {v \in witnesses : v.thread = t}}

(* A scope value that is alive, so that its lender can be neither moved nor `&mut`. *)
Lends(lender) == \E s \in ScopeIds : scope[s].status = "open" /\ scope[s].lender = lender

----------------------------------------------------------------------------------
(* The C side of a scope. *)

Position(stack, s) ==
  IF \E i \in 1..Len(stack) : stack[i] = s THEN CHOOSE i \in 1..Len(stack) : stack[i] = s ELSE 0

(* What closing s leaves of a stack, and what backtracking to s leaves.  Neither
   call checks that s is on top, or there at all. *)
Below(stack, s) == SubSeq(stack, 1, Position(stack, s) - 1)
Upto(stack, s) == SubSeq(stack, 1, Position(stack, s))

Members(stack) == {stack[i] : i \in 1..Len(stack)}

(* The references a lender lent, which Rust will not let a program use again. *)
Lent(lender) == {x \in TermIds : term[x].live /\ term[x].lender = lender}

(* The references freed when an engine keeps only these of its scopes intact. *)
Freed(e, kept) ==
  {x \in TermIds : term[x].live /\ term[x].engine = e /\ term[x].home \notin kept \cup {None}}

Sweep(dead, freed) ==
  term' = [x \in TermIds |->
             IF x \in dead THEN NoReference
             ELSE [term[x] EXCEPT !.valid = @ /\ x \notin freed]]

----------------------------------------------------------------------------------
(* The attach layer, with what it means for handles. *)

ScopesInit ==
  /\ Init
  /\ cstack = [e \in Engines \cup Threads |-> <<>>]
  /\ scope = [s \in ScopeIds |-> NoHandle("unopened")]
  /\ term = [x \in TermIds |-> NoReference]

AttachLayer(t) ==
  /\ \/ \E e \in Engines : EngineNew(t, e) \/ Attach(t, e) \/ AttachWithin(t, e)
     \/ \E u \in Threads, e \in Engines : EngineSend(t, u, e)
     \/ CurrentEngine(t)
     \/ RuntimeEngine(t)
  /\ UNCHANGED scopeVars

(* A guard is dropped once its callback, and all that borrowed it, is gone. *)
LentGuardDrop(t) ==
  LET lender == GuardLender(Top(guards[t])) IN
  /\ GuardDrop(t)
  /\ ~Lends(lender)
  /\ Sweep(Lent(lender), {})
  /\ UNCHANGED <<cstack, scope>>

EngineEnd(t, e) ==
  /\ EngineDrop(t, e)
  /\ IF phase'[e] = "destroyed"
     THEN cstack' = [cstack EXCEPT ![e] = <<>>] /\ Sweep({}, {x \in TermIds : term[x].engine = e})
     ELSE UNCHANGED <<cstack, term>>
  /\ UNCHANGED scope

----------------------------------------------------------------------------------
(* Scopes. *)

Open(t, s, kind) ==
  /\ scope[s].status = "unopened"
  /\ \E c \in Contexts(t) :
       /\ Innermost(activation[t], c.act)
       /\ scope' = [scope EXCEPT ![s] =
            [status |-> "open", kind |-> kind, thread |-> t, engine |-> slot[t],
             gen |-> c.act.gen, depth |-> activation[t].depth, lender |-> c.lender]]
  /\ activation' = [activation EXCEPT ![t] = Opened(@)]
  /\ cstack' = [cstack EXCEPT ![slot[t]] = Append(@, s)]
  /\ UNCHANGED <<phase, holder, slot, guards, genMint, witnesses, term>>

FrameOpen(t, s) == Open(t, s, "frame")
QueryOpen(t, s) == Open(t, s, "query")

(* Thread t may call a method of s that takes it by value or by `&mut`. *)
Exclusive(t, s, kind) ==
  /\ scope[s].status = "open"
  /\ scope[s].thread = t
  /\ scope[s].kind = kind
  /\ ~Lends(ScopeLender(s))

(* close, discard, cut, and drop: out of order, the handle is lost (with a panic,
   or silently if the thread is unwinding already). *)
End(t, s) ==
  IF Closable(activation[t], scope[s].gen, scope[s].depth)
  THEN LET kept == Below(cstack[slot[t]], s) IN
       /\ activation' = [activation EXCEPT ![t] = Closed(scope[s].gen, scope[s].depth)]
       /\ cstack' = [cstack EXCEPT ![slot[t]] = kept]
       /\ scope' = [scope EXCEPT ![s] = NoHandle("ended")]
       /\ Sweep(Lent(ScopeLender(s)), Freed(slot[t], Members(kept)))
  ELSE /\ scope' = [scope EXCEPT ![s].status = "lost"]
       /\ Sweep(Lent(ScopeLender(s)), {})
       /\ UNCHANGED <<activation, cstack>>

FrameEnd(t, s) ==
  /\ Exclusive(t, s, "frame")
  /\ End(t, s)
  /\ UNCHANGED <<phase, holder, slot, guards, genMint, witnesses>>

QueryEnd(t, s) ==
  /\ Exclusive(t, s, "query")
  /\ End(t, s)
  /\ UNCHANGED <<phase, holder, slot, guards, genMint, witnesses>>

(* mem::forget of a Frame, or of a Solutions iterator and the Query in it. *)
Forget(t, s) ==
  /\ \E kind \in {"frame", "query"} : Exclusive(t, s, kind)
  /\ scope' = [scope EXCEPT ![s].status = "lost"]
  /\ Sweep(Lent(ScopeLender(s)), {})
  /\ UNCHANGED <<attachVars, cstack>>

(* Undo what happened inside s, keeping it open: the references made in it go. *)
Backtrack(t, s) ==
  LET e == slot[t] IN
  /\ Innermost(activation[t], ScopeActivation(s))
  /\ cstack' = [cstack EXCEPT ![e] = Upto(@, s)]
  /\ Sweep(Lent(ScopeLender(s)), Freed(e, Members(Below(cstack[e], s))))
  /\ UNCHANGED <<attachVars, scope>>

Rewind(t, s) == Exclusive(t, s, "frame") /\ Backtrack(t, s)

(* A query already known to be exhausted answers without calling Prolog. *)
NextSolution(t, s) == Exclusive(t, s, "query") /\ Backtrack(t, s)

(* PL_new_term_ref allocates in the scope on top of the attached engine's stack,
   whichever context the caller named. *)
NewTerm(t, x) ==
  LET stack == cstack[slot[t]] IN
  /\ ~term[x].live
  /\ \E c \in Contexts(t) :
       /\ Innermost(activation[t], c.act)
       /\ term' = [term EXCEPT ![x] =
            [live |-> TRUE, valid |-> TRUE, thread |-> t, engine |-> slot[t],
             gen |-> c.act.gen, lender |-> c.lender,
             home |-> IF stack = <<>> THEN None ELSE Top(stack)]]
  /\ UNCHANGED <<attachVars, cstack, scope>>

ScopeStep(t, s) ==
  \/ FrameOpen(t, s)
  \/ QueryOpen(t, s)
  \/ FrameEnd(t, s)
  \/ QueryEnd(t, s)
  \/ Forget(t, s)
  \/ Rewind(t, s)
  \/ NextSolution(t, s)

ScopesNext ==
  \/ \E t \in Threads : AttachLayer(t) \/ LentGuardDrop(t)
  \/ \E t \in Threads, e \in Engines : EngineEnd(t, e)
  \/ \E t \in Threads, s \in ScopeIds : ScopeStep(t, s)
  \/ \E t \in Threads, x \in TermIds : NewTerm(t, x)

ScopesSpec == ScopesInit /\ [][ScopesNext]_vars

----------------------------------------------------------------------------------
(* The properties. *)

(* C2: whenever a handle would pass the close check, the C scope on top of the
   attached engine's stack is the very one it was opened as -- after leaks,
   escapes past a guard, nested attachments and aliasing witnesses. *)
CloseHitsTop ==
  \A s \in ScopeIds :
    LET h == scope[s]
        stack == cstack[slot[h.thread]] IN
    h.status = "open" /\ Closable(activation[h.thread], h.gen, h.depth)
      => slot[h.thread] = h.engine /\ stack # <<>> /\ Top(stack) = s

(* C2: a reference allocated through a frame, query or guard lands in that very
   scope (for a guard: in none opened under it), so it lives as long as its type
   says. *)
AllocationLandsInContext ==
  \A t \in Threads : \A c \in Contexts(t) :
    Innermost(activation[t], c.act) =>
      LET stack == cstack[slot[t]] IN
      /\ c.lender.by = "scope" => stack # <<>> /\ Top(stack) = c.lender.id
      /\ c.lender.by = "guard" /\ stack # <<>> => scope[Top(stack)].gen # c.lender.id

(* The scopes opened under a context of thread t that the record still counts: open
   ones, and those leaked or lost to a failed close. *)
Within(t, act) ==
  {s \in ScopeIds : /\ scope[s].status \in {"open", "lost"}
                    /\ scope[s].thread = t /\ scope[s].gen = act.gen /\ scope[s].depth >= act.depth}

(* C2 and "Leaking values": a guard, frame or query of the attached generation is
   refused, as a context and at its close, exactly while a scope opened under it is
   not closed.  What was leaked blocks everything outside it for good; whoever
   closes what it opened is never refused. *)
RefusedIffScopesRemain ==
  /\ \A t \in Threads : \A c \in Contexts(t) :
       c.lender.by # "witness" /\ SameGen(activation[t], c.act.gen) =>
         (Innermost(activation[t], c.act) <=> Within(t, c.act) = {})
  /\ \A s \in ScopeIds :
       LET h == scope[s] IN
       h.status = "open" /\ SameGen(activation[h.thread], h.gen) =>
         (Closable(activation[h.thread], h.gen, h.depth)
            <=> Within(h.thread, ScopeActivation(s)) = {})

(* C3: a reference that passes its generation check is an index into the stacks of
   the engine now attached to its thread. *)
UsableReferencesAreOnTheirEngine ==
  \A x \in TermIds :
    term[x].live /\ SameGen(activation[term[x].thread], term[x].gen)
      => slot[term[x].thread] = term[x].engine

(* F1, F4, Q1 for what a guard, frame or query lent: a reference a program can
   still use was not freed by a close, a rewind or a backtrack in the meantime. *)
BorrowedReferencesAreLive ==
  \A x \in TermIds :
    term[x].live /\ term[x].lender.by # "witness"
      /\ SameGen(activation[term[x].thread], term[x].gen) => term[x].valid

(* F1 as documented, for every Term whatever context it was made through. *)
UsableReferencesAreLive ==
  \A x \in TermIds :
    term[x].live /\ SameGen(activation[term[x].thread], term[x].gen) => term[x].valid

(* C2: the calls the crate makes respect what SWI-Prolog demands of its callers. *)
Contract == INSTANCE FliContract WITH attached <- slot, open <- cstack

MeetsFliContract == Contract!Spec
==================================================================================
