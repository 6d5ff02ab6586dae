-------------------------- MODULE ForeignScopesProofs --------------------------
(***********************************************************************************)
(* What ForeignScopes checks for a few scopes and references, for any number of   *)
(* threads, engines, scopes and references.                                       *)
(*                                                                                 *)
(* The attachments of a thread are levels: level 0 is its persistent engine, and  *)
(* level i is what its i-th guard attached.  Each level has an engine and an       *)
(* activation record, the ones below the top being kept in the next guard.  The    *)
(* invariant places every scope whose level still exists on the stack of the       *)
(* level's engine, counted from the top by its depth.                              *)
(***********************************************************************************)
EXTENDS ForeignScopes, AttachmentProofs

Levels(t) == 0..Len(guards[t])
EngineAt(t, i) == IF i = 0 THEN Base(t) ELSE guards[t][i].engine
GenAt(t, i) == IF i = 0 THEN 0 ELSE guards[t][i].gen
DepthAt(t, i) == IF i = Len(guards[t]) THEN activation[t].depth ELSE guards[t][i + 1].saved.depth

(* A generation is alive on the thread of one of its levels. *)
AliveGen(t, gen) == \E i \in Levels(t) : GenAt(t, i) = gen

(* A handle that was opened and not ended: its scope is registered in its record. *)
Registered(s) == scope[s].status \in {"open", "lost"}

(* Scopes and references know the engine of their generation, as witnesses do. *)
KnowsEngine(thread, engine, gen) ==
  /\ gen < genMint
  /\ gen = 0 => engine = thread /\ Base(thread) = thread
  /\ \A t \in Threads : \A i \in 1..Len(guards[t]) :
       gen = guards[t][i].gen => thread = t /\ engine = guards[t][i].engine

(* Where a stack holds the scope of depth d, if `depth` scopes are registered. *)
PlaceOf(stack, depth, d) == Len(stack) - depth + d + 1

Placed(s) ==
  \A i \in Levels(scope[s].thread) :
    LET stack == cstack[scope[s].engine]
        depth == DepthAt(scope[s].thread, i) IN
    GenAt(scope[s].thread, i) = scope[s].gen =>
      /\ scope[s].depth < depth
      /\ PlaceOf(stack, depth, scope[s].depth) \in 1..Len(stack)
      /\ stack[PlaceOf(stack, depth, scope[s].depth)] = s

ScopesInOrder ==
  \A s \in ScopeIds : Registered(s) =>
    KnowsEngine(scope[s].thread, scope[s].engine, scope[s].gen) /\ Placed(s)

(* A stack holds registered scopes of its engine, each once. *)
Repeats(stack) == \E i, j \in 1..Len(stack) : stack[i] = stack[j] /\ i # j

StacksHoldScopes ==
  \A e \in Engines \cup Threads :
    /\ ~Repeats(cstack[e])
    /\ \A s \in Members(cstack[e]) : Registered(s) /\ scope[s].engine = e

(* What a guard lent lives as long as the guard, and below everything opened in its
   generation; what a scope lent lives in that scope. *)
LentByGuard(x) ==
  /\ \E i \in 1..Len(guards[term[x].thread]) : guards[term[x].thread][i].gen = term[x].gen
  /\ term[x].lender.id = term[x].gen
  /\ term[x].home # None =>
       /\ term[x].home \in Members(cstack[term[x].engine])
       /\ scope[term[x].home].gen # term[x].gen

LentByScope(x) ==
  LET s == term[x].lender.id IN
  /\ s \in ScopeIds /\ scope[s].status = "open"
  /\ scope[s].gen = term[x].gen /\ scope[s].thread = term[x].thread
  /\ term[x].home = s

TermsInOrder ==
  \A x \in TermIds : term[x].live =>
    /\ KnowsEngine(term[x].thread, term[x].engine, term[x].gen)
    /\ term[x].lender.by = "guard" => LentByGuard(x)
    /\ term[x].lender.by = "scope" => LentByScope(x)
    /\ term[x].lender.by # "witness" /\ AliveGen(term[x].thread, term[x].gen) => term[x].valid

ScopesInv == IInv /\ ScopesTypeOK /\ ScopesInOrder /\ StacksHoldScopes /\ TermsInOrder

----------------------------------------------------------------------------------
(* Levels. *)

(* The top level is what the slot and the record show; the others have engines and
   generations of their own. *)
LEMMA LevelFacts ==
  ASSUME IInv, NEW t \in Threads
  PROVE  /\ Len(guards[t]) \in Nat
         /\ EngineAt(t, Len(guards[t])) = slot[t]
         /\ GenAt(t, Len(guards[t])) = activation[t].gen
         /\ DepthAt(t, Len(guards[t])) = activation[t].depth
         /\ Base(t) \in {None, t}
         /\ activation[t] \in Activation
         /\ \A i \in Levels(t) :
              /\ GenAt(t, i) \in Nat
              /\ DepthAt(t, i) \in Nat
              /\ i # 0 => i \in 1..Len(guards[t]) /\ GenAt(t, i) # 0 /\ EngineAt(t, i) \in Engines
<1>n. PICK n \in Nat : n = Len(guards[t])
  BY GuardTypes DEF IInv
<1>1. /\ TypeOK /\ Chain
      /\ activation[t] \in Activation
      /\ guards[t] # <<>> => n \in 1..n
      /\ guards[t] = <<>> => n = 0
      /\ \A i \in 1..n :
           /\ guards[t][i].engine \in Engines
           /\ guards[t][i].gen \in Nat \ {0}
           /\ guards[t][i].saved \in Activation
  <2>1. \A i \in 1..n : guards[t][i].gen \in 1..(genMint - 1) /\ genMint \in Nat
    BY <1>n DEF IInv, Chain, Linked, TypeOK
  <2>2. \A i \in 1..n : guards[t][i].gen \in Nat \ {0}
    BY <2>1
  <2>. QED
    BY <1>n, <2>2, GuardTypes DEF IInv, TypeOK
<1>2. Current(t) /\ \A i \in 1..n : Linked(t, i)
  BY <1>1, <1>n DEF Chain
<1>3. Base(t) \in {None, t}
  <2>1. CASE guards[t] = <<>>
    BY <1>2, <2>1 DEF Current, Base
  <2>2. CASE guards[t] # <<>>
    BY <1>1, <1>2, <2>2 DEF Linked, Base
  <2>. QED
    BY <2>1, <2>2
<1>4. EngineAt(t, n) = slot[t] /\ GenAt(t, n) = activation[t].gen
  <2>1. CASE guards[t] = <<>>
    BY <1>1, <1>2, <2>1 DEF Current, EngineAt, GenAt, Base
  <2>2. CASE guards[t] # <<>>
    BY <1>1, <1>2, <1>n, <2>2 DEF Current, EngineAt, GenAt, Top
  <2>. QED
    BY <2>1, <2>2
<1>5. ASSUME NEW i \in 0..n
      PROVE  /\ GenAt(t, i) \in Nat
             /\ DepthAt(t, i) \in Nat
             /\ i # 0 => i \in 1..n /\ GenAt(t, i) # 0 /\ EngineAt(t, i) \in Engines
  <2>1. i # 0 => i \in 1..n
    OBVIOUS
  <2>2. i # n => i + 1 \in 1..n
    OBVIOUS
  <2>. QED
    BY <1>1, <1>n, <2>1, <2>2 DEF GenAt, DepthAt, EngineAt, Activation
<1>. QED
  BY <1>1, <1>3, <1>4, <1>5, <1>n DEF Levels, DepthAt

(* No engine is at two levels, and no generation at two levels of a thread. *)
LEMMA LevelsDistinct ==
  ASSUME IInv, NEW t \in Threads, NEW u \in Threads, NEW i \in Levels(t), NEW j \in Levels(u)
  PROVE  /\ EngineAt(t, i) = EngineAt(u, j) /\ EngineAt(t, i) # None => t = u /\ i = j
         /\ t = u /\ GenAt(t, i) = GenAt(u, j) => i = j
<1>1. /\ i # 0 => i \in 1..Len(guards[t]) /\ GenAt(t, i) # 0 /\ EngineAt(t, i) \in Engines
      /\ j # 0 => j \in 1..Len(guards[u]) /\ GenAt(u, j) # 0 /\ EngineAt(u, j) \in Engines
      /\ i = 0 => EngineAt(t, i) \in {None, t} /\ GenAt(t, i) = 0
      /\ j = 0 => EngineAt(u, j) \in {None, u} /\ GenAt(u, j) = 0
  BY LevelFacts DEF EngineAt, GenAt
<1>2. CASE i # 0 /\ j # 0
  BY <1>1, <1>2 DEF IInv, Distinct, EngineAt, GenAt
<1>3. CASE i = 0 \/ j = 0
  BY <1>1, <1>3, AttachmentAssumption
<1>. QED
  BY <1>2, <1>3

(* A value that knows its engine finds it at the level of its generation, and that
   is the engine attached to t only at the top level of t. *)
LEMMA KnownLevel ==
  ASSUME IInv, NEW th \in Threads, NEW e, NEW gen, KnowsEngine(th, e, gen),
         NEW i \in Levels(th), GenAt(th, i) = gen, NEW t \in Threads
  PROVE  /\ e = EngineAt(th, i)
         /\ e \in Engines \cup Threads
         /\ e \in Engines => Borrowed(e)
         /\ e = slot[t] <=> th = t /\ i = Len(guards[t])
<1>1. e = EngineAt(th, i)
  <2>1. CASE i = 0
    BY <2>1 DEF KnowsEngine, EngineAt, GenAt
  <2>2. CASE i # 0
    BY <2>2, LevelFacts DEF KnowsEngine, EngineAt, GenAt
  <2>. QED
    BY <2>1, <2>2
<1>2. e \in Engines \cup Threads
  <2>1. CASE i = 0
    BY <2>1 DEF KnowsEngine, GenAt
  <2>2. CASE i # 0
    BY <1>1, <2>2, LevelFacts
  <2>. QED
    BY <2>1, <2>2
<1>3. e \in Engines => Borrowed(e)
  <2> SUFFICES ASSUME e \in Engines PROVE Borrowed(e)
    OBVIOUS
  <2>1. i # 0
    BY <1>1, LevelFacts, AttachmentAssumption DEF EngineAt
  <2>2. i \in 1..Len(guards[th])
    BY <2>1, LevelFacts
  <2>. QED
    BY <1>1, <2>1, <2>2 DEF Borrowed, EngineAt
<1>4. e = slot[t] <=> th = t /\ i = Len(guards[t])
  <2>1. Len(guards[t]) \in Levels(t) /\ EngineAt(t, Len(guards[t])) = slot[t]
    BY LevelFacts DEF Levels
  <2>2. e # None
    BY <1>2, AttachmentAssumption
  <2>. QED
    BY <1>1, <2>1, <2>2, LevelsDistinct
<1>. QED
  BY <1>1, <1>2, <1>3, <1>4

(* What is made on a thread that has an engine knows that engine. *)
LEMMA CurrentKnows ==
  ASSUME IInv, NEW t \in Threads, slot[t] # None
  PROVE  KnowsEngine(t, slot[t], activation[t].gen)
<1>1. CASE guards[t] = <<>>
  <2>1. slot[t] = t /\ activation[t].gen = 0 /\ Base(t) = t
    BY <1>1 DEF IInv, Chain, Current, Base
  <2>2. \A u \in Threads : \A i \in 1..Len(guards[u]) : guards[u][i].gen # 0
    BY DEF IInv, Chain, Linked, TypeOK
  <2>. QED
    BY <2>1, <2>2 DEF KnowsEngine, IInv, TypeOK
<1>2. CASE guards[t] # <<>>
  <2>1. PICK n \in 1..Len(guards[t]) :
          activation[t].gen = guards[t][n].gen /\ slot[t] = guards[t][n].engine
    BY <1>2, GuardTypes DEF IInv, Chain, Current, Top
  <2>2. guards[t][n].gen \in 1..(genMint - 1) /\ genMint \in Nat
    BY DEF IInv, Chain, Linked, TypeOK
  <2>. QED
    BY <2>1, <2>2 DEF KnowsEngine, IInv, Distinct
<1>. QED
  BY <1>1, <1>2

(* A change of depth only, as opening and closing scopes makes, keeps the chain. *)
LEMMA DepthKeepsIInv ==
  ASSUME IInv, NEW t \in Threads, NEW d \in Nat,
         activation' = [activation EXCEPT ![t] = [gen |-> activation[t].gen, depth |-> d]],
         UNCHANGED <<phase, holder, slot, guards, genMint, witnesses>>
  PROVE  IInv'
<1>1. TypeOK' /\ \A u \in Threads : activation'[u].gen = activation[u].gen
  BY DEF IInv, TypeOK, Activation
<1>2. Chain'
  <2>1. ASSUME NEW u \in Threads PROVE Current(u)'
    BY <1>1 DEF IInv, Chain, Current
  <2>2. ASSUME NEW u \in Threads, NEW i \in 1..Len(guards'[u]) PROVE Linked(u, i)'
    BY DEF IInv, Chain, Linked
  <2>. QED
    BY <2>1, <2>2 DEF Chain
<1>3. Distinct'
  BY DEF IInv, Distinct
<1>4. \A w \in witnesses' : Attributed(w)'
  BY DEF IInv, Attributed, Base
<1>. QED
  BY <1>1, <1>2, <1>3, <1>4 DEF IInv

----------------------------------------------------------------------------------
(* The C-side stacks. *)

(* Closing or backtracking to the scope on top affects that scope only. *)
LEMMA TopGoes ==
  ASSUME NEW S, NEW stack \in Seq(S), stack # <<>>, ~Repeats(stack)
  PROVE  /\ Below(stack, Top(stack)) = Pop(stack)
         /\ Upto(stack, Top(stack)) = stack
<1>1. PICK n \in Nat \ {0} : n = Len(stack)
  BY PopStack
<1>2. Position(stack, Top(stack)) = n
  <2>1. \A i \in 1..n : stack[i] = stack[n] <=> i = n
    BY <1>1 DEF Repeats
  <2>2. n \in 1..n
    OBVIOUS
  <2>. QED
    BY <1>1, <2>1, <2>2 DEF Position, Top
<1>3. SubSeq(stack, 1, n) = stack
  BY <1>1, SubSeqFull
<1>. QED
  BY <1>1, <1>2, <1>3 DEF Below, Upto, Pop

(* The members of a stack, and of what is under its top. *)
LEMMA UnderTop ==
  ASSUME NEW S, NEW stack \in Seq(S), stack # <<>>, ~Repeats(stack)
  PROVE  /\ Top(stack) \notin Members(Pop(stack))
         /\ Members(stack) = Members(Pop(stack)) \cup {Top(stack)}
         /\ ~Repeats(Pop(stack))
<1>1. PICK n \in Nat \ {0} : n = Len(stack)
  BY PopStack
<1>2. /\ Len(Pop(stack)) = n - 1
      /\ \A i \in 1..(n - 1) : Pop(stack)[i] = stack[i]
  BY <1>1, PopStack
<1>3. \A i \in 1..n : i \in 1..(n - 1) \/ i = n
  OBVIOUS
<1>4. \A i \in 1..(n - 1) : i \in 1..n /\ i # n
  OBVIOUS
<1>5. n \in 1..n
  OBVIOUS
<1>6. \A i, j \in 1..n : stack[i] = stack[j] => i = j
  BY <1>1 DEF Repeats
<1>7. Top(stack) \notin Members(Pop(stack))
  BY <1>1, <1>2, <1>4, <1>5, <1>6 DEF Members, Top
<1>8. Members(stack) = Members(Pop(stack)) \cup {Top(stack)}
  BY <1>1, <1>2, <1>3, <1>4, <1>5 DEF Members, Top
<1>9. ~Repeats(Pop(stack))
  BY <1>2, <1>4, <1>6 DEF Repeats
<1>. QED
  BY <1>7, <1>8, <1>9

(* The members of a stack one scope higher. *)
LEMMA OneMore ==
  ASSUME NEW S, NEW stack \in Seq(S), NEW s \in S, ~Repeats(stack), s \notin Members(stack)
  PROVE  /\ Members(Append(stack, s)) = Members(stack) \cup {s}
         /\ ~Repeats(Append(stack, s))
<1>1. PICK n \in Nat : n = Len(stack)
  BY LenProperties
<1>2. /\ Len(Append(stack, s)) = n + 1
      /\ \A i \in 1..n : Append(stack, s)[i] = stack[i]
      /\ Append(stack, s)[n + 1] = s
  BY <1>1, AppendProperties
<1>3. \A i \in 1..(n + 1) : i \in 1..n \/ i = n + 1
  OBVIOUS
<1>4. \A i \in 1..n : i \in 1..(n + 1) /\ i # n + 1
  OBVIOUS
<1>5. n + 1 \in 1..(n + 1)
  OBVIOUS
<1>. QED
  BY <1>1, <1>2, <1>3, <1>4, <1>5 DEF Members, Repeats

(* The stacks and the values of a state in order, with their types. *)
LEMMA ScopeTypes ==
  ASSUME ScopesInv
  PROVE  /\ \A e \in Engines \cup Threads : cstack[e] \in Seq(ScopeIds) /\ ~Repeats(cstack[e])
         /\ \A e \in Engines \cup Threads : Members(cstack[e]) \subseteq ScopeIds
         /\ \A s \in ScopeIds :
              /\ scope[s] \in Handle /\ scope[s].thread \in Threads /\ scope[s].depth \in Nat
              /\ scope[s].gen \in Nat /\ scope[s].lender \in Lender
         /\ \A x \in TermIds :
              /\ term[x] \in Reference /\ term[x].thread \in Threads /\ term[x].gen \in Nat
              /\ term[x].lender \in Lender /\ term[x].home \in ScopeIds \cup {None}
<1>1. \A e \in Engines \cup Threads : cstack[e] \in Seq(ScopeIds) /\ ~Repeats(cstack[e])
  BY DEF ScopesInv, ScopesTypeOK, StacksHoldScopes
<1>2. \A e \in Engines \cup Threads : Members(cstack[e]) \subseteq ScopeIds
  <2> SUFFICES ASSUME NEW e \in Engines \cup Threads, NEW i \in 1..Len(cstack[e])
               PROVE  cstack[e][i] \in ScopeIds
    BY DEF Members
  <2>. QED
    BY <1>1, ElementOfSeq
<1>3. \A s \in ScopeIds : scope[s] \in Handle
  BY DEF ScopesInv, ScopesTypeOK
<1>4. \A x \in TermIds : term[x] \in Reference
  BY DEF ScopesInv, ScopesTypeOK
<1>. QED
  BY <1>1, <1>2, <1>3, <1>4 DEF Handle, Reference

(* A registered scope whose level exists is on the stack of the level's engine. *)
LEMMA PlacedOnStack ==
  ASSUME ScopesInv, NEW s \in ScopeIds, Registered(s),
         NEW i \in Levels(scope[s].thread), GenAt(scope[s].thread, i) = scope[s].gen
  PROVE  /\ scope[s].engine = EngineAt(scope[s].thread, i)
         /\ scope[s].engine \in Engines \cup Threads
         /\ s \in Members(cstack[scope[s].engine])
<1>1. KnowsEngine(scope[s].thread, scope[s].engine, scope[s].gen) /\ Placed(s) /\ IInv
  BY DEF ScopesInv, ScopesInOrder
<1>2. scope[s].engine = EngineAt(scope[s].thread, i) /\ scope[s].engine \in Engines \cup Threads
  BY <1>1, ScopeTypes, KnownLevel
<1>. QED
  BY <1>1, <1>2 DEF Placed, Members

(* C2: a registered scope that passes the close check is on top of the stack of the
   attached engine. *)
LEMMA ClosableIsTop ==
  ASSUME ScopesInv, NEW s \in ScopeIds, Registered(s),
         NEW t \in Threads, scope[s].thread = t,
         Closable(activation[t], scope[s].gen, scope[s].depth)
  PROVE  /\ slot[t] = scope[s].engine
         /\ slot[t] \in Engines \cup Threads
         /\ cstack[slot[t]] # <<>>
         /\ Top(cstack[slot[t]]) = s
<1>1. PICK i : i = Len(guards[t])
  OBVIOUS
<1>2. IInv /\ ScopesInOrder
  BY DEF ScopesInv
<1>3. /\ i \in Levels(t) /\ GenAt(t, i) = scope[s].gen /\ EngineAt(t, i) = slot[t]
      /\ DepthAt(t, i) = scope[s].depth + 1 /\ scope[s].depth \in Nat
  BY <1>1, <1>2, LevelFacts, ScopeTypes DEF Levels, Closable
<1>4. slot[t] = scope[s].engine /\ slot[t] \in Engines \cup Threads
  BY <1>3, PlacedOnStack
<1>5. PICK stack \in Seq(ScopeIds) : stack = cstack[slot[t]]
  BY <1>4, ScopeTypes
<1>6. PICK p : p = PlaceOf(stack, DepthAt(t, i), scope[s].depth)
  OBVIOUS
<1>7. p \in 1..Len(stack) /\ stack[p] = s
  BY ZenonT(30), <1>2, <1>3, <1>4, <1>5, <1>6 DEF ScopesInOrder, Placed
<1>8. p = Len(stack)
  BY <1>3, <1>6, LenProperties DEF PlaceOf
<1>9. stack # <<>>
  BY <1>7, <1>8, EmptySeq
<1>. QED
  BY <1>4, <1>5, <1>7, <1>8, <1>9 DEF Top

(* A context that passes its checks was made on the attached engine: there is one. *)
LEMMA ContextIsAttached ==
  ASSUME ScopesInv, NEW t \in Threads, NEW c \in Contexts(t), Innermost(activation[t], c.act)
  PROVE  /\ slot[t] \in Engines \cup Threads
         /\ KnowsEngine(t, slot[t], c.act.gen)
         /\ c.act.gen = activation[t].gen
         /\ c.act.depth = activation[t].depth
         /\ c.lender \in Lender
<1>1. IInv /\ ScopesInOrder /\ c.act.gen = activation[t].gen /\ c.act.depth = activation[t].depth
  BY DEF ScopesInv, Innermost
<1>2. \/ \E i \in 1..Len(guards[t]) :
           c.lender = GuardLender(guards[t][i]) /\ c.act.gen = guards[t][i].gen
      \/ \E s \in ScopeIds :
           /\ scope[s].status = "open" /\ scope[s].thread = t
           /\ c.lender = ScopeLender(s) /\ c.act.gen = scope[s].gen
      \/ \E w \in witnesses : w.thread = t /\ c.lender = NoLender /\ c.act = w.act
  BY DEF Contexts, Entered, ScopeActivation, Opened
<1>3. c.lender \in Lender
  <2>1. /\ \A i \in 1..Len(guards[t]) : guards[t][i].gen \in Nat
        /\ 0 \in Nat
    BY <1>1, GuardTypes DEF IInv
  <2>2. \A i \in 1..Len(guards[t]) : GuardLender(guards[t][i]) \in Lender
    BY <2>1 DEF Lender, GuardLender
  <2>3. \A s \in ScopeIds : ScopeLender(s) \in Lender
    BY DEF Lender, ScopeLender
  <2>4. NoLender \in Lender
    BY <2>1 DEF Lender, NoLender
  <2>. QED
    BY <1>2, <2>2, <2>3, <2>4
<1>4. c.act.gen = 0 => slot[t] = t
  <2> SUFFICES ASSUME c.act.gen = 0 PROVE slot[t] = t
    OBVIOUS
  <2>1. guards[t] = <<>>
    BY <1>1, GuardTypes, LevelFacts DEF Levels, IInv
  <2>2. Base(t) = slot[t]
    BY <2>1 DEF Base
  <2>3. \A i \in 1..Len(guards[t]) : FALSE
    BY <2>1
  <2>4. CASE \E s \in ScopeIds : /\ scope[s].status = "open" /\ scope[s].thread = t
                                 /\ c.act.gen = scope[s].gen
    BY <1>1, <2>2, <2>4 DEF ScopesInOrder, Registered, KnowsEngine
  <2>5. CASE \E w \in witnesses : w.thread = t /\ c.act = w.act
    BY <1>1, <2>2, <2>5 DEF IInv, Attributed
  <2>. QED
    BY <1>2, <2>3, <2>4, <2>5
<1>5. c.act.gen # 0 => slot[t] \in Engines
  <2>1. PICK i : i = Len(guards[t])
    OBVIOUS
  <2>2. i \in Levels(t) /\ GenAt(t, i) = c.act.gen /\ EngineAt(t, i) = slot[t]
    BY <1>1, <2>1, LevelFacts DEF Levels
  <2>3. i = 0 => GenAt(t, i) = 0
    BY DEF GenAt
  <2>. QED
    BY <1>1, <2>2, <2>3, LevelFacts
<1>6. slot[t] \in Engines \cup Threads
  BY <1>4, <1>5
<1>7. slot[t] # None
  BY <1>6, AttachmentAssumption
<1>. QED
  BY <1>1, <1>3, <1>6, <1>7, CurrentKnows

----------------------------------------------------------------------------------
(* What the steps of the attach layer leave alone. *)

(* Whatever knew its engine still does. *)
KnowledgeStays ==
  \A th \in Threads : \A e \in Slots : \A gen \in Nat :
    KnowsEngine(th, e, gen) => KnowsEngine(th, e, gen)'

(* The levels of generations minted before the step are levels they were. *)
LevelsStay ==
  \A th \in Threads : \A i \in Levels(th)' :
    GenAt(th, i)' < genMint =>
      i \in Levels(th) /\ GenAt(th, i) = GenAt(th, i)' /\ DepthAt(th, i) = DepthAt(th, i)'

(* No generation minted before the step comes back to life. *)
GenerationsStay ==
  \A th \in Threads : \A gen \in Nat :
    gen < genMint /\ AliveGen(th, gen)' => AliveGen(th, gen)

LEMMA LevelsKeepGenerations ==
  ASSUME LevelsStay
  PROVE  GenerationsStay
  BY DEF LevelsStay, GenerationsStay, AliveGen

(* A step that leaves guards and records alone, and the engine of level 0 if there
   is one. *)
LEMMA LevelsUntouched ==
  ASSUME UNCHANGED <<activation, guards, genMint>>,
         \A t \in Threads : Base(t) # None => Base(t)' = Base(t)
  PROVE  KnowledgeStays /\ LevelsStay
<1>1. LevelsStay
  BY DEF LevelsStay, Levels, GenAt, DepthAt
<1>2. ASSUME NEW th \in Threads, NEW e \in Slots, NEW gen \in Nat, KnowsEngine(th, e, gen)
      PROVE  KnowsEngine(th, e, gen)'
  <2>1. gen = 0 => Base(th)' = th
    BY <1>2, AttachmentAssumption DEF KnowsEngine
  <2>. QED
    BY <1>2, <2>1 DEF KnowsEngine
<1>. QED
  BY <1>1, <1>2 DEF KnowledgeStays

(* Attaching adds a level of a fresh generation and keeps the record in its guard. *)
LEMMA LevelPushed ==
  ASSUME TypeOK, NEW t \in Threads, NEW e \in Engines, AttachUnchecked(t, e)
  PROVE  /\ KnowledgeStays /\ LevelsStay
         /\ \A u \in Threads : \A i \in 1..Len(guards[u]) :
              i \in 1..Len(guards'[u]) /\ guards'[u][i] = guards[u][i]
<1>n. PICK n \in Nat : n = Len(guards[t])
  BY GuardTypes
<1>g. PICK g : g = [engine |-> e, gen |-> genMint, previous |-> slot[t],
                    saved |-> activation[t]]
  OBVIOUS
<1>1. /\ genMint \in Nat \ {0} /\ genMint' = genMint + 1
      /\ activation' = [activation EXCEPT ![t] = Entered(genMint)]
      /\ activation'[t].gen = genMint
      /\ g.engine = e /\ g.gen = genMint /\ g.previous = slot[t] /\ g.saved = activation[t]
  BY <1>g DEF AttachUnchecked, EnterEngine, Entered, TypeOK
<1>2. guards' = [guards EXCEPT ![t] = Append(guards[t], g)] /\ g \in Guard
  <2>1. guards' = [guards EXCEPT ![t] = Append(guards[t], g)]
    BY <1>1, <1>g DEF AttachUnchecked
  <2>2. g \in Guard
    BY <1>g DEF Guard, TypeOK, Slots
  <2>. QED
    BY <2>1, <2>2
<1>3. /\ Len(guards'[t]) = n + 1 /\ guards'[t] # <<>> /\ guards'[t][n + 1] = g
      /\ \A i \in 1..n : guards'[t][i] = guards[t][i]
      /\ \A u \in Threads \ {t} : guards'[u] = guards[u]
  <2>1. guards[t] \in Seq(Guard) /\ guards'[t] = Append(guards[t], g)
    BY <1>2 DEF TypeOK
  <2>2. \A u \in Threads \ {t} : guards'[u] = guards[u]
    BY <1>2 DEF TypeOK
  <2>. QED
    BY <1>2, <1>n, <2>1, <2>2, PushStack DEF Top
<1>4. \A u \in Threads \ {t} : activation'[u] = activation[u] /\ slot'[u] = slot[u]
  BY <1>1 DEF TypeOK, AttachUnchecked
<1>5. \A u \in Threads : Base(u)' = Base(u)
  <2>1. \A u \in Threads \ {t} : Base(u)' = Base(u)
    BY <1>3, <1>4 DEF Base
  <2>2. CASE guards[t] = <<>>
    <3>1. n = 0
      BY <1>n, <2>2, GuardTypes
    <3>2. Base(t)' = slot[t]
      BY <1>1, <1>3, <3>1 DEF Base
    <3>. QED
      BY <2>1, <2>2, <3>2 DEF Base
  <2>3. CASE guards[t] # <<>>
    <3>1. 1 \in 1..n
      BY <1>n, <2>3, GuardTypes
    <3>. QED
      BY <1>3, <2>1, <2>3, <3>1 DEF Base
  <2>. QED
    BY <2>2, <2>3
<1>6. \A u \in Threads : \A i \in 1..Len(guards'[u]) :
        \/ i \in 1..Len(guards[u]) /\ guards'[u][i] = guards[u][i]
        \/ guards'[u][i].gen = genMint
  BY <1>1, <1>3, <1>n
<1>7. KnowledgeStays
  <2> SUFFICES ASSUME NEW th \in Threads, NEW f \in Slots, NEW gen \in Nat,
                      KnowsEngine(th, f, gen)
               PROVE  KnowsEngine(th, f, gen)'
    BY DEF KnowledgeStays
  <2>1. gen < genMint'
    BY <1>1 DEF KnowsEngine
  <2>2. gen = 0 => f = th /\ Base(th)' = th
    BY <1>5 DEF KnowsEngine
  <2>3. ASSUME NEW u \in Threads, NEW i \in 1..Len(guards'[u]), gen = guards'[u][i].gen
        PROVE  th = u /\ f = guards'[u][i].engine
    <3>1. gen # genMint
      BY <1>1 DEF KnowsEngine
    <3>2. i \in 1..Len(guards[u]) /\ guards'[u][i] = guards[u][i]
      BY <1>6, <2>3, <3>1
    <3>. QED
      BY <2>3, <3>2 DEF KnowsEngine
  <2>. QED
    BY <2>1, <2>2, <2>3 DEF KnowsEngine
<1>8. LevelsStay
  <2> SUFFICES ASSUME NEW th \in Threads, NEW i \in Levels(th)', GenAt(th, i)' < genMint
               PROVE  /\ i \in Levels(th) /\ GenAt(th, i) = GenAt(th, i)'
                      /\ DepthAt(th, i) = DepthAt(th, i)'
    BY DEF LevelsStay
  <2>1. CASE th # t
    BY <1>3, <1>4, <2>1 DEF Levels, GenAt, DepthAt
  <2>2. CASE th = t
    <3>1. i \in 0..(n + 1)
      BY <1>3, <2>2 DEF Levels
    <3>2. i # n + 1
      BY <1>1, <1>3, <2>2 DEF GenAt
    <3>3. i \in 0..n /\ (i # 0 => i \in 1..n) /\ (i # n => i + 1 \in 1..n)
      BY <3>1, <3>2
    <3>4. i \in Levels(t) /\ GenAt(t, i) = GenAt(t, i)'
      BY <1>3, <1>n, <3>3 DEF Levels, GenAt
    <3>5. Len(guards'[t]) # i
      BY <1>3, <3>3
    <3>6. DepthAt(t, i)' = guards'[t][i + 1].saved.depth
      BY <3>5 DEF DepthAt
    <3>7. CASE i = n
      <4>1. DepthAt(t, i) = activation[t].depth
        BY <1>n, <3>7 DEF DepthAt
      <4>2. guards'[t][i + 1] = g
        BY <1>3, <3>7
      <4>. QED
        BY <1>1, <2>2, <3>4, <3>6, <4>1, <4>2
    <3>8. CASE i # n
      <4>1. DepthAt(t, i) = guards[t][i + 1].saved.depth
        BY <1>n, <3>8 DEF DepthAt
      <4>2. guards'[t][i + 1] = guards[t][i + 1]
        BY <1>3, <3>3, <3>8
      <4>. QED
        BY <2>2, <3>4, <3>6, <4>1, <4>2
    <3>. QED
      BY <3>7, <3>8
  <2>. QED
    BY <2>1, <2>2
<1>9. \A u \in Threads : \A i \in 1..Len(guards[u]) :
        i \in 1..Len(guards'[u]) /\ guards'[u][i] = guards[u][i]
  BY <1>3, <1>n
<1>. QED
  BY <1>7, <1>8, <1>9

(* Dropping a guard removes the top level and brings back the record below it. *)
LEMMA LevelPopped ==
  ASSUME IInv, NEW t \in Threads, GuardDrop(t)
  PROVE  /\ KnowledgeStays /\ LevelsStay
         /\ slot' = [slot EXCEPT ![t] = Top(guards[t]).previous]
         /\ \A u \in Threads : \A i \in 1..Len(guards[u]) :
              \/ i \in 1..Len(guards'[u]) /\ guards'[u][i] = guards[u][i]
              \/ u = t /\ guards[u][i] = Top(guards[t])
<1>0. TypeOK /\ Chain /\ guards[t] \in Seq(Guard) /\ guards[t] # <<>>
  BY DEF IInv, TypeOK, GuardDrop
<1>1. PICK n \in Nat \ {0} : n = Len(guards[t])
  BY <1>0, PopStack
<1>2. PICK g \in Guard : g = guards[t][n]
  BY <1>0, <1>1, PopStack DEF Top
<1>3. /\ n \in 1..Len(guards[t]) /\ Top(guards[t]) = g /\ Linked(t, n)
      /\ activation[t].gen = g.gen /\ Settable(t, g.previous)
  BY <1>0, <1>1, <1>2, PreviousIsSettable DEF Chain, Current, Top
<1>4. /\ guards' = [guards EXCEPT ![t] = Pop(guards[t])]
      /\ slot' = [slot EXCEPT ![t] = g.previous]
      /\ activation' = [activation EXCEPT ![t] = g.saved]
      /\ UNCHANGED <<phase, holder, genMint, witnesses>>
  BY <1>3 DEF GuardDrop
<1>5. /\ Len(guards'[t]) = n - 1
      /\ \A i \in 1..(n - 1) : guards'[t][i] = guards[t][i]
      /\ guards'[t] = <<>> <=> n = 1
      /\ \A u \in Threads \ {t} : guards'[u] = guards[u]
  <2>1. guards'[t] = Pop(guards[t])
    BY <1>0, <1>4 DEF TypeOK
  <2>2. \A u \in Threads \ {t} : guards'[u] = guards[u]
    BY <1>0, <1>4 DEF TypeOK
  <2>. QED
    BY <1>0, <1>1, <2>1, <2>2, PopStack
<1>6. /\ slot'[t] = g.previous /\ activation'[t] = g.saved
      /\ \A u \in Threads \ {t} : activation'[u] = activation[u] /\ slot'[u] = slot[u]
  BY <1>0, <1>4 DEF TypeOK
<1>7. \A u \in Threads : \A i \in 1..Len(guards'[u]) :
        i \in 1..Len(guards[u]) /\ guards'[u][i] = guards[u][i]
  BY <1>1, <1>5
<1>8. \A u \in Threads : Base(u)' = Base(u)
  <2>1. \A u \in Threads \ {t} : Base(u)' = Base(u)
    BY <1>5, <1>6 DEF Base
  <2>2. CASE n = 1
    BY <1>0, <1>2, <1>5, <1>6, <2>1, <2>2 DEF Base
  <2>3. CASE n > 1
    <3>1. 1 \in 1..(n - 1) /\ n # 1
      BY <2>3
    <3>. QED
      BY <1>0, <1>5, <2>1, <3>1 DEF Base
  <2>. QED
    BY <2>2, <2>3
<1>9. KnowledgeStays
  BY <1>4, <1>7, <1>8 DEF KnowledgeStays, KnowsEngine
<1>10. LevelsStay
  <2> SUFFICES ASSUME NEW th \in Threads, NEW i \in Levels(th)'
               PROVE  /\ i \in Levels(th) /\ GenAt(th, i) = GenAt(th, i)'
                      /\ DepthAt(th, i) = DepthAt(th, i)'
    BY DEF LevelsStay
  <2>1. CASE th # t
    BY <1>5, <1>6, <2>1 DEF Levels, GenAt, DepthAt
  <2>2. CASE th = t
    <3>1. /\ i \in 0..(n - 1) /\ (i # 0 => i \in 1..(n - 1)) /\ i # n
          /\ (i # n - 1 => i + 1 \in 1..(n - 1))
      BY <1>5, <2>2 DEF Levels
    <3>2. i \in Levels(t) /\ GenAt(t, i) = GenAt(t, i)'
      BY <1>1, <1>5, <3>1 DEF Levels, GenAt
    <3>3. CASE i = n - 1
      <4>1. DepthAt(t, i) = guards[t][n].saved.depth
        BY <1>1, <3>1, <3>3 DEF DepthAt
      <4>. QED
        BY <1>2, <1>5, <1>6, <2>2, <3>2, <3>3, <4>1 DEF DepthAt
    <3>4. CASE i # n - 1
      BY <1>1, <1>5, <2>2, <3>1, <3>2, <3>4 DEF DepthAt
    <3>. QED
      BY <3>3, <3>4
  <2>. QED
    BY <2>1, <2>2
<1>11. \A u \in Threads : \A i \in 1..Len(guards[u]) :
         \/ i \in 1..Len(guards'[u]) /\ guards'[u][i] = guards[u][i]
         \/ u = t /\ guards[u][i] = g
  <2>1. \A i \in 1..n : i \in 1..(n - 1) \/ i = n
    OBVIOUS
  <2>. QED
    BY <1>1, <1>2, <1>5, <2>1
<1>. QED
  BY <1>3, <1>4, <1>9, <1>10, <1>11

(* The stacks a step of the attach layer may change: those of idle engines. *)
StacksStay ==
  \A e \in Engines \cup Threads :
    \/ cstack'[e] = cstack[e]
    \/ e \in Engines /\ ~Borrowed(e) /\ cstack'[e] = <<>>

LEMMA ScopesStay ==
  ASSUME ScopesInv, KnowledgeStays, LevelsStay, StacksStay, UNCHANGED scope
  PROVE  ScopesInOrder' /\ StacksHoldScopes'
<1>1. ScopesInOrder'
  <2> SUFFICES ASSUME NEW s \in ScopeIds, Registered(s)
               PROVE  /\ KnowsEngine(scope[s].thread, scope[s].engine, scope[s].gen)'
                      /\ Placed(s)'
    BY DEF ScopesInOrder, Registered
  <2>1. PICK h \in Handle : h = scope[s]
    BY ScopeTypes
  <2>2. /\ h.thread \in Threads /\ h.engine \in Slots /\ h.gen \in Nat
        /\ KnowsEngine(h.thread, h.engine, h.gen)
        /\ IInv /\ Placed(s)
    BY <2>1 DEF ScopesInv, ScopesInOrder, Handle
  <2>3. KnowsEngine(h.thread, h.engine, h.gen)'
    BY <2>2 DEF KnowledgeStays
  <2>4. ASSUME NEW i \in Levels(h.thread)', GenAt(h.thread, i)' = h.gen
        PROVE  /\ i \in Levels(h.thread) /\ GenAt(h.thread, i) = h.gen
               /\ DepthAt(h.thread, i) = DepthAt(h.thread, i)'
               /\ cstack'[h.engine] = cstack[h.engine]
    <3>1. GenAt(h.thread, i)' < genMint
      BY <2>2, <2>4 DEF KnowsEngine
    <3>2. /\ i \in Levels(h.thread) /\ GenAt(h.thread, i) = h.gen
          /\ DepthAt(h.thread, i) = DepthAt(h.thread, i)'
      BY <2>2, <2>4, <3>1 DEF LevelsStay
    <3>3. h.engine \in Engines \cup Threads /\ (h.engine \in Engines => Borrowed(h.engine))
      BY <2>2, <3>2, KnownLevel
    <3>. QED
      BY <3>2, <3>3 DEF StacksStay
  <2>5. h = scope'[s]
    BY <2>1
  <2>6. ASSUME NEW i \in Levels(h.thread)', GenAt(h.thread, i)' = h.gen
        PROVE  /\ h.depth < DepthAt(h.thread, i)'
               /\ PlaceOf(cstack'[h.engine], DepthAt(h.thread, i)', h.depth)
                    \in 1..Len(cstack'[h.engine])
               /\ cstack'[h.engine][PlaceOf(cstack'[h.engine], DepthAt(h.thread, i)', h.depth)] = s
    BY <2>1, <2>2, <2>4, <2>6 DEF Placed
  <2>7. Placed(s)'
    BY <2>5, <2>6 DEF Placed, PlaceOf
  <2>. QED
    BY <2>3, <2>5, <2>7
<1>2. StacksHoldScopes'
  <2> SUFFICES ASSUME NEW e \in Engines \cup Threads
               PROVE  /\ ~Repeats(cstack'[e])
                      /\ \A s \in Members(cstack'[e]) : Registered(s)' /\ scope'[s].engine = e
    BY DEF StacksHoldScopes, Repeats, Members
  <2>1. CASE cstack'[e] = cstack[e]
    BY <2>1 DEF ScopesInv, StacksHoldScopes, Registered
  <2>2. CASE cstack'[e] = <<>>
    BY <2>2 DEF Repeats, Members
  <2>. QED
    BY <2>1, <2>2 DEF StacksStay
<1>. QED
  BY <1>1, <1>2

(* What sweeping leaves of the references. *)
LEMMA Swept ==
  ASSUME term \in [TermIds -> Reference], NEW dead, NEW freed, Sweep(dead, freed)
  PROVE  /\ term' \in [TermIds -> Reference]
         /\ \A x \in TermIds :
              term'[x].live =>
                /\ x \notin dead
                /\ term[x].live
                /\ term'[x] = [term[x] EXCEPT !.valid = @ /\ x \notin freed]
<1>1. \A x \in TermIds : [term[x] EXCEPT !.valid = @ /\ x \notin freed] \in Reference
  BY DEF Reference
<1>2. NoReference \in Reference /\ ~NoReference.live
  BY AttachmentAssumption DEF NoReference, Reference, NoLender, Lender, Slots
<1>3. term' = [x \in TermIds |-> IF x \in dead THEN NoReference
                                 ELSE [term[x] EXCEPT !.valid = @ /\ x \notin freed]]
  BY DEF Sweep
<1>4. \A x \in TermIds : [term[x] EXCEPT !.valid = @ /\ x \notin freed].live = term[x].live
  BY DEF Reference
<1>. QED
  BY <1>1, <1>2, <1>3, <1>4

(* A step that frees nothing sweeps nothing. *)
LEMMA NothingSwept ==
  ASSUME term \in [TermIds -> Reference], UNCHANGED term
  PROVE  Sweep({}, {})
<1>1. \A x \in TermIds : [term[x] EXCEPT !.valid = @ /\ x \notin {}] = term[x]
  BY DEF Reference
<1>. QED
  BY <1>1 DEF Sweep

(* A reference a step does not sweep stays in order if its home and its lender do,
   and if it is freed only when its level is gone. *)
GuardLentStays(x) ==
  /\ \E i \in 1..Len(guards'[term[x].thread]) : guards'[term[x].thread][i].gen = term[x].gen
  /\ term[x].home # None =>
       /\ term[x].home \in Members(cstack'[term[x].engine])
       /\ scope'[term[x].home].gen = scope[term[x].home].gen

LEMMA TermsStay ==
  ASSUME ScopesInv, NEW dead, NEW freed, Sweep(dead, freed), KnowledgeStays, GenerationsStay,
         \A x \in TermIds \ dead : term[x].live /\ term[x].lender.by = "guard" => GuardLentStays(x),
         \A x \in TermIds \ dead : term[x].live /\ term[x].lender.by = "scope" =>
           scope'[term[x].lender.id] = scope[term[x].lender.id],
         \A x \in TermIds \ dead :
           (term[x].live /\ term[x].lender.by # "witness"
              /\ AliveGen(term[x].thread, term[x].gen)) => x \notin freed
  PROVE  TermsInOrder'
<1> SUFFICES ASSUME NEW x \in TermIds, term'[x].live
             PROVE  /\ KnowsEngine(term[x].thread, term[x].engine, term[x].gen)'
                    /\ term'[x].lender.by = "guard" => LentByGuard(x)'
                    /\ term'[x].lender.by = "scope" => LentByScope(x)'
                    /\ term'[x].lender.by # "witness" /\ AliveGen(term[x].thread, term[x].gen)'
                         => term'[x].valid
  BY DEF TermsInOrder
<1>1. PICK r \in Reference : r = term[x]
  BY ScopeTypes
<1>2. /\ x \notin dead /\ r.live
      /\ term'[x] = [r EXCEPT !.valid = @ /\ x \notin freed]
  BY <1>1, Swept DEF ScopesInv, ScopesTypeOK
<1>3. /\ r.thread \in Threads /\ r.engine \in Slots /\ r.gen \in Nat
      /\ KnowsEngine(r.thread, r.engine, r.gen)
      /\ r.lender.by = "guard" => LentByGuard(x)
      /\ r.lender.by = "scope" => LentByScope(x)
      /\ r.lender.by # "witness" /\ AliveGen(r.thread, r.gen) => r.valid
  BY <1>1, <1>2 DEF ScopesInv, TermsInOrder, Reference
<1>4. /\ term'[x].thread = r.thread /\ term'[x].engine = r.engine /\ term'[x].gen = r.gen
      /\ term'[x].lender = r.lender /\ term'[x].home = r.home
  BY <1>2 DEF Reference
<1>5. KnowsEngine(r.thread, r.engine, r.gen)'
  BY <1>3 DEF KnowledgeStays
<1>6. KnowsEngine(term[x].thread, term[x].engine, term[x].gen)'
  BY <1>4, <1>5
<1>7. r.lender.by = "guard" => LentByGuard(x)'
  BY <1>1, <1>2, <1>3, <1>4 DEF LentByGuard, GuardLentStays
<1>8. r.lender.by = "scope" => LentByScope(x)'
  BY <1>1, <1>2, <1>3, <1>4 DEF LentByScope
<1>9. AliveGen(r.thread, r.gen)' => AliveGen(r.thread, r.gen)
  BY <1>3 DEF GenerationsStay, KnowsEngine
<1>10. ASSUME r.lender.by # "witness", AliveGen(r.thread, r.gen)' PROVE term'[x].valid
  <2>1. AliveGen(r.thread, r.gen) /\ r.valid
    BY <1>3, <1>9, <1>10
  <2>2. x \notin freed
    BY <1>1, <1>2, <1>10, <2>1
  <2>3. term'[x].valid = (r.valid /\ x \notin freed)
    BY <1>2 DEF Reference
  <2>. QED
    BY <2>1, <2>2, <2>3
<1>11. AliveGen(term[x].thread, term[x].gen)' => AliveGen(r.thread, r.gen)'
  BY <1>4
<1>. QED
  BY <1>4, <1>6, <1>7, <1>8, <1>10, <1>11

(* What a live guard lent is on the engine of the guard, and so is its home. *)
LEMMA GuardLent ==
  ASSUME ScopesInv, NEW x \in TermIds, term[x].live, term[x].lender.by = "guard"
  PROVE  /\ LentByGuard(x)
         /\ term[x].thread \in Threads
         /\ term[x].engine \in Engines \cup Threads
         /\ AliveGen(term[x].thread, term[x].gen)
         /\ term[x].home # None =>
              /\ term[x].home \in ScopeIds /\ Registered(term[x].home)
              /\ scope[term[x].home].engine = term[x].engine
<1>1. /\ LentByGuard(x) /\ term[x].thread \in Threads /\ IInv
      /\ KnowsEngine(term[x].thread, term[x].engine, term[x].gen)
  BY ScopeTypes DEF ScopesInv, TermsInOrder
<1>2. PICK i \in 1..Len(guards[term[x].thread]) : guards[term[x].thread][i].gen = term[x].gen
  BY <1>1 DEF LentByGuard
<1>3. i \in Levels(term[x].thread) /\ GenAt(term[x].thread, i) = term[x].gen
  BY <1>1, <1>2, LevelFacts DEF Levels, GenAt
<1>4. term[x].engine \in Engines \cup Threads /\ AliveGen(term[x].thread, term[x].gen)
  BY <1>1, <1>3, KnownLevel DEF AliveGen
<1>5. term[x].home # None =>
        /\ term[x].home \in ScopeIds /\ Registered(term[x].home)
        /\ scope[term[x].home].engine = term[x].engine
  BY <1>1, <1>4, ScopeTypes DEF LentByGuard, ScopesInv, StacksHoldScopes
<1>. QED
  BY <1>1, <1>4, <1>5

----------------------------------------------------------------------------------
(* The invariant, one lemma per kind of step. *)

(* Steps of the attach layer that leave every scope and reference alone. *)
LEMMA AttachLayerKeeps ==
  ASSUME ScopesInv, NEW t \in Threads, AttachLayer(t)
  PROVE  ScopesInv'
<1>0. IInv /\ TypeOK /\ term \in [TermIds -> Reference] /\ UNCHANGED scopeVars
  BY DEF ScopesInv, ScopesTypeOK, AttachLayer, IInv
<1>1. IInv' /\ ScopesTypeOK'
  <2>1. Next
    BY DEF AttachLayer, Next, AttachStep, ThreadStep
  <2>2. IInv'
    BY <1>0, <2>1, IInvNext
  <2>. QED
    BY <1>0, <2>2 DEF ScopesInv, ScopesTypeOK, IInv, scopeVars
<1>2. /\ KnowledgeStays /\ LevelsStay
      /\ \A u \in Threads : \A i \in 1..Len(guards[u]) :
           i \in 1..Len(guards'[u]) /\ guards'[u][i] = guards[u][i]
  <2>1. CASE \E e \in Engines : Attach(t, e) \/ AttachWithin(t, e)
    BY <1>0, <2>1, LevelPushed DEF Attach, AttachWithin
  <2>2. CASE \/ \E e \in Engines : EngineNew(t, e)
             \/ \E u \in Threads, e \in Engines : EngineSend(t, u, e)
             \/ CurrentEngine(t)
    <3>1. UNCHANGED <<activation, guards, genMint, slot>>
      BY <2>2 DEF EngineNew, EngineSend, CurrentEngine
    <3>. QED
      BY <3>1, LevelsUntouched DEF Base
  <2>3. CASE RuntimeEngine(t)
    <3>1. /\ UNCHANGED <<activation, guards, genMint>>
          /\ slot[t] = None /\ \A u \in Threads \ {t} : slot'[u] = slot[u]
      BY <1>0, <2>3 DEF RuntimeEngine, TypeOK
    <3>. QED
      BY <3>1, LevelsUntouched DEF Base
  <2>. QED
    BY <2>1, <2>2, <2>3 DEF AttachLayer
<1>3. ScopesInOrder' /\ StacksHoldScopes'
  <2>1. StacksStay /\ scope' = scope
    BY <1>0 DEF StacksStay, scopeVars
  <2>. QED
    BY <1>2, <2>1, ScopesStay
<1>4. TermsInOrder'
  <2>1. Sweep({}, {})
    BY <1>0, NothingSwept DEF scopeVars
  <2>2. ASSUME NEW x \in TermIds, term[x].live /\ term[x].lender.by = "guard"
        PROVE  GuardLentStays(x)
    <3>1. LentByGuard(x) /\ term[x].thread \in Threads
      BY <2>2, ScopeTypes DEF ScopesInv, TermsInOrder
    <3>. QED
      BY <1>0, <1>2, <3>1 DEF LentByGuard, GuardLentStays, scopeVars
  <2>3. \A x \in TermIds \ {} : term[x].live /\ term[x].lender.by = "guard" => GuardLentStays(x)
    BY <2>2
  <2>4. \A x \in TermIds \ {} : term[x].live /\ term[x].lender.by = "scope" =>
          scope'[term[x].lender.id] = scope[term[x].lender.id]
    BY <1>0 DEF scopeVars
  <2>. QED
    BY <1>2, <2>1, <2>3, <2>4, LevelsKeepGenerations, TermsStay
<1>. QED
  BY <1>1, <1>3, <1>4 DEF ScopesInv

(* A guard's drop ends what it lent, and with it the level its scopes were in. *)
LEMMA LentGuardDropKeeps ==
  ASSUME ScopesInv, NEW t \in Threads, LentGuardDrop(t)
  PROVE  ScopesInv'
<1> DEFINE g == Top(guards[t])
           dead == Lent(GuardLender(g))
<1>0. /\ IInv /\ TypeOK /\ term \in [TermIds -> Reference]
      /\ GuardDrop(t) /\ Sweep(dead, {}) /\ UNCHANGED <<cstack, scope>>
  BY DEF ScopesInv, ScopesTypeOK, LentGuardDrop, IInv
<1>1. IInv' /\ ScopesTypeOK'
  <2>1. IInv' /\ TypeOK'
    BY <1>0, GuardDropKeepsIInv DEF IInv
  <2>2. term' \in [TermIds -> Reference]
    BY <1>0, Swept
  <2>. QED
    BY <1>0, <2>1, <2>2 DEF ScopesInv, ScopesTypeOK
<1>2. /\ KnowledgeStays /\ LevelsStay
      /\ \A u \in Threads : \A i \in 1..Len(guards[u]) :
           \/ i \in 1..Len(guards'[u]) /\ guards'[u][i] = guards[u][i]
           \/ u = t /\ guards[u][i] = g
  BY <1>0, LevelPopped
<1>3. ScopesInOrder' /\ StacksHoldScopes'
  <2>1. StacksStay
    BY <1>0 DEF StacksStay
  <2>. QED
    BY <1>0, <1>2, <2>1, ScopesStay
<1>4. ASSUME NEW x \in TermIds \ dead, term[x].live /\ term[x].lender.by = "guard"
      PROVE  GuardLentStays(x)
  <2>1. LentByGuard(x) /\ term[x].thread \in Threads /\ term[x].lender \in Lender
    BY <1>4, ScopeTypes DEF ScopesInv, TermsInOrder
  <2>2. PICK i \in 1..Len(guards[term[x].thread]) : guards[term[x].thread][i].gen = term[x].gen
    BY <2>1 DEF LentByGuard
  <2>3. term[x].lender = [by |-> "guard", id |-> term[x].gen]
    BY <1>4, <2>1 DEF LentByGuard, Lender
  <2>4. guards[term[x].thread][i] # g
    BY <1>4, <2>2, <2>3 DEF Lent, GuardLender
  <2>. QED
    BY <1>0, <1>2, <2>1, <2>2, <2>4 DEF LentByGuard, GuardLentStays
<1>5. TermsInOrder'
  <2>1. \A x \in TermIds \ dead : term[x].live /\ term[x].lender.by = "guard" => GuardLentStays(x)
    BY <1>4
  <2>2. \A x \in TermIds \ dead : term[x].live /\ term[x].lender.by = "scope" =>
          scope'[term[x].lender.id] = scope[term[x].lender.id]
    BY <1>0
  <2> HIDE DEF dead
  <2>. QED
    BY <1>0, <1>2, <2>1, <2>2, LevelsKeepGenerations, TermsStay
<1>. QED
  BY <1>1, <1>3, <1>5 DEF ScopesInv

(* Destroying an engine empties its stack; nothing alive is on it. *)
LEMMA EngineEndKeeps ==
  ASSUME ScopesInv, NEW t \in Threads, NEW e \in Engines, EngineEnd(t, e)
  PROVE  ScopesInv'
<1> DEFINE freed == {x \in TermIds : term[x].engine = e}
<1>0. /\ IInv /\ TypeOK /\ term \in [TermIds -> Reference]
      /\ EngineDrop(t, e) /\ ~Borrowed(e) /\ UNCHANGED scope
      /\ \/ cstack' = [cstack EXCEPT ![e] = <<>>] /\ Sweep({}, freed)
         \/ cstack' = cstack /\ Sweep({}, {})
  <2>1. IInv /\ TypeOK /\ term \in [TermIds -> Reference]
    BY DEF ScopesInv, ScopesTypeOK, IInv
  <2>. QED
    BY <2>1, NothingSwept DEF EngineEnd, EngineDrop, Owns
<1>1. UNCHANGED <<slot, activation, guards, genMint>>
  BY <1>0, UnborrowedIsDetached DEF EngineDrop, TypeOK
<1>2. StacksStay /\ cstack' \in [Engines \cup Threads -> Seq(ScopeIds)]
  <2>1. cstack \in [Engines \cup Threads -> Seq(ScopeIds)] /\ <<>> \in Seq(ScopeIds)
    BY EmptySeq DEF ScopesInv, ScopesTypeOK
  <2>2. CASE cstack' = cstack
    BY <2>1, <2>2 DEF StacksStay
  <2>3. CASE cstack' = [cstack EXCEPT ![e] = <<>>]
    <3>1. cstack'[e] = <<>> /\ \A f \in Engines \cup Threads : f # e => cstack'[f] = cstack[f]
      BY <2>1, <2>3
    <3>. QED
      BY <1>0, <2>1, <2>3, <3>1 DEF StacksStay
  <2>. QED
    BY <1>0, <2>2, <2>3
<1>3. IInv' /\ ScopesTypeOK'
  <2>1. Next
    BY <1>0 DEF Next, AttachStep
  <2>2. IInv' /\ TypeOK'
    BY <1>0, <2>1, IInvNext DEF IInv
  <2>3. term' \in [TermIds -> Reference]
    BY <1>0, Swept
  <2>. QED
    BY <1>0, <1>2, <2>2, <2>3 DEF ScopesInv, ScopesTypeOK
<1>4. KnowledgeStays /\ LevelsStay
  BY <1>1, LevelsUntouched DEF Base
<1>5. ScopesInOrder' /\ StacksHoldScopes'
  BY <1>0, <1>2, <1>4, ScopesStay
<1>6. ASSUME NEW x \in TermIds, term[x].live, AliveGen(term[x].thread, term[x].gen)
      PROVE  term[x].engine # e /\ cstack'[term[x].engine] = cstack[term[x].engine]
  <2>1. term[x].thread \in Threads /\ KnowsEngine(term[x].thread, term[x].engine, term[x].gen)
    BY <1>6, ScopeTypes DEF ScopesInv, TermsInOrder
  <2>2. /\ term[x].engine \in Engines \cup Threads
        /\ term[x].engine \in Engines => Borrowed(term[x].engine)
    BY <1>0, <1>6, <2>1, KnownLevel DEF AliveGen
  <2>. QED
    BY <1>0, <1>2, <2>2 DEF StacksStay
<1>7. ASSUME NEW x \in TermIds, term[x].live /\ term[x].lender.by = "guard"
      PROVE  GuardLentStays(x)
  <2>1. LentByGuard(x) /\ term[x].thread \in Threads
    BY <1>7, GuardLent
  <2>2. AliveGen(term[x].thread, term[x].gen)
    BY <1>7, GuardLent
  <2>3. cstack'[term[x].engine] = cstack[term[x].engine]
    BY <1>6, <1>7, <2>2
  <2>. QED
    BY <1>0, <1>1, <2>1, <2>3 DEF LentByGuard, GuardLentStays
<1>8. TermsInOrder'
  <2>a. \A x \in TermIds \ {} : term[x].live /\ term[x].lender.by = "guard" => GuardLentStays(x)
    BY <1>7
  <2>b. \A x \in TermIds \ {} : term[x].live /\ term[x].lender.by = "scope" =>
          scope'[term[x].lender.id] = scope[term[x].lender.id]
    BY <1>0
  <2>c. \A x \in TermIds \ {} :
          (term[x].live /\ term[x].lender.by # "witness"
             /\ AliveGen(term[x].thread, term[x].gen)) => x \notin freed
    BY <1>6
  <2> HIDE DEF freed
  <2>1. CASE Sweep({}, freed)
    BY <1>4, <2>1, <2>a, <2>b, <2>c, LevelsKeepGenerations, TermsStay
  <2>2. CASE Sweep({}, {})
    BY <1>4, <2>2, <2>a, <2>b, LevelsKeepGenerations, TermsStay
  <2>. QED
    BY <1>0, <2>1, <2>2
<1>. QED
  BY <1>3, <1>5, <1>8 DEF ScopesInv

(* Steps on scopes leave the levels alone, but for the depth of the top one. *)
LEMMA DepthChanges ==
  ASSUME IInv, NEW t \in Threads, NEW d \in Nat,
         activation' = [activation EXCEPT ![t] = [gen |-> activation[t].gen, depth |-> d]],
         UNCHANGED <<phase, holder, slot, guards, genMint, witnesses>>
  PROVE  /\ KnowledgeStays /\ GenerationsStay
         /\ \A th \in Threads :
              /\ Levels(th)' = Levels(th)
              /\ \A i \in Levels(th) : GenAt(th, i)' = GenAt(th, i)
              /\ \A i \in Levels(th) : th = t /\ i = Len(guards[t]) => DepthAt(th, i)' = d
              /\ \A i \in Levels(th) :
                   ~(th = t /\ i = Len(guards[t])) => DepthAt(th, i)' = DepthAt(th, i)
<1>1. KnowledgeStays
  BY DEF KnowledgeStays, KnowsEngine, Base
<1>2. /\ activation'[t].depth = d
      /\ \A u \in Threads \ {t} : activation'[u] = activation[u]
  BY DEF IInv, TypeOK
<1>3. ASSUME NEW th \in Threads
      PROVE  /\ Levels(th)' = Levels(th)
             /\ \A i \in Levels(th) : GenAt(th, i)' = GenAt(th, i)
  BY DEF Levels, GenAt
<1>4. ASSUME NEW th \in Threads, NEW i \in Levels(th)
      PROVE  /\ th = t /\ i = Len(guards[t]) => DepthAt(th, i)' = d
             /\ ~(th = t /\ i = Len(guards[t])) => DepthAt(th, i)' = DepthAt(th, i)
  BY <1>2 DEF DepthAt
<1>5. GenerationsStay
  BY <1>3 DEF GenerationsStay, AliveGen
<1>. QED
  BY <1>1, <1>3, <1>4, <1>5

(* Opening puts the new scope on top; what was registered stays where it was. *)
LEMMA OpenKeeps ==
  ASSUME ScopesInv, NEW t \in Threads, NEW s \in ScopeIds, NEW kind \in {"frame", "query"},
         Open(t, s, kind), UNCHANGED <<phase, holder, slot, guards, genMint, witnesses, term>>
  PROVE  ScopesInv'
<1>c. PICK c \in Contexts(t) :
        /\ Innermost(activation[t], c.act)
        /\ scope' = [scope EXCEPT ![s] =
             [status |-> "open", kind |-> kind, thread |-> t, engine |-> slot[t],
              gen |-> c.act.gen, depth |-> activation[t].depth, lender |-> c.lender]]
  BY DEF Open
<1>e. PICK e \in Engines \cup Threads : e = slot[t]
  BY <1>c, ContextIsAttached
<1>d. PICK d \in Nat : d = activation[t].depth
  BY LevelFacts DEF ScopesInv, Activation
<1>g. PICK g \in Nat : g = activation[t].gen
  BY LevelFacts DEF ScopesInv, Activation
<1>h. PICK h \in Handle :
        h = [status |-> "open", kind |-> kind, thread |-> t, engine |-> e,
             gen |-> g, depth |-> d, lender |-> c.lender]
  BY <1>c, <1>e, ContextIsAttached DEF Handle, Slots
<1>k. PICK stack \in Seq(ScopeIds) : stack = cstack[e]
  BY ScopeTypes
<1>n. PICK n \in Nat : n = Len(stack)
  BY LenProperties
<1>0. /\ IInv /\ TypeOK /\ ScopesTypeOK /\ ScopesInOrder /\ StacksHoldScopes
      /\ KnowsEngine(t, e, g)
      /\ scope[s].status = "unopened"
      /\ UNCHANGED <<phase, holder, slot, guards, genMint, witnesses>>
      /\ d + 1 \in Nat
  BY <1>c, <1>e, <1>g, ContextIsAttached DEF ScopesInv, ScopesTypeOK, Open
<1>1. /\ scope' = [scope EXCEPT ![s] = h]
      /\ scope'[s] = h
      /\ \A r \in ScopeIds \ {s} : scope'[r] = scope[r]
      /\ activation' = [activation EXCEPT ![t] = [gen |-> activation[t].gen, depth |-> d + 1]]
      /\ cstack' = [cstack EXCEPT ![e] = Append(stack, s)]
      /\ cstack'[e] = Append(stack, s)
      /\ \A f \in Engines \cup Threads : f # e => cstack'[f] = cstack[f]
  <2>1. c.act.gen = g
    BY <1>c, <1>g, ContextIsAttached
  <2>2. scope' = [scope EXCEPT ![s] = h]
    BY <1>c, <1>d, <1>e, <1>h, <2>1
  <2>3. cstack' = [cstack EXCEPT ![e] = Append(stack, s)]
    BY <1>e, <1>k DEF Open
  <2>4. activation' = [activation EXCEPT ![t] = [gen |-> activation[t].gen, depth |-> d + 1]]
    BY <1>d DEF Open, Opened
  <2>. QED
    BY <1>0, <2>2, <2>3, <2>4 DEF ScopesTypeOK
<1>2. h.status = "open" /\ h.thread = t /\ h.engine = e /\ h.gen = g /\ h.depth = d
  BY <1>h
<1>3. /\ Append(stack, s) \in Seq(ScopeIds)
      /\ Len(Append(stack, s)) = n + 1
      /\ \A i \in 1..n : Append(stack, s)[i] = stack[i]
      /\ Append(stack, s)[n + 1] = s
  BY <1>n, AppendProperties
<1>4. /\ s \notin Members(stack) /\ ~Repeats(stack)
      /\ Members(Append(stack, s)) = Members(stack) \cup {s}
      /\ ~Repeats(Append(stack, s))
  <2>1. s \notin Members(stack) /\ ~Repeats(stack)
    BY <1>0, <1>k DEF StacksHoldScopes, Registered
  <2>. QED
    BY <2>1, OneMore
<1>5. IInv' /\ ScopesTypeOK'
  <2>1. IInv' /\ TypeOK'
    BY <1>0, <1>1, DepthKeepsIInv DEF IInv
  <2>. QED
    BY <1>0, <1>1, <1>3, <2>1 DEF ScopesTypeOK
<1>6. /\ KnowledgeStays /\ GenerationsStay
      /\ \A th \in Threads :
           /\ Levels(th)' = Levels(th)
           /\ \A i \in Levels(th) : GenAt(th, i)' = GenAt(th, i)
           /\ \A i \in Levels(th) : th = t /\ i = Len(guards[t]) => DepthAt(th, i)' = d + 1
           /\ \A i \in Levels(th) :
                ~(th = t /\ i = Len(guards[t])) => DepthAt(th, i)' = DepthAt(th, i)
  BY <1>0, <1>1, DepthChanges
<1>7. ScopesInOrder'
  <2>1. /\ KnowsEngine(t, e, g)' /\ Placed(s)'
    <3>1. KnowsEngine(t, e, g)'
      BY <1>0, <1>6 DEF KnowledgeStays, Slots
    <3>2. ASSUME NEW i \in Levels(t), GenAt(t, i) = g PROVE i = Len(guards[t])
      <4>1. Len(guards[t]) \in Levels(t) /\ GenAt(t, Len(guards[t])) = g
        BY <1>0, <1>g, LevelFacts DEF Levels
      <4>. QED
        BY <1>0, <3>2, <4>1, LevelsDistinct
    <3>3. PlaceOf(Append(stack, s), d + 1, d) = n + 1 /\ d < d + 1 /\ n + 1 \in 1..(n + 1)
      BY <1>3 DEF PlaceOf
    <3>4. ASSUME NEW i \in Levels(t)', GenAt(t, i)' = g
          PROVE  /\ d < DepthAt(t, i)'
                 /\ PlaceOf(Append(stack, s), DepthAt(t, i)', d) \in 1..Len(Append(stack, s))
                 /\ Append(stack, s)[PlaceOf(Append(stack, s), DepthAt(t, i)', d)] = s
      <4>1. i = Len(guards[t]) /\ i \in Levels(t)
        BY <1>6, <3>2, <3>4
      <4>2. DepthAt(t, i)' = d + 1
        BY <1>6, <4>1
      <4>. QED
        BY <1>3, <3>3, <4>2
    <3>5. Placed(s)'
      BY SMTT(30), <1>1, <1>2, <3>4 DEF Placed, PlaceOf
    <3>. QED
      BY <3>1, <3>5
  <2>2. ASSUME NEW r \in ScopeIds \ {s}, Registered(r)
        PROVE  /\ KnowsEngine(scope[r].thread, scope[r].engine, scope[r].gen)'
               /\ Placed(r)'
    <3>1. PICK q \in Handle : q = scope[r]
      BY ScopeTypes
    <3>2. /\ q.thread \in Threads /\ q.engine \in Slots /\ q.gen \in Nat /\ q.depth \in Nat
          /\ KnowsEngine(q.thread, q.engine, q.gen) /\ Placed(r)
      BY <1>0, <2>2, <3>1 DEF ScopesInOrder, Handle
    <3>3. KnowsEngine(q.thread, q.engine, q.gen)' /\ scope'[r] = q
      BY <1>1, <1>6, <3>1, <3>2 DEF KnowledgeStays
    <3>4. ASSUME NEW i \in Levels(q.thread), GenAt(q.thread, i) = q.gen
          PROVE  /\ q.depth < DepthAt(q.thread, i)'
                 /\ PlaceOf(cstack'[q.engine], DepthAt(q.thread, i)', q.depth)
                      \in 1..Len(cstack'[q.engine])
                 /\ cstack'[q.engine][PlaceOf(cstack'[q.engine], DepthAt(q.thread, i)', q.depth)] = r
      <4>1. PICK D \in Nat : D = DepthAt(q.thread, i)
        BY <1>0, <3>2, LevelFacts
      <4>2. /\ q.engine \in Engines \cup Threads
            /\ q.engine = e <=> q.thread = t /\ i = Len(guards[t])
        BY <1>0, <1>e, <3>2, <3>4, KnownLevel
      <4>3. PICK p : p = PlaceOf(cstack[q.engine], D, q.depth)
        OBVIOUS
      <4>4. q.depth < D /\ p \in 1..Len(cstack[q.engine]) /\ cstack[q.engine][p] = r
        BY <3>1, <3>2, <3>4, <4>1, <4>3 DEF Placed
      <4>5. CASE q.engine = e
        <5>1. D = d /\ DepthAt(q.thread, i)' = d + 1
          BY <1>0, <1>6, <1>d, <3>2, <4>1, <4>2, <4>5, LevelFacts
        <5>2. PlaceOf(Append(stack, s), d + 1, q.depth) = p
          BY <1>3, <1>k, <1>n, <3>2, <4>3, <4>5, <5>1 DEF PlaceOf
        <5>3. p \in 1..n /\ stack[p] = r
          BY <1>k, <1>n, <4>4, <4>5
        <5>4. cstack'[q.engine] = Append(stack, s) /\ q.depth < d + 1 /\ p \in 1..(n + 1)
          BY <1>1, <3>2, <4>4, <4>5, <5>1, <5>3
        <5>5. Append(stack, s)[p] = r
          BY <1>3, <5>3
        <5>. QED
          BY <1>3, <5>1, <5>2, <5>4, <5>5
      <4>6. CASE q.engine # e
        <5>1. DepthAt(q.thread, i)' = D /\ cstack'[q.engine] = cstack[q.engine]
          BY <1>1, <1>6, <3>2, <4>1, <4>2, <4>6
        <5>. QED
          BY <4>3, <4>4, <5>1
      <4>. QED
        BY <4>5, <4>6
    <3>5. \A i \in Levels(q.thread)' : i \in Levels(q.thread) /\ GenAt(q.thread, i)' = GenAt(q.thread, i)
      BY <1>6, <3>2
    <3>6. Placed(r)'
      BY <3>3, <3>4, <3>5 DEF Placed, PlaceOf
    <3>. QED
      BY <3>1, <3>3, <3>6
  <2>3. \A r \in ScopeIds \ {s} : Registered(r)' => Registered(r)
    BY <1>1 DEF Registered
  <2>. QED
    BY <1>1, <1>2, <2>1, <2>2, <2>3 DEF ScopesInOrder
<1>8. StacksHoldScopes'
  <2> SUFFICES ASSUME NEW f \in Engines \cup Threads
               PROVE  /\ ~Repeats(cstack'[f])
                      /\ \A r \in Members(cstack'[f]) : Registered(r)' /\ scope'[r].engine = f
    BY DEF StacksHoldScopes, Repeats, Members
  <2>1. \A r \in Members(cstack[f]) : /\ r \in ScopeIds \ {s}
                                      /\ Registered(r)' /\ scope'[r].engine = f
    <3>1. \A r \in Members(cstack[f]) : r \in ScopeIds /\ Registered(r) /\ scope[r].engine = f
      BY <1>0, ScopeTypes DEF StacksHoldScopes
    <3>. QED
      BY <1>0, <1>1, <3>1 DEF Registered
  <2>2. Registered(s)' /\ scope'[s].engine = e
    BY <1>1, <1>2 DEF Registered
  <2>3. CASE f = e
    BY <1>1, <1>4, <1>k, <2>1, <2>2, <2>3
  <2>4. CASE f # e
    BY <1>0, <1>1, <2>1, <2>4 DEF StacksHoldScopes
  <2>. QED
    BY <2>3, <2>4
<1>9. TermsInOrder'
  <2>1. Sweep({}, {})
    BY <1>0, NothingSwept DEF ScopesTypeOK
  <2>2. ASSUME NEW x \in TermIds, term[x].live, term[x].lender.by = "guard"
        PROVE  GuardLentStays(x)
    <3>1. /\ LentByGuard(x) /\ term[x].engine \in Engines \cup Threads
          /\ term[x].home # None => term[x].home \in ScopeIds \ {s}
      BY <1>0, <2>2, GuardLent DEF Registered
    <3>2. Members(cstack[term[x].engine]) \subseteq Members(cstack'[term[x].engine])
      BY <1>1, <1>4, <1>k, <3>1
    <3>. QED
      BY <1>1, <3>1, <3>2 DEF LentByGuard, GuardLentStays
  <2>3. ASSUME NEW x \in TermIds, term[x].live, term[x].lender.by = "scope"
        PROVE  scope'[term[x].lender.id] = scope[term[x].lender.id]
    <3>1. LentByScope(x)
      BY <2>3 DEF ScopesInv, TermsInOrder
    <3>. QED
      BY <1>0, <1>1, <3>1 DEF LentByScope
  <2>. QED
    BY <1>6, <2>1, <2>2, <2>3, TermsStay
<1>. QED
  BY <1>5, <1>7, <1>8, <1>9 DEF ScopesInv

(* A handle that is forgotten, or lost to a failed close, leaves its scope open. *)
LEMMA LostKeeps ==
  ASSUME ScopesInv, NEW s \in ScopeIds, scope[s].status = "open",
         scope' = [scope EXCEPT ![s].status = "lost"],
         Sweep(Lent(ScopeLender(s)), {}), UNCHANGED attachVars, UNCHANGED cstack
  PROVE  ScopesInv'
<1>0. /\ IInv /\ TypeOK /\ ScopesTypeOK /\ ScopesInOrder /\ StacksHoldScopes
      /\ UNCHANGED <<phase, holder, slot, activation, guards, genMint, witnesses>>
  BY DEF ScopesInv, ScopesTypeOK, attachVars
<1>1. PICK h \in Handle : h = [scope[s] EXCEPT !.status = "lost"]
  BY ScopeTypes DEF Handle
<1>2. /\ scope'[s] = h
      /\ h.status = "lost" /\ h.thread = scope[s].thread /\ h.engine = scope[s].engine
      /\ h.gen = scope[s].gen /\ h.depth = scope[s].depth
      /\ \A r \in ScopeIds \ {s} : scope'[r] = scope[r]
  BY <1>0, <1>1, ScopeTypes DEF ScopesTypeOK, Handle
<1>3. IInv' /\ ScopesTypeOK'
  <2>1. IInv' /\ TypeOK'
    BY <1>0, IInvNext DEF IInv, attachVars
  <2>2. term' \in [TermIds -> Reference]
    BY <1>0, Swept DEF ScopesTypeOK
  <2>. QED
    BY <1>0, <1>1, <2>1, <2>2 DEF ScopesTypeOK
<1>4. \A r \in ScopeIds :
        /\ Registered(r)' = Registered(r)
        /\ scope'[r].thread = scope[r].thread /\ scope'[r].engine = scope[r].engine
        /\ scope'[r].gen = scope[r].gen /\ scope'[r].depth = scope[r].depth
  BY <1>2 DEF Registered
<1>5. KnowledgeStays /\ LevelsStay
  BY <1>0, LevelsUntouched DEF Base
<1>6. ScopesInOrder'
  <2>1. ASSUME NEW r \in ScopeIds, Registered(r)
        PROVE  KnowsEngine(scope[r].thread, scope[r].engine, scope[r].gen)' /\ Placed(r)'
    <3>1. KnowsEngine(scope[r].thread, scope[r].engine, scope[r].gen) /\ Placed(r)
      BY <1>0, <2>1 DEF ScopesInOrder
    <3>2. KnowsEngine(scope[r].thread, scope[r].engine, scope[r].gen)'
      BY <1>0, <1>4, <3>1 DEF KnowsEngine, Base
    <3>3. Placed(r)'
      <4>1. PICK th \in Threads, e \in Slots, gen \in Nat, d \in Nat :
              /\ th = scope[r].thread /\ e = scope[r].engine
              /\ gen = scope[r].gen /\ d = scope[r].depth
        BY ScopeTypes DEF Handle
      <4>2. /\ Levels(th)' = Levels(th)
            /\ \A i \in Levels(th) : GenAt(th, i)' = GenAt(th, i) /\ DepthAt(th, i)' = DepthAt(th, i)
        BY <1>0 DEF Levels, GenAt, DepthAt
      <4>3. th = scope'[r].thread /\ e = scope'[r].engine /\ gen = scope'[r].gen /\ d = scope'[r].depth
        BY <1>4, <4>1
      <4>. QED
        BY <1>0, <3>1, <4>1, <4>2, <4>3 DEF Placed, PlaceOf
    <3>. QED
      BY <3>2, <3>3
  <2>. QED
    BY <1>4, <2>1 DEF ScopesInOrder
<1>7. StacksHoldScopes'
  BY <1>0, <1>4, ScopeTypes DEF StacksHoldScopes, Repeats, Members
<1>8. TermsInOrder'
  <2>1. ASSUME NEW x \in TermIds, term[x].live, term[x].lender.by = "guard"
        PROVE  GuardLentStays(x)
    BY <1>0, <1>4, <2>1, GuardLent DEF LentByGuard, GuardLentStays
  <2>2. ASSUME NEW x \in TermIds \ Lent(ScopeLender(s)), term[x].live,
               term[x].lender.by = "scope"
        PROVE  scope'[term[x].lender.id] = scope[term[x].lender.id]
    <3>1. LentByScope(x) /\ term[x].lender \in Lender
      BY <2>2, ScopeTypes DEF ScopesInv, TermsInOrder
    <3>2. term[x].lender = [by |-> "scope", id |-> term[x].lender.id]
      BY <2>2, <3>1 DEF Lender
    <3>3. term[x].lender.id \in ScopeIds \ {s}
      BY <2>2, <3>1, <3>2 DEF LentByScope, Lent, ScopeLender
    <3>. QED
      BY <1>2, <3>3
  <2>. QED
    BY <1>5, <2>1, <2>2, LevelsKeepGenerations, TermsStay
<1>. QED
  BY <1>3, <1>6, <1>7, <1>8 DEF ScopesInv

(* F1, F4, Q1: closing or backtracking to the scope on top frees nothing that an
   open guard or another open scope lent. *)
LEMMA LentElsewhere ==
  ASSUME ScopesInv, NEW t \in Threads, NEW s \in ScopeIds, scope[s].status = "open",
         scope[s].thread = t, Closable(activation[t], scope[s].gen, scope[s].depth),
         NEW x \in TermIds \ Lent(ScopeLender(s)), term[x].live, term[x].lender.by # "witness",
         AliveGen(term[x].thread, term[x].gen)
  PROVE  /\ x \notin Freed(slot[t], Members(Pop(cstack[slot[t]])))
         /\ term[x].lender.by = "guard" => term[x].home # s
<1>1. /\ slot[t] = scope[s].engine /\ slot[t] \in Engines \cup Threads
      /\ cstack[slot[t]] # <<>> /\ Top(cstack[slot[t]]) = s
  BY ClosableIsTop DEF Registered
<1>2. PICK e \in Engines \cup Threads : e = slot[t]
  BY <1>1
<1>3. Members(cstack[e]) = Members(Pop(cstack[e])) \cup {s}
  BY <1>1, <1>2, ScopeTypes, UnderTop
<1>4. PICK r \in Reference : r = term[x]
  BY ScopeTypes
<1>5. /\ IInv /\ r.thread \in Threads /\ KnowsEngine(r.thread, r.engine, r.gen)
      /\ r.lender.by = "guard" => LentByGuard(x)
      /\ r.lender.by = "scope" => LentByScope(x)
      /\ r.lender \in Lender
  BY <1>4, ScopeTypes DEF ScopesInv, TermsInOrder
<1>6. PICK i \in Levels(r.thread) : GenAt(r.thread, i) = r.gen
  BY <1>4 DEF AliveGen
<1>7. r.engine = e => r.gen = scope[s].gen
  <2>1. r.engine = e => r.thread = t /\ i = Len(guards[t])
    BY <1>2, <1>5, <1>6, KnownLevel
  <2>2. GenAt(t, Len(guards[t])) = activation[t].gen
    BY <1>5, LevelFacts
  <2>. QED
    BY <1>6, <2>1, <2>2 DEF Closable
<1>8. ASSUME r.lender.by = "guard", r.home # None
      PROVE  r.home # s /\ (r.engine = e => r.home \in Members(Pop(cstack[e])))
  <2>1. /\ r.home \in Members(cstack[r.engine]) /\ scope[r.home].gen # r.gen
        /\ scope[r.home].engine = r.engine
    BY <1>4, <1>5, <1>8, GuardLent DEF LentByGuard
  <2>2. r.home # s
    BY <1>1, <1>2, <1>7, <2>1
  <2>. QED
    BY <1>3, <2>1, <2>2
<1>9. ASSUME r.lender.by = "scope", r.engine = e
      PROVE  r.home \in Members(Pop(cstack[e]))
  <2>1. /\ r.lender.id \in ScopeIds /\ scope[r.lender.id].status = "open"
        /\ scope[r.lender.id].gen = r.gen /\ scope[r.lender.id].thread = r.thread
        /\ r.home = r.lender.id
    BY <1>4, <1>5, <1>9 DEF LentByScope
  <2>2. r.lender = [by |-> "scope", id |-> r.lender.id]
    BY <1>5, <1>9 DEF Lender
  <2>3. r.home # s
    BY <1>4, <2>1, <2>2 DEF Lent, ScopeLender
  <2>4. PICK q \in ScopeIds : q = r.home
    BY <2>1
  <2>5. scope[q].engine = EngineAt(r.thread, i) /\ q \in Members(cstack[scope[q].engine])
    BY <1>6, <2>1, <2>4, PlacedOnStack DEF Registered
  <2>6. EngineAt(r.thread, i) = e
    BY <1>5, <1>6, <1>9, KnownLevel
  <2>. QED
    BY <1>3, <2>3, <2>4, <2>5, <2>6
<1>10. r.home # None /\ r.engine = e => r.home \in Members(Pop(cstack[e]))
  BY <1>4, <1>5, <1>8, <1>9 DEF Lender
<1>11. term[x].lender.by = "guard" => term[x].home # s
  BY <1>4, <1>8, ScopesAssumption
<1>. QED
  BY <1>2, <1>4, <1>10, <1>11 DEF Freed

(* Closing the scope on top leaves every other scope where it was. *)
LEMMA CloseKeeps ==
  ASSUME ScopesInv, NEW t \in Threads, NEW s \in ScopeIds, scope[s].status = "open",
         scope[s].thread = t, Closable(activation[t], scope[s].gen, scope[s].depth), End(t, s),
         UNCHANGED <<phase, holder, slot, guards, genMint, witnesses>>
  PROVE  ScopesInv'
<1>a. /\ slot[t] = scope[s].engine /\ slot[t] \in Engines \cup Threads
      /\ cstack[slot[t]] # <<>> /\ Top(cstack[slot[t]]) = s
  BY ClosableIsTop DEF Registered
<1>e. PICK e \in Engines \cup Threads : e = slot[t]
  BY <1>a
<1>h. PICK h \in Handle : h = scope[s]
  BY ScopeTypes
<1>k. PICK stack \in Seq(ScopeIds) : stack = cstack[e]
  BY ScopeTypes
<1>n. PICK n \in Nat \ {0} : n = Len(stack)
  BY <1>a, <1>e, <1>k, PopStack
<1>q. PICK kept \in Seq(ScopeIds) : kept = Pop(stack)
  BY <1>a, <1>e, <1>k, PopStack
<1>0. /\ IInv /\ TypeOK /\ ScopesTypeOK /\ ScopesInOrder /\ StacksHoldScopes
      /\ UNCHANGED <<phase, holder, slot, guards, genMint, witnesses>>
      /\ h.depth \in Nat /\ h.gen \in Nat /\ h.thread = t /\ h.engine = e
      /\ activation[t].gen = h.gen /\ activation[t].depth = h.depth + 1
  BY <1>a, <1>e, <1>h DEF ScopesInv, ScopesTypeOK, Closable, Handle
<1>1. /\ scope' = [scope EXCEPT ![s] = NoHandle("ended")]
      /\ activation' = [activation EXCEPT ![t] = [gen |-> activation[t].gen, depth |-> h.depth]]
      /\ cstack' = [cstack EXCEPT ![e] = kept]
      /\ Sweep(Lent(ScopeLender(s)), Freed(e, Members(kept)))
  <2>1. Below(cstack[slot[t]], s) = kept
    BY <1>a, <1>e, <1>k, <1>q, ScopeTypes, TopGoes
  <2>. QED
    BY <1>0, <1>e, <1>h, <2>1 DEF End, Closed
<1>2. /\ scope'[s].status = "ended"
      /\ \A r \in ScopeIds \ {s} : scope'[r] = scope[r]
      /\ cstack'[e] = kept
      /\ \A f \in Engines \cup Threads : f # e => cstack'[f] = cstack[f]
  BY <1>0, <1>1 DEF ScopesTypeOK, NoHandle
<1>3. /\ Len(kept) = n - 1
      /\ \A i \in 1..(n - 1) : kept[i] = stack[i]
      /\ stack[n] = s
      /\ s \notin Members(kept) /\ Members(stack) = Members(kept) \cup {s}
      /\ ~Repeats(kept)
  <2>1. stack # <<>> /\ ~Repeats(stack) /\ Top(stack) = s
    BY <1>a, <1>e, <1>k, ScopeTypes
  <2>2. Len(kept) = n - 1 /\ \A i \in 1..(n - 1) : kept[i] = stack[i]
    BY <1>n, <1>q, <2>1, PopStack
  <2>3. s \notin Members(kept) /\ Members(stack) = Members(kept) \cup {s} /\ ~Repeats(kept)
    BY <1>q, <2>1, UnderTop
  <2>4. stack[n] = s
    BY <1>n, <2>1 DEF Top
  <2>. QED
    BY <2>2, <2>3, <2>4
<1>4. IInv' /\ ScopesTypeOK'
  <2>1. IInv' /\ TypeOK'
    BY <1>0, <1>1, DepthKeepsIInv DEF IInv
  <2>2. NoHandle("ended") \in Handle
    BY AttachmentAssumption DEF NoHandle, Handle, Slots, NoLender, Lender
  <2>3. term' \in [TermIds -> Reference]
    BY <1>0, <1>1, Swept DEF ScopesTypeOK
  <2>. QED
    BY <1>0, <1>1, <2>1, <2>2, <2>3 DEF ScopesTypeOK
<1>5. /\ KnowledgeStays /\ GenerationsStay
      /\ \A th \in Threads :
           /\ Levels(th)' = Levels(th)
           /\ \A i \in Levels(th) : GenAt(th, i)' = GenAt(th, i)
           /\ \A i \in Levels(th) : th = t /\ i = Len(guards[t]) => DepthAt(th, i)' = h.depth
           /\ \A i \in Levels(th) :
                ~(th = t /\ i = Len(guards[t])) => DepthAt(th, i)' = DepthAt(th, i)
  BY <1>0, <1>1, DepthChanges
<1>6. ASSUME NEW r \in ScopeIds \ {s}, Registered(r)
      PROVE  /\ KnowsEngine(scope[r].thread, scope[r].engine, scope[r].gen)'
             /\ Placed(r)'
  <2>1. PICK q \in Handle : q = scope[r]
    BY ScopeTypes
  <2>2. /\ q.thread \in Threads /\ q.engine \in Slots /\ q.gen \in Nat /\ q.depth \in Nat
        /\ KnowsEngine(q.thread, q.engine, q.gen) /\ Placed(r)
    BY <1>0, <1>6, <2>1 DEF ScopesInOrder, Handle
  <2>3. KnowsEngine(q.thread, q.engine, q.gen)' /\ scope'[r] = q
    BY <1>2, <1>5, <2>1, <2>2 DEF KnowledgeStays
  <2>4. ASSUME NEW i \in Levels(q.thread), GenAt(q.thread, i) = q.gen
        PROVE  /\ q.depth < DepthAt(q.thread, i)'
               /\ PlaceOf(cstack'[q.engine], DepthAt(q.thread, i)', q.depth)
                    \in 1..Len(cstack'[q.engine])
               /\ cstack'[q.engine][PlaceOf(cstack'[q.engine], DepthAt(q.thread, i)', q.depth)] = r
    <3>1. PICK D \in Nat : D = DepthAt(q.thread, i)
      BY <1>0, <2>2, LevelFacts
    <3>2. /\ q.engine \in Engines \cup Threads
          /\ q.engine = e <=> q.thread = t /\ i = Len(guards[t])
      BY <1>0, <1>e, <2>2, <2>4, KnownLevel
    <3>3. PICK p : p = PlaceOf(cstack[q.engine], D, q.depth)
      OBVIOUS
    <3>4. q.depth < D /\ p \in 1..Len(cstack[q.engine]) /\ cstack[q.engine][p] = r
      BY <2>1, <2>2, <2>4, <3>1, <3>3 DEF Placed
    <3>5. CASE q.engine = e
      <4>1. D = h.depth + 1 /\ DepthAt(q.thread, i)' = h.depth
        BY <1>0, <1>5, <2>2, <3>1, <3>2, <3>5, LevelFacts
      <4>2. p = n - (h.depth + 1) + q.depth + 1 /\ p \in 1..n /\ stack[p] = r
        BY <1>k, <1>n, <3>3, <3>4, <3>5, <4>1 DEF PlaceOf
      <4>3. p # n
        BY <1>3, <4>2
      <4>4. q.depth < h.depth /\ p \in 1..(n - 1)
        BY SMTT(30), <1>0, <2>2, <3>4, <4>1, <4>2, <4>3
      <4>5. PlaceOf(kept, h.depth, q.depth) = p
        BY <1>0, <1>3, <2>2, <4>2 DEF PlaceOf
      <4>6. kept[p] = r /\ cstack'[q.engine] = kept
        BY <1>2, <1>3, <3>5, <4>2, <4>4
      <4>. QED
        BY <1>3, <4>1, <4>4, <4>5, <4>6
    <3>6. CASE q.engine # e
      <4>1. DepthAt(q.thread, i)' = D /\ cstack'[q.engine] = cstack[q.engine]
        BY <1>2, <1>5, <2>2, <3>1, <3>2, <3>6
      <4>. QED
        BY <3>3, <3>4, <4>1
    <3>. QED
      BY <3>5, <3>6
  <2>5. \A i \in Levels(q.thread)' : i \in Levels(q.thread) /\ GenAt(q.thread, i)' = GenAt(q.thread, i)
    BY <1>5, <2>2
  <2>6. Placed(r)'
    BY <2>3, <2>4, <2>5 DEF Placed, PlaceOf
  <2>. QED
    BY <2>1, <2>3, <2>6
<1>7. ScopesInOrder'
  <2>1. \A r \in ScopeIds : Registered(r)' => r # s /\ Registered(r) /\ scope'[r] = scope[r]
    BY <1>2 DEF Registered
  <2>. QED
    BY <1>6, <2>1 DEF ScopesInOrder
<1>8. StacksHoldScopes'
  <2> SUFFICES ASSUME NEW f \in Engines \cup Threads
               PROVE  /\ ~Repeats(cstack'[f])
                      /\ \A r \in Members(cstack'[f]) : Registered(r)' /\ scope'[r].engine = f
    BY DEF StacksHoldScopes, Repeats, Members
  <2>1. /\ Members(cstack'[f]) \subseteq Members(cstack[f])
        /\ ~Repeats(cstack'[f])
        /\ s \notin Members(cstack'[f])
    <3>1. CASE f = e
      BY <1>2, <1>3, <1>k, <3>1
    <3>2. CASE f # e
      BY <1>0, <1>2, <1>h, <3>2 DEF StacksHoldScopes
    <3>. QED
      BY <3>1, <3>2
  <2>2. \A r \in Members(cstack'[f]) :
          r \in ScopeIds \ {s} /\ Registered(r) /\ scope[r].engine = f
    BY <1>0, <2>1, ScopeTypes DEF StacksHoldScopes
  <2>. QED
    BY <1>2, <2>1, <2>2 DEF Registered
<1>9. TermsInOrder'
  <2> DEFINE dead == Lent(ScopeLender(s))
             freed == Freed(e, Members(kept))
  <2>1. ASSUME NEW x \in TermIds \ dead, term[x].live, term[x].lender.by # "witness",
               AliveGen(term[x].thread, term[x].gen)
        PROVE  x \notin freed /\ (term[x].lender.by = "guard" => term[x].home # s)
    BY <1>e, <1>k, <1>q, <2>1, LentElsewhere
  <2>2. ASSUME NEW x \in TermIds \ dead, term[x].live, term[x].lender.by = "guard"
        PROVE  GuardLentStays(x)
    <3>1. /\ LentByGuard(x) /\ term[x].engine \in Engines \cup Threads
          /\ AliveGen(term[x].thread, term[x].gen)
          /\ term[x].home # None => term[x].home \in ScopeIds
      BY <2>2, GuardLent
    <3>2. term[x].home # s
      BY <2>1, <2>2, <3>1
    <3>3. Members(cstack[term[x].engine]) \subseteq Members(cstack'[term[x].engine]) \cup {s}
      BY <1>2, <1>3, <1>k, <3>1
    <3>. QED
      BY <1>0, <1>2, <3>1, <3>2, <3>3 DEF LentByGuard, GuardLentStays
  <2>3. ASSUME NEW x \in TermIds \ dead, term[x].live, term[x].lender.by = "scope"
        PROVE  scope'[term[x].lender.id] = scope[term[x].lender.id]
    <3>1. LentByScope(x) /\ term[x].lender \in Lender
      BY <2>3, ScopeTypes DEF ScopesInv, TermsInOrder
    <3>2. term[x].lender = [by |-> "scope", id |-> term[x].lender.id]
      BY <2>3, <3>1 DEF Lender
    <3>3. term[x].lender.id \in ScopeIds \ {s}
      BY <2>3, <3>1, <3>2 DEF LentByScope, Lent, ScopeLender
    <3>. QED
      BY <1>2, <3>3
  <2>4. Sweep(dead, freed)
    BY <1>1
  <2>5. \A x \in TermIds \ dead :
          (term[x].live /\ term[x].lender.by # "witness"
             /\ AliveGen(term[x].thread, term[x].gen)) => x \notin freed
    BY <2>1
  <2> HIDE DEF dead, freed
  <2>. QED
    BY <1>5, <2>2, <2>3, <2>4, <2>5, TermsStay
<1>. QED
  BY <1>4, <1>7, <1>8, <1>9 DEF ScopesInv

(* A rewind or a backtrack reaches the scope on top and cuts none off. *)
LEMMA BacktrackKeeps ==
  ASSUME ScopesInv, NEW t \in Threads, NEW s \in ScopeIds, scope[s].status = "open",
         scope[s].thread = t, Backtrack(t, s)
  PROVE  ScopesInv' /\ UNCHANGED cstack
<1>1. Closable(activation[t], scope[s].gen, scope[s].depth)
  BY DEF Backtrack, Innermost, ScopeActivation, Opened, Closable
<1>2. /\ slot[t] \in Engines \cup Threads /\ cstack[slot[t]] # <<>> /\ Top(cstack[slot[t]]) = s
      /\ cstack \in [Engines \cup Threads -> Seq(ScopeIds)]
  BY <1>1, ClosableIsTop DEF Registered, ScopesInv, ScopesTypeOK
<1>3. PICK e \in Engines \cup Threads : e = slot[t]
  BY <1>2
<1>4. PICK kept : kept = Members(Pop(cstack[e]))
  OBVIOUS
<1>5. Upto(cstack[e], s) = cstack[e] /\ Members(Below(cstack[e], s)) = kept
  BY <1>2, <1>3, <1>4, ScopeTypes, TopGoes
<1>6. UNCHANGED cstack
  <2>1. cstack' = [cstack EXCEPT ![e] = cstack[e]]
    BY <1>3, <1>5 DEF Backtrack
  <2>. QED
    BY <1>2, <2>1
<1>7. Sweep(Lent(ScopeLender(s)), Freed(e, kept))
  BY <1>3, <1>5 DEF Backtrack
<1>8. /\ IInv /\ TypeOK /\ ScopesTypeOK
      /\ UNCHANGED <<phase, holder, slot, activation, guards, genMint, witnesses>>
      /\ UNCHANGED attachVars /\ scope' = scope
  BY DEF ScopesInv, ScopesTypeOK, Backtrack, attachVars
<1>9. IInv' /\ ScopesTypeOK'
  <2>1. IInv' /\ TypeOK'
    BY <1>8, IInvNext DEF IInv
  <2>2. term' \in [TermIds -> Reference]
    BY <1>7, <1>8, Swept DEF ScopesTypeOK
  <2>. QED
    BY <1>6, <1>8, <2>1, <2>2 DEF ScopesTypeOK
<1>10. KnowledgeStays /\ LevelsStay /\ GenerationsStay
  <2>1. KnowledgeStays /\ LevelsStay
    BY <1>8, LevelsUntouched DEF Base
  <2>. QED
    BY <2>1, LevelsKeepGenerations
<1>11. ScopesInOrder' /\ StacksHoldScopes'
  <2>1. StacksStay
    BY <1>6 DEF StacksStay
  <2>. QED
    BY <1>8, <1>10, <2>1, ScopesStay
<1>12. TermsInOrder'
  <2> DEFINE dead == Lent(ScopeLender(s))
             freed == Freed(e, kept)
  <2>1. \A x \in TermIds \ dead :
          (term[x].live /\ term[x].lender.by # "witness"
             /\ AliveGen(term[x].thread, term[x].gen)) => x \notin freed
    BY <1>1, <1>3, <1>4, LentElsewhere
  <2>2. ASSUME NEW x \in TermIds \ dead, term[x].live, term[x].lender.by = "guard"
        PROVE  GuardLentStays(x)
    BY <1>6, <1>8, <2>2, GuardLent DEF LentByGuard, GuardLentStays
  <2>3. \A x \in TermIds \ dead : term[x].live /\ term[x].lender.by = "scope" =>
          scope'[term[x].lender.id] = scope[term[x].lender.id]
    BY <1>8
  <2>4. Sweep(dead, freed)
    BY <1>7
  <2> HIDE DEF dead, freed
  <2>. QED
    BY <1>10, <2>1, <2>2, <2>3, <2>4, TermsStay
<1>. QED
  BY <1>6, <1>9, <1>11, <1>12 DEF ScopesInv

(* A new reference is made on the attached engine, in the scope that lends it. *)
LEMMA NewTermKeeps ==
  ASSUME ScopesInv, NEW t \in Threads, NEW x \in TermIds, NewTerm(t, x)
  PROVE  ScopesInv'
<1>c. PICK c \in Contexts(t) :
        /\ Innermost(activation[t], c.act)
        /\ term' = [term EXCEPT ![x] =
             [live |-> TRUE, valid |-> TRUE, thread |-> t, engine |-> slot[t],
              gen |-> c.act.gen, lender |-> c.lender,
              home |-> IF cstack[slot[t]] = <<>> THEN None ELSE Top(cstack[slot[t]])]]
  BY DEF NewTerm
<1>0. /\ IInv /\ TypeOK /\ ScopesTypeOK /\ ScopesInOrder /\ StacksHoldScopes /\ TermsInOrder
      /\ UNCHANGED <<phase, holder, slot, activation, guards, genMint, witnesses>>
      /\ UNCHANGED attachVars /\ scope' = scope /\ cstack' = cstack
  BY DEF ScopesInv, ScopesTypeOK, NewTerm, attachVars
<1>1. /\ slot[t] \in Engines \cup Threads /\ KnowsEngine(t, slot[t], c.act.gen)
      /\ c.act.gen = activation[t].gen /\ c.act.depth = activation[t].depth
      /\ c.lender \in Lender
  BY <1>c, ContextIsAttached
<1>e. PICK e \in Engines \cup Threads : e = slot[t]
  BY <1>1
<1>k. PICK stack \in Seq(ScopeIds) : stack = cstack[e]
  BY ScopeTypes
<1>g. PICK g \in Nat : g = activation[t].gen
  BY <1>0, LevelFacts DEF Activation
<1>h. PICK home \in ScopeIds \cup {None} : home = IF stack = <<>> THEN None ELSE Top(stack)
  BY PopStack
<1>2. home # None => stack # <<>> /\ home = Top(stack) /\ home \in Members(stack)
                       /\ home \in ScopeIds /\ Registered(home) /\ scope[home].engine = e
  <2> SUFFICES ASSUME home # None
               PROVE  stack # <<>> /\ home = Top(stack) /\ home \in Members(stack)
                        /\ home \in ScopeIds /\ Registered(home) /\ scope[home].engine = e
    OBVIOUS
  <2>1. stack # <<>> /\ home = Top(stack)
    BY <1>h
  <2>2. home \in Members(stack)
    BY <2>1, UnderTop, <1>k, ScopeTypes
  <2>. QED
    BY <1>0, <1>h, <1>k, <2>1, <2>2 DEF StacksHoldScopes
<1>r. PICK r \in Reference :
        r = [live |-> TRUE, valid |-> TRUE, thread |-> t, engine |-> e, gen |-> g,
             lender |-> c.lender, home |-> home]
  BY <1>1 DEF Reference, Slots
<1>3. /\ r.live /\ r.valid /\ r.thread = t /\ r.engine = e /\ r.gen = g
      /\ r.lender = c.lender /\ r.home = home
  BY <1>r
<1>4. /\ term' \in [TermIds -> Reference]
      /\ term'[x] = r
      /\ \A y \in TermIds \ {x} : term'[y] = term[y]
  <2>1. term' = [term EXCEPT ![x] = r]
    BY <1>c, <1>1, <1>e, <1>g, <1>h, <1>k, <1>r
  <2>. QED
    BY <1>0, <2>1 DEF ScopesTypeOK
<1>5. IInv' /\ ScopesTypeOK'
  <2>1. IInv' /\ TypeOK'
    BY <1>0, IInvNext DEF IInv
  <2>. QED
    BY <1>0, <1>4, <2>1 DEF ScopesTypeOK
<1>6. KnowledgeStays /\ LevelsStay
  BY <1>0, LevelsUntouched DEF Base
<1>7. ScopesInOrder' /\ StacksHoldScopes'
  <2>1. StacksStay
    BY <1>0 DEF StacksStay
  <2>. QED
    BY <1>0, <1>6, <2>1, ScopesStay
<1>8. ASSUME c.lender.by = "guard" PROVE LentByGuard(x)'
  <2>1. PICK i \in 1..Len(guards[t]) :
          /\ c.lender = GuardLender(guards[t][i])
          /\ c.act = Entered(guards[t][i].gen)
    BY <1>8 DEF Contexts, ScopeLender, NoLender
  <2>2. /\ guards[t][i].gen = g /\ c.lender.id = g /\ activation[t].depth = 0
    BY <1>1, <1>g, <2>1 DEF GuardLender, Entered
  <2>3. home # None => scope[home].gen # g
    <3> SUFFICES ASSUME home # None, scope[home].gen = g PROVE FALSE
      OBVIOUS
    <3>1. KnowsEngine(scope[home].thread, scope[home].engine, g) /\ Placed(home)
      BY <1>0, <1>2 DEF ScopesInOrder
    <3>2. scope[home].thread = t
      BY <2>1, <2>2, <3>1 DEF KnowsEngine
    <3>3. Len(guards[t]) \in Levels(t) /\ GenAt(t, Len(guards[t])) = g
          /\ DepthAt(t, Len(guards[t])) = 0
      BY <1>0, <1>g, <2>2, LevelFacts DEF Levels
    <3>4. scope[home].depth \in Nat /\ scope[home].depth < 0
      BY <1>2, <3>1, <3>2, <3>3, ScopeTypes DEF Placed
    <3>. QED
      BY <3>4
  <2>. QED
    BY SMTT(30), <1>0, <1>2, <1>3, <1>4, <1>k, <2>1, <2>2, <2>3 DEF LentByGuard
<1>9. ASSUME c.lender.by = "scope" PROVE LentByScope(x)'
  <2>1. PICK s \in ScopeIds :
          /\ scope[s].status = "open" /\ scope[s].thread = t
          /\ c.lender = ScopeLender(s) /\ c.act = ScopeActivation(s)
    BY <1>9 DEF Contexts, GuardLender, NoLender
  <2>2. Closable(activation[t], scope[s].gen, scope[s].depth) /\ scope[s].gen = g
    BY <1>1, <1>g, <2>1 DEF ScopeActivation, Opened, Closable
  <2>3. cstack[slot[t]] # <<>> /\ Top(cstack[slot[t]]) = s
    BY <2>1, <2>2, ClosableIsTop DEF Registered
  <2>4. home = s /\ c.lender.id = s
    BY <1>e, <1>h, <1>k, <2>1, <2>3 DEF ScopeLender
  <2>. QED
    BY <1>0, <1>3, <1>4, <2>1, <2>2, <2>4 DEF LentByScope
<1>10. TermsInOrder'
  <2>1. KnowsEngine(t, e, g)'
    BY <1>0, <1>1, <1>e, <1>g DEF KnowsEngine, Base
  <2>2. ASSUME NEW y \in TermIds \ {x}, term[y].live
        PROVE  /\ KnowsEngine(term[y].thread, term[y].engine, term[y].gen)'
               /\ term'[y].lender.by = "guard" => LentByGuard(y)'
               /\ term'[y].lender.by = "scope" => LentByScope(y)'
               /\ term'[y].lender.by # "witness" /\ AliveGen(term[y].thread, term[y].gen)'
                    => term'[y].valid
    <3>1. term'[y] = term[y]
      BY <1>4
    <3>2. /\ KnowsEngine(term[y].thread, term[y].engine, term[y].gen)
          /\ term[y].lender.by = "guard" => LentByGuard(y)
          /\ term[y].lender.by = "scope" => LentByScope(y)
          /\ term[y].lender.by # "witness" /\ AliveGen(term[y].thread, term[y].gen)
               => term[y].valid
      BY <1>0, <2>2 DEF TermsInOrder
    <3>3. KnowsEngine(term[y].thread, term[y].engine, term[y].gen)'
      BY <1>0, <3>1, <3>2 DEF KnowsEngine, Base
    <3>4. LentByGuard(y) => LentByGuard(y)'
      BY <1>0, <3>1 DEF LentByGuard
    <3>5. LentByScope(y) => LentByScope(y)'
      BY <1>0, <3>1 DEF LentByScope
    <3>6. AliveGen(term[y].thread, term[y].gen)' => AliveGen(term[y].thread, term[y].gen)
      BY <1>0, <3>1 DEF AliveGen, Levels, GenAt
    <3>. QED
      BY <3>1, <3>2, <3>3, <3>4, <3>5, <3>6
  <2>3. /\ KnowsEngine(term[x].thread, term[x].engine, term[x].gen)'
        /\ term'[x].valid
    BY <1>3, <1>4, <2>1
  <2>4. \A y \in TermIds : term'[y].live => y = x \/ term[y].live
    BY <1>4
  <2>. QED
    BY <1>3, <1>4, <1>8, <1>9, <2>2, <2>3, <2>4 DEF TermsInOrder
<1>. QED
  BY <1>5, <1>7, <1>10 DEF ScopesInv

(* Nothing changes. *)
LEMMA StutterKeeps ==
  ASSUME ScopesInv, UNCHANGED vars
  PROVE  ScopesInv'
<1>0. /\ IInv /\ TypeOK /\ ScopesTypeOK
      /\ UNCHANGED <<phase, holder, slot, activation, guards, genMint, witnesses>>
      /\ UNCHANGED attachVars /\ scope' = scope /\ cstack' = cstack /\ term' = term
  BY DEF ScopesInv, ScopesTypeOK, vars, attachVars, scopeVars
<1>1. IInv' /\ ScopesTypeOK'
  BY <1>0, IInvNext DEF ScopesTypeOK, IInv
<1>2. KnowledgeStays /\ LevelsStay
  BY <1>0, LevelsUntouched DEF Base
<1>3. ScopesInOrder' /\ StacksHoldScopes'
  <2>1. StacksStay
    BY <1>0 DEF StacksStay
  <2>. QED
    BY <1>0, <1>2, <2>1, ScopesStay
<1>4. TermsInOrder'
  <2>1. Sweep({}, {})
    BY <1>0, NothingSwept DEF ScopesTypeOK
  <2>2. \A x \in TermIds \ {} : term[x].live /\ term[x].lender.by = "guard" => GuardLentStays(x)
    BY <1>0, GuardLent DEF LentByGuard, GuardLentStays
  <2>3. \A x \in TermIds \ {} : term[x].live /\ term[x].lender.by = "scope" =>
          scope'[term[x].lender.id] = scope[term[x].lender.id]
    BY <1>0
  <2>. QED
    BY <1>2, <2>1, <2>2, <2>3, LevelsKeepGenerations, TermsStay
<1>. QED
  BY <1>1, <1>3, <1>4 DEF ScopesInv

(* The end of a frame or query closes its scope or loses it. *)
LEMMA EndKeeps ==
  ASSUME ScopesInv, NEW t \in Threads, NEW s \in ScopeIds,
         scope[s].status = "open", scope[s].thread = t, End(t, s),
         UNCHANGED <<phase, holder, slot, guards, genMint, witnesses>>
  PROVE  ScopesInv'
<1>1. CASE Closable(activation[t], scope[s].gen, scope[s].depth)
  BY <1>1, CloseKeeps
<1>2. CASE ~Closable(activation[t], scope[s].gen, scope[s].depth)
  <2>1. /\ scope' = [scope EXCEPT ![s].status = "lost"]
        /\ Sweep(Lent(ScopeLender(s)), {})
        /\ UNCHANGED attachVars /\ UNCHANGED cstack
    BY <1>2 DEF End, attachVars
  <2>. QED
    BY <2>1, LostKeeps
<1>. QED
  BY <1>1, <1>2

(* At the start no scope was opened and no reference made. *)
LEMMA ScopesInvInit == ScopesInit => ScopesInv
<1> SUFFICES ASSUME ScopesInit PROVE ScopesInv
  OBVIOUS
<1>1. /\ IInv /\ TypeOK
      /\ cstack = [e \in Engines \cup Threads |-> <<>>]
      /\ scope = [s \in ScopeIds |-> NoHandle("unopened")]
      /\ term = [x \in TermIds |-> NoReference]
  BY IInvInit DEF ScopesInit, IInv
<1>2. NoHandle("unopened") \in Handle /\ NoReference \in Reference
  BY AttachmentAssumption
  DEF NoHandle, Handle, NoReference, Reference, Slots, NoLender, Lender
<1>3. ScopesTypeOK
  <2>1. <<>> \in Seq(ScopeIds)
    BY EmptySeq
  <2>. QED
    BY <1>1, <1>2, <2>1 DEF ScopesTypeOK
<1>4. ScopesInOrder /\ TermsInOrder
  BY <1>1 DEF ScopesInOrder, Registered, NoHandle, TermsInOrder, NoReference
<1>5. StacksHoldScopes
  BY <1>1 DEF StacksHoldScopes, Repeats, Members
<1>. QED
  BY <1>1, <1>3, <1>4, <1>5 DEF ScopesInv

(* Every step keeps the invariant. *)
LEMMA ScopesInvNext == ScopesInv /\ [ScopesNext]_vars => ScopesInv'
<1> SUFFICES ASSUME ScopesInv, [ScopesNext]_vars PROVE ScopesInv'
  OBVIOUS
<1>1. ASSUME NEW t \in Threads, AttachLayer(t) \/ LentGuardDrop(t) PROVE ScopesInv'
  BY <1>1, AttachLayerKeeps, LentGuardDropKeeps
<1>2. ASSUME NEW t \in Threads, NEW e \in Engines, EngineEnd(t, e) PROVE ScopesInv'
  BY <1>2, EngineEndKeeps
<1>3. ASSUME NEW t \in Threads, NEW s \in ScopeIds, ScopeStep(t, s) PROVE ScopesInv'
  <2>1. CASE FrameOpen(t, s) \/ QueryOpen(t, s)
    <3>1. UNCHANGED <<phase, holder, slot, guards, genMint, witnesses, term>>
      BY <2>1 DEF FrameOpen, QueryOpen, Open
    <3>. QED
      BY <2>1, <3>1, OpenKeeps DEF FrameOpen, QueryOpen
  <2>2. CASE FrameEnd(t, s) \/ QueryEnd(t, s)
    BY <2>2, EndKeeps DEF FrameEnd, QueryEnd, Exclusive
  <2>3. CASE Forget(t, s)
    <3>1. UNCHANGED attachVars /\ UNCHANGED cstack /\ scope[s].status = "open"
      BY <2>3 DEF Forget, Exclusive
    <3>. QED
      BY <2>3, <3>1, LostKeeps DEF Forget
  <2>4. CASE Rewind(t, s) \/ NextSolution(t, s)
    BY <2>4, BacktrackKeeps DEF Rewind, NextSolution, Exclusive
  <2>. QED
    BY <1>3, <2>1, <2>2, <2>3, <2>4 DEF ScopeStep
<1>4. ASSUME NEW t \in Threads, NEW x \in TermIds, NewTerm(t, x) PROVE ScopesInv'
  BY <1>4, NewTermKeeps
<1>5. CASE UNCHANGED vars
  BY <1>5, StutterKeeps
<1>. QED
  BY <1>1, <1>2, <1>3, <1>4, <1>5 DEF ScopesNext

----------------------------------------------------------------------------------
(* The theorems. *)

(* Every scope whose attachment lives is where its depth says, and every reference
   is on the engine, and in the scope, that lends it. *)
THEOREM ScopesAreInOrder == ScopesSpec => []ScopesInv
  BY ScopesInvInit, ScopesInvNext, PTL DEF ScopesSpec

(* The stacks, handles and references are always well typed. *)
THEOREM ScopesTypeCorrect == ScopesSpec => []ScopesTypeOK
<1>1. ScopesInv => ScopesTypeOK
  BY DEF ScopesInv
<1>. QED
  BY <1>1, ScopesAreInOrder, PTL

(* C2: a close that passes its check closes the very scope the handle was opened
   as, after any leaks, escapes, nested attachments and aliasing witnesses. *)
THEOREM ClosesHitTheTop == ScopesSpec => []CloseHitsTop
<1>1. ScopesInv => CloseHitsTop
  BY ClosableIsTop, ScopeTypes DEF CloseHitsTop, Registered
<1>. QED
  BY <1>1, ScopesAreInOrder, PTL

(* C2: a reference lands in the scope it is made through, or, made through a guard,
   in none opened under it. *)
THEOREM AllocationsLand == ScopesSpec => []AllocationLandsInContext
<1>1. ScopesInv => AllocationLandsInContext
  <2> SUFFICES ASSUME ScopesInv, NEW t \in Threads, NEW c \in Contexts(t),
                      Innermost(activation[t], c.act)
               PROVE  LET stack == cstack[slot[t]] IN
                      /\ c.lender.by = "scope" => stack # <<>> /\ Top(stack) = c.lender.id
                      /\ c.lender.by = "guard" /\ stack # <<>>
                           => scope[Top(stack)].gen # c.lender.id
    BY DEF AllocationLandsInContext
  <2>0. /\ IInv /\ ScopesInOrder /\ slot[t] \in Engines \cup Threads
        /\ c.act.gen = activation[t].gen /\ c.act.depth = activation[t].depth
    BY ContextIsAttached DEF ScopesInv
  <2>1. ASSUME c.lender.by = "scope"
        PROVE  cstack[slot[t]] # <<>> /\ Top(cstack[slot[t]]) = c.lender.id
    <3>1. PICK s \in ScopeIds :
            /\ scope[s].status = "open" /\ scope[s].thread = t
            /\ c.lender = ScopeLender(s) /\ c.act = ScopeActivation(s)
      BY <2>1 DEF Contexts, GuardLender, NoLender
    <3>2. Closable(activation[t], scope[s].gen, scope[s].depth)
      BY <2>0, <3>1 DEF ScopeActivation, Opened, Closable
    <3>. QED
      BY <3>1, <3>2, ClosableIsTop DEF Registered, ScopeLender
  <2>2. ASSUME c.lender.by = "guard", cstack[slot[t]] # <<>>
        PROVE  scope[Top(cstack[slot[t]])].gen # c.lender.id
    <3>1. PICK i \in 1..Len(guards[t]) :
            /\ c.lender = GuardLender(guards[t][i])
            /\ c.act = Entered(guards[t][i].gen)
      BY <2>2 DEF Contexts, ScopeLender, NoLender
    <3>2. PICK g : g = guards[t][i].gen
      OBVIOUS
    <3>3. activation[t].gen = g /\ c.lender.id = g /\ activation[t].depth = 0
      BY <2>0, <3>1, <3>2 DEF GuardLender, Entered
    <3>4. PICK s \in ScopeIds : s = Top(cstack[slot[t]])
      BY <2>0, <2>2, ScopeTypes, PopStack
    <3>5. Registered(s)
      <4>1. s \in Members(cstack[slot[t]])
        BY <2>0, <2>2, <3>4, ScopeTypes, UnderTop
      <4>. QED
        BY <2>0, <4>1 DEF ScopesInv, StacksHoldScopes
    <3>6. ASSUME scope[s].gen = g PROVE FALSE
      <4>1. KnowsEngine(scope[s].thread, scope[s].engine, g) /\ Placed(s)
        BY <2>0, <3>5, <3>6 DEF ScopesInOrder
      <4>2. scope[s].thread = t
        BY <3>2, <4>1 DEF KnowsEngine
      <4>3. Len(guards[t]) \in Levels(t) /\ GenAt(t, Len(guards[t])) = g
            /\ DepthAt(t, Len(guards[t])) = 0
        BY <2>0, <3>3, LevelFacts DEF Levels
      <4>4. scope[s].depth \in Nat /\ scope[s].depth < 0
        BY <3>6, <4>1, <4>2, <4>3, ScopeTypes DEF Placed
      <4>. QED
        BY <4>4
    <3>. QED
      BY <3>3, <3>4, <3>6
  <2>. QED
    BY <2>1, <2>2
<1>. QED
  BY <1>1, ScopesAreInOrder, PTL

(* C3: a reference that passes its generation check indexes the attached engine. *)
THEOREM ReferencesOnTheirEngine == ScopesSpec => []UsableReferencesAreOnTheirEngine
<1>1. ScopesInv => UsableReferencesAreOnTheirEngine
  <2> SUFFICES ASSUME ScopesInv, NEW x \in TermIds, term[x].live,
                      SameGen(activation[term[x].thread], term[x].gen)
               PROVE  slot[term[x].thread] = term[x].engine
    BY DEF UsableReferencesAreOnTheirEngine
  <2>1. PICK t \in Threads : t = term[x].thread
    BY ScopeTypes
  <2>2. KnowsEngine(t, term[x].engine, term[x].gen) /\ IInv
    BY <2>1 DEF ScopesInv, TermsInOrder
  <2>3. Len(guards[t]) \in Levels(t) /\ GenAt(t, Len(guards[t])) = term[x].gen
    BY <2>1, <2>2, LevelFacts DEF Levels, SameGen
  <2>. QED
    BY <2>1, <2>2, <2>3, KnownLevel
<1>. QED
  BY <1>1, ScopesAreInOrder, PTL

(* F1, F4, Q1: a usable reference that a guard, frame or query lent was not freed. *)
THEOREM BorrowedReferences == ScopesSpec => []BorrowedReferencesAreLive
<1>1. ScopesInv => BorrowedReferencesAreLive
  <2> SUFFICES ASSUME ScopesInv, NEW x \in TermIds, term[x].live,
                      term[x].lender.by # "witness",
                      SameGen(activation[term[x].thread], term[x].gen)
               PROVE  term[x].valid
    BY DEF BorrowedReferencesAreLive
  <2>1. PICK t \in Threads : t = term[x].thread
    BY ScopeTypes
  <2>2. Len(guards[t]) \in Levels(t) /\ GenAt(t, Len(guards[t])) = term[x].gen
    BY <2>1, LevelFacts DEF ScopesInv, Levels, SameGen
  <2>. QED
    BY <2>1, <2>2 DEF ScopesInv, TermsInOrder, AliveGen
<1>. QED
  BY <1>1, ScopesAreInOrder, PTL

----------------------------------------------------------------------------------
(* The depth of a record counts the scopes that are open, leaked or lost. *)

(* Each depth below that of a level is the depth of a scope registered there. *)
RegisteredAt(t, i) ==
  {s \in ScopeIds : Registered(s) /\ scope[s].thread = t /\ scope[s].gen = GenAt(t, i)}

DepthsFilled ==
  \A t \in Threads : \A i \in Levels(t) : \A d \in Nat :
    d < DepthAt(t, i) => \E s \in RegisteredAt(t, i) : scope[s].depth = d

(* A level that was not there before the step starts with no scope. *)
NewLevelsAreEmpty ==
  \A t \in Threads : \A i \in Levels(t)' : GenAt(t, i)' < genMint \/ DepthAt(t, i)' = 0

(* What was registered still is, where it was. *)
RegisteredStay ==
  \A s \in ScopeIds : Registered(s) =>
    /\ Registered(s)'
    /\ scope'[s].thread = scope[s].thread
    /\ scope'[s].gen = scope[s].gen
    /\ scope'[s].depth = scope[s].depth

LEMMA FilledStays ==
  ASSUME ScopesInv, DepthsFilled, ScopesInv', LevelsStay, NewLevelsAreEmpty, RegisteredStay
  PROVE  DepthsFilled'
<1> SUFFICES ASSUME NEW t \in Threads, NEW i \in Levels(t)', NEW d \in Nat, d < DepthAt(t, i)'
             PROVE  \E s \in RegisteredAt(t, i)' : scope'[s].depth = d
  BY DEF DepthsFilled
<1>1. GenAt(t, i)' < genMint
  BY DEF NewLevelsAreEmpty
<1>2. i \in Levels(t) /\ GenAt(t, i) = GenAt(t, i)' /\ DepthAt(t, i) = DepthAt(t, i)'
  BY <1>1 DEF LevelsStay
<1>3. PICK s \in RegisteredAt(t, i) : scope[s].depth = d
  BY <1>2 DEF DepthsFilled
<1>4. s \in ScopeIds /\ Registered(s) /\ scope[s].thread = t /\ scope[s].gen = GenAt(t, i)
  BY <1>3 DEF RegisteredAt
<1>5. s \in RegisteredAt(t, i)' /\ scope'[s].depth = d
  BY <1>2, <1>3, <1>4 DEF RegisteredStay, RegisteredAt
<1>. QED
  BY <1>5

(* Every level is of a generation minted by now. *)
LEMMA LevelsAreMinted ==
  ASSUME IInv, NEW t \in Threads, NEW i \in Levels(t)
  PROVE  GenAt(t, i) < genMint
<1>1. /\ genMint \in Nat \ {0}
      /\ \A j \in 1..Len(guards[t]) : guards[t][j].gen \in 1..(genMint - 1)
  BY DEF IInv, TypeOK, Chain, Linked
<1>2. i # 0 => i \in 1..Len(guards[t])
  BY LevelFacts
<1>. QED
  BY <1>1, <1>2 DEF GenAt

LEMMA LevelsAreMintedNext ==
  (IInv => \A t \in Threads : \A i \in Levels(t) : GenAt(t, i) < genMint)'
<1>1. IInv => \A t \in Threads : \A i \in Levels(t) : GenAt(t, i) < genMint
  BY LevelsAreMinted
<1>. QED
  BY <1>1, PTL

LEMMA NothingMinted ==
  ASSUME IInv', UNCHANGED genMint
  PROVE  NewLevelsAreEmpty
BY LevelsAreMintedNext DEF NewLevelsAreEmpty

(* Attaching starts a level with depth 0. *)
LEMMA PushedIsEmpty ==
  ASSUME IInv, NEW t \in Threads, NEW e \in Engines, AttachUnchecked(t, e)
  PROVE  NewLevelsAreEmpty
<1>n. PICK n \in Nat : n = Len(guards[t])
  BY GuardTypes DEF IInv
<1>g. PICK g : g = [engine |-> e, gen |-> genMint, previous |-> slot[t], saved |-> activation[t]]
  OBVIOUS
<1>0. TypeOK /\ TypeOK'
  BY TypeAttach DEF IInv
<1>1. /\ activation' = [activation EXCEPT ![t] = Entered(genMint)]
      /\ activation'[t] = Entered(genMint) /\ activation'[t].gen = genMint
  BY <1>0 DEF AttachUnchecked, EnterEngine, Entered, TypeOK
<1>2. guards' = [guards EXCEPT ![t] = Append(guards[t], g)] /\ g \in Guard
  <2>1. guards' = [guards EXCEPT ![t] = Append(guards[t], g)]
    BY <1>1, <1>g DEF AttachUnchecked
  <2>2. g \in Guard
    BY <1>0, <1>g DEF Guard, TypeOK, Slots
  <2>. QED
    BY <2>1, <2>2
<1>3. /\ Len(guards'[t]) = n + 1
      /\ \A i \in 1..n : guards'[t][i] = guards[t][i]
      /\ \A u \in Threads \ {t} : guards'[u] = guards[u]
  <2>1. guards[t] \in Seq(Guard) /\ guards'[t] = Append(guards[t], g)
    BY <1>0, <1>2 DEF TypeOK
  <2>2. \A u \in Threads \ {t} : guards'[u] = guards[u]
    BY <1>0, <1>2 DEF TypeOK
  <2>. QED
    BY <1>2, <1>n, <2>1, <2>2, PushStack
<1>4. ASSUME NEW u \in Threads, NEW i \in Levels(u)'
      PROVE  GenAt(u, i)' < genMint \/ DepthAt(u, i)' = 0
  <2>1. CASE u # t
    <3>1. i \in Levels(u) /\ GenAt(u, i)' = GenAt(u, i)
      BY <1>3, <1>4, <2>1 DEF Levels, GenAt
    <3>. QED
      BY <3>1, LevelsAreMinted
  <2>2. CASE u = t /\ i = n + 1
    BY <1>1, <1>3, <2>2 DEF DepthAt, Entered
  <2>3. CASE u = t /\ i # n + 1
    <3>1. i \in 0..n /\ (i # 0 => i \in 1..n)
      BY <1>3, <1>4, <2>3 DEF Levels
    <3>2. i \in Levels(t) /\ GenAt(t, i)' = GenAt(t, i)
      BY <1>3, <1>n, <3>1 DEF Levels, GenAt
    <3>. QED
      BY <2>3, <3>2, LevelsAreMinted
  <2>. QED
    BY <2>1, <2>2, <2>3
<1>. QED
  BY <1>4 DEF NewLevelsAreEmpty

(* Steps that neither open nor close a scope. *)
LEMMA OthersKeepLevels ==
  ASSUME ScopesInv, ScopesInv', UNCHANGED <<activation, guards, genMint>>,
         \A t \in Threads : Base(t) # None => Base(t)' = Base(t)
  PROVE  LevelsStay /\ NewLevelsAreEmpty /\ GenerationsStay
<1>1. LevelsStay
  BY LevelsUntouched
<1>2. NewLevelsAreEmpty
  BY NothingMinted DEF ScopesInv
<1>. QED
  BY <1>1, <1>2, LevelsKeepGenerations

LEMMA AttachLayerLevels ==
  ASSUME ScopesInv, ScopesInv', NEW t \in Threads, AttachLayer(t) \/ LentGuardDrop(t)
  PROVE  LevelsStay /\ NewLevelsAreEmpty /\ GenerationsStay /\ UNCHANGED scope
<1>0. IInv /\ TypeOK /\ IInv' /\ UNCHANGED scope
  BY DEF ScopesInv, IInv, AttachLayer, LentGuardDrop, scopeVars
<1>1. CASE \E e \in Engines : Attach(t, e) \/ AttachWithin(t, e)
  <2>1. PICK e \in Engines : AttachUnchecked(t, e)
    BY <1>1 DEF Attach, AttachWithin
  <2>2. LevelsStay /\ NewLevelsAreEmpty
    BY <1>0, <2>1, LevelPushed, PushedIsEmpty
  <2>. QED
    BY <1>0, <2>2, LevelsKeepGenerations
<1>2. CASE LentGuardDrop(t)
  <2>1. GuardDrop(t) /\ UNCHANGED genMint
    BY <1>2 DEF LentGuardDrop, GuardDrop
  <2>2. LevelsStay /\ NewLevelsAreEmpty
    BY <1>0, <2>1, LevelPopped, NothingMinted
  <2>. QED
    BY <1>0, <2>2, LevelsKeepGenerations
<1>3. CASE \/ \E e \in Engines : EngineNew(t, e)
           \/ \E u \in Threads, e \in Engines : EngineSend(t, u, e)
           \/ CurrentEngine(t)
  <2>1. UNCHANGED <<activation, guards, genMint, slot>>
    BY <1>3 DEF EngineNew, EngineSend, CurrentEngine
  <2>. QED
    BY <1>0, <2>1, OthersKeepLevels DEF Base
<1>4. CASE RuntimeEngine(t)
  <2>1. /\ UNCHANGED <<activation, guards, genMint>>
        /\ slot[t] = None /\ \A u \in Threads \ {t} : slot'[u] = slot[u]
    BY <1>0, <1>4 DEF RuntimeEngine, TypeOK
  <2>. QED
    BY <1>0, <2>1, OthersKeepLevels DEF Base
<1>. QED
  BY <1>1, <1>2, <1>3, <1>4 DEF AttachLayer

LEMMA EngineEndLevels ==
  ASSUME ScopesInv, ScopesInv', NEW t \in Threads, NEW e \in Engines, EngineEnd(t, e)
  PROVE  LevelsStay /\ NewLevelsAreEmpty /\ GenerationsStay /\ UNCHANGED scope
<1>0. IInv /\ TypeOK /\ ~Borrowed(e) /\ UNCHANGED scope /\ EngineDrop(t, e)
  BY DEF ScopesInv, IInv, EngineEnd, EngineDrop, Owns
<1>1. UNCHANGED <<slot, activation, guards, genMint>>
  BY <1>0, UnborrowedIsDetached DEF EngineDrop, TypeOK
<1>. QED
  BY <1>0, <1>1, OthersKeepLevels DEF Base

(* A lost scope stays registered; a backtrack and a new reference change no scope. *)
LEMMA QuietStepLevels ==
  ASSUME ScopesInv, ScopesInv', UNCHANGED attachVars,
         \/ UNCHANGED scope
         \/ \E s \in ScopeIds : /\ scope[s].status = "open"
                                /\ scope' = [scope EXCEPT ![s].status = "lost"]
  PROVE  LevelsStay /\ NewLevelsAreEmpty /\ GenerationsStay /\ RegisteredStay
<1>1. UNCHANGED <<slot, activation, guards, genMint>>
  BY DEF attachVars
<1>2. LevelsStay /\ NewLevelsAreEmpty /\ GenerationsStay
  BY <1>1, OthersKeepLevels DEF Base
<1>3. RegisteredStay
  <2>1. CASE UNCHANGED scope
    BY <2>1 DEF RegisteredStay, Registered
  <2>2. ASSUME NEW s \in ScopeIds, scope[s].status = "open",
               scope' = [scope EXCEPT ![s].status = "lost"]
        PROVE  RegisteredStay
    <3>1. scope[s] \in Handle /\ scope \in [ScopeIds -> Handle]
      BY DEF ScopesInv, ScopesTypeOK
    <3>2. /\ scope'[s] = [scope[s] EXCEPT !.status = "lost"]
          /\ \A r \in ScopeIds \ {s} : scope'[r] = scope[r]
      BY <2>2, <3>1
    <3>3. /\ scope'[s].status = "lost" /\ scope'[s].thread = scope[s].thread
          /\ scope'[s].gen = scope[s].gen /\ scope'[s].depth = scope[s].depth
      BY <3>1, <3>2 DEF Handle
    <3>. QED
      BY <3>2, <3>3 DEF RegisteredStay, Registered
  <2>. QED
    BY <2>1, <2>2
<1>. QED
  BY <1>2, <1>3

(* Opening registers the depth it adds. *)
LEMMA OpenFills ==
  ASSUME ScopesInv, DepthsFilled, NEW t \in Threads, NEW s \in ScopeIds, NEW kind,
         Open(t, s, kind)
  PROVE  DepthsFilled' /\ GenerationsStay
<1>c. PICK c \in Contexts(t) :
        /\ Innermost(activation[t], c.act)
        /\ scope' = [scope EXCEPT ![s] =
             [status |-> "open", kind |-> kind, thread |-> t, engine |-> slot[t],
              gen |-> c.act.gen, depth |-> activation[t].depth, lender |-> c.lender]]
  BY DEF Open
<1>d. PICK d \in Nat : d = activation[t].depth
  BY LevelFacts DEF ScopesInv, Activation
<1>0. /\ IInv /\ ScopesTypeOK /\ scope[s].status = "unopened" /\ d + 1 \in Nat
      /\ c.act.gen = activation[t].gen
      /\ UNCHANGED <<phase, holder, slot, guards, genMint, witnesses>>
  BY <1>c, ContextIsAttached DEF ScopesInv, Open
<1>1. /\ scope'[s].status = "open" /\ scope'[s].thread = t
      /\ scope'[s].gen = activation[t].gen /\ scope'[s].depth = d
      /\ \A r \in ScopeIds \ {s} : scope'[r] = scope[r]
  <2>1. scope \in [ScopeIds -> Handle]
    BY <1>0 DEF ScopesTypeOK
  <2>2. PICK h : h = [status |-> "open", kind |-> kind, thread |-> t, engine |-> slot[t],
                      gen |-> c.act.gen, depth |-> activation[t].depth, lender |-> c.lender]
    OBVIOUS
  <2>3. scope' = [scope EXCEPT ![s] = h]
    BY <1>c, <2>2
  <2>4. h.status = "open" /\ h.thread = t /\ h.gen = activation[t].gen /\ h.depth = d
    BY <1>0, <1>d, <2>2
  <2>. QED
    BY <2>1, <2>3, <2>4
<1>2. activation' = [activation EXCEPT ![t] = [gen |-> activation[t].gen, depth |-> d + 1]]
  BY <1>d DEF Open, Opened
<1>3. /\ GenerationsStay
      /\ \A th \in Threads :
           /\ Levels(th)' = Levels(th)
           /\ \A i \in Levels(th) : GenAt(th, i)' = GenAt(th, i)
           /\ \A i \in Levels(th) : th = t /\ i = Len(guards[t]) => DepthAt(th, i)' = d + 1
           /\ \A i \in Levels(th) :
                ~(th = t /\ i = Len(guards[t])) => DepthAt(th, i)' = DepthAt(th, i)
  BY <1>0, <1>2, DepthChanges
<1>4. ASSUME NEW th \in Threads, NEW i \in Levels(th), NEW b \in Nat, b < DepthAt(th, i)'
      PROVE  \E r \in RegisteredAt(th, i)' : scope'[r].depth = b
  <2>1. CASE b < DepthAt(th, i)
    <3>1. PICK r \in RegisteredAt(th, i) : scope[r].depth = b
      BY <1>4, <2>1 DEF DepthsFilled
    <3>2. /\ r \in ScopeIds \ {s} /\ Registered(r)
          /\ scope[r].thread = th /\ scope[r].gen = GenAt(th, i)
      BY <1>0, <3>1 DEF RegisteredAt, Registered
    <3>3. r \in RegisteredAt(th, i)' /\ scope'[r].depth = b
      BY <1>1, <1>3, <3>1, <3>2 DEF RegisteredAt, Registered
    <3>. QED
      BY <3>3
  <2>2. CASE ~(b < DepthAt(th, i))
    <3>1. th = t /\ i = Len(guards[t]) /\ DepthAt(th, i)' = d + 1
      BY <1>3, <1>4, <2>2
    <3>2. DepthAt(th, i) = d /\ GenAt(th, i) = activation[t].gen
      BY <1>0, <1>d, <3>1, LevelFacts
    <3>3. b = d
      BY <1>4, <2>2, <3>1, <3>2
    <3>4. GenAt(th, i)' = activation[t].gen
      BY <1>3, <3>2
    <3>5. s \in RegisteredAt(th, i)' /\ scope'[s].depth = b
      BY <1>1, <3>1, <3>3, <3>4 DEF RegisteredAt, Registered
    <3>. QED
      BY <3>5
  <2>. QED
    BY <2>1, <2>2
<1>. QED
  BY <1>3, <1>4 DEF DepthsFilled

(* Closing frees the depth it removes, and no other. *)
LEMMA CloseFills ==
  ASSUME ScopesInv, DepthsFilled, NEW t \in Threads, NEW s \in ScopeIds,
         scope[s].status = "open", scope[s].thread = t,
         Closable(activation[t], scope[s].gen, scope[s].depth), End(t, s),
         UNCHANGED <<phase, holder, slot, guards, genMint, witnesses>>
  PROVE  DepthsFilled' /\ GenerationsStay
<1>d. PICK d \in Nat : d = scope[s].depth
  BY ScopeTypes
<1>0. /\ IInv /\ ScopesTypeOK
      /\ activation[t].gen = scope[s].gen /\ activation[t].depth = d + 1
  BY <1>d DEF ScopesInv, Closable
<1>1. /\ \A r \in ScopeIds \ {s} : scope'[r] = scope[r]
      /\ activation' = [activation EXCEPT ![t] = [gen |-> activation[t].gen, depth |-> d]]
  BY <1>0, <1>d DEF End, Closed, ScopesTypeOK
<1>2. /\ GenerationsStay
      /\ \A th \in Threads :
           /\ Levels(th)' = Levels(th)
           /\ \A i \in Levels(th) : GenAt(th, i)' = GenAt(th, i)
           /\ \A i \in Levels(th) : th = t /\ i = Len(guards[t]) => DepthAt(th, i)' = d
           /\ \A i \in Levels(th) :
                ~(th = t /\ i = Len(guards[t])) => DepthAt(th, i)' = DepthAt(th, i)
  BY <1>0, <1>1, DepthChanges
<1>3. ASSUME NEW th \in Threads, NEW i \in Levels(th), NEW b \in Nat, b < DepthAt(th, i)'
      PROVE  \E r \in RegisteredAt(th, i)' : scope'[r].depth = b
  <2>1. DepthAt(th, i) \in Nat /\ Len(guards[t]) \in Levels(t)
        /\ GenAt(t, Len(guards[t])) = scope[s].gen
        /\ DepthAt(t, Len(guards[t])) = d + 1
    BY <1>0, LevelFacts DEF Levels
  <2>2. b < DepthAt(th, i)
    BY <1>2, <1>3, <2>1
  <2>3. PICK r \in RegisteredAt(th, i) : scope[r].depth = b
    BY <2>2 DEF DepthsFilled
  <2>4. r \in ScopeIds /\ Registered(r) /\ scope[r].thread = th /\ scope[r].gen = GenAt(th, i)
    BY <2>3 DEF RegisteredAt
  <2>5. r # s
    <3> SUFFICES ASSUME r = s PROVE FALSE
      OBVIOUS
    <3>1. th = t /\ i = Len(guards[t])
      BY <1>0, <2>1, <2>4, LevelsDistinct
    <3>2. DepthAt(th, i)' = d
      BY <1>2, <3>1
    <3>. QED
      BY <1>3, <1>d, <2>3, <3>2
  <2>6. r \in RegisteredAt(th, i)' /\ scope'[r].depth = b
    BY <1>1, <1>2, <2>3, <2>4, <2>5 DEF RegisteredAt, Registered
  <2>. QED
    BY <2>6
<1>. QED
  BY <1>2, <1>3 DEF DepthsFilled

LEMMA FilledInit == ScopesInit => DepthsFilled
<1> SUFFICES ASSUME ScopesInit, NEW t \in Threads, NEW i \in Levels(t)
             PROVE  DepthAt(t, i) = 0
  BY DEF DepthsFilled
<1>1. guards[t] = <<>> /\ activation[t] = Unmanaged
  BY DEF ScopesInit, Init
<1>2. i = 0 /\ Len(guards[t]) = 0
  BY <1>1, EmptySeq DEF Levels
<1>. QED
  BY <1>1, <1>2 DEF DepthAt, Unmanaged

(* Every step keeps the depths filled, and revives no generation. *)
LEMMA FilledNext ==
  ScopesInv /\ ScopesInv' /\ DepthsFilled /\ [ScopesNext]_vars => DepthsFilled' /\ GenerationsStay
<1> SUFFICES ASSUME ScopesInv, ScopesInv', DepthsFilled, [ScopesNext]_vars
             PROVE  DepthsFilled' /\ GenerationsStay
  OBVIOUS
<1>1. ASSUME NEW t \in Threads, AttachLayer(t) \/ LentGuardDrop(t)
      PROVE  DepthsFilled' /\ GenerationsStay
  <2>1. LevelsStay /\ NewLevelsAreEmpty /\ GenerationsStay /\ UNCHANGED scope
    BY <1>1, AttachLayerLevels
  <2>2. RegisteredStay
    BY <2>1 DEF RegisteredStay, Registered
  <2>. QED
    BY <2>1, <2>2, FilledStays
<1>2. ASSUME NEW t \in Threads, NEW e \in Engines, EngineEnd(t, e)
      PROVE  DepthsFilled' /\ GenerationsStay
  <2>1. LevelsStay /\ NewLevelsAreEmpty /\ GenerationsStay /\ UNCHANGED scope
    BY <1>2, EngineEndLevels
  <2>2. RegisteredStay
    BY <2>1 DEF RegisteredStay, Registered
  <2>. QED
    BY <2>1, <2>2, FilledStays
<1>q. ASSUME UNCHANGED attachVars,
             \/ UNCHANGED scope
             \/ \E s \in ScopeIds : /\ scope[s].status = "open"
                                    /\ scope' = [scope EXCEPT ![s].status = "lost"]
      PROVE  DepthsFilled' /\ GenerationsStay
  BY <1>q, QuietStepLevels, FilledStays
<1>3. ASSUME NEW t \in Threads, NEW s \in ScopeIds, ScopeStep(t, s)
      PROVE  DepthsFilled' /\ GenerationsStay
  <2>1. CASE FrameOpen(t, s) \/ QueryOpen(t, s)
    BY <2>1, OpenFills DEF FrameOpen, QueryOpen
  <2>2. CASE FrameEnd(t, s) \/ QueryEnd(t, s)
    <3>1. /\ scope[s].status = "open" /\ scope[s].thread = t /\ End(t, s)
          /\ UNCHANGED <<phase, holder, slot, guards, genMint, witnesses>>
      BY <2>2 DEF FrameEnd, QueryEnd, Exclusive
    <3>2. CASE Closable(activation[t], scope[s].gen, scope[s].depth)
      BY <3>1, <3>2, CloseFills
    <3>3. CASE ~Closable(activation[t], scope[s].gen, scope[s].depth)
      <4>1. UNCHANGED attachVars /\ scope' = [scope EXCEPT ![s].status = "lost"]
        BY <3>1, <3>3 DEF End, attachVars
      <4>. QED
        BY <1>q, <3>1, <4>1
    <3>. QED
      BY <3>2, <3>3
  <2>3. CASE Forget(t, s)
    BY <1>q, <2>3 DEF Forget, Exclusive
  <2>4. CASE Rewind(t, s) \/ NextSolution(t, s)
    BY <1>q, <2>4 DEF Rewind, NextSolution, Backtrack
  <2>. QED
    BY <1>3, <2>1, <2>2, <2>3, <2>4 DEF ScopeStep
<1>4. ASSUME NEW t \in Threads, NEW x \in TermIds, NewTerm(t, x)
      PROVE  DepthsFilled' /\ GenerationsStay
  BY <1>4, <1>q DEF NewTerm
<1>5. CASE UNCHANGED vars
  BY <1>5, <1>q DEF vars, scopeVars
<1>. QED
  BY <1>1, <1>2, <1>3, <1>4, <1>5 DEF ScopesNext

(* The scopes registered at a level have the depths below the level's, each once: the
   records count exactly the scopes that are open, leaked or lost, those of the
   attachments under the current one included. *)
DepthsAreExact ==
  \A t \in Threads : \A i \in Levels(t) :
    /\ {scope[s].depth : s \in RegisteredAt(t, i)} = 0..(DepthAt(t, i) - 1)
    /\ \A r, s \in RegisteredAt(t, i) : scope[r].depth = scope[s].depth => r = s

LEMMA FilledIsExact == ScopesInv /\ DepthsFilled => DepthsAreExact
<1> SUFFICES ASSUME ScopesInv, DepthsFilled, NEW t \in Threads, NEW i \in Levels(t)
             PROVE  /\ {scope[s].depth : s \in RegisteredAt(t, i)} = 0..(DepthAt(t, i) - 1)
                    /\ \A r, s \in RegisteredAt(t, i) : scope[r].depth = scope[s].depth => r = s
  BY DEF DepthsAreExact
<1>1. ASSUME NEW s \in RegisteredAt(t, i)
      PROVE  /\ scope[s].depth \in Nat /\ scope[s].depth < DepthAt(t, i)
             /\ scope[s].engine = EngineAt(t, i)
             /\ cstack[EngineAt(t, i)][PlaceOf(cstack[EngineAt(t, i)], DepthAt(t, i),
                                               scope[s].depth)] = s
  <2>1. s \in ScopeIds /\ Registered(s) /\ scope[s].thread = t /\ scope[s].gen = GenAt(t, i)
    BY DEF RegisteredAt
  <2>2. Placed(s) /\ scope[s].depth \in Nat
    BY <2>1, ScopeTypes DEF ScopesInv, ScopesInOrder
  <2>3. scope[s].engine = EngineAt(t, i)
    BY <2>1, PlacedOnStack
  <2>. QED
    BY <2>1, <2>2, <2>3 DEF Placed
<1>2. \A d \in Nat : d < DepthAt(t, i) => \E s \in RegisteredAt(t, i) : scope[s].depth = d
  BY DEF DepthsFilled
<1>3. \A r, s \in RegisteredAt(t, i) : scope[r].depth = scope[s].depth => r = s
  BY <1>1
<1>4. PICK D \in Nat : D = DepthAt(t, i)
  BY LevelFacts DEF ScopesInv
<1>5. \A d : d \in 0..(D - 1) <=> d \in Nat /\ d < D
  BY <1>4
<1>. QED
  BY <1>1, <1>2, <1>3, <1>4, <1>5

THEOREM DepthsCountScopes == ScopesSpec => []DepthsAreExact
BY ScopesAreInOrder, FilledInit, FilledNext, FilledIsExact, PTL DEF ScopesSpec

(* A context of the attached generation is innermost exactly while no scope of its
   depth or deeper is registered. *)
LEMMA InnermostIffNoneWithin ==
  ASSUME ScopesInv, DepthsFilled, NEW t \in Threads, NEW act,
         SameGen(activation[t], act.gen), act.depth \in Nat, act.depth <= activation[t].depth
  PROVE  Innermost(activation[t], act) <=> Within(t, act) = {}
<1>1. PICK i \in Levels(t) : /\ i = Len(guards[t])
                             /\ GenAt(t, i) = act.gen /\ DepthAt(t, i) = activation[t].depth
  BY LevelFacts DEF ScopesInv, Levels, SameGen
<1>2. activation[t].depth \in Nat
  BY <1>1, LevelFacts DEF ScopesInv
<1>3. \A s : s \in Within(t, act) <=> s \in RegisteredAt(t, i) /\ scope[s].depth >= act.depth
  BY <1>1 DEF Within, RegisteredAt, Registered
<1>4. \A s \in RegisteredAt(t, i) : scope[s].depth < activation[t].depth /\ scope[s].depth \in Nat
  BY <1>1, ScopeTypes DEF RegisteredAt, ScopesInv, ScopesInOrder, Placed
<1>5. CASE act.depth = activation[t].depth
  <2>1. Innermost(activation[t], act)
    BY <1>5 DEF Innermost, SameGen
  <2>2. \A s : s \notin Within(t, act)
    BY <1>2, <1>3, <1>4, <1>5
  <2>. QED
    BY <2>1, <2>2
<1>6. CASE act.depth # activation[t].depth
  <2>1. ~Innermost(activation[t], act)
    BY <1>6 DEF Innermost
  <2>2. act.depth < DepthAt(t, i)
    BY <1>1, <1>2, <1>6
  <2>3. PICK s \in RegisteredAt(t, i) : scope[s].depth = act.depth
    BY <2>2 DEF DepthsFilled
  <2>4. s \in Within(t, act)
    BY <1>3, <2>3
  <2>. QED
    BY <2>1, <2>4
<1>. QED
  BY <1>5, <1>6

(* C2 and "Leaking values": a context or a close is refused exactly while something
   opened under it is not closed. *)
THEOREM RefusalsAreExact == ScopesSpec => []RefusedIffScopesRemain
<1>1. ASSUME ScopesInv, DepthsFilled, NEW s \in ScopeIds, scope[s].status = "open",
             NEW t \in Threads, t = scope[s].thread, SameGen(activation[t], scope[s].gen)
      PROVE  Innermost(activation[t], ScopeActivation(s)) <=> Within(t, ScopeActivation(s)) = {}
  <2>1. PICK i : i = Len(guards[t])
    OBVIOUS
  <2>2. /\ i \in Levels(t) /\ GenAt(t, i) = scope[s].gen
        /\ DepthAt(t, i) = activation[t].depth /\ DepthAt(t, i) \in Nat
    BY <1>1, <2>1, LevelFacts DEF ScopesInv, Levels, SameGen
  <2>3. scope[s].depth \in Nat /\ scope[s].depth < activation[t].depth
    BY <1>1, <2>2, ScopeTypes DEF ScopesInv, ScopesInOrder, Placed, Registered
  <2>4. /\ ScopeActivation(s).gen = scope[s].gen
        /\ ScopeActivation(s).depth = scope[s].depth + 1
    BY DEF ScopeActivation, Opened
  <2>5. PICK act : act = ScopeActivation(s)
    OBVIOUS
  <2>6. act.depth \in Nat /\ act.depth <= activation[t].depth /\ SameGen(activation[t], act.gen)
    BY <1>1, <2>2, <2>3, <2>4, <2>5
  <2>7. Innermost(activation[t], act) <=> Within(t, act) = {}
    BY <1>1, <2>6, InnermostIffNoneWithin
  <2>. QED
    BY <2>5, <2>7
<1>2. ASSUME ScopesInv, DepthsFilled, NEW t \in Threads, NEW c \in Contexts(t),
             c.lender.by # "witness", SameGen(activation[t], c.act.gen)
      PROVE  Innermost(activation[t], c.act) <=> Within(t, c.act) = {}
  <2>1. CASE \E s \in ScopeIds : /\ scope[s].status = "open" /\ scope[s].thread = t
                                 /\ c.act = ScopeActivation(s)
    <3>1. PICK s \in ScopeIds : /\ scope[s].status = "open" /\ scope[s].thread = t
                                /\ c.act = ScopeActivation(s)
      BY <2>1
    <3>2. c.act.gen = scope[s].gen
      BY <3>1 DEF ScopeActivation, Opened
    <3>. QED
      BY <1>1, <1>2, <3>1, <3>2
  <2>2. CASE \E i \in 1..Len(guards[t]) : c.act = Entered(guards[t][i].gen)
    <3>1. c.act.depth = 0
      BY <2>2 DEF Entered
    <3>2. activation[t].depth \in Nat
      BY <1>2, LevelFacts DEF ScopesInv, Activation
    <3>3. c.act.depth \in Nat /\ c.act.depth <= activation[t].depth
      BY <3>1, <3>2
    <3>. QED
      BY <1>2, <3>3, InnermostIffNoneWithin
  <2>. QED
    BY <1>2, <2>1, <2>2 DEF Contexts, NoLender
<1>3. ASSUME ScopesInv, DepthsFilled, NEW s \in ScopeIds, scope[s].status = "open",
             SameGen(activation[scope[s].thread], scope[s].gen)
      PROVE  Closable(activation[scope[s].thread], scope[s].gen, scope[s].depth)
               <=> Within(scope[s].thread, ScopeActivation(s)) = {}
  <2>1. PICK t \in Threads : t = scope[s].thread
    BY <1>3, ScopeTypes
  <2>2. Innermost(activation[t], ScopeActivation(s)) <=> Within(t, ScopeActivation(s)) = {}
    BY <1>1, <1>3, <2>1
  <2>3. Closable(activation[t], scope[s].gen, scope[s].depth)
          <=> Innermost(activation[t], ScopeActivation(s))
    BY DEF Closable, Innermost, ScopeActivation, Opened
  <2>. QED
    BY <2>1, <2>2, <2>3
<1>4. ScopesInv /\ DepthsFilled => RefusedIffScopesRemain
  BY <1>2, <1>3 DEF RefusedIffScopesRemain
<1>. QED
  BY <1>4, ScopesAreInOrder, FilledInit, FilledNext, PTL DEF ScopesSpec

(* A generation that is on no level of a thread is the one its record shows at no later
   time. *)
StaysStale ==
  \A t \in Threads : \A gen \in Nat :
    gen < genMint /\ ~AliveGen(t, gen) => ~AliveGen(t, gen)' /\ ~SameGen(activation'[t], gen)

LEMMA ShownIsAlive ==
  (IInv => \A t \in Threads : \A gen \in Nat : SameGen(activation[t], gen) => AliveGen(t, gen))'
<1>1. IInv => \A t \in Threads : \A gen \in Nat : SameGen(activation[t], gen) => AliveGen(t, gen)
  BY LevelFacts DEF SameGen, AliveGen, Levels
<1>. QED
  BY <1>1, PTL

(* C3: no step brings a generation back, so a handle that has gone stale, its engine
   detached or destroyed, stays refused for good, however records are restored. *)
THEOREM StaleHandlesStayStale == ScopesSpec => [][StaysStale]_vars
<1>1. ScopesInv /\ ScopesInv' /\ DepthsFilled /\ [ScopesNext]_vars => [StaysStale]_vars
  <2> SUFFICES ASSUME ScopesInv, ScopesInv', DepthsFilled, [ScopesNext]_vars
               PROVE  StaysStale
    OBVIOUS
  <2>1. GenerationsStay /\ IInv'
    BY FilledNext DEF ScopesInv
  <2>. QED
    BY <2>1, ShownIsAlive DEF StaysStale, GenerationsStay
<1>. QED
  BY <1>1, ScopesAreInOrder, FilledInit, FilledNext, PTL DEF ScopesSpec

----------------------------------------------------------------------------------
(* What the attach layer guarantees still holds with scopes on top of it, although
   opening and closing them changes the records that guards save and restore. *)

LEMMA AttachPart ==
  ASSUME ScopesInv, [ScopesNext]_vars
  PROVE  [Next]_attachVars \/ UNCHANGED <<phase, holder, slot, guards>>
<1>1. ASSUME NEW t \in Threads, AttachLayer(t) \/ LentGuardDrop(t)
      PROVE  Next
  BY <1>1 DEF AttachLayer, LentGuardDrop, Next, AttachStep, ThreadStep
<1>2. ASSUME NEW t \in Threads, NEW e \in Engines, EngineEnd(t, e)
      PROVE  Next
  BY <1>2 DEF EngineEnd, Next, AttachStep
<1>3. ASSUME NEW t \in Threads, NEW s \in ScopeIds, ScopeStep(t, s)
      PROVE  UNCHANGED <<phase, holder, slot, guards>>
  BY <1>3
  DEF ScopeStep, FrameOpen, QueryOpen, Open, FrameEnd, QueryEnd, Forget, Rewind, NextSolution,
      Backtrack, attachVars
<1>4. ASSUME NEW t \in Threads, NEW x \in TermIds, NewTerm(t, x)
      PROVE  UNCHANGED <<phase, holder, slot, guards>>
  BY <1>4 DEF NewTerm, attachVars
<1>5. CASE UNCHANGED vars
  BY <1>5 DEF vars, attachVars
<1>. QED
  BY <1>1, <1>2, <1>3, <1>4, <1>5 DEF ScopesNext

(* C1, C3, E1, E4, E5, E6 with scopes: stamped handles find their engine, guards
   restore what they replaced, idle engines are attached nowhere, and the others to
   their owner only. *)
THEOREM AttachmentHoldsWithScopes ==
  ScopesSpec => [](/\ StampedHandleFindsItsEngine
                   /\ RestoreSucceeds
                   /\ IdleEngineIsDetached
                   /\ AttachedOnceByOwner)
<1>1. ScopesInv => /\ StampedHandleFindsItsEngine
                   /\ RestoreSucceeds
                   /\ IdleEngineIsDetached
                   /\ AttachedOnceByOwner
  BY ChainFindsEngines, ChainRestores, ChainHoldsAttached, ChainAttachesOnce DEF ScopesInv
<1>. QED
  BY <1>1, ScopesAreInOrder, PTL

(* E5, E6, E7 with scopes: whatever is opened, leaked, closed or refused meanwhile, the
   threads' engines still behave as the stacks of EngineStacks. *)
THEOREM ScopesImplementStacks == ScopesSpec => ImplementsEngineStacks
<1>1. ScopesInit => Stacks!Init /\ HeldIsAlive
  BY StacksBegin, HeldAliveInit DEF ScopesInit
<1>2. ScopesInv /\ HeldIsAlive /\ [ScopesNext]_vars => HeldIsAlive'
  <2> SUFFICES ASSUME ScopesInv, HeldIsAlive, [ScopesNext]_vars PROVE HeldIsAlive'
    OBVIOUS
  <2>1. CASE [Next]_attachVars
    BY <2>1, HeldAliveNext DEF ScopesInv
  <2>2. CASE UNCHANGED <<phase, holder, slot, guards>>
    BY <2>2 DEF HeldIsAlive
  <2>. QED
    BY <2>1, <2>2, AttachPart
<1>3. ScopesInv /\ ScopesInv' /\ HeldIsAlive /\ [ScopesNext]_vars
        => [Stacks!Next]_(Stacks!stackVars)
  <2> SUFFICES ASSUME ScopesInv, ScopesInv', HeldIsAlive, [ScopesNext]_vars
               PROVE  [Stacks!Next]_(Stacks!stackVars)
    OBVIOUS
  <2>1. CASE [Next]_attachVars
    BY <2>1, StepsAreStackSteps DEF ScopesInv
  <2>2. CASE UNCHANGED <<phase, holder, slot, guards>>
    BY <2>2, OthersStutter
  <2>. QED
    BY <2>1, <2>2, AttachPart
<1>. QED
  BY <1>1, <1>2, <1>3, ScopesAreInOrder, PTL DEF ScopesSpec, ImplementsEngineStacks, Stacks!Spec

----------------------------------------------------------------------------------
(* The contract. *)

(* Switching engines sets or clears the slot of one thread. *)
LEMMA AttachLayerMeetsContract ==
  ASSUME ScopesInv, NEW t \in Threads, AttachLayer(t)
  PROVE  [Contract!Next]_(Contract!contractVars)
<1>0. IInv /\ TypeOK /\ Chain /\ UNCHANGED cstack
  BY DEF ScopesInv, IInv, AttachLayer, scopeVars
<1>1. CASE \/ \E e \in Engines : EngineNew(t, e)
           \/ \E u \in Threads, e \in Engines : EngineSend(t, u, e)
           \/ CurrentEngine(t)
  BY <1>0, <1>1 DEF EngineNew, EngineSend, CurrentEngine, Contract!contractVars
<1>2. CASE RuntimeEngine(t)
  <2>1. Contract!SetEngine(t, t)
    BY <1>0, <1>2, PersistentStaysHome
    DEF RuntimeEngine, AttachedElsewhere, Contract!SetEngine
  <2>. QED
    BY <2>1 DEF Contract!Next
<1>3. CASE \E e \in Engines : Attach(t, e) \/ AttachWithin(t, e)
  <2>1. PICK e \in Engines : AttachUnchecked(t, e)
    BY <1>3 DEF Attach, AttachWithin
  <2>2. Contract!SetEngine(t, e)
    BY <1>0, <2>1, AttachmentAssumption
    DEF AttachUnchecked, Settable, AttachedElsewhere, Contract!SetEngine
  <2>. QED
    BY <2>2 DEF Contract!Next
<1>. QED
  BY <1>1, <1>2, <1>3 DEF AttachLayer

(* Restoring what a guard replaced does, too. *)
LEMMA GuardDropMeetsContract ==
  ASSUME ScopesInv, NEW t \in Threads, LentGuardDrop(t)
  PROVE  [Contract!Next]_(Contract!contractVars)
<1>0. IInv /\ TypeOK /\ UNCHANGED cstack /\ GuardDrop(t) /\ guards[t] # <<>>
  BY DEF ScopesInv, IInv, LentGuardDrop, GuardDrop
<1>1. PICK n \in 1..Len(guards[t]) : n = Len(guards[t])
  BY <1>0, GuardTypes
<1>2. PICK p \in Slots : p = guards[t][n].previous
  BY <1>0, GuardTypes
<1>3. slot' = [slot EXCEPT ![t] = p]
  BY <1>0, <1>1, <1>2, LevelPopped DEF Top
<1>4. Settable(t, p)
  BY <1>0, <1>2, PreviousIsSettable
<1>5. CASE p = None
  <2>1. Contract!Detach(t)
    BY <1>0, <1>3, <1>5 DEF Contract!Detach
  <2>. QED
    BY <2>1 DEF Contract!Next
<1>6. CASE p # None
  <2>1. p \in Engines \cup Threads
    BY <1>6 DEF Slots
  <2>2. Contract!SetEngine(t, p)
    BY <1>0, <1>3, <1>4, <1>6 DEF Settable, AttachedElsewhere, Contract!SetEngine
  <2>. QED
    BY <2>1, <2>2 DEF Contract!Next
<1>. QED
  BY <1>5, <1>6

(* An engine is destroyed while attached nowhere. *)
LEMMA EngineEndMeetsContract ==
  ASSUME ScopesInv, NEW t \in Threads, NEW e \in Engines, EngineEnd(t, e)
  PROVE  [Contract!Next]_(Contract!contractVars)
<1>0. IInv /\ TypeOK /\ ~Borrowed(e)
  BY DEF ScopesInv, IInv, EngineEnd, EngineDrop, Owns
<1>1. UNCHANGED slot /\ \A u \in Threads : slot[u] # e
  BY <1>0, UnborrowedIsDetached DEF EngineEnd, EngineDrop, TypeOK
<1>2. CASE cstack' = [cstack EXCEPT ![e] = <<>>]
  <2>1. Contract!Destroy(e)
    BY <1>1, <1>2 DEF Contract!Destroy
  <2>. QED
    BY <2>1 DEF Contract!Next
<1>3. CASE UNCHANGED cstack
  BY <1>1, <1>3 DEF Contract!contractVars
<1>. QED
  BY <1>2, <1>3 DEF EngineEnd

(* A scope is opened once, on the stack of the attached engine. *)
LEMMA OpenMeetsContract ==
  ASSUME ScopesInv, NEW t \in Threads, NEW s \in ScopeIds, NEW kind, Open(t, s, kind)
  PROVE  [Contract!Next]_(Contract!contractVars)
<1>1. slot[t] \in Engines \cup Threads
  BY ContextIsAttached DEF Open
<1>2. \A e \in Engines \cup Threads : \A i \in 1..Len(cstack[e]) : cstack[e][i] # s
  BY DEF Open, ScopesInv, StacksHoldScopes, Members, Registered
<1>3. Contract!Open(t, s)
  BY <1>1, <1>2, AttachmentAssumption DEF Open, Contract!Open
<1>. QED
  BY <1>3 DEF Contract!Next

(* What is closed is the scope on top of that stack; nothing else is cut off. *)
LEMMA EndMeetsContract ==
  ASSUME ScopesInv, NEW t \in Threads, NEW s \in ScopeIds, scope[s].status = "open",
         scope[s].thread = t, End(t, s), UNCHANGED slot
  PROVE  [Contract!Next]_(Contract!contractVars)
<1>1. CASE Closable(activation[t], scope[s].gen, scope[s].depth)
  <2>1. /\ slot[t] \in Engines \cup Threads /\ cstack[slot[t]] # <<>>
        /\ Top(cstack[slot[t]]) = s
    BY <1>1, ClosableIsTop DEF Registered
  <2>2. Below(cstack[slot[t]], s) = Pop(cstack[slot[t]])
    BY <2>1, ScopeTypes, TopGoes
  <2>3. cstack' = [cstack EXCEPT ![slot[t]] = Pop(cstack[slot[t]])]
    BY <1>1, <2>2 DEF End
  <2>4. Contract!Close(t)
    BY <2>1, <2>3, AttachmentAssumption DEF Contract!Close, Pop
  <2>. QED
    BY <2>4 DEF Contract!Next
<1>2. CASE ~Closable(activation[t], scope[s].gen, scope[s].depth)
  BY <1>2 DEF End, Contract!contractVars
<1>. QED
  BY <1>1, <1>2

(* Every step is one the contract allows. *)
LEMMA StepsMeetContract ==
  ScopesInv /\ [ScopesNext]_vars => [Contract!Next]_(Contract!contractVars)
<1> SUFFICES ASSUME ScopesInv, [ScopesNext]_vars
             PROVE  [Contract!Next]_(Contract!contractVars)
  OBVIOUS
<1>1. ASSUME NEW t \in Threads, AttachLayer(t) \/ LentGuardDrop(t)
      PROVE  [Contract!Next]_(Contract!contractVars)
  BY <1>1, AttachLayerMeetsContract, GuardDropMeetsContract
<1>2. ASSUME NEW t \in Threads, NEW e \in Engines, EngineEnd(t, e)
      PROVE  [Contract!Next]_(Contract!contractVars)
  BY <1>2, EngineEndMeetsContract
<1>3. ASSUME NEW t \in Threads, NEW s \in ScopeIds, ScopeStep(t, s)
      PROVE  [Contract!Next]_(Contract!contractVars)
  <2>1. CASE FrameOpen(t, s) \/ QueryOpen(t, s)
    BY <2>1, OpenMeetsContract DEF FrameOpen, QueryOpen
  <2>2. CASE FrameEnd(t, s) \/ QueryEnd(t, s)
    <3>1. scope[s].status = "open" /\ scope[s].thread = t /\ End(t, s) /\ UNCHANGED slot
      BY <2>2 DEF FrameEnd, QueryEnd, Exclusive
    <3>. QED
      BY <3>1, EndMeetsContract
  <2>3. CASE Forget(t, s)
    BY <2>3 DEF Forget, attachVars, Contract!contractVars
  <2>4. CASE Rewind(t, s) \/ NextSolution(t, s)
    <3>1. UNCHANGED slot /\ UNCHANGED cstack
      BY <2>4, BacktrackKeeps DEF Rewind, NextSolution, Exclusive, Backtrack, attachVars
    <3>. QED
      BY <3>1 DEF Contract!contractVars
  <2>. QED
    BY <1>3, <2>1, <2>2, <2>3, <2>4 DEF ScopeStep
<1>4. ASSUME NEW t \in Threads, NEW x \in TermIds, NewTerm(t, x)
      PROVE  [Contract!Next]_(Contract!contractVars)
  BY <1>4 DEF NewTerm, attachVars, Contract!contractVars
<1>5. CASE UNCHANGED vars
  BY <1>5 DEF vars, attachVars, scopeVars, Contract!contractVars
<1>. QED
  BY <1>1, <1>2, <1>3, <1>4, <1>5 DEF ScopesNext

(* C2: whatever a program does with guards, frames, queries and references, the
   calls the crate makes are calls SWI-Prolog allows. *)
THEOREM ContractIsMet == ScopesSpec => MeetsFliContract
<1>1. ScopesInit => Contract!Init
  BY DEF ScopesInit, Init, Contract!Init
<1>. QED
  BY <1>1, StepsMeetContract, ScopesAreInOrder, PTL
  DEF ScopesSpec, MeetsFliContract, Contract!Spec
===================================================================================
