# Formal models of splint

splint is a Rust crate of safe bindings to the C API of SWI-Prolog. Its claim is
that no safe program can bring the C side into a state in which the API is
undefined: whatever Rust's borrow checker cannot see is caught at run time by
comparing a thread-local *activation record* with what each handle remembers.
The claim is an argument about long sequences of legal calls, made by several
threads, on two sides (Rust values and C stacks) that must agree. These modules
state that argument, model-check it with TLC on small instances, and prove it with
TLAPS for every instance; only liveness and what the recursive conversions compute are
model-checked alone. Invariants are named as in the crate's own documentation
(`splint/src/lib.rs`): R1-R5, E1-E7, C1-C3, F1-F6, Q1-Q2, and so on.

## The system

| part | source | state | operations | correct when |
|---|---|---|---|---|
| activation record | `scope.rs` | per thread `(gen, depth)`, one global generation counter | enter, restore, open, close, try-close, two assertions | it describes the attached engine and its open scopes |
| engines | `engine.rs` | a C engine per `Engine`; per thread the attached engine and the live guards | new, send, attach, attach within, guard drop, drop, witnesses | guards nest; every restore succeeds; an idle engine is attached nowhere |
| runtime | `runtime.rs` | `RUNTIME_STATE` under a mutex, C-side flags | initialize, initialize from state, engine, current engine | one `Runtime`, C calls serialized, failures lock nobody out |
| frames, contexts, terms | `term.rs` | per engine a C stack of scopes, per scope its references | open, close, discard, drop, rewind, allocate; put/get/unify | scopes close last-in first-out; a reference lives as long as its type says |
| queries | `query.rs`, `call.rs` | a query id, depth, `exhausted` | open, advance, cut, close, drop; once, solutions | bindings kept or undone as told; errors reach the caller; every query ended |
| exceptions | `exception.rs` | the engine's pending exception | take and clear | none is left pending |
| handles | `handles.rs` | reference counts of atoms | new, clone, drop | a live atom is never collected |
| records | `record.rs`, `external_record.rs` | shared recorded copies | record, clone, recall, drop | erased once, never recalled afterwards |
| dicts | `term/dict.rs` | a collector during `PL_for_dict` | put, get, entries, tag | entries complete or an error, nothing pending |
| codec | `codec.rs`, `codec_args.rs`, `args.rs` | none (functions) | encode and decode values, fields, tuples, argument blocks | decoding inverts encoding |
| derive | `splint-derive/src/lib.rs` | none (functions) | rename, generate encoders and decoders | as the codec; distinct names stay distinct |
| raw bindings | `swipl-sys` | none | generated declarations, build script | - |

How they interact. An attach guard replaces the engine in the thread's C slot and
saves the record; its drop puts both back. Frames and queries are opened through
a context (a guard, a frame, a query, or a `CurrentEngine` witness), check the
record and push one scope on both sides. References are allocated in whatever C
scope is on top. Queries run callbacks while open, so every one of these calls can
happen inside another one. Threads share engines by sending them, never by
attaching one twice. A panic unwinds through all layers and runs their
destructors; `mem::forget` runs none of them.

What is hard about it: two stacks and a record that must move in lockstep across
nested attachments (C1, E5); contexts and scopes that alias each other without a
borrow (C2); snapshots used later (C3, `CurrentEngine`); leaks at any point; other
threads moving and dropping engines; errors and panics between two C calls; a C
initializer that is not thread-safe. `PROJECT.json` lists each hazard at its line.

## Modules

| module | models | abstract counterpart |
|---|---|---|
| `Scope` | `scope.rs`: one operator per function, as tests and new values of a record | |
| `Attachment` | `engine.rs`, the engine half of `runtime.rs` | `EngineStacks` |
| `AttachmentLeaks` | the same with guards and engines leaked | |
| `AttachmentProofs` | theorems about `Attachment` | |
| `AttachmentLeaksProofs` | theorems about `AttachmentLeaks` | |
| `ForeignScopes` | `term.rs` and `query.rs` as scopes and references, composed with `Attachment` | `FliContract` |
| `MCForeignScopes` | symmetry sets for TLC | |
| `ForeignScopesProofs` | theorems about `ForeignScopes` | |
| `ScopedCalls` | `with_frame`, `once`, `solutions` and relatives: control, bindings, errors, panics | `Transactions` |
| `ScopedCallsProofs` | theorems about `ScopedCalls` | |
| `RuntimeInit` | `Runtime::initialize` on several threads | |
| `RuntimeInitProofs` | theorems about `RuntimeInit` | |
| `Codec` | `codec.rs` and the code `splint-derive` generates, as recursive operators | |
| `Results` | `Ok` and errors; collecting a sequence of them up to the first error | |
| `ArgumentBlock` | `args.rs`, `codec_args.rs`, the `*_with` queries: an argument block seeded, bound and decoded, for any conversions | per-argument laws |
| `ArgumentBlockProofs` | theorems about `ArgumentBlock` | |
| `PreparedArgs` | `ArgumentBlock` with the conversions of `Codec`, and what these are for | `Agrees`, `Unambiguous`, `Normal` |
| `MCPreparedArgs` | the Rust types and argument tuples for TLC | |
| `SharedHandles` | `handles.rs`, `record.rs`: atoms with their reference counts, records with their `Arc`s, on several threads | `SharedValues`, twice |
| `MCSharedHandles` | symmetry sets for TLC | |
| `SharedHandlesProofs` | theorems about `SharedHandles` | |
| `TermOps` | `term.rs`, `term/dict.rs`, `handles.rs`, `record.rs`, `external_record.rs`, the helpers of `codec.rs` as sequences of C calls that may fail | |
| `TermOpsProofs` | theorems about `TermOps` | |

`Scope` is used by `Attachment` and `ForeignScopes`, so one change of a check
there is a change of the crate's check everywhere. `ForeignScopes` EXTENDS
`Attachment`: its steps are the steps of the attach layer, restricted by the
borrows that scopes hold, plus those of frames, queries and terms.

### Attachment

`slot[t]` is what `PL_current_engine` answers on thread `t`; `activation[t]` the
`ACTIVATION` cell; `guards[t]` the `AttachedEngine` values of the thread's nested
callbacks, outermost first; `holder[e]` the thread that owns the `Engine` value;
`phase[e]` the C engine; `genMint` the `GEN_MINT` counter; `witnesses` the snapshots
of `CurrentEngine`. A persistent engine (the main engine, or the one made by
`Runtime::engine`) has no handle and is named after its thread. What the borrow
checker forbids is a guard condition: `Owns` is "may use `&mut self`", false while a
guard lives. A refused call (`AlreadyAttached`, `NotInnermost`) changes nothing and
is a stutter. `PL_set_engine` is `Settable`: refused for a destroyed engine or one
attached elsewhere.

`with_attached` is `Attach`, the callback's steps, then `GuardDrop`, the same for a
return, an error and a panic. `attach_within` may name any guard of the thread, for
a callback may have several in reach; only the innermost passes the check.

### ForeignScopes and FliContract

`cstack[e]` is the C stack of scopes of engine `e`. `scope[s]` is a `Frame` or `Query`
value with the generation and depth it remembers and its *lender*, the value it
borrows; a value that lends can be neither moved nor borrowed exclusively, which is
how the borrow checker enters. A witness lends nothing. `term[x]` is a `Term` a
program can still use, with the scope it really lies in and whether C has freed it.

The C operations are modelled as they are, unchecked: `PL_close_foreign_frame`
removes the scope and everything above it, a rewind or backtrack everything above
the scope, and `PL_new_term_ref` allocates in the scope on top whatever context was
named. The Rust checks decide whether they are reached. A failed check panics before
the C call; the consumed handle is then *lost*, its scope open and its depth
registered, like one that was leaked with `Forget`.

`FliContract` says what SWI-Prolog requires: scopes are opened and closed on top of
the stack of the engine attached to the caller, nothing is cut off, no engine is
attached twice or destroyed while attached. `MeetsFliContract` is the refinement
(slots and C stacks, the Rust side forgotten): a legal Rust program makes only
legal C calls.

### ScopedCalls and Transactions

One thread, one engine, calls nested in callbacks, and three parties that take turns.
The *program* opens frames and queries, binds variables, returns from a callback, fails
or panics in it, asks, cuts, closes or drops an iterator, and asks again one that is over.
The *crate* registers a scope or takes it off the record, makes one C call and acts on
what it returned. *Prolog* answers the call (`CReturns`) in a step of its own: opening
works, raises or is refused without an exception; an advance finds a solution, the last
solution or none, raises, or ends in a status that says nothing; ending a query works,
fails with an exception or fails with none. `returned` and `pending` are what C has
answered and the exception it has left on the engine, until the crate has acted on
them; each of its branches does so for itself: `OpenFails` withdraws the scope and takes
the exception, `AdvanceFails` takes it and goes on to close, `Finish` looks at it only
where the status of a cut or close was false, `WithCleanup` pairs it with the error in hand,
and `Dropped` clears it, for a destructor has nobody to tell.

`calls` is the stack of open frames and queries, each with the place it is at and two
lists: `errors` is what the crate holds to report, `occurred` what has really gone
wrong, written by the C calls and the callbacks. `activation` is the record with its
check (`Scope`), `trail` the bindings in force, `mark` its length when a call was opened.
A panic starts in any callback, unwinds call by call, and may be caught anywhere below;
an iterator whose mapper panicked, like one that is exhausted or has failed, has given up
its query and lives on in the code that holds it (`spent`). `last` is what the caller was
told beside what had in fact gone wrong.

Assumed: `PL_cut_query` and `PL_close_query` never answer `PL_S_NOT_INNER` (the crate
panics; `CloseHitsTop` in `ForeignScopes` is that it has no reason to), ending a frame
cannot fail, and a status that is not a documented one comes with no exception.

`Transactions` knows nested levels of bindings, each merged into the one below or
dropped. `ImplementsTransactions` maps the part of the trail above each mark to a
level, and the outcome told to the caller to the choice: `Ok` means kept, an error of
the callback, no solution, a panic or an abandoned iterator mean undone. The one
outcome that is both is the error of a *cut* after a successful callback ("late"):
the crate reports the error, and the bindings stay.

### RuntimeInit

`lock` is the mutex of `RUNTIME_STATE`, `pc[c]` the caller's place in
`initialize_inner`, `inC` the callers inside a C function. The argument iterator runs
under the lock and may yield a bad argument or panic; the panic drops the guard while
unwinding, which poisons the mutex for good (`poisoned`). `Lock` takes it all the same, as
the code does; that nobody is turned away by the poison is part of `RefusedOnlyWhenUp`
(`LockUnlessPoisoned` breaks it). Both C functions may fail.

### Codec, ArgumentBlock and PreparedArgs

A Rust type is a small tree (`<<"vec", <<"int", 0, 1>> >>`, a struct with its fields
and their attributes, an enum with its mode and variants), a Prolog term another, and
`ToTerm`, `FromTerm` and the hidden `__to_field`, `__from_field`, `__to_fields`,
`__from_fields` are mutually recursive operators that return `Ok` or the error. What
the derive macros *generate* is what is modelled: a type that derives both traits is
one node of the tree. Wire names are given with the type; two of them may be equal, as
after a rename rule that merges two Rust names (`clash`, `twins`, `kinds`), and how the
rule got there is outside.
Container-level `default` is `default` on every field, as in the generated code.
Keys of maps are text, truth values or numbers; `decode_key` reads a number in every
spelling that `str::parse` takes (`+1`, `01`; `-0` for a signed type), so that two keys of a
dict may be one key of the map, of which the later text in string order stays.
Numbers stand for every integer type by their range; text is an opaque string of which
`"1"` is also a number. `Box` and `Arc` do not forward the field forms.

`ArgumentBlock` is a prepared call. `args` holds the arguments of one call,
`PrepareArgs` seeds the block in order, `NextSolution` lets Prolog bind each unbound
argument to any *answer*, `DecodeArgs` reads them all, and another solution may follow.
How one argument is written and read (`Seeding`, `Decoding`), what may answer it
(`AnswersTo`), and what is asked of it (`Restores`, `Says`, `Encodes`) are constant
operators, so that the block can be reasoned about without the conversions. `PreparedArgs`
defines `Seed`, `Decode` and the rest with `Codec`, and the configurations assign them.
Answers are the encodings of all values of the type and their variations: one item,
key, argument, tag, name or spelling changed anywhere in the term, and keys in other
spellings beside or instead of the right one. Types with misplaced
Options or with fields skipped in one direction only are inputs, never answers.

The properties do not follow the decoders. `Agrees` says when two terms say the same
(text as atom, string or number, `on` for `true`, keys as numbers or text); `MapSays` that
a map has exactly the keys that a dict's texts denote, each with a value it was given there;
`Unambiguous` which values cannot be mistaken for another of their type: a flattened
map has no key of another field and is read last, no field stands in for an earlier
one of its name that is `None`, and no earlier variant has the same name or, untagged,
reads the same term. All these exceptions are real and are what a user of these
attributes must know; the types `open`, `greedy`, `confused`, `clash`, `twins` and `kinds`
have values on both sides. Two fields of one name that are both present are never
written: `put_dict` refuses them.

### SharedHandles and SharedValues

The atom table is `text[c]`, the text of each of its cells (the values of `atom_t`), and
`count[c]`, the references on it. An atom that no reference, no functor, module or
predicate (`kept`) and no term on any thread's stack (`stack[t]`) needs may be taken by
`Collect` at any step and its cell reused. `atom[h]` is an `Atom` value with its cell and,
as a ghost, the text it was made for; `raw[t]` are the raw atoms that thread `t` has read
and not registered yet, of which `dict_entries` holds several at once. `Term`s and raw
atoms belong to one thread, so that thread closes no frame while it is inside such an
operation; every other thread and the collector go on.

A recorded copy counts its `Record`s (`strong`) and holds references on its atoms.
`RecordDrop` is the count-down of the `Arc`, `Erase` the drop of the `RawRecord` by the
thread that took the last one, and a recall is two steps with anything in between: it
borrows its `Record`, which can be cloned but not dropped meanwhile. A recorded term and
a term on a stack are represented by one atom in it.

`SharedValues` knows values and their owners: a value with an owner is there, one that
goes has no owner. It is instantiated twice. Atoms (owned by handles and by copies) can be
found again while nobody owns them (`Revivable`); copies (owned by records) cannot.

### TermOps

One operation at a time, as the list of C calls it still has to make (`todo`). Every call
may succeed, fail with an exception pending, or fail with none, as its kind allows; then
the crate looks at the result and goes on, or returns an error and takes the exception.
`held` is what must be given back: the query inside `dict_tag`, the C buffers behind an
`ExternalRecord` and a text. Lists and dicts are taken apart cell by cell: `collect_list`
asks for the shape first, `dict_entries` collects in a callback that can only make a note
(`errors`), and its exception is taken when `PL_for_dict` is back. `dict_tag` runs the steps
of `once_optional` and flattens its errors (`DictQueryError`). `Begin` is the operation's
entry; its checks of generation and depth are in `ForeignScopes`, early refusals of
arguments are `ArgumentsDoNotFit`.

Assumed of Prolog: tests and `PL_skip_list` do not raise; allocations and puts fail only
with an exception (`check_put` and `term` panic otherwise), and so does closing a query;
`PL_for_dict`, whose result the code does not look at (`term/dict.rs:116`), fails only where
the callback does.

## Runs

| run | question | bounds | states |
|---|---|---|---|
| `attachment` | do record, slot and guards stay in step, whatever two threads do with three engines? | `MaxGen` 4 attachments, 2 witnesses | 196 000 |
| `attachment_leaks` | does the generation of a leaked attachment stay current, and does a handle that passes its check reach its own engine, or, if that is destroyed, no other with an owner? | 3 attachments, 2 witnesses | 571 000 |
| `foreign_scopes` | do the C2/C3 checks keep scopes and references right on one thread? | 2 owned engines and the main one, 3 attachments, 3 scopes, 1 witness, 1 reference | 381 000 |
| `scopes_two_threads` | does every C call respect the contract when engines move between threads with scopes still open? | 2 threads, 2 engines, 2 scopes | 621 000 |
| `aliased_terms` | does F1 hold for every `Term`, as documented? (it does not) | 1 thread, 1 scope | violation |
| `scoped_calls` | does every branch take the exception it must, report what went wrong, keep or undo the bindings, and end every query? | 3 calls, 2 solutions, trail of 2 | 984 000 |
| `runtime_init` | R1, R2 and recovery from failed attempts and a poisoned mutex | 3 callers, 2 attempts each | 142 000 |
| `prepared_args` | are values read back, and answers read as what they say? | 28 types, ints of 2 or 3 values, 2 texts, lists of 2, calls of up to 3 arguments, keys with up to two extra leading characters | 9 500 |
| `defaulted_options` | is an Option valid as a field, as documented? (not with a default) | 2 types | violation |
| `tuple_arity` | does the arity error count the items? (not for tuples) | 2 types | violation |
| `shared_handles` | A1, A2, RC1: does every handle keep what it denotes, on any thread, whatever is collected? | 2 threads, 2 cells, 2 texts, 2 `Atom`s, 2 copies, 3 `Record`s | 102 000 |
| `term_ops` | A3, XR1: is the engine clean after every operation, and the right error reported? | lists, dicts and compounds of up to 3 items | 734 |

Why these bounds are enough for the interesting cases. The attach layer needs a base
attachment, a nested one, and a third engine that another thread attaches or drops
meanwhile: three engines, two threads, and one generation more so that a generation
can be minted after others were given up. The scope checks need siblings with one
more scope over or under them (three scopes), a second engine to switch to and back
(one reused after a restore, hence three generations), one witness to alias a scope
and one reference to die too early. A nested transaction that goes wrong needs an
outer and an inner call; the third makes room for a call that fails inside an
iterator's callback. Two solutions distinguish the first advance from a retry.
Three callers of `initialize` give one inside C, one that waits and one that arrives
late; two attempts give a retry after a failure. Identities of scopes are not reused:
a bound on opened scopes, not on open ones. The codec has one type for every shape and
attribute; conversions work item by item, so that lists of two and one level of
nesting show a wrong order, a dropped item and a wrong neighbour. One cell to free and
reuse and one that stays, under two texts, are enough for an atom to change its meaning;
two `Atom`s give a clone that outlives its original, three `Record`s a copy with two
clones beside another copy, two threads a drop or a collection during the other's
recall or registration. In `TermOps` an operation fails at most once in its work and once
in its cleanup, and three items give a first, a middle and a last one to fail at.

What the properties say, beyond one type invariant per module:

- `StampedHandleFindsItsEngine` (C1, C3): a handle that passes its generation check is
  on its own engine. `RestoreSucceeds` (E5): no step of another thread can make a
  guard's restore fail. `IdleEngineIsDetached` (E1, E4). `ImplementsEngineStacks`:
  attaching and dropping are push and pop on per-thread stacks of engines, each
  engine in one at most.
- `LeakStaysCurrent`, `LeakNeverCrossesEngines`: what is true of the paragraph "Leaking
  values" of `lib.rs` for attachments. The first is about the record. The second is C3 with
  one exception, which the documentation does not make: see "Disagreements".
- `CloseHitsTop` (C2): a close that passes the check closes the scope on top of the
  right C stack. `AllocationLandsInContext` (C2), `UsableReferencesAreOnTheirEngine`
  (C3), `BorrowedReferencesAreLive` (F1, F4, Q1), `RefusedIffScopesRemain`
  (C2, leaks): a context or close is refused exactly while something that was opened
  under it is not closed, so that a leak blocks everything outside it and a program that
  closes what it opens is never refused. `MeetsFliContract`.
- `EngineInOrder` (C2, A3): no C call is made, and the program never runs, with the
  exception of an earlier call pending, and the program never runs with a scope
  registered that is not open. `NothingSwallowed`: what a caller is told is what went
  wrong at the C side and in the callback, all of it and in order; only the exception that
  a destructor meets is lost. `ImplementsTransactions` (F6, Q1, Q2), and the liveness
  property `EverythingCloses`, also for iterators that are asked again after a panic.
- `InitialiseSerialized` (R2), `OneRuntime` (R1), `RefusedOnlyWhenUp` (no failed attempt,
  and no poisoned mutex, turns a caller away), and the liveness property `CallsReturn`.

- `InputsComeBack`: an unambiguous input is decoded as itself, with skipped fields
  reset. `AnswersAreRead`: what an answer is read as can be written again and agrees
  with the answer. `RefusalsAreJustified`: an answer that fully agrees with an encoding
  is never refused.
- `HandlesMeanTheirText` (A1): no handle, and no raw atom between its reading and its
  registration, ever denotes another text. `EqualityIsByText`: comparing handles is
  comparing texts. `CountsAreExact`: references neither run out nor are left behind.
  `OneErase`, `RecordsMeanTheirText` (RC1). `ImplementsSharedAtoms`,
  `ImplementsSharedCopies`.
- `EngineLeftClean` (A3, XR1), `FirstExceptionReported`, `CollectedWhole`: after an
  operation nothing is pending or held, the first exception is the one reported, and a
  list or dict came whole or not at all; all three for dicts only as far as `PL_for_dict`
  fails only where its callback does.

Each property of a passing run has a mutant in `PROJECT.json`: a faulty form of one definition (a
dropped check, a missing restore, an exception left pending, ...) under which the run
reports it violated. The faulty forms stand in the modules next to the right ones.

### Disagreements between documentation and code

F1 says that no `Term` can outlive, or see the closing of, the scope it was allocated
in (`splint/src/lib.rs:105-109`). A `CurrentEngine` witness snapshots the record of
the moment (`engine.rs:414`). Taken while a frame is open, it has the activation of
that frame's inside, so that it may allocate in the frame; but the `Term` borrows
the witness, not the frame. The frame can be closed, and the `Term` is still usable,
since its operations compare the generation only (`scope.rs:134`). The run
`aliased_terms` finds the four steps. The crate knows of such witnesses where scopes
alias (F4, Q1) but not for terms. `BorrowedReferencesAreLive` is F1 without this case,
and holds.

The text of the error `OptionOutsideField` says that Options and unit are valid "as struct
fields or map values" (`codec.rs:67`). Neither holds in full. A field with a `default`,
its own or its container's, is decoded with `from_term` when it is present
(`splint-derive/src/lib.rs:313, 319`), which an Option always refuses: `Some` is written
and cannot be read back (`defaulted_options`). Map values are converted with
`to_term` and `from_term` (`codec.rs:662, 684`), so a map of Options cannot be written at
all (read from the code; no run of its own). And the arity error "expected N item(s), found M" (`codec.rs:69`)
has M = 0 for any list too short for a tuple and M = N + 1 for any too long
(`tuple_arity`).

"Leaking values" says that a leaked guard leaves the engine attached, its generation
current (`lib.rs:238-241`), and `Engine::attach` that it stays attached to the thread
"indefinitely" and can no longer be destroyed from *another* thread
(`engine.rs:161-164`). On its own thread it can: nothing borrows the `Engine` once its guard
is forgotten, and `Engine::drop` (`engine.rs:288-297`) destroys and detaches an engine
attached to the calling thread, while the record keeps the leaked generation. A witness
taken under the leaked guard then passes its generation check with no engine attached, or
with the persistent engine of the thread if `Runtime::engine` has attached one since.
`LeakNeverCrossesEngines` names exactly this exception (that engine destroyed, and what is
attached instead no engine with an owner) and holds; without it the property fails as soon
as the engine is dropped: create, attach, take a witness, leak the guard, drop the engine,
and then `Runtime::engine` for another engine under the same generation. Guards are lent
to callbacks by reference, so that only code inside the crate could leak one, and none does.

Two more sentences are not what the code does, without consequences a run could show.
A1 and `handles.rs:33` say that every construction path registers its atom and that none
relies on the protection of a fresh one; `Atom::new` does not register and takes over the
reference that `PL_new_atom_nchars` returns (`handles.rs:46-49`), which is right:
registering as well would leave one behind (`AtomNewRegistering`, which breaks
`CountsAreExact`). TC1 says that conversions open no scopes of their own (`lib.rs:228`);
a derived decoder calls `require_dict_tag`, and `dict_tag` opens a query
(`term/dict.rs:187`), closed before it returns, as `EngineLeftClean` says.

### Fairness and deadlock

`ScopedCalls`: the crate's own steps are fair (its functions return if Prolog's do);
callbacks return, a frame that is held is closed or dropped, and a suspended iterator is
asked again. These are
assumptions about the caller and Prolog, and nothing weaker suffices: a callback that
loops keeps its query open. No fairness is assumed for opening calls, for panics or
for which answer Prolog gives, and the number of solutions of a query is finite.
`RuntimeInit`: each caller's step is weakly fair: a thread that can run does, the
argument iterators end, the C functions return. That suffices although the mutex is
not fair, because attempts are finite.

Deadlock is checked in the attach and scope runs, which can always take or repeat a
witness, in `SharedHandles`, and in `TermOps`, where every operation returns and another
can be begun. In `ScopedCalls` and `RuntimeInit` the program may simply have made all its
calls. `PreparedArgs` stops when the block or an answer was refused.

## Proofs

Every safety invariant, action property and refinement that a passing run checks is also
a theorem, those of prepared calls under a hypothesis named below. It holds for all sets of threads,
engines, scopes, references, cells, handles, records, callers and calls, and for all values
of the bounds. The assumptions are those the modules state, named, beside their constants.
They say that the sets which stand for different kinds of things, and the value that
stands for "none", are distinct; that the bounds are natural numbers; and that the
handles and records a program ever makes (`Atoms`, `Copies`, `Records`) are finitely
many, so that they can be counted. Of the conversions of prepared calls they say that each
returns a value or an error. TLC evaluates them on every run.

| module | theorem | states |
|---|---|---|
| `AttachmentProofs` | `TypeCorrect` | `TypeOK` |
| | `ChainCorrect` | the inductive invariant `IInv` |
| | `StampedHandles` | `StampedHandleFindsItsEngine` |
| | `GuardsRestore` | `RestoreSucceeds` |
| | `IdleEngines` | `IdleEngineIsDetached` |
| | `EnginesAreAttachedOnce` | `AttachedOnceByOwner`: an attached engine is alive, on no other thread, and on its owner's |
| | `AttachmentImplementsStacks` | `ImplementsEngineStacks` |
| `AttachmentLeaksProofs` | `LeaksNeverCross` | `LeakNeverCrossesEngines` |
| | `LeaksStayCurrent` | `LeakStaysCurrent` |
| `ForeignScopesProofs` | `ScopesAreInOrder` | the inductive invariant `ScopesInv` |
| | `ScopesTypeCorrect` | `ScopesTypeOK` |
| | `ClosesHitTheTop` | `CloseHitsTop` |
| | `AllocationsLand` | `AllocationLandsInContext` |
| | `DepthsCountScopes` | `DepthsAreExact`: each depth counts exactly the scopes not closed |
| | `RefusalsAreExact` | `RefusedIffScopesRemain` |
| | `StaleHandlesStayStale` | `[][StaysStale]_vars`: what the generation check refuses once for good it never accepts again |
| | `AttachmentHoldsWithScopes` | the guarantees of the attach layer, with scopes |
| | `ScopesImplementStacks` | `ImplementsEngineStacks`, with scopes |
| | `ReferencesOnTheirEngine` | `UsableReferencesAreOnTheirEngine` |
| | `BorrowedReferences` | `BorrowedReferencesAreLive` |
| | `ContractIsMet` | `MeetsFliContract` |
| `ScopedCallsProofs` | `CallsStayNested` | the inductive invariant `CallsInv` |
| | `CallsTypeCorrect` | `CallsTypeOK` |
| | `EngineStaysInOrder` | `EngineInOrder` |
| | `EveryErrorReported` | `NothingSwallowed` |
| | `CallsAreTransactions` | `ImplementsTransactions` |
| `RuntimeInitProofs` | `InitTypeCorrect` | `InitTypeOK` |
| | `InitialiseIsSerialized` | `InitialiseSerialized` |
| | `OnlyOneRuntime` | `OneRuntime` |
| | `RefusalsAreTrue` | `RefusedOnlyWhenUp` |
| `SharedHandlesProofs` | `HandlesTypeCorrect` | `HandlesTypeOK` |
| | `HandlesKeepTheirText` | `HandlesMeanTheirText` |
| | `AtomEqualityIsByText` | `EqualityIsByText` |
| | `CountsStayExact` | `CountsAreExact` |
| | `ErasedOnce` | `OneErase` |
| | `RecordsKeepTheirText` | `RecordsMeanTheirText` |
| | `AtomsAreShared` | `ImplementsSharedAtoms` |
| | `CopiesAreShared` | `ImplementsSharedCopies` |
| `TermOpsProofs` | `OpsFollowTheirCalls` | the inductive invariant `OpsInv` |
| | `OpsTypeCorrect` | `OpsTypeOK` |
| | `NothingLeftBehind` | `EngineLeftClean` |
| | `FirstExceptionWins` | `FirstExceptionReported` |
| | `CollectedInOrder` | `CollectedWhole` |
| `ArgumentBlockProofs` | `CallCorrect` | the inductive invariant `CallInv` |
| | `CallsArePositional` | `OutcomeByPosition`: a solution is its positions, each read from its own term, in order |
| | `PreparedCallsAreWellFormed` | `PreparedTypeOK` |
| | `InputsSurviveCalls` | `InputsAloneComeBack` implies `InputsComeBack` |
| | `AnswersAreReadInCalls` | `AnswersAloneAreRead` implies `AnswersAreRead` |
| | `RefusalsAreJustifiedInCalls` | `RefusalsAloneAreJustified` implies `RefusalsAreJustified` |

Hardly any of these is inductive by itself. What makes them so, component by component
(each of these invariants was checked with TLC before it was proved):

**Attachment.** That dropping the inner guard leaves the outer one able to restore depends
on what the outer one saved long before. `IInv` says what connects them. On every thread
the guards form a *chain*: the first saved an unmanaged record and an empty or persistent
slot, each further one the generation and engine of the guard below it, and slot and
record are those of the innermost (`Chain`). No engine and no generation occurs twice in
all the chains (`Distinct`). A witness's generation was minted, and if a guard still has it
the witness was taken under that guard (`Attributed`). Attaching needs that a borrowed
engine cannot be attached again (`Owns`) and that `genMint` is new; dropping a guard needs
that the restore is `Settable`, which follows from `Distinct` and from a persistent engine
being on its own thread's slot only (`PreviousIsSettable`). `PushStack` and `PopStack` are
about sequences used as stacks. For the refinement the stack of a thread is its
persistent engine, if there is one, under the engines of its guards; it is read off the
slot when there are no guards and off the first guard's saved slot otherwise, so each
step needs that the two readings agree.

**Leaks.** When a guard is leaked the chain survives but for its end: slot and record are
those of the innermost guard left, or those of an attachment that no guard owns any more
(`LeakyChain`). In the second case no restore and no checked attach can pass, so it stays:
that is `LeakStaysCurrent`. A witness of a leaked, current attachment saw the engine that
is still in the slot, or that engine is destroyed and the slot is empty or has the thread's
own engine (`SawItsEngine`): dropping an engine empties the slot it is in (`Vacated`), and
only `Runtime::engine` fills an empty slot under a leaked attachment (`Filled`).

**Scopes.** The record holds one number per attachment, and the stacks of C hold scopes
of several attachments of the same engine, some lost. `ScopesInv` counts from the top.
The attachments of a thread are levels (level 0 is the persistent engine, level `i` the
`i`-th guard), each with an engine, a generation and a depth; the depth of all but the top
one is in the next guard's saved record. A scope that was opened and not ended, and whose
generation is that of a level, is on the stack of that level's engine exactly as far below
the top as its depth is below the level's (`Placed`). Counting from the bottom would not
do: an engine attached for the second time starts a new generation at depth 0 on top of
what the first one leaked. `CloseHitsTop` is the case of the top level; that closing or
rewinding cuts off scopes of no other level needs that a stack holds registered scopes of
its engine, each once (`StacksHoldScopes`). References are placed by their lender
(`TermsInOrder`): what a scope lent lies in that scope, what a guard lent lies under
everything opened in its generation. What a witness lent lies anywhere, which is
why `UsableReferencesAreLive` is false and `BorrowedReferencesAreLive` leaves it out.

That refusals are exact needs the converse of `Placed`: each depth below that of a level is
the depth of a scope registered there (`DepthsFilled`, inductive with `ScopesInv`). A
close takes off the last depth only, a new attachment starts at depth 0, and a record
restored by a guard counts what it counted when it was saved, because no scope of its
level was closed meanwhile. With `Placed` each depth is then that of exactly one scope. A
generation is minted once, so one that has left the levels of a thread is never again the
one its record shows. `ScopesSpec` does not imply the `Spec` of the attach layer, for
opening and closing change the record; but such a step leaves guards, slots and holders alone
and keeps the generation, and every other step is one of the attach layer. `IInv` is part of
`ScopesInv`, so the guarantees and the refinement of the attach layer hold with scopes too.

**Scoped calls.** The marks of the open calls rise and never pass the end of the trail
(`Nested`), so that they cut the trail into levels, and every step of the program or the
crate works on the last level, merges it into the one below, or drops it: these are the
steps of `Transactions`. A call that ends is told about by what it holds, so that has to
be related to what really happened at every stage of it (`CallsInv`): while C works for a
call, or the program runs, `errors` is `occurred`; once C has failed, `occurred` has one
fault more, which is the pending exception if there is one (`Due`). An
exception is pending only if the answer that the crate must look at next is one on
which it looks (`Awaited`): this is what `EngineInOrder` needs of every branch, and what
makes `NothingSwallowed` follow from comparing two lists that different steps wrote. That
the record counts the calls still registered (`Registered`) is carried through the two
steps in which a scope is taken off before C is called (`InStep`). That a commit goes with a value
and an abort with none needs that a call which keeps its bindings has nothing to report but
the error of the cut (`Settled`). The lemmas are about how levels change when the trail or
the stack of calls gets one longer or shorter.

**Initialization.** The state under the lock tells whether Prolog is up, and a caller past
the check under the lock is there only while it is not (`StateIsTrue`).

**Shared handles.** No two cells of the atom table have the same text; what functors keep
and what stands on a stack is there, and a raw atom is one of those (`AtomInv`). The
references on a cell are the handles and copies that hold it, as cardinalities of sets
that gain or lose one element with each step; a collected cell has none, hence no
handle. The `Arc` of a copy counts its `Record`s and no `Record` is on a copy that is gone
(`ArcsAreExact`). Both refinements map a value to the set of its owners.

**Operations on terms.** An operation is determined by the call it has come to. Calls that
open something (`external`, `text`, `open`, `advance`) are followed by those that end it
and only by those (`Follows`), from which follows what is held at each call (`Held`). An
exception is pending only between a call that raised and the step that looks at it, except
that the error of an advance, or of a dict's callback, is kept in `errors` over one
more call (`Faults`). A walk along a list has three calls left for each cell not yet
collected, at places that can be told from the number of calls left
modulo three (`Walking`), so that the last call collects the last cell
whatever the length.

**Prepared calls.** `CallInv` says what the block is at each stage: unprepared it is empty
and nothing was read; prepared, every position was seeded, in order (`SeedsInv`); at a
solution each position holds its seed, or an answer to it where the seed was unbound
(`BlockInv`); and the outcome is the collected result of reading the positions
(`OutcomeInv`). `Collect` returns all values or the first error, and that a first failing
position exists is the least-number principle. So a call inherits what each argument has:
if every input alone comes back from its term, every answer alone is read as what it
says, and no argument alone is refused over an encoding of its type, the same holds in every
position of every call, of any length and with any other arguments. Those three laws are
hypotheses about the conversions, not about calls. For `Codec` they are known on the
instance of `prepared_args` only: every argument there, but for plain terms, has a call of
its own, for which the properties of the run are the laws.

Model-checked only:

- `EverythingCloses` and `CallsReturn`: liveness under fairness is out of the prover's
  reach.
- That the conversions of `Codec` obey the laws of one argument. `Codec` is recursive over
  types and values; what it computes is known by induction over data only, which the prover
  cannot do, and `RECURSIVE` operators take its SMT backend away.

## Not modelled

- What operations do to the terms themselves: `Codec` has the data and no scopes,
  `TermOps` the calls and their failures, `ForeignScopes` the lifetimes of references.
- A `Functor`, `Module` or `Predicate` beyond keeping its name: these handles are never
  freed (A2), so nothing about them can go stale.
- The bytes of external records (XR2: decoding untrusted bytes is outside the crate's
  claim), `ptr_eq` and `ptr_hash`, classifying and comparing terms.
- Overflow of reference counts, and `PL_register_atom` called without the runtime.
- A panic inside `text_from_term` between the C call and the free: only an allocation
  failure could cause one, which aborts.
- Text of exceptions and error values beyond which of them reach the caller.
- `EngineAttributes` and `QueryOptions`: numbers and flags handed to C.
- Iterators passed to `initialize` that call `initialize` themselves: they wait for
  the lock their own thread holds.
- What is left behind by a failed `initialize_from_state`.
- In `Codec`: floats (an `f32` may round), characters, partial and cyclic lists (in
  `TermOps`), dicts with unbound tags; partly bound arguments; failures to allocate references inside a conversion.
- How derive splits names into words and joins them: pure text. What follows when two
  names meet is modelled.
- A mapper that leaves a scope registered and panics: `ForeignScopes` has the leaks,
  `ScopedCalls` the panics, and a model of both is too large.
- `swipl-sys`: generated.

## Plan

Modelled, checked and proved: the attach layer, leaks, scopes, scoped calls, initialization,
shared handles, operations on terms, prepared calls. Modelled and checked: the codec. What
could still be proved, in order of worth:

1. That every stack is empty when its engine is detached for good, for a program that
   neither leaks nor loses a handle. `RefusalsAreExact` has half of it: such a program is
   never refused a close.
2. `ImplementsTransactions` and `MeetsFliContract` are about one half of a query each; the
   statement that joins them (a query that is cut keeps exactly the bindings of its last
   solution, on the stack of its own engine) needs a module that composes both.
