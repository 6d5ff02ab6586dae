----------------------------- MODULE AttachmentLeaks -----------------------------
(***********************************************************************************)
(* Attachment with values that are leaked instead of dropped.  Engine values can  *)
(* be forgotten by any caller.  A guard is only lent to callbacks, so forgetting  *)
(* one is open to code inside the crate alone; the checks in the guard's drop and *)
(* in attach are the backstop for it, and this module exercises them.             *)
(***********************************************************************************)
EXTENDS Attachment

(* mem::forget of the innermost guard; an outer one is borrowed by it. *)
GuardLeak(t) ==
  /\ guards[t] # <<>>
  /\ guards' = [guards EXCEPT ![t] = Pop(@)]
  /\ UNCHANGED <<phase, holder, slot, activation, genMint, witnesses>>

EngineForget(t, e) ==
  /\ Owns(t, e)
  /\ holder' = [holder EXCEPT ![e] = None]
  /\ UNCHANGED <<phase, slot, activation, guards, genMint, witnesses>>

LeakNext ==
  \/ Next
  \/ \E t \in Threads : GuardLeak(t)
  \/ \E t \in Threads, e \in Engines : EngineForget(t, e)

LeakSpec == Init /\ [][LeakNext]_attachVars

(* A leaked attachment is current: the record shows a generation no guard owns. *)
LeakIsCurrent(t) ==
  /\ activation[t].gen # 0
  /\ \A i \in 1..Len(guards[t]) : guards[t][i].gen # activation[t].gen

(* E5 and "Leaking values": once an attachment is leaked its generation stays
   current on that thread for good -- no plain or nested attach succeeds, and
   dropping the outer guards does not restore through the leak. *)
LeakStaysCurrent ==
  [][\A t \in Threads : LeakIsCurrent(t) => activation'[t] = activation[t]]_attachVars

(* C3 in the presence of leaks: a stamped handle that still passes its generation
   check finds the engine it was made on.  The exception is that engine's end:
   dropping it on the thread a leaked guard left it on destroys and detaches it and
   leaves the record, and what the handle then finds is never another engine that
   has an owner, but none or the thread's own. *)
LeakNeverCrossesEngines ==
  \A w \in witnesses :
    SameGen(activation[w.thread], w.act.gen) =>
      \/ slot[w.thread] = w.engine
      \/ /\ w.engine \in Engines /\ phase[w.engine] = "destroyed"
         /\ slot[w.thread] \notin Engines
==================================================================================
