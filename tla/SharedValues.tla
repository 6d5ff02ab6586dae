------------------------------- MODULE SharedValues -------------------------------
(***********************************************************************************)
(* What the crate promises of a value that several owners share: while somebody    *)
(* owns it, it is there; when it goes, nobody owned it.  Values do not depend on   *)
(* each other, and one step may change several of them.                             *)
(***********************************************************************************)
CONSTANTS
  Values,
  Owners,
  Revivable   \* whether a value without owners can be owned again before it goes

VARIABLES
  owners,    \* the owners of each value
  present    \* whether the value exists

sharedVars == <<owners, present>>

SharedTypeOK ==
  /\ owners \in [Values -> SUBSET Owners]
  /\ present \in [Values -> BOOLEAN]

Init ==
  /\ owners = [v \in Values |-> {}]
  /\ present = [v \in Values |-> FALSE]

Create(v) == ~present[v] /\ present'[v] /\ (owners'[v] # {} \/ Revivable)

Change(v) ==
  /\ present[v] /\ present'[v]
  /\ owners[v] # {} \/ Revivable \/ owners'[v] = {}

Reclaim(v) == present[v] /\ ~present'[v] /\ owners[v] = {} /\ owners'[v] = {}

Absent(v) == ~present[v] /\ ~present'[v] /\ owners'[v] = {}

Next ==
  /\ owners' \in [Values -> SUBSET Owners]
  /\ present' \in [Values -> BOOLEAN]
  /\ \A v \in Values : Create(v) \/ Change(v) \/ Reclaim(v) \/ Absent(v)

Spec == Init /\ [][Next]_sharedVars
===================================================================================
