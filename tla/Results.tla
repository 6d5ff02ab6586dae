--------------------------------- MODULE Results ---------------------------------
(***********************************************************************************)
(* Rust results: Ok(x) or Fail(error), what the `?` operator makes of one, and of *)
(* several in a row.                                                              *)
(***********************************************************************************)
EXTENDS Naturals

Ok(x) == <<"ok", x>>
Fail(error) == <<"err", error>>
IsOk(r) == r[1] = "ok"
IsResult(r) == r = Ok(r[2]) \/ r = Fail(r[2])

(* The `?` operator. *)
Then(r, Continue(_)) == IF IsOk(r) THEN Continue(r[2]) ELSE r

(* Results in order: the first error, or all the values. *)
Collect(rs) ==
  IF \A i \in DOMAIN rs : IsOk(rs[i])
  THEN Ok([i \in DOMAIN rs |-> rs[i][2]])
  ELSE rs[CHOOSE i \in DOMAIN rs : ~IsOk(rs[i]) /\ \A j \in 1 .. i - 1 : IsOk(rs[j])]

==================================================================================
