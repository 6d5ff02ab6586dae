------------------------------- MODULE PreparedArgs -------------------------------
(***********************************************************************************)
(* The prepared calls of ArgumentBlock with the conversions of Codec: how each    *)
(* kind of argument is seeded and decoded, and the calls and answers it is checked *)
(* with.                                                                           *)
(*                                                                                 *)
(* The second half says what the conversions of Codec are for, without following  *)
(* their code: which values a term denotes, and which values survive a round trip.*)
(***********************************************************************************)
EXTENDS ArgumentBlock, Codec, TLC

CONSTANTS
  TypeOf,   \* the Rust types, by name
  Specs     \* argument tuples: sequences of [kind, ty, out]

----------------------------------------------------------------------------------
(* Small sets of values of a type, and of terms Prolog may answer with. *)

RECURSIVE Inhabitants(_), Tuples(_)

(* Sequences with one element of each of a sequence of sets. *)
Tuples(Ss) == IF Ss = <<>> THEN {<<>>}
              ELSE {<<x>> \o xs : x \in Head(Ss), xs \in Tuples(Tail(Ss))}
Products(tys) == Tuples([i \in DOMAIN tys |-> Inhabitants(tys[i])])

FieldTypes(fields) == [i \in DOMAIN fields |-> fields[i].ty]

Inhabitants(ty) ==
  CASE ty[1] = "bool"     -> BOOLEAN
    [] ty[1] = "int"      -> ty[2] .. ty[3]
    [] ty[1] = "text"     -> {"id", "1"}
    [] ty[1] = "opaque"   -> {<<"int", 1>>, <<"atom", "id">>}
    [] ty[1] = "unit"     -> {<<>>}
    [] ty[1] = "box"      -> Inhabitants(ty[2])
    [] ty[1] = "option"   -> {<<>>} \cup {<<v>> : v \in Inhabitants(ty[2])}
    [] ty[1] = "vec"      -> UNION {Products([i \in 1 .. n |-> ty[2]]) : n \in 0 .. 2}
    [] ty[1] = "array"    -> Products([i \in 1 .. ty[3] |-> ty[2]])
    [] ty[1] = "tuple"    -> Products(ty[2])
    [] ty[1] = "map"      -> UNION {[D -> Inhabitants(ty[3])] : D \in SUBSET Inhabitants(ty[2])}
    [] ty[1] = "struct"   -> Products(FieldTypes(ty[3]))
    [] ty[1] = "compound" -> Products(ty[3])
    [] ty[1] = "enum"     -> UNION {{<<i, p>> : p \in Products(IF ty[3][i].shape = "named"
                                                               THEN FieldTypes(ty[3][i].fields)
                                                               ELSE ty[3][i].tys)} : i \in DOMAIN ty[3]}

(* What another program writes instead, anywhere in a term: text, truth values and *)
(* keys in another spelling; items, keys and arguments missing, added or replaced;  *)
(* another tag or name.                                                             *)
RECURSIVE Variations(_)
Variations(t) ==
  LET other == <<"int", 7>>
      Dict(d) == <<"dict", t[2], d>>
      Items(s) == {Append(s, other)} \cup (IF s = <<>> THEN {} ELSE {Front(s)})
                  \cup UNION {{[s EXCEPT ![i] = x] : x \in Variations(s[i])} : i \in DOMAIN s}
      (* The key 1 as a number, with and without the text; 0 and 1 spelled in other ways, *)
      (* once or twice; and on for true.                                                  *)
      Rekeyed(d) ==
        LET Renamed(old, new) == Without(d, AtomKey(old)) @@ (new :> d[AtomKey(old)])
            Respelled(n) ==
              {Renamed(n, AtomKey(sign \o n)) : sign \in {"+", "-", "0"}}
              \cup {d @@ (AtomKey(sign \o n) :> <<"int", 0>>) : sign \in {"+", "0"}}
              \cup {Renamed(n, AtomKey("0" \o n)) @@ (AtomKey("+" \o n) :> <<"int", 0>>)}
        IN (IF AtomKey("1") \in DOMAIN d THEN {Renamed("1", <<"int", 1>>), d @@ (<<"int", 1>> :> other)}
            ELSE {})
           \cup (IF AtomKey("true") \in DOMAIN d THEN {Renamed("true", AtomKey("on"))} ELSE {})
           \cup UNION {Respelled(n) : n \in {m \in {"0", "1"} : AtomKey(m) \in DOMAIN d}}
  IN CASE t[1] = "list"     -> {<<"list", s>> : s \in Items(t[2])}
       [] t[1] = "compound" -> {<<"compound", t[2], s>> : s \in Items(t[3])}
                               \cup {<<"compound", "other", t[3]>>}
       [] t[1] = "dict"     -> {<<"dict", "other", t[3]>>, Dict(t[3] @@ (AtomKey("zz") :> other))}
                               \cup {Dict(d) : d \in Rekeyed(t[3])}
                               \cup {Dict(Without(t[3], k)) : k \in DOMAIN t[3]}
                               \cup UNION {{Dict([t[3] EXCEPT ![k] = x]) : x \in Variations(t[3][k])} :
                                             k \in DOMAIN t[3]}
       [] t[1] = "string"   -> {other, <<"atom", t[2]>>} \cup (IF t[2] = "1" THEN {<<"int", 1>>} ELSE {})
       [] t = <<"atom", "true">>  -> {other, <<"atom", "on">>}
       [] t = <<"atom", "false">> -> {other, <<"atom", "off">>}
       [] OTHER             -> {other, <<"string", "id">>, <<"list", <<>> >>}

Answers(ty) ==
  LET encoded == {ToTerm(ty, v) : v \in Inhabitants(ty)}
      ground == {r[2] : r \in {e \in encoded : IsOk(e)}}
  IN ground \cup UNION {Variations(t) : t \in ground} \cup {Unbound}

AnswersOf == [name \in DOMAIN TypeOf |-> Answers(TypeOf[name])]

Arguments(s) ==
  LET Given(a) == CASE a.kind \in {"input", "input_as"} -> Inhabitants(TypeOf[a.ty])
                    [] a.kind \in {"term", "term_arg"} -> AnswersOf[a.ty]
                    [] OTHER -> {Nothing}
  IN [kind : {s.kind}, ty : {s.ty}, out : {s.out}, val : Given(s)]

----------------------------------------------------------------------------------
(* The calls. *)

PreparedCalls == UNION {Tuples([i \in DOMAIN spec |-> Arguments(spec[i])]) : spec \in Specs}
SomeAnswer(a) == AnswersOf[a.out]

(* Argument::seed of each kind of argument. *)
Seed(a) ==
  CASE a.kind \in {"input", "input_as"} -> ToTerm(TypeOf[a.ty], a.val)
    [] a.kind = "output"                -> Ok(Unbound)
    [] a.kind \in {"term", "term_arg"}  -> Ok(a.val)

(* Argument::decode: an input is read back as its own type. *)
Decode(a, t) ==
  CASE a.kind = "term"  -> Ok(<<>>)
    [] a.kind = "input" -> FromTerm(TypeOf[a.ty], t)
    [] OTHER            -> FromTerm(TypeOf[a.out], t)

----------------------------------------------------------------------------------
(* What conversions are for. *)

RECURSIVE Unambiguous(_, _), UnambiguousFields(_, _), Normal(_, _), NormalFields(_, _),
          Agrees(_, _, _), Misplaced(_)

(* Two variants that are written alike, one under the name of the other. *)
LooksLike(mode, one, other) ==
  /\ one.wire = other.wire
  /\ mode.tag # "" \/ (one.shape = other.shape /\ Len(one.tys) = Len(other.tys))

LeftOut(field, v) == field.ty[1] = "unit" \/ (field.ty[1] = "option" /\ v = <<>>)

(* A value no other value is mistaken for: no flattened map holds or takes a key of *)
(* another field, no field stands in for one of the same name that is left out, and *)
(* no earlier variant has the same name or reads what an untagged one writes.       *)
Unambiguous(ty, v) ==
  CASE ty[1] = "box"                -> Unambiguous(ty[2], v)
    [] ty[1] \in {"option", "vec", "array"} -> \A i \in DOMAIN v : Unambiguous(ty[2], v[i])
    [] ty[1] = "map"                -> \A k \in DOMAIN v : Unambiguous(ty[3], v[k])
    [] ty[1] = "tuple"              -> \A i \in DOMAIN v : Unambiguous(ty[2][i], v[i])
    [] ty[1] = "compound"           -> \A i \in DOMAIN v : Unambiguous(ty[3][i], v[i])
    [] ty[1] = "struct"             -> UnambiguousFields(ty[3], v)
    [] ty[1] = "enum" ->
         LET variant == ty[3][v[1]] IN
         /\ variant.skip = "none"
         /\ IF variant.shape = "named" THEN UnambiguousFields(variant.fields, v[2])
            ELSE \A i \in DOMAIN v[2] : Unambiguous(variant.tys[i], v[2][i])
         /\ \A i \in 1 .. v[1] - 1 :
              /\ ty[2].untagged => ~IsOk(UntaggedFrom(ty[3][i], ToTerm(ty, v)[2]))
              /\ ~ty[2].untagged => ~LooksLike(ty[2], ty[3][i], variant)
    [] OTHER -> TRUE

UnambiguousFields(fields, vs) ==
  \A i \in DOMAIN fields :
    /\ Unambiguous(fields[i].ty, vs[i])
    /\ \A j \in 1 .. i - 1 :
         fields[j].wire = fields[i].wire /\ LeftOut(fields[j], vs[j]) => LeftOut(fields[i], vs[i])
    /\ fields[i].flatten /\ fields[i].ty[1] = "map" =>
         /\ \A j \in DOMAIN fields : j > i => SkippedFrom(fields[j])
         /\ \A j \in DOMAIN fields : j # i /\ ~(SkippedTo(fields[j]) /\ SkippedFrom(fields[j])) =>
              /\ fields[j].wire \notin {EncodeKey(fields[i].ty[2], k) : k \in DOMAIN vs[i]}
              /\ fields[j].skip # "from_term"

(* The value with the fields that are left out in either direction reset. *)
Normal(ty, v) ==
  CASE ty[1] = "box"      -> Normal(ty[2], v)
    [] ty[1] \in {"option", "vec", "array"} -> [i \in DOMAIN v |-> Normal(ty[2], v[i])]
    [] ty[1] = "map"      -> [k \in DOMAIN v |-> Normal(ty[3], v[k])]
    [] ty[1] = "tuple"    -> [i \in DOMAIN v |-> Normal(ty[2][i], v[i])]
    [] ty[1] = "compound" -> [i \in DOMAIN v |-> Normal(ty[3][i], v[i])]
    [] ty[1] = "struct"   -> NormalFields(ty[3], v)
    [] ty[1] = "enum"     ->
         LET variant == ty[3][v[1]] IN
         <<v[1], IF variant.shape = "named" THEN NormalFields(variant.fields, v[2])
                 ELSE [i \in DOMAIN v[2] |-> Normal(variant.tys[i], v[2][i])]>>
    [] OTHER -> v

NormalFields(fields, vs) ==
  [i \in DOMAIN fields |-> IF fields[i].skip # "none" THEN DefaultOf(fields[i].ty)
                           ELSE Normal(fields[i].ty, vs[i])]

(* Whether a term t says what u says, u being the way this library writes it: text  *)
(* in any atomic form, either spelling of a Boolean, keys as numbers or text.  They  *)
(* agree where both speak, a tag # saying nothing, or fully: same tags and same keys.*)
FieldsOf(t) ==
  [text \in {KeyText(k) : k \in DOMAIN t[3]} |->
     t[3][CHOOSE k \in DOMAIN t[3] : KeyText(k) = text
                                      /\ (AtomKey(text) \in DOMAIN t[3] => k[1] = "atom")]]
Spells(t, text) ==
  \/ t[1] \in {"string", "atom"} /\ t[2] = text
  \/ t[1] = "int" /\ ToString(t[2]) = text
  \/ t = <<"list", <<>> >> /\ text = "[]"
Agrees(t, u, fully) ==
  LET All(ts, us) == Len(ts) = Len(us) /\ \A i \in DOMAIN us : Agrees(ts[i], us[i], fully)
  IN CASE u[1] = "string"         -> Spells(t, u[2])
       [] u = <<"atom", "true">>  -> t \in {u, <<"atom", "on">>}
       [] u = <<"atom", "false">> -> t \in {u, <<"atom", "off">>}
       [] u[1] = "list"           -> t[1] = "list" /\ All(t[2], u[2])
       [] u[1] = "compound"       -> t[1] = "compound" /\ t[2] = u[2] /\ All(t[3], u[3])
       [] u[1] = "dict"           ->
            /\ t[1] = "dict"
            /\ t[2] = u[2] \/ (u[2] = "#" /\ ~fully)
            /\ fully => DOMAIN FieldsOf(t) = DOMAIN FieldsOf(u)
            /\ \A k \in DOMAIN FieldsOf(t) \cap DOMAIN FieldsOf(u) :
                 Agrees(FieldsOf(t)[k], FieldsOf(u)[k], fully)
       [] OTHER                   -> t = u

(* The encodings of the values a type's conversions keep apart. *)
EncodingsOf ==
  [name \in DOMAIN TypeOf |->
     {r[2] : r \in {ToTerm(TypeOf[name], v) :
                      v \in {w \in Inhabitants(TypeOf[name]) :
                               IsOk(ToTerm(TypeOf[name], w)) /\ Unambiguous(TypeOf[name], w)}}}]

DecodedAs(a) == IF a.kind = "input" THEN a.ty ELSE a.out

(* The texts of a key: a number may have a sign and a leading zero. *)
Denotes(ty, text, k) ==
  CASE ty[1] = "text" -> text = k
    [] ty[1] = "bool" -> text = (IF k THEN "true" ELSE "false")
    [] ty[1] = "int"  -> \E sign \in {"", "+", "-"}, zero \in {"", "0"} :
                           /\ text = sign \o zero \o ToString(IF k < 0 THEN -k ELSE k)
                           /\ IF sign = "-" THEN k <= 0 ELSE k >= 0

(* A map has the keys its dict's texts denote, with one of the values they are given. *)
MapSays(ty, t, v, fully) ==
  LET fields == FieldsOf(t) IN
  /\ \A text \in DOMAIN fields : \E k \in DOMAIN v : Denotes(ty[2], text, k)
  /\ \A k \in DOMAIN v : \E text \in DOMAIN fields :
       Denotes(ty[2], text, k) /\ Agrees(fields[text], ToTerm(ty[3], v[k])[2], fully)

(* What is asked of an argument: the input is the value it was with skipped fields  *)
(* reset, if the type keeps it apart from others; the value can be written again and *)
(* agrees with the answer, fully if that is the encoding of a value; and the answer  *)
(* is such an encoding, up to the spellings Prolog treats alike.                     *)
SameInput(a, v) ==
  Unambiguous(TypeOf[a.ty], a.val) => v = Normal(TypeOf[a.ty], a.val)
Means(a, t, v) ==
  LET ty == TypeOf[a.out]
      written == ToTerm(ty, v)
      encodes == \E u \in EncodingsOf[a.out] : Agrees(t, u, TRUE)
  IN /\ IsOk(written)
     /\ IF ty[1] = "map" THEN MapSays(ty, t, v, encodes) ELSE Agrees(t, written[2], encodes)
IsEncoding(a, t) == \E u \in EncodingsOf[DecodedAs(a)] : Agrees(t, u, TRUE)

----------------------------------------------------------------------------------
(* What the messages say. *)

(* codec.rs:67: "Option and unit values are only valid as struct fields or map      *)
(* values".  A type that has them nowhere else is never refused for having them.    *)
FieldOrMapValue(ty) ==
  CASE ty[1] = "unit"   -> FALSE
    [] ty[1] = "option" -> Misplaced(ty[2])
    [] OTHER            -> Misplaced(ty)

Misplaced(ty) ==
  CASE ty[1] \in {"unit", "option"}       -> TRUE
    [] ty[1] \in {"vec", "array", "box"}  -> Misplaced(ty[2])
    [] ty[1] = "tuple"    -> \E i \in DOMAIN ty[2] : Misplaced(ty[2][i])
    [] ty[1] = "compound" -> \E i \in DOMAIN ty[3] : Misplaced(ty[3][i])
    [] ty[1] = "map"      -> FieldOrMapValue(ty[3])
    [] ty[1] = "struct"   -> \E i \in DOMAIN ty[3] : FieldOrMapValue(ty[3][i].ty)
    [] ty[1] = "enum"     -> \E i \in DOMAIN ty[3] :
                               \/ \E n \in DOMAIN ty[3][i].tys : Misplaced(ty[3][i].tys[n])
                               \/ \E f \in ToSet(ty[3][i].fields) : FieldOrMapValue(f.ty)
    [] OTHER -> FALSE

OptionsAreRefusedOnlyOutsideFields ==
  outcome = Fail(<<"OptionOutsideField">>) =>
    \E i \in DOMAIN args : \E name \in {args[i].ty, args[i].out} : Misplaced(TypeOf[name])

(* codec.rs:69-70: "expected {expected} item(s), found {actual}".  The error of a    *)
(* list with the wrong number of items says how many items there were.              *)
ArityErrorsCountItems ==
  phase = "decoded" /\ ~IsOk(outcome) /\ outcome[2][1] = "ArityMismatch" =>
    \E i \in DOMAIN block : block[i][1] = "list" /\ Len(block[i][2]) = outcome[2][3]

==================================================================================
