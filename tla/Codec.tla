---------------------------------- MODULE Codec ----------------------------------
(***********************************************************************************)
(* Conversion between Rust values and Prolog terms: the trait implementations of  *)
(* codec.rs and the code the derive macros generate for structs and enums.        *)
(*                                                                                 *)
(* A Rust type is <<constructor, ...>>, a Prolog term <<kind, ...>> and the       *)
(* result of a conversion one of Results, all of them tuples that differ in their *)
(* first element.  Text is a string, and a list's spine is its sequence.          *)
(***********************************************************************************)
EXTENDS Results, Integers, Sequences, FiniteSets, SequencesExt

----------------------------------------------------------------------------------
(* Prolog terms: int, string, atom, list, dict (its tag, and a function from keys *)
(* <<"atom", text>> and <<"int", n>> to terms), compound and var.                 *)

AtomKey(text) == <<"atom", text>>
KeyText(key) == IF key[1] = "int" THEN ToString(key[2]) ELSE key[2]

(* PL_get_nchars with CVT_ATOMIC. *)
GetText(t) ==
  CASE t[1] \in {"string", "atom"} -> Ok(t[2])
    [] t[1] = "int"                -> Ok(ToString(t[2]))
    [] t = <<"list", <<>> >>       -> Ok("[]")
    [] OTHER                       -> Fail(<<"TypeMismatch">>)

CollectList(t) == IF t[1] = "list" THEN Ok(t[2]) ELSE Fail(<<"NotAProperList">>)

(* put_dict: the fields in the order they were written. *)
PutDict(tag, fields) ==
  LET keys == {f[1] : f \in ToSet(fields)} IN
  IF Cardinality(keys) < Len(fields) THEN Fail(<<"DuplicateField">>)
  ELSE Ok(<<"dict", tag, [k \in {AtomKey(key) : key \in keys} |->
                            (CHOOSE f \in ToSet(fields) : f[1] = k[2])[2]]>>)

(* dict_fields: entries come in standard order, numbers before atoms, and a later *)
(* one replaces an earlier one of the same text.                                   *)
DictFields(t) ==
  IF t[1] # "dict" THEN Fail(<<"TypeMismatch">>)
  ELSE LET d == t[3] IN
       Ok([text \in {KeyText(k) : k \in DOMAIN d} |->
             IF AtomKey(text) \in DOMAIN d THEN d[AtomKey(text)]
             ELSE d[CHOOSE k \in DOMAIN d : KeyText(k) = text]])

RequireDictTag(t, expected) ==
  IF t[1] # "dict" THEN Fail(<<"TypeMismatch">>)
  ELSE IF t[2] = expected THEN Ok(expected)
  ELSE Fail(<<"DictTag">>)

PutCompound(name, args) == Ok(IF args = <<>> THEN <<"atom", name>> ELSE <<"compound", name, args>>)

CompoundArgsOfCompounds(t, name, arity) ==
  IF t[1] = "compound" /\ t[2] = name /\ Len(t[3]) = arity THEN Ok(t[3]) ELSE Fail(<<"Functor">>)
CompoundArgs(t, name, arity) ==
  CASE t[1] = "atom" /\ arity = 0 /\ t[2] = name -> Ok(<<>>)
    [] t[1] = "compound" /\ t[2] = name /\ Len(t[3]) = arity -> Ok(t[3])
    [] OTHER -> Fail(<<"Functor">>)

Without(fields, name) == [k \in DOMAIN fields \ {name} |-> fields[k]]

----------------------------------------------------------------------------------
(* Rust types.
     <<"bool">>  <<"int", lo, hi>>  <<"text">>  <<"opaque">>: a Record
     <<"unit">>: () and unit structs    <<"option", T>>    <<"box", T>>: Box and Arc
     <<"vec", T>>  <<"array", T, n>>  <<"tuple", Ts>>
     <<"map", K, T>>: K is text, bool or int
     <<"struct", tag, fields>>: named fields  <<"compound", name, Ts>>: a tuple struct
     <<"enum", mode, variants>>
   A field is [wire, ty, skip, flatten, default], a variant [wire, skip, shape, tys,
   fields] of shape "unit", "tuple" or "named", and skip says which of the two
   conversions leave it out.  mode is [untagged, tag, content], "" for no attribute.
   None is <<>>, Some(v) <<v>>, an enum's value <<variant, payload>>.               *)

SkippedTo(x) == x.skip \in {"both", "to_term"}
SkippedFrom(x) == x.skip \in {"both", "from_term"}

(* Key types of maps.  encode_key writes one text; decode_key also takes the other    *)
(* texts str::parse reads as the number: with a sign +, with leading zeros (here one), *)
(* and -0 if the type is signed.  The texts of one key, in string order.              *)
KeyTexts(ty, k) ==
  CASE ty[1] = "text" -> <<k>>
    [] ty[1] = "bool" -> <<IF k THEN "true" ELSE "false">>
    [] ty[1] = "int" /\ k > 0 -> <<"+0" \o ToString(k), "+" \o ToString(k), "0" \o ToString(k), ToString(k)>>
    [] ty[1] = "int" /\ k < 0 -> <<"-0" \o ToString(-k), ToString(k)>>
    [] ty[1] = "int" /\ k = 0 -> <<"+0", "+00">> \o (IF ty[2] < 0 THEN <<"-0", "-00">> ELSE <<>>)
                                 \o <<"0", "00">>

EncodeKey(ty, k) ==
  CASE ty[1] = "text" -> k
    [] ty[1] = "bool" -> IF k THEN "true" ELSE "false"
    [] ty[1] = "int"  -> ToString(k)

DecodeKey(ty, text) ==
  LET read == IF ty[1] = "text" THEN {text}
              ELSE {k \in IF ty[1] = "bool" THEN BOOLEAN ELSE ty[2] .. ty[3] :
                      text \in ToSet(KeyTexts(ty, k))}
  IN IF read = {} THEN Fail(<<"Type">>) ELSE Ok(CHOOSE k \in read : TRUE)

(* Default::default(), and whatever a default function returns. *)
RECURSIVE DefaultOf(_)
DefaultOf(ty) ==
  CASE ty[1] = "bool"                    -> FALSE
    [] ty[1] = "int"                     -> 0
    [] ty[1] = "text"                    -> ""
    [] ty[1] = "box"                     -> DefaultOf(ty[2])
    [] ty[1] = "struct"                  -> [i \in DOMAIN ty[3] |-> DefaultOf(ty[3][i].ty)]
    [] ty[1] = "tuple"                   -> [i \in DOMAIN ty[2] |-> DefaultOf(ty[2][i])]
    [] ty[1] \in {"unit", "option", "vec", "map"} -> <<>>

----------------------------------------------------------------------------------
(* Rust to Prolog. *)
RECURSIVE ToTerm(_, _), ToField(_, _), ToFields(_, _), NamedToParts(_, _), EnumTo(_, _, _)

Elements(tys, vs) == Collect([i \in DOMAIN tys |-> ToTerm(tys[i], vs[i])])

ToTerm(ty, v) ==
  CASE ty[1] = "bool"     -> Ok(<<"atom", IF v THEN "true" ELSE "false">>)
    [] ty[1] = "int"      -> Ok(<<"int", v>>)
    [] ty[1] = "text"     -> Ok(<<"string", v>>)
    [] ty[1] = "opaque"   -> Ok(v)
    [] ty[1] = "box"      -> ToTerm(ty[2], v)
    [] ty[1] \in {"unit", "option"} -> Fail(<<"OptionOutsideField">>)
    [] ty[1] \in {"vec", "array"} ->
         Then(Elements([i \in DOMAIN v |-> ty[2]], v), LAMBDA ts : Ok(<<"list", ts>>))
    [] ty[1] = "tuple"    -> Then(Elements(ty[2], v), LAMBDA ts : Ok(<<"list", ts>>))
    [] ty[1] = "map"      -> Then(ToFields(ty, v), LAMBDA fs : PutDict("#", fs))
    [] ty[1] = "struct"   -> Then(ToFields(ty, v), LAMBDA fs : PutDict(ty[2], fs))
    [] ty[1] = "compound" -> Then(Elements(ty[3], v), LAMBDA ts : PutCompound(ty[2], ts))
    [] ty[1] = "enum"     -> EnumTo(ty[2], ty[3][v[1]], v[2])

(* __to_field: None and unit leave the field out.  Box does not forward it. *)
ToField(ty, v) ==
  IF ty[1] = "unit" \/ (ty[1] = "option" /\ v = <<>>) THEN Ok(<<>>)
  ELSE Then(IF ty[1] = "option" THEN ToTerm(ty[2], v[1]) ELSE ToTerm(ty, v),
            LAMBDA t : Ok(<<t>>))

(* __to_fields, for the types that can be flattened.  A map converts its values as *)
(* terms, not as fields.                                                           *)
ToFields(ty, v) ==
  CASE ty[1] = "struct" -> NamedToParts(ty[3], v)
    [] ty[1] = "map" ->
         LET keys == SetToSeq(DOMAIN v)
         IN Collect([i \in DOMAIN keys |->
              Then(ToTerm(ty[3], v[keys[i]]), LAMBDA t : Ok(<<EncodeKey(ty[2], keys[i]), t>>))])

NamedToParts(fields, vs) ==
  LET Write(i) ==
        LET f == fields[i] IN
        CASE SkippedTo(f) -> Ok(<<>>)
          [] f.flatten    -> ToFields(f.ty, vs[i])
          [] OTHER        -> Then(ToField(f.ty, vs[i]),
                                  LAMBDA ts : Ok([n \in DOMAIN ts |-> <<f.wire, ts[n]>>]))
  IN Then(Collect([i \in DOMAIN fields |-> Write(i)]), LAMBDA parts : Ok(FlattenSeq(parts)))

(* enum_to, and tagged_enum_to when there is a tag attribute. *)
EnumTo(mode, variant, payload) ==
  LET args == Elements(variant.tys, payload)
      parts == NamedToParts(variant.fields, payload)
      tagged == << <<mode.tag, <<"string", variant.wire>> >> >>
      ListOf(ts) == Ok(<<"list", ts>>)
      OneOrList(r) == Then(r, LAMBDA ts : IF Len(ts) = 1 THEN Ok(ts[1]) ELSE ListOf(ts))
      Adjacent(r) == Then(r, LAMBDA t : PutDict("#", Append(tagged, <<mode.content, t>>)))
  IN CASE SkippedTo(variant) -> Fail(<<"Message">>)
       [] mode.tag # "" /\ variant.shape = "unit" -> PutDict("#", tagged)
       [] mode.tag # "" /\ variant.shape = "named" /\ mode.content = "" ->
            Then(parts, LAMBDA fs : PutDict("#", tagged \o fs))
       [] mode.tag # "" /\ variant.shape = "named" ->
            Adjacent(Then(parts, LAMBDA fs : PutDict("#", fs)))
       [] mode.tag # "" /\ variant.shape = "tuple" -> Adjacent(OneOrList(args))
       [] mode.untagged /\ variant.shape = "unit"  -> Fail(<<"OptionOutsideField">>)
       [] mode.untagged /\ variant.shape = "tuple" -> OneOrList(args)
       [] mode.untagged /\ variant.shape = "named" -> Then(parts, LAMBDA fs : PutDict("#", fs))
       [] variant.shape = "unit"  -> Ok(<<"atom", variant.wire>>)
       [] variant.shape = "tuple" -> Then(args, LAMBDA ts : PutCompound(variant.wire, ts))
       [] variant.shape = "named" -> Then(parts, LAMBDA fs : PutDict(variant.wire, fs))

----------------------------------------------------------------------------------
(* Prolog to Rust.  FromFields and NamedFromParts take entries out of a map of     *)
(* fields and return the value with the entries that are left.                     *)
RECURSIVE FromTerm(_, _), FromField(_, _), FromFields(_, _), NamedFromParts(_, _), EnumFrom(_, _, _)

Values(tys, ts) == Collect([i \in DOMAIN tys |-> FromTerm(tys[i], ts[i])])

(* Tuples report a list that is too short as empty, and one that is too long as    *)
(* one item too long; elements before the missing one are converted first.         *)
FromTuplePrefix(tys, ts) ==
  IF Len(ts) < Len(tys) THEN Fail(<<"ArityMismatch", Len(tys), Len(ts)>>)
  ELSE Values(tys, SubSeq(ts, 1, Len(tys)))
FromTuple(tys, ts) ==
  IF Len(ts) < Len(tys)
  THEN Then(Values(SubSeq(tys, 1, Len(ts)), ts), LAMBDA vs : Fail(<<"ArityMismatch", Len(tys), 0>>))
  ELSE Then(Values(tys, SubSeq(ts, 1, Len(tys))), LAMBDA vs :
         IF Len(ts) > Len(tys) THEN Fail(<<"ArityMismatch", Len(tys), Len(tys) + 1>>) ELSE Ok(vs))

FromArray(ty, ts) ==
  Then(Values([i \in DOMAIN ts |-> ty[2]], ts), LAMBDA vs :
    IF Len(vs) = ty[3] THEN Ok(vs) ELSE Fail(<<"ArityMismatch", ty[3], Len(vs)>>))

(* get_i64 or get_u64, then try_from the narrower type. *)
GetInt(ty, t) ==
  IF t[1] # "int" THEN Fail(<<"TypeMismatch">>)
  ELSE IF t[2] \in ty[2] .. ty[3] THEN Ok(t[2])
  ELSE Fail(<<"Type">>)

FromTerm(ty, t) ==
  CASE ty[1] = "bool" -> IF t \in {<<"atom", a>> : a \in {"true", "on"}} THEN Ok(TRUE)
                         ELSE IF t \in {<<"atom", a>> : a \in {"false", "off"}} THEN Ok(FALSE)
                         ELSE Fail(<<"TypeMismatch">>)
    [] ty[1] = "int"    -> GetInt(ty, t)
    [] ty[1] = "text"   -> GetText(t)
    [] ty[1] = "opaque" -> Ok(t)
    [] ty[1] = "box"    -> FromTerm(ty[2], t)
    [] ty[1] \in {"unit", "option"} -> Fail(<<"OptionOutsideField">>)
    [] ty[1] = "vec"   -> Then(CollectList(t), LAMBDA ts : Values([i \in DOMAIN ts |-> ty[2]], ts))
    [] ty[1] = "array" -> Then(CollectList(t), LAMBDA ts : FromArray(ty, ts))
    [] ty[1] = "tuple" -> Then(CollectList(t), LAMBDA ts : FromTuple(ty[2], ts))
    [] ty[1] = "map"   -> Then(DictFields(t), LAMBDA fs :
                            Then(FromFields(ty, fs), LAMBDA r : Ok(r[1])))
    [] ty[1] = "struct" -> Then(RequireDictTag(t, ty[2]), LAMBDA tag :
                             Then(DictFields(t), LAMBDA fs :
                               Then(FromFields(ty, fs), LAMBDA r : Ok(r[1]))))
    [] ty[1] = "compound" -> Then(CompoundArgs(t, ty[2], Len(ty[3])), LAMBDA ts : Values(ty[3], ts))
    [] ty[1] = "enum" -> EnumFrom(ty[2], ty[3], t)

(* __from_field: ot is <<>> when the field is missing. *)
FromField(ty, ot) ==
  CASE ty[1] = "unit"                -> Ok(<<>>)
    [] ty[1] = "option" /\ ot = <<>> -> Ok(<<>>)
    [] ty[1] = "option"              -> Then(FromTerm(ty[2], ot[1]), LAMBDA v : Ok(<<v>>))
    [] ot = <<>>                     -> Fail(<<"MissingField">>)
    [] OTHER                         -> FromTerm(ty, ot[1])

(* __from_fields.  A map takes whatever is left, in string order: of two texts of one *)
(* key the later one stays.                                                           *)
FromFields(ty, left) ==
  CASE ty[1] = "struct" -> NamedFromParts(ty[3], left)
    [] ty[1] = "map" ->
         LET names == SetToSeq(DOMAIN left)
             Entry(name) == Then(DecodeKey(ty[2], name), LAMBDA k :
                              Then(FromTerm(ty[3], left[name]), LAMBDA v : Ok(<<k, name, v>>)))
             LastText(k) == Last(SelectSeq(KeyTexts(ty[2], k), LAMBDA text : text \in DOMAIN left))
         IN Then(Collect([i \in DOMAIN names |-> Entry(names[i])]), LAMBDA entries :
              Ok(<<[k \in {e[1] : e \in ToSet(entries)} |->
                      (CHOOSE e \in ToSet(entries) : e[2] = LastText(k))[3]], [k \in {} |-> k]>>))

ReadWithoutRemoving(f, left) ==
  LET ot == IF f.wire \in DOMAIN left THEN <<left[f.wire]>> ELSE <<>>
  IN CASE SkippedFrom(f) \/ (f.default /\ ot = <<>>) -> Ok(<<DefaultOf(f.ty), left>>)
       [] f.flatten -> FromFields(f.ty, left)
       [] OTHER     -> Then(FromField(f.ty, ot), LAMBDA v : Ok(<<v, left>>))

(* A default bypasses __from_field. *)
Read(f, left) ==
  LET ot == IF f.wire \in DOMAIN left THEN <<left[f.wire]>> ELSE <<>>
      value == CASE f.default /\ ot = <<>> -> Ok(DefaultOf(f.ty))
                 [] f.default             -> FromTerm(f.ty, ot[1])
                 [] OTHER                 -> FromField(f.ty, ot)
  IN CASE SkippedFrom(f) -> Ok(<<DefaultOf(f.ty), left>>)
       [] f.flatten      -> FromFields(f.ty, left)
       [] OTHER          -> Then(value, LAMBDA v : Ok(<<v, Without(left, f.wire)>>))

NamedFromParts(fields, fs) ==
  FoldLeft(LAMBDA sofar, f :
             Then(sofar, LAMBDA s :
               Then(Read(f, s[2]), LAMBDA r : Ok(<<Append(s[1], r[1]), r[2]>>))),
           Ok(<< <<>>, fs>>), fields)

NamedValue(variant, fs) == Then(NamedFromParts(variant.fields, fs), LAMBDA r : Ok(r[1]))
FirstOf(S) == CHOOSE i \in S : \A j \in S : i <= j

(* enum_from without a tag: the variants are tried in order.  One that is not      *)
(* untagged commits to the first variant whose name, arity or tag fits.            *)
UntaggedFrom(variant, t) ==
  CASE variant.shape = "unit" -> Fail(<<"UnknownVariant">>)
    [] variant.shape = "tuple" /\ Len(variant.tys) = 1 ->
         Then(FromTerm(variant.tys[1], t), LAMBDA v : Ok(<<v>>))
    [] variant.shape = "tuple" ->
         Then(CollectList(t), LAMBDA ts :
           IF Len(ts) = Len(variant.tys) THEN Values(variant.tys, ts)
           ELSE Fail(<<"ArityMismatch", Len(variant.tys), Len(ts)>>))
    [] variant.shape = "named" ->
         Then(RequireDictTag(t, "#"), LAMBDA tag :
           Then(DictFields(t), LAMBDA fs : NamedValue(variant, fs)))

ExternalMatches(variant, t) ==
  CASE variant.shape = "unit"  -> t = <<"atom", variant.wire>>
    [] variant.shape = "tuple" -> IsOk(CompoundArgs(t, variant.wire, Len(variant.tys)))
    [] variant.shape = "named" -> IsOk(RequireDictTag(t, variant.wire))

ExternalFrom(variant, t) ==
  CASE variant.shape = "unit"  -> Ok(<<>>)
    [] variant.shape = "tuple" -> Then(CompoundArgs(t, variant.wire, Len(variant.tys)),
                                       LAMBDA ts : Values(variant.tys, ts))
    [] variant.shape = "named" -> Then(DictFields(t), LAMBDA fs : NamedValue(variant, fs))

(* tagged_enum_from, once the tag has been taken out of the fields. *)
TaggedFrom(mode, variant, fs) ==
  LET Content(Decode(_)) == IF mode.content \in DOMAIN fs THEN Decode(fs[mode.content])
                            ELSE Fail(<<"MissingField">>)
      FromList(ts) == IF Len(ts) = Len(variant.tys) THEN Values(variant.tys, ts)
                      ELSE Fail(<<"ArityMismatch", Len(variant.tys), Len(ts)>>)
  IN CASE variant.shape = "unit" -> Ok(<<>>)
       [] variant.shape = "named" /\ mode.content = "" -> NamedValue(variant, fs)
       [] variant.shape = "named" ->
            Content(LAMBDA t : Then(DictFields(t), LAMBDA inner : NamedValue(variant, inner)))
       [] variant.shape = "tuple" /\ Len(variant.tys) = 1 ->
            Content(LAMBDA t : Then(FromTerm(variant.tys[1], t), LAMBDA v : Ok(<<v>>)))
       [] variant.shape = "tuple" -> Content(LAMBDA t : Then(CollectList(t), FromList))

EnumFrom(mode, variants, t) ==
  LET known == {i \in DOMAIN variants : ~SkippedFrom(variants[i])}
      Tagged(i, r) == Then(r, LAMBDA payload : Ok(<<i, payload>>))
      FirstThat(S, Decode(_)) == IF S = {} THEN Fail(<<"UnknownVariant">>)
                                 ELSE Tagged(FirstOf(S), Decode(variants[FirstOf(S)]))
  IN IF mode.tag # "" THEN
       Then(DictFields(t), LAMBDA fs :
         IF mode.tag \notin DOMAIN fs THEN Fail(<<"MissingField">>)
         ELSE Then(GetText(fs[mode.tag]), LAMBDA name :
           FirstThat({i \in known : variants[i].wire = name},
                     LAMBDA v : TaggedFrom(mode, v, Without(fs, mode.tag)))))
     ELSE IF mode.untagged THEN
       FirstThat({i \in known : IsOk(UntaggedFrom(variants[i], t))}, LAMBDA v : UntaggedFrom(v, t))
     ELSE FirstThat({i \in known : ExternalMatches(variants[i], t)}, LAMBDA v : ExternalFrom(v, t))

==================================================================================
