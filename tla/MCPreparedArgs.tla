------------------------------ MODULE MCPreparedArgs ------------------------------
(***********************************************************************************)
(* The types and argument tuples that PreparedArgs is checked with: one type per   *)
(* shape the codec and the derive macros support, small enough to enumerate.       *)
(***********************************************************************************)
EXTENDS PreparedArgs

UpTo(n) == <<"int", 0, n>>
Text == <<"text">>
Option(ty) == <<"option", ty>>

Field(wire, ty) == [wire |-> wire, ty |-> ty, skip |-> "none", flatten |-> FALSE, default |-> FALSE]
Flatten(ty) == [Field("", ty) EXCEPT !.flatten = TRUE]
Default(wire, ty) == [Field(wire, ty) EXCEPT !.default = TRUE]
Skip(how, wire, ty) == [Field(wire, ty) EXCEPT !.skip = how]
SkipToDefault(wire, ty) == [Default(wire, ty) EXCEPT !.skip = "to_term"]

Variant(wire, shape, tys, fields) ==
  [wire |-> wire, skip |-> "none", shape |-> shape, tys |-> tys, fields |-> fields]
UnitOf(wire) == Variant(wire, "unit", <<>>, <<>>)
ItemsOf(wire, tys) == Variant(wire, "tuple", tys, <<>>)
NamedOf(wire, fields) == Variant(wire, "named", <<>>, fields)

External == [untagged |-> FALSE, tag |-> "", content |-> ""]
Untagged == [External EXCEPT !.untagged = TRUE]
Internal == [External EXCEPT !.tag = "kind"]
Adjacent == [Internal EXCEPT !.content = "data"]

Item == <<"struct", "Item", <<Field("id", UpTo(1)), Field("label", Option(Text)),
                              Default("done", <<"bool">>)>> >>
Texts == <<"map", Text, UpTo(1)>>

Types ==
  [narrow   |-> UpTo(2),
   flag     |-> <<"bool">>,
   name     |-> Text,
   record   |-> <<"opaque">>,
   numbers  |-> <<"vec", UpTo(1)>>,
   two      |-> <<"array", UpTo(1), 2>>,
   pair     |-> <<"tuple", <<UpTo(1), Text>> >>,
   scores   |-> Texts,
   ranks    |-> <<"map", <<"int", -1, 1>>, UpTo(1)>>,
   toggles  |-> <<"map", <<"bool">>, UpTo(1)>>,
   item     |-> Item,
   point    |-> <<"compound", "Point", <<UpTo(1), Text>> >>,
   empty    |-> <<"compound", "Empty", <<>> >>,
   chain    |-> <<"struct", "Node", <<Field("value", UpTo(1)), Field("unit", <<"unit">>),
                    Field("next", Option(<<"box", Item>>))>> >>,
   whole    |-> <<"struct", "Whole", <<Field("first", UpTo(1)), Flatten(Item)>> >>,
   open     |-> <<"struct", "Open", <<Field("id", Option(UpTo(1))), Flatten(Texts)>> >>,
   greedy   |-> <<"struct", "Greedy", <<Flatten(Texts), Field("id", Option(UpTo(1)))>> >>,
   attrs    |-> <<"struct", "Attrs", <<Skip("both", "cache", UpTo(1)), SkipToDefault("read", UpTo(1)),
                    Skip("from_term", "write", UpTo(1)), Field("id", UpTo(1))>> >>,
   external |-> <<"enum", External, <<UnitOf("Nothing"), ItemsOf("One", <<UpTo(1)>>),
                    ItemsOf("Two", <<UpTo(1), Text>>), NamedOf("Item", <<Field("id", Option(UpTo(1)))>>)>> >>,
   untagged |-> <<"enum", Untagged, <<ItemsOf("One", <<UpTo(1)>>), ItemsOf("Two", <<UpTo(1), Text>>),
                    NamedOf("Item", <<Field("id", Option(UpTo(1)))>>), ItemsOf("Any", <<Text>>)>> >>,
   confused |-> <<"enum", Untagged, <<ItemsOf("Any", <<Text>>), ItemsOf("One", <<UpTo(1)>>)>> >>,
   internal |-> <<"enum", Internal, <<UnitOf("Nothing"), NamedOf("Item", <<Field("id", Option(UpTo(1)))>>)>> >>,
   adjacent |-> <<"enum", Adjacent, <<UnitOf("Nothing"), ItemsOf("One", <<UpTo(1)>>),
                    ItemsOf("Two", <<UpTo(1), Text>>), NamedOf("Item", <<Field("id", UpTo(1))>>)>> >>,
   partial  |-> <<"enum", External, <<UnitOf("Nothing"), [UnitOf("Hidden") EXCEPT !.skip = "to_term"]>> >>,
   clash    |-> <<"struct", "Clash", <<Field("id", Option(UpTo(1))), Field("id", Option(UpTo(1)))>> >>,
   twins    |-> <<"enum", External, <<ItemsOf("Same", <<UpTo(1)>>), UnitOf("Same"),
                    ItemsOf("Same", <<UpTo(1)>>), NamedOf("Same", <<Field("id", UpTo(1))>>)>> >>,
   kinds    |-> <<"enum", Adjacent, <<ItemsOf("Same", <<UpTo(1)>>), UnitOf("Same"), UnitOf("Other")>> >>,
   options  |-> <<"vec", Option(UpTo(1))>>,
   settings |-> <<"struct", "Settings", <<Default("count", Option(UpTo(1)))>> >>]

Arg(kind, ty, out) == [kind |-> kind, ty |-> ty, out |-> out]
In(ty) == Arg("input", ty, ty)
Out(ty) == Arg("output", ty, ty)

(* Not read as answers: Options that no encoding has, and fields that are not meant to *)
(* be read as they were written.                                                      *)
Readable == DOMAIN Types \ {"attrs", "partial", "options", "settings"}

CallSpecs ==
  {<<>>}
  \cup {<<In(ty)>> : ty \in Readable \cup {"attrs", "partial", "options"}}
  \cup {<<Out(ty)>> : ty \in Readable}
  \cup {<<Arg("input_as", "pair", "numbers")>>, <<Arg("input_as", "item", "scores")>>,
        <<Arg("input_as", "internal", "scores")>>}
  \cup {<<Arg("term_arg", "numbers", "numbers")>>, <<Arg("term_arg", "scores", "ranks")>>}
  \cup {<<In("narrow"), Out("flag"), Arg("term", "numbers", "numbers")>>,
        <<Out("two"), In("open")>>}

DefaultedSpecs == {<<In("settings")>>, <<Out("item")>>}
TupleSpecs == {<<Out("pair")>>, <<Out("two")>>}

==================================================================================
