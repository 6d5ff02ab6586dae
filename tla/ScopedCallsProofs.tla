---------------------------- MODULE ScopedCallsProofs ----------------------------
(***********************************************************************************)
(* What ScopedCalls checks but for liveness, for any number of calls, solutions   *)
(* and bindings.  The marks of nested calls divide the trail into levels; every   *)
(* step of the program or the crate works on the innermost level or merges it, or *)
(* drops it, which is what Transactions promises.                                  *)
(***********************************************************************************)
EXTENDS ScopedCalls, SequenceTheorems, TLAPS

(* Only a call that is being closed has errors to report. *)
Settled(c) == c.errors # <<>> => c.state = "close"

(* Calls cs on trail tr: the marks rise, and stay on the trail. *)
Nested(cs, tr) ==
  /\ cs \in Seq(Call)
  /\ tr \in Seq(Bindings)
  /\ \A i \in 1..Len(cs) :
       /\ cs[i].mark <= Len(tr)
       /\ \A j \in 1..i : cs[j].mark <= cs[i].mark
       /\ Settled(cs[i])
       /\ (i < Len(cs)) => cs[i].state \in {"body", "held"}

(* Every call has the depth of its place, and nothing has gone wrong yet in one that
   is not innermost. *)
Registered(cs) ==
  \A i \in 1..Len(cs) : cs[i].depth = i - 1 /\ (i < Len(cs) => cs[i].occurred = <<>>)

(* What Prolog has answered that the crate has not taken note of yet. *)
Due(c) ==
  IF pending # "none" THEN pending
  ELSE IF returned = "no" /\ c.state = "open" THEN "refused"
  ELSE IF returned \in {"exception", "unknown"} THEN "status"
  ELSE "none"

With(errors, fault) == IF fault = "none" THEN errors ELSE Append(errors, fault)

(* What C may have returned to call c, and what it may have left pending. *)
Awaited(c) ==
  /\ c.state \in ProgramStates => returned = "nothing"
  /\ c.state \in {"open"} \cup EndStates => returned \in {"nothing", "yes", "no"}
  /\ returned \in {"nothing", "yes", "last", "no", "exception", "unknown"}
  /\ c.state = "advance" /\ c.exhausted => returned = "nothing"
  /\ \/ pending = "none"
     \/ c.state = "open" /\ returned = "no" /\ pending = "open"
     \/ c.state = "advance" /\ returned = "exception" /\ pending = "advance"
     \/ /\ c.state \in EndStates /\ c.api \in QueryApis
        /\ returned = "no" /\ pending = "end"

(* The record, the trail and the ghost agree with how far call c has come. *)
InStep(c) ==
  /\ Awaited(c)
  /\ c.occurred = With(c.errors, Due(c))
  /\ activation.depth = IF c.state \in EndStates THEN c.depth ELSE c.depth + 1
  /\ c.state = "open" => Len(trail) = c.mark
  /\ c.state \in {"close", "drop"} /\ returned # "nothing" => Len(trail) = c.mark

EngineInv ==
  /\ activation \in Activation /\ activation.gen = Gen
  /\ IF calls = <<>> THEN returned = "nothing" /\ pending = "none" /\ activation.depth = 0
     ELSE InStep(Inner)

CallsInv ==
  /\ Nested(calls, trail)
  /\ Registered(calls)
  /\ EngineInv
  /\ panicking \in BOOLEAN
  /\ spent \subseteq 0..Len(calls)
  /\ last \in Report
  /\ opened \in 0..MaxCalls

----------------------------------------------------------------------------------
(* The calls and the trail as sequences. *)

OuterOf(cs) == SubSeq(cs, 1, Len(cs) - 1)

LEMMA OuterCalls ==
  ASSUME NEW cs \in Seq(Call), cs # <<>>
  PROVE  /\ OuterOf(cs) \in Seq(Call)
         /\ Len(cs) \in Nat \ {0}
         /\ Len(OuterOf(cs)) = Len(cs) - 1
         /\ \A i \in 1..(Len(cs) - 1) : OuterOf(cs)[i] = cs[i]
         /\ \A i \in 1..Len(cs) : cs[i] \in Call
<1>1. Len(cs) \in Nat \ {0} /\ \A i \in 1..Len(cs) : cs[i] \in Call
  BY EmptySeq, LenProperties, ElementOfSeq
<1>2. PICK n \in Nat \ {0} : n = Len(cs)
  BY <1>1
<1>3. 1 \in Int /\ n - 1 \in Int /\ \A i \in 1..(n - 1) : cs[i] \in Call
  BY <1>1, <1>2
<1>4. /\ SubSeq(cs, 1, n - 1) \in Seq(Call)
      /\ Len(SubSeq(cs, 1, n - 1)) = IF 1 <= n - 1 THEN n - 1 - 1 + 1 ELSE 0
      /\ \A i \in 1..(n - 1 - 1 + 1) : SubSeq(cs, 1, n - 1)[i] = cs[1 + i - 1]
  BY <1>3, SubSeqProperties
<1>5. PICK q : q = SubSeq(cs, 1, n - 1)
  OBVIOUS
<1>6. q \in Seq(Call) /\ Len(q) = n - 1 /\ \A i \in 1..(n - 1) : q[i] = cs[i]
  BY <1>4, <1>5
<1>. QED
  BY <1>1, <1>2, <1>5, <1>6 DEF OuterOf

(* The innermost call is replaced by c. *)
LEMMA ReplacedCall ==
  ASSUME NEW cs \in Seq(Call), cs # <<>>, NEW c \in Call
  PROVE  /\ Append(OuterOf(cs), c) \in Seq(Call)
         /\ Len(Append(OuterOf(cs), c)) = Len(cs)
         /\ \A i \in 1..(Len(cs) - 1) : Append(OuterOf(cs), c)[i] = cs[i]
         /\ Append(OuterOf(cs), c)[Len(cs)] = c
<1>1. PICK o \in Seq(Call) : o = OuterOf(cs)
  BY OuterCalls
<1>2. PICK n \in Nat \ {0} : n = Len(cs)
  BY OuterCalls
<1>3. Len(o) = n - 1 /\ \A i \in 1..(n - 1) : o[i] = cs[i]
  BY <1>1, <1>2, OuterCalls
<1>4. /\ Append(o, c) \in Seq(Call)
      /\ Len(Append(o, c)) = Len(o) + 1
      /\ \A i \in 1..Len(o) : Append(o, c)[i] = o[i]
      /\ Append(o, c)[Len(o) + 1] = c
  BY AppendProperties
<1>. QED
  BY <1>1, <1>2, <1>3, <1>4

(* The part of a trail between two marks. *)
LEMMA Part ==
  ASSUME NEW tr \in Seq(Bindings), NEW a \in Nat, NEW b \in Nat, a <= b, b <= Len(tr)
  PROVE  /\ SubSeq(tr, a + 1, b) \in Seq(Bindings)
         /\ Len(SubSeq(tr, a + 1, b)) = b - a
         /\ \A i \in 1..(b - a) : SubSeq(tr, a + 1, b)[i] = tr[a + i]
<1>1. Len(tr) \in Nat /\ \A i \in 1..Len(tr) : tr[i] \in Bindings
  BY LenProperties, ElementOfSeq
<1>2. a + 1 \in Int /\ b \in Int /\ \A i \in (a + 1)..b : tr[i] \in Bindings
  BY <1>1
<1>3. /\ SubSeq(tr, a + 1, b) \in Seq(Bindings)
      /\ Len(SubSeq(tr, a + 1, b)) = IF a + 1 <= b THEN b - (a + 1) + 1 ELSE 0
      /\ \A i \in 1..(b - (a + 1) + 1) : SubSeq(tr, a + 1, b)[i] = tr[a + 1 + i - 1]
  BY <1>2, SubSeqProperties
<1>4. PICK q : q = SubSeq(tr, a + 1, b)
  OBVIOUS
<1>5. q \in Seq(Bindings) /\ Len(q) = b - a /\ \A i \in 1..(b - a) : q[i] = tr[a + i]
  BY <1>3, <1>4
<1>. QED
  BY <1>4, <1>5

(* Parts that say the same are the same. *)
LEMMA SamePart ==
  ASSUME NEW s \in Seq(Bindings), NEW t \in Seq(Bindings),
         NEW a \in Nat, NEW b \in Nat, a <= b, b <= Len(s), b <= Len(t),
         \A i \in 1..b : s[i] = t[i]
  PROVE  SubSeq(s, a + 1, b) = SubSeq(t, a + 1, b)
<1>1. PICK p : p = SubSeq(s, a + 1, b)
  OBVIOUS
<1>2. PICK q : q = SubSeq(t, a + 1, b)
  OBVIOUS
<1>3. p \in Seq(Bindings) /\ Len(p) = b - a /\ \A i \in 1..(b - a) : p[i] = s[a + i]
  BY <1>1, Part
<1>4. q \in Seq(Bindings) /\ Len(q) = b - a /\ \A i \in 1..(b - a) : q[i] = t[a + i]
  BY <1>2, Part
<1>5. \A i \in 1..Len(p) : p[i] = q[i]
  BY <1>3, <1>4
<1>6. p = q
  BY <1>3, <1>4, <1>5, SeqEqual
<1>. QED
  BY <1>1, <1>2, <1>6

----------------------------------------------------------------------------------
(* Levels: the trail between the marks of nested calls. *)

FloorOf(cs, i) == IF i = 0 THEN 0 ELSE cs[i].mark
TopOf(cs, tr, i) == IF i = Len(cs) THEN Len(tr) ELSE cs[i + 1].mark
Level(cs, tr, i) == SubSeq(tr, FloorOf(cs, i) + 1, TopOf(cs, tr, i))
LevelsOf(cs, tr) == [i \in 1..(Len(cs) + 1) |-> Level(cs, tr, i - 1)]

LEMMA LevelBounds ==
  ASSUME NEW cs, NEW tr, Nested(cs, tr), NEW i \in 0..Len(cs)
  PROVE  /\ FloorOf(cs, i) \in Nat /\ TopOf(cs, tr, i) \in Nat
         /\ FloorOf(cs, i) <= TopOf(cs, tr, i) /\ TopOf(cs, tr, i) <= Len(tr)
<1>1. Len(tr) \in Nat /\ Len(cs) \in Nat /\ \A j \in 1..Len(cs) : cs[j] \in Call
  BY LenProperties, ElementOfSeq DEF Nested
<1>2. \A j \in 1..Len(cs) : cs[j].mark \in Nat /\ cs[j].mark <= Len(tr)
  BY <1>1 DEF Nested, Call
<1>3. CASE i = 0 /\ i = Len(cs)
  BY <1>1, <1>3 DEF FloorOf, TopOf
<1>4. CASE i = 0 /\ i # Len(cs)
  <2>1. 1 \in 1..Len(cs) /\ i + 1 = 1
    BY <1>1, <1>4
  <2>. QED
    BY <1>2, <1>4, <2>1 DEF FloorOf, TopOf
<1>5. CASE i # 0 /\ i = Len(cs)
  BY <1>1, <1>2, <1>5 DEF FloorOf, TopOf
<1>6. CASE i # 0 /\ i # Len(cs)
  <2>1. i \in 1..Len(cs) /\ i + 1 \in 1..Len(cs) /\ i \in 1..(i + 1)
    BY <1>1, <1>6
  <2>2. cs[i].mark <= cs[i + 1].mark
    BY <2>1 DEF Nested
  <2>. QED
    BY <1>2, <1>6, <2>1, <2>2 DEF FloorOf, TopOf
<1>. QED
  BY <1>3, <1>4, <1>5, <1>6

LEMMA LevelsAreSeq ==
  ASSUME NEW cs, NEW tr, Nested(cs, tr)
  PROVE  /\ LevelsOf(cs, tr) \in Seq(Seq(Bindings))
         /\ Len(cs) \in Nat
         /\ Len(LevelsOf(cs, tr)) = Len(cs) + 1
         /\ \A i \in 0..Len(cs) : Level(cs, tr, i) \in Seq(Bindings)
         /\ \A i \in 1..(Len(cs) + 1) : LevelsOf(cs, tr)[i] = Level(cs, tr, i - 1)
<1>1. PICK n \in Nat : n = Len(cs)
  BY LenProperties DEF Nested
<1>2. ASSUME NEW i \in 0..n PROVE Level(cs, tr, i) \in Seq(Bindings)
  <2>1. PICK a \in Nat, b \in Nat : /\ a = FloorOf(cs, i) /\ b = TopOf(cs, tr, i)
                                    /\ a <= b /\ b <= Len(tr)
    BY <1>1, LevelBounds
  <2>2. tr \in Seq(Bindings)
    BY DEF Nested
  <2>3. SubSeq(tr, a + 1, b) \in Seq(Bindings)
    BY <2>1, <2>2, Part
  <2>. QED
    BY <2>1, <2>3 DEF Level
<1>3. \A i \in 1..(n + 1) : i - 1 \in 0..n
  OBVIOUS
<1>4. LevelsOf(cs, tr) = [i \in 1..(n + 1) |-> Level(cs, tr, i - 1)]
  BY <1>1 DEF LevelsOf
<1>5. \A i \in 1..(n + 1) : Level(cs, tr, i - 1) \in Seq(Bindings)
  BY <1>2, <1>3
<1>6. LevelsOf(cs, tr) \in [1..(n + 1) -> Seq(Bindings)]
  BY <1>4, <1>5
<1>7. n + 1 \in Nat /\ LevelsOf(cs, tr) \in Seq(Seq(Bindings))
  BY <1>6
<1>8. DOMAIN LevelsOf(cs, tr) = 1..(n + 1) /\ DOMAIN LevelsOf(cs, tr) = 1..Len(LevelsOf(cs, tr))
  BY <1>4, <1>7, LenProperties
<1>9. Len(LevelsOf(cs, tr)) = n + 1
  <2>1. Len(LevelsOf(cs, tr)) \in Nat
    BY <1>7, LenProperties
  <2>. QED
    BY <1>8, <2>1
<1>10. \A i \in 1..(n + 1) : LevelsOf(cs, tr)[i] = Level(cs, tr, i - 1)
  BY <1>4
<1>. QED
  BY <1>1, <1>2, <1>7, <1>9, <1>10

(* A level below which two states agree is the same in both. *)
LEMMA SameLevel ==
  ASSUME NEW cs, NEW tr, Nested(cs, tr), NEW ds, NEW tt, Nested(ds, tt),
         NEW i \in 0..Len(cs), i \in 0..Len(ds),
         FloorOf(ds, i) = FloorOf(cs, i), TopOf(ds, tt, i) = TopOf(cs, tr, i),
         \A j \in 1..TopOf(cs, tr, i) : tt[j] = tr[j]
  PROVE  Level(ds, tt, i) = Level(cs, tr, i)
<1>1. PICK a \in Nat, b \in Nat : /\ a = FloorOf(cs, i) /\ b = TopOf(cs, tr, i)
                                  /\ a <= b /\ b <= Len(tr)
  BY LevelBounds
<1>2. b <= Len(tt)
  BY <1>1, LevelBounds
<1>3. tr \in Seq(Bindings) /\ tt \in Seq(Bindings)
  BY DEF Nested
<1>4. \A j \in 1..b : tt[j] = tr[j]
  BY <1>1
<1>5. SubSeq(tt, a + 1, b) = SubSeq(tr, a + 1, b)
  BY <1>1, <1>2, <1>3, <1>4, SamePart
<1>. QED
  BY <1>1, <1>5 DEF Level

(* Opening a call adds an empty level. *)
LEMMA OpenedCall ==
  ASSUME NEW cs, NEW tr, Nested(cs, tr), NEW c \in Call, c.mark = Len(tr), Settled(c),
         cs # <<>> => cs[Len(cs)].state \in {"body", "held"}
  PROVE  /\ Nested(Append(cs, c), tr)
         /\ LevelsOf(Append(cs, c), tr) = Append(LevelsOf(cs, tr), <<>>)
<1>1. cs \in Seq(Call) /\ tr \in Seq(Bindings)
  BY DEF Nested
<1>2. PICK n \in Nat : n = Len(cs)
  BY <1>1, LenProperties
<1>3. PICK m \in Nat : m = Len(tr)
  BY <1>1, LenProperties
<1>4. PICK ds : ds = Append(cs, c)
  OBVIOUS
<1>5. /\ ds \in Seq(Call) /\ Len(ds) = n + 1
      /\ \A i \in 1..n : ds[i] = cs[i]
      /\ ds[n + 1] = c
  BY <1>1, <1>2, <1>4, AppendProperties
<1>6. n > 0 => cs # <<>> /\ n \in 1..n
  BY <1>1, <1>2, EmptySeq
<1>7. Nested(ds, tr)
  <2>1. \A i \in 1..n :
          /\ ds[i].mark <= Len(tr)
          /\ \A j \in 1..i : ds[j].mark <= ds[i].mark
          /\ Settled(ds[i])
    <3>1. \A i \in 1..n : \A j \in 1..i : j \in 1..n
      OBVIOUS
    <3>. QED
      BY <1>2, <1>5, <3>1 DEF Nested
  <2>2. /\ ds[n + 1].mark <= Len(tr) /\ Settled(ds[n + 1])
        /\ \A j \in 1..(n + 1) : ds[j].mark <= ds[n + 1].mark
    <3>1. ds[n + 1].mark = m /\ \A j \in 1..n : ds[j].mark <= m
      BY <1>3, <1>5, <2>1
    <3>2. \A j \in 1..(n + 1) : j \in 1..n \/ j = n + 1
      OBVIOUS
    <3>. QED
      BY <1>3, <1>5, <3>1, <3>2
  <2>3. ASSUME NEW i \in 1..n PROVE ds[i].state \in {"body", "held"}
    <3>1. CASE i = n
      BY <1>2, <1>5, <1>6, <3>1
    <3>2. CASE i < n
      BY <1>2, <1>5, <3>2 DEF Nested
    <3>. QED
      BY <3>1, <3>2
  <2>4. \A i \in 1..Len(ds) : (i \in 1..n \/ i = n + 1) /\ (i < Len(ds) <=> i \in 1..n)
    BY <1>5
  <2>5. \A i \in 1..Len(ds) :
          /\ ds[i].mark <= Len(tr)
          /\ \A j \in 1..i : ds[j].mark <= ds[i].mark
          /\ Settled(ds[i])
          /\ (i < Len(ds)) => ds[i].state \in {"body", "held"}
    BY <2>1, <2>2, <2>3, <2>4
  <2>. QED
    BY <1>1, <1>5, <2>5 DEF Nested
<1>8. PICK l \in Seq(Seq(Bindings)) : l = LevelsOf(cs, tr)
  BY LevelsAreSeq
<1>9. Len(l) = n + 1 /\ \A i \in 1..(n + 1) : l[i] = Level(cs, tr, i - 1)
  BY <1>2, <1>8, LevelsAreSeq
<1>10. PICK k \in Seq(Seq(Bindings)) : k = LevelsOf(ds, tr)
  BY <1>7, LevelsAreSeq
<1>11. Len(k) = n + 2 /\ \A i \in 1..(n + 2) : k[i] = Level(ds, tr, i - 1)
  <2>1. Len(ds) + 1 = n + 2
    BY <1>5
  <2>2. Len(k) = Len(ds) + 1 /\ \A i \in 1..(Len(ds) + 1) : k[i] = Level(ds, tr, i - 1)
    BY <1>7, <1>10, LevelsAreSeq
  <2>. QED
    BY <2>1, <2>2
<1>12. ASSUME NEW i \in 0..n PROVE Level(ds, tr, i) = Level(cs, tr, i)
  <2>1. FloorOf(ds, i) = FloorOf(cs, i)
    BY <1>5 DEF FloorOf
  <2>2. TopOf(ds, tr, i) = TopOf(cs, tr, i)
    <3>1. CASE i = n
      BY <1>2, <1>5, <3>1 DEF TopOf
    <3>2. CASE i # n
      <4>1. i + 1 \in 1..n /\ i # n + 1
        BY <3>2
      <4>2. ds[i + 1] = cs[i + 1]
        BY <1>5, <4>1
      <4>. QED
        BY <1>2, <1>5, <3>2, <4>1, <4>2 DEF TopOf
    <3>. QED
      BY <3>1, <3>2
  <2>3. i \in 0..Len(cs) /\ i \in 0..Len(ds)
    BY <1>2, <1>5
  <2>. QED
    BY <1>7, <2>1, <2>2, <2>3, SameLevel
<1>13. Level(ds, tr, n + 1) = <<>>
  <2>1. FloorOf(ds, n + 1) = m /\ TopOf(ds, tr, n + 1) = m
    BY <1>3, <1>5 DEF FloorOf, TopOf
  <2>2. SubSeq(tr, m + 1, m) = <<>>
    BY SubSeqEmpty
  <2>. QED
    BY <2>1, <2>2 DEF Level
<1>14. <<>> \in Seq(Bindings)
  BY EmptySeq
<1>15. PICK r : r = Append(l, <<>>)
  OBVIOUS
<1>16. /\ r \in Seq(Seq(Bindings)) /\ Len(r) = n + 2
       /\ \A i \in 1..(n + 1) : r[i] = l[i]
       /\ r[n + 2] = <<>>
  BY <1>9, <1>14, <1>15, AppendProperties
<1>17. ASSUME NEW i \in 1..(n + 2) PROVE k[i] = r[i]
  <2>1. CASE i \in 1..(n + 1)
    <3>1. i - 1 \in 0..n
      BY <2>1
    <3>. QED
      BY <1>9, <1>11, <1>12, <1>16, <2>1, <3>1
  <2>2. CASE i = n + 2
    <3>1. i - 1 = n + 1
      BY <2>2
    <3>. QED
      BY <1>11, <1>13, <1>16, <2>2, <3>1
  <2>. QED
    BY <2>1, <2>2
<1>18. k = r
  BY <1>11, <1>16, <1>17, SeqEqual
<1>. QED
  BY <1>4, <1>7, <1>8, <1>10, <1>15, <1>18

(* A call that moves on keeps its mark, so the levels stay. *)
LEMMA ReplacedInnermost ==
  ASSUME NEW cs, NEW tr, Nested(cs, tr), cs # <<>>,
         NEW c \in Call, c.mark = cs[Len(cs)].mark, Settled(c)
  PROVE  /\ Nested(Append(OuterOf(cs), c), tr)
         /\ LevelsOf(Append(OuterOf(cs), c), tr) = LevelsOf(cs, tr)
<1>1. cs \in Seq(Call) /\ tr \in Seq(Bindings)
  BY DEF Nested
<1>2. PICK n \in Nat \ {0} : n = Len(cs)
  BY <1>1, OuterCalls
<1>3. PICK ds : ds = Append(OuterOf(cs), c)
  OBVIOUS
<1>4. /\ ds \in Seq(Call) /\ Len(ds) = n
      /\ \A i \in 1..(n - 1) : ds[i] = cs[i]
      /\ ds[n] = c
  BY <1>1, <1>2, <1>3, ReplacedCall
<1>5. \A i \in 1..n : ds[i].mark = cs[i].mark /\ (i < n => ds[i] = cs[i])
  <2>1. \A i \in 1..n : i \in 1..(n - 1) \/ i = n
    OBVIOUS
  <2>. QED
    BY <1>2, <1>4, <2>1
<1>6. Nested(ds, tr)
  <2>1. ASSUME NEW i \in 1..n
        PROVE  /\ ds[i].mark <= Len(tr)
               /\ \A j \in 1..i : ds[j].mark <= ds[i].mark
               /\ i < n => ds[i].state \in {"body", "held"}
    <3>1. /\ cs[i].mark <= Len(tr)
          /\ \A j \in 1..i : cs[j].mark <= cs[i].mark /\ j \in 1..n
          /\ i < n => cs[i].state \in {"body", "held"}
      BY <1>2 DEF Nested
    <3>. QED
      BY <1>5, <3>1
  <2>2. ASSUME NEW i \in 1..n PROVE Settled(ds[i])
    <3>1. CASE i = n
      BY <1>4, <3>1
    <3>2. CASE i < n
      BY <1>2, <1>5, <3>2 DEF Nested
    <3>. QED
      BY <3>1, <3>2
  <2>. QED
    BY <1>1, <1>4, <2>1, <2>2 DEF Nested
<1>7. ASSUME NEW i \in 0..n PROVE Level(ds, tr, i) = Level(cs, tr, i)
  <2>1. FloorOf(ds, i) = FloorOf(cs, i)
    BY <1>5 DEF FloorOf
  <2>2. TopOf(ds, tr, i) = TopOf(cs, tr, i)
    <3>1. i # n => i + 1 \in 1..n
      OBVIOUS
    <3>. QED
      BY <1>2, <1>4, <1>5, <3>1 DEF TopOf
  <2>3. i \in 0..Len(cs) /\ i \in 0..Len(ds)
    BY <1>2, <1>4
  <2>. QED
    BY <1>6, <2>1, <2>2, <2>3, SameLevel
<1>8. \A i \in 1..(n + 1) : Level(ds, tr, i - 1) = Level(cs, tr, i - 1)
  <2>1. \A i \in 1..(n + 1) : i - 1 \in 0..n
    OBVIOUS
  <2>. QED
    BY <1>7, <2>1
<1>9. LevelsOf(ds, tr) = LevelsOf(cs, tr)
  BY <1>2, <1>4, <1>8 DEF LevelsOf
<1>. QED
  BY <1>3, <1>6, <1>9

(* A trail that changes above the innermost mark changes the innermost level. *)
LEMMA RewrittenTrail ==
  ASSUME NEW cs, NEW tr, Nested(cs, tr), NEW tt \in Seq(Bindings),
         FloorOf(cs, Len(cs)) <= Len(tt),
         \A j \in 1..FloorOf(cs, Len(cs)) : tt[j] = tr[j]
  PROVE  /\ Nested(cs, tt)
         /\ LevelsOf(cs, tt) = [LevelsOf(cs, tr) EXCEPT ![Len(cs) + 1] =
                                  SubSeq(tt, FloorOf(cs, Len(cs)) + 1, Len(tt))]
<1>1. PICK n \in Nat : n = Len(cs)
  BY LenProperties DEF Nested
<1>2. PICK f \in Nat : f = FloorOf(cs, n)
  BY <1>1, LevelBounds
<1>3. Len(tt) \in Nat /\ f <= Len(tt) /\ \A j \in 1..f : tt[j] = tr[j]
  BY <1>1, <1>2, LenProperties
<1>4. \A i \in 1..n : cs[i].mark <= f /\ cs[i].mark \in Nat
  <2>1. \A i \in 1..n : n > 0 /\ n \in 1..n /\ cs[i] \in Call
    BY <1>1, ElementOfSeq DEF Nested
  <2>2. n > 0 => f = cs[n].mark
    BY <1>2 DEF FloorOf
  <2>3. \A i \in 1..n : cs[i].mark <= cs[n].mark
    BY <1>1, <2>1 DEF Nested
  <2>. QED
    BY <2>1, <2>2, <2>3 DEF Call
<1>5. Nested(cs, tt)
  <2>1. \A i \in 1..Len(cs) : cs[i].mark <= Len(tt)
    BY <1>1, <1>3, <1>4
  <2>. QED
    BY <2>1 DEF Nested
<1>6. ASSUME NEW i \in 0..n, i # n PROVE Level(cs, tt, i) = Level(cs, tr, i)
  <2>1. i + 1 \in 1..n /\ i \in 0..Len(cs)
    BY <1>1, <1>6
  <2>2. TopOf(cs, tt, i) = cs[i + 1].mark /\ TopOf(cs, tr, i) = cs[i + 1].mark
    BY <1>1, <1>6 DEF TopOf
  <2>3. \A j \in 1..TopOf(cs, tr, i) : tt[j] = tr[j]
    BY <1>3, <1>4, <2>1, <2>2
  <2>. QED
    BY <1>5, <2>1, <2>2, <2>3, SameLevel
<1>7. Level(cs, tt, n) = SubSeq(tt, f + 1, Len(tt))
  BY <1>1, <1>2 DEF Level, TopOf
<1>8. ASSUME NEW i \in 1..(n + 1)
      PROVE  Level(cs, tt, i - 1) = IF i = n + 1 THEN SubSeq(tt, f + 1, Len(tt))
                                    ELSE Level(cs, tr, i - 1)
  <2>1. CASE i = n + 1
    <3>1. i - 1 = n
      BY <2>1
    <3>. QED
      BY <1>7, <2>1, <3>1
  <2>2. CASE i # n + 1
    <3>1. i - 1 \in 0..n /\ i - 1 # n
      BY <2>2
    <3>. QED
      BY <1>6, <2>2, <3>1
  <2>. QED
    BY <2>1, <2>2
<1>9. LevelsOf(cs, tt) = [LevelsOf(cs, tr) EXCEPT ![n + 1] = SubSeq(tt, f + 1, Len(tt))]
  BY <1>1, <1>8 DEF LevelsOf
<1>. QED
  BY <1>1, <1>2, <1>5, <1>9

(* The calls around the innermost one, on what is left of the trail. *)
LEMMA OuterNested ==
  ASSUME NEW cs, NEW tr, Nested(cs, tr), cs # <<>>, NEW tt \in Seq(Bindings),
         cs[Len(cs)].mark <= Len(tt)
  PROVE  Nested(OuterOf(cs), tt)
<1>1. cs \in Seq(Call)
  BY DEF Nested
<1>2. PICK n \in Nat \ {0} : n = Len(cs)
  BY <1>1, OuterCalls
<1>3. PICK ds \in Seq(Call) : ds = OuterOf(cs)
  BY <1>1, OuterCalls
<1>4. Len(ds) = n - 1 /\ \A i \in 1..(n - 1) : ds[i] = cs[i]
  BY <1>1, <1>2, <1>3, OuterCalls
<1>5. \A i \in 1..n : cs[i].mark \in Nat /\ cs[i].mark <= cs[n].mark
  <2>1. \A i \in 1..n : cs[i] \in Call
    BY <1>1, <1>2, ElementOfSeq
  <2>2. n \in 1..n /\ \A i \in 1..n : i \in 1..n
    OBVIOUS
  <2>3. \A i \in 1..n : cs[i].mark <= cs[n].mark
    BY <1>2, <2>2 DEF Nested
  <2>. QED
    BY <2>1, <2>3 DEF Call
<1>6. Len(tt) \in Nat
  BY LenProperties
<1>7. ASSUME NEW i \in 1..(n - 1)
      PROVE  /\ ds[i].mark <= Len(tt)
             /\ \A j \in 1..i : ds[j].mark <= ds[i].mark
             /\ Settled(ds[i])
             /\ (i < n - 1) => ds[i].state \in {"body", "held"}
  <2>1. i \in 1..n /\ i < n /\ \A j \in 1..i : j \in 1..(n - 1)
    OBVIOUS
  <2>2. /\ \A j \in 1..i : cs[j].mark <= cs[i].mark
        /\ Settled(cs[i]) /\ cs[i].state \in {"body", "held"}
    BY <1>2, <2>1 DEF Nested
  <2>3. cs[i].mark <= Len(tt)
    BY <1>2, <1>5, <1>6, <2>1
  <2>. QED
    BY <1>4, <2>1, <2>2, <2>3
<1>8. Nested(ds, tt)
  BY <1>4, <1>7 DEF Nested
<1>. QED
  BY <1>3, <1>8

LEMMA OuterLevels ==
  ASSUME NEW cs, NEW tr, Nested(cs, tr), cs # <<>>, NEW tt \in Seq(Bindings),
         cs[Len(cs)].mark <= Len(tt),
         \A j \in 1..cs[Len(cs)].mark : tt[j] = tr[j]
  PROVE  /\ Len(LevelsOf(OuterOf(cs), tt)) = Len(cs)
         /\ \A i \in 1..(Len(cs) - 1) : LevelsOf(OuterOf(cs), tt)[i] = LevelsOf(cs, tr)[i]
         /\ LevelsOf(OuterOf(cs), tt)[Len(cs)] =
              SubSeq(tt, FloorOf(cs, Len(cs) - 1) + 1, Len(tt))
<1>1. cs \in Seq(Call)
  BY DEF Nested
<1>2. PICK n \in Nat \ {0} : n = Len(cs)
  BY <1>1, OuterCalls
<1>3. PICK ds \in Seq(Call) : ds = OuterOf(cs)
  BY <1>1, OuterCalls
<1>4. Len(ds) = n - 1 /\ \A i \in 1..(n - 1) : ds[i] = cs[i]
  BY <1>1, <1>2, <1>3, OuterCalls
<1>5. Nested(ds, tt)
  BY <1>3, OuterNested
<1>6. \A i \in 1..n : cs[i].mark \in Nat /\ cs[i].mark <= cs[n].mark
  <2>1. \A i \in 1..n : cs[i] \in Call
    BY <1>1, <1>2, ElementOfSeq
  <2>2. n \in 1..n
    OBVIOUS
  <2>3. \A i \in 1..n : cs[i].mark <= cs[n].mark
    BY <1>2, <2>2 DEF Nested
  <2>. QED
    BY <2>1, <2>3 DEF Call
<1>7. ASSUME NEW i \in 0..(n - 2) PROVE Level(ds, tt, i) = Level(cs, tr, i)
  <2>1. i + 1 \in 1..(n - 1) /\ i + 1 \in 1..n /\ i # n - 1 /\ i # n
    OBVIOUS
  <2>2. TopOf(ds, tt, i) = cs[i + 1].mark /\ TopOf(cs, tr, i) = cs[i + 1].mark
    BY <1>2, <1>4, <2>1 DEF TopOf
  <2>3. FloorOf(ds, i) = FloorOf(cs, i)
    BY <1>4 DEF FloorOf
  <2>4. \A j \in 1..TopOf(cs, tr, i) : tt[j] = tr[j]
    BY <1>2, <1>6, <2>1, <2>2
  <2>5. i \in 0..Len(cs) /\ i \in 0..Len(ds)
    BY <1>2, <1>4
  <2>. QED
    BY <1>5, <2>2, <2>3, <2>4, <2>5, SameLevel
<1>8. Level(ds, tt, n - 1) = SubSeq(tt, FloorOf(cs, n - 1) + 1, Len(tt))
  <2>1. FloorOf(ds, n - 1) = FloorOf(cs, n - 1)
    BY <1>4 DEF FloorOf
  <2>. QED
    BY <1>4, <2>1 DEF Level, TopOf
<1>9. Len(LevelsOf(ds, tt)) = n /\ \A i \in 1..n : LevelsOf(ds, tt)[i] = Level(ds, tt, i - 1)
  <2>1. Len(ds) + 1 = n
    BY <1>4
  <2>. QED
    BY <1>5, <2>1, LevelsAreSeq
<1>10. \A i \in 1..n : LevelsOf(cs, tr)[i] = Level(cs, tr, i - 1)
  <2>1. \A i \in 1..n : i \in 1..(Len(cs) + 1)
    BY <1>2
  <2>. QED
    BY <2>1, LevelsAreSeq
<1>11. \A i \in 1..(n - 1) : i - 1 \in 0..(n - 2) /\ i \in 1..n
  OBVIOUS
<1>12. \A i \in 1..(n - 1) : LevelsOf(ds, tt)[i] = LevelsOf(cs, tr)[i]
  BY <1>7, <1>9, <1>10, <1>11
<1>13. LevelsOf(ds, tt)[n] = SubSeq(tt, FloorOf(cs, n - 1) + 1, Len(tt))
  BY <1>8, <1>9
<1>. QED
  BY <1>2, <1>3, <1>9, <1>12, <1>13

(* A call that keeps its bindings merges its level into the one below. *)
LEMMA MergedCall ==
  ASSUME NEW cs, NEW tr, Nested(cs, tr), cs # <<>>
  PROVE  LET l == LevelsOf(cs, tr) IN
         /\ Nested(OuterOf(cs), tr)
         /\ LevelsOf(OuterOf(cs), tr) =
              Append(SubSeq(l, 1, Len(cs) - 1), l[Len(cs)] \o l[Len(cs) + 1])
<1>1. cs \in Seq(Call) /\ tr \in Seq(Bindings)
  BY DEF Nested
<1>2. PICK n \in Nat \ {0} : n = Len(cs)
  BY <1>1, OuterCalls
<1>3. PICK m \in Nat : m = cs[n].mark /\ m <= Len(tr)
  <2>1. n \in 1..n /\ cs[n] \in Call
    BY <1>1, <1>2, ElementOfSeq
  <2>. QED
    BY <1>2, <2>1 DEF Nested, Call
<1>4. PICK a \in Nat : a = FloorOf(cs, n - 1) /\ a <= m /\ TopOf(cs, tr, n - 1) = m
  <2>1. n - 1 \in 0..n /\ n - 1 # n /\ n - 1 + 1 = n
    OBVIOUS
  <2>2. TopOf(cs, tr, n - 1) = m
    BY <1>2, <1>3, <2>1 DEF TopOf
  <2>. QED
    BY <1>2, <2>1, <2>2, LevelBounds
<1>5. Nested(OuterOf(cs), tr)
  BY <1>1, <1>2, <1>3, OuterNested
<1>6. PICK l \in Seq(Seq(Bindings)) : l = LevelsOf(cs, tr)
  BY LevelsAreSeq
<1>7. /\ Len(l) = n + 1
      /\ l[n] = SubSeq(tr, a + 1, m)
      /\ l[n + 1] = SubSeq(tr, m + 1, Len(tr))
  <2>1. Len(l) = n + 1 /\ \A i \in 1..(n + 1) : l[i] = Level(cs, tr, i - 1)
    BY <1>2, <1>6, LevelsAreSeq
  <2>2. l[n] = Level(cs, tr, n - 1)
    BY <2>1
  <2>3. n + 1 - 1 = n
    OBVIOUS
  <2>4. l[n + 1] = Level(cs, tr, n)
    BY <2>1, <2>3
  <2>5. Level(cs, tr, n - 1) = SubSeq(tr, a + 1, m)
    BY <1>4 DEF Level
  <2>6. Level(cs, tr, n) = SubSeq(tr, m + 1, Len(tr))
    BY <1>2, <1>3 DEF Level, TopOf, FloorOf
  <2>. QED
    BY <2>1, <2>2, <2>4, <2>5, <2>6
<1>8. l[n] \o l[n + 1] = SubSeq(tr, a + 1, Len(tr))
  <2>1. PICK z \in Nat : z = Len(tr)
    BY <1>1, LenProperties
  <2>2. PICK b \in 1..(z + 1) : b = a + 1
    BY <1>3, <1>4, <2>1
  <2>3. m \in (b - 1)..z /\ z \in m..z
    BY <1>3, <1>4, <2>1, <2>2
  <2>4. SubSeq(tr, b, m) \o SubSeq(tr, m + 1, z) = SubSeq(tr, b, z)
    BY <1>1, <2>1, <2>3, ConcatAdjacentSubSeq
  <2>. QED
    BY <1>7, <2>1, <2>2, <2>4
<1>9. PICK k \in Seq(Seq(Bindings)) : k = LevelsOf(OuterOf(cs), tr)
  BY <1>5, LevelsAreSeq
<1>10. /\ Len(k) = n
       /\ \A i \in 1..(n - 1) : k[i] = l[i]
       /\ k[n] = SubSeq(tr, a + 1, Len(tr))
  BY ZenonT(30), <1>1, <1>2, <1>3, <1>4, <1>6, <1>9, OuterLevels
<1>11. PICK p : p = SubSeq(l, 1, n - 1)
  OBVIOUS
<1>12. p \in Seq(Seq(Bindings)) /\ Len(p) = n - 1 /\ \A i \in 1..(n - 1) : p[i] = l[i]
  <2>1. 1 \in Int /\ n - 1 \in Int /\ \A i \in 1..(n - 1) : l[i] \in Seq(Bindings)
    BY <1>7, ElementOfSeq
  <2>2. /\ p \in Seq(Seq(Bindings))
        /\ Len(p) = IF 1 <= n - 1 THEN n - 1 - 1 + 1 ELSE 0
        /\ \A i \in 1..(n - 1 - 1 + 1) : p[i] = l[1 + i - 1]
    BY <1>11, <2>1, SubSeqProperties
  <2>. QED
    BY <2>2
<1>13. PICK q : q = SubSeq(tr, a + 1, Len(tr)) /\ q \in Seq(Bindings)
  BY <1>9, <1>10, ElementOfSeq
<1>14. /\ Append(p, q) \in Seq(Seq(Bindings)) /\ Len(Append(p, q)) = Len(p) + 1
       /\ \A i \in 1..Len(p) : Append(p, q)[i] = p[i]
       /\ Append(p, q)[Len(p) + 1] = q
  BY <1>12, <1>13, AppendProperties
<1>15. PICK r : r = Append(p, q)
  OBVIOUS
<1>16. /\ r \in Seq(Seq(Bindings)) /\ Len(r) = n
       /\ \A i \in 1..(n - 1) : r[i] = l[i]
       /\ r[n] = q
  BY <1>12, <1>14, <1>15
<1>17. \A i \in 1..n : i \in 1..(n - 1) \/ i = n
  OBVIOUS
<1>18. \A i \in 1..Len(k) : k[i] = r[i]
  <2> SUFFICES ASSUME NEW i \in 1..n PROVE k[i] = r[i]
    BY <1>10
  <2>1. CASE i \in 1..(n - 1)
    BY <1>10, <1>16, <2>1
  <2>2. CASE i = n
    BY <1>10, <1>13, <1>16, <2>2
  <2>. QED
    BY <1>17, <2>1, <2>2
<1>19. k = r
  BY <1>10, <1>16, <1>18, SeqEqual
<1>. QED
  BY <1>2, <1>5, <1>6, <1>8, <1>9, <1>11, <1>13, <1>15, <1>19

(* A call that discards its bindings drops its level. *)
LEMMA DroppedCall ==
  ASSUME NEW cs, NEW tr, Nested(cs, tr), cs # <<>>
  PROVE  LET undone == SubSeq(tr, 1, cs[Len(cs)].mark) IN
         /\ Nested(OuterOf(cs), undone)
         /\ LevelsOf(OuterOf(cs), undone) = SubSeq(LevelsOf(cs, tr), 1, Len(cs))
<1>1. cs \in Seq(Call) /\ tr \in Seq(Bindings)
  BY DEF Nested
<1>2. PICK n \in Nat \ {0} : n = Len(cs)
  BY <1>1, OuterCalls
<1>3. PICK m \in Nat : m = cs[n].mark /\ m <= Len(tr)
  <2>1. n \in 1..n /\ cs[n] \in Call
    BY <1>1, <1>2, ElementOfSeq
  <2>. QED
    BY <1>2, <2>1 DEF Nested, Call
<1>4. PICK u \in Seq(Bindings) : /\ u = SubSeq(tr, 1, m)
                                 /\ Len(u) = m
                                 /\ \A j \in 1..m : u[j] = tr[j]
  <2>1. PICK u : u = SubSeq(tr, 0 + 1, m)
    OBVIOUS
  <2>2. u \in Seq(Bindings) /\ Len(u) = m - 0 /\ \A j \in 1..(m - 0) : u[j] = tr[0 + j]
    BY <1>1, <1>3, <2>1, Part
  <2>. QED
    BY <2>1, <2>2
<1>u. /\ m <= Len(u) /\ cs[Len(cs)].mark <= Len(u)
      /\ \A j \in 1..cs[Len(cs)].mark : u[j] = tr[j]
  BY <1>2, <1>3, <1>4
<1>5. Nested(OuterOf(cs), u)
  BY <1>u, OuterNested
<1>6. PICK a \in Nat : a = FloorOf(cs, n - 1) /\ a <= m /\ TopOf(cs, tr, n - 1) = m
  <2>1. n - 1 \in 0..n /\ n - 1 # n /\ n - 1 + 1 = n
    OBVIOUS
  <2>2. TopOf(cs, tr, n - 1) = m
    BY <1>2, <1>3, <2>1 DEF TopOf
  <2>. QED
    BY <1>2, <2>1, <2>2, LevelBounds
<1>7. PICK l \in Seq(Seq(Bindings)) : l = LevelsOf(cs, tr)
  BY LevelsAreSeq
<1>8. Len(l) = n + 1 /\ l[n] = SubSeq(tr, a + 1, m)
  <2>1. Len(l) = n + 1 /\ \A i \in 1..(n + 1) : l[i] = Level(cs, tr, i - 1)
    BY <1>2, <1>7, LevelsAreSeq
  <2>2. l[n] = Level(cs, tr, n - 1)
    BY <2>1
  <2>. QED
    BY <1>6, <2>1, <2>2 DEF Level
<1>9. SubSeq(u, a + 1, m) = SubSeq(tr, a + 1, m)
  BY ZenonT(30), <1>1, <1>3, <1>4, <1>6, <1>u, SamePart
<1>10. PICK k \in Seq(Seq(Bindings)) : k = LevelsOf(OuterOf(cs), u)
  BY <1>5, LevelsAreSeq
<1>11. /\ Len(k) = n
       /\ \A i \in 1..(n - 1) : k[i] = l[i]
       /\ k[n] = SubSeq(u, a + 1, m)
  <2>1. /\ Len(k) = n
        /\ \A i \in 1..(n - 1) : k[i] = l[i]
        /\ k[n] = SubSeq(u, FloorOf(cs, n - 1) + 1, Len(u))
    BY SMTT(30), <1>2, <1>7, <1>10, <1>u, OuterLevels
  <2>. QED
    BY <1>4, <1>6, <2>1
<1>12. \A i \in 1..n : k[i] = l[i]
  <2>1. \A i \in 1..n : i \in 1..(n - 1) \/ i = n
    OBVIOUS
  <2>. QED
    BY <1>8, <1>9, <1>11, <2>1
<1>13. PICK p : p = SubSeq(l, 1, n)
  OBVIOUS
<1>14. p \in Seq(Seq(Bindings)) /\ Len(p) = n /\ \A i \in 1..n : p[i] = l[i]
  <2>1. 1 \in Int /\ n \in Int /\ \A i \in 1..n : l[i] \in Seq(Bindings)
    BY <1>8, ElementOfSeq
  <2>2. /\ p \in Seq(Seq(Bindings))
        /\ Len(p) = IF 1 <= n THEN n - 1 + 1 ELSE 0
        /\ \A i \in 1..(n - 1 + 1) : p[i] = l[1 + i - 1]
    BY <1>13, <2>1, SubSeqProperties
  <2>. QED
    BY <2>2
<1>15. k = p
  BY <1>11, <1>12, <1>14, SeqEqual
<1>. QED
  BY <1>2, <1>3, <1>4, <1>5, <1>7, <1>10, <1>13, <1>15

----------------------------------------------------------------------------------
(* What the steps do to calls, trail and levels. *)

LEMMA AtInnermost ==
  ASSUME Nested(calls, trail), calls # <<>>
  PROVE  /\ Inner \in Call /\ Settled(Inner)
         /\ Inner.mark \in Nat /\ Inner.mark <= Len(trail)
         /\ Len(calls) \in Nat \ {0} /\ Inner.mark = FloorOf(calls, Len(calls))
         /\ Undone(Inner) \in Seq(Bindings)
         /\ Len(Undone(Inner)) = Inner.mark
         /\ \A j \in 1..Inner.mark : Undone(Inner)[j] = trail[j]
<1>1. calls \in Seq(Call) /\ trail \in Seq(Bindings)
  BY DEF Nested
<1>2. Len(calls) \in Nat \ {0} /\ Len(calls) \in 1..Len(calls)
  BY <1>1, OuterCalls
<1>3. Inner \in Call /\ Settled(Inner) /\ Inner.mark <= Len(trail)
  BY <1>1, <1>2, ElementOfSeq DEF Nested, Inner
<1>4. PICK m \in Nat : m = Inner.mark
  BY <1>3 DEF Call
<1>5. PICK u : u = SubSeq(trail, 0 + 1, m)
  OBVIOUS
<1>6. u \in Seq(Bindings) /\ Len(u) = m - 0 /\ \A j \in 1..(m - 0) : u[j] = trail[0 + j]
  BY <1>1, <1>3, <1>4, <1>5, Part
<1>7. u = Undone(Inner)
  BY <1>4, <1>5 DEF Undone
<1>8. Len(u) = m /\ \A j \in 1..m : u[j] = trail[j]
  BY <1>6
<1>9. m = FloorOf(calls, Len(calls))
  BY <1>2, <1>4 DEF FloorOf, Inner
<1>. QED
  BY <1>2, <1>3, <1>4, <1>6, <1>7, <1>8, <1>9

(* The innermost call moves on, and the trail above its mark is rewritten. *)
LEMMA Rewritten ==
  ASSUME Nested(calls, trail), calls # <<>>,
         NEW c \in Call, c.mark = Inner.mark, Settled(c), Continue(c),
         trail' \in Seq(Bindings), Inner.mark <= Len(trail'),
         \A j \in 1..Inner.mark : trail'[j] = trail[j]
  PROVE  /\ Nested(calls', trail')
         /\ LevelsOf(calls', trail') =
              [LevelsOf(calls, trail) EXCEPT ![Len(calls) + 1] =
                 SubSeq(trail', Inner.mark + 1, Len(trail'))]
<1>1. PICK ds : ds = Append(OuterOf(calls), c)
  OBVIOUS
<1>2. calls \in Seq(Call) /\ c.mark = calls[Len(calls)].mark
  BY DEF Nested, Inner
<1>3. Nested(ds, trail) /\ LevelsOf(ds, trail) = LevelsOf(calls, trail)
  BY <1>1, <1>2, ReplacedInnermost
<1>4. Len(ds) = Len(calls) /\ ds[Len(calls)] = c /\ Len(calls) \in Nat \ {0}
  BY <1>1, <1>2, ReplacedCall, OuterCalls
<1>5. FloorOf(ds, Len(ds)) = Inner.mark
  BY <1>4 DEF FloorOf
<1>6. /\ Nested(ds, trail')
      /\ LevelsOf(ds, trail') = [LevelsOf(ds, trail) EXCEPT ![Len(ds) + 1] =
                                   SubSeq(trail', FloorOf(ds, Len(ds)) + 1, Len(trail'))]
  BY <1>3, <1>5, RewrittenTrail
<1>7. calls' = ds
  BY <1>1 DEF Continue, Outer, OuterOf
<1>. QED
  BY <1>3, <1>4, <1>5, <1>6, <1>7

(* ... to nothing ... *)
LEMMA UndoneLevel ==
  ASSUME Nested(calls, trail), calls # <<>>, trail' = Undone(Inner),
         NEW c \in Call, c.mark = Inner.mark, Settled(c), Continue(c)
  PROVE  /\ Nested(calls', trail')
         /\ LevelsOf(calls', trail') =
              [LevelsOf(calls, trail) EXCEPT ![Len(calls) + 1] = <<>>]
<1>1. PICK m \in Nat : m = Inner.mark
  BY AtInnermost
<1>2. /\ trail' \in Seq(Bindings) /\ Len(trail') = m
      /\ \A j \in 1..Inner.mark : trail'[j] = trail[j]
  BY <1>1, AtInnermost
<1>3. /\ Nested(calls', trail')
      /\ LevelsOf(calls', trail') =
           [LevelsOf(calls, trail) EXCEPT ![Len(calls) + 1] =
              SubSeq(trail', Inner.mark + 1, Len(trail'))]
  BY <1>1, <1>2, Rewritten
<1>4. SubSeq(trail', m + 1, m) = <<>>
  BY SubSeqEmpty
<1>. QED
  BY <1>1, <1>2, <1>3, <1>4

(* ... or to the bindings of a solution. *)
LEMMA SolutionLevel ==
  ASSUME Nested(calls, trail), calls # <<>>,
         NEW b \in Bindings, trail' = Append(Undone(Inner), b),
         NEW c \in Call, c.mark = Inner.mark, Settled(c), Continue(c)
  PROVE  /\ Nested(calls', trail')
         /\ LevelsOf(calls', trail') =
              [LevelsOf(calls, trail) EXCEPT ![Len(calls) + 1] = <<b>>]
<1>1. PICK m \in Nat : m = Inner.mark
  BY AtInnermost
<1>2. PICK u \in Seq(Bindings) : u = Undone(Inner)
  BY AtInnermost
<1>3. Len(u) = m /\ \A j \in 1..m : u[j] = trail[j]
  BY <1>1, <1>2, AtInnermost
<1>4. PICK t \in Seq(Bindings) : /\ t = Append(u, b)
                                 /\ Len(t) = m + 1
                                 /\ \A j \in 1..m : t[j] = u[j]
                                 /\ t[m + 1] = b
  <2>1. PICK t : t = Append(u, b)
    OBVIOUS
  <2>2. /\ t \in Seq(Bindings) /\ Len(t) = Len(u) + 1
        /\ \A j \in 1..Len(u) : t[j] = u[j]
        /\ t[Len(u) + 1] = b
    BY <2>1, AppendProperties
  <2>. QED
    BY <1>3, <2>1, <2>2
<1>5. trail' = t
  BY <1>2, <1>4
<1>6. /\ trail' \in Seq(Bindings) /\ Inner.mark <= Len(trail')
      /\ \A j \in 1..Inner.mark : trail'[j] = trail[j]
  BY <1>1, <1>3, <1>4, <1>5
<1>7. /\ Nested(calls', trail')
      /\ LevelsOf(calls', trail') =
           [LevelsOf(calls, trail) EXCEPT ![Len(calls) + 1] =
              SubSeq(trail', Inner.mark + 1, Len(trail'))]
  BY <1>6, Rewritten
<1>8. PICK q : q = SubSeq(t, m + 1, m + 1)
  OBVIOUS
<1>9. q \in Seq(Bindings) /\ Len(q) = m + 1 - m /\ \A i \in 1..(m + 1 - m) : q[i] = t[m + i]
  BY <1>4, <1>8, Part
<1>10. Len(q) = 1 /\ q[1] = b
  BY <1>4, <1>9
<1>11. PICK r : r = <<b>>
  OBVIOUS
<1>12. r \in Seq(Bindings) /\ Len(r) = 1 /\ r[1] = b
  BY <1>11
<1>13. \A i \in 1..Len(q) : q[i] = r[i]
  BY <1>10, <1>12
<1>14. q = r
  BY <1>9, <1>10, <1>12, <1>13, SeqEqual
<1>. QED
  BY <1>1, <1>4, <1>5, <1>7, <1>8, <1>11, <1>14

LEMMA MovedOn ==
  ASSUME Nested(calls, trail), calls # <<>>, trail' = trail,
         NEW c \in Call, c.mark = Inner.mark, Settled(c), Continue(c)
  PROVE  Nested(calls', trail') /\ LevelsOf(calls', trail') = LevelsOf(calls, trail)
BY ReplacedInnermost DEF Continue, Outer, OuterOf, Inner

(* The innermost call ends. *)
LEMMA Merged ==
  ASSUME Nested(calls, trail), calls # <<>>, calls' = Outer, trail' = trail
  PROVE  /\ Nested(calls', trail')
         /\ LET l == LevelsOf(calls, trail) IN
            LevelsOf(calls', trail') =
              Append(SubSeq(l, 1, Len(calls) - 1), l[Len(calls)] \o l[Len(calls) + 1])
BY MergedCall DEF Outer, OuterOf

LEMMA DroppedLevel ==
  ASSUME Nested(calls, trail), calls # <<>>, calls' = Outer, trail' = Undone(Inner)
  PROVE  /\ Nested(calls', trail')
         /\ LevelsOf(calls', trail') = SubSeq(LevelsOf(calls, trail), 1, Len(calls))
BY DroppedCall DEF Outer, OuterOf, Undone, Inner

(* The program binds a variable. *)
LEMMA Bound ==
  ASSUME Nested(calls, trail), calls' = calls, trail' = Append(trail, 0), 0 \in Bindings
  PROVE  /\ Nested(calls', trail')
         /\ LET l == LevelsOf(calls, trail) IN
            LevelsOf(calls', trail') =
              [l EXCEPT ![Len(calls) + 1] = Append(l[Len(calls) + 1], 0)]
<1>1. trail \in Seq(Bindings) /\ calls \in Seq(Call)
  BY DEF Nested
<1>2. PICK z \in Nat : z = Len(trail)
  BY <1>1, LenProperties
<1>3. PICK n \in Nat : n = Len(calls)
  BY <1>1, LenProperties
<1>4. PICK f \in Nat : f = FloorOf(calls, n) /\ f <= z
  <2>1. n \in 0..n /\ TopOf(calls, trail, n) = z
    BY <1>2, <1>3 DEF TopOf
  <2>. QED
    BY <1>2, <1>3, <2>1, LevelBounds
<1>5. PICK t \in Seq(Bindings) : /\ t = Append(trail, 0)
                                 /\ Len(t) = z + 1
                                 /\ \A j \in 1..z : t[j] = trail[j]
                                 /\ t[z + 1] = 0
  BY <1>1, <1>2, AppendProperties
<1>6. FloorOf(calls, Len(calls)) <= Len(t) /\ \A j \in 1..FloorOf(calls, Len(calls)) : t[j] = trail[j]
  BY <1>2, <1>3, <1>4, <1>5
<1>7. /\ Nested(calls, t)
      /\ LevelsOf(calls, t) = [LevelsOf(calls, trail) EXCEPT ![n + 1] =
                                 SubSeq(t, f + 1, z + 1)]
  <2>1. /\ Nested(calls, t)
        /\ LevelsOf(calls, t) = [LevelsOf(calls, trail) EXCEPT ![Len(calls) + 1] =
                                   SubSeq(t, FloorOf(calls, Len(calls)) + 1, Len(t))]
    BY <1>6, RewrittenTrail
  <2>. QED
    BY <1>3, <1>4, <1>5, <2>1
<1>8. LevelsOf(calls, trail)[n + 1] = SubSeq(trail, f + 1, z)
  <2>1. n + 1 \in 1..(n + 1) /\ n + 1 - 1 = n
    OBVIOUS
  <2>2. LevelsOf(calls, trail)[n + 1] = Level(calls, trail, n)
    <3>1. \A i \in 1..(n + 1) : LevelsOf(calls, trail)[i] = Level(calls, trail, i - 1)
      BY <1>3, LevelsAreSeq
    <3>. QED
      BY <2>1, <3>1
  <2>. QED
    BY <1>2, <1>3, <1>4, <2>2 DEF Level, TopOf
<1>9. SubSeq(t, f + 1, z + 1) = Append(SubSeq(trail, f + 1, z), 0)
  <2>1. PICK p : p = SubSeq(trail, f + 1, z)
    OBVIOUS
  <2>2. p \in Seq(Bindings) /\ Len(p) = z - f /\ \A i \in 1..(z - f) : p[i] = trail[f + i]
    BY <1>1, <1>2, <1>4, <2>1, Part
  <2>3. PICK q : q = SubSeq(t, f + 1, z + 1)
    OBVIOUS
  <2>4. f <= z + 1 /\ z + 1 <= Len(t) /\ z + 1 \in Nat
    BY <1>4, <1>5
  <2>5. /\ q \in Seq(Bindings) /\ Len(q) = z + 1 - f
        /\ \A i \in 1..(z + 1 - f) : q[i] = t[f + i]
    BY <2>3, <2>4, Part
  <2>6. PICK r : r = Append(p, 0)
    OBVIOUS
  <2>7. /\ r \in Seq(Bindings) /\ Len(r) = z - f + 1
        /\ \A i \in 1..(z - f) : r[i] = p[i]
        /\ r[z - f + 1] = 0
    <3>1. p \in Seq(Bindings)
      BY <2>2
    <3>2. /\ Append(p, 0) \in Seq(Bindings) /\ Len(Append(p, 0)) = Len(p) + 1
          /\ \A i \in 1..Len(p) : Append(p, 0)[i] = p[i]
          /\ Append(p, 0)[Len(p) + 1] = 0
      BY <3>1, AppendProperties
    <3>. QED
      BY <2>2, <2>6, <3>2
  <2>8. ASSUME NEW i \in 1..(z + 1 - f) PROVE q[i] = r[i]
    <3>1. CASE i \in 1..(z - f)
      <4>1. f + i \in 1..z
        BY <1>4, <3>1
      <4>. QED
        BY <1>5, <2>2, <2>5, <2>7, <3>1, <4>1
    <3>2. CASE i = z - f + 1
      <4>1. f + i = z + 1
        BY <3>2
      <4>. QED
        BY <1>5, <2>5, <2>7, <3>2, <4>1
    <3>3. i \in 1..(z - f) \/ i = z - f + 1
      BY <1>4
    <3>. QED
      BY <3>1, <3>2, <3>3
  <2>9. Len(q) = Len(r) /\ \A i \in 1..Len(q) : q[i] = r[i]
    BY <1>4, <2>5, <2>7, <2>8
  <2>10. q = r
    BY <2>5, <2>7, <2>9, SeqEqual
  <2>. QED
    BY <2>1, <2>3, <2>6, <2>10
<1>. QED
  BY <1>3, <1>5, <1>7, <1>8, <1>9

----------------------------------------------------------------------------------
(* The levels as Transactions sees them. *)

LEMMA LevelsView ==
  /\ Levels!transactionVars = <<LevelsOf(calls, trail), last.outcome>>
  /\ Levels!Depth = Len(LevelsOf(calls, trail))
BY DEF Levels!transactionVars, Levels!Depth, LevelsOf, Level, FloorOf, TopOf, Floor, Top

LEMMA DepthView ==
  ASSUME Nested(calls, trail)
  PROVE  /\ Levels!Depth = Len(calls) + 1
         /\ Len(calls) \in Nat
         /\ calls # <<>> => Levels!Depth > 1
<1>1. calls \in Seq(Call)
  BY DEF Nested
<1>2. Len(calls) \in Nat /\ (calls # <<>> => Len(calls) \in Nat \ {0})
  BY <1>1, OuterCalls, LenProperties
<1>. QED
  BY <1>2, LevelsView, LevelsAreSeq

LEMMA ViewReport ==
  ASSUME LevelsOf(calls', trail') = LevelsOf(calls, trail),
         last'.outcome \in {"nothing", "over"}
  PROVE  Levels!Report
BY DEF Levels!Report, LevelsOf, Level, FloorOf, TopOf, Floor, Top

LEMMA ViewYield ==
  ASSUME Nested(calls, trail), calls # <<>>,
         LevelsOf(calls', trail') = LevelsOf(calls, trail), last'.outcome = "item"
  PROVE  Levels!Yield
<1>1. Levels!Depth > 1
  BY DepthView
<1>. QED
  BY <1>1 DEF Levels!Yield, LevelsOf, Level, FloorOf, TopOf, Floor, Top

LEMMA ViewBegin ==
  ASSUME LevelsOf(calls', trail') = Append(LevelsOf(calls, trail), <<>>),
         last'.outcome = "nothing"
  PROVE  Levels!Begin
BY DEF Levels!Begin, LevelsOf, Level, FloorOf, TopOf, Floor, Top

LEMMA ViewWrite ==
  ASSUME Nested(calls, trail), NEW b, last'.outcome = "nothing",
         LET l == LevelsOf(calls, trail) IN
         LevelsOf(calls', trail') = [l EXCEPT ![Len(calls) + 1] = Append(l[Len(calls) + 1], b)]
  PROVE  Levels!Write(b)
<1>1. Levels!Depth = Len(calls) + 1
  BY DepthView
<1>. QED
  BY <1>1 DEF Levels!Write, LevelsOf, Level, FloorOf, TopOf, Floor, Top

LEMMA ViewUndo ==
  ASSUME Nested(calls, trail), calls # <<>>, last'.outcome = "nothing",
         LevelsOf(calls', trail') = [LevelsOf(calls, trail) EXCEPT ![Len(calls) + 1] = <<>>]
  PROVE  Levels!Retry
<1>1. Levels!Depth = Len(calls) + 1 /\ Levels!Depth > 1
  BY DepthView
<1>. QED
  BY <1>1 DEF Levels!Retry, LevelsOf, Level, FloorOf, TopOf, Floor, Top

LEMMA ViewSolution ==
  ASSUME Nested(calls, trail), calls # <<>>, last'.outcome = "nothing", NEW b \in Bindings,
         LevelsOf(calls', trail') = [LevelsOf(calls, trail) EXCEPT ![Len(calls) + 1] = <<b>>]
  PROVE  Levels!Retry
<1>1. Levels!Depth = Len(calls) + 1 /\ Levels!Depth > 1
  BY DepthView
<1>. QED
  BY <1>1 DEF Levels!Retry, LevelsOf, Level, FloorOf, TopOf, Floor, Top

LEMMA ViewCommit ==
  ASSUME Nested(calls, trail), calls # <<>>, last'.outcome \in {"value", "late"},
         LET l == LevelsOf(calls, trail) IN
         LevelsOf(calls', trail') =
           Append(SubSeq(l, 1, Len(calls) - 1), l[Len(calls)] \o l[Len(calls) + 1])
  PROVE  Levels!Commit
<1>1. /\ Levels!Depth = Len(calls) + 1 /\ Levels!Depth > 1
      /\ Levels!Depth - 1 = Len(calls) /\ Levels!Depth - 2 = Len(calls) - 1
  BY DepthView
<1>. QED
  BY <1>1 DEF Levels!Commit, LevelsOf, Level, FloorOf, TopOf, Floor, Top

LEMMA ViewAbort ==
  ASSUME Nested(calls, trail), calls # <<>>,
         last'.outcome \in {"none", "error", "panic", "dropped"},
         LevelsOf(calls', trail') = SubSeq(LevelsOf(calls, trail), 1, Len(calls))
  PROVE  Levels!Abort
<1>1. /\ Levels!Depth = Len(calls) + 1 /\ Levels!Depth > 1
      /\ Levels!Depth - 1 = Len(calls)
  BY DepthView
<1>. QED
  BY <1>1 DEF Levels!Abort, LevelsOf, Level, FloorOf, TopOf, Floor, Top

----------------------------------------------------------------------------------
(* What the steps do to the record and to the engine. *)

LEMMA AtInStep ==
  ASSUME CallsInv, calls # <<>>
  PROVE  /\ Inner \in Call /\ Settled(Inner) /\ InStep(Inner)
         /\ Len(calls) \in Nat \ {0} /\ Inner.depth = Len(calls) - 1
<1>1. Inner \in Call /\ Settled(Inner) /\ Len(calls) \in Nat \ {0}
  BY AtInnermost DEF CallsInv
<1>2. InStep(Inner)
  BY DEF CallsInv, EngineInv
<1>3. Len(calls) \in 1..Len(calls)
  BY <1>1
<1>4. Inner.depth = Len(calls) - 1
  BY <1>3 DEF CallsInv, Registered, Inner
<1>. QED
  BY <1>1, <1>2, <1>4

(* The innermost call moves on. *)
LEMMA MovedEngine ==
  ASSUME CallsInv, calls # <<>>,
         NEW c \in Call, c.depth = Inner.depth, Continue(c),
         activation' \in Activation, activation'.gen = Gen, InStep(c)'
  PROVE  Registered(calls)' /\ EngineInv' /\ Len(calls') = Len(calls)
<1>1. calls \in Seq(Call)
  BY DEF CallsInv, Nested
<1>2. PICK n \in Nat \ {0} : n = Len(calls)
  BY <1>1, OuterCalls
<1>3. PICK ds : ds = Append(OuterOf(calls), c)
  OBVIOUS
<1>4. /\ ds \in Seq(Call) /\ Len(ds) = n
      /\ \A i \in 1..(n - 1) : ds[i] = calls[i]
      /\ ds[n] = c
  BY <1>1, <1>2, <1>3, ReplacedCall
<1>5. calls' = ds
  BY <1>3 DEF Continue, Outer, OuterOf
<1>6. c.depth = n - 1
  BY <1>2, AtInStep
<1>7. ASSUME NEW i \in 1..n
      PROVE  ds[i].depth = i - 1 /\ (i < n => ds[i].occurred = <<>>)
  <2>1. CASE i = n
    BY <1>4, <1>6, <2>1
  <2>2. CASE i # n
    <3>1. i \in 1..(n - 1)
      BY <2>2
    <3>. QED
      BY <1>2, <1>4, <3>1 DEF CallsInv, Registered
  <2>. QED
    BY <2>1, <2>2
<1>8. Registered(calls)'
  BY <1>4, <1>5, <1>7 DEF Registered
<1>9. calls' # <<>> /\ Inner' = c
  <2>1. Len(calls') = n /\ calls'[n] = c
    BY <1>4, <1>5
  <2>2. ds # <<>>
    BY <1>4, EmptySeq
  <2>. QED
    BY <1>5, <2>1, <2>2 DEF Inner
<1>10. EngineInv'
  <2>1. InStep(Inner)'
    BY <1>9
  <2>. QED
    BY <1>9, <2>1 DEF EngineInv
<1>. QED
  BY <1>2, <1>4, <1>5, <1>8, <1>10

(* ... or goes. *)
LEMMA PoppedEngine ==
  ASSUME CallsInv, calls # <<>>, calls' = Outer,
         activation' = [gen |-> Gen, depth |-> Inner.depth],
         returned' = "nothing", pending' = "none"
  PROVE  Registered(calls)' /\ EngineInv' /\ Len(calls') = Len(calls) - 1
<1>1. calls \in Seq(Call)
  BY DEF CallsInv, Nested
<1>2. PICK n \in Nat \ {0} : n = Len(calls)
  BY <1>1, OuterCalls
<1>3. PICK ds \in Seq(Call) : ds = OuterOf(calls)
  BY <1>1, OuterCalls
<1>4. Len(ds) = n - 1 /\ \A i \in 1..(n - 1) : ds[i] = calls[i]
  BY <1>1, <1>2, <1>3, OuterCalls
<1>5. calls' = ds
  BY <1>3 DEF Outer, OuterOf
<1>6. \A i \in 1..(n - 1) :
        /\ i \in 1..n /\ i < n
        /\ ds[i].depth = i - 1 /\ ds[i].occurred = <<>>
        /\ Settled(ds[i]) /\ ds[i].state \in {"body", "held"}
  BY <1>2, <1>4 DEF CallsInv, Registered, Nested
<1>7. Registered(calls)'
  BY <1>4, <1>5, <1>6 DEF Registered
<1>8. /\ activation' \in Activation /\ activation'.gen = Gen
      /\ activation'.depth = n - 1
  <2>1. Inner.depth = n - 1 /\ n - 1 \in Nat
    BY <1>2, AtInStep
  <2>. QED
    BY <2>1 DEF Activation, Gen
<1>9. CASE calls' = <<>>
  <2>1. n - 1 = 0
    BY <1>4, <1>5, <1>9, EmptySeq
  <2>. QED
    BY <1>2, <1>4, <1>5, <1>7, <1>8, <1>9, <2>1 DEF EngineInv
<1>10. CASE calls' # <<>>
  <2>1. Len(ds) # 0
    BY <1>3, <1>5, <1>10, EmptySeq
  <2>2. n - 1 \in 1..(n - 1) /\ Inner' = ds[n - 1]
    BY <1>4, <1>5, <2>1 DEF Inner
  <2>3. PICK c : c = ds[n - 1]
    OBVIOUS
  <2>4. /\ c.depth = n - 2 /\ c.occurred = <<>> /\ c.errors = <<>>
        /\ c.state \in {"body", "held"}
    BY <1>6, <2>2, <2>3 DEF Settled
  <2>5. InStep(c)'
    BY <1>8, <2>4
    DEF InStep, Awaited, Due, With, ProgramStates, EndStates
  <2>6. InStep(Inner)'
    BY <2>2, <2>3, <2>5
  <2>. QED
    BY <1>2, <1>4, <1>5, <1>7, <1>8, <1>10, <2>6 DEF EngineInv
<1>. QED
  BY <1>9, <1>10

(* Steps that leave the calls, the record and the engine alone. *)
LEMMA IdleEngine ==
  ASSUME CallsInv, UNCHANGED <<calls, activation, pending, returned>>,
         UNCHANGED trail \/ InProgram
  PROVE  Registered(calls)' /\ EngineInv'
<1>1. Registered(calls)'
  BY DEF CallsInv, Registered
<1>2. CASE calls = <<>>
  BY <1>2 DEF CallsInv, EngineInv
<1>3. CASE calls # <<>>
  <2>1. PICK c : c = Inner /\ Inner' = c
    BY DEF Inner
  <2>2. InStep(c)
    BY <1>3, <2>1, AtInStep
  <2>3. UNCHANGED trail \/ c.state \in ProgramStates
    BY <1>3, <2>1 DEF InProgram
  <2>4. InStep(c)'
    BY <2>2, <2>3 DEF InStep, Awaited, Due, With, ProgramStates
  <2>5. calls' # <<>> /\ activation' \in Activation /\ activation'.gen = Gen
    BY <1>3 DEF CallsInv, EngineInv
  <2>. QED
    BY <1>1, <2>1, <2>4, <2>5 DEF EngineInv
<1>. QED
  BY <1>1, <1>2, <1>3

(* An innermost call that has nothing to report, and what a failed advance adds. *)
LEMMA NothingInHand ==
  ASSUME CallsInv, calls # <<>>, Inner.state \notin {"close", "drop", "cut"}
  PROVE  /\ Inner.errors = <<>>
         /\ pending = "none" /\ returned \in {"nothing", "yes", "last"} =>
              Inner.occurred = <<>>
         /\ Inner.state # "open" /\ returned = "no" => Inner.occurred = <<>>
         /\ Inner.state \in ProgramStates => returned = "nothing" /\ pending = "none"
BY AtInStep
   DEF Settled, InStep, Awaited, Due, With, ProgramStates, EndStates

Kept == Nested(calls', trail') /\ Registered(calls)' /\ EngineInv'

(* The innermost call comes to its end, off the record. *)
LEMMA EndByKeeps ==
  ASSUME CallsInv, calls # <<>>, NEW call \in Call, NEW s \in EndStates,
         EndBy(s, call), call.depth = Inner.depth, call.mark = Inner.mark,
         call.occurred = call.errors, call.errors # <<>> => s = "close",
         returned' = "nothing", pending' = "none", trail' = trail
  PROVE  /\ Kept /\ Len(calls') = Len(calls)
         /\ LevelsOf(calls', trail') = LevelsOf(calls, trail)
<1>1. PICK c : c = [call EXCEPT !.state = s]
  OBVIOUS
<1>2. /\ c \in Call /\ c.mark = Inner.mark /\ c.depth = Inner.depth
      /\ c.state = s /\ c.occurred = c.errors /\ Settled(c)
  BY <1>1 DEF Call, CrateStates, Settled
<1>3. Continue(c) /\ activation' = [gen |-> Gen, depth |-> Inner.depth]
  BY <1>1 DEF EndBy, Closed
<1>4. activation' \in Activation /\ activation'.gen = Gen /\ activation'.depth = c.depth
  <2>1. Inner.depth \in Nat
    BY AtInStep DEF Call
  <2>. QED
    BY <1>2, <1>3, <2>1 DEF Activation, Gen
<1>5. InStep(c)'
  BY <1>2, <1>4 DEF InStep, Awaited, Due, With, EndStates, ProgramStates
<1>6. Registered(calls)' /\ EngineInv' /\ Len(calls') = Len(calls)
  BY <1>2, <1>3, <1>4, <1>5, MovedEngine
<1>7. Nested(calls', trail') /\ LevelsOf(calls', trail') = LevelsOf(calls, trail)
  BY <1>2, <1>3, MovedOn DEF CallsInv
<1>. QED
  BY <1>6, <1>7 DEF Kept

(* The innermost call moves on, still on the record. *)
LEMMA MovesKeeping ==
  ASSUME CallsInv, calls # <<>>, NEW c \in Call, Continue(c),
         c.depth = Inner.depth, c.mark = Inner.mark,
         c.state \in ProgramStates \cup {"advance"}, c.errors = <<>>, c.occurred = <<>>,
         Inner.state \notin EndStates,
         returned' = "nothing", pending' = "none", UNCHANGED <<trail, activation>>
  PROVE  /\ Kept /\ Len(calls') = Len(calls)
         /\ LevelsOf(calls', trail') = LevelsOf(calls, trail)
<1>1. Settled(c)
  BY DEF Settled
<1>2. /\ activation' \in Activation /\ activation'.gen = Gen
      /\ activation'.depth = c.depth + 1
  BY AtInStep DEF CallsInv, EngineInv, InStep
<1>3. InStep(c)'
  BY <1>2 DEF InStep, Awaited, Due, With, EndStates, ProgramStates
<1>4. Registered(calls)' /\ EngineInv' /\ Len(calls') = Len(calls)
  BY <1>2, <1>3, MovedEngine
<1>5. Nested(calls', trail') /\ LevelsOf(calls', trail') = LevelsOf(calls, trail)
  BY <1>1, MovedOn DEF CallsInv
<1>. QED
  BY <1>4, <1>5 DEF Kept

----------------------------------------------------------------------------------
(* The steps. *)

LEMMA OpenStep ==
  ASSUME CallsInv, NEW api \in FrameApis \cup QueryApis, Open(api)
  PROVE  Kept /\ Levels!Begin /\ Len(calls') = Len(calls) + 1
<1>1. PICK c : c = NewCall(api)
  OBVIOUS
<1>2. /\ calls \in Seq(Call) /\ activation \in Activation
      /\ Len(trail) \in Nat /\ <<>> \in Seq(Faults)
  BY LenProperties, EmptySeq DEF CallsInv, Nested, EngineInv
<1>3. /\ c \in Call /\ c.mark = Len(trail) /\ c.depth = activation.depth
      /\ c.state = "open" /\ c.errors = <<>> /\ c.occurred = <<>> /\ Settled(c)
  BY <1>1, <1>2 DEF NewCall, Call, CrateStates, Activation, Settled
<1>4. PICK n \in Nat : n = Len(calls)
  BY <1>2, LenProperties
<1>5. calls # <<>> =>
        calls[n].state \in {"body", "held"} /\ returned = "nothing" /\ pending = "none"
  BY <1>4, NothingInHand DEF Open, InProgram, InnerIs, Inner, ProgramStates
<1>6. /\ calls' = Append(calls, c) /\ trail' = trail /\ last'.outcome = "nothing"
      /\ returned' = returned /\ pending' = pending
  BY <1>1 DEF Open, Quiet, Tell, engineVars
<1>7. /\ Nested(calls', trail')
      /\ LevelsOf(calls', trail') = Append(LevelsOf(calls, trail), <<>>)
  BY <1>3, <1>4, <1>5, <1>6, OpenedCall DEF CallsInv
<1>8. activation.depth = n /\ returned = "nothing" /\ pending = "none"
  <2>1. CASE calls = <<>>
    <3>1. n = 0
      BY <1>4, <2>1
    <3>. QED
      BY <2>1, <3>1 DEF CallsInv, EngineInv
  <2>2. CASE calls # <<>>
    <3>1. activation.depth = Inner.depth + 1
      BY <2>2, AtInStep DEF Open, Innermost, Context
    <3>. QED
      BY <1>4, <1>5, <2>2, <3>1, AtInStep
  <2>. QED
    BY <2>1, <2>2
<1>9. PICK ds : ds = Append(calls, c)
  OBVIOUS
<1>10. /\ ds \in Seq(Call) /\ Len(ds) = n + 1
       /\ \A i \in 1..n : ds[i] = calls[i]
       /\ ds[n + 1] = c
  BY <1>2, <1>3, <1>4, <1>9, AppendProperties
<1>11. calls # <<>> => calls[n].occurred = <<>>
  BY <1>4, <1>5, <1>8, NothingInHand DEF Inner
<1>12. ASSUME NEW i \in 1..(n + 1)
       PROVE  ds[i].depth = i - 1 /\ (i < n + 1 => ds[i].occurred = <<>>)
  <2>1. CASE i = n + 1
    BY <1>3, <1>8, <1>10, <2>1
  <2>2. CASE i # n + 1
    <3>1. i \in 1..n /\ n # 0
      BY <2>2
    <3>2. calls # <<>>
      BY <1>4, <3>1
    <3>3. calls[i].depth = i - 1 /\ (i < n => calls[i].occurred = <<>>)
      BY <1>4, <3>1 DEF CallsInv, Registered
    <3>. QED
      BY <1>10, <1>11, <3>1, <3>2, <3>3
  <2>. QED
    BY <2>1, <2>2
<1>13. calls' = ds /\ Len(calls') = n + 1 /\ Registered(calls)'
  BY <1>6, <1>9, <1>10, <1>12 DEF Registered
<1>14. calls' # <<>> /\ Inner' = c
  BY <1>10, <1>13, EmptySeq DEF Inner
<1>15. /\ activation' \in Activation /\ activation'.gen = Gen
       /\ activation'.depth = c.depth + 1
  <2>1. activation' = [gen |-> activation.gen, depth |-> n + 1] /\ n + 1 \in Nat
    BY <1>8 DEF Open, Opened
  <2>. QED
    BY <1>2, <1>3, <1>8, <2>1 DEF CallsInv, EngineInv, Activation
<1>16. InStep(c)'
  BY <1>3, <1>6, <1>8, <1>15 DEF InStep, Awaited, Due, With, EndStates, ProgramStates
<1>17. EngineInv'
  <2>1. InStep(Inner)'
    BY <1>14, <1>16
  <2>. QED
    BY <1>14, <1>15, <2>1 DEF EngineInv
<1>18. Levels!Begin
  BY <1>6, <1>7, ViewBegin
<1>. QED
  BY <1>4, <1>7, <1>13, <1>17, <1>18 DEF Kept

(* The call comes to its end. *)
LEMMA EndingStep ==
  ASSUME CallsInv,
         Return \/ ReturnErr \/ CloseEarly \/ CutEarly \/ Abandon \/ Unwind
           \/ NoMore \/ AdvanceFails
  PROVE  Kept /\ Levels!Report /\ Len(calls') = Len(calls)
<1>1. calls # <<>> /\ trail' = trail /\ last'.outcome = "nothing"
  BY DEF Return, ReturnErr, CloseEarly, CutEarly, Abandon, Unwind, NoMore, AdvanceFails,
         InnerIs, Quiet, Tell, engineVars
<1>2. /\ Inner \in Call /\ InStep(Inner)
      /\ Inner.errors \in Seq(Faults) /\ Inner.occurred \in Seq(Faults)
      /\ Inner.exhausted \in BOOLEAN
  BY <1>1, AtInStep DEF Call
<1>3. \E call \in Call, s \in EndStates :
        /\ EndBy(s, call) /\ call.depth = Inner.depth /\ call.mark = Inner.mark
        /\ call.occurred = call.errors /\ (call.errors # <<>> => s = "close")
        /\ returned' = "nothing" /\ pending' = "none"
  <2>1. CASE Return \/ CloseEarly \/ CutEarly \/ Abandon \/ Unwind
    <3>1. /\ \E s \in EndStates : EndBy(s, Inner)
          /\ Inner.state \in ProgramStates /\ UNCHANGED <<returned, pending>>
      BY <2>1 DEF Return, CloseEarly, CutEarly, Abandon, Unwind, InnerIs, EndStates,
                  ProgramStates, engineVars
    <3>2. /\ Inner.errors = <<>> /\ Inner.occurred = <<>>
          /\ returned = "nothing" /\ pending = "none"
      BY <1>1, <3>1, NothingInHand DEF ProgramStates
    <3>. QED
      BY <1>2, <3>1, <3>2
  <2>2. CASE ReturnErr
    <3>1. PICK call : call = [Inner EXCEPT !.errors = Append(@, "body"),
                                           !.occurred = Append(@, "body")]
      OBVIOUS
    <3>2. /\ Inner.errors = <<>> /\ Inner.occurred = <<>>
          /\ returned = "nothing" /\ pending = "none"
      BY <1>1, <2>2, NothingInHand DEF ReturnErr, InnerIs, ProgramStates
    <3>3. Append(Inner.errors, "body") \in Seq(Faults)
      BY <1>2, AppendProperties DEF Faults
    <3>4. /\ call \in Call /\ call.depth = Inner.depth /\ call.mark = Inner.mark
          /\ call.occurred = call.errors
      BY <1>2, <3>1, <3>2, <3>3 DEF Call
    <3>5. EndBy("close", call) /\ UNCHANGED <<returned, pending>>
      BY <2>2, <3>1 DEF ReturnErr, engineVars
    <3>. QED
      BY <3>2, <3>4, <3>5 DEF EndStates
  <2>3. CASE NoMore
    <3>1. PICK call : call = [Inner EXCEPT !.exhausted = TRUE]
      OBVIOUS
    <3>2. pending = "none"
      BY <1>2, <2>3 DEF NoMore, InnerIs, InStep, Awaited, EndStates
    <3>3. Inner.errors = <<>> /\ Inner.occurred = <<>>
      BY <1>1, <1>2, <2>3, <3>2, NothingInHand DEF NoMore, InnerIs, InStep, Awaited
    <3>4. /\ call \in Call /\ call.depth = Inner.depth /\ call.mark = Inner.mark
          /\ call.occurred = <<>> /\ call.errors = <<>>
      BY <1>2, <3>1, <3>3 DEF Call
    <3>5. EndBy("close", call) /\ returned' = "nothing" /\ pending' = "none"
      BY <2>3, <3>1, <3>2 DEF NoMore, Acted
    <3>. QED
      BY <3>4, <3>5 DEF EndStates
  <2>4. CASE AdvanceFails
    <3>1. PICK call : call = Failed(Inner)
      OBVIOUS
    <3>2. PICK fault : fault = IF returned = "exception" THEN Taken("status") ELSE "status"
      OBVIOUS
    <3>3. /\ Inner.state = "advance" /\ returned \in {"exception", "unknown"}
          /\ pending = "none" \/ (returned = "exception" /\ pending = "advance")
      BY <1>2, <2>4 DEF AdvanceFails, InnerIs, InStep, Awaited, EndStates
    <3>4. Inner.errors = <<>>
      BY <1>1, <3>3, NothingInHand
    <3>5. fault = Due(Inner) /\ fault # "none" /\ fault \in Faults
      BY <3>2, <3>3 DEF Taken, Due, Faults
    <3>6. Inner.occurred = Append(Inner.errors, fault)
      BY <1>2, <3>5 DEF InStep, With
    <3>7. Append(Inner.errors, fault) \in Seq(Faults)
      BY <1>2, <3>5, AppendProperties
    <3>8. /\ call \in Call /\ call.depth = Inner.depth /\ call.mark = Inner.mark
          /\ call.occurred = call.errors
      BY <1>2, <3>1, <3>2, <3>6, <3>7 DEF Failed, Call
    <3>9. EndBy("close", call) /\ returned' = "nothing" /\ pending' = "none"
      BY <2>4, <3>1, <3>3 DEF AdvanceFails, Acted, ClearOn
    <3>. QED
      BY <3>8, <3>9 DEF EndStates
  <2>. QED
    BY <2>1, <2>2, <2>3, <2>4
<1>4. /\ Kept /\ Len(calls') = Len(calls)
      /\ LevelsOf(calls', trail') = LevelsOf(calls, trail)
  BY <1>1, <1>3, EndByKeeps
<1>. QED
  BY <1>1, <1>4, ViewReport

(* The call goes on. *)
LEMMA MovingStep ==
  ASSUME CallsInv, Yield \/ Ask \/ Opens \/ Solution
  PROVE  Kept /\ (Levels!Report \/ Levels!Yield) /\ Len(calls') = Len(calls)
<1>1. /\ calls # <<>> /\ UNCHANGED <<trail, activation>>
      /\ last'.outcome \in {"nothing", "item"}
  BY DEF Yield, Ask, Opens, Solution, InnerIs, Quiet, Tell, engineVars
<1>2. Inner \in Call /\ InStep(Inner) /\ Inner.state \notin EndStates
  BY <1>1, AtInStep DEF Yield, Ask, Opens, Solution, InnerIs, EndStates
<1>3. pending = "none" /\ returned \in {"nothing", "yes", "last"}
  BY <1>2 DEF Yield, Ask, Opens, Solution, InnerIs, InStep, Awaited, EndStates, ProgramStates
<1>4. Inner.errors = <<>> /\ Inner.occurred = <<>>
  BY <1>1, <1>2, <1>3, NothingInHand DEF EndStates
<1>5. PICK state \in ProgramStates \cup {"advance"}, exhausted \in BOOLEAN :
        /\ Continue([Inner EXCEPT !.state = state, !.exhausted = exhausted])
        /\ returned' = "nothing" /\ pending' = "none"
  <2>1. Inner.exhausted \in BOOLEAN
    BY <1>2 DEF Call
  <2>2. \A state : [Inner EXCEPT !.state = state] =
                   [Inner EXCEPT !.state = state, !.exhausted = Inner.exhausted]
    BY <1>2 DEF Call
  <2>3. CASE Yield
    <3>1. Continue([Inner EXCEPT !.state = "suspended"]) /\ UNCHANGED <<returned, pending>>
      BY <2>3 DEF Yield, engineVars
    <3>2. returned = "nothing"
      BY <1>2, <2>3 DEF Yield, InnerIs, InStep, Awaited, ProgramStates
    <3>. QED
      BY <1>3, <2>1, <2>2, <3>1, <3>2 DEF ProgramStates
  <2>4. CASE Ask
    <3>1. Continue([Inner EXCEPT !.state = "advance"]) /\ UNCHANGED <<returned, pending>>
      BY <2>4 DEF Ask, engineVars
    <3>2. returned = "nothing"
      BY <1>2, <2>4 DEF Ask, InnerIs, InStep, Awaited, ProgramStates
    <3>. QED
      BY <1>3, <2>1, <2>2, <3>1, <3>2
  <2>5. CASE Opens
    <3>1. /\ Continue([Inner EXCEPT !.state = FirstState(Inner.api)])
          /\ returned' = "nothing" /\ pending' = pending
      BY <2>5 DEF Opens, Acted
    <3>2. FirstState(Inner.api) \in ProgramStates \cup {"advance"}
      BY DEF FirstState, ProgramStates
    <3>. QED
      BY <1>3, <2>1, <2>2, <3>1, <3>2
  <2>6. CASE Solution
    <3>1. /\ Continue([Inner EXCEPT !.state = "body", !.exhausted = (returned = "last")])
          /\ returned' = "nothing" /\ pending' = pending
      BY <2>6 DEF Solution, Acted
    <3>. QED
      BY <1>3, <3>1 DEF ProgramStates
  <2>. QED
    BY <2>3, <2>4, <2>5, <2>6
<1>6. PICK c : c = [Inner EXCEPT !.state = state, !.exhausted = exhausted]
  OBVIOUS
<1>7. /\ c \in Call /\ c.mark = Inner.mark /\ c.depth = Inner.depth /\ c.state = state
      /\ c.errors = <<>> /\ c.occurred = <<>>
  BY <1>2, <1>4, <1>6 DEF Call, CrateStates
<1>8. /\ Kept /\ Len(calls') = Len(calls)
      /\ LevelsOf(calls', trail') = LevelsOf(calls, trail)
  BY <1>1, <1>2, <1>5, <1>6, <1>7, MovesKeeping
<1>9. CASE last'.outcome = "nothing"
  BY <1>8, <1>9, ViewReport
<1>10. CASE last'.outcome = "item"
  BY <1>1, <1>8, <1>10, ViewYield DEF CallsInv
<1>. QED
  BY <1>1, <1>8, <1>9, <1>10

(* Prolog answers a C call made for call c: what it did to the bindings is left to the
   caller of this lemma. *)
LEMMA AnswerKeeps ==
  ASSUME CallsInv, calls # <<>>, UNCHANGED activation,
         NEW c \in Call, Continue(c), c.mark = Inner.mark, c.depth = Inner.depth,
         c.state = Inner.state, c.errors = Inner.errors,
         Awaited(c)', c.occurred = With(c.errors, Due(c)'),
         c.state = "open" => Len(trail') = c.mark,
         c.state \in {"close", "drop"} => Len(trail') = c.mark
  PROVE  Settled(c) /\ Registered(calls)' /\ EngineInv' /\ Len(calls') = Len(calls)
<1>1. Settled(c) /\ InStep(Inner)
  BY AtInStep DEF Settled
<1>2. activation' \in Activation /\ activation'.gen = Gen
  BY DEF CallsInv, EngineInv
<1>3. InStep(c)'
  <2>1. c.occurred = With(c.errors, Due(c))'
    BY DEF With, Due
  <2>2. activation'.depth = IF c.state \in EndStates THEN c.depth ELSE c.depth + 1
    BY <1>1 DEF InStep
  <2>. QED
    BY <2>1, <2>2 DEF InStep
<1>. QED
  BY <1>1, <1>2, <1>3, MovedEngine

(* The innermost call as the C call finds it, and the calls an answer leaves alone. *)
LEMMA Asked ==
  ASSUME CallsInv, calls # <<>>, returned = "nothing"
  PROVE  /\ pending = "none" /\ Inner.occurred = Inner.errors
         /\ UNCHANGED calls => Continue(Inner)
<1>1. InStep(Inner)
  BY AtInStep
<1>2. pending = "none" /\ Inner.occurred = Inner.errors
  BY <1>1 DEF InStep, Awaited, Due, With
<1>3. calls \in Seq(Call)
  BY DEF CallsInv, Nested
<1>4. PICK n \in Nat \ {0} : n = Len(calls)
  BY <1>3, OuterCalls
<1>5. PICK ds : ds = Append(OuterOf(calls), Inner)
  OBVIOUS
<1>6. /\ ds \in Seq(Call) /\ Len(ds) = n
      /\ \A i \in 1..(n - 1) : ds[i] = calls[i]
      /\ ds[n] = Inner
  BY <1>3, <1>4, <1>5, AtInStep, ReplacedCall
<1>7. \A i \in 1..n : ds[i] = calls[i]
  <2>1. \A i \in 1..n : i \in 1..(n - 1) \/ i = n
    OBVIOUS
  <2>. QED
    BY <1>4, <1>6, <2>1 DEF Inner
<1>8. ds = calls
  BY <1>3, <1>4, <1>6, <1>7, SeqEqual
<1>. QED
  BY <1>2, <1>5, <1>8 DEF Continue, Outer, OuterOf

(* The three ways to answer: well, with an exception, with nothing to explain it. *)
LEMMA Answered ==
  ASSUME CallsInv, calls # <<>>, returned = "nothing",
         NEW answer, NEW fault \in Faults \cup {"none"},
         \/ fault = "none" /\ Answers(answer)
         \/ fault # "none" /\ (Raises(answer, fault) \/ Refuses(answer, fault))
  PROVE  /\ \E c \in Call :
              /\ Continue(c) /\ c.mark = Inner.mark /\ c.depth = Inner.depth
              /\ c.state = Inner.state /\ c.errors = Inner.errors
              /\ c.exhausted = Inner.exhausted /\ c.api = Inner.api
              /\ c.occurred = With(Inner.errors, fault)
         /\ returned' = answer
         /\ pending' = IF Raises(answer, fault) /\ fault # "none" THEN fault ELSE "none"
<1>1. Inner \in Call /\ pending = "none" /\ Inner.occurred = Inner.errors
  BY AtInStep, Asked
<1>2. CASE fault = "none"
  BY <1>1, <1>2, Asked DEF Answers, Raises, Refuses, With
<1>3. CASE fault # "none"
  <2>1. PICK c : c = [Inner EXCEPT !.occurred = Append(@, fault)]
    OBVIOUS
  <2>2. Append(Inner.occurred, fault) \in Seq(Faults)
    <3>1. Inner.occurred \in Seq(Faults)
      BY <1>1 DEF Call
    <3>. QED
      BY <1>3, <3>1, AppendProperties
  <2>3. /\ c \in Call /\ c.mark = Inner.mark /\ c.depth = Inner.depth
        /\ c.state = Inner.state /\ c.errors = Inner.errors
        /\ c.exhausted = Inner.exhausted /\ c.api = Inner.api
        /\ c.occurred = With(Inner.errors, fault)
    BY <1>1, <1>3, <2>1, <2>2 DEF Call, With
  <2>4. Continue(c) /\ returned' = answer
    BY <1>3, <2>1 DEF Raises, Refuses
  <2>5. pending' = IF Raises(answer, fault) THEN fault ELSE "none"
    BY <1>1, <1>3 DEF Raises, Refuses
  <2>. QED
    BY <1>3, <2>3, <2>4, <2>5
<1>. QED
  BY <1>2, <1>3

LEMMA OpenReturnsStep ==
  ASSUME CallsInv, returned = "nothing", OpenReturns, UNCHANGED activation,
         last'.outcome = "nothing"
  PROVE  Kept /\ Levels!Report /\ Len(calls') = Len(calls)
<1>1. calls # <<>> /\ Inner.state = "open" /\ trail' = trail
  BY DEF OpenReturns, InnerIs
<1>2. Len(trail) = Inner.mark
  BY <1>1, AtInStep DEF InStep
<1>3. PICK answer \in {"yes", "no"}, fault \in {"none", "open", "refused"} :
        \/ fault = "none" /\ answer = "yes" /\ Answers(answer)
        \/ fault = "open" /\ answer = "no" /\ Raises(answer, fault)
        \/ fault = "refused" /\ answer = "no" /\ Refuses(answer, fault)
  BY DEF OpenReturns
<1>4. fault \in Faults \cup {"none"}
  BY DEF Faults
<1>5. PICK c \in Call :
        /\ Continue(c) /\ c.mark = Inner.mark /\ c.depth = Inner.depth
        /\ c.state = Inner.state /\ c.errors = Inner.errors
        /\ c.exhausted = Inner.exhausted /\ c.api = Inner.api
        /\ c.occurred = With(Inner.errors, fault)
  BY <1>1, <1>3, <1>4, Answered
<1>6. /\ returned' = answer
      /\ pending' = IF Raises(answer, fault) /\ fault # "none" THEN fault ELSE "none"
  BY <1>1, <1>3, <1>4, Answered
<1>7. pending' = IF fault = "open" THEN "open" ELSE "none"
  <2>1. CASE fault = "open"
    BY <1>3, <1>6, <2>1
  <2>2. CASE fault = "none"
    BY <1>6, <2>2
  <2>3. CASE fault = "refused"
    <3>1. pending' = pending /\ pending = "none"
      BY <1>1, <1>3, <2>3, Asked DEF Refuses
    <3>. QED
      BY <2>3, <3>1
  <2>. QED
    BY <2>1, <2>2, <2>3
<1>8. Awaited(c)' /\ Due(c)' = fault
  BY <1>1, <1>3, <1>5, <1>6, <1>7 DEF Awaited, Due, ProgramStates, EndStates
<1>9. /\ Settled(c) /\ Registered(calls)' /\ EngineInv' /\ Len(calls') = Len(calls)
  BY <1>1, <1>2, <1>5, <1>8, AnswerKeeps
<1>10. Nested(calls', trail') /\ LevelsOf(calls', trail') = LevelsOf(calls, trail)
  BY <1>1, <1>5, <1>9, MovedOn DEF CallsInv
<1>. QED
  BY <1>9, <1>10, ViewReport DEF Kept

LEMMA SolutionFoundStep ==
  ASSUME CallsInv, returned = "nothing", SolutionFound, UNCHANGED activation,
         last'.outcome = "nothing"
  PROVE  Kept /\ Levels!Retry /\ Len(calls') = Len(calls)
<1>1. /\ calls # <<>> /\ Inner.state = "advance" /\ ~Inner.exhausted
      /\ returned' \in {"yes", "last"} /\ pending' = pending
  BY DEF SolutionFound, InnerIs
<1>2. Inner \in Call /\ Inner.solutions \in Nat /\ pending = "none"
      /\ Inner.occurred = Inner.errors
  BY <1>1, AtInStep, Asked DEF Call
<1>3. PICK b \in Bindings : b = Inner.solutions + 1
  BY <1>2, CallsAssumption DEF SolutionFound, Bindings
<1>4. PICK c : c = [Inner EXCEPT !.solutions = @ + 1]
  OBVIOUS
<1>5. /\ c \in Call /\ c.mark = Inner.mark /\ c.depth = Inner.depth
      /\ c.state = Inner.state /\ c.errors = Inner.errors /\ c.occurred = Inner.errors
      /\ c.exhausted = Inner.exhausted
  <2>1. Inner.solutions + 1 \in Nat
    BY <1>2
  <2>. QED
    BY <1>2, <1>4, <2>1 DEF Call
<1>6. Continue(c) /\ trail' = Append(Undone(Inner), b)
  BY <1>3, <1>4 DEF SolutionFound
<1>7. Awaited(c)' /\ Due(c)' = "none"
  BY <1>1, <1>2, <1>5 DEF Awaited, Due, ProgramStates, EndStates
<1>8. Settled(c) /\ Registered(calls)' /\ EngineInv' /\ Len(calls') = Len(calls)
  BY <1>1, <1>5, <1>6, <1>7, AnswerKeeps DEF With
<1>9. /\ Nested(calls', trail')
      /\ LevelsOf(calls', trail') = [LevelsOf(calls, trail) EXCEPT ![Len(calls) + 1] = <<b>>]
  BY <1>1, <1>5, <1>6, <1>8, SolutionLevel DEF CallsInv
<1>. QED
  BY <1>1, <1>8, <1>9, ViewSolution DEF Kept, CallsInv

(* Prolog undoes the bindings of the call, whatever it answers. *)
LEMMA UndoingAnswer ==
  ASSUME CallsInv, calls # <<>>, UNCHANGED activation, last'.outcome = "nothing",
         trail' = Undone(Inner),
         NEW c \in Call, Continue(c), c.mark = Inner.mark, c.depth = Inner.depth,
         c.state = Inner.state, c.errors = Inner.errors,
         Awaited(c)', c.occurred = With(c.errors, Due(c)')
  PROVE  Kept /\ Levels!Retry /\ Len(calls') = Len(calls)
<1>1. Len(trail') = c.mark
  BY AtInnermost DEF CallsInv
<1>2. Settled(c) /\ Registered(calls)' /\ EngineInv' /\ Len(calls') = Len(calls)
  BY <1>1, AnswerKeeps
<1>3. /\ Nested(calls', trail')
      /\ LevelsOf(calls', trail') = [LevelsOf(calls, trail) EXCEPT ![Len(calls) + 1] = <<>>]
  BY <1>2, UndoneLevel DEF CallsInv
<1>. QED
  BY <1>2, <1>3, ViewUndo DEF Kept, CallsInv

LEMMA NothingFoundStep ==
  ASSUME CallsInv, returned = "nothing", NothingFound, UNCHANGED activation,
         last'.outcome = "nothing"
  PROVE  Kept /\ Levels!Retry /\ Len(calls') = Len(calls)
<1>1. /\ calls # <<>> /\ Inner.state = "advance" /\ ~Inner.exhausted
      /\ trail' = Undone(Inner) /\ pending = "none"
  BY Asked DEF NothingFound, InnerIs
<1>2. PICK answer \in {"no", "exception", "unknown"}, fault \in {"none", "advance", "status"} :
        \/ fault = "none" /\ answer = "no" /\ Answers(answer)
        \/ fault = "advance" /\ answer = "exception" /\ Raises(answer, fault)
        \/ fault = "status" /\ answer # "no" /\ Refuses(answer, fault)
  BY DEF NothingFound
<1>3. fault \in Faults \cup {"none"}
  BY DEF Faults
<1>4. PICK c \in Call :
        /\ Continue(c) /\ c.mark = Inner.mark /\ c.depth = Inner.depth
        /\ c.state = Inner.state /\ c.errors = Inner.errors
        /\ c.exhausted = Inner.exhausted /\ c.api = Inner.api
        /\ c.occurred = With(Inner.errors, fault)
  BY <1>1, <1>2, <1>3, Answered
<1>5. returned' = answer /\ pending' = IF fault = "advance" THEN "advance" ELSE "none"
  BY <1>1, <1>2 DEF Answers, Raises, Refuses
<1>6. Awaited(c)' /\ Due(c)' = fault
  BY <1>1, <1>2, <1>4, <1>5 DEF Awaited, Due, ProgramStates, EndStates
<1>. QED
  BY <1>1, <1>4, <1>6, UndoingAnswer

(* A call that keeps its bindings leaves the trail; one that does not has it undone. *)
LEMMA EndReturnsStep ==
  ASSUME CallsInv, returned = "nothing", EndReturns, UNCHANGED activation,
         last'.outcome = "nothing"
  PROVE  Kept /\ (Levels!Report \/ Levels!Retry) /\ Len(calls') = Len(calls)
<1>1. /\ calls # <<>> /\ Inner.state \in EndStates /\ pending = "none"
      /\ trail' = IF Keeps(Inner) THEN trail ELSE Undone(Inner)
  BY Asked DEF EndReturns, InnerIs
<1>2. PICK answer \in {"yes", "no"}, fault \in {"none", "end"} :
        \/ fault = "none" /\ Answers(answer)
        \/ /\ fault = "end" /\ answer = "no" /\ Raises(answer, fault)
           /\ Inner.api \in QueryApis
  BY DEF EndReturns
<1>3. fault \in Faults \cup {"none"}
  BY DEF Faults
<1>4. PICK c \in Call :
        /\ Continue(c) /\ c.mark = Inner.mark /\ c.depth = Inner.depth
        /\ c.state = Inner.state /\ c.errors = Inner.errors
        /\ c.exhausted = Inner.exhausted /\ c.api = Inner.api
        /\ c.occurred = With(Inner.errors, fault)
  BY <1>1, <1>2, <1>3, Answered
<1>5. returned' = answer /\ pending' = fault
  BY <1>1, <1>2 DEF Answers, Raises
<1>6. Awaited(c)' /\ Due(c)' = fault
  BY <1>1, <1>2, <1>4, <1>5 DEF Awaited, Due, ProgramStates, EndStates
<1>7. CASE Inner.state = "cut"
  <2>1. trail' = trail
    BY <1>1, <1>7 DEF Keeps
  <2>2. Settled(c) /\ Registered(calls)' /\ EngineInv' /\ Len(calls') = Len(calls)
    BY <1>1, <1>4, <1>6, <1>7, AnswerKeeps
  <2>3. Nested(calls', trail') /\ LevelsOf(calls', trail') = LevelsOf(calls, trail)
    BY <1>1, <1>4, <2>1, <2>2, MovedOn DEF CallsInv
  <2>. QED
    BY <2>2, <2>3, ViewReport DEF Kept
<1>8. CASE Inner.state # "cut"
  <2>1. trail' = Undone(Inner)
    BY <1>1, <1>8 DEF Keeps
  <2>. QED
    BY <1>1, <1>4, <1>6, <2>1, UndoingAnswer
<1>. QED
  BY <1>7, <1>8

LEMMA CReturnsStep ==
  ASSUME CallsInv, CReturns
  PROVE  Kept /\ (Levels!Report \/ Levels!Retry) /\ Len(calls') = Len(calls)
<1>1. returned = "nothing" /\ UNCHANGED activation /\ last'.outcome = "nothing"
  BY DEF CReturns, Quiet, Tell
<1>. QED
  BY <1>1, OpenReturnsStep, SolutionFoundStep, NothingFoundStep, EndReturnsStep DEF CReturns

(* A call without bindings of its own has nothing to undo. *)
LEMMA NothingToUndo ==
  ASSUME CallsInv, calls # <<>>, Len(trail) = Inner.mark
  PROVE  Undone(Inner) = trail
<1>1. PICK u \in Seq(Bindings) : u = Undone(Inner)
  BY AtInnermost DEF CallsInv
<1>2. Len(u) = Len(trail) /\ \A j \in 1..Len(u) : u[j] = trail[j]
  BY <1>1, AtInnermost DEF CallsInv
<1>3. trail \in Seq(Bindings)
  BY DEF CallsInv, Nested
<1>4. u = trail
  BY <1>2, <1>3, SeqEqual
<1>. QED
  BY <1>1, <1>4

(* The calls that end with their bindings undone. *)
LEMMA DroppingStep ==
  ASSUME CallsInv, OpenFails \/ FinishClose \/ Dropped
  PROVE  Kept /\ Levels!Abort /\ Len(calls') = Len(calls) - 1
<1>1. /\ calls # <<>> /\ calls' = Outer /\ trail' = trail /\ returned' = "nothing"
      /\ Inner.state \in {"open", "close", "drop"} /\ returned # "nothing"
  BY DEF OpenFails, FinishClose, Dropped, InnerIs, Acted
<1>2. /\ Inner \in Call /\ InStep(Inner) /\ Inner.depth \in Nat
      /\ activation \in Activation /\ activation.gen = Gen
  BY <1>1, AtInStep DEF Call, CallsInv, EngineInv
<1>3. Len(trail) = Inner.mark
  BY <1>1, <1>2 DEF InStep
<1>4. pending' = "none"
  BY <1>1, <1>2
  DEF OpenFails, FinishClose, Dropped, ClearOn, InnerIs, InStep, Awaited, EndStates
<1>5. activation' = [gen |-> Gen, depth |-> Inner.depth]
  <2>1. CASE OpenFails
    BY <2>1 DEF OpenFails, Closed
  <2>2. CASE FinishClose \/ Dropped
    <3>1. activation' = activation /\ Inner.state \in EndStates
      BY <2>2 DEF FinishClose, Dropped, InnerIs, EndStates
    <3>2. activation.depth = Inner.depth
      BY <1>2, <3>1 DEF InStep
    <3>. QED
      BY <1>2, <3>1, <3>2 DEF Activation
  <2>. QED
    BY <2>1, <2>2
<1>6. Registered(calls)' /\ EngineInv' /\ Len(calls') = Len(calls) - 1
  BY <1>1, <1>4, <1>5, PoppedEngine
<1>7. trail' = Undone(Inner)
  BY <1>1, <1>3, NothingToUndo
<1>8. /\ Nested(calls', trail')
      /\ LevelsOf(calls', trail') = SubSeq(LevelsOf(calls, trail), 1, Len(calls))
  BY <1>1, <1>7, DroppedLevel DEF CallsInv
<1>9. last'.outcome \in {"none", "error", "panic", "dropped"}
  BY DEF OpenFails, FinishClose, Dropped, Tell
<1>. QED
  BY <1>1, <1>6, <1>8, <1>9, ViewAbort DEF Kept, CallsInv

LEMMA FinishCutStep ==
  ASSUME CallsInv, FinishCut
  PROVE  Kept /\ Levels!Commit /\ Len(calls') = Len(calls) - 1
<1>1. /\ calls # <<>> /\ calls' = Outer /\ trail' = trail /\ returned' = "nothing"
      /\ activation' = activation /\ Inner.state = "cut"
  BY DEF FinishCut, InnerIs, Acted
<1>2. /\ InStep(Inner) /\ activation \in Activation /\ activation.gen = Gen
  BY <1>1, AtInStep DEF CallsInv, EngineInv
<1>3. pending' = "none"
  BY <1>1, <1>2 DEF FinishCut, ClearOn, InStep, Awaited, EndStates
<1>4. activation' = [gen |-> Gen, depth |-> Inner.depth]
  <2>1. activation.depth = Inner.depth
    BY <1>1, <1>2 DEF InStep, EndStates
  <2>. QED
    BY <1>1, <1>2, <2>1 DEF Activation
<1>5. Registered(calls)' /\ EngineInv' /\ Len(calls') = Len(calls) - 1
  BY <1>1, <1>3, <1>4, PoppedEngine
<1>6. /\ Nested(calls', trail')
      /\ LET l == LevelsOf(calls, trail) IN
         LevelsOf(calls', trail') =
           Append(SubSeq(l, 1, Len(calls) - 1), l[Len(calls)] \o l[Len(calls) + 1])
  BY <1>1, Merged DEF CallsInv
<1>7. last'.outcome \in {"value", "late"}
  BY DEF FinishCut, Tell
<1>. QED
  BY <1>1, <1>5, <1>6, <1>7, ViewCommit DEF Kept, CallsInv

(* The program binds a variable. *)
LEMMA BindStep ==
  ASSUME CallsInv, Bind
  PROVE  Kept /\ Levels!Write(0)
<1>1. 0 \in Bindings
  BY CallsAssumption DEF Bindings
<1>2. /\ Nested(calls, trail) /\ trail' = Append(trail, 0) /\ InProgram
      /\ UNCHANGED <<calls, activation, pending, returned>>
      /\ last'.outcome = "nothing"
  BY DEF CallsInv, Bind, Quiet, Tell
<1>3. /\ Nested(calls', trail')
      /\ LET l == LevelsOf(calls, trail) IN
         LevelsOf(calls', trail') =
           [l EXCEPT ![Len(calls) + 1] = Append(l[Len(calls) + 1], 0)]
  BY <1>1, <1>2, Bound
<1>4. Registered(calls)' /\ EngineInv'
  BY <1>2, IdleEngine
<1>. QED
  BY <1>2, <1>3, <1>4, ViewWrite DEF Kept

LEMMA RewindStep ==
  ASSUME CallsInv, Rewind
  PROVE  Kept /\ Levels!Retry
<1>1. /\ Nested(calls, trail) /\ calls # <<>> /\ trail' = Undone(Inner) /\ InProgram
      /\ UNCHANGED <<calls, activation, pending, returned>>
      /\ last'.outcome = "nothing"
  BY DEF CallsInv, Rewind, Quiet, Tell, InnerIs
<1>2. PICK m \in Nat : m = Inner.mark /\ m = FloorOf(calls, Len(calls))
  BY <1>1, AtInnermost
<1>3. PICK tt \in Seq(Bindings) :
        tt = trail' /\ Len(tt) = m /\ \A j \in 1..m : tt[j] = trail[j]
  BY <1>1, <1>2, AtInnermost
<1>4. /\ Nested(calls, tt)
      /\ LevelsOf(calls, tt) = [LevelsOf(calls, trail) EXCEPT ![Len(calls) + 1] =
                                  SubSeq(tt, FloorOf(calls, Len(calls)) + 1, Len(tt))]
  BY <1>1, <1>2, <1>3, RewrittenTrail
<1>5. SubSeq(tt, m + 1, m) = <<>>
  BY SubSeqEmpty
<1>6. LevelsOf(calls', trail') = [LevelsOf(calls, trail) EXCEPT ![Len(calls) + 1] = <<>>]
  BY <1>1, <1>2, <1>3, <1>4, <1>5
<1>7. Registered(calls)' /\ EngineInv'
  BY <1>1, IdleEngine
<1>. QED
  BY <1>1, <1>3, <1>4, <1>6, <1>7, ViewUndo DEF Kept

(* The steps that touch neither calls nor trail nor the engine. *)
LEMMA IdleStep ==
  ASSUME CallsInv, AskSpent \/ Panic \/ Catch
  PROVE  Kept /\ Levels!Report
<1>1. /\ Nested(calls, trail) /\ UNCHANGED <<calls, activation, trail, pending, returned>>
      /\ last'.outcome \in {"nothing", "over"}
  BY DEF CallsInv, AskSpent, Panic, Catch, Quiet, Tell, engineVars
<1>2. LevelsOf(calls', trail') = LevelsOf(calls, trail) /\ Nested(calls', trail')
  BY <1>1
<1>3. Registered(calls)' /\ EngineInv'
  BY <1>1, IdleEngine
<1>. QED
  BY <1>1, <1>2, <1>3, ViewReport DEF Kept

----------------------------------------------------------------------------------
(* What the caller is told. *)

LEMMA TellsAlike ==
  ASSUME NEW outcome \in {"nothing", "item", "over", "value", "late", "none", "error"},
         NEW faults \in Seq(Faults), Tell(outcome, faults, faults)
  PROVE  last' \in Report /\ NothingSwallowed'
BY DEF Tell, Report, NothingSwallowed

LEMMA TellsQuietly ==
  ASSUME NEW outcome \in {"nothing", "item", "over"}, Tell(outcome, <<>>, <<>>)
  PROVE  last' \in Report /\ NothingSwallowed'
BY TellsAlike, EmptySeq

LEMMA OneFault ==
  ASSUME NEW fault \in Faults
  PROVE  <<fault>> \in Seq(Faults) /\ Append(<<>>, fault) = <<fault>>
<1>1. PICK p : p = Append(<<>>, fault)
  OBVIOUS
<1>2. PICK q : q = <<fault>>
  OBVIOUS
<1>3. q \in Seq(Faults) /\ Len(q) = 1 /\ q[1] = fault
  BY <1>2
<1>4. <<>> \in Seq(Faults) /\ Len(<<>>) = 0
  BY EmptySeq
<1>5. p \in Seq(Faults) /\ Len(p) = 1 /\ p[1] = fault
  <2>1. p \in Seq(Faults) /\ Len(p) = Len(<<>>) + 1 /\ p[Len(<<>>) + 1] = fault
    BY <1>1, <1>4, AppendProperties
  <2>. QED
    BY <1>4, <2>1
<1>6. \A i \in 1..Len(p) : p[i] = q[i]
  BY <1>3, <1>5
<1>7. p = q
  BY <1>3, <1>5, <1>6, SeqEqual
<1>. QED
  BY <1>1, <1>2, <1>3, <1>7

(* A call that has not opened tells why, in the words of Prolog if it has any. *)
LEMMA OpenFailsTells ==
  ASSUME CallsInv, OpenFails
  PROVE  last' \in Report /\ NothingSwallowed'
<1>1. calls # <<>> /\ Inner.state = "open" /\ returned = "no"
  BY DEF OpenFails, InnerIs
<1>2. Inner \in Call /\ InStep(Inner) /\ Inner.occurred \in Seq(Faults)
  BY <1>1, AtInStep DEF Call
<1>3. Due(Inner) = Taken("refused") /\ Taken("refused") # "none"
  BY <1>1 DEF Due, Taken
<1>4. Inner.occurred = Append(Inner.errors, Taken("refused"))
  BY <1>2, <1>3 DEF InStep, With
<1>5. Tell("error", Inner.occurred, Inner.occurred)
  BY <1>4 DEF OpenFails
<1>. QED
  BY <1>2, <1>5, TellsAlike

(* What ending a call has added is what the crate finds by looking. *)
LEMMA FinishFinds ==
  ASSUME CallsInv, calls # <<>>, Inner.state \in EndStates, returned # "nothing"
  PROVE  /\ Inner.occurred = With(Inner.errors, Finish) /\ Finish = pending
         /\ Finish \in {"none", "end"} /\ Inner.occurred \in Seq(Faults)
<1>1. Inner \in Call /\ InStep(Inner) /\ Inner.occurred \in Seq(Faults)
  BY AtInStep DEF Call
<1>2. returned \in {"yes", "no"} /\ (pending # "none" => returned = "no" /\ pending = "end")
  BY <1>1 DEF InStep, Awaited, EndStates
<1>3. Due(Inner) = pending /\ Finish = pending
  BY <1>2 DEF Due, Finish, EndStates
<1>. QED
  BY <1>1, <1>2, <1>3 DEF InStep

LEMMA FinishCutTells ==
  ASSUME CallsInv, FinishCut
  PROVE  last' \in Report /\ NothingSwallowed'
<1>1. /\ calls # <<>> /\ Inner.state = "cut" /\ returned # "nothing"
      /\ Inner.state \in EndStates
  BY DEF FinishCut, InnerIs, EndStates
<1>2. Inner.errors = <<>>
  BY <1>1, AtInStep DEF Settled
<1>3. /\ Inner.occurred = With(<<>>, Finish) /\ Finish \in {"none", "end"}
  BY <1>1, <1>2, FinishFinds
<1>4. CASE Finish = "none"
  <2>1. Tell("value", <<>>, <<>>)
    BY <1>3, <1>4 DEF FinishCut, With
  <2>. QED
    BY <2>1, TellsAlike, EmptySeq
<1>5. CASE Finish # "none"
  <2>1. Finish \in Faults
    BY <1>3, <1>5 DEF Faults
  <2>2. Inner.occurred = <<Finish>> /\ <<Finish>> \in Seq(Faults)
    BY <1>3, <1>5, <2>1, OneFault DEF With
  <2>3. Tell("late", <<Finish>>, <<Finish>>)
    BY <1>5, <2>2 DEF FinishCut
  <2>. QED
    BY <2>2, <2>3, TellsAlike
<1>. QED
  BY <1>4, <1>5

LEMMA FinishCloseTells ==
  ASSUME CallsInv, FinishClose
  PROVE  last' \in Report /\ NothingSwallowed'
<1>1. /\ calls # <<>> /\ Inner.state \in EndStates /\ returned # "nothing"
  BY DEF FinishClose, InnerIs, EndStates
<1>2. Inner.occurred = WithCleanup(Inner.errors) /\ Inner.occurred \in Seq(Faults)
  BY <1>1, FinishFinds DEF With, WithCleanup
<1>3. PICK outcome \in {"none", "error"} : Tell(outcome, Inner.occurred, Inner.occurred)
  <2>1. PICK outcome \in {"none", "error"} :
          outcome = IF WithCleanup(Inner.errors) = <<>> THEN "none" ELSE "error"
    OBVIOUS
  <2>. QED
    BY <1>2, <2>1 DEF FinishClose
<1>. QED
  BY <1>2, <1>3, TellsAlike

(* A destructor loses no more than what ending the call has raised. *)
LEMMA DroppedTells ==
  ASSUME CallsInv, Dropped
  PROVE  last' \in Report /\ NothingSwallowed'
<1>1. /\ calls # <<>> /\ Inner.state = "drop" /\ returned # "nothing"
      /\ Inner.state \in EndStates
  BY DEF Dropped, InnerIs, EndStates
<1>2. Inner.errors = <<>>
  BY <1>1, AtInStep DEF Settled
<1>3. /\ Inner.occurred = With(<<>>, Finish) /\ Finish \in {"none", "end"}
      /\ Inner.occurred \in Seq(Faults)
  BY <1>1, <1>2, FinishFinds
<1>4. Inner.occurred \in {<<>>, <<"end">>}
  <2>1. Append(<<>>, "end") = <<"end">>
    BY OneFault DEF Faults
  <2>. QED
    BY <1>3, <2>1 DEF With
<1>5. PICK outcome \in {"panic", "dropped"} : Tell(outcome, Inner.occurred, <<>>)
  <2>1. PICK outcome \in {"panic", "dropped"} :
          outcome = IF panicking THEN "panic" ELSE "dropped"
    OBVIOUS
  <2>. QED
    BY <2>1 DEF Dropped
<1>6. last' = [outcome |-> outcome, occurred |-> Inner.occurred, told |-> <<>>]
  BY <1>5 DEF Tell
<1>7. last' \in Report
  BY <1>3, <1>6, EmptySeq DEF Report
<1>8. last'.outcome \in {"panic", "dropped"} /\ last'.occurred = Inner.occurred
  BY <1>6
<1>. QED
  BY <1>4, <1>7, <1>8 DEF NothingSwallowed

LEMMA StepTells ==
  ASSUME CallsInv, Next
  PROVE  last' \in Report /\ NothingSwallowed'
<1>1. CASE OpenFails \/ FinishCut \/ FinishClose \/ Dropped
  BY <1>1, OpenFailsTells, FinishCutTells, FinishCloseTells, DroppedTells
<1>2. CASE ~(OpenFails \/ FinishCut \/ FinishClose \/ Dropped)
  <2>1. \E outcome \in {"nothing", "item", "over"} : Tell(outcome, <<>>, <<>>)
    BY <1>2
    DEF Next, ProgramEnds, CrateStep, Open, Bind, Yield, Return, ReturnErr, Ask, CloseEarly,
        CutEarly, Abandon, AskSpent, Rewind, Panic, Catch, CReturns, Opens, Solution, NoMore,
        AdvanceFails, Unwind, Quiet
  <2>. QED
    BY <2>1, TellsQuietly
<1>. QED
  BY <1>1, <1>2

----------------------------------------------------------------------------------
(* Every step keeps the calls in order, and is a step of Transactions. *)

LEMMA StepIsTransaction ==
  ASSUME CallsInv, [Next]_vars
  PROVE  Kept /\ [Levels!Next]_Levels!transactionVars
<1>1. CASE \E api \in FrameApis \cup QueryApis : Open(api)
  BY <1>1, OpenStep DEF Levels!Next
<1>2. CASE AskSpent \/ Panic \/ Catch
  BY <1>2, IdleStep DEF Levels!Next
<1>3. CASE Bind
  <2>1. 0 \in Bindings
    BY CallsAssumption DEF Bindings
  <2>. QED
    BY <1>3, <2>1, BindStep DEF Levels!Next
<1>4. CASE Return \/ ReturnErr \/ CloseEarly \/ CutEarly \/ Abandon \/ Unwind
             \/ NoMore \/ AdvanceFails
  BY <1>4, EndingStep DEF Levels!Next
<1>5. CASE Yield \/ Ask \/ Opens \/ Solution
  BY <1>5, MovingStep DEF Levels!Next
<1>6. CASE Rewind
  BY <1>6, RewindStep DEF Levels!Next
<1>7. CASE CReturns
  BY <1>7, CReturnsStep DEF Levels!Next
<1>8. CASE OpenFails \/ FinishClose \/ Dropped
  BY <1>8, DroppingStep DEF Levels!Next
<1>9. CASE FinishCut
  BY <1>9, FinishCutStep DEF Levels!Next
<1>10. CASE UNCHANGED vars
  <2>1. UNCHANGED <<calls, activation, trail, pending, returned, last>>
    BY <1>10 DEF vars, engineVars
  <2>2. UNCHANGED Levels!transactionVars
    BY <2>1 DEF Levels!transactionVars, Top, Floor
  <2>3. Registered(calls)' /\ EngineInv'
    BY <2>1, IdleEngine
  <2>. QED
    BY <2>1, <2>2, <2>3 DEF CallsInv, Kept
<1>. QED
  BY <1>1, <1>2, <1>3, <1>4, <1>5, <1>6, <1>7, <1>8, <1>9, <1>10
  DEF Next, ProgramEnds, CrateStep

(* The rest of the state. *)
LEMMA StepKeepsRest ==
  ASSUME CallsInv, Next
  PROVE  panicking' \in BOOLEAN /\ opened' \in 0..MaxCalls /\ spent' \subseteq 0..Len(calls')
<1>1. PICK n \in Nat : n = Len(calls) /\ (calls # <<>> => n # 0)
  <2>1. calls \in Seq(Call)
    BY DEF CallsInv, Nested
  <2>. QED
    BY <2>1, LenProperties, EmptySeq
<1>2. /\ spent \subseteq 0..n /\ opened \in 0..MaxCalls /\ panicking \in BOOLEAN
  BY <1>1 DEF CallsInv
<1>3. CASE \E api \in FrameApis \cup QueryApis : Open(api)
  <2>1. PICK api \in FrameApis \cup QueryApis : Open(api)
    BY <1>3
  <2>2. Len(calls') = n + 1
    BY <1>1, <2>1, OpenStep
  <2>3. /\ opened < MaxCalls /\ opened' = opened + 1
        /\ panicking' = panicking /\ spent' = spent
    BY <2>1 DEF Open
  <2>. QED
    BY <1>2, <2>2, <2>3, CallsAssumption
<1>4. CASE Bind \/ AskSpent \/ Rewind \/ Panic \/ Catch
  <2>1. /\ calls' = calls /\ opened' = opened /\ spent' \in {spent, spent \ {Len(calls)}}
        /\ panicking' \in {panicking, TRUE, FALSE}
    BY <1>4 DEF Bind, AskSpent, Rewind, Panic, Catch, Left
  <2>. QED
    BY <1>1, <1>2, <2>1
<1>5. CASE \/ Return \/ ReturnErr \/ CloseEarly \/ CutEarly \/ Abandon \/ Unwind
           \/ NoMore \/ AdvanceFails \/ Yield \/ Ask \/ Opens \/ Solution
  <2>1. calls # <<>> /\ UNCHANGED <<panicking, opened>>
    BY <1>5
    DEF Return, ReturnErr, CloseEarly, CutEarly, Abandon, Unwind, NoMore, AdvanceFails,
        Yield, Ask, Opens, Solution, InnerIs
  <2>2. spent' = spent \/ Left \/ Spend
    BY <1>5
    DEF Return, ReturnErr, CloseEarly, CutEarly, Abandon, Unwind, NoMore, AdvanceFails,
        Yield, Ask, Opens, Solution
  <2>3. spent' \subseteq spent \cup {n - 1}
    BY <1>1, <2>2 DEF Left, Spend
  <2>4. Len(calls') = n /\ n - 1 \in 0..n
    BY <1>1, <1>5, <2>1, EndingStep, MovingStep
  <2>. QED
    BY <1>2, <2>1, <2>3, <2>4
<1>6. CASE CReturns
  <2>1. UNCHANGED <<panicking, spent, opened>> /\ Len(calls') = n
    BY <1>1, <1>6, CReturnsStep DEF CReturns
  <2>. QED
    BY <1>2, <2>1
<1>7. CASE OpenFails \/ FinishClose \/ Dropped \/ FinishCut
  <2>1. calls # <<>> /\ UNCHANGED <<panicking, opened>> /\ Left
    BY <1>7 DEF OpenFails, FinishClose, Dropped, FinishCut, InnerIs
  <2>2. spent' = spent \ {n}
    BY <1>1, <2>1 DEF Left
  <2>3. Len(calls') = n - 1
    BY <1>1, <1>7, DroppingStep, FinishCutStep
  <2>4. spent' \subseteq 0..(n - 1)
    BY <1>2, <2>2
  <2>. QED
    BY <1>2, <2>1, <2>3, <2>4
<1>. QED
  BY <1>3, <1>4, <1>5, <1>6, <1>7 DEF Next, ProgramEnds, CrateStep

LEMMA CallsInvInit == Init => CallsInv /\ NothingSwallowed /\ Levels!Init
<1> SUFFICES ASSUME Init PROVE CallsInv /\ NothingSwallowed /\ Levels!Init
  OBVIOUS
<1>1. calls = <<>> /\ trail = <<>> /\ Len(calls) = 0 /\ Len(trail) = 0
  BY DEF Init
<1>2. calls \in Seq(Call) /\ trail \in Seq(Bindings) /\ 1..0 = {}
  BY <1>1, EmptySeq
<1>3. Nested(calls, trail) /\ Registered(calls)
  BY <1>1, <1>2 DEF Nested, Registered
<1>4. CallsInv /\ NothingSwallowed
  <2>1. /\ last = [outcome |-> "nothing", occurred |-> <<>>, told |-> <<>>]
        /\ opened = 0 /\ panicking = FALSE /\ spent = {}
        /\ activation = [gen |-> Gen, depth |-> 0]
        /\ returned = "nothing" /\ pending = "none"
    BY DEF Init, Entered
  <2>2. last \in Report /\ NothingSwallowed
    BY <2>1, EmptySeq DEF Report, NothingSwallowed
  <2>3. opened \in 0..MaxCalls
    BY <2>1, CallsAssumption
  <2>4. EngineInv
    BY <1>1, <2>1 DEF EngineInv, Activation, Gen
  <2>. QED
    BY <1>3, <2>1, <2>2, <2>3, <2>4 DEF CallsInv
<1>5. LevelsOf(calls, trail) = << <<>> >>
  <2>1. PICK l \in Seq(Seq(Bindings)) : l = LevelsOf(calls, trail)
    BY <1>3, LevelsAreSeq
  <2>2. Len(l) = 1 /\ l[1] = Level(calls, trail, 0)
    <3>1. /\ Len(l) = Len(calls) + 1
          /\ \A i \in 1..(Len(calls) + 1) : l[i] = Level(calls, trail, i - 1)
      BY <1>3, <2>1, LevelsAreSeq
    <3>2. Len(calls) + 1 = 1 /\ 1 \in 1..1 /\ 1 - 1 = 0
      BY <1>1
    <3>3. Len(l) = 1 /\ \A i \in 1..1 : l[i] = Level(calls, trail, i - 1)
      BY <3>1, <3>2
    <3>. QED
      BY <3>2, <3>3
  <2>3. SubSeq(trail, 0 + 1, 0) = <<>>
    BY SubSeqEmpty
  <2>4. Level(calls, trail, 0) = <<>>
    BY <1>1, <2>3 DEF Level, FloorOf, TopOf
  <2>5. PICK r : r = << <<>> >>
    OBVIOUS
  <2>6. r \in Seq(Seq(Bindings)) /\ Len(r) = 1 /\ r[1] = <<>>
    BY <2>5, EmptySeq
  <2>7. \A i \in 1..Len(l) : l[i] = r[i]
    BY <2>2, <2>4, <2>6
  <2>8. l = r
    BY <2>2, <2>6, <2>7, SeqEqual
  <2>. QED
    BY <2>1, <2>5, <2>8
<1>6. last.outcome = "nothing"
  BY DEF Init
<1>7. Levels!Init
  BY <1>5, <1>6 DEF Levels!Init, LevelsOf, Level, FloorOf, TopOf, Floor, Top
<1>. QED
  BY <1>4, <1>7

----------------------------------------------------------------------------------
(* The theorems. *)

(* The calls of a program stay nested: the marks rise and stay on the trail, every open
   call is on the record, only the innermost call advances or ends, and what has gone
   wrong in it is in the crate's hands or still Prolog's to tell. *)
THEOREM CallsStayNested == Spec => [](CallsInv /\ NothingSwallowed)
<1>1. CallsInv /\ NothingSwallowed /\ [Next]_vars => (CallsInv /\ NothingSwallowed)'
  <2> SUFFICES ASSUME CallsInv, NothingSwallowed, [Next]_vars
               PROVE  CallsInv' /\ NothingSwallowed'
    OBVIOUS
  <2>1. Nested(calls, trail)' /\ Registered(calls)' /\ EngineInv'
    BY StepIsTransaction DEF Kept
  <2>2. CASE Next
    BY <2>1, <2>2, StepTells, StepKeepsRest DEF CallsInv
  <2>3. CASE UNCHANGED vars
    BY <2>1, <2>3 DEF vars, CallsInv, NothingSwallowed
  <2>. QED
    BY <2>2, <2>3
<1>. QED
  BY <1>1, CallsInvInit, PTL DEF Spec

(* The marks of calls never point beyond the trail, and no call is suspended or ends
   around another. *)
THEOREM CallsTypeCorrect == Spec => []CallsTypeOK
<1>1. CallsInv => CallsTypeOK
  <2> SUFFICES ASSUME CallsInv PROVE CallsTypeOK
    OBVIOUS
  <2>1. \A i \in 1..(Len(calls) - 1) : i \in 1..Len(calls) /\ i < Len(calls)
    BY LenProperties DEF CallsInv, Nested
  <2>2. /\ pending \in Faults \cup {"none"}
        /\ returned \in {"nothing", "yes", "last", "no", "exception", "unknown"}
    <3>1. calls # <<>> => InStep(Inner)
      BY DEF CallsInv, EngineInv
    <3>. QED
      BY <3>1 DEF CallsInv, EngineInv, InStep, Awaited, Faults
  <2>. QED
    BY <2>1, <2>2 DEF CallsInv, EngineInv, Nested, CallsTypeOK
<1>. QED
  BY <1>1, CallsStayNested, PTL

(* C2, A3: whichever way a call fails, the crate has taken its exception before it makes
   another C call or the program goes on, and the record counts the scopes that are
   open. *)
THEOREM EngineStaysInOrder == Spec => []EngineInOrder
<1>1. CallsInv => EngineInOrder
  <2> SUFFICES ASSUME CallsInv PROVE EngineInOrder
    OBVIOUS
  <2>1. CASE calls = <<>>
    BY <2>1 DEF CallsInv, EngineInv, EngineInOrder
  <2>2. CASE calls # <<>>
    <3>1. InStep(Inner) /\ Inner.depth = Len(calls) - 1 /\ Len(calls) \in Nat
      BY <2>2, AtInStep
    <3>2. returned = "nothing" => pending = "none"
      BY <3>1 DEF InStep, Awaited
    <3>3. InProgram => activation.depth = Len(calls)
      BY <2>2, <3>1 DEF InProgram, InStep, ProgramStates, EndStates
    <3>. QED
      BY <3>2, <3>3 DEF EngineInOrder
  <2>. QED
    BY <2>1, <2>2
<1>. QED
  BY <1>1, CallsStayNested, PTL

(* Every fault of a call reaches its caller, in order, whichever of opening, advancing,
   the callback and ending it befell; a destructor loses at most its own. *)
THEOREM EveryErrorReported == Spec => []NothingSwallowed
BY CallsStayNested, PTL

(* F6, Q1: frames and queries implement nested transactions on the bindings, and what
   the caller is told goes with what became of them. *)
THEOREM CallsAreTransactions == Spec => ImplementsTransactions
<1>1. Init => Levels!Init
  BY CallsInvInit
<1>2. CallsInv /\ [Next]_vars => [Levels!Next]_Levels!transactionVars
  BY StepIsTransaction
<1>. QED
  BY <1>1, <1>2, CallsStayNested, PTL DEF Spec, ImplementsTransactions, Levels!Spec
==================================================================================
