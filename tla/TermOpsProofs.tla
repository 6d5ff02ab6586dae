------------------------------ MODULE TermOpsProofs ------------------------------
(***********************************************************************************)
(* What TermOps checks, for lists, dicts and compounds of any length.  The        *)
(* invariant follows an operation through its calls: which of them may still come *)
(* tells what is open, what can be pending, and how many items are still to come. *)
(***********************************************************************************)
EXTENDS TermOps, SequenceTheorems, TLAPS

Busy == todo # <<>>

(* Calls that open something are followed by those that end it, and only they are. *)
Opening == {"external", "text", "open", "advance"}
Closing == {"copy_out", "copy_text", "advance", "end"}

Closes(call) ==
  CASE call = "external" -> "copy_out"
    [] call = "text" -> "copy_text"
    [] call = "open" -> "advance"
    [] OTHER -> "end"

Follows(calls) ==
  \A i \in 1..Len(calls) :
    /\ (calls[i] \in Opening) => /\ i < Len(calls)
                                /\ calls[i + 1] = Closes(calls[i])
    /\ (calls[i] \in Closing) => \/ i = 1
                                \/ /\ calls[i - 1] \in Opening
                                   /\ calls[i] = Closes(calls[i - 1])

(* What an operation has open, or has of Prolog's. *)
QueryOpen ==
  /\ Busy
  /\ \/ Call = "advance"
     \/ Call = "end" /\ returned = "nothing"
     \/ Call = "open" /\ returned = "yes"

BufferHeld ==
  /\ Busy
  /\ \/ Call \in {"copy_out", "copy_text"}
     \/ Call \in {"external", "text"} /\ returned = "yes"

Held ==
  held = (IF QueryOpen THEN {"query"} ELSE {}) \cup (IF BufferHeld THEN {"buffer"} ELSE {})

(* What was raised and is still pending at each call. *)
AtEnd ==
  /\ errors \in {<<>>, <<Failed>>, <<Exception(1)>>}
  /\ LET before == IF errors = <<Exception(1)>> THEN 1 ELSE 0
     IN  \/ raised = before /\ pending = 0
         \/ raised = before + 1 /\ pending = before + 1 /\ returned = "no"

AtForDict ==
  \/ errors = <<>> /\ raised = 0 /\ pending = 0 /\ returned \in {"nothing", "yes"}
  \/ errors = <<Mismatch>> /\ raised = 0 /\ pending = 0 /\ returned = "no"
  \/ errors = <<Failed>> /\ raised = 1 /\ pending = 1 /\ returned = "no"

AtOther ==
  /\ errors = <<>>
  /\ \/ raised = 0 /\ pending = 0
     \/ /\ raised = 1 /\ pending = 1
        /\ Call \notin NeverRaise
        /\ returned = IF Call = "advance" THEN "unknown" ELSE "no"

Faults ==
  IF todo = <<>>
  THEN /\ returned = "nothing" /\ pending = 0 /\ raised \in 0..2
       /\ IF raised > 0 THEN answer = Exception(1) ELSE ~IsException(answer)
       /\ errors \in {<<>>, <<Failed>>, <<Mismatch>>, <<Exception(1)>>}
  ELSE /\ CASE Call = "end" -> AtEnd
            [] Call = "for_dict" -> AtForDict
            [] OTHER -> AtOther
       /\ (returned = "nothing") => (pending = 0)
       /\ (returned = "unknown") => (Call = "advance")
       /\ (Call \in {"copy_out", "copy_text"}) => (returned = "nothing")

(* What is still to be collected. *)
Counted == items = [i \in 1..Len(items) |-> i] /\ Len(items) \in 0..Size

Walking ==
  /\ input \in Lists /\ input.end = "nil"
  /\ \A i \in 1..Len(todo) :
       todo[i] = IF (Len(todo) - i) % 3 = 0 THEN "cell" ELSE "new_ref"
  /\ Len(todo) \in (3 * (Size - Len(items)) - 2)..(3 * (Size - Len(items)))

Collecting ==
  \/ todo = <<>> /\ (answer = Ok => Len(items) = Size /\ input.end \in {"nil", "dict", "none"})
  \/ /\ input = Nothing
     /\ \A i \in 1..Len(todo) : todo[i] \notin {"cell", "for_dict", "skip_list", "copy_ref"}
  \/ input \in Lists /\ items = <<>> /\ todo = <<"skip_list">>
  \/ /\ input \in Lists /\ input.end = "nil" /\ items = <<>>
     /\ todo = <<"copy_ref">> \o Times(Size, <<"new_ref", "new_ref", "cell">>)
  \/ Busy /\ Walking
  \/ input \in Dicts /\ items = <<>> /\ todo = <<"is_dict", "for_dict">>
  \/ input \in Dicts /\ todo = <<"for_dict">> /\ (returned = "yes" => Len(items) = Size)

OpsInv ==
  /\ input \in Lists \cup Dicts \cup {Nothing}
  /\ todo \in Seq(Calls)
  /\ returned \in {"nothing", "yes", "no", "unknown"}
  /\ answer \in Answers
  /\ (answer # Running) <=> (todo = <<>>)
  /\ Follows(todo)
  /\ Held
  /\ Faults
  /\ Counted
  /\ Collecting

----------------------------------------------------------------------------------
(* The calls of the operations. *)

(* Calls that neither open anything nor belong to a list or dict. *)
PlainCalls == {"put", "get", "unify", "new_ref", "handle", "is_dict", "record", "recall"}

ItemCalls == {"cell", "for_dict", "skip_list", "copy_ref"}

(* What the operations begin with. *)
Fresh(calls) ==
  /\ calls \in Seq(Calls)
  /\ calls # <<>>
  /\ Follows(calls)
  /\ calls[1] \notin Closing
  /\ \A i \in 1..Len(calls) : calls[i] \notin ItemCalls

LEMMA PlainIsFresh ==
  ASSUME NEW calls \in Seq(PlainCalls), calls # <<>>
  PROVE  Fresh(calls)
<1>1. \A i \in 1..Len(calls) : calls[i] \in PlainCalls
  BY ElementOfSeq
<1>2. 1 \in 1..Len(calls) /\ Len(calls) \in Nat
  BY EmptySeq, LenProperties
<1>3. calls \in Seq(Calls)
  <2>1. \A i \in 1..Len(calls) : calls[i] \in Calls
    BY <1>1 DEF PlainCalls, Calls
  <2>2. calls \in [1..Len(calls) -> PlainCalls] /\ DOMAIN calls = 1..Len(calls)
    BY LenProperties
  <2>3. calls \in [1..Len(calls) -> Calls]
    BY <2>1, <2>2
  <2>. QED
    BY <1>2, <2>3
<1>4. Follows(calls)
  BY <1>1 DEF Follows, PlainCalls, Opening, Closing
<1>. QED
  BY <1>1, <1>2, <1>3, <1>4 DEF Fresh, PlainCalls, Closing, ItemCalls

(* Plain calls may come first. *)
LEMMA PlainFirst ==
  ASSUME NEW p \in Seq(PlainCalls), NEW q, Fresh(q)
  PROVE  Fresh(p \o q)
<1>1. PICK m \in Nat : m = Len(p)
  BY LenProperties
<1>2. PICK n \in Nat \ {0} : n = Len(q)
  BY EmptySeq, LenProperties DEF Fresh
<1>3. p \in Seq(Calls) /\ q \in Seq(Calls)
  <2>1. p = <<>> \/ Fresh(p)
    BY PlainIsFresh
  <2>. QED
    BY <2>1, EmptySeq DEF Fresh
<1>4. PICK r : r = p \o q
  OBVIOUS
<1>5. /\ r \in Seq(Calls) /\ Len(r) = m + n
      /\ \A i \in 1..(m + n) : r[i] = IF i <= m THEN p[i] ELSE q[i - m]
  BY <1>1, <1>2, <1>3, <1>4, ConcatProperties
<1>6. \A i \in 1..m : r[i] = p[i] /\ p[i] \in PlainCalls
  BY <1>1, <1>5, ElementOfSeq
<1>7. \A i \in (m + 1)..(m + n) : r[i] = q[i - m] /\ i - m \in 1..n
  BY <1>5
<1>8. r # <<>>
  BY <1>5, EmptySeq
<1>9. ASSUME NEW i \in 1..(m + n) PROVE r[i] \notin ItemCalls
  <2>1. CASE i \in 1..m
    BY <1>6, <2>1 DEF PlainCalls, ItemCalls
  <2>2. CASE i \in (m + 1)..(m + n)
    BY <1>2, <1>7, <2>2 DEF Fresh
  <2>. QED
    BY <2>1, <2>2
<1>10. r[1] \notin Closing
  <2>1. CASE m = 0
    <3>1. 1 \in (m + 1)..(m + n) /\ 1 - m = 1
      BY <2>1
    <3>. QED
      BY <1>7, <3>1 DEF Fresh
  <2>2. CASE m > 0
    BY <1>6, <2>2 DEF PlainCalls, Closing
  <2>. QED
    BY <2>1, <2>2
<1>11. ASSUME NEW i \in 1..(m + n), r[i] \in Opening
       PROVE  i < m + n /\ r[i + 1] = Closes(r[i])
  <2>1. i \in (m + 1)..(m + n)
    BY <1>6, <1>11 DEF PlainCalls, Opening
  <2>2. i - m \in 1..n /\ q[i - m] = r[i]
    BY <1>7, <2>1
  <2>3. i - m < n /\ q[i - m + 1] = Closes(r[i])
    BY <1>2, <1>11, <2>2 DEF Fresh, Follows
  <2>4. i + 1 \in (m + 1)..(m + n) /\ i + 1 - m = i - m + 1
    BY <2>1, <2>3
  <2>. QED
    BY <1>7, <2>3, <2>4
<1>12. ASSUME NEW i \in 1..(m + n), r[i] \in Closing
       PROVE  i = 1 \/ (r[i - 1] \in Opening /\ r[i] = Closes(r[i - 1]))
  <2>1. i \in (m + 1)..(m + n)
    BY <1>6, <1>12 DEF PlainCalls, Closing
  <2>2. i - m \in 1..n /\ q[i - m] = r[i]
    BY <1>7, <2>1
  <2>3. i - m # 1
    BY <1>12, <2>2 DEF Fresh
  <2>4. q[i - m - 1] \in Opening /\ r[i] = Closes(q[i - m - 1])
    BY <1>2, <1>12, <2>2, <2>3 DEF Fresh, Follows
  <2>5. i - 1 \in (m + 1)..(m + n) /\ i - 1 - m = i - m - 1
    BY <2>1, <2>2, <2>3
  <2>. QED
    BY <1>7, <2>4, <2>5
<1>13. Follows(r)
  BY <1>5, <1>11, <1>12 DEF Follows
<1>. QED
  BY <1>4, <1>5, <1>8, <1>9, <1>10, <1>13 DEF Fresh

(* Plain calls made again and again. *)
LEMMA PlainTimes ==
  ASSUME NEW n \in Nat, NEW p \in Seq(PlainCalls), Len(p) > 0
  PROVE  Times(n, p) \in Seq(PlainCalls)
<1>1. PICK m \in Nat : m = Len(p) /\ m > 0
  BY LenProperties
<1>2. n * m \in Nat
  BY <1>1
<1>3. \A i \in 1..(n * m) : ((i - 1) % m) + 1 \in 1..m
  BY <1>1, <1>2
<1>4. \A i \in 1..(n * m) : p[((i - 1) % m) + 1] \in PlainCalls
  BY <1>1, <1>3, ElementOfSeq
<1>5. Times(n, p) = [i \in 1..(n * m) |-> p[((i - 1) % m) + 1]]
  BY <1>1 DEF Times
<1>6. Times(n, p) \in [1..(n * m) -> PlainCalls]
  BY <1>4, <1>5
<1>. QED
  BY <1>2, <1>6

LEMMA PlainConcat ==
  ASSUME NEW p \in Seq(PlainCalls), NEW q \in Seq(PlainCalls), p # <<>>
  PROVE  p \o q \in Seq(PlainCalls) /\ p \o q # <<>>
<1>1. p \o q \in Seq(PlainCalls) /\ Len(p \o q) = Len(p) + Len(q)
  BY ConcatProperties
<1>2. Len(p) \in Nat \ {0} /\ Len(q) \in Nat
  BY EmptySeq, LenProperties
<1>. QED
  BY <1>1, <1>2, EmptySeq

LEMMA ScriptsAreFresh == \A calls \in Scripts : Fresh(calls)
<1>1. \A c \in {Put, Get, Unify, NewHandle, GetArg, GetList, RecordTerm, RecallInto,
                RecallExternal} : c \in Seq(PlainCalls) /\ c # <<>>
  <2>1. /\ Put \in Seq(PlainCalls) /\ Put # <<>> /\ Get \in Seq(PlainCalls) /\ Get # <<>>
        /\ Unify \in Seq(PlainCalls) /\ Unify # <<>>
        /\ NewHandle \in Seq(PlainCalls) /\ NewHandle # <<>>
        /\ RecordTerm \in Seq(PlainCalls) /\ RecordTerm # <<>>
    BY DEF Put, Get, Unify, NewHandle, RecordTerm, PlainCalls
  <2>2. /\ RecallInto \in Seq(PlainCalls) /\ RecallInto # <<>>
        /\ GetArg \in Seq(PlainCalls) /\ GetArg # <<>>
        /\ RecallExternal \in Seq(PlainCalls) /\ RecallExternal # <<>>
    BY DEF RecallInto, GetArg, RecallExternal, PlainCalls
  <2>3. GetList \in Seq(PlainCalls) /\ GetList # <<>>
    BY DEF GetList, PlainCalls
  <2>. QED
    BY <2>1, <2>2, <2>3
<1>2. \A c \in {Put, Get, Unify, NewHandle, GetArg, GetList, RecordTerm, RecallInto,
                RecallExternal} : Fresh(c)
  BY <1>1, PlainIsFresh
<1>3. Recall \in Seq(PlainCalls) /\ Recall # <<>>
  <2>1. PICK p : p = <<"new_ref">>
    OBVIOUS
  <2>2. p \in Seq(PlainCalls) /\ p # <<>>
    BY <2>1 DEF PlainCalls
  <2>3. RecallInto \in Seq(PlainCalls)
    BY <1>1
  <2>4. p \o RecallInto \in Seq(PlainCalls) /\ p \o RecallInto # <<>>
    BY <2>2, <2>3, PlainConcat
  <2>. QED
    BY <2>1, <2>4 DEF Recall
<1>4. ToRecord \in Seq(PlainCalls) /\ ToRecord # <<>>
  <2>1. RecallExternal \in Seq(PlainCalls) /\ RecallExternal # <<>> /\ RecordTerm \in Seq(PlainCalls)
    BY <1>1
  <2>. QED
    BY <2>1, PlainConcat DEF ToRecord
<1>5. Fresh(Recall) /\ Fresh(ToRecord)
  BY <1>3, <1>4, PlainIsFresh
<1>6. ASSUME NEW c, \/ c = <<"text", "copy_text">> \/ c = <<"external", "copy_out">>
      PROVE  Fresh(c)
  <2>1. Len(c) = 2 /\ c \in Seq(Calls) /\ c # <<>>
    <3>1. CASE c = <<"text", "copy_text">>
      BY <3>1 DEF Calls
    <3>2. CASE c = <<"external", "copy_out">>
      BY <3>2 DEF Calls
    <3>. QED
      BY <1>6, <3>1, <3>2
  <2>2. \A i \in 1..2 : i = 1 \/ i = 2
    OBVIOUS
  <2>3. \/ c[1] = "text" /\ c[2] = "copy_text"
        \/ c[1] = "external" /\ c[2] = "copy_out"
    BY <1>6
  <2>4. Follows(c)
    BY <2>1, <2>2, <2>3 DEF Follows, Opening, Closing, Closes
  <2>. QED
    BY <2>1, <2>2, <2>3, <2>4 DEF Fresh, Closing, ItemCalls
<1>7. Fresh(GetText) /\ Fresh(RecordExternal)
  BY <1>6 DEF GetText, RecordExternal
<1>8. Fresh(ToExternal)
  BY <1>3, <1>7, PlainFirst DEF ToExternal
<1>9. Fresh(DictTag)
  <2>1. PICK c : c = DictTag
    OBVIOUS
  <2>2. Len(c) = 9 /\ c \in Seq(Calls) /\ c # <<>>
    BY <2>1 DEF DictTag, Calls
  <2>3. /\ c[1] = "is_dict" /\ c[2] = "handle" /\ c[3] = "new_ref" /\ c[4] = "put"
        /\ c[5] = "open" /\ c[6] = "advance" /\ c[7] = "end" /\ c[8] = "is_variable"
        /\ c[9] = "get"
    BY <2>1 DEF DictTag
  <2>4. \A i \in 1..9 : \/ i = 1 \/ i = 2 \/ i = 3 \/ i = 4 \/ i = 5 \/ i = 6 \/ i = 7
                        \/ i = 8 \/ i = 9
    OBVIOUS
  <2>5. Follows(c)
    BY <2>2, <2>3, <2>4 DEF Follows, Opening, Closing, Closes
  <2>6. c[1] \notin Closing /\ \A i \in 1..9 : c[i] \notin ItemCalls
    BY <2>3, <2>4 DEF Closing, ItemCalls
  <2>. QED
    BY <2>1, <2>2, <2>5, <2>6 DEF Fresh
<1>. QED
  BY <1>2, <1>5, <1>7, <1>8, <1>9 DEF Scripts

LEMMA HelpersAreFresh ==
  ASSUME NEW n \in 0..MaxLen
  PROVE  /\ Fresh(PutCompound(n)) /\ Fresh(PutListTerms(n))
         /\ Fresh(PutDict(n)) /\ Fresh(CompoundArgs(n))
<1>1. n \in Nat
  BY OpsAssumption
<1>2. /\ <<"put">> \in Seq(PlainCalls) /\ <<"put">> # <<>> /\ Len(<<"put">>) > 0
      /\ <<"new_ref">> \in Seq(PlainCalls) /\ <<"new_ref">> # <<>>
      /\ <<"get">> \in Seq(PlainCalls) /\ <<"get">> # <<>>
  BY DEF PlainCalls
<1>3. /\ <<"new_ref", "put">> \in Seq(PlainCalls) /\ <<"new_ref", "put">> # <<>>
      /\ Len(<<"new_ref", "put">>) > 0
      /\ <<"handle", "put">> \in Seq(PlainCalls)
      /\ GetArg \in Seq(PlainCalls) /\ Len(GetArg) > 0
  BY DEF PlainCalls, GetArg
<1>4. PICK t \in Seq(PlainCalls) : t = Times(n, <<"put">>)
  BY <1>1, <1>2, PlainTimes
<1>5. PICK u \in Seq(PlainCalls) : u = Times(n, <<"new_ref", "put">>)
  BY <1>1, <1>3, PlainTimes
<1>6. PICK v \in Seq(PlainCalls) : v = Times(n, GetArg)
  BY <1>1, <1>3, PlainTimes
<1>7. PutCompound(n) \in Seq(PlainCalls) /\ PutCompound(n) # <<>>
  <2>1. <<"new_ref">> \o t \in Seq(PlainCalls) /\ <<"new_ref">> \o t # <<>>
    BY <1>2, PlainConcat
  <2>2. PICK x \in Seq(PlainCalls) : x = <<"new_ref">> \o t /\ x # <<>>
    BY <2>1
  <2>3. x \o <<"handle", "put">> \in Seq(PlainCalls) /\ x \o <<"handle", "put">> # <<>>
    BY <1>3, <2>2, PlainConcat
  <2>4. PutCompound(n) = IF n = 0 THEN <<"put">> ELSE x \o <<"handle", "put">>
    BY <1>4, <2>2 DEF PutCompound
  <2>. QED
    BY <1>2, <2>3, <2>4
<1>8. PutListTerms(n) \in Seq(PlainCalls) /\ PutListTerms(n) # <<>>
  <2>1. <<"new_ref", "put">> \o u \in Seq(PlainCalls) /\ <<"new_ref", "put">> \o u # <<>>
    BY <1>3, PlainConcat
  <2>2. PICK x \in Seq(PlainCalls) : x = <<"new_ref", "put">> \o u /\ x # <<>>
    BY <2>1
  <2>3. x \o <<"put">> \in Seq(PlainCalls) /\ x \o <<"put">> # <<>>
    BY <1>2, <2>2, PlainConcat
  <2>. QED
    BY <1>5, <2>2, <2>3 DEF PutListTerms
<1>9. PutDict(n) \in Seq(PlainCalls) /\ PutDict(n) # <<>>
  <2>1. <<"new_ref">> \o t \in Seq(PlainCalls) /\ <<"new_ref">> \o t # <<>>
    BY <1>2, PlainConcat
  <2>2. PICK x \in Seq(PlainCalls) : x = <<"new_ref">> \o t /\ x # <<>>
    BY <2>1
  <2>3. x \o <<"put">> \in Seq(PlainCalls) /\ x \o <<"put">> # <<>>
    BY <1>2, <2>2, PlainConcat
  <2>. QED
    BY <1>4, <2>2, <2>3 DEF PutDict
<1>10. CompoundArgs(n) \in Seq(PlainCalls) /\ CompoundArgs(n) # <<>>
  BY <1>2, <1>6, PlainConcat DEF CompoundArgs
<1>. QED
  BY <1>7, <1>8, <1>9, <1>10, PlainIsFresh

----------------------------------------------------------------------------------
(* The lists, the dicts and the answers. *)

LEMMA InputCells ==
  ASSUME input \in Lists \cup Dicts \cup {Nothing}
  PROVE  /\ Size \in 0..MaxLen
         /\ input = Nothing => Size = 0
<1>1. CASE input = Nothing
  BY <1>1, OpsAssumption DEF Nothing, Size
<1>2. CASE input \in Lists \cup Dicts
  <2>1. PICK n \in 0..MaxLen, S \in {{"item"}, {"atom", "int", "unknown"}} :
          input.cells \in [1..n -> S]
    BY <1>2 DEF Lists, Dicts, UpTo
  <2>2. n \in Nat
    BY OpsAssumption
  <2>3. Len(input.cells) = n
    BY <2>1, <2>2
  <2>4. input # Nothing
    BY <1>2 DEF Lists, Dicts, Nothing
  <2>. QED
    BY <2>1, <2>3, <2>4 DEF Size
<1>. QED
  BY <1>1, <1>2

LEMMA Kinds ==
  /\ \A d \in Dicts : d.end = "dict" /\ d # Nothing
  /\ \A l \in Lists : l.end \in {"nil", "variable", "other", "cycle"} /\ l # Nothing
  /\ Nothing.end = "none"
BY DEF Dicts, Lists, Nothing

LEMMA Outcomes ==
  /\ {Mismatch, Failed, Panic, NotAProperList, Exception(1), Exception(2)} \subseteq Errors
  /\ Errors \subseteq Answers
  /\ {Ok, False, NoTag, Running} \subseteq Answers
  /\ Running \notin Errors /\ Running \notin {Ok, False, NoTag}
  /\ Ok \notin Errors /\ Ok \notin {False, NoTag}
  /\ \A n : IsException(Exception(n))
  /\ \A a \in {Mismatch, Failed, Panic, NotAProperList, Ok, False, NoTag, Running} :
       ~IsException(a)
<1>1. {Mismatch, Failed, Panic, NotAProperList, Exception(1), Exception(2)} \subseteq Errors
  BY DEF Errors
<1>2. Errors \subseteq Answers /\ {Ok, False, NoTag, Running} \subseteq Answers
  BY DEF Answers
<1>3. /\ \A n : Exception(n)[1] = "exception"
      /\ Mismatch[1] = "mismatch" /\ Failed[1] = "failed" /\ Panic[1] = "panic"
      /\ NotAProperList[1] = "not a proper list" /\ Ok[1] = "ok" /\ False[1] = "false"
      /\ NoTag[1] = "none" /\ Running[1] = "running"
  BY DEF Exception, Mismatch, Failed, Panic, NotAProperList, Ok, False, NoTag, Running
<1>4. \A e \in Errors : e[1] \in {"mismatch", "failed", "panic", "not a proper list", "exception"}
  BY <1>3 DEF Errors
<1>5. Running \notin Errors /\ Ok \notin Errors
  BY <1>3, <1>4
<1>6. Running \notin {Ok, False, NoTag} /\ Ok \notin {False, NoTag}
  BY <1>3
<1>. QED
  BY <1>1, <1>2, <1>3, <1>5, <1>6 DEF IsException

----------------------------------------------------------------------------------
(* The calls of an operation under way. *)

LEMMA CallsAhead ==
  ASSUME NEW calls \in Seq(Calls), calls # <<>>, Follows(calls)
  PROVE  /\ Len(calls) \in Nat \ {0}
         /\ Head(calls) = calls[1] /\ Head(calls) \in Calls
         /\ Tail(calls) \in Seq(Calls)
         /\ Len(Tail(calls)) = Len(calls) - 1
         /\ \A i \in 1..(Len(calls) - 1) : Tail(calls)[i] = calls[i + 1]
         /\ Tail(calls) = <<>> <=> Len(calls) = 1
         /\ Follows(Tail(calls))
         /\ (Head(calls) \in Opening) => Len(calls) > 1
         /\ (Len(calls) > 1) => /\ Head(Tail(calls)) = calls[2]
                                /\ calls[1] \in Opening <=> calls[2] \in Closing
                                /\ calls[1] \in Opening => calls[2] = Closes(calls[1])
<1>1. PICK n \in Nat \ {0} : n = Len(calls)
  BY EmptySeq, LenProperties
<1>2. Head(calls) = calls[1] /\ calls[1] \in Calls
  <2>1. Head(calls) \in Calls
    BY HeadTailProperties
  <2>. QED
    BY <1>1, <2>1
<1>3. PICK t \in Seq(Calls) : t = Tail(calls)
  BY HeadTailProperties
<1>4. Len(t) = n - 1 /\ \A i \in 1..(n - 1) : t[i] = calls[i + 1]
  <2>1. Len(t) = n - 1 /\ \A i \in 1..Len(t) : t[i] = calls[i + 1]
    BY <1>1, <1>3, HeadTailProperties
  <2>. QED
    BY <2>1
<1>5. t = <<>> <=> n = 1
  BY <1>4, EmptySeq
<1>6. \A i \in 1..n :
        /\ (calls[i] \in Opening) => i < n /\ calls[i + 1] = Closes(calls[i])
        /\ (calls[i] \in Closing) => \/ i = 1
                                     \/ /\ calls[i - 1] \in Opening
                                        /\ calls[i] = Closes(calls[i - 1])
  BY <1>1 DEF Follows
<1>7. Follows(t)
  <2> SUFFICES ASSUME NEW i \in 1..(n - 1)
               PROVE  /\ (t[i] \in Opening) => i < n - 1 /\ t[i + 1] = Closes(t[i])
                      /\ (t[i] \in Closing) => \/ i = 1
                                               \/ /\ t[i - 1] \in Opening
                                                  /\ t[i] = Closes(t[i - 1])
    BY <1>4 DEF Follows
  <2>1. t[i] = calls[i + 1] /\ i + 1 \in 1..n /\ i + 1 # 1 /\ i + 1 - 1 = i
    BY <1>4
  <2>2. ASSUME t[i] \in Opening PROVE i < n - 1 /\ t[i + 1] = Closes(t[i])
    <3>1. i + 1 < n /\ calls[i + 1 + 1] = Closes(t[i])
      BY <1>6, <2>1, <2>2
    <3>2. i + 1 \in 1..(n - 1)
      BY <3>1
    <3>. QED
      BY <1>4, <3>1, <3>2
  <2>3. ASSUME t[i] \in Closing, i # 1
        PROVE  t[i - 1] \in Opening /\ t[i] = Closes(t[i - 1])
    <3>1. calls[i] \in Opening /\ t[i] = Closes(calls[i])
      BY <1>6, <2>1, <2>3
    <3>2. i - 1 \in 1..(n - 1) /\ i - 1 + 1 = i
      BY <2>3
    <3>. QED
      BY <1>4, <3>1, <3>2
  <2>. QED
    BY <2>2, <2>3
<1>8. ASSUME n > 1
      PROVE  /\ Head(t) = calls[2]
             /\ calls[1] \in Opening <=> calls[2] \in Closing
             /\ calls[1] \in Opening => calls[2] = Closes(calls[1])
  <2>1. t # <<>> /\ 1 \in 1..(n - 1) /\ 1 \in 1..n /\ 2 \in 1..n /\ 1 + 1 = 2 /\ 2 - 1 = 1 /\ 2 # 1
    BY <1>5, <1>8
  <2>2. Head(t) = t[1]
    BY <2>1
  <2>3. calls[1] \in Opening => calls[2] = Closes(calls[1])
    BY <1>6, <2>1
  <2>4. calls[1] \in Opening => Closes(calls[1]) \in Closing
    BY DEF Closes, Closing
  <2>5. calls[2] \in Closing => calls[1] \in Opening
    BY <1>6, <2>1
  <2>. QED
    BY <1>4, <2>1, <2>2, <2>3, <2>4, <2>5
<1>9. calls[1] \in Opening => n > 1
  BY <1>6
<1>. QED
  BY <1>1, <1>2, <1>3, <1>4, <1>5, <1>7, <1>8, <1>9

(* A list of n cells is walked with three calls each. *)
Walk(n) == Times(n, <<"new_ref", "new_ref", "cell">>)

LEMMA WalkShape ==
  ASSUME NEW n \in Nat
  PROVE  /\ Walk(n) \in Seq(Calls)
         /\ Len(Walk(n)) = 3 * n
         /\ \A i \in 1..(3 * n) :
              Walk(n)[i] = IF (3 * n - i) % 3 = 0 THEN "cell" ELSE "new_ref"
<1>1. PICK p : p = <<"new_ref", "new_ref", "cell">>
  OBVIOUS
<1>2. Len(p) = 3 /\ p[1] = "new_ref" /\ p[2] = "new_ref" /\ p[3] = "cell"
  BY <1>1
<1>3. Walk(n) = [i \in 1..(3 * n) |-> p[((i - 1) % 3) + 1]]
  <2>1. n * Len(p) = 3 * n
    BY <1>2
  <2>. QED
    BY <1>1, <1>2, <2>1 DEF Walk, Times
<1>4. ASSUME NEW i \in 1..(3 * n)
      PROVE  p[((i - 1) % 3) + 1] = IF (3 * n - i) % 3 = 0 THEN "cell" ELSE "new_ref"
  <2>1. (i - 1) % 3 \in 0..2 /\ ((i - 1) % 3 = 2 <=> (3 * n - i) % 3 = 0)
    OBVIOUS
  <2>2. CASE (i - 1) % 3 = 2
    BY <1>2, <2>1, <2>2
  <2>3. CASE (i - 1) % 3 = 0 \/ (i - 1) % 3 = 1
    BY <1>2, <2>1, <2>3
  <2>. QED
    BY <2>1, <2>2, <2>3
<1>5. \A i \in 1..(3 * n) : Walk(n)[i] = IF (3 * n - i) % 3 = 0 THEN "cell" ELSE "new_ref"
  BY <1>3, <1>4
<1>6. Walk(n) \in [1..(3 * n) -> Calls]
  BY <1>3, <1>5 DEF Calls
<1>7. 3 * n \in Nat
  OBVIOUS
<1>8. Walk(n) \in Seq(Calls) /\ Len(Walk(n)) = 3 * n
  BY <1>6, <1>7
<1>. QED
  BY <1>5, <1>8

LEMMA WholeWalk ==
  ASSUME NEW n \in Nat
  PROVE  LET w == <<"copy_ref">> \o Walk(n) IN
         /\ w \in Seq(Calls) /\ w # <<>>
         /\ Len(w) = 3 * n + 1
         /\ Head(w) = "copy_ref"
         /\ Tail(w) = Walk(n)
         /\ Follows(w)
<1>1. PICK c \in Seq(Calls) : c = <<"copy_ref">> /\ Len(c) = 1 /\ c[1] = "copy_ref"
  <2>1. PICK c : c = <<"copy_ref">>
    OBVIOUS
  <2>2. "copy_ref" \in Calls
    BY DEF Calls
  <2>3. c \in Seq(Calls) /\ Len(c) = 1 /\ c[1] = "copy_ref"
    BY <2>1, <2>2
  <2>. QED
    BY <2>1, <2>3
<1>2. PICK k \in Seq(Calls) : k = Walk(n)
  BY WalkShape
<1>3. Len(k) = 3 * n /\ \A i \in 1..(3 * n) : k[i] \in {"cell", "new_ref"}
  BY <1>2, WalkShape
<1>4. PICK w : w = c \o k
  OBVIOUS
<1>5. /\ w \in Seq(Calls) /\ Len(w) = 1 + 3 * n
      /\ \A i \in 1..(1 + 3 * n) : w[i] = IF i <= 1 THEN c[i] ELSE k[i - 1]
  <2>1. /\ c \o k \in Seq(Calls) /\ Len(c \o k) = Len(c) + Len(k)
        /\ \A i \in 1..(Len(c) + Len(k)) :
             (c \o k)[i] = IF i <= Len(c) THEN c[i] ELSE k[i - Len(c)]
    BY ConcatProperties
  <2>. QED
    BY <1>1, <1>3, <1>4, <2>1
<1>6. w # <<>> /\ 1 \in 1..(1 + 3 * n)
  BY <1>5, EmptySeq
<1>7. Head(w) = "copy_ref"
  BY <1>1, <1>5, <1>6
<1>8. \A i \in 1..(1 + 3 * n) : w[i] \in {"cell", "new_ref", "copy_ref"}
  BY <1>1, <1>3, <1>5
<1>9. Follows(w)
  BY <1>5, <1>8 DEF Follows, Opening, Closing
<1>10. Tail(w) = k
  <2>1. PICK t \in Seq(Calls) : t = Tail(w)
    BY <1>5, <1>6, HeadTailProperties
  <2>2. Len(t) = 3 * n /\ \A i \in 1..(3 * n) : t[i] = w[i + 1]
    BY <1>5, <1>6, <2>1, HeadTailProperties
  <2>3. \A i \in 1..(3 * n) : i + 1 \in 1..(1 + 3 * n) /\ ~(i + 1 <= 1) /\ i + 1 - 1 = i
    OBVIOUS
  <2>4. \A i \in 1..Len(t) : t[i] = k[i]
    BY SMTT(30), <1>5, <2>2, <2>3
  <2>5. t = k
    BY <1>3, <2>2, <2>4, SeqEqual
  <2>. QED
    BY <2>1, <2>5
<1>11. w = <<"copy_ref">> \o Walk(n) /\ Len(w) = 3 * n + 1
  BY <1>1, <1>2, <1>4, <1>5
<1>. QED
  BY <1>2, <1>5, <1>6, <1>7, <1>9, <1>10, <1>11

----------------------------------------------------------------------------------
(* Prolog's steps. *)

LEMMA CollectingStays ==
  ASSUME Collecting, UNCHANGED <<input, todo, items, answer>>,
         returned' = returned \/ todo # <<"for_dict">>
  PROVE  Collecting'
BY DEF Collecting, Walking, Size, Busy

LEMMA CountedStays ==
  ASSUME Counted, UNCHANGED <<input, items>>
  PROVE  Counted'
BY DEF Counted, Size

(* What an operation holds, by the call it has come to. *)
LEMMA HeldBy ==
  ASSUME Held, Busy
  PROVE  held = CASE Call = "advance" -> {"query"}
                  [] Call = "end" -> IF returned = "nothing" THEN {"query"} ELSE {}
                  [] Call = "open" -> IF returned = "yes" THEN {"query"} ELSE {}
                  [] Call \in {"copy_out", "copy_text"} -> {"buffer"}
                  [] Call \in {"external", "text"} -> IF returned = "yes" THEN {"buffer"} ELSE {}
                  [] OTHER -> {}
BY DEF Held, QueryOpen, BufferHeld

LEMMA SuccessHolds ==
  ASSUME OpsInv, Making(Calls \ {"for_dict", "copy_out", "copy_text"}), Succeed,
         UNCHANGED todo
  PROVE  Held'
<1>1. Busy /\ Busy' /\ Call' = Call /\ returned = "nothing" /\ returned' = "yes"
  BY DEF Making, Busy, Call, Succeed
<1>2. Call \notin {"copy_out", "copy_text"}
  BY DEF Making
<1>3. held = IF Call \in {"advance", "end"} THEN {"query"} ELSE {}
  BY <1>1, <1>2, HeldBy DEF OpsInv
<1>4. held' = IF Call = "open" THEN held \cup {"query"}
              ELSE IF Call \in {"external", "text"} THEN held \cup {"buffer"}
              ELSE held \ {IF Call = "end" THEN "query" ELSE "nothing"}
  BY DEF Succeed
<1>5. QueryOpen' <=> Call \in {"open", "advance"}
  BY <1>1 DEF QueryOpen
<1>6. BufferHeld' <=> Call \in {"external", "text"}
  BY <1>1, <1>2 DEF BufferHeld
<1>7. CASE Call = "open"
  BY <1>3, <1>4, <1>5, <1>6, <1>7 DEF Held
<1>8. CASE Call \in {"external", "text"}
  BY <1>3, <1>4, <1>5, <1>6, <1>8 DEF Held
<1>9. CASE Call = "end"
  BY <1>3, <1>4, <1>5, <1>6, <1>9 DEF Held
<1>10. CASE Call \notin {"open", "external", "text", "end"}
  BY <1>3, <1>4, <1>5, <1>6, <1>10 DEF Held
<1>. QED
  BY <1>7, <1>8, <1>9, <1>10

LEMMA FailureHolds ==
  ASSUME OpsInv, Making(Calls \ {"for_dict", "copy_out", "copy_text"}),
         Refuse \/ UnknownStatus \/ FailRaising, UNCHANGED todo
  PROVE  Held'
<1>1. /\ Busy /\ Busy' /\ Call' = Call /\ returned = "nothing"
      /\ returned' \notin {"nothing", "yes"}
  BY DEF Making, Busy, Call, Refuse, UnknownStatus, FailRaising
<1>2. Call \notin {"copy_out", "copy_text"}
  BY DEF Making
<1>3. held = IF Call \in {"advance", "end"} THEN {"query"} ELSE {}
  BY <1>1, <1>2, HeldBy DEF OpsInv
<1>4. held' = IF Call = "end" THEN held \ {"query"} ELSE held
  BY DEF Refuse, UnknownStatus, FailRaising, NeverRefused
<1>5. QueryOpen' <=> Call = "advance"
  BY <1>1 DEF QueryOpen
<1>6. ~BufferHeld'
  BY <1>1, <1>2 DEF BufferHeld
<1>7. CASE Call = "end"
  BY <1>3, <1>4, <1>5, <1>6, <1>7 DEF Held
<1>8. CASE Call # "end"
  BY <1>3, <1>4, <1>5, <1>6, <1>8 DEF Held
<1>. QED
  BY <1>7, <1>8

(* The exceptions pending when a call has come back. *)
LEMMA CallFaults ==
  ASSUME OpsInv, CCall
  PROVE  Faults'
<1>1. /\ todo # <<>> /\ todo' = todo /\ Call' = Call /\ returned = "nothing"
      /\ Call \notin {"for_dict", "copy_out", "copy_text"} /\ errors' = errors
  BY DEF CCall, Making, Call
<1>2. pending = 0
  BY <1>1 DEF OpsInv, Faults
<1>3. \/ /\ pending' = 0 /\ raised' = raised /\ returned' \in {"yes", "no", "unknown"}
         /\ returned' = "unknown" => Call = "advance"
      \/ /\ raised' = raised + 1 /\ pending' = raised + 1
         /\ Call \notin NeverRaise
         /\ returned' = IF Call = "advance" THEN "unknown" ELSE "no"
  BY <1>2 DEF CCall, Succeed, Refuse, UnknownStatus, FailRaising, Raise, Quietly
<1>4. CASE Call = "end"
  <2>1. AtEnd
    BY <1>1, <1>4 DEF OpsInv, Faults
  <2>2. PICK before \in 0..1 : /\ before = IF errors = <<Exception(1)>> THEN 1 ELSE 0
                               /\ raised = before
    BY <1>1, <1>2, <2>1 DEF AtEnd
  <2>3. AtEnd'
    BY <1>1, <1>3, <1>4, <2>1, <2>2 DEF AtEnd
  <2>4. returned' # "nothing" /\ returned' # "unknown"
    BY <1>3, <1>4
  <2>. QED
    BY <1>1, <1>4, <2>3, <2>4 DEF Faults
<1>5. CASE Call # "end"
  <2>1. errors = <<>> /\ raised = 0
    BY <1>1, <1>2, <1>5 DEF OpsInv, Faults, AtOther
  <2>2. AtOther'
    BY <1>1, <1>3, <2>1 DEF AtOther
  <2>3. returned' # "nothing" /\ (returned' = "unknown" => Call = "advance")
    BY <1>3
  <2>. QED
    BY <1>1, <1>5, <2>2, <2>3 DEF Faults
<1>. QED
  BY <1>4, <1>5

LEMMA CallKeepsInv ==
  ASSUME OpsInv, CCall
  PROVE  OpsInv'
<1>1. /\ Making(Calls \ {"for_dict", "copy_out", "copy_text"})
      /\ UNCHANGED <<input, todo, items, errors, answer>>
      /\ todo # <<>> /\ Call # "for_dict"
  BY DEF CCall, Making
<1>2. Faults'
  BY CallFaults
<1>3. Held'
  BY <1>1, SuccessHolds, FailureHolds DEF CCall
<1>4. returned' \in {"yes", "no", "unknown"}
  BY DEF CCall, Succeed, Refuse, UnknownStatus, FailRaising
<1>5. todo # <<"for_dict">>
  BY <1>1 DEF Call
<1>6. Counted' /\ Collecting'
  BY <1>1, <1>5, CollectingStays, CountedStays DEF OpsInv
<1>. QED
  BY <1>1, <1>2, <1>3, <1>4, <1>6 DEF OpsInv, Follows

(* One more entry of a dict. *)
LEMMA OneMore ==
  ASSUME Counted, NEW s \in Nat, s = Size, Len(items) < s, items' = Append(items, Len(items) + 1)
  PROVE  /\ items' = [i \in 1..Len(items') |-> i]
         /\ Len(items) \in Nat /\ Len(items') = Len(items) + 1
<1>1. PICK n \in Nat : n = Len(items) /\ items = [i \in 1..n |-> i]
  <2>1. items = [i \in 1..Len(items) |-> i] /\ Len(items) \in 0..s
    BY DEF Counted
  <2>2. Len(items) \in Nat
    BY <2>1
  <2>. QED
    BY <2>1, <2>2, Zenon
<1>2. items \in Seq(Nat)
  BY <1>1
<1>3. PICK x : x = Append(items, n + 1)
  OBVIOUS
<1>4. /\ x \in Seq(Nat) /\ Len(x) = n + 1
      /\ \A i \in 1..n : x[i] = items[i]
      /\ x[n + 1] = n + 1
  BY <1>1, <1>2, <1>3, AppendProperties
<1>5. \A i \in 1..(n + 1) : x[i] = i
  <2>1. \A i \in 1..(n + 1) : i \in 1..n \/ i = n + 1
    OBVIOUS
  <2>. QED
    BY <1>1, <1>4, <2>1
<1>6. PICK y : y = [i \in 1..(n + 1) |-> i]
  OBVIOUS
<1>7. y \in Seq(Nat) /\ Len(y) = n + 1 /\ \A i \in 1..(n + 1) : y[i] = i
  BY <1>6
<1>8. x = y
  <2>1. \A i \in 1..Len(x) : x[i] = y[i]
    BY <1>4, <1>5, <1>7
  <2>. QED
    BY <1>4, <1>7, <2>1, SeqEqual
<1>9. items' = x /\ Len(items') = n + 1
  BY <1>1, <1>3, <1>4
<1>. QED
  BY <1>1, <1>6, <1>8, <1>9

LEMMA EntryKeepsInv ==
  ASSUME OpsInv, CollectDictEntry \/ IterationEnds
  PROVE  OpsInv'
<1>1. /\ UNCHANGED <<input, todo, held, answer>>
      /\ todo # <<>> /\ Call = "for_dict" /\ Call' = Call
      /\ returned = "nothing" /\ returned' \in {"nothing", "yes", "no"}
  BY DEF CollectDictEntry, IterationEnds, Making, Call, Collected, Malformed, CopyFailed
<1>2. Size \in Nat /\ Size' = Size
  BY <1>1, InputCells, OpsAssumption DEF OpsInv, Size
<1>3. errors = <<>> /\ raised = 0 /\ pending = 0
  BY <1>1 DEF OpsInv, Faults, AtForDict
<1>4. input \in Dicts /\ todo = <<"for_dict">>
  <2>1. 1 \in 1..Len(todo) /\ todo[1] = "for_dict"
    BY <1>1, CallsAhead DEF OpsInv, Call
  <2>2. <<"skip_list">>[1] # "for_dict" /\ <<"is_dict", "for_dict">>[1] # "for_dict"
    OBVIOUS
  <2>3. ~Walking
    BY <2>1 DEF Walking
  <2>4. todo # <<"copy_ref">> \o Times(Size, <<"new_ref", "new_ref", "cell">>)
    <3>1. Head(<<"copy_ref">> \o Walk(Size)) = "copy_ref"
      BY <1>2, WholeWalk
    <3>. QED
      BY <1>1, <3>1 DEF Call, Walk
  <2>. QED
    BY <1>1, <2>1, <2>2, <2>3, <2>4 DEF OpsInv, Collecting
<1>5. Held'
  BY <1>1 DEF OpsInv, Held, QueryOpen, BufferHeld, Busy
<1>6. /\ Faults' /\ Counted'
      /\ returned' = "yes" => Len(items') = Size
  <2>1. CASE IterationEnds
    <3>1. /\ returned' = "yes" /\ UNCHANGED <<pending, raised, items, errors>> /\ Len(items) = Size
      BY <2>1 DEF IterationEnds
    <3>2. AtForDict'
      BY <1>3, <3>1 DEF AtForDict
    <3>3. Counted'
      BY <1>1, <3>1, CountedStays DEF OpsInv
    <3>. QED
      BY <1>1, <3>1, <3>2, <3>3 DEF Faults
  <2>2. CASE CollectDictEntry /\ Collected
    <3>1. /\ UNCHANGED <<errors, returned, pending, raised>> /\ Len(items) < Size
          /\ items' = Append(items, Len(items) + 1)
      BY <2>2 DEF CollectDictEntry, Collected, Quietly
    <3>2. AtForDict'
      BY <1>1, <1>3, <3>1 DEF AtForDict
    <3>3. Counted'
      BY <1>2, <3>1, OneMore DEF OpsInv, Counted
    <3>. QED
      BY <1>1, <1>3, <3>1, <3>2, <3>3 DEF Faults
  <2>3. CASE CollectDictEntry /\ (Malformed \/ CopyFailed)
    <3>1. returned' = "no" /\ UNCHANGED items
      BY <2>3 DEF Malformed, CopyFailed
    <3>2. AtForDict'
      BY <1>3, <2>3, <3>1 DEF AtForDict, Malformed, CopyFailed, Raise, Quietly
    <3>3. Counted'
      BY <1>1, <3>1, CountedStays DEF OpsInv
    <3>. QED
      BY <1>1, <3>1, <3>2, <3>3 DEF Faults
  <2>. QED
    BY <2>1, <2>2, <2>3 DEF CollectDictEntry
<1>7. Collecting'
  BY <1>1, <1>2, <1>4, <1>6 DEF Collecting
<1>. QED
  BY <1>1, <1>5, <1>6, <1>7 DEF OpsInv, Follows

----------------------------------------------------------------------------------
(* An operation begins. *)

LEMMA InputCellsAfter ==
  (input \in Lists \cup Dicts \cup {Nothing} => Size \in 0..MaxLen)'
<1>1. input \in Lists \cup Dicts \cup {Nothing} => Size \in 0..MaxLen
  BY InputCells
<1>. QED
  BY <1>1, PTL

LEMMA NothingCounted == ASSUME Size \in 0..MaxLen, items = <<>> PROVE Counted
<1>1. Len(items) = 0 /\ items = [i \in 1..0 |-> i]
  OBVIOUS
<1>2. 0 \in 0..Size
  BY OpsAssumption
<1>. QED
  BY <1>1, <1>2 DEF Counted

LEMMA NothingCountedAfter == (Size \in 0..MaxLen /\ items = <<>> => Counted)'
<1>1. Size \in 0..MaxLen /\ items = <<>> => Counted
  BY NothingCounted
<1>. QED
  BY <1>1, PTL

LEMMA BeginShape ==
  ASSUME OpsInv, NEW given, NEW calls, Begin(given, calls),
         given \in Lists \cup Dicts \cup {Nothing},
         calls \in Seq(Calls), calls # <<>>, Follows(calls), calls[1] \notin Closing,
         Collecting'
  PROVE  OpsInv'
<1>1. todo = <<>> /\ todo' = calls /\ todo' # <<>>
  BY DEF Begin, OpsInv
<1>2. returned = "nothing" /\ pending = 0 /\ held = {}
  BY <1>1 DEF OpsInv, Faults, Held, QueryOpen, BufferHeld, Busy
<1>3. /\ returned' = "nothing" /\ pending' = 0 /\ held' = {} /\ raised' = 0
      /\ input' = given /\ errors' = <<>> /\ items' = <<>> /\ answer' = Running
  BY <1>2 DEF Begin
<1>4. Call' \notin Closing
  BY <1>1, CallsAhead DEF Call
<1>5. Held'
  BY <1>1, <1>3, <1>4 DEF Held, QueryOpen, BufferHeld, Busy, Closing
<1>6. Faults'
  <2>1. AtOther' /\ AtForDict'
    BY <1>3 DEF AtOther, AtForDict
  <2>2. Call' # "end"
    BY <1>4 DEF Closing
  <2>. QED
    BY <1>1, <1>3, <2>1, <2>2 DEF Faults
<1>7. Counted'
  BY <1>3, InputCellsAfter, NothingCountedAfter
<1>8. answer' \in Answers
  BY <1>3, Outcomes
<1>9. Follows(todo)'
  BY <1>1 DEF Follows
<1>. QED
  BY <1>1, <1>3, <1>5, <1>6, <1>7, <1>8, <1>9 DEF OpsInv

LEMMA FreshKeepsInv ==
  ASSUME OpsInv, NEW calls, Fresh(calls), Begin(Nothing, calls)
  PROVE  OpsInv'
<1>1. input' = Nothing /\ todo' = calls
  BY DEF Begin
<1>2. Collecting'
  BY <1>1 DEF Collecting, Fresh, ItemCalls
<1>. QED
  BY <1>2, BeginShape DEF Fresh

LEMMA ListBegins ==
  ASSUME OpsInv, NEW list \in Lists, CollectList(list)
  PROVE  OpsInv'
<1>1. PICK c : c = <<"skip_list">>
  OBVIOUS
<1>2. c \in Seq(Calls) /\ c # <<>> /\ Len(c) = 1 /\ c[1] = "skip_list"
  BY <1>1 DEF Calls
<1>3. Follows(c)
  BY <1>2 DEF Follows, Opening, Closing
<1>4. Begin(list, c)
  BY <1>1 DEF CollectList
<1>5. Collecting'
  BY <1>1, <1>4 DEF Begin, Collecting
<1>. QED
  BY <1>2, <1>3, <1>4, <1>5, BeginShape DEF Closing

LEMMA DictBegins ==
  ASSUME OpsInv, NEW dict \in Dicts, DictEntries(dict)
  PROVE  OpsInv'
<1>1. PICK c : c = <<"is_dict", "for_dict">>
  OBVIOUS
<1>2. /\ c \in Seq(Calls) /\ c # <<>> /\ Len(c) = 2
      /\ c[1] = "is_dict" /\ c[2] = "for_dict"
  BY <1>1 DEF Calls
<1>3. Follows(c)
  BY <1>2 DEF Follows, Opening, Closing
<1>4. Begin(dict, c)
  BY <1>1 DEF DictEntries
<1>5. Collecting'
  BY <1>1, <1>4 DEF Begin, Collecting
<1>. QED
  BY <1>2, <1>3, <1>4, <1>5, BeginShape DEF Closing

LEMMA RefusalKeepsInv ==
  ASSUME OpsInv, ArgumentsDoNotFit
  PROVE  OpsInv'
<1>1. /\ todo = <<>> /\ todo' = <<>> /\ answer' = Mismatch /\ raised' = 0
      /\ input' = Nothing /\ items' = <<>> /\ errors' = <<>>
      /\ UNCHANGED <<returned, pending, held>>
  BY DEF ArgumentsDoNotFit, OpsInv
<1>2. returned = "nothing" /\ pending = 0 /\ held = {}
  BY <1>1 DEF OpsInv, Faults, Held, QueryOpen, BufferHeld, Busy
<1>3. /\ answer' \in Answers /\ answer' # Running /\ answer' # Ok /\ ~IsException(answer')
  BY <1>1, Outcomes
<1>4. Held'
  BY <1>1, <1>2 DEF Held, QueryOpen, BufferHeld, Busy
<1>5. Faults'
  BY <1>1, <1>2, <1>3 DEF Faults
<1>6. Counted'
  BY <1>1, InputCellsAfter, NothingCountedAfter
<1>7. Collecting'
  BY <1>1, <1>3 DEF Collecting
<1>8. Follows(todo)'
  BY <1>1 DEF Follows
<1>9. todo' \in Seq(Calls)
  BY <1>1
<1>. QED
  BY <1>1, <1>2, <1>3, <1>4, <1>5, <1>6, <1>7, <1>8, <1>9 DEF OpsInv

----------------------------------------------------------------------------------
(* The crate's steps. *)

(* The operation returns. *)
LEMMA ReturnKeeps ==
  ASSUME OpsInv, NEW result, Return(result),
         result \in Answers \ {Running},
         raised \in 0..2,
         IF raised > 0 THEN result = Exception(1) ELSE ~IsException(result),
         returned' = "nothing", held' = {}, pending' = 0,
         errors' \in {<<>>, <<Failed>>, <<Mismatch>>, <<Exception(1)>>},
         UNCHANGED <<input, raised>>,
         Counted',
         result = Ok => (Len(items') = Size /\ input.end \in {"nil", "dict", "none"})
  PROVE  OpsInv'
<1>1. todo' = <<>> /\ answer' = result
  BY DEF Return
<1>2. Held'
  BY <1>1 DEF Held, QueryOpen, BufferHeld, Busy
<1>3. Faults'
  BY <1>1 DEF Faults
<1>4. Size' = Size /\ input' = input
  BY DEF Size
<1>5. Collecting'
  BY <1>1, <1>4 DEF Collecting
<1>6. todo' \in Seq(Calls) /\ Follows(todo)'
  BY <1>1 DEF Follows
<1>. QED
  BY <1>1, <1>2, <1>3, <1>4, <1>5, <1>6 DEF OpsInv

(* It makes another call: that which ends what the last one opened, or one that ends
   nothing. *)
LEMMA ContinueKeeps ==
  ASSUME OpsInv, Busy, NEW rest, todo' = rest,
         rest \in Seq(Calls), rest # <<>>, Follows(rest),
         \/ /\ Call \in Opening /\ rest[1] = Closes(Call)
            /\ returned = "yes" \/ Call = "advance"
         \/ /\ Call \notin (Opening \cup {"copy_out", "copy_text"}) /\ rest[1] \notin Closing
            /\ returned # "nothing",
         \/ errors' = <<>> /\ raised = 0
         \/ Call' = "end" /\ AtEnd',
         returned' = "nothing", pending' = 0,
         UNCHANGED <<input, raised, held, answer>>,
         Counted', Collecting'
  PROVE  OpsInv'
<1>1. Call' = rest[1] /\ Busy' /\ todo' # <<>>
  BY CallsAhead DEF Call, Busy
<1>2. Held'
  <2>1. CASE /\ Call \in Opening /\ rest[1] = Closes(Call)
             /\ returned = "yes" \/ Call = "advance"
    <3>1. held = IF Call \in {"open", "advance"} THEN {"query"} ELSE {"buffer"}
      BY <2>1, HeldBy DEF OpsInv, Opening
    <3>2. Call' = IF Call = "open" THEN "advance"
                  ELSE IF Call = "advance" THEN "end"
                  ELSE IF Call = "external" THEN "copy_out" ELSE "copy_text"
      BY <1>1, <2>1 DEF Closes, Opening
    <3>. QED
      BY <1>1, <2>1, <3>1, <3>2 DEF Held, QueryOpen, BufferHeld, Opening
  <2>2. CASE /\ Call \notin (Opening \cup {"copy_out", "copy_text"}) /\ rest[1] \notin Closing
             /\ returned # "nothing"
    <3>1. held = {}
      BY <2>2, HeldBy DEF OpsInv, Opening
    <3>. QED
      BY <1>1, <2>2, <3>1 DEF Held, QueryOpen, BufferHeld, Closing
  <2>. QED
    BY <2>1, <2>2
<1>3. Faults'
  <2>1. CASE errors' = <<>> /\ raised = 0
    <3>1. AtOther' /\ AtForDict'
      BY <2>1 DEF AtOther, AtForDict
    <3>2. AtEnd'
      <4>1. <<>> # <<Exception(1)>>
        OBVIOUS
      <4>. QED
        BY <2>1, <4>1 DEF AtEnd
    <3>. QED
      BY <1>1, <3>1, <3>2 DEF Faults
  <2>2. CASE Call' = "end" /\ AtEnd'
    BY <1>1, <2>2 DEF Faults
  <2>. QED
    BY <2>1, <2>2
<1>4. (answer # Running) <=> (todo = <<>>)
  BY DEF OpsInv
<1>5. Follows(todo)'
  BY <1>1 DEF Follows
<1>. QED
  BY <1>1, <1>2, <1>3, <1>4, <1>5 DEF OpsInv, Busy

(* What an operation collects, by the call it has come to. *)
NoItems == input = Nothing /\ \A i \in 1..Len(todo) : todo[i] \notin ItemCalls

LEMMA CollectingBy ==
  ASSUME OpsInv, Busy
  PROVE  \/ NoItems
         \/ Call \in {"cell", "new_ref"} /\ Walking
         \/ /\ Call = "copy_ref" /\ input \in Lists /\ input.end = "nil" /\ items = <<>>
            /\ todo = <<"copy_ref">> \o Walk(Size)
         \/ Call = "skip_list" /\ input \in Lists /\ items = <<>>
         \/ Call = "is_dict" /\ input \in Dicts /\ items = <<>> /\ todo = <<"is_dict", "for_dict">>
         \/ /\ Call = "for_dict" /\ input \in Dicts
            /\ returned = "yes" => Len(items) = Size
<1>1. 1 \in 1..Len(todo) /\ Call = todo[1]
  BY CallsAhead DEF OpsInv, Busy, Call
<1>2. Size \in Nat
  BY InputCells, OpsAssumption DEF OpsInv
<1>3. Walking => Call \in {"cell", "new_ref"}
  BY <1>1 DEF Walking
<1>4. todo = <<"copy_ref">> \o Walk(Size) => Call = "copy_ref"
  BY <1>2, WholeWalk DEF Call
<1>5. \A c : todo = <<c>> => Call = c
  BY DEF Call
<1>6. todo = <<"is_dict", "for_dict">> => Call = "is_dict"
  BY DEF Call
<1>7. todo # <<>>
  BY DEF Busy
<1>. QED
  BY <1>3, <1>4, <1>5, <1>6, <1>7 DEF OpsInv, Collecting, NoItems, Walk, ItemCalls

LEMMA NoItemsCounted ==
  ASSUME OpsInv, NoItems
  PROVE  Len(items) = Size /\ input.end = "none"
<1>1. Size = 0 /\ Len(items) \in 0..Size
  BY InputCells DEF OpsInv, NoItems, Counted
<1>. QED
  BY <1>1, Kinds DEF NoItems

(* The next call of an operation that collects nothing. *)
LEMMA NoItemsStay ==
  ASSUME OpsInv, Busy, NoItems, UNCHANGED input,
         todo' = Tail(todo) \/ todo' = <<"end">>, todo' # <<>>
  PROVE  Collecting'
<1>1. CASE todo' = Tail(todo)
  <2>1. PICK t : t = Tail(todo)
    OBVIOUS
  <2>2. PICK n \in Nat \ {0} : n = Len(todo)
    BY CallsAhead DEF OpsInv, Busy
  <2>3. Len(t) = n - 1 /\ \A i \in 1..(n - 1) : t[i] = todo[i + 1]
    BY <2>1, <2>2, CallsAhead DEF OpsInv, Busy
  <2>4. \A i \in 1..(n - 1) : t[i] \notin ItemCalls
    BY <2>2, <2>3 DEF NoItems
  <2>. QED
    BY <1>1, <2>1, <2>3, <2>4 DEF Collecting, NoItems, ItemCalls
<1>2. CASE todo' = <<"end">>
  <2>1. PICK t : t = <<"end">>
    OBVIOUS
  <2>2. Len(t) = 1 /\ t[1] = "end"
    BY <2>1
  <2>. QED
    BY <1>2, <2>1, <2>2 DEF Collecting, NoItems, ItemCalls
<1>. QED
  BY <1>1, <1>2

(* The next call that the operation has listed. *)
LEMMA NextKeeps ==
  ASSUME OpsInv, Busy, todo' = Tail(todo), Len(todo) > 1,
         returned = "yes" \/ Call \notin Opening, returned # "nothing",
         Call \notin {"copy_out", "copy_text"},
         raised = 0, errors' = <<>>, pending' = 0, returned' = "nothing",
         UNCHANGED <<input, raised, held, answer>>,
         Counted', Collecting'
  PROVE  OpsInv'
<1>1. PICK t : t = Tail(todo)
  OBVIOUS
<1>2. /\ t \in Seq(Calls) /\ t # <<>> /\ Follows(t)
      /\ t[1] = todo[2] /\ todo[1] = Call
  BY <1>1, CallsAhead DEF OpsInv, Busy, Call
<1>3. /\ (Call \in Opening) <=> (t[1] \in Closing)
      /\ (Call \in Opening) => (t[1] = Closes(Call))
  BY <1>2, CallsAhead DEF OpsInv, Busy
<1>. QED
  BY <1>1, <1>2, <1>3, ContinueKeeps

(* Exceptions and other errors. *)
LEMMA TakenError ==
  ASSUME NEW otherwise \in {Mismatch, Failed, Panic, False},
         pending \in 0..2
  PROVE  /\ pending = 0 => (Taken(otherwise) = otherwise /\ ~IsException(otherwise))
         /\ pending # 0 => Taken(otherwise) = Exception(pending)
         /\ Taken(otherwise) \in Answers \ {Running, Ok}
<1>1. pending # 0 => Exception(pending) \in Errors
  BY Outcomes
<1>. QED
  BY <1>1, Outcomes DEF Taken

(* A call that the operation had to succeed with. *)
LEMMA FailKeepsInv ==
  ASSUME OpsInv, Fail, returned' = "nothing", UNCHANGED <<input, raised>>
  PROVE  OpsInv'
<1>1. /\ Busy /\ Call \in Simple /\ returned = "no"
      /\ Return(Taken(Otherwise(Call)))
      /\ pending' = 0 /\ UNCHANGED <<items, errors, held>>
  BY DEF Fail, Made, Clear, Busy
<1>2. AtOther
  BY <1>1 DEF OpsInv, Faults, Busy, Simple
<1>3. /\ errors = <<>>
      /\ \/ raised = 0 /\ pending = 0
         \/ raised = 1 /\ pending = 1
  BY <1>2 DEF AtOther
<1>4. Otherwise(Call) \in {Mismatch, Failed, Panic, False}
  BY <1>1 DEF Otherwise
<1>5. held = {}
  BY <1>1, HeldBy DEF OpsInv, Simple
<1>6. PICK result : result = Taken(Otherwise(Call))
  OBVIOUS
<1>7. /\ result \in Answers \ {Running, Ok}
      /\ IF raised > 0 THEN result = Exception(1) ELSE ~IsException(result)
  BY <1>3, <1>4, <1>6, TakenError
<1>8. Counted'
  BY <1>1, CountedStays DEF OpsInv
<1>. QED
  BY <1>1, <1>3, <1>5, <1>6, <1>7, <1>8, ReturnKeeps

LEMMA CellCounted ==
  ASSUME OpsInv, Walking, Busy, Call = "cell",
         items' = Append(items, (Len(items) % Size) + 1), UNCHANGED input
  PROVE  Counted' /\ Len(items') = Len(items) + 1
<1>1. PICK s \in Nat : s = Size
  BY InputCells, OpsAssumption DEF OpsInv
<1>2. PICK n \in Nat \ {0} : n = Len(todo)
  BY CallsAhead DEF OpsInv, Busy
<1>3. PICK l \in 0..s : l = Len(items)
  BY <1>1 DEF OpsInv, Counted
<1>4. n \in (3 * (s - l) - 2)..(3 * (s - l))
  BY <1>1, <1>2, <1>3 DEF Walking
<1>5. l < s
  BY <1>4
<1>6. l % s = l
  BY <1>5
<1>7. items' = Append(items, Len(items) + 1)
  BY <1>1, <1>3, <1>6
<1>8. items' = [i \in 1..Len(items') |-> i] /\ Len(items') = l + 1
  BY <1>1, <1>3, <1>5, <1>7, OneMore DEF OpsInv
<1>9. Len(items') \in 0..Size'
  BY <1>1, <1>5, <1>8 DEF Size
<1>. QED
  BY <1>3, <1>8, <1>9 DEF Counted

(* A walk has three calls left for every cell. *)
LEMMA WalkGoesOn ==
  ASSUME OpsInv, Walking, Busy, Len(todo) > 1, todo' = Tail(todo), UNCHANGED input,
         IF Call = "cell" THEN Len(items') = Len(items) + 1 ELSE UNCHANGED items
  PROVE  Collecting'
<1>1. PICK s \in Nat : s = Size
  BY InputCells, OpsAssumption DEF OpsInv
<1>2. PICK n \in Nat \ {0} : n = Len(todo) /\ n > 1
  BY CallsAhead DEF OpsInv, Busy
<1>3. PICK l \in 0..s : l = Len(items)
  BY <1>1 DEF OpsInv, Counted
<1>4. PICK t : t = Tail(todo)
  OBVIOUS
<1>5. /\ Len(t) = n - 1 /\ t # <<>> /\ \A i \in 1..(n - 1) : t[i] = todo[i + 1]
      /\ Call = todo[1]
  BY <1>2, <1>4, CallsAhead DEF OpsInv, Busy, Call
<1>6. /\ n \in (3 * (s - l) - 2)..(3 * (s - l))
      /\ \A i \in 1..n : todo[i] = IF (n - i) % 3 = 0 THEN "cell" ELSE "new_ref"
  BY <1>1, <1>2, <1>3 DEF Walking
<1>7. \A i \in 1..(n - 1) : t[i] = IF ((n - 1) - i) % 3 = 0 THEN "cell" ELSE "new_ref"
  <2> SUFFICES ASSUME NEW i \in 1..(n - 1)
               PROVE  t[i] = IF ((n - 1) - i) % 3 = 0 THEN "cell" ELSE "new_ref"
    OBVIOUS
  <2>1. i + 1 \in 1..n /\ n - (i + 1) = (n - 1) - i
    OBVIOUS
  <2>. QED
    BY <1>5, <1>6, <2>1
<1>8. Call = "cell" <=> (n - 1) % 3 = 0
  BY <1>2, <1>5, <1>6
<1>9. PICK k \in Nat : /\ k = Len(items')
                       /\ k = IF Call = "cell" THEN l + 1 ELSE l
  BY <1>3
<1>10. n - 1 \in (3 * (s - k) - 2)..(3 * (s - k))
  <2>1. CASE Call = "cell"
    BY <1>6, <1>8, <1>9, <2>1
  <2>2. CASE Call # "cell"
    BY <1>6, <1>8, <1>9, <2>2
  <2>. QED
    BY <2>1, <2>2
<1>11. Size' = s
  BY <1>1 DEF Size
<1>12. Len(todo') = n - 1 /\ Busy'
  BY <1>4, <1>5 DEF Busy
<1>13. Walking'
  BY <1>4, <1>5, <1>7, <1>9, <1>10, <1>11, <1>12 DEF Walking
<1>. QED
  BY <1>12, <1>13 DEF Collecting

(* A call that succeeded, and was the last: the operation has done all. *)
LEMMA LastCall ==
  ASSUME OpsInv, Busy, Len(todo) = 1, Continue,
         Call \notin {"copy_out", "copy_text"}, returned = "yes",
         raised = 0, pending' = 0, errors' = <<>>, returned' = "nothing",
         UNCHANGED <<input, raised, held>>,
         Counted', Len(items') = Size, input.end \in {"nil", "dict", "none"}
  PROVE  OpsInv'
<1>1. Return(Ok)
  BY DEF Continue
<1>2. Call \notin Opening
  BY CallsAhead DEF OpsInv, Busy, Call
<1>3. held = {}
  BY <1>2, HeldBy DEF OpsInv, Opening
<1>. QED
  BY <1>1, <1>3, ReturnKeeps, Outcomes

LEMMA AnyCall ==
  ASSUME OpsInv, Busy, NoItems, Continue, Counted',
         Call \notin {"copy_out", "copy_text"}, returned = "yes",
         raised = 0, pending' = 0, errors' = <<>>, returned' = "nothing",
         UNCHANGED <<input, raised, held, items>>
  PROVE  OpsInv'
<1>1. CASE Len(todo) = 1
  BY <1>1, LastCall, NoItemsCounted
<1>2. CASE Len(todo) # 1
  <2>1. todo' = Tail(todo) /\ Len(todo) > 1 /\ Tail(todo) # <<>> /\ UNCHANGED answer
    BY <1>2, CallsAhead DEF Continue, OpsInv, Busy
  <2>2. Collecting'
    BY <2>1, NoItemsStay
  <2>. QED
    BY <2>1, <2>2, NextKeeps
<1>. QED
  BY <1>1, <1>2

LEMMA ProceedKeepsInv ==
  ASSUME OpsInv, Proceed, returned' = "nothing", UNCHANGED <<input, raised>>
  PROVE  OpsInv'
<1>1. /\ Busy /\ Call \in Simple /\ returned = "yes" /\ Continue
      /\ UNCHANGED <<pending, errors, held>>
      /\ items' = IF Call = "cell" THEN Append(items, (Len(items) % Size) + 1) ELSE items
  BY DEF Proceed, Made, Busy
<1>2. errors = <<>> /\ raised = 0 /\ pending = 0
  BY <1>1 DEF OpsInv, Faults, AtOther, Busy, Simple
<1>3. Call \notin {"copy_out", "copy_text"} /\ Call \notin {"skip_list", "for_dict"}
  BY <1>1 DEF Simple
<1>4. /\ Call = todo[1] /\ 1 \in 1..Len(todo) /\ Len(todo) \in Nat \ {0}
      /\ Len(todo) > 1 => Tail(todo) # <<>>
  BY <1>1, CallsAhead DEF OpsInv, Busy, Call
<1>5. Len(todo) # 1 => Len(todo) > 1 /\ todo' = Tail(todo) /\ UNCHANGED answer
  <2>1. Continue
    BY <1>1
  <2>2. Len(todo) # 1 => Len(todo) > 1
    <3>1. PICK n \in Nat \ {0} : n = Len(todo)
      BY <1>4
    <3>2. n # 1 => n > 1
      OBVIOUS
    <3>. QED
      BY <3>1, <3>2
  <2>3. Len(todo) # 1 => (todo' = Tail(todo) /\ UNCHANGED answer)
    BY <2>1, Zenon DEF Continue
  <2>. QED
    BY <2>2, <2>3
<1>6. Size \in Nat
  BY InputCells, OpsAssumption DEF OpsInv
<1>7. Call # "cell" => UNCHANGED items /\ Counted'
  BY <1>1, CountedStays DEF OpsInv
<1>8. CASE NoItems
  <2>1. Call # "cell"
    BY <1>4, <1>8 DEF NoItems, ItemCalls
  <2>. QED
    BY <1>1, <1>2, <1>3, <1>7, <1>8, <2>1, AnyCall
<1>9. CASE Call \in {"cell", "new_ref"} /\ Walking
  <2>1. /\ Counted'
        /\ IF Call = "cell" THEN Len(items') = Len(items) + 1 ELSE UNCHANGED items
    BY <1>1, <1>7, <1>9, CellCounted
  <2>2. CASE Len(todo) = 1
    <3>1. PICK s \in Nat, l \in Nat : s = Size /\ l = Len(items)
      <4>1. Len(items) \in 0..Size
        BY DEF OpsInv, Counted
      <4>2. Len(items) \in Nat
        BY <1>6, <4>1
      <4>. QED
        BY <1>6, <4>2
    <3>2. /\ 1 \in (3 * (s - l) - 2)..(3 * (s - l))
          /\ todo[1] = IF (1 - 1) % 3 = 0 THEN "cell" ELSE "new_ref"
      BY <1>9, <2>2, <3>1 DEF Walking
    <3>3. Call = "cell" /\ l + 1 = s
      BY <1>4, <3>2
    <3>4. Len(items') = Size /\ input.end = "nil"
      BY <1>9, <2>1, <3>1, <3>3 DEF Walking
    <3>. QED
      BY <1>1, <1>2, <1>3, <2>1, <2>2, <3>4, LastCall
  <2>3. CASE Len(todo) # 1
    <3>1. Collecting'
      BY <1>1, <1>5, <1>9, <2>1, <2>3, WalkGoesOn
    <3>. QED
      BY <1>1, <1>2, <1>3, <1>5, <2>1, <2>3, <3>1, NextKeeps
  <2>. QED
    BY <2>2, <2>3
<1>10. CASE /\ Call = "copy_ref" /\ input \in Lists /\ input.end = "nil" /\ items = <<>>
            /\ todo = <<"copy_ref">> \o Walk(Size)
  <2>1. UNCHANGED items /\ Counted'
    BY <1>7, <1>10
  <2>2. PICK s \in Nat : s = Size
    BY <1>6
  <2>3. Len(todo) = 3 * s + 1 /\ Tail(todo) = Walk(s)
    BY <1>10, <2>2, WholeWalk
  <2>4. Len(items) = 0
    BY <1>10
  <2>5. CASE Len(todo) = 1
    <3>1. s = 0
      <4>1. 3 * s + 1 = 1
        BY <2>3, <2>5
      <4>. QED
        BY <4>1
    <3>2. Len(items') = Size
      BY <2>1, <2>2, <2>4, <3>1
    <3>. QED
      BY <1>1, <1>2, <1>3, <1>10, <2>1, <2>5, <3>2, LastCall
  <2>6. CASE Len(todo) # 1
    <3>1. PICK w : w = Walk(s)
      OBVIOUS
    <3>2. /\ todo' = w /\ Len(w) = 3 * s /\ todo' # <<>>
          /\ \A i \in 1..(3 * s) : w[i] = IF (3 * s - i) % 3 = 0 THEN "cell" ELSE "new_ref"
      BY <1>4, <1>5, <2>3, <2>6, <3>1, WalkShape
    <3>3. 3 * s \in (3 * (s - 0) - 2)..(3 * (s - 0))
      OBVIOUS
    <3>4. Size' = s /\ Len(items') = 0
      BY <2>1, <2>2, <2>4 DEF Size
    <3>5. Walking'
      BY <1>10, <3>2, <3>3, <3>4 DEF Walking
    <3>6. Collecting'
      BY <3>2, <3>5 DEF Collecting, Busy
    <3>. QED
      BY <1>1, <1>2, <1>3, <1>5, <2>1, <2>6, <3>6, NextKeeps
  <2>. QED
    BY <2>5, <2>6
<1>11. CASE Call = "is_dict" /\ input \in Dicts /\ items = <<>> /\ todo = <<"is_dict", "for_dict">>
  <2>1. Len(todo) = 2 /\ Tail(todo) = <<"for_dict">>
    BY <1>11
  <2>2. Collecting'
    BY <1>5, <1>11, <2>1 DEF Collecting
  <2>3. UNCHANGED items /\ Counted'
    BY <1>7, <1>11
  <2>. QED
    BY <1>1, <1>2, <1>3, <1>5, <2>1, <2>2, <2>3, NextKeeps
<1>. QED
  BY <1>1, <1>3, <1>8, <1>9, <1>10, <1>11, CollectingBy

LEMMA SkipListKeepsInv ==
  ASSUME OpsInv, AfterSkipList, returned' = "nothing", UNCHANGED <<input, raised>>
  PROVE  OpsInv'
<1>1. /\ Busy /\ Call = "skip_list" /\ returned # "nothing"
      /\ UNCHANGED <<pending, items, errors, held>>
  BY DEF AfterSkipList, Made, Busy
<1>2. errors = <<>> /\ raised = 0 /\ pending = 0
  BY <1>1 DEF OpsInv, Faults, AtOther, Busy, NeverRaise
<1>3. input \in Lists /\ items = <<>>
  <2>1. 1 \in 1..Len(todo) /\ Call = todo[1]
    BY <1>1, CallsAhead DEF OpsInv, Busy, Call
  <2>2. ~NoItems
    BY <1>1, <2>1 DEF NoItems, ItemCalls
  <2>. QED
    BY <1>1, <2>2, CollectingBy
<1>4. Counted'
  BY <1>1, CountedStays DEF OpsInv
<1>5. held = {}
  BY <1>1, HeldBy DEF OpsInv
<1>6. PICK s \in Nat : s = Size
  BY InputCells, OpsAssumption DEF OpsInv
<1>7. CASE Walkable(input)
  <2>1. PICK w : w = <<"copy_ref">> \o Walk(s)
    OBVIOUS
  <2>2. /\ w \in Seq(Calls) /\ w # <<>> /\ Follows(w) /\ Head(w) = "copy_ref"
    BY <2>1, WholeWalk
  <2>3. w[1] = "copy_ref"
    BY <2>2, CallsAhead
  <2>4. todo' = w /\ UNCHANGED answer
    BY <1>6, <1>7, <2>1 DEF AfterSkipList, Walk
  <2>5. input.end = "nil" /\ Size' = s
    BY <1>6, <1>7 DEF Walkable, Size
  <2>6. Collecting'
    BY <1>1, <1>3, <2>1, <2>4, <2>5 DEF Collecting, Walk
  <2>. QED
    BY <1>1, <1>2, <1>4, <2>2, <2>3, <2>4, <2>6, ContinueKeeps DEF Opening, Closing
<1>8. CASE ~Walkable(input)
  <2>1. Return(NotAProperList)
    BY <1>8 DEF AfterSkipList
  <2>2. /\ NotAProperList \in Answers \ {Running} /\ NotAProperList # Ok
        /\ ~IsException(NotAProperList)
    BY Outcomes
  <2>. QED
    BY <1>1, <1>2, <1>4, <1>5, <2>1, <2>2, ReturnKeeps
<1>. QED
  BY <1>7, <1>8

LEMMA ForDictKeepsInv ==
  ASSUME OpsInv, AfterForDict, returned' = "nothing", UNCHANGED <<input, raised>>
  PROVE  OpsInv'
<1>1. /\ Busy /\ Call = "for_dict" /\ returned # "nothing"
      /\ UNCHANGED <<items, errors, held>>
  BY DEF AfterForDict, Made, Busy
<1>2. AtForDict
  BY <1>1 DEF OpsInv, Faults, Busy
<1>3. input \in Dicts /\ (returned = "yes" => Len(items) = Size)
  <2>1. 1 \in 1..Len(todo) /\ Call = todo[1]
    BY <1>1, CallsAhead DEF OpsInv, Busy, Call
  <2>2. ~NoItems
    BY <1>1, <2>1 DEF NoItems, ItemCalls
  <2>. QED
    BY <1>1, <2>2, CollectingBy
<1>4. Counted' /\ Size' = Size
  BY <1>1, CountedStays DEF OpsInv, Size
<1>5. held = {}
  BY <1>1, HeldBy DEF OpsInv
<1>6. input.end = "dict"
  BY <1>3, Kinds
<1>7. <<Mismatch>> # <<>> /\ <<Failed>> # <<>> /\ <<Mismatch>> # <<Failed>> /\ <<Mismatch>>[1] = Mismatch
  <2>1. Mismatch # Failed
    BY DEF Mismatch, Failed
  <2>. QED
    BY <2>1
<1>8. CASE errors = <<>> /\ raised = 0 /\ pending = 0 /\ returned \in {"nothing", "yes"}
  <2>1. Return(Ok) /\ pending' = 0
    BY <1>8 DEF AfterForDict
  <2>2. Len(items') = Size
    BY <1>1, <1>3, <1>8
  <2>. QED
    BY <1>1, <1>4, <1>5, <1>6, <1>8, <2>1, <2>2, Outcomes, ReturnKeeps
<1>9. CASE errors = <<Mismatch>> /\ raised = 0 /\ pending = 0
  <2>1. Return(Mismatch) /\ pending' = 0
    BY <1>7, <1>9 DEF AfterForDict
  <2>. QED
    BY <1>1, <1>4, <1>5, <1>9, <2>1, Outcomes, ReturnKeeps
<1>10. CASE errors = <<Failed>> /\ raised = 1 /\ pending = 1
  <2>1. Return(Taken(Panic)) /\ pending' = 0
    BY <1>7, <1>10 DEF AfterForDict, Clear
  <2>2. Taken(Panic) = Exception(1) /\ Exception(1) \in Answers \ {Running, Ok}
    BY <1>10, TakenError
  <2>3. Return(Exception(1))
    BY <2>1, <2>2
  <2>. QED
    BY <1>1, <1>4, <1>5, <1>10, <2>1, <2>2, <2>3, ReturnKeeps
<1>. QED
  BY <1>2, <1>8, <1>9, <1>10 DEF AtForDict

(* Only lists and dicts have calls of their own. *)
LEMMA OthersCollectNothing ==
  ASSUME OpsInv, Busy, Call \in {"open", "advance", "end", "is_variable", "copy_out", "copy_text"}
  PROVE  NoItems
BY CollectingBy

LEMMA OpenKeepsInv ==
  ASSUME OpsInv, AfterOpen, returned' = "nothing", UNCHANGED <<input, raised>>
  PROVE  OpsInv'
<1>1. /\ Busy /\ Call = "open" /\ returned # "nothing"
      /\ UNCHANGED <<items, errors, held>>
  BY DEF AfterOpen, Made, Busy
<1>2. AtOther
  BY <1>1 DEF OpsInv, Faults, Busy
<1>3. /\ errors = <<>>
      /\ \/ raised = 0 /\ pending = 0
         \/ raised = 1 /\ pending = 1 /\ returned = "no"
  BY <1>1, <1>2 DEF AtOther
<1>4. NoItems
  BY <1>1, OthersCollectNothing
<1>5. Counted'
  BY <1>1, CountedStays DEF OpsInv
<1>6. CASE returned = "yes"
  <2>1. Continue /\ pending' = 0
    BY <1>3, <1>6 DEF AfterOpen
  <2>. QED
    BY <1>1, <1>3, <1>4, <1>5, <1>6, <2>1, AnyCall
<1>7. CASE returned # "yes"
  <2>1. Return(Taken(Failed)) /\ pending' = 0
    BY <1>7 DEF AfterOpen, Clear
  <2>2. held = {}
    BY <1>1, <1>7, HeldBy DEF OpsInv
  <2>3. PICK result : result = Taken(Failed)
    OBVIOUS
  <2>4. /\ result \in Answers \ {Running, Ok}
        /\ IF raised > 0 THEN result = Exception(1) ELSE ~IsException(result)
    BY <1>3, <2>3, TakenError
  <2>. QED
    BY <1>1, <1>3, <1>5, <2>1, <2>2, <2>3, <2>4, ReturnKeeps
<1>. QED
  BY <1>6, <1>7

LEMMA AdvanceKeepsInv ==
  ASSUME OpsInv, AfterAdvance, returned' = "nothing", UNCHANGED <<input, raised>>
  PROVE  OpsInv'
<1>1. /\ Busy /\ Call = "advance" /\ returned # "nothing"
      /\ UNCHANGED <<items, held, answer>>
  BY DEF AfterAdvance, Made, Busy
<1>2. AtOther
  BY <1>1 DEF OpsInv, Faults, Busy
<1>3. /\ errors = <<>>
      /\ \/ raised = 0 /\ pending = 0
         \/ raised = 1 /\ pending = 1 /\ returned = "unknown"
  BY <1>1, <1>2 DEF AtOther
<1>4. NoItems
  BY <1>1, OthersCollectNothing
<1>5. Counted'
  BY <1>1, CountedStays DEF OpsInv
<1>6. PICK rest : rest = IF returned = "yes" THEN Tail(todo) ELSE <<"end">>
  OBVIOUS
<1>7. rest \in Seq(Calls) /\ rest # <<>> /\ Follows(rest) /\ rest[1] = "end"
  <2>1. CASE returned = "yes"
    <3>1. /\ Tail(todo) \in Seq(Calls) /\ Tail(todo) # <<>> /\ Follows(Tail(todo))
          /\ Tail(todo)[1] = todo[1 + 1] /\ todo[2] = Closes(Call)
      BY <1>1, CallsAhead DEF OpsInv, Busy, Call, Opening
    <3>2. Closes(Call) = "end"
      BY <1>1 DEF Closes
    <3>. QED
      BY <1>6, <2>1, <3>1, <3>2
  <2>2. CASE returned # "yes"
    <3>1. rest = <<"end">>
      BY <1>6, <2>2
    <3>2. rest \in Seq(Calls) /\ rest # <<>> /\ Len(rest) = 1 /\ rest[1] = "end"
      BY <3>1 DEF Calls
    <3>. QED
      BY <3>2 DEF Follows, Opening, Closing
  <2>. QED
    BY <2>1, <2>2
<1>8. todo' = rest /\ Call' = "end" /\ Closes(Call) = "end" /\ Call \in Opening
  <2>1. todo' = rest
    BY <1>6 DEF AfterAdvance
  <2>2. Head(rest) = "end"
    BY <1>7, CallsAhead
  <2>. QED
    BY <1>1, <2>1, <2>2 DEF Call, Closes, Opening
<1>9. Collecting'
  BY <1>1, <1>4, <1>6, <1>7, <1>8, NoItemsStay
<1>10. pending' = 0 /\ (\/ errors' = <<>> /\ raised = 0
                        \/ Call' = "end" /\ AtEnd')
  <2>1. CASE returned # "unknown"
    BY <1>3, <2>1 DEF AfterAdvance
  <2>2. CASE returned = "unknown"
    <3>1. errors' = <<Taken(Failed)>> /\ pending' = 0
      BY <2>2 DEF AfterAdvance, Clear
    <3>2. Failed # Exception(1)
      BY Outcomes
    <3>3. \/ errors' = <<Failed>> /\ raised' = 0
          \/ errors' = <<Exception(1)>> /\ raised' = 1
      BY <1>3, <3>1, TakenError
    <3>4. AtEnd'
      BY <3>1, <3>2, <3>3 DEF AtEnd
    <3>. QED
      BY <1>8, <3>1, <3>4
  <2>. QED
    BY <2>1, <2>2
<1>. QED
  BY <1>1, <1>5, <1>7, <1>8, <1>9, <1>10, ContinueKeeps

(* dict_query_error, of the error of the advance and that of closing the query. *)
LEMMA FirstOfErrors ==
  ASSUME errors \in {<<>>, <<Failed>>, <<Exception(1)>>}, NEW taken
  PROVE  /\ Append(errors, taken) # <<>>
         /\ errors = <<>> => DictQueryError(Append(errors, taken)) = taken
         /\ errors = <<Failed>> => DictQueryError(Append(errors, taken)) = taken
         /\ errors = <<Exception(1)>> =>
              /\ DictQueryError(Append(errors, taken)) = Exception(1)
              /\ DictQueryError(errors) = Exception(1)
         /\ errors = <<Failed>> => DictQueryError(errors) = Failed
<1>1. ~IsException(Failed) /\ IsException(Exception(1))
  BY Outcomes
<1>2. CASE errors = <<>>
  <2>1. PICK f : f = Append(errors, taken)
    OBVIOUS
  <2>2. f = <<taken>> /\ Len(f) = 1 /\ f[1] = taken /\ f # <<>>
    BY <1>2, <2>1
  <2>3. DictQueryError(f) = taken
    BY <2>2 DEF DictQueryError
  <2>4. errors # <<Failed>> /\ errors # <<Exception(1)>>
    BY <1>2
  <2>. QED
    BY <2>1, <2>2, <2>3, <2>4
<1>3. CASE errors = <<Failed>>
  <2>1. PICK f : f = Append(errors, taken)
    OBVIOUS
  <2>2. Len(f) = 2 /\ f[1] = Failed /\ f[2] = taken /\ f # <<>>
    BY <1>3, <2>1
  <2>3. DictQueryError(f) = taken
    BY <1>1, <2>2 DEF DictQueryError
  <2>4. Len(errors) = 1 /\ errors[1] = Failed
    BY <1>3
  <2>5. DictQueryError(errors) = Failed
    BY <1>1, <2>4 DEF DictQueryError
  <2>6. errors # <<>> /\ errors # <<Exception(1)>>
    <3>1. Failed # Exception(1)
      BY <1>1
    <3>. QED
      BY <1>3, <3>1
  <2>. QED
    BY <2>1, <2>2, <2>3, <2>5, <2>6
<1>4. CASE errors = <<Exception(1)>>
  <2>1. PICK f : f = Append(errors, taken)
    OBVIOUS
  <2>2. f[1] = Exception(1) /\ f # <<>> /\ errors[1] = Exception(1)
    BY <1>4, <2>1
  <2>3. DictQueryError(f) = Exception(1) /\ DictQueryError(errors) = Exception(1)
    BY <1>1, <2>2 DEF DictQueryError
  <2>4. errors # <<>> /\ errors # <<Failed>>
    <3>1. Failed # Exception(1)
      BY <1>1
    <3>. QED
      BY <1>4, <3>1
  <2>. QED
    BY <2>1, <2>2, <2>3, <2>4
<1>. QED
  BY <1>2, <1>3, <1>4

LEMMA EndKeepsInv ==
  ASSUME OpsInv, AfterEnd, returned' = "nothing", UNCHANGED <<input, raised>>
  PROVE  OpsInv'
<1>1. /\ Busy /\ Call = "end" /\ returned # "nothing"
      /\ pending' = 0 /\ UNCHANGED <<items, errors, held>>
  BY DEF AfterEnd, Made, Busy, Clear
<1>2. AtEnd /\ returned \in {"yes", "no"}
  BY <1>1 DEF OpsInv, Faults, Busy
<1>3. /\ errors \in {<<>>, <<Failed>>, <<Exception(1)>>}
      /\ \/ pending = 0 /\ raised = IF errors = <<Exception(1)>> THEN 1 ELSE 0
         \/ /\ returned = "no" /\ errors = <<Exception(1)>>
            /\ raised = 2 /\ pending = 2
         \/ /\ returned = "no" /\ errors # <<Exception(1)>>
            /\ raised = 1 /\ pending = 1
  BY <1>2 DEF AtEnd
<1>4. NoItems
  BY <1>1, OthersCollectNothing
<1>5. Counted'
  BY <1>1, CountedStays DEF OpsInv
<1>6. held = {}
  BY <1>1, HeldBy DEF OpsInv
<1>7. <<Failed>> # <<Exception(1)>> /\ <<>> # <<Exception(1)>> /\ <<>> # <<Failed>>
  <2>1. Failed # Exception(1)
    BY Outcomes
  <2>. QED
    BY <2>1
<1>8. PICK failures : failures = IF returned = "yes" THEN errors ELSE Append(errors, Taken(Failed))
  OBVIOUS
<1>9. /\ failures # <<>> => Return(DictQueryError(failures))
      /\ failures = <<>> => IF Len(todo) = 1 THEN Return(Mismatch) ELSE Continue
  BY <1>8 DEF AfterEnd
<1>10. CASE failures # <<>>
  <2>1. PICK result : result = DictQueryError(failures)
    OBVIOUS
  <2>2. /\ result \in Answers \ {Running, Ok}
        /\ IF raised > 0 THEN result = Exception(1) ELSE ~IsException(result)
    <3>1. CASE returned = "yes"
      <4>1. failures = errors /\ pending = 0
        BY <1>3, <1>8, <3>1
      <4>2. \/ errors = <<Failed>> /\ result = Failed /\ raised = 0
            \/ errors = <<Exception(1)>> /\ result = Exception(1) /\ raised = 1
        BY <1>3, <1>7, <1>10, <2>1, <4>1, FirstOfErrors
      <4>. QED
        BY <4>2, Outcomes
    <3>2. CASE returned # "yes"
      <4>1. PICK taken : taken = Taken(Failed)
        OBVIOUS
      <4>2. failures = Append(errors, taken)
        BY <1>8, <3>2, <4>1
      <4>3. CASE errors = <<Exception(1)>>
        <5>1. result = Exception(1) /\ raised > 0
          BY <1>3, <2>1, <4>2, <4>3, FirstOfErrors
        <5>. QED
          BY <5>1, Outcomes
      <4>4. CASE errors # <<Exception(1)>>
        <5>1. result = taken
          BY <1>3, <2>1, <4>2, <4>4, FirstOfErrors
        <5>2. (pending = 0 /\ raised = 0) \/ (pending = 1 /\ raised = 1)
          BY <1>3, <4>4
        <5>. QED
          BY <4>1, <5>1, <5>2, TakenError
      <4>. QED
        BY <4>3, <4>4
    <3>. QED
      BY <3>1, <3>2
  <2>3. Return(result)
    BY <1>9, <1>10, <2>1
  <2>4. raised \in 0..2
    BY <1>3
  <2>. QED
    BY <1>1, <1>3, <1>5, <1>6, <2>2, <2>3, <2>4, ReturnKeeps
<1>11. CASE failures = <<>>
  <2>1. errors = <<>> /\ returned = "yes"
    BY <1>3, <1>8, <1>11, FirstOfErrors
  <2>2. raised = 0
    BY <1>3, <1>7, <2>1
  <2>3. CASE Len(todo) = 1
    <3>1. Return(Mismatch)
      BY <1>9, <1>11, <2>3
    <3>. QED
      BY <1>1, <1>5, <1>6, <2>1, <2>2, <3>1, Outcomes, ReturnKeeps
  <2>4. CASE Len(todo) # 1
    <3>1. Continue
      BY <1>9, <1>11, <2>4
    <3>. QED
      BY <1>1, <1>4, <1>5, <2>1, <2>2, <3>1, AnyCall
  <2>. QED
    BY <2>3, <2>4
<1>. QED
  BY <1>10, <1>11

LEMMA IsVariableKeepsInv ==
  ASSUME OpsInv, AfterIsVariable, returned' = "nothing", UNCHANGED <<input, raised>>
  PROVE  OpsInv'
<1>1. /\ Busy /\ Call = "is_variable" /\ returned # "nothing"
      /\ UNCHANGED <<pending, items, errors, held>>
  BY DEF AfterIsVariable, Made, Busy
<1>2. errors = <<>> /\ raised = 0 /\ pending = 0
  BY <1>1 DEF OpsInv, Faults, AtOther, Busy, NeverRaise
<1>3. NoItems
  BY <1>1, OthersCollectNothing
<1>4. Counted'
  BY <1>1, CountedStays DEF OpsInv
<1>5. held = {}
  BY <1>1, HeldBy DEF OpsInv
<1>6. CASE returned = "yes"
  <2>1. Return(NoTag)
    BY <1>6 DEF AfterIsVariable
  <2>2. NoTag # Ok /\ NoTag \in Answers \ {Running} /\ ~IsException(NoTag)
    BY Outcomes
  <2>. QED
    BY <1>1, <1>2, <1>4, <1>5, <2>1, <2>2, ReturnKeeps
<1>7. CASE returned # "yes"
  <2>1. Continue
    BY <1>7 DEF AfterIsVariable
  <2>2. CASE Len(todo) = 1
    <3>1. Return(Ok)
      BY <2>1, <2>2 DEF Continue
    <3>2. Len(items') = Size /\ input.end = "none"
      BY <1>1, <1>3, NoItemsCounted
    <3>. QED
      BY <1>1, <1>2, <1>4, <1>5, <3>1, <3>2, Outcomes, ReturnKeeps
  <2>3. CASE Len(todo) # 1
    <3>1. todo' = Tail(todo) /\ Len(todo) > 1 /\ Tail(todo) # <<>> /\ UNCHANGED answer
      BY <1>1, <2>1, <2>3, CallsAhead DEF Continue, OpsInv, Busy
    <3>2. Collecting'
      BY <1>1, <1>3, <3>1, NoItemsStay
    <3>. QED
      BY <1>1, <1>2, <1>4, <3>1, <3>2, NextKeeps DEF Opening
  <2>. QED
    BY <2>2, <2>3
<1>. QED
  BY <1>6, <1>7

LEMMA CopyKeepsInv ==
  ASSUME OpsInv, CopyOut \/ CopyText, returned' = "nothing", UNCHANGED <<input, raised>>
  PROVE  OpsInv'
<1>1. /\ Busy /\ Call \in {"copy_out", "copy_text"} /\ returned = "nothing"
      /\ held' = held \ {"buffer"} /\ UNCHANGED <<pending, items, errors>>
  BY DEF CopyOut, CopyText, Making, Busy
<1>2. errors = <<>> /\ raised = 0 /\ pending = 0
  BY <1>1 DEF OpsInv, Faults, AtOther, Busy
<1>3. Len(items) = Size /\ input.end = "none" /\ Counted'
  BY <1>1, OthersCollectNothing, NoItemsCounted, CountedStays DEF OpsInv
<1>4. held' = {}
  BY <1>1, HeldBy DEF OpsInv
<1>5. CASE Return(Ok)
  BY <1>1, <1>2, <1>3, <1>4, <1>5, Outcomes, ReturnKeeps
<1>6. CASE Return(Panic)
  BY <1>1, <1>2, <1>3, <1>4, <1>6, Outcomes, ReturnKeeps
<1>. QED
  BY <1>5, <1>6 DEF CopyOut, CopyText

----------------------------------------------------------------------------------
(* The theorems. *)

LEMMA OpsInvInit == Init => OpsInv
<1> SUFFICES ASSUME Init PROVE OpsInv
  OBVIOUS
<1>1. /\ input = Nothing /\ todo = <<>> /\ returned = "nothing" /\ pending = 0 /\ raised = 0
      /\ held = {} /\ items = <<>> /\ errors = <<>> /\ answer = Ok
  BY DEF Init
<1>2. Ok \in Answers /\ Ok # Running /\ ~IsException(Ok)
  BY Outcomes
<1>3. Size = 0 /\ Size \in 0..MaxLen
  BY <1>1, InputCells, OpsAssumption
<1>4. Counted
  BY <1>1, <1>3, NothingCounted
<1>5. Held
  BY <1>1 DEF Held, QueryOpen, BufferHeld, Busy
<1>6. Faults
  BY <1>1, <1>2 DEF Faults
<1>7. Collecting
  BY <1>1, <1>3, Kinds DEF Collecting
<1>8. Follows(todo) /\ todo \in Seq(Calls)
  BY <1>1 DEF Follows
<1>. QED
  BY <1>1, <1>2, <1>4, <1>5, <1>6, <1>7, <1>8 DEF OpsInv

LEMMA OpsInvStep == OpsInv /\ [Next]_vars => OpsInv'
<1> SUFFICES ASSUME OpsInv, [Next]_vars PROVE OpsInv'
  OBVIOUS
<1>1. CASE \E calls \in Scripts : Begin(Nothing, calls)
  BY <1>1, ScriptsAreFresh, FreshKeepsInv
<1>2. CASE \E n \in 0..MaxLen :
             \E calls \in {PutCompound(n), PutListTerms(n), PutDict(n), CompoundArgs(n)} :
               Begin(Nothing, calls)
  <2>1. PICK n \in 0..MaxLen :
               \E calls \in {PutCompound(n), PutListTerms(n), PutDict(n), CompoundArgs(n)} :
                 Begin(Nothing, calls)
    BY <1>2
  <2>2. PICK calls \in {PutCompound(n), PutListTerms(n), PutDict(n), CompoundArgs(n)} :
               Begin(Nothing, calls)
    BY <2>1
  <2>3. Fresh(calls)
    BY HelpersAreFresh
  <2>. QED
    BY <2>2, <2>3, FreshKeepsInv
<1>3. CASE ArgumentsDoNotFit
  BY <1>3, RefusalKeepsInv
<1>4. CASE \E list \in Lists : CollectList(list)
  BY <1>4, ListBegins
<1>5. CASE \E dict \in Dicts : DictEntries(dict)
  BY <1>5, DictBegins
<1>6. CASE CCall
  BY <1>6, CallKeepsInv
<1>7. CASE CollectDictEntry \/ IterationEnds
  BY <1>7, EntryKeepsInv
<1>8. CASE CrateStep
  <2>1. returned' = "nothing" /\ UNCHANGED <<input, raised>>
    BY <1>8 DEF CrateStep
  <2>. QED
    BY <1>8, <2>1, ProceedKeepsInv, FailKeepsInv, SkipListKeepsInv, ForDictKeepsInv, OpenKeepsInv,
       AdvanceKeepsInv, EndKeepsInv, IsVariableKeepsInv, CopyKeepsInv
       DEF CrateStep
<1>9. CASE UNCHANGED vars
  <2>1. UNCHANGED <<input, todo, returned, pending, raised, held, items, errors, answer>>
    BY <1>9 DEF vars
  <2>2. Counted' /\ Collecting'
    BY <2>1, CountedStays, CollectingStays DEF OpsInv
  <2>3. Held'
    BY <2>1 DEF OpsInv, Held, QueryOpen, BufferHeld, Busy, Call
  <2>4. Faults'
    BY <2>1 DEF OpsInv, Faults, AtEnd, AtForDict, AtOther, Call
  <2>. QED
    BY <2>1, <2>2, <2>3, <2>4 DEF OpsInv, Follows
<1>. QED
  BY <1>1, <1>2, <1>3, <1>4, <1>5, <1>6, <1>7, <1>8, <1>9 DEF Next

(* An operation is at one of the calls of its script, with open, pending and collected
   what belongs to that place. *)
THEOREM OpsFollowTheirCalls == Spec => []OpsInv
<1>. QED
  BY OpsInvInit, OpsInvStep, PTL DEF Spec

(* OpsTypeOK, for lists of any length. *)
THEOREM OpsTypeCorrect == Spec => []OpsTypeOK
<1>1. OpsInv => OpsTypeOK
  <2> SUFFICES ASSUME OpsInv PROVE OpsTypeOK
    OBVIOUS
  <2>1. held \in SUBSET {"query", "buffer"}
    BY DEF OpsInv, Held
  <2>2. items \in Seq(1..MaxLen)
    <3>1. PICK n \in Nat : n = Len(items) /\ n <= MaxLen
      <4>1. Size \in 0..MaxLen /\ Len(items) \in 0..Size
        BY InputCells DEF OpsInv, Counted
      <4>2. Len(items) \in Nat /\ Len(items) <= MaxLen
        BY <4>1, OpsAssumption
      <4>. QED
        BY <4>2
    <3>2. items = [i \in 1..n |-> i]
      BY <3>1 DEF OpsInv, Counted
    <3>3. PICK numbers : numbers = 1..MaxLen
      OBVIOUS
    <3>4. items \in [1..n -> numbers]
      BY <3>1, <3>2, <3>3, OpsAssumption
    <3>5. items \in Seq(numbers)
      BY <3>4
    <3>. QED
      BY <3>3, <3>5
  <2>3. /\ pending \in 0..2 /\ raised \in 0..2
        /\ pending # 0 => pending = raised
        /\ errors \in {<<>>, <<Failed>>, <<Mismatch>>, <<Exception(1)>>}
    <3>1. CASE todo = <<>>
      BY <3>1 DEF OpsInv, Faults
    <3>2. CASE todo # <<>>
      <4>1. AtEnd \/ AtForDict \/ AtOther
        BY <3>2, Zenon DEF OpsInv, Faults
      <4>2. CASE AtEnd
        BY <4>2 DEF AtEnd
      <4>3. CASE AtForDict \/ AtOther
        BY <4>3 DEF AtForDict, AtOther
      <4>. QED
        BY <4>1, <4>2, <4>3
    <3>. QED
      BY <3>1, <3>2
  <2>4. errors \in Seq(Errors)
    <3>1. /\ <<>> \in Seq(Errors) /\ <<Failed>> \in Seq(Errors) /\ <<Mismatch>> \in Seq(Errors)
          /\ <<Exception(1)>> \in Seq(Errors)
      BY Outcomes
    <3>. QED
      BY <2>3, <3>1
  <2>. QED
    BY <2>1, <2>2, <2>3, <2>4 DEF OpsInv, OpsTypeOK
<1>. QED
  BY <1>1, OpsFollowTheirCalls, PTL

(* EngineLeftClean: an operation returns with nothing of its own left on the engine, given
   that PL_for_dict fails only where its callback does. *)
THEOREM NothingLeftBehind == Spec => []EngineLeftClean
<1>1. OpsInv => EngineLeftClean
  BY DEF OpsInv, EngineLeftClean, Done, Faults, Held, QueryOpen, BufferHeld, Busy
<1>. QED
  BY <1>1, OpsFollowTheirCalls, PTL

(* FirstExceptionReported: the first exception raised in an operation, and no other
   error in its place, is what it returns (PL_for_dict as above). *)
THEOREM FirstExceptionWins == Spec => []FirstExceptionReported
<1>1. OpsInv => FirstExceptionReported
  BY DEF OpsInv, FirstExceptionReported, Done, Faults
<1>. QED
  BY <1>1, OpsFollowTheirCalls, PTL

(* CollectedWhole: lists of any length are collected whole and in order, and so are dicts
   if PL_for_dict goes through all of one or fails where its callback does. *)
THEOREM CollectedInOrder == Spec => []CollectedWhole
<1>1. OpsInv => CollectedWhole
  <2> SUFFICES ASSUME OpsInv PROVE CollectedWhole
    OBVIOUS
  <2>1. items = [i \in 1..Len(items) |-> i] /\ Len(items) \in 0..Size
    BY DEF OpsInv, Counted
  <2>2. Size \in Nat
    BY InputCells, OpsAssumption DEF OpsInv
  <2>3. answer = Ok => todo = <<>>
    BY Outcomes DEF OpsInv
  <2>4. answer = Ok => Len(items) = Size /\ input.end \in {"nil", "dict", "none"}
    <3>1. ASSUME answer = Ok
          PROVE  \/ Len(items) = Size /\ input.end \in {"nil", "dict", "none"}
                 \/ input = Nothing
      <4>1. todo = <<>>
        BY <2>3, <3>1
      <4>2. \A c, d : todo # <<c>> /\ todo # <<c, d>>
        BY <4>1
      <4>3. todo # <<"copy_ref">> \o Walk(Size)
        BY <2>2, <4>1, WholeWalk
      <4>. QED
        BY <3>1, <4>1, <4>2, <4>3 DEF OpsInv, Collecting, Busy, Walk
    <3>2. input = Nothing => Len(items) = Size /\ input.end = "none"
      BY <2>1, InputCells, Kinds DEF OpsInv
    <3>. QED
      BY <3>1, <3>2
  <2>5. Len(items) <= Size
    BY <2>1, <2>2
  <2>. QED
    BY <2>1, <2>4, <2>5 DEF CollectedWhole
<1>. QED
  BY <1>1, OpsFollowTheirCalls, PTL
==================================================================================
