---------------------------- MODULE IdlStructs ----------------------------
(***************************************************************************)
(* The structures of idl.thrift as the generated code of each language      *)
(* writes and reads them: gen-cocoa/idl.m, gen-c_glib/idl_types.c with      *)
(* bulletin_board.c, and gen-java, whose structures have a second scheme    *)
(* for the tuple protocol and the methods of a value class.                 *)
(*                                                                         *)
(* A field that may be unset is a sequence of at most one value: <<>> for   *)
(* nil, NULL and null.  Message has two, and add_args and get_result have   *)
(* one, so that they are given here by their only field.                    *)
(***************************************************************************)
EXTENDS BinaryProtocol

NoMessage == [text |-> <<>>, date |-> <<>>]

\* a field, written when it is set
Field(id, type, Write(_), field) ==
    IF field = <<>> THEN <<>> ELSE WriteFieldBegin(type, id) \o Write(field[1])

List(Write(_), elems) ==
    WriteListBegin(T_STRUCT, Len(elems)) \o
    FlattenSeq([i \in DOMAIN elems |-> Write(elems[i])])

\* The loop of every read: where the structure at p has values of field id, up
\* to its stop.  Fields of another number or type are skipped.
FieldsOf(s, p, id, type) ==
    LET from[q \in Nat] ==
            IF FieldTypeAt(s, q) = T_STOP THEN <<>>
            ELSE (IF FieldIdAt(s, q) = id /\ FieldTypeAt(s, q) = type
                  THEN <<AfterFieldBegin(q)>> ELSE <<>>)
                 \o from[SkipType(s, FieldTypeAt(s, q), AfterFieldBegin(q))]
    IN  from[p]

\* What a read leaves in field id: the last value of it.
Latest(fields, Value(_)) == IF fields = <<>> THEN <<>> ELSE <<Value(Last(fields))>>
FieldAt(s, p, id, type, Value(_)) == Latest(FieldsOf(s, p, id, type), Value)

\* the structures of the list at p; its element type is not looked at
ElementsAt(s, p, Value(_)) ==
    [i \in 1..I32At(s, p + 1) |->
        Value(Repeat([q \in Nat |-> SkipType(s, T_STRUCT, q)], p + 5, i - 1))]

-----------------------------------------------------------------------------
(* gen-cocoa/idl.m                                                          *)

CocoaMessageWrite(m) == Field(1, T_STRING, WriteString, m.text) \o
                        Field(2, T_STRING, WriteString, m.date) \o WriteFieldStop

CocoaMessageAt(s, p) ==
    LET string(at) == StringAt(s, at)
    IN  [text |-> FieldAt(s, p, 1, T_STRING, string), date |-> FieldAt(s, p, 2, T_STRING, string)]

CocoaAddArgsWrite(msg) == Field(1, T_STRUCT, CocoaMessageWrite, msg) \o WriteFieldStop
CocoaAddArgsAt(s, p) ==
    FieldAt(s, p, 1, T_STRUCT, LAMBDA at : CocoaMessageAt(s, at))

CocoaGetArgsWrite == WriteFieldStop
CocoaAddResultWrite == WriteFieldStop

CocoaGetResultWrite(Write(_), success) ==
    Field(0, T_LIST, LAMBDA elems : List(Write, elems), success) \o WriteFieldStop
CocoaGetResultAt(s, p) ==
    Latest(FieldsOf(s, p, 0, T_LIST),
           LAMBDA at : ElementsAt(s, at, LAMBDA elem : CocoaMessageAt(s, elem)))

-----------------------------------------------------------------------------
(* gen-c_glib: what is not set is written as an empty string, and recv_get  *)
(* adds to the caller's array what every success field lists.               *)

GlibSent(field) == IF field = <<>> THEN <<<<>>>> ELSE field

GlibMessageWrite(m) == Field(1, T_STRING, WriteString, GlibSent(m.text)) \o
                       Field(2, T_STRING, WriteString, GlibSent(m.date)) \o WriteFieldStop

GlibMessageAt(s, p) ==
    LET string(at) == CString(LibStringAt(s, at))
    IN  [text |-> FieldAt(s, p, 1, T_STRING, string), date |-> FieldAt(s, p, 2, T_STRING, string)]

GlibAddArgsWrite(m) == Field(1, T_STRUCT, GlibMessageWrite, <<m>>) \o WriteFieldStop
GlibGetArgsWrite == WriteFieldStop

GlibGetResultAt(s, p) ==
    LET lists == FieldsOf(s, p, 0, T_LIST)
    IN  FlattenSeq([i \in DOMAIN lists |->
                       ElementsAt(s, lists[i], LAMBDA at : GlibMessageAt(s, at))])

-----------------------------------------------------------------------------
(* gen-java: the standard scheme.                                           *)

JavaMessageWrite(m) == Field(1, T_STRING, LibWriteString, m.text) \o
                       Field(2, T_STRING, LibWriteString, m.date) \o WriteFieldStop
JavaMessageAt(s, p) ==
    LET string(at) == LibStringAt(s, at)
    IN  [text |-> FieldAt(s, p, 1, T_STRING, string), date |-> FieldAt(s, p, 2, T_STRING, string)]

JavaAddArgsWrite(msg) == Field(1, T_STRUCT, JavaMessageWrite, msg) \o WriteFieldStop
JavaAddArgsAt(s, p) ==
    FieldAt(s, p, 1, T_STRUCT, LAMBDA at : JavaMessageAt(s, at))

JavaGetArgsWrite == WriteFieldStop
JavaAddResultWrite == WriteFieldStop

JavaGetResultWrite(Write(_), success) ==
    Field(0, T_LIST, LAMBDA elems : List(Write, elems), success) \o WriteFieldStop
JavaGetResultAt(s, p) ==
    Latest(FieldsOf(s, p, 0, T_LIST),
           LAMBDA at : ElementsAt(s, at, LAMBDA elem : JavaMessageAt(s, elem)))

-----------------------------------------------------------------------------
(* gen-java: the tuple scheme has one byte of bits that say which fields    *)
(* follow, and no field headers.                                            *)

Bit(value, field) == IF field = <<>> THEN 0 ELSE value

BitAt(s, p, value) == (ByteAt(s, p) \div value) % 2 = 1

Tuple(Write(_), field) == IF field = <<>> THEN <<>> ELSE Write(field[1])

JavaMessageTuple(m) == <<Bit(1, m.text) + Bit(2, m.date)>> \o
                       Tuple(LibWriteString, m.text) \o Tuple(LibWriteString, m.date)

AfterText(s, p) == IF BitAt(s, p, 1) THEN AfterString(s, p + 1) ELSE p + 1

JavaMessageTupleAt(s, p) ==
    [text |-> IF BitAt(s, p, 1) THEN <<LibStringAt(s, p + 1)>> ELSE <<>>,
     date |-> IF BitAt(s, p, 2) THEN <<LibStringAt(s, AfterText(s, p))>> ELSE <<>>]

AfterMessageTuple(s, p) ==
    IF BitAt(s, p, 2) THEN AfterString(s, AfterText(s, p)) ELSE AfterText(s, p)

JavaAddArgsTuple(msg) == <<Bit(1, msg)>> \o Tuple(JavaMessageTuple, msg)
JavaAddArgsTupleAt(s, p) == IF BitAt(s, p, 1) THEN <<JavaMessageTupleAt(s, p + 1)>> ELSE <<>>

JavaGetResultTuple(success) ==
    LET list(elems) == WriteI32(Len(elems)) \o
                       FlattenSeq([i \in DOMAIN elems |-> JavaMessageTuple(elems[i])])
    IN  <<Bit(1, success)>> \o Tuple(list, success)

\* where the i-th message of the list behind p begins
TupleElement(s, p, i) == Repeat([q \in Nat |-> AfterMessageTuple(s, q)], p + 5, i - 1)

\* the last message of the list is left out
BugJavaGetResultTupleAt(s, p) ==
    IF BitAt(s, p, 1)
    THEN <<[i \in 1..I32At(s, p + 1) - 1 |-> JavaMessageTupleAt(s, TupleElement(s, p, i))]>>
    ELSE <<>>

JavaGetResultTupleAt(s, p) ==
    IF BitAt(s, p, 1)
    THEN <<[i \in 1..I32At(s, p + 1) |-> JavaMessageTupleAt(s, TupleElement(s, p, i))]>>
    ELSE <<>>

AfterGetResultTuple(s, p) ==
    IF BitAt(s, p, 1) THEN TupleElement(s, p, I32At(s, p + 1) + 1) ELSE p + 1

-----------------------------------------------------------------------------
(* gen-java: the methods of a value class.                                  *)

\* String.compareTo, as far as its sign
Lexical(a, b) ==
    LET differ == {i \in 1..Len(a) : i > Len(b) \/ a[i] # b[i]}
    IN  IF differ = {} THEN IF Len(a) = Len(b) THEN 0 ELSE -1
        ELSE IF Min(differ) > Len(b) \/ a[Min(differ)] > b[Min(differ)] THEN 1 ELSE -1

\* TBaseHelper.compareTo of lists: the shorter first, then the first difference
ListOrder(Compare(_, _), a, b) ==
    IF Len(a) # Len(b) THEN IF Len(a) < Len(b) THEN -1 ELSE 1
    ELSE LET differ == {i \in DOMAIN a : Compare(a[i], b[i]) # 0}
         IN  IF differ = {} THEN 0 ELSE Compare(a[Min(differ)], b[Min(differ)])

\* an unset field before a set one, and two set ones by their values
FieldOrder(Compare(_, _), f, g) ==
    CASE f = <<>> /\ g = <<>> -> 0 [] f = <<>> /\ g # <<>> -> -1
      [] f # <<>> /\ g = <<>> -> 1 [] OTHER -> Compare(f[1], g[1])

JavaMessageCompareTo(a, b) ==
    LET text == FieldOrder(Lexical, a.text, b.text)
    IN  IF text # 0 THEN text ELSE FieldOrder(Lexical, a.date, b.date)

\* the date decides only between messages that have a text
BugMessageEquals(a, b) ==
    /\ (a.text = <<>>) = (b.text = <<>>)
    /\ a.text # <<>> => a.text[1] = b.text[1] /\ a.date = b.date

JavaMessageEquals(a, b) ==
    /\ (a.text = <<>>) = (b.text = <<>>) /\ (a.text # <<>> => a.text[1] = b.text[1])
    /\ (a.date = <<>>) = (b.date = <<>>) /\ (a.date # <<>> => a.date[1] = b.date[1])

JavaAddArgsCompareTo(f, g) == FieldOrder(JavaMessageCompareTo, f, g)
JavaAddArgsEquals(f, g) ==
    /\ (f = <<>>) = (g = <<>>) /\ (f # <<>> => JavaMessageEquals(f[1], g[1]))

JavaGetResultCompareTo(f, g) ==
    LET compare(a, b) == ListOrder(JavaMessageCompareTo, a, b) IN FieldOrder(compare, f, g)
JavaGetResultEquals(f, g) ==
    /\ (f = <<>>) = (g = <<>>)
    /\ f # <<>> => /\ Len(f[1]) = Len(g[1])
                   /\ \A i \in DOMAIN f[1] : JavaMessageEquals(f[1][i], g[1][i])

\* the copy constructor and deepCopy
JavaMessageCopy(m) == [text |-> IF m.text # <<>> THEN m.text ELSE <<>>,
                       date |-> IF m.date # <<>> THEN m.date ELSE <<>>]

=============================================================================
