----------------------------- MODULE JsonValue -----------------------------
(* Json::Value (src/server/outlib/jsoncpp), as libjsoncpp.a is built: on    *)
(* std::map, without assertions.  A Value is null, a number, a string, a    *)
(* boolean, an array or an object.  Arrays and objects are both a map from  *)
(* CZString, which is an index or a name, to Value: an array may lack       *)
(* elements below its size, and an object keeps its members in the order of *)
(* their names.  Comments hang on Values, one string for each of three      *)
(* places, and an assignment leaves those of its target alone.              *)
(*                                                                          *)
(* A string is a sequence of characters; string_ may also be a null         *)
(* pointer.  A real is a number of thousandths.  The width of Int is a      *)
(* constant; what owns the memory of a string is left out.                  *)
EXTENDS Integers, Sequences, FiniteSets

CONSTANTS
    CharOrder,  \* the characters, in the order of their codes
    MaxInt      \* Value::maxInt

ASSUME MaxIntAssumption == MaxInt \in Nat \ {0}

minInt  == -MaxInt - 1
maxUInt == 2 * MaxInt + 1

\* ValueType.
nullValue    == 0
intValue     == 1
uintValue    == 2
realValue    == 3
stringValue  == 4
booleanValue == 5
arrayValue   == 6
objectValue  == 7
int64Value   == 8

\* CommentPlacement, with the comments of each place in the order they are
\* written.
NoComments == [before |-> <<>>, same |-> <<>>, after |-> <<>>]

-----------------------------------------------------------------------------
(* Strings and keys.                                                        *)

Code(c) == CHOOSE i \in DOMAIN CharOrder : CharOrder[i] = c

\* strcmp(s, t) < 0.
StrLess(s, t) ==
    \E n \in 0 .. Len(s) :
        /\ n < Len(t)
        /\ SubSeq(s, 1, n) = SubSeq(t, 1, n)
        /\ n = Len(s) \/ Code(s[n + 1]) < Code(t[n + 1])

\* CZString: cstr_ is null for an index.
Index(i) == [cstr |-> <<>>, index |-> i]
Key(name) == [cstr |-> <<name>>, index |-> 0]

KeyLess(k, l) ==
    IF k.cstr # <<>> THEN StrLess(k.cstr[1], l.cstr[1]) ELSE k.index < l.index

\* The keys of an ObjectValues in its order, as an iterator meets them.
Keys(map) ==
    [n \in 1 .. Cardinality(DOMAIN map) |->
        CHOOSE k \in DOMAIN map :
            Cardinality({l \in DOMAIN map : KeyLess(l, k)}) = n - 1]

With(map, k, v) == [l \in DOMAIN map \cup {k} |-> IF l = k THEN v ELSE map[l]]
Without(map, S) == [l \in DOMAIN map \ S |-> map[l]]

-----------------------------------------------------------------------------
(* Values.                                                                  *)

\* The constructors: Value(type), and one for each type that holds data.
Default(type) ==
    [type |-> type, num |-> 0, str |-> <<>>, map |-> <<>>, com |-> NoComments]
Null == Default(nullValue)
Number(type, n) == [Default(type) EXCEPT !.num = n]
Bool(b) == Number(booleanValue, IF b THEN 1 ELSE 0)
Str(s) == [Default(stringValue) EXCEPT !.str = <<s>>]

\* operator=: the copy is swapped in, without its comments.
Assign(v, w) == [w EXCEPT !.com = v.com]

\* What const char* accessors see of a string.
CStr(v) == IF v.str = <<>> THEN <<>> ELSE v.str[1]

isArray(v)  == v.type \in {nullValue, arrayValue}
isObject(v) == v.type \in {nullValue, objectValue}

\* The size of an array is its highest index + 1.
Size(v) ==
    CASE v.type = arrayValue ->
            IF DOMAIN v.map = {} THEN 0
            ELSE Keys(v.map)[Cardinality(DOMAIN v.map)].index + 1
      [] v.type = objectValue -> Cardinality(DOMAIN v.map)
      [] OTHER -> 0

\* Operators named Bug... are plausible mistakes in the definition that
\* follows them; they are used only to see that the properties notice.

\* null does not become an array or an object
BugReach(type, v, k) == IF k \in DOMAIN v.map THEN v ELSE [v EXCEPT !.map = With(@, k, Null)]

\* The non-const operator[], by index or by name: what is missing is created.
\* It may be called only on null and on a Value of the type given.
Reach(type, v, k) ==
    LET w == IF v.type = nullValue THEN Assign(v, Default(type)) ELSE v
    IN  IF k \in DOMAIN w.map THEN w ELSE [w EXCEPT !.map = With(@, k, Null)]
ReachIndex(v, i) == Reach(arrayValue, v, Index(i))
resolveReference(v, name) == Reach(objectValue, v, Key(name))

\* v[k] = w, of an element that is there.
SetAt(v, k, w) == [v EXCEPT !.map[k] = Assign(@, w)]

\* The const operator[] gives Value::null for what is not there, and get a
\* default of the caller's.
Get(v, k, default) == IF k \in DOMAIN v.map THEN v.map[k] ELSE default
At(v, k) == Get(v, k, Null)
IsMember(v, name) == Key(name) \in DOMAIN v.map
isValidIndex(v, i) == i < Size(v)

AppendTo(v, w) == SetAt(ReachIndex(v, Size(v)), Index(Size(v)), w)

Clear(v) == IF v.type \in {arrayValue, objectValue}
            THEN [v EXCEPT !.map = <<>>] ELSE v

\* May be called on null and arrays.
Resize(v, n) ==
    LET w == IF v.type = nullValue THEN Assign(v, Default(arrayValue)) ELSE v
    IN  CASE n = 0       -> Clear(w)
          [] n > Size(w) -> ReachIndex(w, n - 1)
          [] OTHER       -> [w EXCEPT !.map =
                Without(@, {Index(i) : i \in n .. Size(w) - 1})]

getMemberNames(v) == [n \in DOMAIN Keys(v.map) |-> Keys(v.map)[n].cstr[1]]

SetComment(v, place, comments) == [v EXCEPT !.com[place] = comments]

\* A Value with what is below it, without comments.
RECURSIVE Bare(_)
Bare(v) == [v EXCEPT !.com = NoComments,
                     !.map = [k \in DOMAIN v.map |-> Bare(v.map[k])]]

-----------------------------------------------------------------------------
(* Order.                                                                   *)

\* maps of the same size are not looked into
BugLess(v, w) ==
    CASE v.type # w.type -> v.type < w.type
      [] v.type = stringValue -> w.str # <<>> /\ (v.str = <<>> \/ StrLess(v.str[1], w.str[1]))
      [] OTHER -> v.num < w.num \/ Cardinality(DOMAIN v.map) < Cardinality(DOMAIN w.map)

\* operator<.  Values of different types are ordered by type, maps by their
\* number of elements, then as std::map orders its pairs.
RECURSIVE Less(_, _)
Less(v, w) ==
    LET vk == Keys(v.map)
        wk == Keys(w.map)
        PairLess(k, l) == \/ KeyLess(k, l)
                          \/ ~KeyLess(l, k) /\ Less(v.map[k], w.map[l])
        PairMore(k, l) == \/ KeyLess(l, k)
                          \/ ~KeyLess(k, l) /\ Less(w.map[l], v.map[k])
    IN  CASE v.type # w.type -> v.type < w.type
          [] v.type = stringValue ->
                \/ v.str = <<>> /\ w.str # <<>>
                \/ v.str # <<>> /\ w.str # <<>> /\ StrLess(v.str[1], w.str[1])
          [] v.type \in {arrayValue, objectValue} ->
                IF Len(vk) # Len(wk) THEN Len(vk) < Len(wk)
                ELSE \E n \in 1 .. Len(vk) :
                        /\ PairLess(vk[n], wk[n])
                        /\ \A m \in 1 .. n - 1 : ~PairMore(vk[m], wk[m])
                        /\ \A m \in 1 .. n - 1 : ~PairLess(vk[m], wk[m])
          [] OTHER -> v.num < w.num

\* operator==.
RECURSIVE Equal(_, _)
Equal(v, w) ==
    /\ v.type = w.type
    /\ CASE v.type = stringValue -> v.str = w.str
         [] v.type \in {arrayValue, objectValue} ->
               /\ DOMAIN v.map = DOMAIN w.map
               /\ \A k \in DOMAIN v.map : Equal(v.map[k], w.map[k])
         [] OTHER -> v.num = w.num

-----------------------------------------------------------------------------
(* Conversions of numbers.                                                  *)

Truncated(real) == IF real >= 0 THEN real \div 1000 ELSE -((-real) \div 1000)
Wrapped(n) == n % (maxUInt + 1)
Signed(n) == IF n > MaxInt THEN n - maxUInt - 1 ELSE n

asInt(v) ==
    CASE v.type \in {intValue, booleanValue} -> v.num
      [] v.type = uintValue  -> IF v.num < MaxInt THEN v.num ELSE 0
      [] v.type = int64Value -> Signed(Wrapped(v.num))
      [] v.type = realValue  ->
            IF v.num \in minInt * 1000 .. MaxInt * 1000
            THEN Truncated(v.num) ELSE 0
      [] OTHER -> 0

asUInt(v) ==
    CASE v.type \in {uintValue, booleanValue} -> v.num
      [] v.type = intValue   -> IF v.num >= 0 THEN v.num ELSE 0
      [] v.type = int64Value -> Wrapped(v.num)
      [] v.type = realValue  ->
            IF v.num \in 0 .. maxUInt * 1000 THEN Truncated(v.num) ELSE 0
      [] OTHER -> 0

asInt64(v) ==
    CASE v.type \in {intValue, uintValue, int64Value, booleanValue} -> v.num
      [] v.type = realValue -> Truncated(v.num)
      [] OTHER -> 0

\* In thousandths.
asDouble(v) ==
    CASE v.type \in {intValue, uintValue, int64Value, booleanValue} ->
            v.num * 1000
      [] v.type = realValue -> v.num
      [] OTHER -> 0

asBool(v) ==
    CASE v.type \in {arrayValue, objectValue} -> DOMAIN v.map # {}
      [] v.type = stringValue -> CStr(v) # <<>>
      [] OTHER -> v.num # 0

\* the integral types convert to each other whatever they hold
BugIsConvertibleTo(v, type) ==
    \/ v.type = type
    \/ {v.type, type} \subseteq {intValue, uintValue, booleanValue, realValue, stringValue}

\* int64Value has no case, and falls to the default.
isConvertibleTo(v, type) ==
    CASE v.type = nullValue -> TRUE
      [] v.type \in {intValue, uintValue, booleanValue, realValue} ->
            \/ type = v.type
            \/ type \in {realValue, stringValue, booleanValue}
            \/ type = nullValue /\ v.num = 0
            \/ type = int64Value /\ v.type # realValue
            \/ type = intValue /\ asDouble(v) \in minInt * 1000 .. MaxInt * 1000
            \/ type = uintValue /\ asDouble(v) \in 0 .. maxUInt * 1000
      [] v.type = stringValue ->
            type = stringValue \/ (type = nullValue /\ CStr(v) = <<>>)
      [] v.type \in {arrayValue, objectValue} ->
            type = v.type \/ (type = nullValue /\ DOMAIN v.map = {})
      [] OTHER -> FALSE

-----------------------------------------------------------------------------
(* Nodes: a Value below another one, by the keys that lead to it.           *)

RECURSIVE Node(_, _), Put(_, _, _), Nodes(_)
Node(v, path) ==
    IF path = <<>> THEN v ELSE Node(v.map[Head(path)], Tail(path))
Put(v, path, w) ==
    IF path = <<>> THEN w
    ELSE [v EXCEPT !.map[Head(path)] = Put(@, Tail(path), w)]
Nodes(v) ==
    {<<>>} \cup UNION {{<<k>> \o p : p \in Nodes(v.map[k])} : k \in DOMAIN v.map}

=============================================================================
