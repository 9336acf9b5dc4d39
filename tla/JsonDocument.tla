---------------------------- MODULE JsonDocument ----------------------------
(* A program that holds Json::Values, changes them with the calls of        *)
(* json/value.h, reads documents into one of them and saves it to text and  *)
(* back.                                                                    *)
EXTENDS JsonReader, JsonWriter, JsonPath
LOCAL INSTANCE SequencesExt

CONSTANTS
    Names,      \* member names
    Leaves,     \* Values the program stores anywhere
    Scalars,    \* Values it stores only in place of the whole Value
    Indexes,    \* indexes and sizes it uses
    Comments,   \* comments it sets
    Paths,      \* paths it uses
    Arguments,  \* arguments of the paths
    Tokens,     \* what a document may be written with
    CallCost,   \* what a call takes of MaxEffort, and what opening a document
    OpenCost,
    MaxEffort,  \* bound: calls, documents and tokens together
    MaxNodes    \* bound: Values in one Value

VARIABLES
    value,      \* the Value it works on
    other,      \* another one
    r,          \* the reader
    text,       \* the document, up to its end or its first error
    effort      \* calls, documents and tokens so far

vars == <<value, other, r, text, effort>>

IsNumber(v) ==
    CASE v.type = intValue     -> v.num \in minInt .. MaxInt
      [] v.type = uintValue    -> v.num \in 0 .. maxUInt
      [] v.type = booleanValue -> v.num \in {0, 1}
      [] v.type \in {realValue, int64Value} -> v.num \in Int
      [] OTHER -> v.num = 0

IsValue(v) ==
    \A p \in Nodes(v) :
        LET w == Node(v, p)
        IN  /\ w.type \in nullValue .. int64Value
            /\ IsNumber(w)
            /\ w.str # <<>> => w.type = stringValue
            /\ DOMAIN w.map # {} => w.type \in {arrayValue, objectValue}
            /\ \A k \in DOMAIN w.map : (k.cstr = <<>>) <=> (w.type = arrayValue)

\* A Value holds what its type says, at every depth; a reader is at rest or
\* reads.
TypeOK ==
    /\ IsValue(value) /\ IsValue(other)
    /\ r.errors \in Nat /\ r.ok \in BOOLEAN
    /\ effort \in 0 .. MaxEffort

Init ==
    /\ value = Null /\ other = Null
    /\ r = NewReader
    /\ text = <<>>
    /\ effort = 0

-----------------------------------------------------------------------------
(* The calls.  The program respects their preconditions: it treats only     *)
(* null and arrays as arrays, only null and objects as objects.             *)

Spend(n) == effort + n <= MaxEffort /\ effort' = effort + n

Program ==
    /\ ~Reading(r)
    /\ Spend(CallCost)
    /\ text' = <<>>
    /\ r' = NewReader

\* What the node at path becomes.
Change(path, w) ==
    /\ Cardinality(Nodes(Put(value, path, w))) <= MaxNodes
    /\ value' = Put(value, path, w)
    /\ UNCHANGED other

SetMember(path, name, leaf) ==
    /\ isObject(Node(value, path))
    /\ Change(path, SetAt(resolveReference(Node(value, path), name), Key(name), leaf))

SetElement(path, i, leaf) ==
    /\ isArray(Node(value, path))
    /\ Change(path, SetAt(ReachIndex(Node(value, path), i), Index(i), leaf))

AppendLeaf(path, leaf) ==
    /\ isArray(Node(value, path))
    /\ Change(path, AppendTo(Node(value, path), leaf))

ResizeTo(path, n) ==
    /\ isArray(Node(value, path))
    /\ Change(path, Resize(Node(value, path), n))

ClearNode(path) ==
    /\ Node(value, path).type \in {nullValue, arrayValue, objectValue}
    /\ Change(path, Clear(Node(value, path)))

Comment(path, place, c) ==
    Change(path, SetComment(Node(value, path), place, <<c>>))

\* Path( path, argument ).make( value ) = leaf.
MakePath(path, argument, leaf) ==
    LET keys == makePath(path, argument)
    IN  /\ MayMake(value, keys)
        /\ LET made == make(value, keys)
           IN  Change(<<>>, Put(made, keys, Assign(Node(made, keys), leaf)))

\* value = leaf, and another Value takes the old one over.
Replace(leaf) ==
    /\ value' = Assign(value, leaf)
    /\ other' = Assign(other, value)

\* What a loop over a Value builds of its elements.
Rebuilt(v) ==
    FoldLeft(LAMBDA w, it :
                IF v.type = arrayValue
                THEN SetAt(ReachIndex(w, index(v, it)), Index(index(v, it)), deref(v, it))
                ELSE SetAt(resolveReference(w, memberName(v, it)),
                           Key(memberName(v, it)), deref(v, it)),
             Default(v.type), [it \in Iterators(v) |-> it])

Rebuild ==
    /\ value.type \in {arrayValue, objectValue}
    /\ other' = Assign(other, Rebuilt(value))
    /\ UNCHANGED value

Call ==
    /\ Program
    /\ \/ \E p \in Nodes(value), leaf \in Leaves :
            \/ \E name \in Names : SetMember(p, name, leaf)
            \/ \E i \in Indexes : SetElement(p, i, leaf)
            \/ AppendLeaf(p, leaf)
       \/ \E p \in Nodes(value), n \in Indexes : ResizeTo(p, n)
       \/ \E p \in Nodes(value) : ClearNode(p)
       \/ \E p \in Nodes(value), c \in Comments, place \in DOMAIN NoComments :
            Comment(p, place, c)
       \/ \E path \in Paths, a \in Arguments, leaf \in Leaves : MakePath(path, a, leaf)
       \/ \E leaf \in Leaves \cup Scalars : Replace(leaf)
       \/ Rebuild

-----------------------------------------------------------------------------
(* Reading and saving.                                                      *)

\* parse reads into the Value the program has, with what is in it; the Reader
\* may have read another document before.
Open ==
    /\ ~Reading(r)
    /\ Spend(OpenCost)
    /\ r' = Start(r, value, TRUE)
    /\ text' = <<>>
    /\ UNCHANGED <<value, other>>

Read(t) ==
    /\ Reading(r)
    /\ r' = Step(r, t)
    /\ value' = r'.root
    /\ text' = IF t.k \in {"line end", "end"} \/ r.errors > 0
               THEN text ELSE Append(text, t)
    /\ UNCHANGED other

ReadToken == Spend(1) /\ \E t \in Tokens : Read(t)
ReadEnd   == Read(EndOfStream) /\ UNCHANGED effort

\* Saved to text and read into a new Value, which takes the place of the old
\* one if the text could be read.  Behind another document in the same string
\* it is not read: the other one is.
Load(saved) ==
    LET p == Parse(saved, Null, TRUE)
    IN  /\ value' = IF p.ok THEN p.root ELSE value
        /\ UNCHANGED other

Reload == Program /\ \/ Load(FastText(value, 0))
                     \/ Load(FastWrite(FastText(other, 0), value, 0))
                     \/ Load(StyledText(value, 0))
                     \/ MayEncode(value) /\ Load(StyledText(value, 1))

Next == Call \/ Open \/ ReadToken \/ ReadEnd \/ Reload

Spec == Init /\ [][Next]_vars

-----------------------------------------------------------------------------
(* The reader.                                                              *)

\* What a document means, by a grammar: <<the Value, the position behind it>>
\* from position n, or <<>> if there is none.  Comments may stand before a
\* value and before a name (or the end of an object where a name may stand),
\* and nowhere else; behind a member without a name, a comma may stand before
\* the end.
At1(s, n) == IF n \in DOMAIN s THEN s[n].k ELSE "end"
RECURSIVE Past(_, _), ValueFrom(_, _), ElementsFrom(_, _, _), MembersFrom(_, _, _)
Past(s, n) == IF At1(s, n) = "comment" THEN Past(s, n + 1) ELSE n

ElementsFrom(s, n, v) ==
    LET e == ValueFrom(s, n)
        w == [v EXCEPT !.map = With(@, Index(Cardinality(DOMAIN @)), e[1])]
    IN  CASE e = <<>>             -> <<>>
          [] At1(s, e[2]) = ","   -> ElementsFrom(s, e[2] + 1, w)
          [] At1(s, e[2]) = "]"   -> <<w, e[2] + 1>>
          [] OTHER                -> <<>>

MembersFrom(s, n0, v) ==
    LET n == Past(s, n0)
        name == decodeString(s[n].raw)
        e == ValueFrom(s, n + 2)
        w == [v EXCEPT !.map = With(@, Key(name[1]), e[1])]
    IN  IF At1(s, n) # "string" \/ At1(s, n + 1) # ":" THEN <<>>
        ELSE CASE e = <<>>           -> <<>>
               [] At1(s, e[2]) = "}" -> <<w, e[2] + 1>>
               [] At1(s, e[2]) # "," -> <<>>
               [] name[1] = <<>> /\ At1(s, Past(s, e[2] + 1)) = "}" ->
                     <<w, Past(s, e[2] + 1) + 1>>
               [] OTHER              -> MembersFrom(s, e[2] + 1, w)

ValueFrom(s, n0) ==
    LET n == Past(s, n0)
        k == At1(s, n)
    IN  CASE k = "[" -> IF At1(s, n + 1) = "]" THEN <<Default(arrayValue), n + 2>>
                        ELSE ElementsFrom(s, n + 1, Default(arrayValue))
          [] k = "{" -> IF At1(s, Past(s, n + 1)) = "}"
                        THEN <<Default(objectValue), Past(s, n + 1) + 1>>
                        ELSE MembersFrom(s, n + 1, Default(objectValue))
          [] k = "string" -> <<Str(decodeString(s[n].raw)[1]), n + 1>>
          [] k = "number" -> <<decodeNumber(s[n].raw)[1], n + 1>>
          [] k \in {"true", "false"} -> <<Bool(k = "true"), n + 1>>
          [] k = "null" -> <<Null, n + 1>>
          [] OTHER -> <<>>

\* A document is accepted if it begins with a value of the grammar, whatever
\* stands behind it, and then the Value is what the document means; it is
\* refused with one error, wherever that is and whatever is skipped.
ReadsTheGrammar ==
    ~Reading(r) /\ text # <<>> =>
        LET v == ValueFrom(text, 1)
        IN  /\ r.errors = IF r.ok THEN 0 ELSE 1
            /\ r.ok <=> v # <<>>
            /\ r.ok => Bare(value) = v[1]

-----------------------------------------------------------------------------
(* Saving.                                                                  *)

\* The number n that is read for a real that was too long for the buffer: what
\* the first digits of it make.
CutReal(real, n) ==
    /\ n # 0 => (n < 0 <=> real < 0)
    /\ Magnitude(n) <= Magnitude(real) + 5

\* The w that is read for a v that was written: null has become "", a missing
\* element too, a real has two decimals, and every number keeps its size
\* whatever type it gets, but for a real that is too long for the buffer.
RECURSIVE Same(_, _)
Same(v, w) ==
    CASE v.type \in {nullValue, stringValue} -> w.type = stringValue /\ CStr(w) = CStr(v)
      [] v.type = booleanValue -> w.type = booleanValue /\ w.num = v.num
      [] v.type = arrayValue ->
            /\ w.type = arrayValue
            /\ DOMAIN w.map = {Index(i) : i \in 0 .. Size(v) - 1}
            /\ \A k \in DOMAIN w.map : Same(At(v, k), w.map[k])
      [] v.type = objectValue ->
            /\ w.type = objectValue
            /\ DOMAIN w.map = DOMAIN v.map
            /\ \A k \in DOMAIN w.map : Same(v.map[k], w.map[k])
      [] v.type = realValue ->
            IF FitsTheBuffer(v.num) THEN 2 * Magnitude(asDouble(w) - v.num) <= 10
            ELSE CutReal(v.num, asDouble(w))
      [] OTHER -> asDouble(w) = asDouble(v)

\* What FastWriter writes can be read, and is the same Value, but for reals
\* whose text with two decimals does not fit the buffer: those are cut, and
\* all that is kept is the sign and that they do not grow.
FastReadsBack ==
    ~Reading(r) =>
        LET p == Parse(FastText(value, 0), Null, FALSE)
        IN  p.ok /\ Same(value, p.root)

\* The last child written of a container that is written on several lines has
\* a comment behind it, where the reader expects none.
Styled(v) == v.type = objectValue \/ (v.type = arrayValue /\ isMultineArray(v, 0))
LastChild(v) == IF v.type = objectValue THEN Last(Members(v)) ELSE Last(Elements(v))
CommentAtTheEnd(v) ==
    \E p \in Nodes(v) :
        LET w == Node(v, p)
        IN  /\ Size(w) > 0 /\ Styled(w)
            /\ LastChild(w).com.same # <<>> \/ LastChild(w).com.after # <<>>

\* What StyledWriter writes can be read, unless a comment stands behind the
\* last child, and is the same Value: with its comments in between it cannot
\* become another one.  Reals too long for the buffer are cut here as well.
StyledReadsBack ==
    ~Reading(r) =>
        LET p == Parse(StyledText(value, 0), Null, TRUE)
        IN  /\ p.ok <=> ~CommentAtTheEnd(value)
            /\ p.ok => Same(value, p.root)

-----------------------------------------------------------------------------
(* Order, conversions, ways through a Value.                                *)

\* Of two Values the one is less, or the other, or they are equal.
OrderIsTotal ==
    Cardinality({n \in 1 .. 3 : << Less(value, other), Less(other, value),
                                   Equal(value, other) >>[n]}) = 1

\* A number that says it is convertible to another type converts to itself
\* without its fraction, but for the unsigned maxInt, of which asInt makes 0.
ConversionsKeepTheNumber ==
    \A p \in Nodes(value) :
        LET v == Node(value, p)
            whole == Truncated(asDouble(v))
        IN  /\ isConvertibleTo(v, intValue) /\ v # [Number(uintValue, MaxInt) EXCEPT !.com = v.com]
                  => asInt(v) = whole
            /\ isConvertibleTo(v, uintValue) => asUInt(v) = whole
            /\ isConvertibleTo(v, int64Value) => asInt64(v) = whole

\* The text of a path that leads along a sequence of keys.
Spelled(keys) ==
    FlattenSeq([i \in DOMAIN keys |->
        IF keys[i].cstr = <<>> THEN <<"[">> \o uintToString(keys[i].index) \o <<"]">>
        ELSE <<".">> \o keys[i].cstr[1]])
Plain(name) == name # <<>> /\ name[1] # "%" /\ \A i \in DOMAIN name : name[i] \notin {"[", "."}

\* Every element is found by its path.  A resolve with a default finds it only
\* if no index is on the path.  make creates what a path leads to, and only
\* that: resolve finds by the path what it found before, and every other
\* element is what it was.
PathsLead ==
    ~Reading(r) =>
        /\ \A p \in Nodes(value) :
            (\A i \in DOMAIN p : p[i].cstr # <<>> => Plain(p[i].cstr[1])) =>
                LET keys == makePath(Spelled(p), <<>>)
                    default == Number(realValue, -1)
                IN  /\ resolve(value, keys) = Node(value, p)
                    /\ resolveOr(value, keys, default) =
                          IF \E i \in DOMAIN p : p[i].cstr = <<>>
                          THEN default ELSE Node(value, p)
        /\ \A path \in Paths, a \in Arguments :
            LET keys == makePath(path, a)
                made == make(value, keys)
                way  == {SubSeq(keys, 1, n) : n \in 0 .. Len(keys)}
            IN  MayMake(value, keys) =>
                    /\ resolve(made, keys) = resolve(value, keys)
                    /\ Nodes(made) = Nodes(value) \cup way
                    /\ \A p \in Nodes(value) \ way : Node(made, p) = Node(value, p)

\* A loop over a Value with index() and memberName() meets all there is.
LoopsMeetAll ==
    ~Reading(r) /\ value.type \in {arrayValue, objectValue} =>
        LET w == Rebuilt(value)
        IN  /\ Equal(w, value)
            /\ ~Less(w, value) /\ ~Less(value, w)
            /\ Size(w) = Size(value)

=============================================================================
