------------------------------ MODULE JsonPath ------------------------------
(* Json::Path and the iterators of Json::Value (json_value.cpp,             *)
(* json_valueiterator.inl): ways to walk through a Value.                   *)
EXTENDS JsonText
LOCAL INSTANCE SequencesExt

-----------------------------------------------------------------------------
(* Path.  A path is written as ".name" and "[index]", where "%" stands for  *)
(* an argument; it is kept as the keys it leads through.                    *)

\* The longest beginning of a text whose characters pass a test.
Beginning(text, Test(_)) ==
    LET N == {n \in 0 .. Len(text) : \A i \in 1 .. n : Test(text[i])}
    IN  SubSeq(text, 1, CHOOSE n \in N : \A m \in N : m <= n)

\* addPathInArg.  An argument of the wrong kind is left out without an error,
\* and none but the first is ever looked at.
addPathInArg(args, isIndex) ==
    IF args # <<>> /\ isIndex = (args[1].cstr = <<>>) THEN <<args[1]>> ELSE <<>>

\* a name goes on to the next "."
RECURSIVE BugMakePath(_, _)
BugMakePath(path, args) ==
    LET From(n) == BugMakePath(SubSeq(path, n, Len(path)), args)
        digits  == Beginning(Tail(path), LAMBDA c : c \in Digits)
        name    == Beginning(path, LAMBDA c : c # ".")
    IN  IF path = <<>> THEN <<>>
        ELSE CASE path[1] = "[" ->
                    IF Len(path) > 1 /\ path[2] = "%"
                    THEN addPathInArg(args, TRUE) \o From(3)
                    ELSE <<Index(Wrapped(Natural(digits)))>> \o From(Len(digits) + 3)
               [] path[1] = "%" -> addPathInArg(args, FALSE) \o From(2)
               [] path[1] = "." -> From(2)
               [] OTHER         -> <<Key(name)>> \o From(Len(name) + 1)

\* makePath.  The character behind an index is skipped, whether it is "]" or
\* not; behind "[%" that is the "%" itself, and the "]" is read as a name.
RECURSIVE makePath(_, _)
makePath(path, args) ==
    LET From(n) == makePath(SubSeq(path, n, Len(path)), args)
        digits  == Beginning(Tail(path), LAMBDA c : c \in Digits)
        name    == Beginning(path, LAMBDA c : c \notin {"[", "."})
    IN  IF path = <<>> THEN <<>>
        ELSE CASE path[1] = "[" ->
                    IF Len(path) > 1 /\ path[2] = "%"
                    THEN addPathInArg(args, TRUE) \o From(3)
                    ELSE <<Index(Wrapped(Natural(digits)))>> \o From(Len(digits) + 3)
               [] path[1] = "%" -> addPathInArg(args, FALSE) \o From(2)
               [] path[1] = "." -> From(2)
               [] OTHER         -> <<Key(name)>> \o From(Len(name) + 1)

\* May be called on null and on a Value of the type the key is for.
Takes(v, k) == IF k.cstr = <<>> THEN isArray(v) ELSE isObject(v)

\* The first resolve: null for what is not there.
resolve(root, keys) == FoldLeft(At, root, keys)

\* The second one, with a default.  The test of an index is the wrong way
\* round, and an index that is not there gives null.
RECURSIVE resolveOr(_, _, _)
resolveOr(node, keys, default) ==
    IF keys = <<>> THEN node
    ELSE LET k == Head(keys)
         IN  IF \/ ~Takes(node, k)
                \/ k.cstr = <<>> /\ isValidIndex(node, k.index)
                \/ k.cstr # <<>> /\ k \notin DOMAIN node.map
             THEN default
             ELSE resolveOr(At(node, k), Tail(keys), default)

\* make: what is missing on the way is created.  MayMake: no Value on the way
\* has another type.
RECURSIVE make(_, _), MayMake(_, _)
make(root, keys) ==
    IF keys = <<>> THEN root
    ELSE LET v == Reach(IF Head(keys).cstr = <<>> THEN arrayValue ELSE objectValue,
                        root, Head(keys))
         IN  [v EXCEPT !.map[Head(keys)] = make(@, Tail(keys))]
MayMake(root, keys) ==
    keys # <<>> => Takes(root, Head(keys)) /\ MayMake(At(root, Head(keys)), Tail(keys))

-----------------------------------------------------------------------------
(* Iterators: the n-th element from begin(), its index() and memberName().  *)

NoIndex == maxUInt      \* Value::UInt( -1 )
Iterators(v)       == DOMAIN Keys(v.map)
deref(v, it)       == v.map[Keys(v.map)[it]]

\* the place in the map is taken for the index
BugIndex(v, it) == it - 1

index(v, it)       == LET k == Keys(v.map)[it]
                      IN  IF k.cstr = <<>> THEN k.index ELSE NoIndex
memberName(v, it)  == LET k == Keys(v.map)[it]
                      IN  IF k.cstr = <<>> THEN <<>> ELSE k.cstr[1]

=============================================================================
