----------------------------- MODULE JsonReader -----------------------------
(* Json::Reader (src/server/outlib/jsoncpp/json_reader.cpp).                *)
(*                                                                          *)
(* The reader is written as recursive calls of readValue, readObject and    *)
(* readArray.  Here the calls that are under way are a stack of frames, and *)
(* one step reads one token: a frame says what its call does with the next  *)
(* one.  nodes_ is the nodes of the frames.  Positions in the text matter   *)
(* only to a comment: whether a line has ended since the last value.        *)
EXTENDS JsonText

NoNode == <<>>

\* A call: what it waits for; the node it reads into; the last name read; the
\* index read last.
Frame(wait, node) == [wait |-> wait, node |-> node, name |-> <<>>, index |-> 0]

\* A Reader.
NewReader ==
    [stack |-> <<>>, root |-> Null, collect |-> TRUE,
     last |-> NoNode,       \* lastValue_, as <<its node>>
     ended |-> FALSE,       \* a line end since lastValueEnd_
     before |-> <<>>,       \* commentsBefore_
     errors |-> 0, ok |-> TRUE]

\* parse( document, root, collectComments ): readValue, then what follows the
\* value.
Start(r, root, collect) ==
    [r EXCEPT !.stack = <<Frame("value", <<>>), Frame("rest", <<>>)>>,
              !.root = root, !.collect = collect, !.last = NoNode,
              !.ended = FALSE, !.before = <<>>, !.errors = 0, !.ok = TRUE]

Reading(r) == r.stack # <<>>
Wait(r)    == Head(r.stack)
Into(r, w) == [r EXCEPT !.root = Put(@, Wait(r).node, Assign(Node(@, Wait(r).node), w))]

\* The call under way waits for something else, maybe after a call of its own.
Becomes(r, f)  == [r EXCEPT !.stack = <<f>> \o Tail(@)]
Calls(r, f, g) == [r EXCEPT !.stack = <<g, f>> \o Tail(@)]

\* recoverFromError: skips to the end of the object or array being read.
Skip(r) == Becomes(r, [Wait(r) EXCEPT !.wait =
    IF @ \in {"elements", "separator", "skip ]"} THEN "skip ]" ELSE "skip }"])
Error(r) == [r EXCEPT !.errors = @ + 1]

\* readValue returns, and its caller goes on if it was successful.
Return(r, ok) ==
    LET s == [r EXCEPT !.stack = Tail(@)]
    IN  CASE ok                     -> s
          [] Wait(s).wait = "rest"  -> [s EXCEPT !.ok = FALSE]
          [] OTHER                  -> Skip(s)

\* The end of readValue, which an unexpected token does not reach.
ValueRead(r, ok) ==
    Return(IF r.collect
           THEN [r EXCEPT !.last = <<Wait(r).node>>, !.ended = FALSE] ELSE r, ok)

Scalar(r, v) ==
    IF v = <<>> THEN ValueRead(Error(r), FALSE) ELSE ValueRead(Into(r, v[1]), TRUE)

\* The element or member that a value is about to be read into.
Child(r, type, k) ==
    [r EXCEPT !.root = Put(@, Wait(r).node, Reach(type, Node(@, Wait(r).node), k))]
ReadElement(r, i) ==
    LET f == Wait(r)
    IN  Calls(Child(r, arrayValue, Index(i)),
              [f EXCEPT !.wait = "separator", !.index = i],
              Frame("value", Append(f.node, Index(i))))

\* readValue, behind the comments.
TakeComments(r) ==
    IF ~r.collect \/ r.before = <<>> THEN r
    ELSE [r EXCEPT !.root = Put(@, Wait(r).node,
                         SetComment(Node(@, Wait(r).node), "before", r.before)),
                   !.before = <<>>]
readValue(r0, t) ==
    LET r == TakeComments(r0)
    IN  CASE t.k = "{" -> Becomes(Into(r, Default(objectValue)),
                                  [Wait(r) EXCEPT !.wait = "member"])
          [] t.k = "[" -> Becomes(Into(r, Default(arrayValue)),
                                  [Wait(r) EXCEPT !.wait = "elements"])
          [] t.k = "number" -> Scalar(r, decodeNumber(t.raw))
          [] t.k = "string" ->
                Scalar(r, [i \in DOMAIN decodeString(t.raw) |->
                              Str(decodeString(t.raw)[i])])
          [] t.k = "true"  -> Scalar(r, <<Bool(TRUE)>>)
          [] t.k = "false" -> Scalar(r, <<Bool(FALSE)>>)
          [] t.k = "null"  -> Scalar(r, <<Null>>)
          [] OTHER         -> Return(Error(r), FALSE)

\* an object may end behind a comma
BugReadMember(r, t) ==
    LET f == Wait(r)
        name == decodeString(t.raw)
    IN  CASE t.k = "}" -> ValueRead(r, TRUE)
          [] t.k = "string" /\ name # <<>> ->
                Becomes(r, [f EXCEPT !.wait = "colon", !.name = name[1]])
          [] OTHER -> Skip(Error(r))

\* readObject.  A comment is expected only before a name, and an end only
\* after a member or while no name but "" has been read.
readMember(r, t) ==
    LET f == Wait(r)
        name == decodeString(t.raw)
    IN  CASE t.k = "}" /\ f.name = <<>> -> ValueRead(r, TRUE)
          [] t.k = "string" ->
                IF name = <<>> THEN Skip(Error(r))
                ELSE Becomes(r, [f EXCEPT !.wait = "colon", !.name = name[1]])
          [] OTHER -> Skip(Error(r))
readColon(r, t) ==
    LET f == Wait(r)
    IN  IF t.k = ":"
        THEN Calls(Child(r, objectValue, Key(f.name)),
                   [f EXCEPT !.wait = "comma"],
                   Frame("value", Append(f.node, Key(f.name))))
        ELSE Skip(Error(r))
readComma(r, t) ==
    CASE t.k = "," -> Becomes(r, [Wait(r) EXCEPT !.wait = "member"])
      [] t.k = "}" -> ValueRead(r, TRUE)
      [] OTHER     -> Skip(Error(r))

\* readArray.
readElements(r, t) ==
    IF t.k = "]" THEN ValueRead(r, TRUE) ELSE ReadElement(r, 0)
readSeparator(r, t) ==
    CASE t.k = "," -> ReadElement(r, Wait(r).index + 1)
      [] t.k = "]" -> ValueRead(r, TRUE)
      [] OTHER     -> Skip(Error(r))

recoverFromError(r, t) ==
    IF \/ t.k = "end"
       \/ t.k = "}" /\ Wait(r).wait = "skip }"
       \/ t.k = "]" /\ Wait(r).wait = "skip ]"
    THEN ValueRead(r, FALSE) ELSE r

\* The end of parse: the comments behind the root, and no look at the rest.
ReadRest(r) ==
    [r EXCEPT !.stack = <<>>,
              !.root = IF r.collect /\ r.before # <<>>
                       THEN SetComment(@, "after", r.before) ELSE @]

\* readComment, addComment.
addComment(r, c) ==
    IF ~r.collect THEN r
    ELSE IF r.last # NoNode /\ ~r.ended /\ (c.style = "//" \/ ~c.nl)
    THEN [r EXCEPT !.root = Put(@, r.last[1],
                         SetComment(Node(@, r.last[1]), "same", <<c>>))]
    ELSE [r EXCEPT !.before = Append(@, c)]

\* What a call does with the token it reads.
Handle(r, t) ==
    CASE Wait(r).wait = "value"     -> readValue(r, t)
      [] Wait(r).wait = "member"    -> readMember(r, t)
      [] Wait(r).wait = "colon"     -> readColon(r, t)
      [] Wait(r).wait = "comma"     -> readComma(r, t)
      [] Wait(r).wait = "separator" -> readSeparator(r, t)
      [] Wait(r).wait = "rest"      -> ReadRest(r)
      [] OTHER                      -> recoverFromError(r, t)

\* readToken.  A string that does not end at its own quote is taken for an
\* error, whatever it would make of the text behind it.
readToken(t) == IF t.k = "string" /\ ~Closed(t.raw) THEN Token("error") ELSE t

\* One token and the call that reads it; comments are put where they belong
\* whoever reads them.  An array looks at the character behind its "[" before
\* it reads its first element.
Step(r0, t0) ==
    LET t == readToken(t0)
        r == IF Wait(r0).wait = "elements" /\ t.k # "line end"
             THEN readElements(r0, t) ELSE r0
        Past(s) == [s EXCEPT !.ended = @ \/ (t.k = "string"
                       /\ \E i \in DOMAIN t.raw : t.raw[i] \in {"\n", "\r"})]
        Commented == [addComment(r, t.com) EXCEPT !.ended = @ \/ t.com.nl]
    IN  CASE t.k = "line end" -> [r EXCEPT !.ended = TRUE]
          [] Wait(r0).wait = "elements" /\ t.k = "]" -> r
          [] t.k = "comment" ->
                IF Wait(r).wait \in {"colon", "comma", "separator"}
                THEN Handle(Commented, t) ELSE Commented
          [] OTHER -> Handle(Past(r), t)

\* The whole text, and the end as often as the calls under way meet it.
RECURSIVE ReadAll(_, _)
ReadAll(r, text) ==
    CASE ~Reading(r) -> r
      [] text = <<>> -> ReadAll(Step(r, EndOfStream), text)
      [] OTHER       -> ReadAll(Step(r, Head(text)), Tail(text))
Parse(text, root, collect) == ReadAll(Start(NewReader, root, collect), text)

=============================================================================
