----------------------------- MODULE JsonWriter -----------------------------
(* Json::FastWriter and Json::StyledWriter                                  *)
(* (src/server/outlib/jsoncpp/json_writer.cpp), from a Value to the tokens  *)
(* of its text.  FastWriter writes one line without comments; StyledWriter  *)
(* writes an array that fits on a line on one line and everything else on   *)
(* lines of its own, with the comments.  Indentation is left out, and with  *)
(* it the question whether the text of an element was kept from measuring   *)
(* the line or is written again.                                            *)
EXTENDS JsonText
LOCAL INSTANCE SequencesExt

CONSTANT RightMargin    \* rightMargin_, 74 in the code

ASSUME MarginAssumption == RightMargin \in Nat

\* A null is written as an empty string, and so is a null pointer, but with
\* charset 1 the program crashes on one (a std::string of NULL): charset 1 is
\* for a Value that MayEncode.
MayEncode(v) ==
    \A p \in Nodes(v) : Node(v, p).type = stringValue => Node(v, p).str # <<>>

ScalarToken(v, charset) ==
    CASE v.type = nullValue -> StringToken(<<>>)
      [] v.type = stringValue ->
            StringToken(IF charset = 1 THEN valueToQuotedString_gbk(CStr(v))
                        ELSE valueToQuotedString(CStr(v)))
      [] v.type = booleanValue -> Token(IF asBool(v) THEN "true" ELSE "false")
      [] OTHER -> NumberToken(numberToString(v))

\* The elements of an array, with Value::null for those that are missing.
Elements(v) == [i \in 1 .. Size(v) |-> At(v, Index(i - 1))]
Members(v)  == [i \in DOMAIN getMemberNames(v) |-> At(v, Key(getMemberNames(v)[i]))]
NameToken(v, i) == StringToken(valueToQuotedString(getMemberNames(v)[i]))

Comma(i) == IF i > 1 THEN <<Token(",")>> ELSE <<>>

\* FastWriter::write.
RECURSIVE FastText(_, _)
FastText(v, charset) ==
    CASE v.type = arrayValue ->
            LET es == Elements(v)
            IN  <<Token("[")>>
                \o FlattenSeq([i \in DOMAIN es |-> Comma(i) \o FastText(es[i], charset)])
                \o <<Token("]")>>
      [] v.type = objectValue ->
            LET ms == Members(v)
            IN  <<Token("{")>>
                \o FlattenSeq([i \in DOMAIN ms |->
                       Comma(i) \o <<NameToken(v, i), Token(":")>>
                         \o FastText(ms[i], charset)])
                \o <<Token("}")>>
      [] OTHER -> <<ScalarToken(v, charset)>>

\* FastWriter::write( root, strDoc ), which adds to what strDoc has.
FastWrite(strDoc, v, charset) == strDoc \o FastText(v, charset)

-----------------------------------------------------------------------------
(* StyledWriter.                                                            *)

\* writeIndent: a new line, unless the text is on a new line or behind " : ".
writeIndent(text) ==
    IF \/ text = <<>>
       \/ Last(text).k \in {":", "line end"}
       \/ Last(text).com.style = "//"
    THEN text ELSE Append(text, LineEnd)
writeWithIndent(text, t) == Append(writeIndent(text), t)

Written(comments) == [i \in DOMAIN comments |-> CommentToken(comments[i])]

\* Comments are joined, and followed, by a line end.
Lines(comments) == FlattenSeq([i \in DOMAIN comments |->
                                  <<CommentToken(comments[i]), LineEnd>>])
writeCommentBeforeValue(text, v) == text \o Lines(v.com.before)
writeCommentAfterValueOnSameLine(text, v) ==
    text \o Written(v.com.same)
         \o IF v.com.after = <<>> THEN <<>> ELSE <<LineEnd>> \o Lines(v.com.after)

\* The length of the text of an element, as isMultineArray measures it.
TextLength(v, charset) ==
    CASE v.type \in {arrayValue, objectValue} -> 2
      [] v.type = booleanValue -> IF asBool(v) THEN 4 ELSE 5
      [] v.type \in {nullValue, stringValue} -> Len(ScalarToken(v, charset).raw) + 2
      [] OTHER -> Len(ScalarToken(v, charset).raw)

\* The comments of the elements do not count: what looks for them is "and"ed
\* to a condition that is false there.
isMultineArray(v, charset) ==
    LET es == Elements(v)
        lineLength == FoldLeft(LAMBDA n, e : n + TextLength(e, charset),
                               4 + (Size(v) - 1) * 2, es)
    IN  \/ Size(v) * 3 >= RightMargin
        \/ \E i \in DOMAIN es : (isArray(es[i]) \/ isObject(es[i])) /\ Size(es[i]) > 0
        \/ lineLength >= RightMargin

RECURSIVE writeValue(_, _, _)

\* the comma is behind the comments
BugEndChild(text, v, last) ==
    LET s == writeCommentAfterValueOnSameLine(text, v)
    IN  IF last THEN s ELSE Append(s, Token(","))

\* A comma behind all but the last child, then the comments of the child.
EndChild(text, v, last) ==
    writeCommentAfterValueOnSameLine(IF last THEN text ELSE Append(text, Token(",")), v)

writeArrayValue(text, v, charset) ==
    LET es == Elements(v)
        Element(s, i) ==
            EndChild(writeValue(writeIndent(writeCommentBeforeValue(s, es[i])),
                                es[i], charset),
                     es[i], i = Len(es))
    IN  CASE es = <<>> -> text \o <<Token("["), Token("]")>>
          [] es # <<>> /\ isMultineArray(v, charset) ->
                writeWithIndent(FoldLeftDomain(Element, writeWithIndent(text, Token("[")), es),
                                Token("]"))
          [] OTHER ->
                text \o <<Token("[")>>
                \o FlattenSeq([i \in DOMAIN es |->
                       Comma(i) \o writeValue(<<>>, es[i], charset)])
                \o <<Token("]")>>

writeObjectValue(text, v, charset) ==
    LET ms == Members(v)
        Member(s, i) ==
            EndChild(writeValue(Append(writeWithIndent(writeCommentBeforeValue(s, ms[i]),
                                                       NameToken(v, i)),
                                       Token(":")),
                                ms[i], charset),
                     ms[i], i = Len(ms))
    IN  IF ms = <<>> THEN text \o <<Token("{"), Token("}")>>
        ELSE writeWithIndent(FoldLeftDomain(Member, writeWithIndent(text, Token("{")), ms),
                             Token("}"))

writeValue(text, v, charset) ==
    CASE v.type = arrayValue  -> writeArrayValue(text, v, charset)
      [] v.type = objectValue -> writeObjectValue(text, v, charset)
      [] OTHER -> Append(text, ScalarToken(v, charset))

\* StyledWriter::write.
StyledText(v, charset) ==
    Append(writeCommentAfterValueOnSameLine(
               writeValue(writeCommentBeforeValue(<<>>, v), v, charset), v),
           LineEnd)

=============================================================================
