------------------------------ MODULE JsonText ------------------------------
(* What Json::Reader and the two writers make of single tokens: numbers and *)
(* strings to text and back (json_reader.cpp, json_writer.cpp).             *)
(*                                                                          *)
(* A document is a sequence of tokens.  Blanks are left out, except for     *)
(* line ends, on which the place of a comment depends.  The text of a       *)
(* number or string token is the sequence of its characters, without the    *)
(* quotes; a character written as an HTML entity counts as one.             *)
EXTENDS JsonValue
LOCAL INSTANCE SequencesExt

CONSTANT BufSize    \* the buffer of valueToString( double ), 32 in the code

\* A comment: its text, by a name; "//" or "/*"; whether it has a line end,
\* as every "//" comment has.
NoComment == [text |-> "", style |-> "", nl |-> FALSE]

Token(k)       == [k |-> k, raw |-> <<>>, com |-> NoComment]
StringToken(s) == [Token("string") EXCEPT !.raw = s]
NumberToken(s) == [Token("number") EXCEPT !.raw = s]
CommentToken(c) == [Token("comment") EXCEPT !.com = c]
LineEnd        == Token("line end")
EndOfStream    == Token("end")

-----------------------------------------------------------------------------
(* Numbers.                                                                 *)

Digit == <<"0", "1", "2", "3", "4", "5", "6", "7", "8", "9">>
Digits == {Digit[d] : d \in 1 .. 10}
Figure(c) == (CHOOSE d \in 1 .. 10 : Digit[d] = c) - 1

RECURSIVE uintToString(_)
uintToString(n) ==
    (IF n < 10 THEN <<>> ELSE uintToString(n \div 10)) \o <<Digit[(n % 10) + 1]>>

Sign(n) == IF n < 0 THEN <<"-">> ELSE <<>>
Magnitude(n) == IF n < 0 THEN -n ELSE n

\* "%.2f".  No real here lies halfway, and none is nan or inf: a real is a
\* whole number of thousandths.
TwoDecimals(n) ==
    LET cents == (Magnitude(n) + 5) \div 10
    IN  Sign(n) \o uintToString(cents \div 100) \o <<".">>
          \o <<Digit[((cents \div 10) % 10) + 1], Digit[(cents % 10) + 1]>>

FitsTheBuffer(n) == Len(TwoDecimals(n)) < BufSize

\* snprintf cuts what does not fit, digits before the point too.
realToString(n) ==
    IF FitsTheBuffer(n) THEN TwoDecimals(n)
    ELSE SubSeq(TwoDecimals(n), 1, BufSize - 1)

\* valueToString of what the writers ask the Value for.
numberToString(v) ==
    CASE v.type = intValue   -> Sign(asInt(v)) \o uintToString(Magnitude(asInt(v)))
      [] v.type = uintValue  -> uintToString(asUInt(v))
      [] v.type = int64Value -> Sign(asInt64(v)) \o uintToString(Magnitude(asInt64(v)))
      [] v.type = realValue  -> realToString(asDouble(v))

\* The number a sequence of digits writes.
RECURSIVE Natural(_)
Natural(s) ==
    IF s = <<>> THEN 0
    ELSE 10 * Natural(Front(s)) + Figure(Last(s))

\* The first n with a digit of its own, of a text padded with zeros.
Thousandths(s) == Natural(SubSeq(s \o <<"0", "0", "0">>, 1, 3))

\* sscanf( text, "%lf" ) of a text without an exponent: the longest prefix
\* that is a number; <<>> if there is none.
Scan(text) ==
    LET neg  == text # <<>> /\ text[1] = "-"
        body == IF neg THEN Tail(text) ELSE text
        N    == {n \in 0 .. Len(body) : \A i \in 1 .. n : body[i] \in Digits}
        whole == SubSeq(body, 1, CHOOSE n \in N : \A m \in N : m <= n)
        rest == SubSeq(body, Len(whole) + 1, Len(body))
        frac == IF rest = <<>> \/ rest[1] # "." THEN <<>> ELSE Tail(rest)
        M    == {n \in 0 .. Len(frac) : \A i \in 1 .. n : frac[i] \in Digits}
        part == SubSeq(frac, 1, CHOOSE n \in M : \A m \in M : m <= n)
        n    == 1000 * Natural(whole) + Thousandths(part)
    IN  IF whole = <<>> /\ part = <<>> THEN <<>>
        ELSE <<IF neg THEN -n ELSE n>>

\* <<v>>, or <<>> for an error.
decodeDouble(text) ==
    IF Scan(text) = <<>> THEN <<>>
    ELSE <<Number(realValue, Scan(text)[1])>>

\* A number is read as a double when it looks like one, or when the digits
\* before one of its digits have reached a tenth of the limit.
decodeNumber(text) ==
    LET isDouble == \E i \in DOMAIN text : \/ text[i] \in {".", "e", "E", "+"}
                                          \/ (text[i] = "-" /\ i > 1)
        neg    == text[1] = "-"
        digits == IF neg THEN Tail(text) ELSE text
        threshold == (IF neg THEN -minInt ELSE maxUInt) \div 10
        big    == \E n \in 0 .. Len(digits) - 1 :
                      Natural(SubSeq(digits, 1, n)) >= threshold
        n      == Natural(digits)
    IN  IF isDouble \/ big THEN decodeDouble(text)
        ELSE <<Number(IF neg \/ n <= MaxInt THEN intValue ELSE uintValue,
                      IF neg THEN -n ELSE n)>>

-----------------------------------------------------------------------------
(* Strings.                                                                 *)

\* The characters the writer escapes, and the letters it escapes them with;
\* "\b" stands for backspace.
EscapeLetter == [c \in {"\"", "\\", "\n", "\r", "\t", "\f", "\\b"} |->
    CASE c = "\n" -> "n" [] c = "\r" -> "r" [] c = "\t" -> "t"
      [] c = "\f" -> "f" [] c = "\\b" -> "b" [] OTHER -> c]

\* the backslash is not escaped
BugQuotedString(s) ==
    FlattenSeq([i \in DOMAIN s |->
        IF s[i] \in DOMAIN EscapeLetter \ {"\\"} THEN <<"\\", EscapeLetter[s[i]]>>
        ELSE <<s[i]>>])

valueToQuotedString(s) ==
    FlattenSeq([i \in DOMAIN s |->
        IF s[i] \in DOMAIN EscapeLetter THEN <<"\\", EscapeLetter[s[i]]>>
        ELSE <<s[i]>>])

\* For charset 1.  Lead is the first byte of a GBK character, whatever byte
\* follows it; without one it becomes a 0, which ends the string.
Lead == "lead"
Entity == [c \in {"<", ">", "\"", "'", "\\"} |->
    CASE c = "<" -> "&lt;" [] c = ">" -> "&gt;" [] c = "\"" -> "&quot;"
      [] c = "'" -> "&#39;" [] c = "\\" -> "&#92;"]

RECURSIVE valueToQuotedString_gbk(_)
valueToQuotedString_gbk(s) ==
    IF s = <<>> \/ s = <<Lead>> THEN <<>>
    ELSE IF s[1] = Lead
    THEN <<Lead, s[2]>> \o valueToQuotedString_gbk(SubSeq(s, 3, Len(s)))
    ELSE (CASE s[1] \in DOMAIN Entity -> <<Entity[s[1]]>>
            [] s[1] = "\n" -> <<"\\", "n">>
            [] s[1] \in {"\r", "\t", "\f", "\\b"} -> <<>>
            [] OTHER -> <<s[1]>>) \o valueToQuotedString_gbk(Tail(s))

\* readString, from behind the opening quote: <<the text that is left>>, or
\* <<>> if the string has no end.
RECURSIVE readString(_)
readString(text) ==
    IF text = <<>> THEN <<>>
    ELSE CASE text[1] = "\"" -> <<Tail(text)>>
           [] text[1] = "\\" -> readString(SubSeq(text, 3, Len(text)))
           [] OTHER          -> readString(Tail(text))

\* The token ends at the quote it was written with.
Closed(raw) == readString(raw \o <<"\"">>) = <<<<>>>>

Unescaped(letter) ==
    IF letter = "/" THEN "/"
    ELSE CHOOSE c \in DOMAIN EscapeLetter : EscapeLetter[c] = letter
Escapes == {EscapeLetter[c] : c \in DOMAIN EscapeLetter} \cup {"/"}

\* decodeUnicodeEscapeSequence: four hexadecimal digits make a character,
\* here one for all of them.
Hex == Digits \cup {"a", "b", "c", "d", "e", "f", "A", "B", "C", "D", "E", "F"}
Unicode == "unicode"
HasUnicode(text) == Len(text) >= 4 /\ \A i \in 1 .. 4 : text[i] \in Hex

\* decodeString: <<s>>, or <<>> for an error.
RECURSIVE decodeString(_)
decodeString(text) ==
    LET From(n) == SubSeq(text, n, Len(text))
        Then(c, rest) == LET s == decodeString(rest)
                         IN  [i \in DOMAIN s |-> <<c>> \o s[i]]
        Escape == CASE Len(text) = 1        -> <<>>
                    [] text[2] \in Escapes  -> Then(Unescaped(text[2]), From(3))
                    [] (text[2] = "u" /\ HasUnicode(From(3))) ->
                          Then(Unicode, From(7))
                    [] OTHER                -> <<>>
    IN  IF text = <<>> THEN <<<<>>>>
        ELSE CASE text[1] = "\"" -> <<<<>>>>
               [] text[1] = "\\" -> Escape
               [] OTHER          -> Then(text[1], From(2))

=============================================================================
