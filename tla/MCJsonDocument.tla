--------------------------- MODULE MCJsonDocument ---------------------------
(* JsonDocument with two names, Values at the limits of their types and     *)
(* short documents.                                                         *)
EXTENDS JsonDocument, TLC

MCCharOrder == <<"\n", "\"", "%", "1", "[", "&#92;", "&quot;", "\\", "]", "a">>

MCNames    == {<<>>, <<"a">>}
MCComments == {[text |-> "y", style |-> "/*", nl |-> FALSE]}
MCIndexes  == {0, 2}
MCLeaves   ==
    {Null, Default(arrayValue), Default(objectValue), Str(<<"\"", "\\">>),
     Number(realValue, -1256)}
MCScalars  ==
    {Default(stringValue), Bool(TRUE),
     Number(intValue, minInt), Number(uintValue, MaxInt), Number(uintValue, maxUInt),
     Number(int64Value, maxUInt + 2),
     \* "1234.57" and "-1234567.89", which the buffer cuts
     Number(realValue, 1234567), Number(realValue, -1234567891)}
MCPaths     == {<<"a", "[", "1", "]">>, <<"[", "%", "]">>, <<"%", ".", "a">>}
MCArguments == {<<>>, <<Index(0)>>, <<Key(<<"a">>)>>}

Punctuation == {Token(k) : k \in {"{", "}", "[", "]", ",", ":"}}
MCTokens   == Punctuation \cup {StringToken(n) : n \in MCNames}
              \cup {NumberToken(<<"1">>), LineEnd}
              \cup {CommentToken(c) : c \in MCComments}

=============================================================================
