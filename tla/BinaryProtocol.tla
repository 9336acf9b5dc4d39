-------------------------- MODULE BinaryProtocol --------------------------
(***************************************************************************)
(* The binary protocol, from thrift/protocol/TBinaryProtocol.m, and the     *)
(* skipping of values nobody wants, from TProtocolUtil.m.  What is written  *)
(* is a sequence of bytes.  What is read is given by the buffer s and the   *)
(* position p it begins at: XAt(s, p) is the value, and AfterX(s, p) or     *)
(* SkipType(s, type, p) the position behind it.  The transport has nothing  *)
(* to give behind the end of s; a read that ends beyond it has not          *)
(* succeeded (Complete), whatever it returns.                               *)
(***************************************************************************)
EXTENDS Integers, Sequences, SequencesExt

Byte == 0..255

T_STOP      == 0
T_BOOL      == 2
T_BYTE      == 3
T_DOUBLE    == 4
T_I16       == 6
T_I32       == 8
T_I64       == 10
T_STRING    == 11
T_STRUCT    == 12
T_MAP       == 13
T_SET       == 14
T_LIST      == 15

T_CALL      == 1
T_REPLY     == 2
T_EXCEPTION == 3

-----------------------------------------------------------------------------
(* Writing.                                                                 *)

\* the higher bytes are not masked away
BugWriteI32(n) == <<n \div 16777216, n \div 65536, n \div 256, n>>

\* two's complement, the highest byte first
WriteI16(n) == <<(n \div 256) % 256, n % 256>>
WriteI32(n) == <<(n \div 16777216) % 256, (n \div 65536) % 256, (n \div 256) % 256, n % 256>>

\* the greatest number of four bytes
MaxI32 == 2147483647

\* text is sent as far as its first zero byte
CString(text) ==
    LET zeros == {i \in DOMAIN text : text[i] = 0}
    IN  IF zeros = {} THEN text ELSE SubSeq(text, 1, Min(zeros) - 1)

WriteString(text) == WriteI32(Len(CString(text))) \o CString(text)

WriteFieldBegin(type, id) == <<type>> \o WriteI16(id)

WriteFieldStop == <<T_STOP>>

WriteListBegin(type, size) == <<type>> \o WriteI32(size)

\* VERSION_1, with the type of the message in its low byte
VERSION_1 == <<128, 1, 0>>

\* written before the name and its type when the writer is not strict
BugWriteMessageBegin(strict, name, type, seqid) ==
    IF strict THEN VERSION_1 \o <<type>> \o WriteString(name) \o WriteI32(seqid)
    ELSE WriteString(name) \o WriteI32(seqid) \o <<type>>

WriteMessageBegin(strict, name, type, seqid) ==
    IF strict THEN VERSION_1 \o <<type>> \o WriteString(name) \o WriteI32(seqid)
    ELSE WriteString(name) \o <<type>> \o WriteI32(seqid)

-----------------------------------------------------------------------------
(* Reading.                                                                 *)

ByteAt(s, p) == IF p \in DOMAIN s THEN s[p] ELSE 0

Complete(s, end) == end <= Len(s) + 1

I16At(s, p) ==
    LET n == 256 * ByteAt(s, p) + ByteAt(s, p + 1) IN IF n < 32768 THEN n ELSE n - 65536

\* The highest byte says whether a number of four bytes is negative; lengths
\* and versions are told apart by it.
NegativeAt(s, p) == ByteAt(s, p) >= 128
I32At(s, p) ==
    IF NegativeAt(s, p) THEN -1
    ELSE 16777216 * ByteAt(s, p) + 65536 * ByteAt(s, p + 1) + 256 * ByteAt(s, p + 2)
            + ByteAt(s, p + 3)

StringBodyAt(s, p, size) == CString([i \in 1..size |-> ByteAt(s, p + i - 1)])
StringAt(s, p) == StringBodyAt(s, p + 4, I32At(s, p))
AfterString(s, p) == p + 4 + I32At(s, p)

FieldTypeAt(s, p) == ByteAt(s, p)
FieldIdAt(s, p) == I16At(s, p + 1)
AfterFieldBegin(p) == p + 3

\* how many bytes the types of fixed size have
Width == [t \in {T_BOOL, T_BYTE, T_I16, T_I32, T_I64, T_DOUBLE} |->
            CASE t \in {T_BOOL, T_BYTE} -> 1 [] t = T_I16 -> 2
              [] t = T_I32 -> 4 [] OTHER -> 8]

\* a loop: a step done n times from start on, not at all when n is negative
Repeat(step, start, n) ==
    LET at[i \in Nat] == IF i = 0 THEN start ELSE step[at[i - 1]]
    IN  IF n <= 0 THEN start ELSE at[n]

\* skipType, by cases; end says where the values within a value end.  A
\* structure is a field and what is left of the structure behind it.
StructBody(s, end, p) ==
    IF FieldTypeAt(s, p) = T_STOP THEN p + 1
    ELSE end[<<T_STRUCT, end[<<FieldTypeAt(s, p), AfterFieldBegin(p)>>]>>]
ListBody(s, end, p) ==
    Repeat([q \in Nat |-> end[<<ByteAt(s, p), q>>]], p + 5, I32At(s, p + 1))
MapBody(s, end, p) ==
    Repeat([q \in Nat |-> end[<<ByteAt(s, p + 1), end[<<ByteAt(s, p), q>>]>>]],
           p + 6, I32At(s, p + 2))

\* The position behind a value of the type.  Of a type that skipType does not
\* know it reads nothing.
SkipBody(s, end, type, p) ==
    CASE type \in DOMAIN Width -> p + Width[type]
      [] type = T_STRING -> AfterString(s, p)
      [] type = T_STRUCT -> StructBody(s, end, p)
      [] type \in {T_SET, T_LIST} -> ListBody(s, end, p)
      [] type = T_MAP -> MapBody(s, end, p)
      [] OTHER -> p
Ends(s) ==
    LET end[value \in Byte \X Nat] == SkipBody(s, end, value[1], value[2])
    IN  end
SkipType(s, type, p) == Ends(s)[<<type, p>>]

\* readMessageBegin: what it makes of the header at p.  A header without
\* version is the name's length; one with a version has the type in the byte
\* that VERSION_MASK has just cleared, so that the type read is always 0.
MessageBegin(strict, s, p) ==
    IF NegativeAt(s, p)
    THEN IF SubSeq(s, p, p + 1) # SubSeq(VERSION_1, 1, 2) THEN [error |-> "bad version"]
         ELSE [error |-> "none", type |-> 0, name |-> StringAt(s, p + 4),
               end |-> AfterString(s, p + 4) + 4]
    ELSE IF strict THEN [error |-> "missing version"]
         ELSE [error |-> "none", type |-> ByteAt(s, AfterString(s, p)),
               name |-> StringAt(s, p), end |-> AfterString(s, p) + 5]

-----------------------------------------------------------------------------
(* The libraries of the other languages, as the generated code uses them:   *)
(* they write the version and read the type from it; Java's strings may     *)
(* hold zero bytes, and c_glib's library insists on a version.              *)

LibWriteString(text) == WriteI32(Len(text)) \o text
LibStringAt(s, p) == [i \in 1..I32At(s, p) |-> ByteAt(s, p + 3 + i)]

LibWriteMessageBegin(name, type, seqid) == WriteMessageBegin(TRUE, name, type, seqid)

WithType(h, s, p) ==
    IF h.error = "none" /\ NegativeAt(s, p) THEN [h EXCEPT !.type = ByteAt(s, p + 3)] ELSE h
LibMessageBegin(strict, s, p) == WithType(MessageBegin(strict, s, p), s, p)

=============================================================================
