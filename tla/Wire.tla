------------------------------- MODULE Wire -------------------------------
(***************************************************************************)
(* One client of the bulletin board and the server at the other end of its  *)
(* connection, byte by byte: what each call writes, what the processor      *)
(* makes of it and writes back, and what the client makes of that, for the  *)
(* clients of all three languages, Java's asynchronous one included, and    *)
(* for processors in Java and Cocoa.                                        *)
(*                                                                         *)
(* A Cocoa client's transport may be THTTPClient: flush sends what was      *)
(* written as one POST and keeps the body of the answer for the reads that  *)
(* follow, and the request may fail.                                        *)
(***************************************************************************)
EXTENDS IdlStructs, FiniteSets

CONSTANTS
    Messages,   \* the messages added; text and date are sequences of bytes
    Links,      \* the connections considered, see Link
    MaxCalls    \* bound: calls the client makes

\* names of methods, as short as they can be told apart
ADD == <<97>>
GET == <<103>>

\* lang, server: the languages; scheme: "tuple" for Java's tuple protocol;
\* strict: strictRead and strictWrite of a Cocoa client; http: it uses
\* THTTPClient; methods: those the server knows; extra: the type of a field
\* that a later version of the server adds to Message, T_STOP for none
Link == [lang : {"cocoa", "glib", "java", "async"}, server : {"java", "cocoa"},
         scheme : {"standard", "tuple"}, strict : BOOLEAN, http : BOOLEAN,
         methods : SUBSET {ADD, GET}, extra : {T_STOP, T_LIST, T_MAP} \cup DOMAIN Width]

\* the tuple protocol is Java's, for clients and servers of one version
ASSUME LinksAssumption ==
    /\ Links \subseteq Link
    /\ \A k \in Links : k.scheme = "tuple" =>
          k.lang \in {"java", "async"} /\ k.server = "java" /\ k.methods = {ADD, GET}

IsField(f) == f \in Seq(Seq(Byte)) /\ Len(f) <= 1
IsMessage(m) ==
    /\ m \in [text : Seq(Seq(Byte)), date : Seq(Seq(Byte))]
    /\ IsField(m.text) /\ IsField(m.date)

\* lengths are numbers of four bytes
Short(f) == f # <<>> => Len(f[1]) <= MaxI32

ASSUME MessagesAssumption ==
    \A m \in Messages : IsMessage(m) /\ Short(m.text) /\ Short(m.date)

ASSUME MaxCallsAssumption == MaxCalls \in 0..MaxI32

VARIABLES
    link,       \* the connection
    pc,         \* of the client: idle, sent or answered
    out,        \* bytes written that the server has not read
    inp,        \* bytes of answers the client has not read
    seqid,      \* TServiceClient.seqid_
    board,      \* BulletinBoardImpl.msgs
    call,       \* the call under way: its name and its argument, if any
    done        \* history: the calls made, with their argument and outcome

vars == <<link, pc, out, inp, seqid, board, call, done>>

Outcomes == {"ok", "exception", "missing result", "bad sequence id",
             "wrong method name", "missing version", "bad version", "failed"}

TypeOK ==
    /\ link \in Links /\ pc \in {"idle", "sent", "answered"}
    /\ out \in Seq(Byte) /\ inp \in Seq(Byte) /\ seqid \in Nat
    /\ \A i \in DOMAIN board : IsMessage(board[i])
    /\ call.name \in {ADD, GET} /\ IsMessage(call.msg)
    /\ \A i \in DOMAIN done : done[i].name \in {ADD, GET} /\ done[i].out \in Outcomes

Init ==
    /\ link \in Links
    /\ pc = "idle" /\ out = <<>> /\ inp = <<>> /\ seqid = 0 /\ board = <<>>
    /\ call = [name |-> GET, msg |-> NoMessage] /\ done = <<>>

-----------------------------------------------------------------------------
(* The clients: send_add and send_get.                                      *)

CocoaSendAdd(m) == WriteMessageBegin(link.strict, ADD, T_CALL, 0) \o CocoaAddArgsWrite(<<m>>)
CocoaSendGet == WriteMessageBegin(link.strict, GET, T_CALL, 0) \o CocoaGetArgsWrite

GlibSendAdd(m) == LibWriteMessageBegin(ADD, T_CALL, 0) \o GlibAddArgsWrite(m)
GlibSendGet == LibWriteMessageBegin(GET, T_CALL, 0) \o GlibGetArgsWrite

JavaSendAdd(m, id) ==
    LibWriteMessageBegin(ADD, T_CALL, id) \o
    IF link.scheme = "tuple" THEN JavaAddArgsTuple(<<m>>) ELSE JavaAddArgsWrite(<<m>>)
JavaSendGet(id) ==
    LibWriteMessageBegin(GET, T_CALL, id) \o
    IF link.scheme = "tuple" THEN <<>> ELSE JavaGetArgsWrite

\* the asynchronous calls have number 0, as has the client that reads them
AsyncSendAdd(m) == JavaSendAdd(m, 0)
AsyncSendGet == JavaSendGet(0)

Request(name, m, id) ==
    CASE link.lang = "cocoa" -> IF name = ADD THEN CocoaSendAdd(m) ELSE CocoaSendGet
      [] link.lang = "glib"  -> IF name = ADD THEN GlibSendAdd(m) ELSE GlibSendGet
      [] link.lang = "java"  -> IF name = ADD THEN JavaSendAdd(m, id) ELSE JavaSendGet(id)
      [] link.lang = "async" -> IF name = ADD THEN AsyncSendAdd(m) ELSE AsyncSendGet

\* sendBase counts the calls of a Java client
NextId == IF link.lang = "java" THEN seqid + 1 ELSE 0

Send(name, m) ==
    /\ pc = "idle" /\ Len(done) < MaxCalls
    /\ out' = out \o Request(name, m, NextId)
    /\ seqid' = NextId /\ pc' = "sent" /\ call' = [name |-> name, msg |-> m]
    /\ UNCHANGED <<link, inp, board, done>>

-----------------------------------------------------------------------------
(* The processors.                                                          *)

\* a Message of a server whose version of it has one field more
ExtraValue ==
    CASE link.extra = T_LIST -> WriteListBegin(T_I16, 2) \o WriteI16(1) \o WriteI16(11)
      [] link.extra = T_MAP -> <<T_STRING, T_I32>> \o WriteI32(1) \o
                               LibWriteString(<<1>>) \o WriteI32(258)
      [] OTHER -> SubSeq(<<11, 1, 11, 1, 11, 1, 11, 1>>, 1, Width[link.extra])
Extra == IF link.extra = T_STOP THEN <<>> ELSE WriteFieldBegin(link.extra, 3) \o ExtraValue
Extended(fields) == Extra \o fields
JavaServerMessage(m) == Extended(JavaMessageWrite(m))
CocoaServerMessage(m) == Extended(CocoaMessageWrite(m))

AppExceptionWrite(reason, type) ==
    Field(1, T_STRING, WriteString, <<reason>>) \o Field(2, T_I32, WriteI32, <<type>>) \o
    WriteFieldStop

\* what a processor leaves behind: how much it has read, its answer, the board
Processed(end, reply, msgs) == [end |-> end, reply |-> reply, board |-> msgs]

\* seqid of the request, the last of its header
SeqidBefore(s, end) == I32At(s, end - 4)

CocoaProcessAdd(s, p, id) ==
    Processed(SkipType(s, T_STRUCT, p),
              WriteMessageBegin(FALSE, ADD, T_REPLY, id) \o CocoaAddResultWrite,
              board \o CocoaAddArgsAt(s, p))
CocoaProcessGet(s, p, id) ==
    Processed(SkipType(s, T_STRUCT, p),
              WriteMessageBegin(FALSE, GET, T_REPLY, id) \o
                  CocoaGetResultWrite(CocoaServerMessage, <<board>>),
              board)

\* processOnInputProtocol, over protocols made by TBinaryProtocolFactory
CocoaDispatch(s, h, id) ==
    IF h.name \notin link.methods
    THEN Processed(SkipType(s, T_STRUCT, h.end),
                   WriteMessageBegin(FALSE, h.name, T_EXCEPTION, id) \o AppExceptionWrite(h.name, 1),
                   board)
    ELSE IF h.name = ADD THEN CocoaProcessAdd(s, h.end, id) ELSE CocoaProcessGet(s, h.end, id)
CocoaProcessFrom(s, h) == CocoaDispatch(s, h, SeqidBefore(s, h.end))
CocoaProcess(s) == CocoaProcessFrom(s, MessageBegin(FALSE, s, 1))

JavaProcessAdd(s, p, id) ==
    IF link.scheme = "tuple"
    THEN Processed(IF BitAt(s, p, 1) THEN AfterMessageTuple(s, p + 1) ELSE p + 1,
                   LibWriteMessageBegin(ADD, T_REPLY, id), board \o JavaAddArgsTupleAt(s, p))
    ELSE Processed(SkipType(s, T_STRUCT, p),
                   LibWriteMessageBegin(ADD, T_REPLY, id) \o JavaAddResultWrite,
                   board \o JavaAddArgsAt(s, p))
JavaProcessGet(s, p, id) ==
    IF link.scheme = "tuple"
    THEN Processed(p, LibWriteMessageBegin(GET, T_REPLY, id) \o JavaGetResultTuple(<<board>>), board)
    ELSE Processed(SkipType(s, T_STRUCT, p),
                   LibWriteMessageBegin(GET, T_REPLY, id) \o
                       JavaGetResultWrite(JavaServerMessage, <<board>>),
                   board)

\* TBaseProcessor.process
JavaDispatch(s, h, id) ==
    IF h.name \notin link.methods
    THEN Processed(SkipType(s, T_STRUCT, h.end),
                   LibWriteMessageBegin(h.name, T_EXCEPTION, id) \o AppExceptionWrite(h.name, 1),
                   board)
    ELSE IF h.name = ADD THEN JavaProcessAdd(s, h.end, id) ELSE JavaProcessGet(s, h.end, id)
JavaProcessFrom(s, h) == JavaDispatch(s, h, SeqidBefore(s, h.end))
JavaProcess(s) == JavaProcessFrom(s, LibMessageBegin(FALSE, s, 1))

Process(s) == IF link.server = "java" THEN JavaProcess(s) ELSE CocoaProcess(s)

\* a server reads a request from its connection and answers it
Serve ==
    /\ pc = "sent" /\ ~link.http /\ out # <<>>
    /\ \E r \in {Process(out)} :
          /\ Complete(out, r.end)
          /\ out' = SubSeq(out, r.end, Len(out))
          /\ inp' = inp \o r.reply
          /\ board' = r.board
    /\ pc' = "answered"
    /\ UNCHANGED <<link, seqid, call, done>>

-----------------------------------------------------------------------------
(* THTTPClient.                                                             *)

\* flush: what was written is the body of the request ...
HttpFlush ==
    /\ pc = "sent" /\ link.http
    /\ \E r \in {Process(out)} : inp' = r.reply /\ board' = r.board
    /\ out' = <<>> /\ pc' = "answered"
    /\ UNCHANGED <<link, seqid, call, done>>

\* what was written is forgotten only when the answer is there
BugHttpFail ==
    /\ pc = "sent" /\ link.http
    /\ UNCHANGED <<board, out>>
    /\ pc' = "idle" /\ done' = Append(done, [name |-> call.name, msg |-> call.msg,
                                             out |-> "failed", val |-> <<>>])
    /\ UNCHANGED <<link, inp, seqid, call>>

\* ... and is forgotten whether it was answered or not.  The request is lost,
\* or its answer is, or the answer is not 200: the old response stays.
HttpFail ==
    /\ pc = "sent" /\ link.http
    /\ \/ UNCHANGED board
       \/ \E r \in {Process(out)} : board' = r.board
    /\ out' = <<>>
    /\ pc' = "idle" /\ done' = Append(done, [name |-> call.name, msg |-> call.msg,
                                             out |-> "failed", val |-> <<>>])
    /\ UNCHANGED <<link, inp, seqid, call>>

-----------------------------------------------------------------------------
(* The clients: recv_add and recv_get.  An answer read is its outcome, the  *)
(* position behind it and, of get, the messages.                            *)

Answer(outcome, end, val) == [out |-> outcome, end |-> end, val |-> val]

\* readMessageBegin gives up behind the first number
Refused(h) == Answer(h.error, 5, <<>>)

\* TApplicationException read:, which every client reads to its end
AppException(s, p) == Answer("exception", SkipType(s, T_STRUCT, p), <<>>)

\* A header is refused, announces an exception or the rest of an answer.
Headed(s, h, rest) ==
    IF h.error # "none" THEN Refused(h)
    ELSE IF h.type = T_EXCEPTION THEN AppException(s, h.end)
    ELSE rest

CocoaAdded(s, h) == Headed(s, h, Answer("ok", SkipType(s, T_STRUCT, h.end), <<>>))

\* a client that is strict whatever it was told to be
BugCocoaRecvAdd(s) == CocoaAdded(s, MessageBegin(TRUE, s, 1))

CocoaRecvAdd(s) == CocoaAdded(s, MessageBegin(link.strict, s, 1))

Result(end, success) ==
    Answer(IF success = <<>> THEN "missing result" ELSE "ok", end, success)

CocoaGot(s, h) ==
    Headed(s, h, Result(SkipType(s, T_STRUCT, h.end), CocoaGetResultAt(s, h.end)))
CocoaRecvGet(s) == CocoaGot(s, MessageBegin(link.strict, s, 1))

\* the two functions of bulletin_board.c differ in the result they read; a
\* get without one returns the caller's array as it was
GlibAnswer(s, h, name, val) ==
    Headed(s, h, Answer(IF h.name = name THEN "ok" ELSE "wrong method name",
                        SkipType(s, T_STRUCT, h.end), IF h.name = name THEN val ELSE <<>>))
GlibGot(s, h) == GlibAnswer(s, h, GET, <<GlibGetResultAt(s, h.end)>>)
GlibRecvAdd(s) == GlibAnswer(s, LibMessageBegin(TRUE, s, 1), ADD, <<>>)
GlibRecvGet(s) == GlibGot(s, LibMessageBegin(TRUE, s, 1))

\* receiveBase, with the number the client expects
JavaRecv(s, h, id, answer) ==
    Headed(s, h, IF SeqidBefore(s, h.end) # id THEN Answer("bad sequence id", h.end, <<>>)
                 ELSE answer)

JavaAdded(s, h, id) ==
    JavaRecv(s, h, id,
             Answer("ok", IF link.scheme = "tuple" THEN h.end ELSE SkipType(s, T_STRUCT, h.end), <<>>))
JavaRecvAdd(s, id) == JavaAdded(s, LibMessageBegin(FALSE, s, 1), id)

JavaGot(s, h, id) ==
    JavaRecv(s, h, id,
             IF link.scheme = "tuple"
             THEN Result(AfterGetResultTuple(s, h.end), JavaGetResultTupleAt(s, h.end))
             ELSE Result(SkipType(s, T_STRUCT, h.end), JavaGetResultAt(s, h.end)))
JavaRecvGet(s, id) == JavaGot(s, LibMessageBegin(FALSE, s, 1), id)

\* getResult: a new Client reads the frame
ExpectedId == IF link.lang = "async" THEN 0 ELSE seqid

Received(s) ==
    CASE link.lang = "cocoa" -> IF call.name = ADD THEN CocoaRecvAdd(s) ELSE CocoaRecvGet(s)
      [] link.lang = "glib"  -> IF call.name = ADD THEN GlibRecvAdd(s) ELSE GlibRecvGet(s)
      [] link.lang \in {"java", "async"} ->
            IF call.name = ADD THEN JavaRecvAdd(s, ExpectedId) ELSE JavaRecvGet(s, ExpectedId)

Recv ==
    /\ pc = "answered"
    /\ \E r \in {Received(inp)} :
          /\ Complete(inp, r.end)
          /\ inp' = SubSeq(inp, r.end, Len(inp))
          /\ done' = Append(done, [name |-> call.name, msg |-> call.msg,
                                   out |-> r.out, val |-> r.val])
    /\ pc' = "idle"
    /\ UNCHANGED <<link, out, seqid, board, call>>

Next == \/ \E m \in Messages : Send(ADD, m)
        \/ Send(GET, NoMessage)
        \/ Serve \/ HttpFlush \/ HttpFail \/ Recv

Spec == Init /\ [][Next]_vars

-----------------------------------------------------------------------------
(* What is promised.                                                        *)

\* What is left of a field on its way: c_glib's client sends one that is not
\* set as an empty string, and only Java's writes, reads and keeps what is
\* behind a zero byte.
KeptField(f) ==
    IF {link.lang, link.server} \subseteq {"java", "async"} THEN f
    ELSE IF f # <<>> THEN <<CString(f[1])>>
    ELSE IF link.lang = "glib" THEN <<<<>>>> ELSE f
KeptMessage(m) == [text |-> KeptField(m.text), date |-> KeptField(m.date)]

Refusals == {"missing version", "bad version"}

NoneRefused == \A i \in DOMAIN done : done[i].out \notin Refusals

\* A client and a server stay in step: neither waits for bytes that the other
\* does not send, and between two calls each has read what the other wrote, to
\* the last byte, whatever was answered, an exception or fields of a later
\* version included.  Only a client that refuses an answer for want of a
\* version leaves it half read.
InStep == NoneRefused =>
    /\ pc = "sent" => Complete(out, Process(out).end)
    /\ pc = "answered" => Complete(inp, Received(inp).end)
    /\ pc = "idle" => out = <<>> /\ inp = <<>>

\* Refusals come only from a client that insists on versions to a server whose
\* protocols come from the factory and write none (TBinaryProtocol.m:40).
OnlyStrictRefuse ==
    \A i \in DOMAIN done : done[i].out \in Refusals =>
        link.server = "cocoa" /\ (link.lang = "glib" \/ (link.lang = "cocoa" /\ link.strict))

\* the adds that had one of these outcomes
AddsOf(outcomes) == {i \in DOMAIN done : done[i].name = ADD /\ done[i].out \in outcomes}

\* a Cocoa client takes the exception of a server that writes versions for an
\* answer: the type it reads is always 0 (TBinaryProtocol.m:121)
ExceptionLost == link.lang = "cocoa" /\ link.server = "java"

\* the message of each of these calls, in their order
MessagesOf(calls) ==
    FlattenSeq([i \in DOMAIN done |->
                   IF i \in calls THEN <<KeptMessage(done[i].msg)>> ELSE <<>>])

\* the add that is answered and not yet read
Under == IF pc = "answered" /\ call.name = ADD /\ ADD \in link.methods
         THEN <<KeptMessage(call.msg)>> ELSE <<>>

\* An add that returns has been done, once, and the board holds the messages
\* added, in the order of the calls; one that fails in flush may have been done
\* or not.  An add the server knows nothing of is not done and does not return,
\* but where its exception is lost.
BoardIsTheAdds ==
    NoneRefused =>
        \E did \in SUBSET AddsOf({"ok", "failed"}) :
            /\ board = MessagesOf(did) \o Under
            /\ IF ADD \in link.methods THEN AddsOf({"ok"}) \subseteq did
               ELSE did = {} /\ (AddsOf({"ok"}) = {} \/ ExceptionLost)

\* A get that returns the board returns it as it is, in its order.
GetIsTheBoard ==
    (pc = "idle" /\ NoneRefused /\ done # <<>>
        /\ Last(done).name = GET /\ Last(done).out = "ok") =>
        /\ Len(Last(done).val[1]) = Len(board)
        /\ \A i \in DOMAIN board :
              LET seen(f) == IF link.lang \in {"java", "async"} \/ f = <<>> THEN f
                             ELSE <<CString(f[1])>>
              IN  Last(done).val[1][i] = [text |-> seen(board[i].text), date |-> seen(board[i].date)]

\* equals and compareTo of the Java classes agree, on messages and on what holds
\* them: 0 exactly for equal ones, and the opposite sign the other way round.
OrdersAgree ==
    \A i, j \in DOMAIN done :
        LET a == done[i].msg  b == done[j].msg  x == done[i].val  y == done[j].val
        IN  /\ JavaMessageEquals(a, b) <=> JavaMessageCompareTo(a, b) = 0
            /\ JavaMessageCompareTo(a, b) = -JavaMessageCompareTo(b, a)
            /\ JavaAddArgsEquals(<<a>>, <<b>>) <=> JavaAddArgsCompareTo(<<a>>, <<b>>) = 0
            /\ JavaGetResultEquals(x, y) <=> JavaGetResultCompareTo(x, y) = 0
            /\ JavaGetResultCompareTo(x, y) = -JavaGetResultCompareTo(y, x)
            /\ JavaMessageEquals(a, JavaMessageCopy(a))

=============================================================================
