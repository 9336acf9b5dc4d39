--------------------------- MODULE BulletinBoard ---------------------------
(***************************************************************************)
(* The bulletin board application, message by message: instances of the app *)
(* (myThriftApp/ViewController.m), which add a message and get the board on *)
(* every press of their button, and the server at the other end of their    *)
(* connections.  The server is gen-java/Server.java, which serves one       *)
(* connection after the other, or a TSocketServer, which has a thread per   *)
(* connection and one processor for all.  The service is BulletinBoardImpl, *)
(* or one that like it gives the list it keeps to the code that writes it.  *)
(*                                                                         *)
(* An instance has one connection, opened when it is launched and never     *)
(* closed by it.  addPressed catches nothing, so that an exception ends the *)
(* instance.  Instances are ended by their users at any time, the server    *)
(* ends and is started again, and what is on the way then may be lost.      *)
(***************************************************************************)
EXTENDS Integers, Sequences, SequencesExt, FiniteSets

CONSTANTS
    Apps,       \* instances of the app, each launched once
    Kinds,      \* the servers considered: "simple", "threads"
    MaxPresses, \* bound: presses of an instance
    MaxCrashes  \* bound: ends of the server

ASSUME BulletinBoardAssumption ==
    Kinds \subseteq {"simple", "threads"} /\ MaxPresses \in Nat /\ MaxCrashes \in Nat

VARIABLES
    kind,       \* which server it is
    up,         \* the server runs
    crashes,    \* how often it has ended
    board,      \* msgs of BulletinBoardImpl
    backlog,    \* connections that wait to be accepted
    threads,    \* per connection being served: where its processor is
    app,        \* per instance: new, idle, adding, added, getting, gone
    conn,       \* per instance: none, open, reset
    presses,    \* per instance: presses so far
    requests,   \* per connection: requests the server has not read
    replies,    \* per connection: replies the instance has not read
    rest,       \* per connection: messages the instance has left there unread
    shown       \* per instance: what its text view shows

serverVars == <<kind, up, crashes, board, backlog, threads>>
appVars == <<app, conn, presses, rest, shown>>
vars == <<serverVars, appVars, requests, replies>>

\* messages told apart by who sent them and when
Msg == Apps \X (1..MaxPresses)

Waiting(c) == app[c] \in {"adding", "getting"}

None == [pc |-> "none"]
Ready == [pc |-> "ready"]

TypeOK ==
    /\ kind \in Kinds /\ up \in BOOLEAN /\ crashes \in 0..MaxCrashes /\ board \in Seq(Msg)
    /\ backlog \in Seq(Apps)
    /\ \A c \in Apps :
          /\ app[c] \in {"new", "idle", "adding", "added", "getting", "gone"}
          /\ conn[c] \in {"none", "open", "reset"}
          /\ presses[c] \in 0..MaxPresses
          /\ threads[c].pc \in {"none", "ready", "call", "reply"}
          /\ Len(requests[c]) + Len(replies[c]) <= 1
          /\ rest[c] \in Nat /\ shown[c] \in Seq(Msg)

Init ==
    /\ kind \in Kinds /\ up = TRUE /\ crashes = 0 /\ board = <<>> /\ backlog = <<>>
    /\ threads = [c \in Apps |-> None]
    /\ app = [c \in Apps |-> "new"]
    /\ conn = [c \in Apps |-> "none"]
    /\ presses = [c \in Apps |-> 0]
    /\ requests = [c \in Apps |-> <<>>]
    /\ replies = [c \in Apps |-> <<>>]
    /\ rest = [c \in Apps |-> 0]
    /\ shown = [c \in Apps |-> <<>>]

-----------------------------------------------------------------------------
(* The app.                                                                 *)

\* viewDidLoad, and initWithHostname: the streams open or they do not; that
\* they have not is found at the first write
Launch(c) ==
    /\ app[c] = "new" /\ app' = [app EXCEPT ![c] = "idle"]
    /\ IF up
       THEN conn' = [conn EXCEPT ![c] = "open"] /\ backlog' = Append(backlog, c)
       ELSE conn' = [conn EXCEPT ![c] = "reset"] /\ UNCHANGED backlog
    /\ UNCHANGED <<kind, up, crashes, board, threads, presses, requests, replies, rest, shown>>

\* a write on an open connection, and what is to follow it; one on a broken
\* connection throws
Write(c, request, waiting) ==
    IF conn[c] = "open"
    THEN /\ requests' = [requests EXCEPT ![c] = Append(@, request)]
         /\ app' = [app EXCEPT ![c] = waiting]
    ELSE app' = [app EXCEPT ![c] = "gone"] /\ UNCHANGED requests

\* addPressed, as far as the answer of add
Press(c) ==
    /\ app[c] = "idle" /\ presses[c] < MaxPresses
    /\ presses' = [presses EXCEPT ![c] = @ + 1]
    /\ Write(c, [name |-> "add", msg |-> <<c, presses[c] + 1>>], "adding")
    /\ UNCHANGED <<serverVars, conn, replies, rest, shown>>

\* the answer of add, with nothing before it
Added(c) ==
    /\ app[c] = "adding" /\ replies[c] # <<>> /\ rest[c] = 0
    /\ replies' = [replies EXCEPT ![c] = <<>>]
    /\ app' = [app EXCEPT ![c] = "added"]
    /\ UNCHANGED <<serverVars, conn, presses, requests, rest, shown>>

\* the request of get
Ask(c) ==
    /\ app[c] = "added"
    /\ Write(c, [name |-> "get"], "getting")
    /\ UNCHANGED <<serverVars, conn, presses, replies, rest, shown>>

\* as many messages as the header of a list has announced are read
Taken(list, size) == SubSeq(list, 1, size)

\* the answer of get fills the text view; of the messages after those announced
\* the first is skipped as if it were fields of the result, the others are left,
\* and the end of the result
Show(c) ==
    /\ app[c] = "getting" /\ replies[c] # <<>>
    /\ LET reply == replies[c][1]
       IN  /\ shown' = [shown EXCEPT ![c] = Taken(reply.list, reply.size)]
           /\ rest' = [rest EXCEPT ![c] = Len(reply.list) - reply.size]
    /\ replies' = [replies EXCEPT ![c] = <<>>]
    /\ app' = [app EXCEPT ![c] = "idle"]
    /\ UNCHANGED <<serverVars, conn, presses, requests>>

\* "Missing version in readMessageBegin": what is left, four bytes with the next
\* answer or without it, does not begin a message
Misread(c) ==
    /\ app[c] = "adding" /\ (rest[c] > 1 \/ (rest[c] = 1 /\ replies[c] # <<>>))
    /\ app' = [app EXCEPT ![c] = "gone"]
    /\ replies' = [replies EXCEPT ![c] = <<>>]
    /\ UNCHANGED <<serverVars, conn, presses, requests, rest, shown>>

\* an instance that connects once more and carries on
BugBroken(c) ==
    /\ Waiting(c) /\ conn[c] = "reset" /\ replies[c] = <<>>
    /\ app' = [app EXCEPT ![c] = "idle"]
    /\ IF up
       THEN conn' = [conn EXCEPT ![c] = "open"] /\ backlog' = Append(backlog, c)
       ELSE UNCHANGED <<conn, backlog>>
    /\ UNCHANGED <<kind, up, crashes, board, threads, presses, requests, replies, rest, shown>>

\* readAll: "Cannot read. Remote side has closed."
Broken(c) ==
    /\ Waiting(c) /\ conn[c] = "reset" /\ replies[c] = <<>>
    /\ app' = [app EXCEPT ![c] = "gone"]
    /\ UNCHANGED <<serverVars, conn, presses, requests, replies, rest, shown>>

\* the user ends the instance; the requests it has written are still read
Quit(c) ==
    /\ app[c] \notin {"new", "gone"}
    /\ app' = [app EXCEPT ![c] = "gone"]
    /\ replies' = [replies EXCEPT ![c] = <<>>]
    /\ UNCHANGED <<serverVars, conn, presses, requests, rest, shown>>

-----------------------------------------------------------------------------
(* The server.                                                              *)

Served == {c \in Apps : threads[c] # None}

\* either server accepts a connection only when it serves none
BugAccept ==
    /\ up /\ backlog # <<>> /\ Served = {}
    /\ threads' = [threads EXCEPT ![Head(backlog)] = Ready]
    /\ backlog' = Tail(backlog)
    /\ UNCHANGED <<kind, up, crashes, board, appVars, requests, replies>>

\* either server accepts the next connection while it serves others
BugAcceptNext ==
    /\ up /\ backlog # <<>>
    /\ threads' = [threads EXCEPT ![Head(backlog)] = Ready]
    /\ backlog' = Tail(backlog)
    /\ UNCHANGED <<kind, up, crashes, board, appVars, requests, replies>>

\* TSimpleServer accepts when the last connection is finished; TSocketServer
\* starts a thread and has the next one accepted
Accept ==
    /\ up /\ backlog # <<>> /\ (kind = "simple" => Served = {})
    /\ threads' = [threads EXCEPT ![Head(backlog)] = Ready]
    /\ backlog' = Tail(backlog)
    /\ UNCHANGED <<kind, up, crashes, board, appVars, requests, replies>>

\* a request stays where it is until it has been answered
BugRead(c) ==
    /\ up /\ threads[c] = Ready /\ requests[c] # <<>>
    /\ threads' = [threads EXCEPT ![c] = [pc |-> "call", request |-> requests[c][1]]]
    /\ UNCHANGED <<kind, up, crashes, board, backlog, appVars, requests, replies>>

\* process: the request is read and its method looked up
Read(c) ==
    /\ up /\ threads[c] = Ready /\ requests[c] # <<>>
    /\ threads' = [threads EXCEPT ![c] = [pc |-> "call", request |-> requests[c][1]]]
    /\ requests' = [requests EXCEPT ![c] = <<>>]
    /\ UNCHANGED <<kind, up, crashes, board, backlog, appVars, replies>>

ServiceAdd(c) == board' = Append(board, threads[c].request.msg)

\* the service's own list, read when its messages are written
ServiceGet == board

\* the service is called; of a get, the header of the list is written
Call(c) ==
    /\ up /\ threads[c].pc = "call"
    /\ IF threads[c].request.name = "add"
       THEN /\ ServiceAdd(c)
            /\ threads' = [threads EXCEPT ![c] = [pc |-> "reply", name |-> "add"]]
       ELSE /\ threads' = [threads EXCEPT ![c] = [pc |-> "reply", name |-> "get",
                                                  size |-> Len(ServiceGet)]]
            /\ UNCHANGED board
    /\ UNCHANGED <<kind, up, crashes, backlog, appVars, requests, replies>>

\* the rest of the answer is written; to an instance that is gone it cannot be,
\* or it may go unread
Reply(c) ==
    /\ up /\ threads[c].pc = "reply"
    /\ replies' = IF app[c] = "gone" THEN replies
                  ELSE [replies EXCEPT ![c] =
                          <<IF threads[c].name = "add" THEN [name |-> "add"]
                            ELSE [name |-> "get", size |-> threads[c].size,
                                  list |-> ServiceGet]>>]
    /\ threads' = [threads EXCEPT ![c] = Ready]
    /\ UNCHANGED <<kind, up, crashes, board, backlog, appVars, requests>>

\* the transport exception of a read from an instance that is gone ends the
\* service of its connection
Finish(c) ==
    /\ up /\ threads[c] = Ready /\ requests[c] = <<>> /\ app[c] = "gone"
    /\ threads' = [threads EXCEPT ![c] = None]
    /\ UNCHANGED <<kind, up, crashes, board, backlog, appVars, requests, replies>>

\* replies already sent may or may not arrive
Crash ==
    /\ up /\ crashes < MaxCrashes /\ crashes' = crashes + 1
    /\ up' = FALSE /\ board' = <<>> /\ backlog' = <<>>
    /\ threads' = [c \in Apps |-> None]
    /\ conn' = [c \in Apps |-> IF conn[c] = "open" THEN "reset" ELSE conn[c]]
    /\ requests' = [c \in Apps |-> <<>>]
    /\ \E arrive \in SUBSET {c \in Apps : replies[c] # <<>>} :
          replies' = [c \in Apps |-> IF c \in arrive THEN replies[c] ELSE <<>>]
    /\ UNCHANGED <<kind, app, presses, rest, shown>>

Start ==
    /\ ~up /\ up' = TRUE
    /\ UNCHANGED <<kind, crashes, board, backlog, threads, appVars, requests, replies>>

-----------------------------------------------------------------------------

AppStep(c) == Added(c) \/ Ask(c) \/ Show(c) \/ Misread(c) \/ Broken(c)
User(c) == Launch(c) \/ Press(c) \/ Quit(c)
Thread(c) == Read(c) \/ Call(c) \/ Reply(c) \/ Finish(c)

Next == \/ \E c \in Apps : AppStep(c) \/ User(c) \/ Thread(c)
        \/ Accept \/ Crash \/ Start

Spec == Init /\ [][Next]_vars

\* The app's main thread and the server run; users do as they like, and the
\* server may stay down.
Fairness == /\ WF_vars(Accept)
            /\ \A c \in Apps : WF_vars(AppStep(c)) /\ WF_vars(Thread(c))

FairSpec == Spec /\ Fairness

-----------------------------------------------------------------------------
(* What is promised.                                                        *)

\* The calls take effect one at a time and once, whichever server it is, although
\* a list may grow while it is written: what a get returns is the board of when it
\* was counted.  Instances may end in the middle of a call, and the server.
Gotten(list, size) == [name |-> "get", list |-> Taken(list, size)]

\* the call of a connection that has had no effect yet, if there is one
CallOf(c) == IF threads[c].pc = "call" THEN <<threads[c].request>> ELSE requests[c]
Calls == [c \in Apps |-> CallOf(c)]

\* the result of its call, if there is one
ResultOf(c) ==
    IF threads[c].pc = "reply"
    THEN IF threads[c].name = "add" THEN <<[name |-> "add"]>> ELSE <<Gotten(board, threads[c].size)>>
    ELSE IF replies[c] = <<>> THEN <<>>
    ELSE IF replies[c][1].name = "add" THEN <<[name |-> "add"]>>
    ELSE <<Gotten(replies[c][1].list, replies[c][1].size)>>
Results == [c \in Apps |-> ResultOf(c)]

B == INSTANCE Board WITH
        Callers <- Apps, Msgs <- Msg,
        msgs <- board, calls <- Calls, results <- Results, seen <- shown
CallsAreAtomic == B!Spec

\* A list is written with as many messages as its header has announced where one
\* connection is served at a time.  Where there are threads it may have more, since
\* Get_result write: asks the live list for its count again, but never fewer: no
\* instance waits for messages that do not come.
ListsAreWhole ==
    \A c \in Apps : replies[c] # <<>> /\ replies[c][1].name = "get" =>
        /\ replies[c][1].size <= Len(replies[c][1].list)
        /\ kind = "simple" => replies[c][1].size = Len(replies[c][1].list)

\* What an instance shows only grows, and with each press by at least its own
\* message, in spite of a server that forgets its list when it ends: no
\* instance sees two lives of the server.
ShownGrows ==
    [][\A c \in Apps : shown'[c] # shown[c] =>
          IsPrefix(shown[c], shown'[c]) /\ <<c, presses[c]>> \in ToSet(shown'[c])]_vars

\* A press that never comes to an end has another instance to blame: one that
\* is not gone has the only connection that TSimpleServer serves.
PressesEnd ==
    \A c \in Apps :
        <>[]Waiting(c) =>
            kind = "simple" /\ <>[](\E d \in Served \ {c} : app[d] # "gone")

=============================================================================
