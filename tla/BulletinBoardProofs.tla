------------------------ MODULE BulletinBoardProofs ------------------------
(***************************************************************************)
(* What holds of the bulletin board for every number of instances of the    *)
(* app, presses and ends of the server.                                     *)
(***************************************************************************)
EXTENDS BulletinBoard, TLAPS

-----------------------------------------------------------------------------
(* The inductive invariant.                                                 *)

Request == [name : {"add"}, msg : Msg] \cup [name : {"get"}]
Result  == [name : {"add"}] \cup [name : {"get"}, size : Nat, list : Seq(Msg)]
Thread_ == {None, Ready} \cup [pc : {"call"}, request : Request]
           \cup [pc : {"reply"}, name : {"add"}]
           \cup [pc : {"reply"}, name : {"get"}, size : Nat]

\* TypeOK with what requests, replies and threads consist of
Types ==
    /\ kind \in Kinds /\ up \in BOOLEAN /\ crashes \in 0..MaxCrashes
    /\ board \in Seq(Msg) /\ backlog \in Seq(Apps)
    /\ app \in [Apps -> {"new", "idle", "adding", "added", "getting", "gone"}]
    /\ conn \in [Apps -> {"none", "open", "reset"}]
    /\ presses \in [Apps -> 0..MaxPresses]
    /\ threads \in [Apps -> Thread_]
    /\ requests \in [Apps -> {<<>>} \cup {<<q>> : q \in Request}]
    /\ replies \in [Apps -> {<<>>} \cup {<<r>> : r \in Result}]
    /\ rest \in [Apps -> Nat] /\ shown \in [Apps -> Seq(Msg)]

Resting(c) == threads[c].pc \in {"none", "ready"}

\* An instance has one call under way at most, and it is where it says: as
\* a request, in a thread or as a reply.
OneCall(c) ==
    /\ app[c] \in {"new", "idle", "added"} =>
          requests[c] = <<>> /\ replies[c] = <<>> /\ Resting(c)
    /\ app[c] = "gone" => replies[c] = <<>>
    /\ requests[c] # <<>> => replies[c] = <<>> /\ Resting(c)
    /\ replies[c] # <<>> => Resting(c)

Named(c, name) ==
    /\ requests[c] # <<>> => requests[c][1].name = name
    /\ threads[c].pc = "call" => threads[c].request.name = name
    /\ threads[c].pc = "reply" => threads[c].name = name
    /\ replies[c] # <<>> => replies[c][1].name = name

CallsMatch(c) == /\ app[c] = "adding" => Named(c, "add")
                 /\ app[c] = "getting" => Named(c, "get")

\* A connection that waits to be accepted is not served, and waits once.
Queue ==
    /\ \A c \in Apps : app[c] = "new" => threads[c] = None
    /\ \A i \in 1..Len(backlog) : app[backlog[i]] # "new" /\ threads[backlog[i]] = None
    /\ \A i, j \in 1..Len(backlog) : backlog[i] = backlog[j] => i = j

\* TSimpleServer serves one connection.
Single ==
    kind = "simple" =>
        \A c, d \in Apps : threads[c] # None /\ threads[d] # None => c = d

\* A list that has been counted has not become shorter since, and where one
\* connection is served not longer.
Counted(size, list) ==
    size <= Len(list) /\ (kind = "simple" => size = Len(list))

Sizes ==
    \A c \in Apps :
        /\ threads[c].pc = "reply" /\ threads[c].name = "get" =>
              Counted(threads[c].size, board)
        /\ replies[c] # <<>> /\ replies[c][1].name = "get" =>
              Counted(replies[c][1].size, replies[c][1].list)

IInv == /\ Types
        /\ \A c \in Apps : OneCall(c) /\ CallsMatch(c)
        /\ Queue /\ Single /\ Sizes

\* What Types says of single elements.
LEMMA Elements ==
    ASSUME Types
    PROVE  /\ \A i \in 1..Len(backlog) : backlog[i] \in Apps
           /\ \A c \in Apps : /\ threads[c] \in Thread_
                              /\ requests[c] # <<>> =>
                                    requests[c][1] \in Request /\ requests[c] = <<requests[c][1]>>
                              /\ replies[c] # <<>> =>
                                    replies[c][1] \in Result /\ replies[c] = <<replies[c][1]>>
BY DEF Types

LEMMA ThreadParts ==
    ASSUME NEW t \in Thread_
    PROVE  /\ t.pc \in {"none", "ready", "call", "reply"}
           /\ t.pc = "none" => t = None
           /\ t.pc = "ready" => t = Ready
           /\ t.pc = "call" => t.request \in Request
           /\ t.pc = "reply" => t.name \in {"add", "get"}
           /\ t.pc = "reply" /\ t.name = "get" => t.size \in Nat
BY DEF Thread_, None, Ready

LEMMA RequestParts ==
    ASSUME NEW q \in Request
    PROVE  q.name \in {"add", "get"} /\ (q.name = "add" => q.msg \in Msg)
BY DEF Request

\* Connections go on waiting in the queue, and the simple server goes on serving
\* one, in a step that takes no connection from the queue and serves no other.
LEMMA QueueStays ==
    ASSUME Types, Queue, backlog' = backlog,
           \A d \in Apps : /\ app'[d] = "new" => app[d] = "new"
                           /\ threads[d] = None => threads'[d] = None
    PROVE  Queue'
<1>1. \A d \in Apps : app'[d] = "new" => threads'[d] = None
    BY DEF Queue
<1>2. ASSUME NEW i \in 1..Len(backlog)
      PROVE  app'[backlog[i]] # "new" /\ threads'[backlog[i]] = None
  <2>1. backlog[i] \in Apps
      BY Elements
  <2>2. app[backlog[i]] # "new" /\ threads[backlog[i]] = None
      BY DEF Queue
  <2>3. QED
      BY <2>1, <2>2
<1>3. QED
    BY <1>1, <1>2 DEF Queue

LEMMA SingleStays ==
    ASSUME Single, kind' = kind, \A d \in Apps : threads[d] = None => threads'[d] = None
    PROVE  Single'
BY DEF Single

\* A request written on an open connection is the only one there.
LEMMA Written ==
    ASSUME IInv, NEW c \in Apps, app[c] \in {"idle", "added"},
           NEW q \in Request, NEW waiting \in {"adding", "getting"}, Write(c, q, waiting)
    PROVE  \/ /\ conn[c] = "open"
              /\ requests' = [requests EXCEPT ![c] = <<q>>]
              /\ app' = [app EXCEPT ![c] = waiting]
           \/ /\ conn[c] # "open"
              /\ requests' = requests
              /\ app' = [app EXCEPT ![c] = "gone"]
<1>1. requests[c] = <<>>
    BY DEF IInv, OneCall
<1>2. Append(requests[c], q) = <<q>>
    BY <1>1
<1>3. QED
    BY <1>2 DEF Write, IInv, Types

LEMMA InitIInv == Init => IInv
<1> SUFFICES ASSUME Init PROVE IInv
    OBVIOUS
<1> USE DEF Init, None
<1>1. Types
    BY BulletinBoardAssumption DEF Types, Thread_
<1>2. \A c \in Apps : OneCall(c) /\ CallsMatch(c)
    BY DEF OneCall, CallsMatch, Resting
<1>3. Queue /\ Single /\ Sizes
    BY DEF Queue, Single, Sizes
<1>4. QED
    BY <1>1, <1>2, <1>3 DEF IInv

-----------------------------------------------------------------------------
(* Every step keeps it.                                                     *)

\* A step of an instance concerns its own entries and leaves the server
\* alone, but for the queue that a launch joins.
LEMMA AppKeepsIInv ==
    ASSUME IInv, NEW c \in Apps, AppStep(c) \/ User(c)
    PROVE  IInv'
<1> USE DEF IInv
<1>1. CASE Launch(c)
  <2>1. Types'
    <3>1. backlog' \in Seq(Apps)
      <4>1. Append(backlog, c) \in Seq(Apps) /\ backlog \in Seq(Apps)
          BY DEF Types
      <4>2. backlog' = Append(backlog, c) \/ backlog' = backlog
          BY <1>1 DEF Launch
      <4>3. QED
          BY <4>1, <4>2
    <3>2. conn' \in [Apps -> {"none", "open", "reset"}]
        BY <1>1 DEF Launch, Types
    <3>3. QED
        BY <1>1, <3>1, <3>2 DEF Launch, Types
  <2>2. \A d \in Apps : OneCall(d)' /\ CallsMatch(d)'
      BY <1>1 DEF Launch, OneCall, CallsMatch, Named, Resting, Types
  <2>3. Queue'
    <3>1. \A i \in 1..Len(backlog) : backlog[i] \in Apps \ {c}
        BY <1>1, Elements DEF Launch, Queue
    <3>2. CASE up
      <4>1. backlog' = Append(backlog, c) /\ backlog \in Seq(Apps)
          BY <1>1, <3>2 DEF Launch, Types
      <4>2. /\ Len(backlog') = Len(backlog) + 1 /\ Len(backlog) \in Nat
            /\ backlog'[Len(backlog) + 1] = c
            /\ \A i \in 1..Len(backlog) : backlog'[i] = backlog[i]
          BY <4>1
      <4>3. /\ threads' = threads /\ threads[c] = None /\ app'[c] = "idle"
            /\ \A d \in Apps : app'[d] = "new" => app[d] = "new"
            /\ \A d \in Apps \ {c} : app'[d] = app[d]
          BY <1>1 DEF Launch, Queue, Types
      <4>4. \A i \in 1..Len(backlog') :
                \/ i \in 1..Len(backlog) /\ backlog'[i] = backlog[i]
                \/ i = Len(backlog) + 1 /\ backlog'[i] = c
          BY <4>2
      <4>5. \A d \in Apps : app'[d] = "new" => threads'[d] = None
          BY <4>3 DEF Queue
      <4>6. \A i \in 1..Len(backlog') :
                app'[backlog'[i]] # "new" /\ threads'[backlog'[i]] = None
          BY <3>1, <4>3, <4>4 DEF Queue
      <4>7. \A i, j \in 1..Len(backlog') : backlog'[i] = backlog'[j] => i = j
          BY <3>1, <4>4 DEF Queue
      <4>8. QED
          BY <4>5, <4>6, <4>7 DEF Queue
    <3>3. CASE ~up
        BY <1>1, <3>1, <3>3 DEF Launch, Queue, Types
    <3>4. QED
        BY <3>2, <3>3
  <2>4. Single' /\ Sizes'
      BY <1>1 DEF Launch, Single, Sizes, Counted
  <2>5. QED
      BY <2>1, <2>2, <2>3, <2>4
<1>2. CASE Press(c) \/ Ask(c)
  <2>1. PICK q \in Request, waiting \in {"adding", "getting"} :
            /\ q.name = IF waiting = "adding" THEN "add" ELSE "get"
            /\ app[c] \in {"idle", "added"}
            /\ Write(c, q, waiting)
    <3>1. CASE Press(c)
      <4>1. [name |-> "add", msg |-> <<c, presses[c] + 1>>] \in Request
          BY <3>1, BulletinBoardAssumption DEF Press, Types, Request, Msg
      <4>2. QED
          BY <3>1, <4>1 DEF Press
    <3>2. CASE Ask(c)
        BY <3>2 DEF Ask, Request
    <3>3. QED
        BY <1>2, <3>1, <3>2
  <2>2. \/ /\ requests' = [requests EXCEPT ![c] = <<q>>]
           /\ app' = [app EXCEPT ![c] = waiting]
        \/ /\ requests' = requests
           /\ app' = [app EXCEPT ![c] = "gone"]
      BY <2>1, Written
  <2>3. /\ UNCHANGED <<kind, up, crashes, board, backlog, threads, conn, replies, rest, shown>>
        /\ presses' \in [Apps -> 0..MaxPresses]
    <3>1. CASE Press(c)
      <4>1. presses[c] + 1 \in 0..MaxPresses
          BY <3>1, BulletinBoardAssumption DEF Press, Types
      <4>2. QED
          BY <3>1, <4>1 DEF Press, serverVars, Types
    <3>2. CASE Ask(c)
        BY <3>2 DEF Ask, serverVars, Types
    <3>3. QED
        BY <1>2, <3>1, <3>2
  <2>4. Types'
    <3>1. requests' \in [Apps -> {<<>>} \cup {<<p>> : p \in Request}]
      <4> DEFINE S == {<<>>} \cup {<<p>> : p \in Request}
      <4>1. <<q>> \in S /\ requests \in [Apps -> S]
          BY DEF Types
      <4> HIDE DEF S
      <4>2. requests' \in [Apps -> S]
          BY <2>2, <4>1
      <4>3. QED
          BY <4>2 DEF S
    <3>2. app' \in [Apps -> {"new", "idle", "adding", "added", "getting", "gone"}]
        BY <2>2 DEF Types
    <3>3. QED
        BY <2>3, <3>1, <3>2 DEF Types
  <2>5. \A d \in Apps : OneCall(d)' /\ CallsMatch(d)'
    <3> SUFFICES ASSUME NEW d \in Apps PROVE OneCall(d)' /\ CallsMatch(d)'
        OBVIOUS
    <3>1. CASE d # c
      <4>1. app'[d] = app[d] /\ requests'[d] = requests[d]
          BY <2>2, <3>1 DEF Types
      <4>2. QED
          BY <2>3, <4>1 DEF OneCall, CallsMatch, Named, Resting
    <3>2. CASE d = c
      <4>1. requests[c] = <<>> /\ replies[c] = <<>> /\ Resting(c)
          BY <2>1 DEF OneCall
      <4>2. \/ requests'[c] = <<q>> /\ app'[c] = waiting
            \/ requests'[c] = <<>> /\ app'[c] = "gone"
          BY <2>2, <4>1 DEF Types
      <4>3. <<q>>[1] = q /\ <<q>> # <<>>
          OBVIOUS
      <4>4. OneCall(d)'
          BY <2>3, <3>2, <4>1, <4>2 DEF OneCall, Resting
      <4>5. CallsMatch(d)'
          BY <2>1, <2>3, <3>2, <4>1, <4>2, <4>3 DEF CallsMatch, Named, Resting
      <4>6. QED
          BY <4>4, <4>5
    <3>3. QED
        BY <3>1, <3>2
  <2>6. Queue'
    <3>1. \A d \in Apps : app'[d] = "new" => app[d] = "new"
        BY <2>1, <2>2, <2>3 DEF Types
    <3>2. QED
        BY <2>3, <3>1, QueueStays DEF serverVars
  <2>7. Single' /\ Sizes'
      BY <2>3 DEF serverVars, Single, Sizes, Counted
  <2>8. QED
      BY <2>4, <2>5, <2>6, <2>7
<1>3. CASE Added(c) \/ Show(c)
  <2>1. Types'
    <3>1. CASE Added(c)
        BY <3>1 DEF Added, serverVars, Types
    <3>2. CASE Show(c)
      <4> DEFINE l == replies[c][1].list  n == replies[c][1].size
      <4>1. /\ l \in Seq(Msg) /\ n \in Nat /\ n <= Len(l)
            /\ shown' = [shown EXCEPT ![c] = Taken(l, n)] /\ rest' = [rest EXCEPT ![c] = Len(l) - n]
          BY <3>2 DEF Show, Types, Result, CallsMatch, Named, Sizes, Counted
      <4> HIDE DEF l, n
      <4>2. Taken(l, n) \in Seq(Msg) /\ Len(l) - n \in Nat
          BY <4>1 DEF Taken
      <4>3. shown' \in [Apps -> Seq(Msg)] /\ rest' \in [Apps -> Nat]
          BY <4>1, <4>2 DEF Types
      <4>4. QED
          BY <3>2, <4>3 DEF Show, serverVars, Types
    <3>3. QED
        BY <1>3, <3>1, <3>2
  <2>2. \A d \in Apps : OneCall(d)' /\ CallsMatch(d)'
    <3>1. requests[c] = <<>> /\ Resting(c)
        BY <1>3, Elements DEF Added, Show, OneCall
    <3>2. /\ UNCHANGED <<threads, requests>>
          /\ replies' = [replies EXCEPT ![c] = <<>>]
          /\ app' = [app EXCEPT ![c] = "added"] \/ app' = [app EXCEPT ![c] = "idle"]
        BY <1>3 DEF Added, Show, serverVars
    <3>3. QED
        BY <3>1, <3>2 DEF OneCall, CallsMatch, Named, Resting, Types
  <2>3. Queue'
    <3>1. \A d \in Apps : app'[d] = "new" => app[d] = "new"
        BY <1>3 DEF Added, Show, Types
    <3>2. threads' = threads /\ backlog' = backlog
        BY <1>3 DEF Added, Show, serverVars
    <3>3. QED
        BY <3>1, <3>2, QueueStays
  <2>4. Single' /\ Sizes'
    <3>1. UNCHANGED <<kind, board, threads>> /\ replies' = [replies EXCEPT ![c] = <<>>]
        BY <1>3 DEF Added, Show, serverVars
    <3>2. \A d \in Apps : replies'[d] # <<>> => replies'[d] = replies[d]
        BY <3>1 DEF Types
    <3>3. QED
        BY <3>1, <3>2 DEF Single, Sizes, Counted
  <2>5. QED
      BY <2>1, <2>2, <2>3, <2>4
<1>4. CASE Misread(c) \/ Broken(c) \/ Quit(c)
  <2>1. Types'
      BY <1>4 DEF Misread, Broken, Quit, serverVars, Types
  <2>2. \A d \in Apps : OneCall(d)' /\ CallsMatch(d)'
    <3>1. CASE Misread(c)
        BY <3>1 DEF Misread, serverVars, OneCall, CallsMatch, Named, Resting, Types
    <3>2. CASE Broken(c)
        BY <3>2 DEF Broken, serverVars, OneCall, CallsMatch, Named, Resting, Types
    <3>3. CASE Quit(c)
        BY <3>3 DEF Quit, serverVars, OneCall, CallsMatch, Named, Resting, Types
    <3>4. QED
        BY <1>4, <3>1, <3>2, <3>3
  <2>3. Queue'
    <3>1. \A d \in Apps : app'[d] = "new" => app[d] = "new"
        BY <1>4 DEF Misread, Broken, Quit, Types
    <3>2. threads' = threads /\ backlog' = backlog
        BY <1>4 DEF Misread, Broken, Quit, serverVars
    <3>3. QED
        BY <3>1, <3>2, QueueStays
  <2>4. Single' /\ Sizes'
      BY <1>4 DEF Misread, Broken, Quit, serverVars, Single, Sizes, Counted, Types
  <2>5. QED
      BY <2>1, <2>2, <2>3, <2>4
<1>5. QED
    BY <1>1, <1>2, <1>3, <1>4 DEF AppStep, User

\* The server takes a connection from the queue, or a thread takes its own
\* request one step further.
LEMMA ServerKeepsIInv ==
    ASSUME IInv, Accept \/ \E c \in Apps : Thread(c)
    PROVE  IInv'
<1> USE DEF IInv, appVars
<1>1. CASE Accept
  <2>1. Types'
      BY <1>1 DEF Accept, Types, Thread_
  <2>2. \A d \in Apps : OneCall(d)' /\ CallsMatch(d)'
      BY <1>1 DEF Accept, OneCall, CallsMatch, Named, Resting, Types, Ready
  <2>3. Queue'
    <3>1. \A i \in 1..Len(backlog') : i + 1 \in 1..Len(backlog) /\ backlog'[i] = backlog[i + 1]
        BY <1>1 DEF Accept, Types
    <3>2. 1 \in 1..Len(backlog) /\ Head(backlog) = backlog[1]
        BY <1>1 DEF Accept, Types
    <3>3. PICK h \in Apps : /\ h = backlog[1] /\ app' = app
                            /\ threads' = [threads EXCEPT ![h] = Ready]
        BY <1>1, <3>2, Elements DEF Accept
    <3>4. \A d \in Apps : app[d] = "new" => threads'[d] = None
        BY <3>2, <3>3 DEF Queue, Types
    <3>5. ASSUME NEW i \in 1..Len(backlog') PROVE backlog'[i] \in Apps \ {h}
      <4>1. i + 1 \in 1..Len(backlog) /\ i + 1 # 1 /\ backlog'[i] = backlog[i + 1]
          BY <3>1
      <4>2. backlog[i + 1] # backlog[1]
          BY <3>2, <4>1 DEF Queue
      <4>3. QED
          BY <3>3, <4>1, <4>2, Elements
    <3>6. \A i \in 1..Len(backlog') : app[backlog'[i]] # "new" /\ threads'[backlog'[i]] = None
      <4>1. \A d \in Apps \ {h} : threads'[d] = threads[d]
          BY <3>3 DEF Types
      <4>2. \A i \in 1..Len(backlog') : app[backlog'[i]] # "new" /\ threads[backlog'[i]] = None
          BY <3>1 DEF Queue
      <4>3. QED
          BY <3>5, <4>1, <4>2
    <3>7. \A i, j \in 1..Len(backlog') : backlog'[i] = backlog'[j] => i = j
      <4>1. TAKE i, j \in 1..Len(backlog')
      <4>2. HAVE backlog'[i] = backlog'[j]
      <4>3. i + 1 = j + 1
          BY <3>1, <4>2 DEF Queue
      <4>4. QED
          BY <4>3
    <3>8. QED
        BY <3>3, <3>4, <3>6, <3>7 DEF Queue
  <2>4. Single'
      BY <1>1 DEF Accept, Single, Served, Types
  <2>5. Sizes'
      BY <1>1 DEF Accept, Sizes, Counted, Ready, Types
  <2>6. QED
      BY <2>1, <2>2, <2>3, <2>4, <2>5
<1>2. CASE \E c \in Apps : Read(c)
  <2>1. PICK c \in Apps : Read(c)
      BY <1>2
  <2>2. Types'
      BY <2>1 DEF Read, Types, Thread_
  <2>3. \A d \in Apps : OneCall(d)' /\ CallsMatch(d)'
      BY <2>1 DEF Read, OneCall, CallsMatch, Named, Resting, Types, Ready
  <2>4. Queue' /\ Single'
    <3>1. \A d \in Apps : threads[d] = None => threads'[d] = None
        BY <2>1 DEF Read, Types, Ready, None
    <3>2. app' = app /\ backlog' = backlog /\ kind' = kind
        BY <2>1 DEF Read
    <3>3. QED
        BY <3>1, <3>2, QueueStays, SingleStays
  <2>5. Sizes'
      BY <2>1 DEF Read, Sizes, Counted, Types
  <2>6. QED
      BY <2>2, <2>3, <2>4, <2>5
<1>3. CASE \E c \in Apps : Call(c)
  <2>1. PICK c \in Apps : Call(c)
      BY <1>3
  <2>2. threads[c].request \in Request /\ threads[c] # None
      BY <2>1, Elements, ThreadParts DEF Call, None
  <2>3. PICK t \in Thread_ :
            /\ threads' = [threads EXCEPT ![c] = t]
            /\ t.pc = "reply" /\ t.name = threads[c].request.name
            /\ t.name = "get" => t.size = Len(board) /\ board' = board
    <3>1. CASE threads[c].request.name = "add"
        BY <2>1, <3>1 DEF Call, Thread_
    <3>2. CASE threads[c].request.name # "add"
      <4>1. threads[c].request.name = "get"
          BY <2>2, <3>2, RequestParts
      <4>2. [pc |-> "reply", name |-> "get", size |-> Len(board)] \in Thread_
          BY DEF Types, Thread_
      <4>3. QED
          BY <2>1, <3>2, <4>1, <4>2 DEF Call, ServiceGet
    <3>3. QED
        BY <3>1, <3>2
  <2>4. board' \in Seq(Msg)
    <3>1. board \in Seq(Msg)
        BY DEF Types
    <3>2. CASE threads[c].request.name = "add"
      <4>1. threads[c].request.msg \in Msg
          BY <2>2, <3>2, RequestParts
      <4>2. QED
          BY <2>1, <3>1, <3>2, <4>1 DEF Call, ServiceAdd
    <3>3. CASE threads[c].request.name # "add"
        BY <2>1, <3>1, <3>3 DEF Call
    <3>4. QED
        BY <3>2, <3>3
  <2>5. UNCHANGED <<kind, up, crashes, backlog, app, conn, presses, rest, shown, requests, replies>>
      BY <2>1 DEF Call
  <2>6. Types'
      BY <2>3, <2>4, <2>5 DEF Types
  <2>7. \A d \in Apps : OneCall(d)' /\ CallsMatch(d)'
      BY <2>1, <2>3, <2>5 DEF Call, OneCall, CallsMatch, Named, Resting, Types
  <2>8. Queue' /\ Single'
    <3>1. \A d \in Apps : threads[d] = None => threads'[d] = None
        BY <2>2, <2>3 DEF Types
    <3>2. app' = app /\ backlog' = backlog /\ kind' = kind
        BY <2>5
    <3>3. QED
        BY <3>1, <3>2, QueueStays, SingleStays
  <2>9. Sizes'
    <3>1. \A d \in Apps \ {c} : kind = "simple" => threads[d].pc # "reply"
        BY <2>2 DEF Single, None
    <3>2. Len(board') \in Nat /\ Len(board) \in Nat /\ Len(board) <= Len(board')
      <4>1. CASE threads[c].request.name = "add"
        <5>1. threads[c].request.msg \in Msg /\ board \in Seq(Msg)
            BY <2>2, <4>1, RequestParts DEF Types
        <5>2. board' = Append(board, threads[c].request.msg)
            BY <2>1, <4>1 DEF Call, ServiceAdd
        <5>3. QED
            BY <5>1, <5>2
      <4>2. CASE threads[c].request.name # "add"
        <5>1. board' = board /\ board \in Seq(Msg)
            BY <2>1, <4>2 DEF Call, Types
        <5>2. QED
            BY <5>1
      <4>3. QED
          BY <4>1, <4>2
    <3>3. threads'[c] = t /\ \A d \in Apps \ {c} : threads'[d] = threads[d]
        BY <2>3 DEF Types
    <3>4. t.name = "get" => Counted(t.size, board')
        BY <2>3, <3>2 DEF Counted
    <3>5. ASSUME NEW d \in Apps \ {c}, threads[d].pc = "reply", threads[d].name = "get"
          PROVE  Counted(threads[d].size, board')
      <4>1. threads[d].size \in Nat /\ threads[d].size <= Len(board) /\ kind # "simple"
          BY <3>1, <3>5, Elements, ThreadParts DEF Sizes, Counted
      <4>2. QED
          BY <3>2, <4>1 DEF Counted
    <3>6. QED
        BY <2>3, <2>5, <3>3, <3>4, <3>5 DEF Sizes, Counted
  <2>10. QED
      BY <2>6, <2>7, <2>8, <2>9
<1>4. CASE \E c \in Apps : Reply(c)
  <2>1. PICK c \in Apps : Reply(c)
      BY <1>4
  <2>2. threads[c] # None /\ threads[c] # Ready
      BY <2>1 DEF Reply, None, Ready
  <2>3. PICK r \in Result :
            /\ replies' = IF app[c] = "gone" THEN replies ELSE [replies EXCEPT ![c] = <<r>>]
            /\ r.name = threads[c].name
            /\ r.name = "get" => Counted(r.size, r.list)
    <3>1. CASE threads[c].name = "add"
      <4>1. [name |-> "add"] \in Result
          BY DEF Result
      <4>2. replies' = IF app[c] = "gone" THEN replies
                       ELSE [replies EXCEPT ![c] = <<[name |-> "add"]>>]
          BY <2>1, <3>1 DEF Reply
      <4>3. QED
          BY <3>1, <4>1, <4>2
    <3>2. CASE threads[c].name # "add"
      <4>1. /\ threads[c].name = "get" /\ threads[c].size \in Nat
            /\ board \in Seq(Msg) /\ Counted(threads[c].size, board)
          BY <2>1, <3>2, Elements, ThreadParts DEF Reply, Sizes, Types
      <4> DEFINE r == [name |-> "get", size |-> threads[c].size, list |-> board]
      <4>2. r \in Result
          BY <4>1 DEF Result
      <4>3. replies' = IF app[c] = "gone" THEN replies ELSE [replies EXCEPT ![c] = <<r>>]
          BY <2>1, <3>2 DEF Reply, ServiceGet
      <4>4. r.name = threads[c].name /\ Counted(r.size, r.list)
          BY <4>1
      <4>5. QED
          BY <4>2, <4>3, <4>4
    <3>3. QED
        BY <3>1, <3>2
  <2>4. /\ threads' = [threads EXCEPT ![c] = Ready]
        /\ UNCHANGED <<kind, up, crashes, board, backlog, app, conn, presses, rest, shown, requests>>
      BY <2>1 DEF Reply
  <2>5. Types'
      BY <2>3, <2>4 DEF Types, Thread_
  <2>6. \A d \in Apps : OneCall(d)' /\ CallsMatch(d)'
      BY <2>1, <2>3, <2>4 DEF Reply, OneCall, CallsMatch, Named, Resting, Types, Ready
  <2>7. Queue' /\ Single'
    <3>1. \A d \in Apps : threads[d] = None => threads'[d] = None
        BY <2>2, <2>4 DEF Types
    <3>2. QED
        BY <2>4, <3>1, QueueStays, SingleStays
  <2>8. Sizes'
      BY <2>3, <2>4 DEF Sizes, Counted, Types, Ready
  <2>9. QED
      BY <2>5, <2>6, <2>7, <2>8
<1>5. CASE \E c \in Apps : Finish(c)
  <2>1. PICK c \in Apps : Finish(c)
      BY <1>5
  <2>2. Types'
      BY <2>1 DEF Finish, Types, Thread_
  <2>3. \A d \in Apps : OneCall(d)' /\ CallsMatch(d)'
      BY <2>1 DEF Finish, OneCall, CallsMatch, Named, Resting, Types, None
  <2>4. Queue' /\ Single'
    <3>1. \A d \in Apps : threads[d] = None => threads'[d] = None
        BY <2>1 DEF Finish, Types
    <3>2. app' = app /\ backlog' = backlog /\ kind' = kind
        BY <2>1 DEF Finish
    <3>3. QED
        BY <3>1, <3>2, QueueStays, SingleStays
  <2>5. Sizes'
      BY <2>1 DEF Finish, Sizes, Counted, Types, None
  <2>6. QED
      BY <2>2, <2>3, <2>4, <2>5
<1>6. QED
    BY <1>1, <1>2, <1>3, <1>4, <1>5 DEF Thread

\* The server ends, and is started again.
LEMMA RestartKeepsIInv ==
    ASSUME IInv, Crash \/ Start
    PROVE  IInv'
<1> USE DEF IInv
<1>1. CASE Crash
  <2>1. PICK arrive \in SUBSET {c \in Apps : replies[c] # <<>>} :
            replies' = [c \in Apps |-> IF c \in arrive THEN replies[c] ELSE <<>>]
      BY <1>1 DEF Crash
  <2>2. Types'
    <3>1. /\ crashes' \in 0..MaxCrashes /\ up' \in BOOLEAN
          /\ board' \in Seq(Msg) /\ backlog' \in Seq(Apps)
      <4>1. crashes + 1 \in 0..MaxCrashes
          BY <1>1, BulletinBoardAssumption DEF Crash, Types
      <4>2. <<>> \in Seq(Msg) /\ <<>> \in Seq(Apps)
          OBVIOUS
      <4>3. QED
          BY <1>1, <4>1, <4>2 DEF Crash
    <3>2. conn' \in [Apps -> {"none", "open", "reset"}]
        BY <1>1 DEF Crash, Types
    <3>3. replies' \in [Apps -> {<<>>} \cup {<<r>> : r \in Result}]
        BY <2>1 DEF Types
    <3>4. threads' \in [Apps -> Thread_]
        BY <1>1 DEF Crash, Thread_
    <3>5. QED
        BY <1>1, <3>1, <3>2, <3>3, <3>4 DEF Crash, Types
  <2>3. \A d \in Apps : OneCall(d)' /\ CallsMatch(d)'
      BY <1>1, <2>1 DEF Crash, OneCall, CallsMatch, Named, Resting, Types, None
  <2>4. Queue' /\ Single'
      BY <1>1 DEF Crash, Queue, Single
  <2>5. Sizes'
      BY <1>1, <2>1 DEF Crash, Sizes, None
  <2>6. QED
      BY <2>2, <2>3, <2>4, <2>5
<1>2. CASE Start
  <2>1. Types'
      BY <1>2 DEF Start, appVars, Types
  <2>2. QED
      BY <1>2, <2>1 DEF Start, appVars, OneCall, CallsMatch, Named, Resting, Queue, Single, Sizes, Counted
<1>3. QED
    BY <1>1, <1>2

LEMMA NextIInv == IInv /\ [Next]_vars => IInv'
<1> SUFFICES ASSUME IInv, [Next]_vars PROVE IInv'
    OBVIOUS
<1>1. CASE UNCHANGED vars
    BY <1>1 DEF vars, serverVars, appVars, IInv, Types, OneCall, CallsMatch, Named, Resting,
                Queue, Single, Sizes, Counted
<1>2. CASE Next
    BY <1>2, AppKeepsIInv, ServerKeepsIInv, RestartKeepsIInv DEF Next
<1>3. QED
    BY <1>1, <1>2

LEMMA Invariance == Spec => []IInv
BY InitIInv, NextIInv, PTL DEF Spec

-----------------------------------------------------------------------------
(* What follows from it.                                                    *)

\* An instance is never anywhere but at one of its calls, and what is on its
\* connection is one request or one reply.
THEOREM TypeCorrect == Spec => []TypeOK
<1>1. IInv => TypeOK
  <2> SUFFICES ASSUME IInv PROVE TypeOK
      OBVIOUS
  <2>1. \A c \in Apps : threads[c].pc \in {"none", "ready", "call", "reply"}
      BY Elements, ThreadParts DEF IInv
  <2>2. \A c \in Apps : Len(requests[c]) + Len(replies[c]) <= 1
    <3> SUFFICES ASSUME NEW c \in Apps PROVE Len(requests[c]) + Len(replies[c]) <= 1
        OBVIOUS
    <3>1. requests[c] = <<>> \/ replies[c] = <<>>
        BY DEF IInv, OneCall
    <3>2. requests[c] = <<>> \/ requests[c] = <<requests[c][1]>>
        BY Elements DEF IInv
    <3>3. replies[c] = <<>> \/ replies[c] = <<replies[c][1]>>
        BY Elements DEF IInv
    <3>4. Len(<<>>) = 0 /\ Len(<<requests[c][1]>>) = 1 /\ Len(<<replies[c][1]>>) = 1
        OBVIOUS
    <3>5. Len(requests[c]) \in {0, 1} /\ Len(replies[c]) \in {0, 1}
        BY <3>2, <3>3, <3>4
    <3>6. Len(requests[c]) = 0 \/ Len(replies[c]) = 0
        BY <3>1, <3>4
    <3>7. \A m, n \in {0, 1} : m = 0 \/ n = 0 => m + n <= 1
        OBVIOUS
    <3>8. QED
        BY <3>5, <3>6, <3>7
  <2>3. QED
      BY <2>1, <2>2 DEF IInv, Types, TypeOK
<1>2. QED
    BY <1>1, Invariance, PTL

\* Where one connection is served at a time the header of a list that an instance
\* gets announces the messages that follow it, although the list is live; with a
\* thread for each it may announce too few, but never too many (Get_result write:,
\* BulletinBoardImpl.java:19-22).
THEOREM ListsAreWholeAlways == Spec => []ListsAreWhole
<1>1. IInv => ListsAreWhole
    BY DEF IInv, Sizes, Counted, ListsAreWhole
<1>2. QED
    BY <1>1, Invariance, PTL

-----------------------------------------------------------------------------
(* Counted messages.                                                        *)

\* What has been counted of a list stays its beginning.
LEMMA TakenStays ==
    ASSUME NEW s \in Seq(Msg), NEW m \in Msg, NEW n \in Nat, n <= Len(s)
    PROVE  Taken(Append(s, m), n) = Taken(s, n)
<1>1. Len(s) \in Nat /\ Len(Append(s, m)) = Len(s) + 1 /\ Append(s, m) \in Seq(Msg)
    OBVIOUS
<1>2. \A i \in 1..Len(s) : Append(s, m)[i] = s[i]
    OBVIOUS
<1>3. SubSeq(Append(s, m), 1, n) = SubSeq(s, 1, n)
    BY <1>1, <1>2
<1>4. QED
    BY <1>3 DEF Taken

LEMMA TakenAll == ASSUME NEW s \in Seq(Msg) PROVE Taken(s, Len(s)) = s
BY DEF Taken

\* Nobody's count is changed by a message more.
LEMMA GottenStays ==
    ASSUME IInv, NEW m \in Msg, NEW d \in Apps, threads[d].pc = "reply", threads[d].name = "get"
    PROVE  Gotten(Append(board, m), threads[d].size) = Gotten(board, threads[d].size)
<1>1. threads[d].size \in Nat /\ threads[d].size <= Len(board) /\ board \in Seq(Msg)
    BY Elements, ThreadParts DEF IInv, Sizes, Counted, Types
<1>2. QED
    BY <1>1, TakenStays DEF Gotten

-----------------------------------------------------------------------------
(* The calls are atomic.                                                    *)

\* A step that keeps the calls and the results is none of the board's.
LEMMA Hidden ==
    ASSUME IInv, IInv', UNCHANGED <<board, shown>>,
           \A d \in Apps : CallOf(d)' = CallOf(d) /\ ResultOf(d)' = ResultOf(d)
    PROVE  UNCHANGED B!vars
BY DEF B!vars, Calls, Results

LEMMA InitBoard == Init => B!Init
BY DEF Init, B!Init, Calls, Results, CallOf, ResultOf, None

\* A request that is written is a call; one that cannot be is nothing.
LEMMA WriteRefines ==
    ASSUME IInv, IInv', NEW c \in Apps, app[c] \in {"idle", "added"},
           NEW q \in Request, q \in B!Op, NEW waiting \in {"adding", "getting"},
           Write(c, q, waiting), UNCHANGED <<board, shown, threads, replies, kind>>
    PROVE  B!Next \/ UNCHANGED B!vars
<1>1. requests[c] = <<>> /\ replies[c] = <<>> /\ Resting(c)
    BY DEF IInv, OneCall
<1>2. \A d \in Apps : ResultOf(d)' = ResultOf(d)
    BY DEF ResultOf, Gotten
<1>3. CASE requests' = requests
  <2>1. QED
      BY <1>2, <1>3, Hidden DEF CallOf
<1>4. CASE requests' = [requests EXCEPT ![c] = <<q>>]
  <2>1. Calls[c] = <<>> /\ Results[c] = <<>>
      BY <1>1 DEF Calls, Results, CallOf, ResultOf, Resting
  <2>2. Calls' = [Calls EXCEPT ![c] = <<q>>]
      BY <1>1, <1>4 DEF Calls, CallOf, Resting, IInv, Types
  <2>3. Results' = Results
      BY <1>2 DEF Results
  <2>4. B!Call(c, q)
      BY <2>1, <2>2, <2>3 DEF B!Call
  <2>5. QED
      BY <2>4 DEF B!Next
<1>5. QED
    BY <1>3, <1>4, Written

\* What an instance does is a call, the return of one, one given up, or
\* nothing to the board.
LEMMA AppRefines ==
    ASSUME IInv, IInv', NEW c \in Apps, AppStep(c) \/ User(c)
    PROVE  B!Next \/ UNCHANGED B!vars
<1> USE DEF IInv
<1>1. CASE Launch(c) \/ Broken(c)
  <2>1. UNCHANGED <<board, shown, threads, requests, replies, kind>>
      BY <1>1 DEF Launch, Broken, serverVars
  <2>2. QED
      BY <2>1, Hidden DEF CallOf, ResultOf, Gotten
<1>2. CASE Press(c)
  <2> DEFINE q == [name |-> "add", msg |-> <<c, presses[c] + 1>>]
  <2>1. presses[c] + 1 \in 1..MaxPresses
      BY <1>2, BulletinBoardAssumption DEF Press, Types
  <2>2. q \in Request /\ q \in B!Op
      BY <2>1 DEF Request, B!Op, Msg
  <2>3. Write(c, q, "adding") /\ app[c] = "idle"
      BY <1>2 DEF Press
  <2>4. UNCHANGED <<board, shown, threads, replies, kind>>
      BY <1>2 DEF Press, serverVars
  <2> HIDE DEF q
  <2>5. QED
      BY <2>2, <2>3, <2>4, WriteRefines
<1>3. CASE Ask(c)
  <2>1. [name |-> "get"] \in Request /\ [name |-> "get"] \in B!Op
      BY DEF Request, B!Op
  <2>2. UNCHANGED <<board, shown, threads, replies, kind>>
      BY <1>3 DEF Ask, serverVars
  <2>3. QED
      BY <1>3, <2>1, <2>2, WriteRefines DEF Ask
<1>4. CASE Added(c) \/ Show(c)
  <2>1. /\ UNCHANGED <<board, threads, requests, kind>>
        /\ replies[c] # <<>> /\ replies' = [replies EXCEPT ![c] = <<>>]
      BY <1>4 DEF Added, Show, serverVars
  <2>2. Resting(c)
      BY <2>1 DEF OneCall
  <2>3. Results[c] # <<>> /\ Calls' = Calls /\ Results' = [Results EXCEPT ![c] = <<>>]
      BY <2>1, <2>2 DEF Results, Calls, CallOf, ResultOf, Resting, Gotten, Types
  <2>4. shown' = IF Results[c][1].name = "get" THEN [shown EXCEPT ![c] = Results[c][1].list]
                 ELSE shown
    <3>1. replies[c][1].name = IF app[c] = "adding" THEN "add" ELSE "get"
        BY <1>4, <2>1 DEF Added, Show, CallsMatch, Named
    <3>2. /\ replies[c][1].name = "add" => Results[c] = <<[name |-> "add"]>>
          /\ replies[c][1].name # "add" =>
                Results[c] = <<Gotten(replies[c][1].list, replies[c][1].size)>>
        BY <2>1, <2>2 DEF Results, ResultOf, Resting
    <3>3. /\ replies[c][1].name = "add" => Results[c][1].name = "add"
          /\ replies[c][1].name # "add" =>
                /\ Results[c][1].name = "get"
                /\ Results[c][1].list = Taken(replies[c][1].list, replies[c][1].size)
        BY <3>2 DEF Gotten
    <3>4. QED
        BY <1>4, <3>1, <3>3 DEF Added, Show
  <2>5. QED
      BY <2>1, <2>3, <2>4 DEF B!Next, B!Return
<1>5. CASE Misread(c) \/ Quit(c)
  <2>1. /\ UNCHANGED <<board, shown, threads, requests, kind>>
        /\ replies' = [replies EXCEPT ![c] = <<>>]
      BY <1>5 DEF Misread, Quit, serverVars
  <2>2. Calls' = Calls
      BY <2>1 DEF Calls, CallOf
  <2>3. CASE replies[c] = <<>>
    <3>1. replies' = replies
        BY <2>1, <2>3 DEF Types
    <3>2. QED
        BY <2>1, <3>1, Hidden DEF CallOf, ResultOf, Gotten
  <2>4. CASE replies[c] # <<>>
    <3>1. Resting(c)
        BY <2>4 DEF OneCall
    <3>2. Results[c] # <<>> /\ Results' = [Results EXCEPT ![c] = <<>>]
        BY <2>1, <2>4, <3>1 DEF Results, ResultOf, Resting, Gotten, Types
    <3>3. QED
        BY <2>1, <2>2, <3>2 DEF B!Next, B!Drop
  <2>5. QED
      BY <2>3, <2>4
<1>6. QED
    BY <1>1, <1>2, <1>3, <1>4, <1>5 DEF AppStep, User

\* What the server does is the effect of a call, a result that nobody takes,
\* or nothing to the board.
LEMMA ServerRefines ==
    ASSUME IInv, IInv', Accept \/ \E c \in Apps : Thread(c)
    PROVE  B!Next \/ UNCHANGED B!vars
<1> USE DEF IInv, appVars
<1>1. CASE Accept
  <2>1. PICK h \in Apps : /\ UNCHANGED <<board, shown, requests, replies, kind>>
                          /\ threads[h] = None
                          /\ threads' = [threads EXCEPT ![h] = Ready]
    <3>1. 1 \in 1..Len(backlog) /\ Head(backlog) = backlog[1]
        BY <1>1 DEF Accept, Types
    <3>2. QED
        BY <1>1, <3>1, Elements DEF Accept, Queue
  <2>2. \A d \in Apps : CallOf(d)' = CallOf(d)
    <3>1. threads'[h] = Ready /\ \A d \in Apps \ {h} : threads'[d] = threads[d]
        BY <2>1 DEF Types
    <3>2. None.pc # "call" /\ Ready.pc # "call"
        BY DEF None, Ready
    <3>3. CallOf(h)' = CallOf(h)
        BY <2>1, <3>1, <3>2 DEF CallOf
    <3>4. \A d \in Apps \ {h} : CallOf(d)' = CallOf(d)
        BY <2>1, <3>1 DEF CallOf
    <3>5. QED
        BY <3>3, <3>4
  <2>3. \A d \in Apps : ResultOf(d)' = ResultOf(d)
      BY <2>1 DEF ResultOf, Gotten, None, Ready, Types
  <2>4. QED
      BY <2>1, <2>2, <2>3, Hidden
<1>2. CASE \E c \in Apps : Read(c)
  <2>1. PICK c \in Apps : Read(c)
      BY <1>2
  <2>2. /\ UNCHANGED <<board, shown, replies, kind>>
        /\ requests[c] = <<requests[c][1]>> /\ threads[c] = Ready
        /\ threads' = [threads EXCEPT ![c] = [pc |-> "call", request |-> requests[c][1]]]
        /\ requests' = [requests EXCEPT ![c] = <<>>]
      BY <2>1, Elements DEF Read
  <2>3. \A d \in Apps : CallOf(d)' = CallOf(d)
    <3> DEFINE t == [pc |-> "call", request |-> requests[c][1]]
    <3>1. t.pc = "call" /\ t.request = requests[c][1] /\ Ready.pc # "call"
        BY DEF Ready
    <3>2. threads'[c] = t /\ threads[c] = Ready
        BY <2>2 DEF Types
    <3>3. \A d \in Apps \ {c} : threads'[d] = threads[d] /\ requests'[d] = requests[d]
        BY <2>2 DEF Types
    <3> HIDE DEF t
    <3>4. CallOf(c)' = CallOf(c)
        BY <2>2, <3>1, <3>2 DEF CallOf
    <3>5. \A d \in Apps \ {c} : CallOf(d)' = CallOf(d)
        BY <3>3 DEF CallOf
    <3>6. QED
        BY <3>4, <3>5
  <2>4. \A d \in Apps : ResultOf(d)' = ResultOf(d)
    <3>1. \A d \in Apps \ {c} : threads'[d] = threads[d]
        BY <2>2 DEF Types
    <3>2. threads[c].pc # "reply" /\ threads'[c].pc # "reply"
        BY <2>2 DEF Ready, Types
    <3>3. ResultOf(c)' = ResultOf(c)
        BY <2>2, <3>2 DEF ResultOf, Gotten
    <3>4. \A d \in Apps \ {c} : ResultOf(d)' = ResultOf(d)
        BY <2>2, <3>1 DEF ResultOf, Gotten
    <3>5. QED
        BY <3>3, <3>4
  <2>5. QED
      BY <2>2, <2>3, <2>4, Hidden
<1>3. CASE \E c \in Apps : Call(c)
  <2>1. PICK c \in Apps : Call(c)
      BY <1>3
  <2>2. threads[c].request \in Request /\ threads[c] # None /\ threads[c].pc = "call"
      BY <2>1, Elements, ThreadParts DEF Call, None
  <2>3. Calls[c] = <<threads[c].request>> /\ Calls[c] # <<>>
        /\ Calls[c][1] = threads[c].request
      BY <2>2 DEF Calls, CallOf
  <2>4. UNCHANGED <<kind, shown, requests, replies>>
      BY <2>1 DEF Call
  <2>5. \A d \in Apps : threads[d].pc = "reply" => threads[d].name \in {"add", "get"}
      BY Elements, ThreadParts
  <2>6. requests[c] = <<>> /\ replies[c] = <<>>
      BY <2>2 DEF OneCall, Resting
  <2>7. CASE threads[c].request.name = "add"
    <3>1. /\ threads' = [threads EXCEPT ![c] = [pc |-> "reply", name |-> "add"]]
          /\ board' = Append(board, threads[c].request.msg)
        BY <2>1, <2>7 DEF Call, ServiceAdd
    <3>2. Calls' = [Calls EXCEPT ![c] = <<>>]
        BY <2>4, <2>6, <3>1 DEF Calls, CallOf, Types
    <3>3. Results' = [Results EXCEPT ![c] = <<[name |-> "add"]>>]
      <4>1. threads[c].request.msg \in Msg
          BY <2>2, <2>7, RequestParts
      <4>2. ResultOf(c)' = <<[name |-> "add"]>>
          BY <3>1 DEF ResultOf, Types
      <4>3. ASSUME NEW d \in Apps \ {c} PROVE ResultOf(d)' = ResultOf(d)
        <5>1. threads'[d] = threads[d] /\ replies' = replies
            BY <2>4, <3>1 DEF Types
        <5>2. CASE threads[d].pc = "reply" /\ threads[d].name = "get"
            BY <3>1, <4>1, <5>1, <5>2, GottenStays DEF ResultOf
        <5>3. CASE threads[d].pc = "reply" /\ threads[d].name = "add"
            BY <5>1, <5>3 DEF ResultOf
        <5>4. CASE threads[d].pc # "reply"
            BY <5>1, <5>4 DEF ResultOf
        <5>5. QED
            BY <2>5, <5>2, <5>3, <5>4
      <4>4. QED
          BY <4>2, <4>3 DEF Results
    <3>4. B!Add(c)
        BY <2>3, <2>4, <2>7, <3>1, <3>2, <3>3 DEF B!Add
    <3>5. QED
        BY <3>4 DEF B!Next
  <2>8. CASE threads[c].request.name # "add"
    <3> DEFINE t == [pc |-> "reply", name |-> "get", size |-> Len(board)]
    <3>1. threads' = [threads EXCEPT ![c] = t] /\ board' = board
        BY <2>1, <2>8 DEF Call, ServiceGet
    <3>2. threads[c].request.name = "get"
        BY <2>2, <2>8, RequestParts
    <3>3. t.pc = "reply" /\ t.name = "get" /\ t.size = Len(board)
        OBVIOUS
    <3> HIDE DEF t
    <3>4. Calls' = [Calls EXCEPT ![c] = <<>>]
        BY <2>4, <2>6, <3>1, <3>3 DEF Calls, CallOf, Types
    <3>5. Results' = [Results EXCEPT ![c] = <<[name |-> "get", list |-> board]>>]
      <4>1. Gotten(board, t.size) = [name |-> "get", list |-> board]
          BY <3>3, TakenAll DEF Gotten, Types
      <4>2. Results' = [Results EXCEPT ![c] = <<Gotten(board, t.size)>>]
          BY <2>4, <3>1, <3>3 DEF Results, ResultOf, Types
      <4>3. QED
          BY <4>1, <4>2
    <3>6. B!Get(c)
        BY <2>3, <2>4, <3>1, <3>2, <3>4, <3>5 DEF B!Get
    <3>7. QED
        BY <3>6 DEF B!Next
  <2>9. QED
      BY <2>7, <2>8
<1>4. CASE \E c \in Apps : Reply(c)
  <2>1. PICK c \in Apps : Reply(c)
      BY <1>4
  <2>2. /\ threads[c].pc = "reply" /\ threads[c].name \in {"add", "get"}
        /\ replies[c] = <<>>
        /\ UNCHANGED <<kind, board, shown, requests>>
        /\ threads' = [threads EXCEPT ![c] = Ready]
      BY <2>1, Elements, ThreadParts DEF Reply, OneCall, Resting
  <2>3. Calls' = Calls
      BY <2>2 DEF Calls, CallOf, Ready, Types
  <2>4. CASE app[c] = "gone"
    <3>1. replies' = replies
        BY <2>1, <2>4 DEF Reply
    <3>2. Results[c] # <<>> /\ Results' = [Results EXCEPT ![c] = <<>>]
        BY <2>2, <3>1 DEF Results, ResultOf, Gotten, Ready, Types
    <3>3. QED
        BY <2>2, <2>3, <3>2 DEF B!Next, B!Drop
  <2>5. CASE app[c] # "gone" /\ threads[c].name = "add"
    <3>1. replies' = [replies EXCEPT ![c] = <<[name |-> "add"]>>]
        BY <2>1, <2>5 DEF Reply
    <3>2. QED
        BY <2>2, <2>5, <3>1, Hidden DEF CallOf, ResultOf, Gotten, Ready, Types
  <2>6. CASE app[c] # "gone" /\ threads[c].name = "get"
    <3> DEFINE r == [name |-> "get", size |-> threads[c].size, list |-> board]
    <3>1. replies' = [replies EXCEPT ![c] = <<r>>]
        BY <2>1, <2>6 DEF Reply, ServiceGet
    <3>2. r.name = "get" /\ r.list = board /\ r.size = threads[c].size
        OBVIOUS
    <3> HIDE DEF r
    <3>3. \A d \in Apps : CallOf(d)' = CallOf(d)
        BY <2>2 DEF CallOf, Ready, Types
    <3>4. ResultOf(c)' = ResultOf(c)
        BY <2>2, <2>6, <3>1, <3>2 DEF ResultOf, Ready, Types
    <3>5. \A d \in Apps \ {c} : ResultOf(d)' = ResultOf(d)
        BY <2>2, <3>1 DEF ResultOf, Gotten, Types
    <3>6. QED
        BY <2>2, <3>3, <3>4, <3>5, Hidden
  <2>7. QED
      BY <2>2, <2>4, <2>5, <2>6
<1>5. CASE \E c \in Apps : Finish(c)
  <2>1. PICK c \in Apps : Finish(c)
      BY <1>5
  <2>2. /\ UNCHANGED <<kind, board, shown, requests, replies>>
        /\ threads[c] = Ready /\ threads' = [threads EXCEPT ![c] = None]
      BY <2>1 DEF Finish
  <2>3. \A d \in Apps : CallOf(d)' = CallOf(d)
      BY <2>2 DEF CallOf, None, Ready, Types
  <2>4. \A d \in Apps : ResultOf(d)' = ResultOf(d)
      BY <2>2 DEF ResultOf, Gotten, None, Ready, Types
  <2>5. QED
      BY <2>2, <2>3, <2>4, Hidden
<1>6. QED
    BY <1>1, <1>2, <1>3, <1>4, <1>5 DEF Thread

\* The end of the server loses the calls, and the results that do not arrive.
LEMMA RestartRefines ==
    ASSUME IInv, IInv', Crash \/ Start
    PROVE  B!Next \/ UNCHANGED B!vars
<1>1. CASE Crash
  <2>1. PICK arrive \in SUBSET {c \in Apps : replies[c] # <<>>} :
            replies' = [c \in Apps |-> IF c \in arrive THEN replies[c] ELSE <<>>]
      BY <1>1 DEF Crash
  <2>2. /\ board' = <<>> /\ shown' = shown
        /\ threads' = [c \in Apps |-> None] /\ requests' = [c \in Apps |-> <<>>]
      BY <1>1 DEF Crash
  <2>3. Calls' = [c \in Apps |-> <<>>]
      BY <2>2 DEF Calls, CallOf, None
  <2>4. \A c \in arrive : Resting(c)
      BY DEF IInv, OneCall
  <2>5. Results' = [c \in Apps |-> IF c \in arrive THEN Results[c] ELSE <<>>]
      BY <2>1, <2>2, <2>4 DEF Results, ResultOf, Resting, None
  <2>6. B!Restart
      BY <2>2, <2>3, <2>5 DEF B!Restart
  <2>7. QED
      BY <2>6 DEF B!Next
<1>2. CASE Start
  <2>1. UNCHANGED <<kind, board, shown, threads, requests, replies>>
      BY <1>2 DEF Start, appVars
  <2>2. QED
      BY <2>1, Hidden DEF CallOf, ResultOf, Gotten
<1>3. QED
    BY <1>1, <1>2

LEMMA NextRefines == IInv /\ IInv' /\ [Next]_vars => [B!Next]_(B!vars)
<1> SUFFICES ASSUME IInv, IInv', [Next]_vars PROVE [B!Next]_(B!vars)
    OBVIOUS
<1>1. CASE UNCHANGED vars
  <2>1. UNCHANGED <<kind, board, shown, threads, requests, replies>>
      BY <1>1 DEF vars, serverVars, appVars
  <2>2. QED
      BY <2>1, Hidden DEF CallOf, ResultOf, Gotten
<1>2. CASE Next
    BY <1>2, AppRefines, ServerRefines, RestartRefines DEF Next
<1>3. QED
    BY <1>1, <1>2

\* Each call of add and get takes effect at one moment between its start and
\* its return, and at most once, whichever server it is and although a list may
\* grow while it is written, with instances that leave in the middle of a call
\* and a server that ends.
THEOREM CallsAreAtomicAlways == Spec => CallsAreAtomic
<1>1. Spec => []IInv
    BY Invariance
<1>2. Init => B!Init
    BY InitBoard
<1>3. IInv /\ IInv' /\ [Next]_vars => [B!Next]_(B!vars)
    BY NextRefines
<1>4. QED
    BY <1>1, <1>2, <1>3, PTL DEF Spec, CallsAreAtomic, B!Spec

-----------------------------------------------------------------------------
(* Prefixes.                                                                *)

LEMMA PrefixOfItself == ASSUME NEW s \in Seq(Msg) PROVE IsPrefix(s, s)
BY DEF IsPrefix

LEMMA PrefixOfNothing == ASSUME NEW s \in Seq(Msg) PROVE IsPrefix(<<>>, s)
BY DEF IsPrefix

LEMMA PrefixOfAppend ==
    ASSUME NEW s \in Seq(Msg), NEW t \in Seq(Msg), NEW m \in Msg, IsPrefix(s, t)
    PROVE  IsPrefix(s, Append(t, m))
<1>1. Len(s) <= Len(t) /\ Len(Append(t, m)) = Len(t) + 1
    BY DEF IsPrefix
<1>2. \A i \in 1..Len(t) : Append(t, m)[i] = t[i]
    OBVIOUS
<1>3. SubSeq(Append(t, m), 1, Len(s)) = SubSeq(t, 1, Len(s))
    BY <1>1, <1>2
<1>4. QED
    BY <1>1, <1>3 DEF IsPrefix

LEMMA ElementsOfAppend ==
    ASSUME NEW t \in Seq(Msg), NEW m \in Msg
    PROVE  ToSet(t) \subseteq ToSet(Append(t, m)) /\ m \in ToSet(Append(t, m))
<1>1. DOMAIN t = 1..Len(t) /\ DOMAIN Append(t, m) = 1..(Len(t) + 1) /\ Len(t) \in Nat
    OBVIOUS
<1>2. Append(t, m)[Len(t) + 1] = m /\ \A i \in 1..Len(t) : Append(t, m)[i] = t[i]
    OBVIOUS
<1>3. QED
    BY <1>1, <1>2 DEF ToSet

-----------------------------------------------------------------------------
(* What an instance of the app shows only grows: the invariant.             *)

Own(c) == <<c, presses[c]>>

\* a list that may be shown
Fresh(c, list) == IsPrefix(shown[c], list) /\ Own(c) \in ToSet(list)

\* the add of the press under way has taken effect
HasAdded(c) ==
    \/ app[c] \in {"added", "getting"}
    \/ app[c] = "adding" /\ (threads[c].pc = "reply" \/ replies[c] # <<>>)

\* Calls are under way on open connections only.
Linked(c) == requests[c] # <<>> \/ threads[c] # None => conn[c] = "open"

\* The add under way is of the instance's own message.
AddsOwn(c) ==
    app[c] = "adding" =>
        /\ requests[c] # <<>> => requests[c][1].msg = Own(c)
        /\ threads[c].pc = "call" => threads[c].request.msg = Own(c)

\* The board of the server an instance is connected to has what the instance
\* shows, since a server's board only grows and connections end with it.
OnBoard(c) ==
    conn[c] = "open" =>
        /\ IsPrefix(shown[c], board)
        /\ HasAdded(c) => Own(c) \in ToSet(board)

\* An answer that is shown is fresh, and on the board as long as that lasts.
Answers(c, list) == Fresh(c, list) /\ (conn[c] = "open" => IsPrefix(list, board))

\* An answer to get is the board of some moment after the add.
AnswerFresh(c) ==
    app[c] = "getting" =>
        /\ threads[c].pc = "reply" => Answers(c, Taken(board, threads[c].size))
        /\ replies[c] # <<>> => Answers(c, Taken(replies[c][1].list, replies[c][1].size))

\* The text view is empty at first.
StartsEmpty(c) == app[c] = "new" => shown[c] = <<>>

Growing(c) == Linked(c) /\ AddsOwn(c) /\ OnBoard(c) /\ AnswerFresh(c) /\ StartsEmpty(c)

QueueOpen == \A i \in 1..Len(backlog) : conn[backlog[i]] = "open"

Growth == QueueOpen /\ \A c \in Apps : Growing(c)

GrowthInv == IInv /\ Growth

\* What a step leaves of an instance it is not about.
Untouched(c) ==
    /\ app'[c] = app[c] /\ conn'[c] = conn[c] /\ presses'[c] = presses[c]
    /\ threads'[c] = threads[c] /\ requests'[c] = requests[c]
    /\ replies'[c] = replies[c] /\ shown'[c] = shown[c]

BoardGrows == board' = board \/ \E m \in Msg : board' = Append(board, m)

\* Lists that are on the board stay there.
LEMMA BoardKeeps ==
    ASSUME IInv, BoardGrows
    PROVE  /\ \A s \in Seq(Msg) : IsPrefix(s, board) => IsPrefix(s, board')
           /\ ToSet(board) \subseteq ToSet(board')
<1>1. board \in Seq(Msg)
    BY DEF IInv, Types
<1>2. CASE board' = board
    BY <1>2
<1>3. CASE \E m \in Msg : board' = Append(board, m)
    BY <1>1, <1>3, PrefixOfAppend, ElementsOfAppend
<1>4. QED
    BY <1>2, <1>3 DEF BoardGrows

\* The lists an instance has to do with.
LEMMA ListTypes ==
    ASSUME IInv, NEW c \in Apps
    PROVE  /\ shown[c] \in Seq(Msg) /\ board \in Seq(Msg)
           /\ app[c] = "getting" /\ threads[c].pc = "reply" =>
                 threads[c].size \in Nat /\ threads[c].size <= Len(board)
           /\ app[c] = "getting" /\ replies[c] # <<>> =>
                 Taken(replies[c][1].list, replies[c][1].size) \in Seq(Msg)
<1>1. shown[c] \in Seq(Msg) /\ board \in Seq(Msg)
    BY DEF IInv, Types
<1>2. ASSUME app[c] = "getting", threads[c].pc = "reply"
      PROVE  threads[c].size \in Nat /\ threads[c].size <= Len(board)
  <2>1. threads[c] \in Thread_ /\ threads[c].name = "get"
      BY <1>2, Elements DEF IInv, CallsMatch, Named
  <2>2. QED
      BY <1>2, <2>1, ThreadParts DEF IInv, Sizes, Counted
<1>3. ASSUME app[c] = "getting", replies[c] # <<>>
      PROVE  Taken(replies[c][1].list, replies[c][1].size) \in Seq(Msg)
  <2> DEFINE r == replies[c][1]
  <2>1. r \in Result /\ r.name = "get" /\ r.size <= Len(r.list)
      BY <1>3, Elements DEF IInv, CallsMatch, Named, Sizes, Counted
  <2>2. r.list \in Seq(Msg) /\ r.size \in Nat
      BY <2>1 DEF Result
  <2> HIDE DEF r
  <2>3. Taken(r.list, r.size) \in Seq(Msg)
      BY <2>1, <2>2 DEF Taken
  <2>4. QED
      BY <2>3 DEF r
<1>4. QED
    BY <1>1, <1>2, <1>3

\* What has been counted of the board is its beginning, and stays so.
LEMMA CountedStays ==
    ASSUME IInv, BoardGrows, NEW n \in Nat, n <= Len(board)
    PROVE  /\ Taken(board', n) = Taken(board, n) /\ Taken(board, n) \in Seq(Msg)
           /\ IsPrefix(Taken(board, n), board)
<1>1. board \in Seq(Msg)
    BY DEF IInv, Types
<1>2. Taken(board', n) = Taken(board, n)
    BY <1>1, TakenStays DEF BoardGrows
<1>3. Taken(board, n) \in Seq(Msg) /\ Len(Taken(board, n)) = n
    BY <1>1 DEF Taken
<1>4. QED
    BY <1>1, <1>2, <1>3 DEF IsPrefix, Taken

LEMMA UntouchedGrows ==
    ASSUME IInv, NEW c \in Apps, Growing(c), Untouched(c), BoardGrows
    PROVE  Growing(c)'
<1> USE DEF Untouched, Own
<1>1. Linked(c)' /\ AddsOwn(c)' /\ StartsEmpty(c)'
    BY DEF Growing, Linked, AddsOwn, StartsEmpty
<1>2. OnBoard(c)'
    BY BoardKeeps, ListTypes DEF Growing, OnBoard, HasAdded
<1>3. AnswerFresh(c)'
  <2>1. ASSUME app[c] = "getting", threads[c].pc = "reply"
        PROVE  Answers(c, Taken(board, threads[c].size))'
    <3> DEFINE l == Taken(board, threads[c].size)
    <3>1. /\ Taken(board', threads'[c].size) = l /\ l \in Seq(Msg)
          /\ IsPrefix(l, board)
        BY <2>1, ListTypes, CountedStays
    <3>2. IsPrefix(l, board') /\ Fresh(c, l)
        BY <2>1, <3>1, BoardKeeps DEF Growing, AnswerFresh, Answers
    <3> HIDE DEF l
    <3>3. QED
        BY <3>1, <3>2 DEF Answers, Fresh
  <2>2. ASSUME app[c] = "getting", replies[c] # <<>>
        PROVE  Answers(c, Taken(replies[c][1].list, replies[c][1].size))'
    <3> DEFINE l == Taken(replies[c][1].list, replies[c][1].size)
    <3>1. l \in Seq(Msg) /\ Answers(c, l) /\ l' = l
        BY <2>2, ListTypes DEF Growing, AnswerFresh
    <3> HIDE DEF l
    <3>2. Fresh(c, l) /\ (conn[c] = "open" => IsPrefix(l, board'))
        BY <3>1, BoardKeeps DEF Answers
    <3>3. Fresh(c, l)'
        BY <3>1, <3>2 DEF Fresh
    <3>4. Answers(c, l)'
        BY <3>1, <3>2, <3>3 DEF Answers
    <3>5. QED
        BY <3>4 DEF l
  <2>3. QED
      BY <2>1, <2>2 DEF AnswerFresh
<1>4. QED
    BY <1>1, <1>2, <1>3 DEF Growing

-----------------------------------------------------------------------------
(* What an instance of the app shows only grows: the steps.                 *)

LEMMA InitGrows == Init => Growth
<1> SUFFICES ASSUME Init PROVE Growth
    OBVIOUS
<1> USE DEF Init, None, Growth
<1>1. QueueOpen
    BY DEF QueueOpen
<1>2. ASSUME NEW c \in Apps PROVE Growing(c)
    BY DEF Growing, Linked, AddsOwn, OnBoard, AnswerFresh, StartsEmpty
<1>3. QED
    BY <1>1, <1>2

LEMMA AppGrows ==
    ASSUME GrowthInv, NEW c \in Apps, AppStep(c) \/ User(c)
    PROVE  Growth'
<1> USE DEF GrowthInv, Growth
<1>1. board' = board /\ threads' = threads
    BY DEF AppStep, User, Launch, Press, Quit, Added, Ask, Show, Misread, Broken, serverVars
<1>2. \A d \in Apps \ {c} : Untouched(d)
    BY DEF AppStep, User, Launch, Press, Quit, Added, Ask, Show, Misread, Broken, serverVars, Untouched,
           Write, IInv, Types
<1>3. \A d \in Apps \ {c} : Growing(d)'
    BY <1>1, <1>2, UntouchedGrows DEF BoardGrows
<1>4. QueueOpen'
  <2>1. CASE Launch(c) /\ up
    <3>1. \A i \in 1..Len(backlog) : backlog[i] \in Apps \ {c}
        BY <2>1, Elements DEF Launch, IInv, Queue
    <3>2. conn'[c] = "open" /\ \A d \in Apps \ {c} : conn'[d] = conn[d]
        BY <2>1 DEF Launch, IInv, Types
    <3>3. /\ Len(backlog') = Len(backlog) + 1 /\ backlog'[Len(backlog) + 1] = c
          /\ \A i \in 1..Len(backlog) : backlog'[i] = backlog[i]
      <4>1. backlog \in Seq(Apps) /\ backlog' = Append(backlog, c)
          BY <2>1 DEF Launch, IInv, Types
      <4>2. QED
          BY <4>1
    <3>4. Len(backlog) \in Nat
        BY DEF IInv, Types
    <3>5. ASSUME NEW i \in 1..Len(backlog') PROVE conn'[backlog'[i]] = "open"
      <4>1. CASE i \in 1..Len(backlog)
          BY <3>1, <3>2, <3>3, <4>1 DEF QueueOpen
      <4>2. CASE i = Len(backlog) + 1
          BY <3>2, <3>3, <4>2
      <4>3. QED
          BY <3>3, <3>4, <3>5, <4>1, <4>2
    <3>6. QED
        BY <3>5 DEF QueueOpen
  <2>2. CASE Launch(c) /\ ~up
    <3>1. \A i \in 1..Len(backlog) : backlog[i] \in Apps \ {c}
        BY <2>2, Elements DEF Launch, IInv, Queue
    <3>2. backlog' = backlog /\ \A d \in Apps \ {c} : conn'[d] = conn[d]
        BY <2>2 DEF Launch, IInv, Types
    <3>3. QED
        BY <3>1, <3>2 DEF QueueOpen
  <2>3. CASE ~Launch(c)
    <3>1. UNCHANGED <<backlog, conn>>
        BY <2>3 DEF AppStep, User, Press, Quit, Added, Ask, Show, Misread, Broken, serverVars
    <3>2. QED
        BY <3>1 DEF QueueOpen
  <2>4. QED
      BY <2>1, <2>2, <2>3
<1> USE DEF Growing
<1>5. CASE Launch(c)
  <2>1. /\ app'[c] = "idle" /\ shown'[c] = <<>>
        /\ requests'[c] = <<>> /\ threads'[c] = None
      BY <1>1, <1>5 DEF Launch, IInv, Types, OneCall, Queue, StartsEmpty
  <2>2. IsPrefix(<<>>, board')
      BY <1>1, PrefixOfNothing DEF IInv, Types
  <2>3. Growing(c)'
      BY <2>1, <2>2 DEF Linked, AddsOwn, OnBoard, HasAdded, AnswerFresh, StartsEmpty
  <2>4. QED
      BY <1>3, <1>4, <2>3
<1>6. CASE Press(c)
  <2>1. /\ requests[c] = <<>> /\ replies[c] = <<>> /\ threads[c].pc \in {"none", "ready"}
        /\ replies'[c] = <<>> /\ shown'[c] = shown[c] /\ conn'[c] = conn[c]
      BY <1>6 DEF Press, IInv, OneCall, Resting, serverVars
  <2>2. presses'[c] = presses[c] + 1
      BY <1>6 DEF Press, IInv, Types
  <2>3. \/ /\ conn[c] = "open" /\ app'[c] = "adding"
           /\ requests'[c] = <<[name |-> "add", msg |-> <<c, presses[c] + 1>>]>>
        \/ app'[c] = "gone" /\ requests'[c] = <<>>
    <3>1. requests'[c] = IF conn[c] = "open"
                         THEN Append(<<>>, [name |-> "add", msg |-> <<c, presses[c] + 1>>])
                         ELSE <<>>
        BY <1>6, <2>1, ZenonT(60) DEF Press, Write, IInv, Types
    <3>2. app'[c] = IF conn[c] = "open" THEN "adding" ELSE "gone"
        BY <1>6 DEF Press, Write, IInv, Types
    <3>3. QED
        BY <3>1, <3>2
  <2>4. Linked(c)' /\ AddsOwn(c)' /\ StartsEmpty(c)'
      BY <1>1, <2>1, <2>2, <2>3 DEF Linked, AddsOwn, StartsEmpty, Own
  <2>5. OnBoard(c)' /\ AnswerFresh(c)'
      BY <1>1, <2>1, <2>3 DEF OnBoard, HasAdded, AnswerFresh
  <2>6. QED
      BY <1>3, <1>4, <2>4, <2>5
<1>7. CASE Added(c)
  <2>1. /\ app[c] = "adding" /\ app'[c] = "added" /\ HasAdded(c)
        /\ UNCHANGED <<conn, presses, requests, shown>>
      BY <1>7 DEF Added, HasAdded, IInv, Types
  <2>2. Growing(c)'
      BY <1>1, <2>1 DEF Linked, AddsOwn, OnBoard, HasAdded, AnswerFresh, StartsEmpty, Own
  <2>3. QED
      BY <1>3, <1>4, <2>2
<1>8. CASE Ask(c)
  <2>1. /\ requests[c] = <<>> /\ replies[c] = <<>> /\ threads[c].pc \in {"none", "ready"}
        /\ app[c] = "added" /\ UNCHANGED <<conn, presses, replies, shown>>
      BY <1>8 DEF Ask, IInv, OneCall, Resting
  <2>2. \/ app'[c] = "getting" /\ conn[c] = "open"
        \/ app'[c] = "gone" /\ requests'[c] = <<>>
      BY <1>8, <2>1 DEF Ask, Write, IInv, Types
  <2>3. Growing(c)'
      BY <1>1, <2>1, <2>2 DEF Linked, AddsOwn, OnBoard, HasAdded, AnswerFresh, StartsEmpty, Own
  <2>4. QED
      BY <1>3, <1>4, <2>3
<1>9. CASE Show(c)
  <2> DEFINE l == Taken(replies[c][1].list, replies[c][1].size)
  <2>1. /\ app[c] = "getting" /\ replies[c] # <<>> /\ app'[c] = "idle"
        /\ shown'[c] = l /\ UNCHANGED <<conn, presses, requests>>
      BY <1>9 DEF Show, IInv, Types
  <2>2. conn[c] = "open" => IsPrefix(l, board)
      BY <2>1 DEF AnswerFresh, Answers
  <2> HIDE DEF l
  <2>3. Growing(c)'
      BY <1>1, <2>1, <2>2 DEF Linked, AddsOwn, OnBoard, HasAdded, AnswerFresh, StartsEmpty
  <2>4. QED
      BY <1>3, <1>4, <2>3
<1>10. CASE Misread(c) \/ Broken(c) \/ Quit(c)
  <2>1. app'[c] = "gone" /\ UNCHANGED <<conn, presses, requests, shown>>
      BY <1>10 DEF Misread, Broken, Quit, IInv, Types
  <2>2. Growing(c)'
      BY <1>1, <2>1 DEF Linked, AddsOwn, OnBoard, HasAdded, AnswerFresh, StartsEmpty
  <2>3. QED
      BY <1>3, <1>4, <2>2
<1>11. QED
    BY <1>5, <1>6, <1>7, <1>8, <1>9, <1>10 DEF AppStep, User

LEMMA ServerGrows ==
    ASSUME GrowthInv, Accept \/ \E c \in Apps : Thread(c)
    PROVE  Growth'
<1> USE DEF GrowthInv, Growth, appVars
<1>1. CASE Accept
  <2>1. /\ 1 \in 1..Len(backlog) /\ Head(backlog) = backlog[1]
        /\ \A i \in 1..Len(backlog') : i + 1 \in 1..Len(backlog) /\ backlog'[i] = backlog[i + 1]
    <3>1. backlog \in Seq(Apps) /\ backlog # <<>> /\ backlog' = Tail(backlog)
        BY <1>1 DEF Accept, IInv, Types
    <3>2. QED
        BY <3>1
  <2>2. PICK c \in Apps : c = backlog[1]
      BY <2>1, Elements DEF IInv
  <2>3. conn[c] = "open" /\ threads[c] = None
      BY <2>1, <2>2 DEF QueueOpen, IInv, Queue
  <2>4. /\ threads' = [threads EXCEPT ![c] = Ready]
        /\ UNCHANGED <<board, app, conn, presses, shown, requests, replies>>
      BY <1>1, <2>1, <2>2 DEF Accept
  <2>5. QueueOpen'
      BY <2>1, <2>4 DEF QueueOpen
  <2>6. \A d \in Apps \ {c} : Growing(d)'
      BY <2>4, UntouchedGrows DEF Untouched, BoardGrows, IInv, Types
  <2>7. threads'[c] = Ready /\ Ready.pc = "ready" /\ None.pc = "none"
      BY <2>4 DEF Ready, None, IInv, Types
  <2>8. Growing(c)'
    <3>1. Linked(c)' /\ AddsOwn(c)' /\ StartsEmpty(c)'
        BY <2>3, <2>4, <2>7 DEF Growing, Linked, AddsOwn, StartsEmpty, Own
    <3>2. OnBoard(c)'
        BY <2>3, <2>4, <2>7 DEF Growing, OnBoard, HasAdded, Own
    <3>3. AnswerFresh(c)'
        BY <2>3, <2>4, <2>7 DEF Growing, AnswerFresh, Answers, Fresh, Own
    <3>4. QED
        BY <3>1, <3>2, <3>3 DEF Growing
  <2>9. QED
      BY <2>5, <2>6, <2>8
<1>2. ASSUME NEW c \in Apps, Thread(c)
      PROVE  Growth'
  <2>1. /\ UNCHANGED <<app, conn, presses, shown, backlog>>
        /\ \A d \in Apps \ {c} : /\ threads'[d] = threads[d] /\ requests'[d] = requests[d]
                                 /\ replies'[d] = replies[d]
      BY <1>2 DEF Thread, Read, Call, Reply, Finish, IInv, Types
  <2>2. conn[c] = "open" /\ threads[c] \in Thread_ /\ threads[c] # None
      BY <1>2, Elements DEF Thread, Read, Call, Reply, Finish, None, Ready, Growing, Linked, IInv
  <2>3. BoardGrows
    <3>1. CASE Call(c) /\ threads[c].request.name = "add"
      <4>1. threads[c].request.msg \in Msg
          BY <2>2, <3>1, ThreadParts, RequestParts DEF Call
      <4>2. QED
          BY <3>1, <4>1 DEF Call, ServiceAdd, BoardGrows
    <3>2. CASE ~(Call(c) /\ threads[c].request.name = "add")
        BY <1>2, <3>2 DEF Thread, Read, Call, Reply, Finish, BoardGrows
    <3>3. QED
        BY <3>1, <3>2
  <2>4. QueueOpen'
      BY <2>1 DEF QueueOpen
  <2>5. \A d \in Apps \ {c} : Growing(d)'
      BY <2>1, <2>3, UntouchedGrows DEF Untouched
  <2>6. IsPrefix(shown[c], board) /\ (HasAdded(c) => Own(c) \in ToSet(board))
      BY <2>2 DEF Growing, OnBoard
  <2>7. /\ IsPrefix(shown[c], board')
        /\ HasAdded(c) => Own(c) \in ToSet(board')
      BY <2>3, <2>6, BoardKeeps, ListTypes
  <2>8. Linked(c)' /\ StartsEmpty(c)' /\ Own(c)' = Own(c)
      BY <2>1, <2>2 DEF Growing, Linked, StartsEmpty, Own
  <2>9. CASE Read(c) \/ Finish(c)
    <3>1. /\ threads[c].pc = "ready" /\ threads'[c].pc \in {"call", "none"}
          /\ UNCHANGED replies /\ board' = board
          /\ requests'[c] # <<>> => requests'[c] = requests[c]
          /\ threads'[c].pc = "call" => threads'[c].request = requests[c][1] /\ requests[c] # <<>>
        BY <2>9 DEF Read, Finish, Ready, None, IInv, Types
    <3>2. AddsOwn(c)'
        BY <2>1, <2>8, <3>1 DEF Growing, AddsOwn
    <3>3. OnBoard(c)'
        BY <2>1, <2>7, <2>8, <3>1 DEF OnBoard, HasAdded
    <3>4. AnswerFresh(c)'
        BY <2>1, <2>8, <3>1 DEF Growing, AnswerFresh, Answers, Fresh
    <3>5. QED
        BY <2>4, <2>5, <2>8, <3>2, <3>3, <3>4 DEF Growing
  <2>10. CASE Call(c)
    <3>1. /\ threads[c].pc = "call" /\ threads'[c].pc = "reply" /\ UNCHANGED <<requests, replies>>
          /\ requests[c] = <<>> /\ replies[c] = <<>>
      <4>1. threads[c].pc = "call" /\ UNCHANGED <<requests, replies>>
          BY <2>10 DEF Call
      <4>2. requests[c] = <<>> /\ replies[c] = <<>>
          BY <4>1 DEF IInv, OneCall, Resting
      <4>3. threads'[c].pc = "reply"
          BY <2>10 DEF Call, IInv, Types
      <4>4. QED
          BY <4>1, <4>2, <4>3
    <3>2. AddsOwn(c)'
        BY <3>1 DEF AddsOwn
    <3>3. CASE app[c] = "adding"
      <4>1. /\ threads[c].request.name = "add" /\ threads[c].request.msg = Own(c)
            /\ threads[c].request.msg \in Msg
          BY <2>2, <3>1, <3>3, ThreadParts, RequestParts
          DEF IInv, CallsMatch, Named, Growing, AddsOwn
      <4>2. Own(c) \in ToSet(board')
          BY <2>10, <4>1, ElementsOfAppend DEF Call, ServiceAdd, IInv, Types
      <4>3. OnBoard(c)' /\ AnswerFresh(c)'
          BY <2>1, <2>7, <2>8, <3>3, <4>2 DEF OnBoard, AnswerFresh
      <4>4. QED
          BY <2>4, <2>5, <2>8, <3>2, <4>3 DEF Growing
    <3>4. CASE app[c] = "getting"
      <4>1. threads[c].request.name = "get"
          BY <3>1, <3>4 DEF IInv, CallsMatch, Named
      <4>2. Taken(board', threads'[c].size) = board /\ board' = board
        <5>1. threads'[c].size = Len(board) /\ board' = board /\ board \in Seq(Msg)
            BY <2>10, <4>1 DEF Call, ServiceGet, IInv, Types
        <5>2. QED
            BY <5>1, TakenAll
      <4>3. OnBoard(c)'
          BY <2>1, <2>7, <2>8, <3>4 DEF OnBoard, HasAdded
      <4>4. Fresh(c, board) /\ IsPrefix(board, board)
          BY <2>6, <3>4, PrefixOfItself DEF Fresh, HasAdded, IInv, Types
      <4>5. AnswerFresh(c)'
          BY <2>1, <2>8, <3>1, <4>2, <4>4 DEF AnswerFresh, Answers, Fresh
      <4>6. QED
          BY <2>4, <2>5, <2>8, <3>2, <4>3, <4>5 DEF Growing
    <3>5. CASE app[c] \notin {"adding", "getting"}
      <4>1. OnBoard(c)' /\ AnswerFresh(c)'
          BY <2>1, <2>7, <2>8, <3>5 DEF OnBoard, HasAdded, AnswerFresh
      <4>2. QED
          BY <2>4, <2>5, <2>8, <3>2, <4>1 DEF Growing
    <3>6. QED
        BY <3>3, <3>4, <3>5
  <2>11. CASE Reply(c)
    <3>1. /\ threads[c].pc = "reply" /\ threads'[c].pc = "ready" /\ UNCHANGED requests
          /\ board' = board
        BY <2>11 DEF Reply, Ready, IInv, Types
    <3>2. AddsOwn(c)'
        BY <2>1, <2>8, <3>1 DEF Growing, AddsOwn
    <3>3. OnBoard(c)'
        BY <2>1, <2>7, <2>8, <3>1 DEF OnBoard, HasAdded
    <3>4. AnswerFresh(c)'
      <4> DEFINE l == Taken(board, threads[c].size)
      <4> SUFFICES ASSUME app[c] = "getting"
                   PROVE  Answers(c, Taken(replies[c][1].list, replies[c][1].size))'
          BY <2>1, <3>1 DEF AnswerFresh
      <4>1. threads[c].name = "get"
          BY <3>1 DEF IInv, CallsMatch, Named
      <4>2. replies'[c] = <<[name |-> "get", size |-> threads[c].size, list |-> board]>>
          BY <2>11, <4>1 DEF Reply, ServiceGet, IInv, Types
      <4>3. Taken(replies'[c][1].list, replies'[c][1].size) = l
          BY <4>2
      <4>4. Answers(c, l)
          BY <3>1 DEF Growing, AnswerFresh
      <4> HIDE DEF l
      <4>5. QED
          BY <2>1, <2>8, <3>1, <4>3, <4>4 DEF Answers, Fresh
    <3>5. QED
        BY <2>4, <2>5, <2>8, <3>2, <3>3, <3>4 DEF Growing
  <2>12. QED
      BY <1>2, <2>9, <2>10, <2>11 DEF Thread
<1>3. QED
    BY <1>1, <1>2

LEMMA RestartGrows ==
    ASSUME GrowthInv, Crash \/ Start
    PROVE  Growth'
<1> USE DEF GrowthInv, Growth
<1>1. CASE Crash
  <2>1. QueueOpen'
      BY <1>1 DEF Crash, QueueOpen
  <2>2. ASSUME NEW c \in Apps PROVE Growing(c)'
    <3>1. /\ threads'[c] = None /\ None.pc = "none" /\ requests'[c] = <<>> /\ conn'[c] # "open"
          /\ UNCHANGED <<app, presses, shown>>
        BY <1>1 DEF Crash, None
    <3>2. replies'[c] = replies[c] \/ replies'[c] = <<>>
        BY <1>1 DEF Crash
    <3>3. QED
        BY <3>1, <3>2
        DEF Growing, Linked, AddsOwn, OnBoard, AnswerFresh, Answers, Fresh, StartsEmpty, Own
  <2>3. QED
      BY <2>1, <2>2
<1>2. CASE Start
  <2>1. QueueOpen'
      BY <1>2 DEF Start, QueueOpen, appVars
  <2>2. \A c \in Apps : Untouched(c) /\ BoardGrows
      BY <1>2 DEF Start, Untouched, BoardGrows, appVars
  <2>3. QED
      BY <2>1, <2>2, UntouchedGrows
<1>3. QED
    BY <1>1, <1>2

LEMMA GrowthInvariance == Spec => []GrowthInv
<1>1. GrowthInv /\ [Next]_vars => Growth'
  <2> SUFFICES ASSUME GrowthInv, [Next]_vars
               PROVE  Growth'
      OBVIOUS
  <2>1. CASE UNCHANGED vars
    <3>1. QueueOpen'
        BY <2>1 DEF vars, serverVars, appVars, GrowthInv, Growth, QueueOpen
    <3>2. \A c \in Apps : Untouched(c) /\ BoardGrows
        BY <2>1 DEF vars, serverVars, appVars, Untouched, BoardGrows
    <3>3. QED
        BY <3>1, <3>2, UntouchedGrows DEF GrowthInv, Growth
  <2>2. QED
      BY <2>1, AppGrows, ServerGrows, RestartGrows DEF Next
<1>2. QED
    BY <1>1, InitGrows, Invariance, PTL DEF Spec, GrowthInv

-----------------------------------------------------------------------------
(* What an instance of the app shows only grows: the theorem.               *)

\* What an instance shows only grows, and with each press by its own message
\* at least, although a server that ends forgets its list (addPressed,
\* ViewController.m:33-45, and BulletinBoardImpl's list in memory).
THEOREM ShownAlwaysGrows == Spec => ShownGrows
<1>1. ASSUME GrowthInv, [Next]_vars, NEW c \in Apps, shown'[c] # shown[c]
      PROVE  IsPrefix(shown[c], shown'[c]) /\ <<c, presses[c]>> \in ToSet(shown'[c])
  <2>1. Show(c)
    <3>1. PICK d \in Apps : Show(d)
        BY <1>1 DEF Next, vars, AppStep, User, Thread, Launch, Press, Quit, Added, Ask, Misread, Broken,
                    Accept, Read, Call, Reply, Finish, Crash, Start, appVars
    <3>2. QED
        BY <1>1, <3>1 DEF Show, GrowthInv, IInv, Types
  <2>2. /\ app[c] = "getting" /\ replies[c] # <<>>
        /\ shown'[c] = Taken(replies[c][1].list, replies[c][1].size)
      BY <1>1, <2>1 DEF Show, GrowthInv, IInv, Types
  <2>3. QED
      BY <1>1, <2>2 DEF GrowthInv, Growth, Growing, AnswerFresh, Answers, Fresh, Own
<1>2. GrowthInv /\ [Next]_vars =>
          [\A c \in Apps : shown'[c] # shown[c] =>
              IsPrefix(shown[c], shown'[c]) /\ <<c, presses[c]>> \in ToSet(shown'[c])]_vars
    BY <1>1
<1>3. QED
    BY <1>2, GrowthInvariance, PTL DEF Spec, ShownGrows

=============================================================================
