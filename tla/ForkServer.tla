---------------------------- MODULE ForkServer ----------------------------
(***************************************************************************)
(* The older plane-room server, server/bak/accept_fork_server.cpp: the      *)
(* parent accepts connections and forks a child for each; the children      *)
(* serve their clients with the methods of COnlineLogic, all of them on the *)
(* text of one shared segment and without a lock.                           *)
(*                                                                          *)
(* A method reads the whole text, and most write a whole new one over it.   *)
(* Reading (strlen, then copying) and writing (memcpy) are two steps each,  *)
(* cut after any character, so that a child can read a text that another is    *)
(* half way through writing, and two can write over each other.             *)
(***************************************************************************)
EXTENDS OnlineCodec

CONSTANTS
    Conns,          \* connections clients open in the course of a behaviour
    NoConn,         \* no connection
    FirstFd,        \* the first descriptor accept returns
    MaxFds,         \* connections the descriptor table of a process has room for
    Requests,       \* the requests each client sends: [cmd, body]
    SendBuf,        \* answers a connection can hold unread before send blocks
    MaxSent,        \* bound: requests a client sends; one is under way at a time
    Late,           \* bound: the connections opened when no descriptor is left
    Leavers,        \* bound: the connections that clients close or reset
    Cuts,           \* bound: the characters after which a copy can be cut
    MaxForks        \* bound: children the parent forks

ASSUME ForkAssumption ==
    /\ NoConn \notin Conns /\ FirstFd \in Nat /\ MaxFds \in Nat
    /\ FirstFd..(FirstFd + MaxFds - 1) \subseteq Fds

\* What client.c can send and the children know.
ASSUME RequestsAssumption ==
    \A c \in Conns : \A r \in Requests[c] :
        /\ r.cmd \in {"reg", "onlineinfo", "vs", "hit"}
        /\ r.cmd \in {"reg", "vs"} => r.body \in Names

VARIABLES
    ppc,        \* the parent's next call
    table,      \* the connections on the parent's descriptors, FirstFd first
    children,   \* the processes forked, in that order
    shm,        \* the text of the segment, up to its first zero byte
    backlog,    \* connections waiting for accept
    peer,       \* how each connection stands at the client's end
    inbox,      \* the request sent and not read, if any, as a sequence
    unread,     \* answers sent and not read by the client
    nsent,      \* requests each client has sent
    \* history
    raced,      \* two methods have been under way at the same time
    regby,      \* the name each connection has registered last
    paired,     \* the pairs of connections vs requests have put together
    hits        \* <<c, d>>: a hit of c was sent to d

netVars  == <<backlog, peer, inbox, unread, nsent>>
histVars == <<raced, regby, paired, hits>>
vars == <<ppc, table, children, shm, netVars, histVars>>

Kids == DOMAIN children

Idle == [cmd |-> "none", body |-> <<>>]

\* what a process knows: its next call, the connection it serves (NoConn when
\* accept failed) and how many descriptors it had when it was forked, the
\* request, the text read so far and how far it goes, the text to write, the
\* number of its characters written, and the descriptor to send to
Child == [pc   : {"recv", "read", "reading", "copy", "copying", "send", "dead"},
          conn : Conns \cup {NoConn}, nfds : 0..MaxFds,
          req  : [cmd : {"none", "reg", "onlineinfo", "vs", "hit", "off"},
                  body : Names \cup {<<>>}],
          seen : Seq(STRING), len : Nat, out : Seq(STRING), at : Nat, to : Int]

TypeOK ==
    /\ ppc \in {"accept", "welcome", "fork", "failed", "dead"}
    /\ table \in Seq(Conns) /\ Len(table) <= MaxFds
    /\ children \in Seq(Child)
    /\ shm \in Seq(STRING)
    /\ backlog \in Seq(Conns)
    /\ peer \in [Conns -> {"new", "open", "closed", "kicked", "reset"}]
    /\ \A c \in Conns : inbox[c] \in Seq(Requests[c]) /\ Len(inbox[c]) <= 1
    /\ unread \in [Conns -> Nat] /\ nsent \in [Conns -> Nat]
    /\ raced \in BOOLEAN
    /\ regby \in [Conns -> Names \cup {<<>>}]
    /\ paired \subseteq SUBSET Conns /\ hits \subseteq Conns \X Conns

Init ==
    /\ ppc = "accept" /\ table = <<>> /\ children = <<>> /\ shm = <<>>
    /\ backlog = <<>>
    /\ peer = [c \in Conns |-> "new"] /\ inbox = [c \in Conns |-> <<>>]
    /\ unread = [c \in Conns |-> 0] /\ nsent = [c \in Conns |-> 0]
    /\ raced = FALSE /\ regby = [c \in Conns |-> <<>>]
    /\ paired = {} /\ hits = {}

-----------------------------------------------------------------------------
(* Clients and the network.                                                 *)

Connect(c) ==
    /\ peer[c] = "new" /\ (c \in Late => Len(table) = MaxFds)
    /\ peer' = [peer EXCEPT ![c] = "open"]
    /\ backlog' = Append(backlog, c)
    /\ UNCHANGED <<ppc, table, children, shm, inbox, unread, nsent, histVars>>

SendRequest(c) ==
    /\ peer[c] = "open" /\ inbox[c] = <<>> /\ nsent[c] < MaxSent
    /\ \E r \in Requests[c] : inbox' = [inbox EXCEPT ![c] = <<r>>]
    /\ nsent' = [nsent EXCEPT ![c] = @ + 1]
    /\ UNCHANGED <<ppc, table, children, shm, backlog, peer, unread, histVars>>

Receive(c) ==
    /\ peer[c] = "open" /\ unread[c] > 0
    /\ unread' = [unread EXCEPT ![c] = 0]
    /\ UNCHANGED <<ppc, table, children, shm, backlog, peer, inbox, nsent, histVars>>

\* the client closes; a reset answers what is sent to it after that
Leave(c) ==
    /\ c \in Leavers
    /\ \/ peer[c] = "open" /\ peer' = [peer EXCEPT ![c] = "closed"]
       \/ peer[c] = "kicked" /\ peer' = [peer EXCEPT ![c] = "reset"]
    /\ UNCHANGED <<ppc, table, children, shm, backlog, inbox, unread, nsent, histVars>>

\* the client resets the connection, before it is accepted or after
Abort(c) ==
    /\ c \in Leavers /\ peer[c] = "open"
    /\ peer' = [peer EXCEPT ![c] = "reset"]
    /\ UNCHANGED <<ppc, table, children, shm, backlog, inbox, unread, nsent, histVars>>

Client(c) == Connect(c) \/ SendRequest(c) \/ Receive(c) \/ Leave(c) \/ Abort(c)

-----------------------------------------------------------------------------
(* The parent, accept_fork_server.cpp:62-79.  It closes no descriptor.      *)

\* the parent waits for its child
BugAccept ==
    /\ ppc = "accept" /\ backlog # <<>> /\ Len(table) < MaxFds
    /\ \A k \in Kids : children[k].pc = "dead"
    /\ table' = Append(table, Head(backlog)) /\ backlog' = Tail(backlog)
    /\ ppc' = "welcome"
    /\ UNCHANGED <<children, shm, peer, inbox, unread, nsent, histVars>>

\* without a free descriptor accept fails and the connection keeps waiting;
\* the test behind it is of another variable
Accept ==
    /\ ppc = "accept" /\ backlog # <<>>
    /\ IF Len(table) < MaxFds
       THEN /\ table' = Append(table, Head(backlog))
            /\ backlog' = Tail(backlog)
            /\ ppc' = "welcome"
       ELSE ppc' = "failed" /\ UNCHANGED <<table, backlog>>
    /\ UNCHANGED <<children, shm, peer, inbox, unread, nsent, histVars>>

\* send on the connection c of a process: nothing happens when it has none,
\* a full one makes it wait, one that was reset kills it
SendOn(c, survive, die) ==
    \/ c = NoConn /\ survive /\ UNCHANGED <<peer, unread>>
    \/ /\ c # NoConn
       /\ \/ /\ peer[c] = "open" /\ unread[c] < SendBuf
             /\ unread' = [unread EXCEPT ![c] = @ + 1]
             /\ survive /\ UNCHANGED peer
          \/ /\ peer[c] \in {"closed", "kicked"}
             /\ peer' = [peer EXCEPT ![c] = "kicked"]
             /\ survive /\ UNCHANGED unread
          \/ peer[c] = "reset" /\ die /\ UNCHANGED <<peer, unread>>

Welcome ==
    /\ ppc = "welcome"
    /\ SendOn(Last(table), ppc' = "fork", ppc' = "dead")
    /\ UNCHANGED <<table, children, shm, backlog, inbox, nsent, histVars>>

\* the child has the descriptors its parent has at this moment
NewChild(conn) ==
    [pc |-> "recv", conn |-> conn, nfds |-> Len(table), req |-> Idle,
     seen |-> <<>>, len |-> 0, out |-> <<>>, at |-> 0, to |-> NoFd]

\* after a failed accept the child is forked all the same, for descriptor -1;
\* a fork that fails is not noticed, and nobody serves the connection
Fork ==
    /\ ppc \in {"fork", "failed"} /\ Len(children) < MaxForks
    /\ LET conn == IF ppc = "failed" THEN NoConn ELSE Last(table)
       IN  \/ children' = Append(children, NewChild(conn))
           \/ UNCHANGED children
    /\ ppc' = "accept"
    /\ UNCHANGED <<table, shm, netVars, histVars>>

Parent == Accept \/ Welcome \/ Fork

-----------------------------------------------------------------------------
(* A child, accept_fork_server.cpp:77-157.                                  *)

Fd(c) == FirstFd - 1 + (CHOOSE i \in DOMAIN table : table[i] = c)

MyFd(k) == IF children[k].conn = NoConn THEN NoFd ELSE Fd(children[k].conn)

\* the descriptor looked up in the parent's table of now, as threads would
BugConnOf(k, fd) ==
    IF fd \in FirstFd..(FirstFd + Len(table) - 1)
    THEN table[fd - FirstFd + 1] ELSE NoConn

\* the connection a descriptor is in the table of child k
ConnOf(k, fd) ==
    IF fd \in FirstFd..(FirstFd + children[k].nfds - 1)
    THEN table[fd - FirstFd + 1] ELSE NoConn

InMethod(k) == children[k].pc \notin {"recv", "dead"}

Become(k, new) == children' = [children EXCEPT ![k] = new]

\* recv: a request, or the end of the connection, which also ends the child
Recv(k) ==
    LET me == children[k]  c == me.conn
    IN  /\ me.pc = "recv"
        /\ \/ /\ c # NoConn /\ inbox[c] # <<>>
              /\ inbox' = [inbox EXCEPT ![c] = <<>>]
              /\ Become(k, [me EXCEPT !.pc = "read", !.req = Head(inbox[c])])
           \/ /\ c # NoConn => (inbox[c] = <<>> /\ peer[c] # "open")
              /\ Become(k, [me EXCEPT !.pc = "read", !.req = [Idle EXCEPT !.cmd = "off"]])
              /\ UNCHANGED inbox
        /\ raced' = (raced \/ \E j \in Kids \ {k} : InMethod(j))
        /\ UNCHANGED <<ppc, table, shm, backlog, peer, unread, nsent, regby, paired, hits>>

\* a hit that finds no opponent is tried again
BugDone(me) ==
    IF me.req.cmd = "hit" /\ me.to = NoFd THEN [me EXCEPT !.pc = "read"]
    ELSE [me EXCEPT !.pc = IF me.req.cmd = "off" THEN "dead" ELSE "recv",
                    !.req = Idle, !.out = <<>>, !.at = 0, !.to = NoFd]


\* where a child goes when its request is dealt with
Done(me) == [me EXCEPT !.pc = IF me.req.cmd = "off" THEN "dead" ELSE "recv",
                       !.req = Idle, !.seen = <<>>, !.len = 0,
                       !.out = <<>>, !.at = 0, !.to = NoFd]

\* a child changes the map it was forked with
BugUpdated(m, fd, req) ==
    IF req.cmd = "reg" THEN RegMap(EmptyMap, fd, req.body) ELSE m

\* The map a method leaves, equal to m when it writes nothing.
Updated(m, fd, req) ==
    CASE req.cmd = "reg" -> RegMap(m, fd, req.body)
      [] req.cmd = "vs" /\ fd \in DOMAIN m /\ NamedIn(m, req.body) # {} ->
            VsMap(m, fd, req.body, CHOOSE e \in LastOf(NamedIn(m, req.body)) : TRUE)
      [] req.cmd = "off" /\ fd \in DOMAIN m -> StatMap(m, fd, ONLINE_STAT_OFF)
      [] OTHER -> m

\* whether a method writes: reg only what is new, vs and off what they found
Writes(m, fd, req) ==
    \/ req.cmd = "reg" /\ RegMap(m, fd, req.body) # m
    \/ req.cmd = "vs" /\ fd \in DOMAIN m /\ NamedIn(m, req.body) # {}
    \/ req.cmd = "off" /\ fd \in DOMAIN m

\* what the method of child k makes of the map m it has read
Apply(k, m) ==
    LET me == [children[k] EXCEPT !.seen = <<>>, !.len = 0]
        to == IF me.req.cmd = "hit" THEN GetVsFD(m, MyFd(k)) ELSE MyFd(k)
        writes == Writes(m, MyFd(k), me.req)
    IN  /\ Become(k,
            IF me.req.cmd \in {"hit", "onlineinfo"}
            THEN IF to # 0 THEN [me EXCEPT !.pc = "send", !.to = to] ELSE Done(me)
            ELSE IF writes
                 THEN [me EXCEPT !.pc = "copy", !.out = Content(Updated(m, MyFd(k), me.req))]
                 ELSE Done(me))
        /\ paired' = IF me.req.cmd = "vs" /\ writes
                     THEN paired \cup {{me.conn, table[f - FirstFd + 1]} :
                             f \in {g \in NamedIn(m, me.req.body) :
                                        g - FirstFd + 1 \in DOMAIN table}}
                     ELSE paired

\* the whole text at once, or its length and its first n characters ...
ReadFront(k) ==
    /\ children[k].pc = "read"
    /\ \/ \E m \in {Rebuild(shm)} : Apply(k, m)
       \/ \E n \in Cuts \cap 0..(Len(shm) - 1) :
             Become(k, [children[k] EXCEPT !.pc = "reading", !.len = Len(shm),
                                           !.seen = SubSeq(shm, 1, n)])
             /\ UNCHANGED paired
    /\ UNCHANGED <<ppc, table, shm, netVars, raced, regby, hits>>

\* ... and the others
ReadBack(k) ==
    /\ children[k].pc = "reading"
    /\ \E m \in {Rebuild(children[k].seen \o
                          SubSeq(shm, Len(children[k].seen) + 1, children[k].len))} :
          Apply(k, m)
    /\ UNCHANGED <<ppc, table, shm, netVars, raced, regby, hits>>

\* a registration is complete when its text is written
Registered(me) ==
    regby' = IF me.req.cmd = "reg" THEN [regby EXCEPT ![me.conn] = me.req.body] ELSE regby

\* memcpy: the first n characters of the new text over the old ...
CopyFront(k) ==
    LET me == children[k]
    IN  /\ me.pc = "copy"
        /\ \E n \in (Cuts \cap 1..Len(me.out)) \cup {Len(me.out)} :
              /\ shm' = SubSeq(me.out, 1, n) \o SubSeq(shm, n + 1, Len(shm))
              /\ IF n = Len(me.out) THEN Become(k, Done(me)) /\ Registered(me)
                 ELSE Become(k, [me EXCEPT !.pc = "copying", !.at = n]) /\ UNCHANGED regby
        /\ UNCHANGED <<ppc, table, netVars, raced, paired, hits>>

\* ... and the others
CopyBack(k) ==
    LET me == children[k]
    IN  /\ me.pc = "copying"
        /\ shm' = SubSeq(shm, 1, me.at) \o SubSeq(me.out, me.at + 1, Len(me.out))
                  \o SubSeq(shm, Len(me.out) + 1, Len(shm))
        /\ Become(k, Done(me)) /\ Registered(me)
        /\ UNCHANGED <<ppc, table, netVars, raced, paired, hits>>

\* sendResponse, through the child's own descriptors
Send(k) ==
    LET me == children[k]  d == ConnOf(k, me.to)
    IN  /\ me.pc = "send"
        /\ SendOn(d, Become(k, Done(me)), Become(k, [Done(me) EXCEPT !.pc = "dead"]))
        /\ hits' = IF me.req.cmd = "hit" /\ unread' # unread
                   THEN hits \cup {<<me.conn, d>>} ELSE hits
        /\ UNCHANGED <<ppc, table, shm, backlog, inbox, nsent, raced, regby, paired>>

Serve(k) == Recv(k) \/ ReadFront(k) \/ ReadBack(k) \/ CopyFront(k) \/ CopyBack(k) \/ Send(k)

Next == Parent \/ (\E k \in Kids : Serve(k)) \/ \E c \in Conns : Client(c)

Spec == Init /\ [][Next]_vars

\* when Serve(k) is enabled
Ready(k) ==
    LET me == children[k]  c == me.conn  d == ConnOf(k, me.to)
    IN  k \in Kids /\ CASE me.pc = "recv" -> c # NoConn /\ peer[c] = "open" => inbox[c] # <<>>
                         [] me.pc = "send" -> d # NoConn /\ peer[d] = "open" => unread[d] < SendBuf
                         [] OTHER -> me.pc # "dead"

\* Every process runs, and clients read what they are sent.  The fairness of a
\* child is weak fairness of Serve(k), with its ENABLED written out.
FairSpec == /\ Spec /\ WF_vars(Parent)
            /\ \A c \in Conns : WF_vars(Receive(c))
            /\ \A k \in 1..MaxForks :
                  <>[]Ready(k) => []<><<k \in Kids /\ children'[k] # children[k]>>_children

-----------------------------------------------------------------------------
(* What is promised.                                                        *)

\* A hit reaches only an opponent whose connection was accepted before the
\* hitter's, or the hitter itself: a child has no descriptor for those
\* accepted after it was forked, so of two players who chose each other only
\* the later one can attack (sendResponse in the child, :145).
HitsGoDown ==
    \A h \in hits : \E i, j \in DOMAIN table :
        table[i] = h[1] /\ table[j] = h[2] /\ j <= i

\* As long as each method has ended before the next began, a hit only reaches
\* a player whom some vs has put together with the hitter.
HitsArePaired == ~raced => \A h \in hits : {h[1], h[2]} \in paired

\* Losing a registration takes two methods at the same time: as long as each
\* has ended before the next began, the text between two of them says of every
\* connection that registered the name it took last.
LossNeedsOverlap ==
    (~raced /\ \A k \in Kids : ~InMethod(k)) =>
        \A c \in Conns : regby[c] # <<>> =>
            LET m == Rebuild(shm) IN Fd(c) \in DOMAIN m /\ m[Fd(c)].name = regby[c]

Served(c) == \E k \in Kids : children[k].conn = c /\ children[k].pc # "dead"

\* A request to a child is read, whatever the other children wait for: each
\* waits for its own client or, with a hit, for an opponent who reads.
RequestsAreRead ==
    \A c \in Conns : (inbox[c] # <<>> /\ Served(c)) ~> (inbox[c] = <<>> \/ ~Served(c))

\* No client that stays holds up the door: a connection is accepted although all
\* earlier ones are still open, unless the parent, which closes none of them, has
\* no descriptor left, or has been killed: a client that resets its connection
\* before it is greeted closes the door for all others.
DoorStaysOpen ==
    \A c \in Conns : (peer[c] # "new") ~>
        (c \in ToSet(table) \/ Len(table) = MaxFds \/ ppc = "dead")

\* A child forked after a failed accept has no client and knows none: its recv
\* fails, it ends the method that starts without writing into the text the others
\* share, and exits.
Stray(k) == k \in Kids /\ children[k].conn = NoConn


=============================================================================
