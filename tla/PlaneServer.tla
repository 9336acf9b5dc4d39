---------------------------- MODULE PlaneServer ----------------------------
(***************************************************************************)
(* The plane-room server: the poll loop of                                  *)
(* server/game_logic_server/main.cpp, one thread that accepts connections,  *)
(* reads requests and answers them, with the sockets of the clients it      *)
(* serves.  The player map is the atomic one of OnlineMap; OnlineShm shows  *)
(* how the text in shared memory implements it.                             *)
(*                                                                          *)
(* A step of the server is one system call and what the code does up to the *)
(* next one, so clients may connect, send, leave or be lost between any two *)
(* calls.                                                                   *)
(***************************************************************************)
EXTENDS OnlineMap, Sequences, FiniteSets

CONSTANTS
    Conns,          \* connections clients open in the course of a behaviour
    NoConn,         \* no connection
    OPEN_MAX,       \* the length of client[]; slot 0 is the listening socket
    Requests,       \* the requests clients send: [cmd, body]
    StackGarbage,   \* what client[i].revents can hold before the first poll
    SendBuf,        \* answers a connection can hold unread before send blocks
    MaxInbox,       \* bound: requests in flight on one connection
    MaxSent,        \* bound: requests a client sends in all
    Failures        \* the ways a client may go other than closing in order

Slots == 1..(OPEN_MAX - 1)

ASSUME OpenMaxAssumption == OPEN_MAX \in Nat \ {0}

\* the descriptor table of a process has an end
ASSUME FiniteFdsAssumption == IsFiniteSet(Fds)

ASSUME NoConnAssumption == NoConn \notin Conns

ASSUME MaxInboxAssumption == MaxInbox \in Nat

ASSUME StackAssumption == StackGarbage \subseteq BOOLEAN

-----------------------------------------------------------------------------
(* What splitRequest makes of the bytes one read returns.  A request is     *)
(* "cmd@body"; the body is a sequence of words because requests read        *)
(* together are cut at the first two '@' only: the body of the first goes   *)
(* on into the command of the next, and the rest is dropped.                *)

\* "other" is any command the server has no function for.
Request == [cmd : {"reg", "onlineinfo", "vs", "hit", "other"}, body : Names]

ASSUME RequestsAssumption == Requests \subseteq Request

Cmd(q) == q[1].cmd
Body(q) == IF Len(q) = 1 THEN q[1].body ELSE q[1].body \o <<q[2].cmd>>

\* what a connection can have sent and the server not read
Batches == UNION {[1..n -> Requests] : n \in 0..MaxInbox}

\* Names is closed under what reading requests together makes of them.
ASSUME NamesAssumption == \A q \in Batches \ {<<>>} : Body(q) \in Names

-----------------------------------------------------------------------------

VARIABLES
    \* the server's process
    up,         \* it has not been killed by SIGPIPE
    pc,         \* the system call it makes next
    i,          \* the loop variable of that name
    client,     \* client[s].fd of each slot s
    revents,    \* client[s].revents # 0
    nready,     \* the variable of that name
    maxi,       \* the variable of that name
    resp,       \* the answer to send: to which descriptor, for whom
    online,     \* the player map
    \* sockets and clients
    sock,       \* the connection each of the server's descriptors is open on
    backlog,    \* connections waiting for accept
    peer,       \* how each connection stands at the client's end
    inbox,      \* requests sent and not read by the server
    unread,     \* answers sent and not read by the client
    nsent,      \* requests each client has sent
    \* history
    polled,     \* slots the last poll covered are 1..polled
    tenants,    \* the connections each descriptor has ever been open on
    regby,      \* who sent the last reg on a descriptor, and the name
    paired,     \* the pairs of connections vs requests have put together
    hits        \* <<c, d>>: a hit of c was sent to d

procVars == <<up, pc, i, client, revents, nready, maxi, resp>>
netVars  == <<sock, backlog, peer, inbox, unread, nsent>>
histVars == <<polled, tenants, regby, paired, hits>>
vars == <<procVars, online, netVars, histVars>>

PeerState ==
    {"new",         \* not connected yet
     "open",        \* connected
     "closed",      \* closed by the client, which the server can read as EOF
     "kicked",      \* closed, and the server has sent to it: a reset is due
     "reset",       \* a reset has arrived
     "lost",        \* the client's host has vanished without a word
     "timedout",    \* the system has given up sending to it
     "dead",        \* read has reported that error once
     "gone"}        \* closed at both ends

NoResponse == [to |-> NoFd, from |-> NoConn]

TypeOK ==
    /\ up \in BOOLEAN
    /\ pc \in {"poll", "accept", "welcome", "scan", "send"}
    /\ i \in 1..OPEN_MAX
    /\ client \in [Slots -> Fds \cup {NoFd}]
    /\ revents \in [Slots -> BOOLEAN]
    /\ nready \in Int
    /\ maxi \in Slots \cup {0}
    /\ resp \in [to : Fds \cup {NoFd}, from : Conns \cup {NoConn}]
    /\ IsOnlineMap(online)
    /\ sock \in [Fds -> Conns \cup {NoConn}]
    /\ backlog \in Seq(Conns)
    /\ peer \in [Conns -> PeerState]
    /\ inbox \in [Conns -> Batches]
    /\ unread \in [Conns -> Nat]
    /\ nsent \in [Conns -> Nat]
    /\ polled \in Slots \cup {0}
    /\ tenants \in [Fds -> SUBSET Conns]
    /\ regby \in [Fds -> [conn : Conns \cup {NoConn}, name : Names \cup {<<>>}]]
    /\ paired \subseteq SUBSET (Conns \cup {NoConn})
    /\ hits \subseteq Conns \X Conns

\* main.cpp:34-76.  client[] is on the stack and its revents are not set.
Init ==
    /\ up = TRUE
    /\ pc = "poll"
    /\ i = OPEN_MAX
    /\ client = [s \in Slots |-> NoFd]
    /\ revents \in [Slots -> StackGarbage]
    /\ nready = 0
    /\ maxi = 0
    /\ resp = NoResponse
    /\ online = EmptyMap
    /\ sock = [f \in Fds |-> NoConn]
    /\ backlog = <<>>
    /\ peer = [c \in Conns |-> "new"]
    /\ inbox = [c \in Conns |-> <<>>]
    /\ unread = [c \in Conns |-> 0]
    /\ nsent = [c \in Conns |-> 0]
    /\ polled = 0
    /\ tenants = [f \in Fds |-> {}]
    /\ regby = [f \in Fds |-> [conn |-> NoConn, name |-> <<>>]]
    /\ paired = {}
    /\ hits = {}

-----------------------------------------------------------------------------
(* Clients and the network.                                                 *)

\* The handshake is the system's: it needs no accept.
Connect(c) ==
    /\ peer[c] = "new"
    /\ peer' = [peer EXCEPT ![c] = "open"]
    /\ backlog' = Append(backlog, c)
    /\ UNCHANGED <<procVars, online, sock, inbox, unread, nsent, histVars>>

SendRequest(c, r) ==
    /\ peer[c] = "open"
    /\ nsent[c] < MaxSent
    /\ Len(inbox[c]) < MaxInbox
    /\ inbox' = [inbox EXCEPT ![c] = Append(@, r)]
    /\ nsent' = [nsent EXCEPT ![c] = @ + 1]
    /\ UNCHANGED <<procVars, online, sock, backlog, peer, unread, histVars>>

Receive(c) ==
    /\ peer[c] = "open"
    /\ unread[c] > 0
    /\ unread' = [unread EXCEPT ![c] = 0]
    /\ UNCHANGED <<procVars, online, sock, backlog, peer, inbox, nsent, histVars>>

PeerChange(c, from, to) ==
    /\ peer[c] = from
    /\ peer' = [peer EXCEPT ![c] = to]
    /\ UNCHANGED <<procVars, online, sock, backlog, inbox, unread, nsent, histVars>>

Close(c) == PeerChange(c, "open", "closed")

\* the client's system answers the server's data with a reset
ResetArrives(c) == PeerChange(c, "kicked", "reset")

Abort(c) == "abort" \in Failures /\ PeerChange(c, "open", "reset")

Vanish(c) == "vanish" \in Failures /\ PeerChange(c, "open", "lost")

\* sending again what nobody acknowledges ends in an error
Timeout(c) == unread[c] > 0 /\ PeerChange(c, "lost", "timedout")

-----------------------------------------------------------------------------
(* The server.                                                              *)

FirstOf(S) == {x \in S : \A y \in S : x <= y}

\* the server lives and is about to make this call
At(call) == up /\ pc = call

InUse(s) == client[s] # NoFd

\* read on this slot returns without waiting
Readable(s) ==
    /\ InUse(s)
    /\ LET c == sock[client[s]]
       IN  inbox[c] # <<>> \/ peer[c] \notin {"open", "lost"}

\* poll writes the revents of the slots it is given and of no others.
Polled == [s \in Slots |-> IF s <= maxi THEN Readable(s) ELSE revents[s]]

\* main.cpp:82-85; with no timeout poll waits until something is ready
Poll ==
    /\ At("poll")
    /\ LET n == Cardinality({s \in 1..maxi : Readable(s)})
       IN  /\ n > 0 \/ backlog # <<>>
           /\ nready' = IF backlog # <<>> THEN n + 1 ELSE n
    /\ revents' = Polled
    /\ polled' = maxi
    /\ pc' = IF backlog # <<>> THEN "accept" ELSE "scan"
    /\ i' = 1
    /\ UNCHANGED <<up, client, maxi, resp, online, netVars>>
    /\ UNCHANGED <<tenants, regby, paired, hits>>

\* accept gives the lowest free descriptor; without one it fails, and the
\* connection stays in the backlog.
Connfd ==
    LET free == {f \in Fds : sock[f] = NoConn}
    IN  IF free = {} THEN {NoFd} ELSE FirstOf(free)

AcceptOn(connfd) ==
    IF connfd = NoFd
    THEN UNCHANGED <<sock, backlog, tenants>>
    ELSE /\ sock' = [sock EXCEPT ![connfd] = Head(backlog)]
         /\ tenants' = [tenants EXCEPT ![connfd] = @ \cup {Head(backlog)}]
         /\ backlog' = Tail(backlog)

\* main.cpp:91-112: what accept returned, -1 too, goes into the first free
\* slot; without one the descriptor is dropped, and open for ever.
Accept ==
    /\ At("accept")
    /\ \E connfd \in Connfd :
          LET free == {s \in Slots : ~InUse(s)}
          IN  /\ AcceptOn(connfd)
              /\ IF free = {}
                 THEN /\ pc' = "poll"
                      /\ i' = OPEN_MAX
                      /\ UNCHANGED client
                 ELSE \E s \in FirstOf(free) :
                      /\ client' = [client EXCEPT ![s] = connfd]
                      /\ i' = s
                      /\ pc' = "welcome"
    /\ UNCHANGED <<up, revents, nready, maxi, resp, online, peer, inbox>>
    /\ UNCHANGED <<unread, nsent, polled, regby, paired, hits>>

\* send() to a descriptor.  A descriptor that is not open is an error without
\* effect, a full connection makes the server wait, and a connection the
\* system knows to be broken raises SIGPIPE, which the server does not catch.
SendTo(fd) ==
    LET c == IF fd = NoFd THEN NoConn ELSE sock[fd]
    IN  \/ /\ c = NoConn
           /\ UNCHANGED <<up, peer, unread>>
        \/ /\ c # NoConn
           /\ \/ /\ peer[c] \in {"open", "lost"}
                 /\ unread[c] < SendBuf
                 /\ unread' = [unread EXCEPT ![c] = @ + 1]
                 /\ UNCHANGED <<up, peer>>
              \/ /\ peer[c] \in {"closed", "kicked"}
                 /\ peer' = [peer EXCEPT ![c] = "kicked"]
                 /\ UNCHANGED <<up, unread>>
              \/ /\ peer[c] \in {"reset", "timedout", "dead"}
                 /\ up' = FALSE
                 /\ UNCHANGED <<peer, unread>>

\* maxi is left as it was, or counts slots instead of naming the last
BugGrowNever(s) == UNCHANGED maxi

\* main.cpp:119-122
Grow(s) == maxi' = IF s > maxi THEN s ELSE maxi

\* main.cpp:101-127
Welcome ==
    /\ At("welcome")
    /\ SendTo(client[i])
    /\ Grow(i)
    /\ nready' = nready - 1
    /\ pc' = IF nready' <= 0 THEN "poll" ELSE "scan"
    /\ i' = 1
    /\ UNCHANGED <<client, revents, resp, online>>
    /\ UNCHANGED <<sock, backlog, inbox, nsent, histVars>>

\* the scan reads every slot in use
BugToRead == {s \in i..maxi : InUse(s)}

\* the slots the scan has still to read
ToRead == {s \in i..maxi : InUse(s) /\ revents[s]}

\* main.cpp:130: nothing is left of the scan
EndScan ==
    /\ At("scan")
    /\ ToRead = {}
    /\ pc' = "poll"
    /\ i' = maxi + 1
    /\ UNCHANGED <<up, client, revents, nready, maxi, resp, online>>
    /\ UNCHANGED <<netVars, histVars>>

\* the slot is cleared and the descriptor not closed
BugHangupNoClose(s, c) ==
    /\ IF peer[c] = "timedout"
       THEN peer' = [peer EXCEPT ![c] = "dead"] /\ UNCHANGED client
       ELSE /\ peer' = [peer EXCEPT ![c] = "gone"]
            /\ client' = [client EXCEPT ![s] = NoFd]
    /\ UNCHANGED <<sock, pc, resp, online, inbox, regby, paired>>

\* main.cpp:147-164, read returned 0 or failed: an error other than
\* ECONNRESET leaves the slot as it is.
Hangup(s, c) ==
    /\ IF peer[c] = "timedout"
       THEN /\ peer' = [peer EXCEPT ![c] = "dead"]
            /\ UNCHANGED <<client, sock>>
       ELSE /\ peer' = [peer EXCEPT ![c] = "gone"]
            /\ client' = [client EXCEPT ![s] = NoFd]
            /\ sock' = [sock EXCEPT ![client[s]] = NoConn]
    /\ UNCHANGED <<pc, resp, online, inbox, regby, paired>>

\* main.cpp:185-189
HandleReg(fd, c, name) ==
    /\ online' = RegMap(online, fd, name)
    /\ regby' = [regby EXCEPT ![fd] = [conn |-> c, name |-> name]]
    /\ UNCHANGED <<pc, resp, paired>>

\* main.cpp:200-204
HandleVs(fd, c, name) ==
    /\ IF fd \in DOMAIN online /\ NamedIn(online, name) # {}
       THEN /\ \E enemy \in LastOf(NamedIn(online, name)) :
                  online' = VsMap(online, fd, name, enemy)
            /\ paired' = paired \cup
                   {{c, regby[e].conn} : e \in NamedIn(online, name)}
       ELSE UNCHANGED <<online, paired>>
    /\ UNCHANGED <<pc, resp, regby>>

Respond(to, from) ==
    /\ resp' = [to |-> to, from |-> from]
    /\ pc' = "send"
    /\ UNCHANGED <<online, regby, paired>>

\* main.cpp:191-198, up to the send
HandleOnlineInfo(fd) == Respond(fd, NoConn)

\* the hit is answered like onlineinfo
BugHandleHit(fd, c) == Respond(fd, c)

\* main.cpp:206-215, up to the send: to whatever descriptor the map holds;
\* -1, no opponent, passes the test for 0.
HandleHit(fd, c) == Respond(GetVsFD(online, fd), c)

\* main.cpp:216-219
HandleOther == UNCHANGED <<pc, resp, online, regby, paired>>

\* main.cpp:165-223.  (A text without a body, main.cpp:176-180, has splitRequest
\* write beyond recbuf and is not among the requests.)
Handle(fd, c, q) ==
    /\ inbox' = [inbox EXCEPT ![c] = <<>>]
    /\ \/ Cmd(q) = "reg" /\ HandleReg(fd, c, Body(q))
       \/ Cmd(q) = "vs" /\ HandleVs(fd, c, Body(q))
       \/ Cmd(q) = "onlineinfo" /\ HandleOnlineInfo(fd)
       \/ Cmd(q) = "hit" /\ HandleHit(fd, c)
       \/ Cmd(q) = "other" /\ HandleOther
    /\ UNCHANGED <<peer, client, sock>>

\* main.cpp:130-225: the next slot poll reported.  read takes everything that
\* has arrived; with nothing to read and no end in sight it does not return.
Read ==
    /\ At("scan")
    /\ \E s \in FirstOf(ToRead) :
          LET c == sock[client[s]]
          IN  /\ i' = s + 1
              /\ \/ inbox[c] # <<>> /\ Handle(client[s], c, inbox[c])
                 \/ /\ inbox[c] = <<>> /\ Readable(s)
                    /\ Hangup(s, c)
    /\ UNCHANGED <<up, revents, nready, maxi, backlog, unread, nsent>>
    /\ UNCHANGED <<polled, tenants, hits>>

\* sendResponse
Send ==
    /\ At("send")
    /\ SendTo(resp.to)
    /\ hits' = IF resp.from # NoConn /\ unread' # unread
               THEN hits \cup {<<resp.from, sock[resp.to]>>}
               ELSE hits
    /\ pc' = "scan"
    /\ resp' = NoResponse
    /\ UNCHANGED <<i, client, revents, nready, maxi, online>>
    /\ UNCHANGED <<sock, backlog, inbox, nsent, polled, tenants, regby, paired>>

Server == Poll \/ Accept \/ Welcome \/ EndScan \/ Read \/ Send

Client(c) ==
    \/ Connect(c)
    \/ \E r \in Requests : SendRequest(c, r)
    \/ Receive(c)
    \/ Close(c)
    \/ Abort(c)
    \/ Vanish(c)

Network(c) == ResetArrives(c) \/ Timeout(c)

Next == Server \/ \E c \in Conns : Client(c) \/ Network(c)

Spec == Init /\ [][Next]_vars

\* The server runs, the system delivers resets and gives up at last, and a
\* client that is there reads what it is sent (client.c's child does nothing
\* else).  Nobody has to connect, to send or to leave.
Fairness ==
    /\ WF_vars(Server)
    /\ \A c \in Conns : WF_vars(Receive(c)) /\ WF_vars(Network(c))

FairSpec == Spec /\ Fairness

-----------------------------------------------------------------------------
(* The table of slots.                                                      *)

\* Every slot in use holds a descriptor that is open, no descriptor is in two
\* slots, and the slots above maxi, which neither poll nor the scan looks at,
\* are empty (but for the one accept has just filled).
SlotsSound ==
    /\ \A s \in Slots : InUse(s) => sock[client[s]] # NoConn
    /\ \A s, t \in Slots : InUse(s) /\ client[s] = client[t] => s = t
    /\ \A s \in Slots : InUse(s) /\ s > maxi => pc = "welcome" /\ s = i

\* As long as there are slots for all the descriptors there can be, an
\* accepted connection is in a slot until it is closed: none is leaked by the
\* "too many clients" branch or by forgetting a slot.
OpenIsInASlot ==
    Cardinality(Fds) <= Cardinality(Slots) =>
        \A f \in Fds : sock[f] # NoConn => \E s \in Slots : client[s] = f

\* A descriptor that is open and in no slot is one that accept gave when no slot
\* was free; no slot is cleared or given away before its descriptor is closed.
Dropped(f) == sock[f] # NoConn /\ \A s \in Slots : client[s] # f

DropsOnlyWhenFull ==
    [][\A f \in Fds : Dropped(f)' =>
          Dropped(f) \/ (sock[f] = NoConn /\ \A s \in Slots : InUse(s))]_vars

\* The server waits in read for a client that sends nothing only on a slot
\* the last poll was not given, whose revents nobody has set yet: the slot
\* above the old maxi that accept fills while other slots are ready.
Waits == /\ At("scan")
         /\ \E s \in FirstOf(ToRead) : ~Readable(s)

WaitsOnlyOnFreshSlot ==
    Waits => \A s \in FirstOf(ToRead) : s > polled

-----------------------------------------------------------------------------
(* Players.                                                                 *)

\* A player who has registered on the connection that is open now is on the
\* list under the name sent last, whoever had the descriptor before: the new
\* owner of a descriptor takes its entry over by registering.
RegistrationHolds ==
    \A f \in Fds :
        sock[f] # NoConn /\ regby[f].conn = sock[f] =>
            /\ f \in DOMAIN online
            /\ online[f].name = regby[f].name
            /\ online[f].stat = ONLINE_STAT_ON

\* Two connections that have had the same descriptor, and so the same entry.
Share(c, d) == c = d \/ \E f \in Fds : {c, d} \subseteq tenants[f]

\* A hit reaches only a connection that a vs request has paired with its
\* sender, or one that has the descriptor of such a connection: the reuse of
\* descriptors is the only way a hit can go astray.
HitsFollowPairing ==
    \A h \in hits : \E c, d \in Conns :
        {c, d} \in paired /\ Share(h[1], c) /\ Share(h[2], d)

\* "Attack the opponent": a hit that reaches another connection reaches one
\* that a vs request has paired with its sender.
HitsReachOpponents == \A h \in hits : h[1] # h[2] => {h[1], h[2]} \in paired

-----------------------------------------------------------------------------
(* Progress of the connections in the table.  A server that waits in read    *)
(* as above waits as long as the silent client likes, one that is killed     *)
(* serves nobody, and one that is starved goes round between poll and a      *)
(* failing accept without ever coming to the scan.                           *)

\* The connection has a slot.
Served(c) == \E s \in Slots : InUse(s) /\ sock[client[s]] = c

\* A connection waits for a descriptor and a slot, and there are none: accept
\* fails, main.cpp:108 goes back to poll, and the scan that could close a
\* descriptor is not reached.
Starved ==
    /\ backlog # <<>>
    /\ Connfd = {NoFd}
    /\ \A s \in Slots : InUse(s)

\* What a client in the table sends is read, also when others are ready all the
\* time, come and go, read their answers late, vanish without reading them, or
\* get no descriptor; unless the server is killed, waits in read or is starved.
RequestsAreRead ==
    \A c \in Conns :
        (inbox[c] # <<>> /\ Served(c))
            ~> (inbox[c] = <<>> \/ ~up \/ []Waits \/ []Starved)

\* The descriptor of a client in the table that has gone is closed and free for
\* others, with the same exceptions.  (One that accept gave when no slot was free
\* is in no slot and does not return.)
DescriptorsReturn ==
    \A f \in Fds :
        (/\ \E s \in Slots : client[s] = f
         /\ sock[f] # NoConn
         /\ peer[sock[f]] \notin {"open", "lost"})
            ~> (sock[f] = NoConn \/ ~up \/ []Waits \/ []Starved)

=============================================================================
