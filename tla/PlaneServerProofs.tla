------------------------- MODULE PlaneServerProofs -------------------------
(***************************************************************************)
(* What holds of the poll server for every number of slots, descriptors,    *)
(* connections and requests.                                                *)
(***************************************************************************)
EXTENDS PlaneServer, FiniteSetTheorems, SequenceTheorems,
        TLAPS

\* The position in the code bounds the loop variable, and accept is called
\* only when a connection waits.
LoopSound ==
    /\ pc = "accept" => backlog # <<>>
    /\ pc = "welcome" => i \in Slots

\* The inductive invariant: the type of a step's result depends on every slot
\* in use having an open descriptor, and that on no two slots sharing one.
IInv == TypeOK /\ SlotsSound /\ LoopSound

-----------------------------------------------------------------------------
(* The lemmas about the map are those of the registry, whose operators are  *)
(* the same.                                                                *)

Lemmas == INSTANCE OnlineRegistryProofs

\* An operator of OnlineMap is the same in the registry and here.
LEMMA SameOperators ==
    /\ Lemmas!ONLINE_STAT = ONLINE_STAT /\ Lemmas!ONLINE_STAT_ON = ONLINE_STAT_ON
    /\ Lemmas!NoFd = NoFd
    /\ \A m : Lemmas!IsOnlineMap(m) <=> IsOnlineMap(m)
    /\ \A m, fd, name : Lemmas!RegMap(m, fd, name) = RegMap(m, fd, name)
    /\ \A m, fd, name, enemy : Lemmas!VsMap(m, fd, name, enemy) = VsMap(m, fd, name, enemy)
    /\ \A m, fd, stat : Lemmas!StatMap(m, fd, stat) = StatMap(m, fd, stat)
    /\ \A m, name : Lemmas!NamedIn(m, name) = NamedIn(m, name)
<1>1. /\ Lemmas!ONLINE_STAT = ONLINE_STAT /\ Lemmas!ONLINE_STAT_ON = ONLINE_STAT_ON
      /\ Lemmas!NoFd = NoFd
    BY DEF Lemmas!ONLINE_STAT, ONLINE_STAT, Lemmas!ONLINE_STAT_NEW, ONLINE_STAT_NEW,
           Lemmas!ONLINE_STAT_ON, ONLINE_STAT_ON, Lemmas!ONLINE_STAT_OFF, ONLINE_STAT_OFF,
           Lemmas!NoFd, NoFd
<1>2. Lemmas!OnlineInfo = OnlineInfo
    BY <1>1 DEF Lemmas!OnlineInfo, OnlineInfo
<1>3. \A m : Lemmas!IsOnlineMap(m) <=> IsOnlineMap(m)
    BY <1>2 DEF Lemmas!IsOnlineMap, IsOnlineMap
<1>4. \A m, fd, name : Lemmas!RegMap(m, fd, name) = RegMap(m, fd, name)
    BY <1>1 DEF Lemmas!RegMap, RegMap
<1>5. \A m, fd, name, enemy : Lemmas!VsMap(m, fd, name, enemy) = VsMap(m, fd, name, enemy)
    BY DEF Lemmas!VsMap, VsMap, Lemmas!Challenged, Challenged
<1>6. \A m, fd, stat : Lemmas!StatMap(m, fd, stat) = StatMap(m, fd, stat)
    BY DEF Lemmas!StatMap, StatMap
<1>7. \A m, name : Lemmas!NamedIn(m, name) = NamedIn(m, name)
    BY DEF Lemmas!NamedIn, NamedIn
<1>8. QED
    BY <1>1, <1>3, <1>4, <1>5, <1>6, <1>7

-----------------------------------------------------------------------------
(* Requests.                                                                *)

\* What can wait on a connection is a sequence of at most MaxInbox requests,
\* nothing included.
LEMMA BatchIsSeq ==
    ASSUME NEW q
    PROVE  q \in Batches <=> q \in Seq(Requests) /\ Len(q) <= MaxInbox
<1>1. ASSUME q \in Batches PROVE q \in Seq(Requests) /\ Len(q) <= MaxInbox
  <2>1. PICK n \in 0..MaxInbox : q \in [1..n -> Requests]
      BY <1>1 DEF Batches
  <2>2. n \in Nat /\ n <= MaxInbox
      BY MaxInboxAssumption
  <2>3. q \in Seq(Requests) /\ Len(q) = n
      BY <2>1, <2>2, SeqDef, LenProperties
  <2>4. QED
      BY <2>2, <2>3
<1>2. ASSUME q \in Seq(Requests), Len(q) <= MaxInbox PROVE q \in Batches
  <2>1. Len(q) \in 0..MaxInbox /\ q \in [1..Len(q) -> Requests]
      BY <1>2, LenProperties, MaxInboxAssumption
  <2>2. QED
      BY <2>1 DEF Batches
<1>3. QED
    BY <1>1, <1>2

LEMMA NothingIsABatch == <<>> \in Batches
<1>1. <<>> \in Seq(Requests) /\ Len(<<>>) = 0
    BY EmptySeq
<1>2. Len(<<>>) <= MaxInbox
    BY <1>1, MaxInboxAssumption
<1>3. QED
    BY <1>1, <1>2, BatchIsSeq

-----------------------------------------------------------------------------
(* What each kind of step keeps.                                            *)

\* Clients and the network change nothing that the server's table is about.
LEMMA ClientStep ==
    ASSUME IInv, NEW c \in Conns, Client(c) \/ Network(c)
    PROVE  IInv'
<1> USE DEF IInv
<1>1. CASE Connect(c)
  <2>1. TypeOK'
      BY <1>1 DEF TypeOK, Connect, procVars, histVars, PeerState
  <2>2. SlotsSound' /\ LoopSound'
      BY <1>1 DEF TypeOK, Connect, procVars, histVars, SlotsSound, LoopSound, InUse
  <2>3. QED
      BY <2>1, <2>2
<1>2. ASSUME NEW r \in Requests, SendRequest(c, r) PROVE IInv'
  <2>1. Append(inbox[c], r) \in Batches
    <3>1. inbox[c] \in Batches
        BY DEF TypeOK
    <3>2. inbox[c] \in Seq(Requests) /\ Len(inbox[c]) < MaxInbox
        BY <1>2, <3>1, BatchIsSeq DEF SendRequest
    <3>3. /\ Append(inbox[c], r) \in Seq(Requests)
          /\ Len(Append(inbox[c], r)) = Len(inbox[c]) + 1
        BY <3>2, AppendProperties
    <3>4. Len(inbox[c]) \in Nat
        BY <3>2, LenProperties
    <3>5. Len(Append(inbox[c], r)) <= MaxInbox
        BY <3>2, <3>3, <3>4, MaxInboxAssumption
    <3>6. QED
        BY <3>3, <3>5, BatchIsSeq
  <2>2. /\ UNCHANGED <<procVars, online, sock, backlog, peer, unread, histVars>>
        /\ inbox' \in [Conns -> Batches]
        /\ nsent' \in [Conns -> Nat]
    <3>1. nsent' = [nsent EXCEPT ![c] = nsent[c] + 1] /\ nsent[c] + 1 \in Nat
        BY <1>2 DEF SendRequest, TypeOK
    <3>2. nsent' \in [Conns -> Nat]
        BY <3>1 DEF TypeOK
    <3>3. QED
        BY <1>2, <2>1, <3>2 DEF SendRequest, TypeOK
  <2>3. TypeOK'
      BY <2>2 DEF TypeOK, procVars, histVars
  <2>4. SlotsSound' /\ LoopSound'
      BY <2>2 DEF procVars, histVars, SlotsSound, LoopSound, InUse
  <2>5. QED
      BY <2>3, <2>4
<1>3. CASE Receive(c)
    BY <1>3 DEF TypeOK, Receive, procVars, histVars, SlotsSound, LoopSound, InUse
<1>4. ASSUME NEW from \in PeerState, NEW to \in PeerState, PeerChange(c, from, to)
      PROVE  IInv'
    BY <1>4 DEF TypeOK, PeerChange, procVars, histVars, SlotsSound, LoopSound, InUse
<1>5. Close(c) \/ Abort(c) \/ Vanish(c) \/ Network(c) => IInv'
  <2>1. {"open", "closed", "kicked", "reset", "lost", "timedout"} \subseteq PeerState
      BY DEF PeerState
  <2> HIDE DEF IInv
  <2>2. QED
      BY <1>4, <2>1
      DEF Close, Abort, Vanish, Network, ResetArrives, Timeout
<1> HIDE DEF IInv
<1>6. QED
    BY <1>1, <1>2, <1>3, <1>5 DEF Client

LEMMA PollStep == IInv /\ Poll => IInv'
<1> SUFFICES ASSUME IInv, Poll PROVE IInv'
    OBVIOUS
<1> USE DEF IInv
<1>1. nready' \in Int
  <2> DEFINE S == {s \in 1..maxi : Readable(s)}
  <2>1. IsFiniteSet(S)
    <3>1. maxi \in Int /\ 1 \in Int
        BY OpenMaxAssumption DEF TypeOK, Slots
    <3>2. IsFiniteSet(1..maxi)
        BY <3>1, FS_Interval
    <3>3. S \subseteq 1..maxi
        OBVIOUS
    <3>4. QED
        BY <3>2, <3>3, FS_Subset
  <2>2. Cardinality(S) \in Nat
      BY <2>1, FS_CardinalityType
  <2>3. QED
      BY <2>2 DEF Poll
<1>2. revents' \in [Slots -> BOOLEAN]
  <2>1. \A s \in Slots : Polled[s] \in BOOLEAN
      BY DEF Polled, TypeOK, Readable
  <2>2. QED
      BY <2>1 DEF Poll, Polled
<1>3. TypeOK'
    BY <1>1, <1>2, OpenMaxAssumption DEF TypeOK, Poll, netVars
<1>4. SlotsSound' /\ LoopSound'
    BY DEF Poll, netVars, At, SlotsSound, LoopSound, InUse
<1>5. QED
    BY <1>3, <1>4

LEMMA AcceptStep == IInv /\ Accept => IInv'
<1> SUFFICES ASSUME IInv, Accept PROVE IInv'
    OBVIOUS
<1> USE DEF IInv
<1>1. PICK connfd \in Connfd :
          LET free == {s \in Slots : ~InUse(s)}
          IN  /\ AcceptOn(connfd)
              /\ IF free = {}
                 THEN /\ pc' = "poll"
                      /\ i' = OPEN_MAX
                      /\ UNCHANGED client
                 ELSE \E s \in FirstOf(free) :
                      /\ client' = [client EXCEPT ![s] = connfd]
                      /\ i' = s
                      /\ pc' = "welcome"
    BY DEF Accept
<1>2. /\ connfd \in Fds \cup {NoFd}
      /\ connfd # NoFd => sock[connfd] = NoConn
    BY DEF Connfd, FirstOf
<1>3. Head(backlog) \in Conns /\ Tail(backlog) \in Seq(Conns)
    BY DEF Accept, At, LoopSound, TypeOK
<1>4. /\ sock' \in [Fds -> Conns \cup {NoConn}]
      /\ backlog' \in Seq(Conns)
      /\ tenants' \in [Fds -> SUBSET Conns]
      /\ \A f \in Fds : sock'[f] = IF f = connfd THEN Head(backlog) ELSE sock[f]
  <2>1. NoFd \notin Fds
      BY FdsAssumption DEF NoFd
  <2>2. CASE connfd = NoFd
      BY <1>1, <2>1, <2>2 DEF AcceptOn, TypeOK
  <2>3. CASE connfd # NoFd
    <3>1. /\ connfd \in Fds
          /\ sock' = [sock EXCEPT ![connfd] = Head(backlog)]
          /\ tenants' = [tenants EXCEPT ![connfd] = tenants[connfd] \cup {Head(backlog)}]
          /\ backlog' = Tail(backlog)
        BY <1>1, <1>2, <2>3 DEF AcceptOn
    <3>2. tenants[connfd] \cup {Head(backlog)} \in SUBSET Conns
        BY <1>3, <3>1 DEF TypeOK
    <3>3. tenants' \in [Fds -> SUBSET Conns]
        BY <3>1, <3>2 DEF TypeOK
    <3>4. QED
        BY <1>3, <3>1, <3>3 DEF TypeOK
  <2>4. QED
      BY <2>2, <2>3
<1>5. UNCHANGED <<up, revents, nready, maxi, resp, online, peer, inbox,
                  unread, nsent, polled, regby, paired, hits>>
    BY DEF Accept
<1>6. CASE {s \in Slots : ~InUse(s)} = {}
  <2>1. pc' = "poll" /\ i' = OPEN_MAX /\ client' = client
      BY <1>1, <1>6
  <2>2. TypeOK'
      BY <1>4, <1>5, <2>1, OpenMaxAssumption DEF TypeOK
  <2>3. SlotsSound'
      BY <1>3, <1>4, <1>5, <2>1, NoConnAssumption
      DEF Accept, At, TypeOK, SlotsSound, InUse
  <2>4. QED
      BY <2>1, <2>2, <2>3 DEF LoopSound
<1>7. CASE {s \in Slots : ~InUse(s)} # {}
  <2>1. PICK s \in Slots : /\ ~InUse(s)
                           /\ client' = [client EXCEPT ![s] = connfd]
                           /\ i' = s
                           /\ pc' = "welcome"
      BY <1>1, <1>7 DEF FirstOf
  <2>2. TypeOK'
      BY <1>2, <1>4, <1>5, <2>1, OpenMaxAssumption DEF TypeOK, Slots
  <2>3. \A t \in Slots : client'[t] = IF t = s THEN connfd ELSE client[t]
      BY <2>1 DEF TypeOK
  <2>4. \A t \in Slots : InUse(t) => client[t] \in Fds /\ client[t] # connfd
      BY <1>2 DEF SlotsSound, InUse, TypeOK
  <2>5. SlotsSound'
    <3>1. \A t \in Slots : InUse(t)' => sock'[client'[t]] # NoConn
        BY <1>2, <1>3, <1>4, <2>3, <2>4, NoConnAssumption
        DEF SlotsSound, InUse
    <3>2. \A t, u \in Slots : InUse(t)' /\ client'[t] = client'[u] => t = u
        BY <2>3, <2>4 DEF SlotsSound, InUse
    <3>3. \A t \in Slots : InUse(t)' /\ t > maxi' => pc' = "welcome" /\ t = i'
        BY <1>5, <2>1, <2>3 DEF SlotsSound, InUse, Accept, At
    <3>4. QED
        BY <3>1, <3>2, <3>3 DEF SlotsSound
  <2>6. QED
      BY <2>1, <2>2, <2>5 DEF LoopSound
<1>8. QED
    BY <1>6, <1>7

\* send changes nothing but the connection it is for, or the server's life.
LEMMA SendToType ==
    ASSUME TypeOK, NEW fd \in Fds \cup {NoFd}, SendTo(fd)
    PROVE  /\ up' \in BOOLEAN
           /\ peer' \in [Conns -> PeerState]
           /\ unread' \in [Conns -> Nat]
           /\ unread' # unread => fd \in Fds /\ sock[fd] \in Conns
<1> DEFINE c == IF fd = NoFd THEN NoConn ELSE sock[fd]
<1>1. c # NoConn => fd \in Fds /\ c = sock[fd] /\ c \in Conns
    BY DEF TypeOK
<1>2. CASE c = NoConn /\ UNCHANGED <<up, peer, unread>>
    BY <1>2 DEF TypeOK
<1>3. CASE c # NoConn /\ unread' = [unread EXCEPT ![c] = @ + 1]
                      /\ UNCHANGED <<up, peer>>
    BY <1>1, <1>3 DEF TypeOK
<1>4. CASE c # NoConn /\ peer' = [peer EXCEPT ![c] = "kicked"]
                      /\ UNCHANGED <<up, unread>>
    BY <1>1, <1>4 DEF TypeOK, PeerState
<1>5. CASE c # NoConn /\ up' = FALSE /\ UNCHANGED <<peer, unread>>
    BY <1>1, <1>5 DEF TypeOK
<1>6. QED
    BY <1>2, <1>3, <1>4, <1>5 DEF SendTo

LEMMA WelcomeStep == IInv /\ Welcome => IInv'
<1> SUFFICES ASSUME IInv, Welcome PROVE IInv'
    OBVIOUS
<1> USE DEF IInv
<1>1. i \in Slots /\ client[i] \in Fds \cup {NoFd}
    BY DEF Welcome, At, LoopSound, TypeOK
<1>2. /\ up' \in BOOLEAN
      /\ peer' \in [Conns -> PeerState]
      /\ unread' \in [Conns -> Nat]
    BY <1>1, SendToType DEF Welcome
<1>3. /\ maxi' \in Slots /\ maxi' >= i /\ maxi' >= maxi
      /\ pc' \in {"poll", "scan"} /\ i' = 1 /\ nready' \in Int
    BY <1>1 DEF Welcome, Grow, TypeOK, Slots
<1>4. UNCHANGED <<client, revents, resp, online, sock, backlog, inbox, nsent,
                  polled, tenants, regby, paired, hits>>
    BY DEF Welcome, histVars
<1>5. TypeOK'
  <2>1. /\ i' \in 1..OPEN_MAX /\ maxi' \in Slots \cup {0}
        /\ pc' \in {"poll", "accept", "welcome", "scan", "send"}
      BY <1>3, OpenMaxAssumption
  <2>2. QED
      BY <1>2, <1>3, <1>4, <2>1 DEF TypeOK
<1>6. SlotsSound'
    BY <1>1, <1>3, <1>4 DEF SlotsSound, InUse, TypeOK, Slots
<1>7. QED
    BY <1>3, <1>5, <1>6 DEF LoopSound

LEMMA EndScanStep == IInv /\ EndScan => IInv'
<1> SUFFICES ASSUME IInv, EndScan PROVE IInv'
    OBVIOUS
<1>1. /\ pc' = "poll" /\ i' = maxi + 1
      /\ UNCHANGED <<up, client, revents, nready, maxi, resp, online>>
      /\ UNCHANGED <<netVars, histVars>>
    BY DEF EndScan
<1>2. i' \in 1..OPEN_MAX
    BY <1>1, OpenMaxAssumption DEF IInv, TypeOK, Slots
<1>3. TypeOK'
    BY <1>1, <1>2 DEF IInv, TypeOK, netVars, histVars
<1>4. SlotsSound' /\ LoopSound'
    BY <1>1 DEF IInv, EndScan, At, SlotsSound, LoopSound, InUse, netVars
<1>5. QED
    BY <1>3, <1>4 DEF IInv

LEMMA SendStep == IInv /\ Send => IInv'
<1> SUFFICES ASSUME IInv, Send PROVE IInv'
    OBVIOUS
<1> USE DEF IInv
<1>1. /\ up' \in BOOLEAN
      /\ peer' \in [Conns -> PeerState]
      /\ unread' \in [Conns -> Nat]
      /\ unread' # unread => resp.to \in Fds /\ sock[resp.to] \in Conns
    BY SendToType DEF Send, TypeOK
<1>2. hits' \subseteq Conns \X Conns
    BY <1>1 DEF Send, TypeOK
<1>3. resp' \in [to : Fds \cup {NoFd}, from : Conns \cup {NoConn}]
    BY DEF Send, NoResponse
<1>4. UNCHANGED <<i, client, revents, nready, maxi, online, sock, backlog,
                  inbox, nsent, polled, tenants, regby, paired>>
    BY DEF Send
<1>5. pc = "send" /\ pc' = "scan"
    BY DEF Send, At
<1>6. TypeOK'
    BY <1>1, <1>2, <1>3, <1>4, <1>5 DEF TypeOK
<1>7. SlotsSound' /\ LoopSound'
    BY <1>4, <1>5 DEF SlotsSound, LoopSound, InUse
<1>8. QED
    BY <1>6, <1>7

\* What the scan reads next is a slot in use, open on a connection, and the
\* loop variable has a value for the slot after it.
LEMMA ToReadSlot ==
    ASSUME IInv, NEW s \in FirstOf(ToRead)
    PROVE  /\ s \in Slots /\ s + 1 \in 1..OPEN_MAX
           /\ client[s] \in Fds
           /\ sock[client[s]] \in Conns
<1>1. s \in i..maxi /\ InUse(s)
    BY DEF FirstOf, ToRead
<1>2. s \in Slots /\ s + 1 \in 1..OPEN_MAX
    BY <1>1, OpenMaxAssumption DEF IInv, TypeOK, Slots
<1>3. client[s] \in Fds
    BY <1>1, <1>2 DEF IInv, TypeOK, InUse
<1>4. QED
    BY <1>1, <1>2, <1>3 DEF IInv, TypeOK, SlotsSound

\* Reading the end of a connection closes its descriptor and empties its slot
\* together, so no other slot loses its descriptor.
LEMMA HangupKeeps ==
    ASSUME IInv, NEW s \in Slots, client[s] \in Fds,
           Hangup(s, sock[client[s]]), sock[client[s]] \in Conns,
           UNCHANGED maxi
    PROVE  /\ client' \in [Slots -> Fds \cup {NoFd}]
           /\ sock' \in [Fds -> Conns \cup {NoConn}]
           /\ peer' \in [Conns -> PeerState]
           /\ \A t \in Slots : InUse(t)' =>
                  /\ client'[t] = client[t] /\ InUse(t)
                  /\ sock'[client[t]] = sock[client[t]]
<1> USE DEF IInv, TypeOK
<1> DEFINE c == sock[client[s]]
<1>1. CASE peer[c] = "timedout"
  <2>1. peer' = [peer EXCEPT ![c] = "dead"] /\ UNCHANGED <<client, sock>>
      BY <1>1 DEF Hangup
  <2>2. peer' \in [Conns -> PeerState]
      BY <2>1 DEF PeerState
  <2>3. QED
      BY <2>1, <2>2 DEF InUse
<1>2. CASE peer[c] # "timedout"
  <2>1. /\ peer' = [peer EXCEPT ![c] = "gone"]
        /\ client' = [client EXCEPT ![s] = NoFd]
        /\ sock' = [sock EXCEPT ![client[s]] = NoConn]
      BY <1>2 DEF Hangup
  <2>2. /\ client' \in [Slots -> Fds \cup {NoFd}]
        /\ sock' \in [Fds -> Conns \cup {NoConn}]
        /\ peer' \in [Conns -> PeerState]
      BY <2>1 DEF PeerState
  <2>3. ASSUME NEW t \in Slots, InUse(t)'
        PROVE  /\ client'[t] = client[t] /\ InUse(t)
               /\ sock'[client[t]] = sock[client[t]]
    <3>1. t # s /\ client'[t] = client[t] /\ InUse(t)
        BY <2>1, <2>3 DEF InUse
    <3>2. client[t] \in Fds /\ client[t] # client[s]
        BY <3>1 DEF SlotsSound, InUse
    <3>3. QED
        BY <2>1, <3>1, <3>2
  <2>4. QED
      BY <2>2, <2>3
<1>3. QED
    BY <1>1, <1>2

\* A request changes the map, the history and the answer to send within
\* their types, whatever it asks.
LEMMA HandleKeeps ==
    ASSUME IInv, NEW fd \in Fds, NEW c \in Conns, NEW q \in Batches \ {<<>>},
           Handle(fd, c, q), At("scan")
    PROVE  /\ IsOnlineMap(online')
           /\ regby' \in [Fds -> [conn : Conns \cup {NoConn},
                                  name : Names \cup {<<>>}]]
           /\ paired' \subseteq SUBSET (Conns \cup {NoConn})
           /\ resp' \in [to : Fds \cup {NoFd}, from : Conns \cup {NoConn}]
           /\ pc' \in {"scan", "send"}
<1> USE DEF IInv, TypeOK, At
<1> DEFINE name == Body(q)
<1>1. name \in Names
    BY NamesAssumption
<1> HIDE DEF name
<1>2. CASE HandleReg(fd, c, name)
  <2>1. IsOnlineMap(RegMap(online, fd, name))
      BY <1>1, Lemmas!RegMapType, SameOperators, FdsAssumption
  <2>2. QED
      BY <1>1, <1>2, <2>1 DEF HandleReg
<1>3. CASE HandleVs(fd, c, name)
  <2>1. CASE fd \in DOMAIN online /\ NamedIn(online, name) # {}
    <3>1. PICK enemy \in LastOf(NamedIn(online, name)) :
              online' = VsMap(online, fd, name, enemy)
        BY <1>3, <2>1 DEF HandleVs
    <3>2. enemy \in NamedIn(online, name)
        BY DEF LastOf
    <3>3. IsOnlineMap(online')
        BY <1>1, <2>1, <3>1, <3>2, Lemmas!VsMapEntries, SameOperators, FdsAssumption
    <3>4. \A e \in NamedIn(online, name) : regby[e].conn \in Conns \cup {NoConn}
        BY DEF NamedIn, IsOnlineMap
    <3>5. paired' = paired \cup {{c, regby[e].conn} : e \in NamedIn(online, name)}
        BY <1>3, <2>1 DEF HandleVs
    <3>6. \A e \in NamedIn(online, name) :
              {c, regby[e].conn} \in SUBSET (Conns \cup {NoConn})
        BY <3>4
    <3>7. {{c, regby[e].conn} : e \in NamedIn(online, name)}
              \subseteq SUBSET (Conns \cup {NoConn})
      <4> DEFINE pair(e) == {c, regby[e].conn}
      <4>1. \A e \in NamedIn(online, name) :
                pair(e) \in SUBSET (Conns \cup {NoConn})
          BY <3>6
      <4> HIDE DEF pair
      <4>2. {pair(e) : e \in NamedIn(online, name)}
                \subseteq SUBSET (Conns \cup {NoConn})
          BY <4>1
      <4>3. QED
          BY <4>2 DEF pair
    <3>8. paired' \subseteq SUBSET (Conns \cup {NoConn})
        BY <3>5, <3>7
    <3>9. QED
        BY <1>3, <3>3, <3>8 DEF HandleVs
  <2>2. CASE ~(fd \in DOMAIN online /\ NamedIn(online, name) # {})
      BY <1>3, <2>2 DEF HandleVs
  <2>3. QED
      BY <2>1, <2>2
<1>4. ASSUME NEW to \in Fds \cup {NoFd}, NEW from \in Conns \cup {NoConn},
             Respond(to, from)
      PROVE  /\ IsOnlineMap(online')
             /\ UNCHANGED <<regby, paired>>
             /\ resp' \in [to : Fds \cup {NoFd}, from : Conns \cup {NoConn}]
             /\ pc' = "send"
    BY <1>4 DEF Respond
<1>5. GetVsFD(online, fd) \in Fds \cup {NoFd}
    BY DEF GetVsFD, IsOnlineMap, OnlineInfo
<1>6. QED
    BY <1>2, <1>3, <1>4, <1>5
    DEF Handle, HandleOnlineInfo, HandleHit, HandleOther, name

LEMMA ReadStep == IInv /\ Read => IInv'
<1> SUFFICES ASSUME IInv, Read PROVE IInv'
    OBVIOUS
<1>1. PICK s \in FirstOf(ToRead) :
          /\ i' = s + 1
          /\ \/ /\ inbox[sock[client[s]]] # <<>>
                /\ Handle(client[s], sock[client[s]], inbox[sock[client[s]]])
             \/ Hangup(s, sock[client[s]])
    BY DEF Read
<1> DEFINE fd == client[s]
           c == sock[fd]
<1>2. s \in Slots /\ i' \in 1..OPEN_MAX /\ fd \in Fds /\ c \in Conns
    BY <1>1, ToReadSlot
<1>3. /\ pc = "scan"
      /\ UNCHANGED <<up, revents, nready, maxi, backlog, unread, nsent,
                     polled, tenants, hits>>
    BY DEF Read, At
<1>4. CASE inbox[c] # <<>> /\ Handle(fd, c, inbox[c])
  <2>1. inbox[c] \in Batches \ {<<>>} /\ At("scan")
      BY <1>2, <1>4 DEF IInv, TypeOK, Read
  <2>2. /\ IsOnlineMap(online')
        /\ regby' \in [Fds -> [conn : Conns \cup {NoConn},
                               name : Names \cup {<<>>}]]
        /\ paired' \subseteq SUBSET (Conns \cup {NoConn})
        /\ resp' \in [to : Fds \cup {NoFd}, from : Conns \cup {NoConn}]
        /\ pc' \in {"scan", "send"}
      BY <1>2, <1>4, <2>1, HandleKeeps
  <2>3. inbox' = [inbox EXCEPT ![c] = <<>>] /\ UNCHANGED <<peer, client, sock>>
      BY <1>4 DEF Handle
  <2>4. <<>> \in Batches
      BY NothingIsABatch
  <2>5. inbox' \in [Conns -> Batches]
      BY <1>2, <2>3, <2>4 DEF IInv, TypeOK
  <2>6. TypeOK'
      BY <1>2, <1>3, <2>2, <2>3, <2>5 DEF IInv, TypeOK
  <2>7. SlotsSound' /\ LoopSound'
      BY <1>3, <2>2, <2>3 DEF IInv, SlotsSound, LoopSound, InUse
  <2>8. QED
      BY <2>6, <2>7 DEF IInv
<1>5. CASE Hangup(s, c)
  <2>1. /\ client' \in [Slots -> Fds \cup {NoFd}]
        /\ sock' \in [Fds -> Conns \cup {NoConn}]
        /\ peer' \in [Conns -> PeerState]
        /\ \A t \in Slots : InUse(t)' =>
               /\ client'[t] = client[t] /\ InUse(t)
               /\ sock'[client[t]] = sock[client[t]]
      BY <1>2, <1>3, <1>5, HangupKeeps
  <2>2. UNCHANGED <<pc, resp, online, inbox, regby, paired>>
      BY <1>5 DEF Hangup
  <2>3. TypeOK'
      BY <1>2, <1>3, <2>1, <2>2 DEF IInv, TypeOK
  <2>4. SlotsSound'
    <3>1. \A t \in Slots : InUse(t)' => sock'[client'[t]] # NoConn
        BY <2>1 DEF IInv, SlotsSound
    <3>2. \A t, u \in Slots : InUse(t)' /\ client'[t] = client'[u] => t = u
      <4>1. SUFFICES ASSUME NEW t \in Slots, NEW u \in Slots, InUse(t)',
                            client'[t] = client'[u]
                     PROVE  t = u
          OBVIOUS
      <4>2. InUse(u)'
          BY <4>1 DEF InUse
      <4>3. QED
          BY <2>1, <4>1, <4>2 DEF IInv, SlotsSound
    <3>3. \A t \in Slots : InUse(t)' => t <= maxi
        BY <1>3, <2>1, OpenMaxAssumption DEF IInv, TypeOK, Slots, SlotsSound
    <3>4. QED
        BY <1>3, <3>1, <3>2, <3>3, OpenMaxAssumption
        DEF IInv, TypeOK, Slots, SlotsSound
  <2>5. QED
      BY <1>3, <2>2, <2>3, <2>4 DEF IInv, LoopSound
<1>6. QED
    BY <1>1, <1>4, <1>5

-----------------------------------------------------------------------------
(* The theorems.                                                            *)

LEMMA InitSound == Init => IInv
<1> SUFFICES ASSUME Init PROVE IInv
    OBVIOUS
<1>1. <<>> \in Batches
    BY NothingIsABatch
<1>2. revents \in [Slots -> BOOLEAN]
    BY StackAssumption DEF Init
<1>3. TypeOK
    BY <1>1, <1>2, OpenMaxAssumption
    DEF Init, TypeOK, NoResponse, IsOnlineMap, EmptyMap, PeerState
<1>4. SlotsSound /\ LoopSound
    BY DEF Init, SlotsSound, LoopSound, InUse
<1>5. QED
    BY <1>3, <1>4 DEF IInv

LEMMA Stutter == IInv /\ UNCHANGED vars => IInv'
<1> SUFFICES ASSUME IInv, UNCHANGED vars PROVE IInv'
    OBVIOUS
<1>1. UNCHANGED <<procVars, online, netVars, histVars>>
    BY DEF vars
<1>2. TypeOK'
    BY <1>1 DEF IInv, TypeOK, procVars, netVars, histVars
<1>3. SlotsSound' /\ LoopSound'
    BY <1>1 DEF IInv, SlotsSound, LoopSound, InUse, procVars, netVars
<1>4. QED
    BY <1>2, <1>3 DEF IInv

\* The inductive invariant holds throughout.
THEOREM Sound == Spec => []IInv
<1>1. IInv /\ [Next]_vars => IInv'
  <2> SUFFICES ASSUME IInv, [Next]_vars PROVE IInv'
      OBVIOUS
  <2>1. CASE Server
      BY <2>1, PollStep, AcceptStep, WelcomeStep, EndScanStep, ReadStep, SendStep
      DEF Server
  <2>2. CASE \E c \in Conns : Client(c) \/ Network(c)
      BY <2>2, ClientStep
  <2>3. CASE UNCHANGED vars
      BY <2>3, Stutter
  <2>4. QED
      BY <2>1, <2>2, <2>3 DEF Next
<1>2. QED
    BY <1>1, InitSound, PTL DEF Spec

\* Every variable of the server keeps its type: the loop variable never runs
\* past client[OPEN_MAX] (main.cpp:94, 130) and maxi never names a slot that
\* is not there (main.cpp:119).
THEOREM TypeCorrect == Spec => []TypeOK
<1>1. IInv => TypeOK
    BY DEF IInv
<1>2. QED
    BY <1>1, Sound, PTL

\* client[] and maxi are right whatever clients do and however accept, poll
\* and read go on: a slot in use holds an open descriptor nobody else has, and
\* no slot above maxi is forgotten (main.cpp:91-122 and 147-164).
THEOREM SlotsAreSound == Spec => []SlotsSound
<1>1. IInv => SlotsSound
    BY DEF IInv
<1>2. QED
    BY <1>1, Sound, PTL

-----------------------------------------------------------------------------
(* No connection is leaked.                                                 *)

\* With as many slots as descriptors, a descriptor is free only when a slot is.
LEMMA SlotForFree ==
    ASSUME IInv, Cardinality(Fds) <= Cardinality(Slots),
           NEW f \in Fds, sock[f] = NoConn, \A s \in Slots : InUse(s)
    PROVE  FALSE
<1>1. client \in Injection(Slots, Fds \ {f})
  <2>1. client \in [Slots -> Fds \ {f}]
      BY DEF IInv, TypeOK, SlotsSound, InUse
  <2>2. \A s, t \in Slots : client[s] = client[t] => s = t
      BY DEF IInv, SlotsSound
  <2>3. QED
      BY <2>1, <2>2 DEF Injection, IsInjective
<1>2. /\ IsFiniteSet(Fds \ {f})
      /\ Cardinality(Fds \ {f}) = Cardinality(Fds) - 1
    BY FiniteFdsAssumption, FS_RemoveElement
<1>3. IsFiniteSet(Slots) /\ Cardinality(Slots) <= Cardinality(Fds \ {f})
    BY <1>1, <1>2, FS_Injection
<1>4. Cardinality(Slots) \in Nat /\ Cardinality(Fds) \in Nat
    BY <1>3, FiniteFdsAssumption, FS_CardinalityType
<1>5. QED
    BY <1>2, <1>3, <1>4

LEMMA OpenStays == IInv /\ OpenIsInASlot /\ [Next]_vars => OpenIsInASlot'
<1> SUFFICES ASSUME IInv, OpenIsInASlot, [Next]_vars,
                    Cardinality(Fds) <= Cardinality(Slots),
                    NEW f \in Fds, sock'[f] # NoConn
             PROVE  \E s \in Slots : client'[s] = f
    BY DEF OpenIsInASlot
<1>1. sock[f] # NoConn => \E s \in Slots : client[s] = f
    BY DEF OpenIsInASlot
<1>2. CASE UNCHANGED <<sock, client>>
    BY <1>1, <1>2
<1>3. CASE Accept
  <2>1. PICK connfd \in Connfd :
          LET free == {s \in Slots : ~InUse(s)}
          IN  /\ AcceptOn(connfd)
              /\ IF free = {}
                 THEN UNCHANGED client
                 ELSE \E s \in FirstOf(free) : client' = [client EXCEPT ![s] = connfd]
      BY <1>3 DEF Accept
  <2>2. CASE connfd = NoFd
    <3>1. sock[f] # NoConn
        BY <2>1, <2>2 DEF AcceptOn
    <3>2. PICK s \in Slots : client[s] = f
        BY <1>1, <3>1
    <3>3. InUse(s)
        BY <3>2, FdsAssumption DEF InUse, NoFd
    <3>4. client'[s] = f
        BY <2>1, <3>2, <3>3 DEF FirstOf, IInv, TypeOK
    <3>5. QED
        BY <3>4
  <2>3. CASE connfd # NoFd
    <3>1. /\ connfd \in Fds /\ sock[connfd] = NoConn
          /\ sock' = [sock EXCEPT ![connfd] = Head(backlog)]
        BY <2>1, <2>3 DEF Connfd, FirstOf, AcceptOn
    <3>2. PICK t \in Slots : ~InUse(t) /\ client' = [client EXCEPT ![t] = connfd]
      <4>1. {s \in Slots : ~InUse(s)} # {}
          BY <3>1, SlotForFree
      <4>2. QED
          BY <2>1, <4>1 DEF FirstOf
    <3>3. CASE f = connfd
        BY <3>2, <3>3 DEF IInv, TypeOK
    <3>4. CASE f # connfd
      <4>1. PICK s \in Slots : client[s] = f
          BY <1>1, <3>1, <3>4 DEF IInv, TypeOK
      <4>2. InUse(s)
          BY <4>1, FdsAssumption DEF InUse, NoFd
      <4>3. client'[s] = f
          BY <3>2, <4>1, <4>2 DEF IInv, TypeOK
      <4>4. QED
          BY <4>3
    <3>5. QED
        BY <3>3, <3>4
  <2>4. QED
      BY <2>2, <2>3
<1>4. CASE Read
  <2>1. PICK s \in FirstOf(ToRead) :
          \/ Handle(client[s], sock[client[s]], inbox[sock[client[s]]])
          \/ Hangup(s, sock[client[s]])
      BY <1>4 DEF Read
  <2>2. s \in Slots /\ client[s] \in Fds
      BY <2>1, ToReadSlot
  <2>3. CASE UNCHANGED <<sock, client>>
      BY <1>2, <2>3
  <2>4. CASE /\ client' = [client EXCEPT ![s] = NoFd]
             /\ sock' = [sock EXCEPT ![client[s]] = NoConn]
    <3>1. f # client[s] /\ sock[f] # NoConn
        BY <2>2, <2>4 DEF IInv, TypeOK
    <3>2. PICK t \in Slots : client[t] = f
        BY <1>1, <3>1
    <3>3. client'[t] = f
        BY <2>4, <3>1, <3>2 DEF IInv, TypeOK
    <3>4. QED
        BY <3>3
  <2>5. QED
      BY <2>1, <2>3, <2>4 DEF Handle, Hangup
<1>5. CASE Poll \/ Welcome \/ EndScan \/ Send \/ UNCHANGED vars
           \/ \E c \in Conns : Client(c) \/ Network(c)
    BY <1>2, <1>5
    DEF Poll, Welcome, EndScan, Send, vars, Client, Network, Connect, SendRequest, Receive,
        Close, Abort, Vanish, ResetArrives, Timeout, PeerChange, procVars, netVars, histVars
<1>6. QED
    BY <1>3, <1>4, <1>5 DEF Next, Server

\* With a slot for every descriptor, each open connection is in a slot: "too
\* many clients" is then never answered with an open descriptor in hand
\* (main.cpp:101-112), and a slot is never cleared without a close (:147-164).
THEOREM NoConnectionIsLeaked == Spec => []OpenIsInASlot
<1>1. Init => OpenIsInASlot
    BY DEF Init, OpenIsInASlot
<1>2. QED
    BY <1>1, OpenStays, Sound, PTL DEF Spec

\* A step leaves each open descriptor that has a slot in a slot, gives a new one
\* a slot, or finds no slot free.
LEMMA StepDrops ==
    ASSUME IInv, Next, NEW f \in Fds, Dropped(f)'
    PROVE  Dropped(f) \/ (sock[f] = NoConn /\ \A s \in Slots : InUse(s))
<1>1. sock'[f] # NoConn /\ \A s \in Slots : client'[s] # f
    BY DEF Dropped
<1>2. CASE UNCHANGED <<sock, client>>
    BY <1>1, <1>2 DEF Dropped
<1>3. CASE Accept
  <2>1. PICK connfd \in Connfd :
          LET free == {s \in Slots : ~InUse(s)}
          IN  /\ AcceptOn(connfd)
              /\ IF free = {}
                 THEN UNCHANGED client
                 ELSE \E s \in FirstOf(free) : client' = [client EXCEPT ![s] = connfd]
      BY <1>3 DEF Accept
  <2>2. CASE \A s \in Slots : InUse(s)
    <3>1. UNCHANGED client
        BY <2>1, <2>2
    <3>2. QED
        BY <1>1, <2>2, <3>1 DEF Dropped
  <2>3. CASE ~\A s \in Slots : InUse(s)
    <3>1. PICK t \in Slots : ~InUse(t) /\ client' = [client EXCEPT ![t] = connfd]
        BY <2>1, <2>3 DEF FirstOf
    <3>2. f # connfd
        BY <1>1, <3>1 DEF IInv, TypeOK
    <3>3. sock'[f] = sock[f]
        BY <2>1, <3>2 DEF AcceptOn, IInv, TypeOK
    <3>4. \A s \in Slots : client[s] # f
        BY <1>1, <3>1, FdsAssumption DEF InUse, NoFd, IInv, TypeOK
    <3>5. QED
        BY <1>1, <3>3, <3>4 DEF Dropped
  <2>4. QED
      BY <2>2, <2>3
<1>4. CASE Read
  <2>1. PICK s \in FirstOf(ToRead) :
          \/ Handle(client[s], sock[client[s]], inbox[sock[client[s]]])
          \/ Hangup(s, sock[client[s]])
      BY <1>4 DEF Read
  <2>2. s \in Slots /\ client[s] \in Fds
      BY <2>1, ToReadSlot
  <2>3. CASE /\ client' = [client EXCEPT ![s] = NoFd]
             /\ sock' = [sock EXCEPT ![client[s]] = NoConn]
    <3>1. f # client[s] /\ sock[f] # NoConn
        BY <1>1, <2>2, <2>3 DEF IInv, TypeOK
    <3>2. \A t \in Slots : client[t] # f
        BY <1>1, <2>3, <3>1 DEF IInv, TypeOK
    <3>3. QED
        BY <3>1, <3>2 DEF Dropped
  <2>4. QED
      BY <1>2, <2>1, <2>3 DEF Handle, Hangup
<1>5. CASE Poll \/ Welcome \/ EndScan \/ Send
           \/ \E c \in Conns : Client(c) \/ Network(c)
    BY <1>2, <1>5
    DEF Poll, Welcome, EndScan, Send, Client, Network, Connect, SendRequest, Receive,
        Close, Abort, Vanish, ResetArrives, Timeout, PeerChange, procVars, netVars, histVars
<1>6. QED
    BY <1>3, <1>4, <1>5 DEF Next, Server

\* However many clients come, an accepted descriptor stays out of the table only
\* if every slot was taken when accept gave it (main.cpp:108): none is forgotten
\* by clearing or filling a slot.
THEOREM OnlyFullTablesDrop == Spec => DropsOnlyWhenFull
<1>1. IInv /\ [Next]_vars =>
         [\A f \in Fds : Dropped(f)' =>
             Dropped(f) \/ (sock[f] = NoConn /\ \A s \in Slots : InUse(s))]_vars
    BY StepDrops
<1>2. QED
    BY <1>1, Sound, PTL DEF Spec, DropsOnlyWhenFull

-----------------------------------------------------------------------------
(* Which slots the scan can wait on.                                        *)

\* A connection is in one place: not opened yet, in the backlog once, or open
\* on one descriptor.  Without this, reading one slot could empty another.
ConnsOnce ==
    /\ \A f, g \in Fds : sock[f] = sock[g] /\ sock[f] # NoConn => f = g
    /\ \A j, k \in 1..Len(backlog) : backlog[j] = backlog[k] => j = k
    /\ \A f \in Fds, j \in 1..Len(backlog) : sock[f] # backlog[j]
    /\ \A f \in Fds : sock[f] # NoConn => peer[sock[f]] # "new"
    /\ \A j \in 1..Len(backlog) : peer[backlog[j]] # "new"

\* The slots the scan has still to pass.
From == IF pc \in {"scan", "send"} THEN i ELSE 1

\* What poll reported of the slots it was given still holds of those the scan
\* has not passed: clients only add to what can be read, and reading a slot
\* takes nothing from another.
ReportHolds ==
    pc # "poll" => \A s \in Slots :
        From <= s /\ s <= polled /\ revents[s] => Readable(s)

ScanInv == IInv /\ ConnsOnce /\ ReportHolds

-----------------------------------------------------------------------------
(* Connections.                                                             *)

\* Changing how a connection stands does not move it, if it was connected.
LEMMA ConnsOnceStays ==
    ASSUME IInv, ConnsOnce, IInv', UNCHANGED <<sock, backlog>>,
           \A c \in Conns : peer[c] # "new" => peer'[c] # "new"
    PROVE  ConnsOnce'
<1> USE DEF IInv, TypeOK
<1>1. \A j \in 1..Len(backlog) : backlog[j] \in Conns
    OBVIOUS
<1>2. \A f \in Fds : sock[f] # NoConn => sock[f] \in Conns
    OBVIOUS
<1> HIDE DEF IInv, TypeOK
<1>3. QED
    BY <1>1, <1>2 DEF ConnsOnce

LEMMA SendToPeer ==
    ASSUME TypeOK, NEW fd \in Fds \cup {NoFd}, SendTo(fd), NEW c \in Conns
    PROVE  peer'[c] = peer[c] \/ (peer[c] \in {"closed", "kicked"}
                                    /\ peer'[c] = "kicked")
<1> DEFINE d == IF fd = NoFd THEN NoConn ELSE sock[fd]
<1>1. CASE peer' = peer
    BY <1>1
<1>2. CASE /\ d # NoConn
           /\ peer[d] \in {"closed", "kicked"}
           /\ peer' = [peer EXCEPT ![d] = "kicked"]
    BY <1>2 DEF TypeOK
<1>3. QED
    BY <1>1, <1>2 DEF SendTo

-----------------------------------------------------------------------------
(* What can be read stays so.                                               *)

LEMMA ReadableKept ==
    ASSUME IInv, NEW s \in Slots, Readable(s),
           client'[s] = client[s],
           sock'[client[s]] = sock[client[s]],
           LET c == sock[client[s]]
           IN  /\ inbox[c] # <<>> => inbox'[c] # <<>>
               /\ peer[c] \notin {"open", "lost"} =>
                     peer'[c] \notin {"open", "lost"}
    PROVE  Readable(s)'
    BY DEF Readable, InUse

\* A slot in use holds a descriptor with a connection.
LEMMA SlotConn ==
    ASSUME IInv, NEW s \in Slots, InUse(s)
    PROVE  client[s] \in Fds /\ sock[client[s]] \in Conns
    BY DEF IInv, TypeOK, SlotsSound, InUse

\* Steps that leave the server where it is, add to inboxes, and take no
\* connection back to a state without anything to read.
LEMMA ReportStays ==
    ASSUME IInv, ReportHolds,
           UNCHANGED <<client, sock, polled, revents>>,
           pc' # "poll" => pc # "poll" /\ From <= From',
           \A s \in Slots : InUse(s) =>
               LET c == sock[client[s]]
               IN  /\ inbox[c] # <<>> => inbox'[c] # <<>>
                   /\ peer[c] \notin {"open", "lost"} =>
                         peer'[c] \notin {"open", "lost"},
           From \in Int, From' \in Int, polled \in Int
    PROVE  ReportHolds'
<1> SUFFICES ASSUME pc' # "poll", NEW s \in Slots,
                    From' <= s, s <= polled', revents'[s]
             PROVE  Readable(s)'
    BY DEF ReportHolds
<1>1. s \in Int
    BY OpenMaxAssumption DEF Slots
<1>2. Readable(s)
    BY <1>1 DEF ReportHolds
<1>3. InUse(s)
    BY <1>2 DEF Readable
<1>4. QED
    BY <1>2, <1>3, ReadableKept

LEMMA Positions ==
    ASSUME IInv
    PROVE  From \in Int /\ polled \in Int /\ From >= 1
    BY OpenMaxAssumption DEF IInv, TypeOK, From, Slots

-----------------------------------------------------------------------------
(* One lemma per kind of step.                                              *)

LEMMA ScanClientStep ==
    ASSUME ScanInv, NEW c \in Conns, Client(c) \/ Network(c)
    PROVE  ScanInv'
<1> USE DEF ScanInv
<1>1. IInv'
    BY ClientStep
<1>2. /\ UNCHANGED <<pc, i, client, revents, polled, sock>>
    BY DEF Client, Network, Connect, SendRequest, Receive, Close, Abort,
           Vanish, ResetArrives, Timeout, PeerChange, procVars, histVars
<1>3. From' = From
    BY <1>2 DEF From
<1>4. \A d \in Conns : /\ inbox[d] # <<>> => inbox'[d] # <<>>
                       /\ peer[d] \notin {"new", "open", "lost"} =>
                             peer'[d] \notin {"new", "open", "lost"}
                       /\ peer[d] # "new" => peer'[d] # "new"
  <2>1. CASE Connect(c)
      BY <2>1 DEF Connect, IInv, TypeOK
  <2>2. ASSUME NEW r \in Requests, SendRequest(c, r)
        PROVE  \A d \in Conns : inbox[d] # <<>> => inbox'[d] # <<>>
    <3>1. inbox[c] \in Seq(Requests)
        BY BatchIsSeq DEF IInv, TypeOK
    <3>2. Append(inbox[c], r) # <<>>
        BY <3>1, AppendProperties
    <3>3. QED
        BY <2>2, <3>2 DEF SendRequest, IInv, TypeOK
  <2>3. ASSUME NEW r \in Requests, SendRequest(c, r) PROVE peer' = peer
      BY <2>3 DEF SendRequest
  <2>4. CASE Receive(c)
      BY <2>4 DEF Receive
  <2>5. ASSUME NEW from, NEW to, PeerChange(c, from, to),
               from \in {"open", "lost"} \/ to \notin {"new", "open", "lost"},
               to # "new"
        PROVE  \A d \in Conns :
                   /\ inbox[d] # <<>> => inbox'[d] # <<>>
                   /\ peer[d] \notin {"new", "open", "lost"} =>
                         peer'[d] \notin {"new", "open", "lost"}
                   /\ peer[d] # "new" => peer'[d] # "new"
      BY <2>5 DEF PeerChange, IInv, TypeOK
  <2>6. QED
      BY <2>1, <2>2, <2>3, <2>4, <2>5
      DEF Client, Network, Close, Abort, Vanish, ResetArrives, Timeout
<1>5. ReportHolds'
  <2>1. \A s \in Slots : InUse(s) =>
            LET d == sock[client[s]]
            IN  /\ inbox[d] # <<>> => inbox'[d] # <<>>
                /\ peer[d] \notin {"open", "lost"} =>
                      peer'[d] \notin {"open", "lost"}
    <3>1. SUFFICES ASSUME NEW s \in Slots, InUse(s), NEW d, d = sock[client[s]]
                   PROVE  /\ inbox[d] # <<>> => inbox'[d] # <<>>
                          /\ peer[d] \notin {"open", "lost"} =>
                                peer'[d] \notin {"open", "lost"}
        OBVIOUS
    <3>2. client[s] \in Fds /\ d \in Conns /\ d # NoConn
        BY <3>1, SlotConn, NoConnAssumption
    <3>3. peer[d] # "new"
        BY <3>1, <3>2 DEF ConnsOnce
    <3>4. QED
        BY <1>4, <3>2, <3>3
  <2>2. QED
      BY <1>2, <1>3, <2>1, Positions, ReportStays
<1>6. CASE backlog' = backlog
    BY <1>1, <1>2, <1>4, <1>5, <1>6, ConnsOnceStays
<1>7. CASE Connect(c)
  <2>1. /\ peer[c] = "new"
        /\ peer' = [peer EXCEPT ![c] = "open"]
        /\ backlog' = Append(backlog, c)
        /\ backlog \in Seq(Conns)
      BY <1>7 DEF Connect, IInv, TypeOK
  <2>2. /\ Len(backlog) \in Nat
        /\ Len(backlog') = Len(backlog) + 1
        /\ \A j \in 1..Len(backlog) : backlog'[j] = backlog[j]
        /\ backlog'[Len(backlog) + 1] = c
      BY <2>1, AppendProperties, LenProperties
  <2>3. \A j \in 1..Len(backlog') :
            j \in 1..Len(backlog) \/ j = Len(backlog) + 1
      BY <2>2
  <2>4. \A j \in 1..Len(backlog) : backlog[j] \in Conns /\ backlog[j] # c
      BY <2>1 DEF ConnsOnce
  <2>5. \A f \in Fds : sock[f] # c
      BY <2>1, NoConnAssumption DEF ConnsOnce
  <2>6. \A d \in Conns : peer'[d] # "new" <=> peer[d] # "new" \/ d = c
      BY <2>1 DEF IInv, TypeOK
  <2>7. \A j, k \in 1..Len(backlog') : backlog'[j] = backlog'[k] => j = k
      BY <2>2, <2>3, <2>4 DEF ConnsOnce
  <2>8. \A f \in Fds, j \in 1..Len(backlog') : sock[f] # backlog'[j]
      BY <2>2, <2>3, <2>5 DEF ConnsOnce
  <2>9. \A j \in 1..Len(backlog') : peer'[backlog'[j]] # "new"
      BY <2>2, <2>3, <2>4, <2>6 DEF ConnsOnce
  <2>10. \A f \in Fds : sock[f] # NoConn => peer'[sock[f]] # "new"
      BY <2>6 DEF ConnsOnce, IInv, TypeOK
  <2>11. ConnsOnce'
      BY <1>2, <2>7, <2>8, <2>9, <2>10 DEF ConnsOnce
  <2>12. QED
      BY <1>1, <1>5, <2>11
<1>8. QED
    BY <1>6, <1>7
    DEF Client, Network, SendRequest, Receive, Close, Abort, Vanish,
        ResetArrives, Timeout, PeerChange

LEMMA ScanPollStep == ScanInv /\ Poll => ScanInv'
<1> SUFFICES ASSUME ScanInv, Poll PROVE ScanInv'
    OBVIOUS
<1> USE DEF ScanInv
<1>1. IInv'
    BY PollStep
<1>2. /\ UNCHANGED <<client, sock, peer, inbox, backlog>>
      /\ revents' = Polled /\ polled' = maxi
    BY DEF Poll, netVars
<1>3. ConnsOnce'
    BY <1>1, <1>2, ConnsOnceStays
<1>4. \A s \in Slots : s <= polled' /\ revents'[s] => Readable(s)
    BY <1>2 DEF Polled
<1>5. \A s \in Slots : Readable(s) => Readable(s)'
    BY <1>2 DEF Readable, InUse
<1>6. QED
    BY <1>1, <1>3, <1>4, <1>5 DEF ReportHolds

LEMMA ScanAcceptStep == ScanInv /\ Accept => ScanInv'
<1> SUFFICES ASSUME ScanInv, Accept PROVE ScanInv'
    OBVIOUS
<1> USE DEF ScanInv
<1>1. IInv'
    BY AcceptStep
<1>2. PICK connfd \in Connfd :
          /\ AcceptOn(connfd)
          /\ \/ pc' = "poll" /\ UNCHANGED client
             \/ /\ pc' = "welcome"
                /\ \E s \in Slots : /\ ~InUse(s)
                                    /\ client' = [client EXCEPT ![s] = connfd]
    BY DEF Accept, FirstOf
<1>3. /\ connfd \in Fds \cup {NoFd}
      /\ connfd # NoFd => sock[connfd] = NoConn
    BY DEF Connfd, FirstOf
<1>4. /\ pc = "accept" /\ backlog # <<>> /\ backlog \in Seq(Conns)
      /\ UNCHANGED <<revents, polled, peer, inbox>>
    BY DEF Accept, At, IInv, TypeOK, LoopSound
<1>5. ConnsOnce'
  <2>1. CASE connfd = NoFd
      BY <1>1, <1>2, <1>4, <2>1, ConnsOnceStays DEF AcceptOn
  <2>2. CASE connfd # NoFd
    <3>1. /\ connfd \in Fds
          /\ \A f \in Fds : sock'[f] = IF f = connfd THEN backlog[1] ELSE sock[f]
          /\ backlog' = Tail(backlog)
        BY <1>2, <1>3, <1>4, <2>2 DEF AcceptOn, IInv, TypeOK
    <3>2. /\ Len(backlog) \in Nat \ {0}
          /\ Len(backlog') = Len(backlog) - 1
          /\ \A j \in 1..Len(backlog') :
                /\ j + 1 \in 1..Len(backlog)
                /\ backlog'[j] = backlog[j + 1]
        BY <1>4, <3>1, HeadTailProperties, LenProperties, EmptySeq
    <3>3. 1 \in 1..Len(backlog) /\ backlog[1] \in Conns
        BY <1>4, <3>2
    <3>4. \A f, g \in Fds : sock'[f] = sock'[g] /\ sock'[f] # NoConn => f = g
        BY <3>1, <3>3 DEF ConnsOnce
    <3>5. \A j, k \in 1..Len(backlog') : backlog'[j] = backlog'[k] => j = k
        BY <3>2 DEF ConnsOnce
    <3>6. \A f \in Fds, j \in 1..Len(backlog') : sock'[f] # backlog'[j]
      <4>1. \A j \in 1..Len(backlog') : backlog'[j] # backlog[1]
          BY <3>2, <3>3 DEF ConnsOnce
      <4>2. QED
          BY <3>1, <3>2, <4>1 DEF ConnsOnce
    <3>7. \A f \in Fds : sock'[f] # NoConn => peer'[sock'[f]] # "new"
        BY <1>4, <3>1, <3>3 DEF ConnsOnce
    <3>8. \A j \in 1..Len(backlog') : peer'[backlog'[j]] # "new"
        BY <1>4, <3>2 DEF ConnsOnce
    <3>9. QED
        BY <3>4, <3>5, <3>6, <3>7, <3>8 DEF ConnsOnce
  <2>3. QED
      BY <2>1, <2>2
<1>6. ReportHolds'
  <2>1. SUFFICES ASSUME pc' = "welcome",
                        NEW t \in Slots, 1 <= t, t <= polled, revents[t]
                 PROVE  Readable(t)'
      BY <1>2, <1>4 DEF ReportHolds, From
  <2>2. Readable(t) /\ InUse(t)
      BY <1>4, <2>1 DEF ReportHolds, From, Readable
  <2>3. PICK s \in Slots : ~InUse(s) /\ client' = [client EXCEPT ![s] = connfd]
      BY <1>2, <2>1
  <2>4. client'[t] = client[t]
      BY <2>2, <2>3 DEF IInv, TypeOK
  <2>5. client[t] \in Fds /\ client[t] # connfd
    <3>1. client[t] \in Fds /\ sock[client[t]] # NoConn
        BY <2>2, SlotConn, NoConnAssumption
    <3>2. QED
        BY <1>3, <2>2, <3>1 DEF InUse
  <2>6. sock'[client[t]] = sock[client[t]]
      BY <1>2, <2>5 DEF AcceptOn, IInv, TypeOK
  <2>7. QED
      BY <1>4, <2>2, <2>4, <2>6, ReadableKept
<1>7. QED
    BY <1>1, <1>5, <1>6

\* Welcome and Send change the server's position and one connection's state.
LEMMA AfterSend ==
    ASSUME ScanInv, IInv', NEW fd \in Fds \cup {NoFd}, SendTo(fd),
           UNCHANGED <<client, sock, backlog, inbox, revents, polled>>,
           pc # "poll", From <= From'
    PROVE  ScanInv'
<1> USE DEF ScanInv
<1>1. \A c \in Conns : peer'[c] = peer[c] \/ (peer[c] \in {"closed", "kicked"}
                                               /\ peer'[c] = "kicked")
    BY SendToPeer DEF IInv
<1>2. ConnsOnce'
    BY <1>1, ConnsOnceStays
<1>3. \A s \in Slots : InUse(s) =>
          LET c == sock[client[s]]
          IN  /\ inbox[c] # <<>> => inbox'[c] # <<>>
              /\ peer[c] \notin {"open", "lost"} =>
                    peer'[c] \notin {"open", "lost"}
    BY <1>1, SlotConn
<1>4. From \in Int /\ From' \in Int /\ polled \in Int
    BY OpenMaxAssumption DEF IInv, TypeOK, From, Slots
<1>5. ReportHolds'
    BY <1>3, <1>4, ReportStays
<1>6. QED
    BY <1>2, <1>5

LEMMA ScanWelcomeStep == ScanInv /\ Welcome => ScanInv'
<1> SUFFICES ASSUME ScanInv, Welcome PROVE ScanInv'
    OBVIOUS
<1>1. IInv'
    BY WelcomeStep DEF ScanInv
<1>2. client[i] \in Fds \cup {NoFd} /\ SendTo(client[i]) /\ pc = "welcome"
    BY DEF ScanInv, IInv, TypeOK, LoopSound, Welcome, At
<1>3. UNCHANGED <<client, sock, backlog, inbox, revents, polled>>
    BY DEF Welcome, histVars
<1>4. From = 1 /\ From' = 1
    BY <1>2 DEF From, Welcome
<1>5. QED
    BY <1>1, <1>2, <1>3, <1>4, AfterSend

LEMMA ScanSendStep == ScanInv /\ Send => ScanInv'
<1> SUFFICES ASSUME ScanInv, Send PROVE ScanInv'
    OBVIOUS
<1>1. IInv'
    BY SendStep DEF ScanInv
<1>2. resp.to \in Fds \cup {NoFd} /\ SendTo(resp.to) /\ pc = "send"
    BY DEF ScanInv, IInv, TypeOK, Send, At
<1>3. /\ UNCHANGED <<client, sock, backlog, inbox, revents, polled>>
      /\ i' = i /\ pc' = "scan"
    BY DEF Send
<1>4. From = i /\ From' = i /\ i \in Int
    BY <1>2, <1>3 DEF From, ScanInv, IInv, TypeOK
<1>5. QED
    BY <1>1, <1>2, <1>3, <1>4, AfterSend

LEMMA ScanEndScanStep == ScanInv /\ EndScan => ScanInv'
<1> SUFFICES ASSUME ScanInv, EndScan PROVE ScanInv'
    OBVIOUS
<1>1. IInv'
    BY EndScanStep DEF ScanInv
<1>2. UNCHANGED <<sock, backlog, peer>> /\ pc' = "poll"
    BY DEF EndScan, netVars
<1>3. ConnsOnce'
    BY <1>1, <1>2, ConnsOnceStays DEF ScanInv
<1>4. QED
    BY <1>1, <1>2, <1>3 DEF ScanInv, ReportHolds

\* Reading a slot empties its own inbox and closes its own descriptor, and
\* the scan has passed it then.
LEMMA ScanReadStep == ScanInv /\ Read => ScanInv'
<1> SUFFICES ASSUME ScanInv, Read PROVE ScanInv'
    OBVIOUS
<1> USE DEF ScanInv
<1>1. IInv'
    BY ReadStep
<1>2. PICK s \in FirstOf(ToRead) :
          /\ i' = s + 1
          /\ \/ Handle(client[s], sock[client[s]], inbox[sock[client[s]]])
             \/ Hangup(s, sock[client[s]])
    BY DEF Read
<1> DEFINE fd == client[s]
           c == sock[fd]
<1>3. /\ s \in Slots /\ fd \in Fds /\ c \in Conns /\ c # NoConn
      /\ s \in i..maxi /\ InUse(s)
    BY ToReadSlot, NoConnAssumption DEF FirstOf, ToRead
<1>4. /\ pc = "scan" /\ pc' \in {"scan", "send"}
      /\ UNCHANGED <<revents, polled, backlog>>
    BY <1>2 DEF Read, At, Handle, HandleReg, HandleVs, HandleOnlineInfo,
                HandleHit, HandleOther, Respond, Hangup
<1>5. /\ \A d \in Conns \ {c} : inbox'[d] = inbox[d] /\ peer'[d] = peer[d]
      /\ peer[c] # "new" => peer'[c] # "new"
      /\ \A t \in Slots \ {s} : client'[t] = client[t]
      /\ \A f \in Fds : sock'[f] = sock[f] \/ (f = fd /\ sock'[f] = NoConn)
    BY <1>2, <1>3 DEF Handle, Hangup, IInv, TypeOK
<1>6. ConnsOnce'
  <2>1. \A d \in Conns : peer[d] # "new" => peer'[d] # "new"
      BY <1>5
  <2>2. \A f \in Fds : sock[f] # NoConn => sock[f] \in Conns
      BY DEF IInv, TypeOK
  <2>3. \A j \in 1..Len(backlog) : backlog[j] \in Conns
      BY DEF IInv, TypeOK
  <2>4. QED
      BY <1>4, <1>5, <2>1, <2>2, <2>3, NoConnAssumption DEF ConnsOnce
<1>7. ReportHolds'
  <2>1. SUFFICES ASSUME NEW t \in Slots, s + 1 <= t, t <= polled, revents[t]
                 PROVE  Readable(t)'
      BY <1>2, <1>4 DEF ReportHolds, From
  <2>2. i <= t /\ t # s
      BY <1>3, <2>1, OpenMaxAssumption DEF Slots, IInv, TypeOK
  <2>3. Readable(t) /\ InUse(t)
      BY <1>4, <2>1, <2>2 DEF ReportHolds, From, Readable
  <2>4. client[t] \in Fds /\ sock[client[t]] \in Conns
      BY <2>3, SlotConn
  <2>5. client[t] # fd
      BY <1>3, <2>2, <2>3 DEF IInv, SlotsSound
  <2>6. sock[client[t]] # c
      BY <1>3, <2>4, <2>5 DEF ConnsOnce
  <2>7. QED
      BY <1>5, <2>2, <2>3, <2>4, <2>5, <2>6, ReadableKept
<1>8. QED
    BY <1>1, <1>6, <1>7

-----------------------------------------------------------------------------
(* The scan never waits on a slot of its own round.                         *)

\* The scan waits in read only on a slot that the last poll was not given:
\* whatever poll did report is still there when the scan comes to it, however
\* clients and the network go on in between (main.cpp:82, 130-144).
THEOREM OnlyFreshSlotsWait == Spec => []WaitsOnlyOnFreshSlot
<1>1. Init => ScanInv
    BY InitSound DEF ScanInv, Init, ConnsOnce, ReportHolds
<1>2. ScanInv /\ [Next]_vars => ScanInv'
  <2> SUFFICES ASSUME ScanInv, [Next]_vars PROVE ScanInv'
      OBVIOUS
  <2>1. CASE Server
      BY <2>1, ScanPollStep, ScanAcceptStep, ScanWelcomeStep, ScanEndScanStep,
         ScanReadStep, ScanSendStep
      DEF Server
  <2>2. CASE \E c \in Conns : Client(c) \/ Network(c)
      BY <2>2, ScanClientStep
  <2>3. CASE UNCHANGED vars
    <3>1. UNCHANGED <<procVars, online, netVars, histVars>>
        BY <2>3 DEF vars
    <3>2. IInv'
        BY <2>3, Stutter DEF ScanInv
    <3>3. ConnsOnce'
        BY <3>1 DEF ScanInv, netVars, ConnsOnce
    <3>4. ReportHolds'
        BY <3>1 DEF ScanInv, procVars, netVars, histVars, ReportHolds, From,
                    Readable, InUse
    <3>5. QED
        BY <3>2, <3>3, <3>4 DEF ScanInv
  <2>4. QED
      BY <2>1, <2>2, <2>3 DEF Next
<1>3. ScanInv => WaitsOnlyOnFreshSlot
  <2> SUFFICES ASSUME ScanInv, At("scan"),
                      NEW s \in FirstOf(ToRead), ~Readable(s),
                      NEW t \in FirstOf(ToRead)
               PROVE  t > polled
      BY DEF WaitsOnlyOnFreshSlot, Waits
  <2>1. /\ s \in i..maxi /\ t \in i..maxi /\ s <= t /\ t <= s
        /\ revents[t]
      BY DEF FirstOf, ToRead
  <2>2. s = t /\ t \in Slots /\ polled \in Int
      BY <2>1, OpenMaxAssumption DEF ScanInv, IInv, TypeOK, Slots
  <2>3. ~(t <= polled)
      BY <2>1, <2>2 DEF ScanInv, ReportHolds, From, At
  <2>4. QED
      BY <2>2, <2>3, OpenMaxAssumption DEF Slots
<1>4. QED
    BY <1>1, <1>2, <1>3, PTL DEF Spec

-----------------------------------------------------------------------------
(* Connections, players and opponents: the inductive invariant.             *)

\* A connection that is open on a descriptor is one that has had it.
OpenAreTenants == \A f \in Fds : sock[f] # NoConn => sock[f] \in tenants[f]

\* An entry is what the last reg on its descriptor has made of it.
EntriesAreRegistered ==
    \A f \in Fds :
        \/ regby[f].conn = NoConn /\ f \notin DOMAIN online
        \/ /\ regby[f].conn \in tenants[f] /\ f \in DOMAIN online
           /\ online[f].name = regby[f].name
           /\ online[f].stat = ONLINE_STAT_ON

\* Two tenants of these descriptors have been put together.
Matched(f, g) == \E c \in tenants[f], d \in tenants[g] : {c, d} \in paired

\* An opponent comes from a vs of two tenants.
OpponentsAreMatched ==
    \A f \in DOMAIN online, g \in Fds : online[f].vsfd = g => Matched(f, g)

\* And so does a hit that is on its way.
ResponseIsMatched ==
    \A g \in Fds : resp.from # NoConn /\ resp.to = g =>
        \E f \in Fds : resp.from \in tenants[f] /\ Matched(f, g)

PlayersSound == /\ OpenAreTenants /\ EntriesAreRegistered /\ OpponentsAreMatched
                /\ ResponseIsMatched /\ HitsFollowPairing

PlayersInv == IInv /\ PlayersSound

-----------------------------------------------------------------------------
(* Players.                                                                 *)

\* What hits have done stays right while pairs and tenants only grow.
LEMMA HitsStay ==
    ASSUME HitsFollowPairing, hits' = hits, paired \subseteq paired',
           \A f \in Fds : tenants[f] \subseteq tenants'[f]
    PROVE  HitsFollowPairing'
<1>1. ASSUME NEW x, NEW y, Share(x, y)
      PROVE  Share(x, y)'
    BY <1>1 DEF Share
<1>2. ASSUME NEW h \in hits
      PROVE  \E c, d \in Conns : {c, d} \in paired' /\ Share(h[1], c)' /\ Share(h[2], d)'
  <2>1. PICK c \in Conns, d \in Conns : {c, d} \in paired /\ Share(h[1], c) /\ Share(h[2], d)
      BY DEF HitsFollowPairing
  <2>2. Share(h[1], c)' /\ Share(h[2], d)'
      BY <1>1, <2>1
  <2>3. QED
      BY <2>1, <2>2
<1>3. QED
    BY <1>2 DEF HitsFollowPairing

\* Steps that leave the map and its history alone.
LEMMA PlayersStay ==
    ASSUME PlayersInv, UNCHANGED <<online, regby, paired, tenants, resp, hits>>,
           \A f \in Fds : sock'[f] # NoConn => sock'[f] = sock[f]
    PROVE  PlayersSound'
<1> USE DEF PlayersInv, PlayersSound
<1>1. OpenAreTenants'
    BY DEF OpenAreTenants
<1>2. EntriesAreRegistered'
    BY DEF EntriesAreRegistered
<1>3. OpponentsAreMatched'
    BY DEF OpponentsAreMatched, Matched
<1>4. ResponseIsMatched'
    BY DEF ResponseIsMatched, Matched
<1>5. HitsFollowPairing'
    BY HitsStay
<1>6. QED
    BY <1>1, <1>2, <1>3, <1>4, <1>5

LEMMA AcceptKeepsPlayers == PlayersInv /\ Accept => PlayersSound'
<1> SUFFICES ASSUME PlayersInv, Accept PROVE PlayersSound'
    OBVIOUS
<1> USE DEF PlayersInv, PlayersSound
<1>1. PICK connfd \in Connfd : AcceptOn(connfd)
    BY DEF Accept
<1>2. UNCHANGED <<online, regby, paired, resp, hits>>
    BY DEF Accept
<1>3. CASE connfd = NoFd
  <2>1. UNCHANGED <<sock, tenants>>
      BY <1>1, <1>3 DEF AcceptOn
  <2>2. QED
      BY <1>2, <2>1, PlayersStay
<1>4. CASE connfd # NoFd
  <2>1. /\ connfd \in Fds
        /\ sock' = [sock EXCEPT ![connfd] = Head(backlog)]
        /\ tenants' = [tenants EXCEPT ![connfd] = @ \cup {Head(backlog)}]
      BY <1>1, <1>4 DEF AcceptOn, Connfd, FirstOf
  <2>2. \A f \in Fds : tenants[f] \subseteq tenants'[f]
      BY <2>1 DEF IInv, TypeOK
  <2>3. OpenAreTenants'
      BY <2>1, <2>2 DEF IInv, TypeOK, OpenAreTenants
  <2>4. EntriesAreRegistered'
      BY <1>2, <2>2 DEF EntriesAreRegistered
  <2>5. \A f, g \in Fds : Matched(f, g) => Matched(f, g)'
      BY <1>2, <2>2 DEF Matched
  <2>6. OpponentsAreMatched'
      BY <1>2, <2>5 DEF IInv, TypeOK, IsOnlineMap, OnlineInfo, OpponentsAreMatched
  <2>7. ResponseIsMatched'
      BY <1>2, <2>2, <2>5 DEF IInv, TypeOK, ResponseIsMatched
  <2>8. HitsFollowPairing'
      BY <1>2, <2>2, HitsStay
  <2>9. QED
      BY <2>3, <2>4, <2>6, <2>7, <2>8
<1>5. QED
    BY <1>3, <1>4

\* A request of the connection that is open on fd.
LEMMA HandleKeepsPlayers ==
    ASSUME PlayersInv, NEW fd \in Fds, NEW q \in Batches \ {<<>>},
           sock[fd] \in Conns, Handle(fd, sock[fd], q),
           UNCHANGED <<tenants, hits>>
    PROVE  PlayersSound'
<1> USE DEF PlayersInv, PlayersSound
<1> DEFINE c == sock[fd]
           name == Body(q)
<1>1. name \in Names /\ c \in tenants[fd] /\ c # NoConn
    BY NamesAssumption, NoConnAssumption DEF OpenAreTenants
<1>2. IsOnlineMap(online) /\ NoFd \notin Fds
    BY FdsAssumption DEF IInv, TypeOK, NoFd
<1>3. UNCHANGED sock
    BY DEF Handle
<1> HIDE DEF name, c
<1>4. CASE HandleReg(fd, c, name)
  <2>1. /\ online' = RegMap(online, fd, name)
        /\ regby' = [regby EXCEPT ![fd] = [conn |-> c, name |-> name]]
        /\ UNCHANGED <<resp, paired>>
      BY <1>4 DEF HandleReg
  <2>2. /\ IsOnlineMap(online') /\ DOMAIN online' = DOMAIN online \cup {fd}
        /\ online'[fd].name = name
        /\ online'[fd].stat \in
              {ONLINE_STAT_ON} \cup {online[f].stat : f \in DOMAIN online \cap {fd}}
        /\ \A f \in DOMAIN online \ {fd} : online'[f] = online[f]
        /\ \A f \in DOMAIN online : online'[f].vsfd = online[f].vsfd
        /\ fd \notin DOMAIN online => online'[fd].vsfd = NoFd
    <3>1. IsOnlineMap(online') /\ DOMAIN online' = DOMAIN online \cup {fd}
        BY <1>1, <1>2, <2>1, Lemmas!RegMapType, SameOperators, FdsAssumption
    <3>2. /\ online'[fd].name = name
          /\ online'[fd].stat \in
                {ONLINE_STAT_ON} \cup {online[f].stat : f \in DOMAIN online \cap {fd}}
          /\ \A f \in DOMAIN online \ {fd} : online'[f] = online[f]
        BY <1>1, <1>2, <2>1, Lemmas!RegMapEntries, SameOperators, FdsAssumption
    <3>3. /\ \A f \in DOMAIN online : online'[f].vsfd = online[f].vsfd
          /\ fd \notin DOMAIN online => online'[fd].vsfd = NoFd
        BY <1>1, <1>2, <2>1, Lemmas!RegMapOpponents, SameOperators, FdsAssumption
    <3>4. QED
        BY <3>1, <3>2, <3>3
  <2>3. EntriesAreRegistered'
    <3>1. online'[fd].stat = ONLINE_STAT_ON
        BY <2>2 DEF EntriesAreRegistered
    <3>2. /\ regby'[fd].conn = c /\ regby'[fd].name = name
          /\ \A f \in Fds \ {fd} : regby'[f] = regby[f]
        BY <2>1 DEF IInv, TypeOK
    <3>3. QED
        BY <1>1, <2>2, <3>1, <3>2 DEF EntriesAreRegistered
  <2>4. OpponentsAreMatched'
    <3>1. ASSUME NEW f \in DOMAIN online', NEW g \in Fds, online'[f].vsfd = g
          PROVE  Matched(f, g)
        BY <1>2, <2>2, <3>1 DEF OpponentsAreMatched
    <3>2. QED
        BY <2>1, <3>1 DEF OpponentsAreMatched, Matched
  <2>5. OpenAreTenants' /\ ResponseIsMatched'
      BY <1>3, <2>1 DEF OpenAreTenants, ResponseIsMatched, Matched
  <2>6. QED
      BY <2>1, <2>3, <2>4, <2>5, HitsStay
<1>5. CASE HandleVs(fd, c, name)
  <2>1. CASE fd \in DOMAIN online /\ NamedIn(online, name) # {}
    <3>1. PICK enemy \in LastOf(NamedIn(online, name)) :
              online' = VsMap(online, fd, name, enemy)
        BY <1>5, <2>1 DEF HandleVs
    <3>2. /\ paired' = paired \cup {{c, regby[e].conn} : e \in NamedIn(online, name)}
          /\ UNCHANGED <<resp, regby>>
        BY <1>5, <2>1 DEF HandleVs
    <3>3. enemy \in NamedIn(online, name) /\ fd \in DOMAIN online
        BY <2>1 DEF LastOf
    <3>4. /\ DOMAIN online' = DOMAIN online
          /\ online'[fd].vsfd = enemy
          /\ \A f \in DOMAIN online \ {fd} :
                online'[f].vsfd = IF online[f].name = name THEN fd ELSE online[f].vsfd
          /\ \A f \in DOMAIN online :
                online'[f].name = online[f].name /\ online'[f].stat = online[f].stat
        BY <1>1, <1>2, <3>1, <3>3, Lemmas!VsMapEntries, Lemmas!VsMapStats, SameOperators, FdsAssumption
    <3>5. EntriesAreRegistered'
        BY <3>2, <3>4 DEF EntriesAreRegistered
    <3>6. ASSUME NEW e \in NamedIn(online, name)
          PROVE  Matched(fd, e)' /\ Matched(e, fd)'
      <4>1. e \in Fds /\ e \in DOMAIN online
          BY <1>2 DEF NamedIn, IsOnlineMap
      <4>2. regby[e].conn \in tenants[e]
          BY <4>1 DEF EntriesAreRegistered
      <4>3. {c, regby[e].conn} \in paired' /\ {regby[e].conn, c} \in paired'
          BY <3>2
      <4>4. QED
          BY <1>1, <4>2, <4>3 DEF Matched
    <3>7. \A f, g \in Fds : Matched(f, g) => Matched(f, g)'
        BY <3>2 DEF Matched
    <3>8. OpponentsAreMatched'
      <4>1. ASSUME NEW f \in DOMAIN online, NEW g \in Fds, online'[f].vsfd = g
            PROVE  Matched(f, g)'
        <5>1. CASE f = fd
            BY <3>3, <3>4, <3>6, <4>1, <5>1
        <5>2. CASE f # fd /\ online[f].name = name
          <6>1. f \in NamedIn(online, name)
              BY <5>2 DEF NamedIn
          <6>2. g = fd
              BY <3>4, <4>1, <5>2
          <6>3. QED
              BY <3>6, <6>1, <6>2
        <5>3. CASE f # fd /\ online[f].name # name
          <6>1. online[f].vsfd = g /\ f \in Fds
              BY <1>2, <3>4, <4>1, <5>3 DEF IsOnlineMap
          <6>2. Matched(f, g)
              BY <6>1 DEF OpponentsAreMatched
          <6>3. QED
              BY <3>7, <6>1, <6>2
        <5>4. QED
            BY <5>1, <5>2, <5>3
      <4>2. QED
          BY <3>4, <4>1 DEF OpponentsAreMatched
    <3>9. ResponseIsMatched'
        BY <3>2, <3>7 DEF IInv, TypeOK, ResponseIsMatched
    <3>10. HitsFollowPairing'
        BY <3>2, HitsStay
    <3>11. QED
        BY <1>3, <3>5, <3>8, <3>9, <3>10 DEF OpenAreTenants
  <2>2. CASE ~(fd \in DOMAIN online /\ NamedIn(online, name) # {})
    <3>1. UNCHANGED <<online, regby, paired, resp>>
        BY <1>5, <2>2 DEF HandleVs
    <3>2. QED
        BY <1>3, <3>1, PlayersStay
  <2>3. QED
      BY <2>1, <2>2
<1>6. ASSUME NEW to, NEW from, Respond(to, from),
             from # NoConn => from = c /\ to = GetVsFD(online, fd)
      PROVE  PlayersSound'
  <2>1. UNCHANGED <<online, regby, paired>> /\ resp'.to = to /\ resp'.from = from
      BY <1>6 DEF Respond
  <2>2. ResponseIsMatched'
    <3>1. ASSUME from # NoConn, to \in Fds
          PROVE  from \in tenants[fd] /\ Matched(fd, to)
      <4>1. fd \in DOMAIN online /\ to = online[fd].vsfd
          BY <1>2, <1>6, <3>1 DEF GetVsFD
      <4>2. QED
          BY <1>1, <1>6, <3>1, <4>1 DEF OpponentsAreMatched
    <3>2. QED
        BY <2>1, <3>1 DEF ResponseIsMatched, Matched
  <2>3. OpenAreTenants' /\ EntriesAreRegistered'
      BY <1>3, <2>1 DEF OpenAreTenants, EntriesAreRegistered
  <2>4. OpponentsAreMatched'
      BY <2>1 DEF OpponentsAreMatched, Matched
  <2>5. QED
      BY <2>1, <2>2, <2>3, <2>4, HitsStay
<1>7. CASE HandleOther
    BY <1>3, <1>7, PlayersStay DEF HandleOther
<1>8. QED
    BY <1>4, <1>5, <1>6, <1>7 DEF Handle, HandleOnlineInfo, HandleHit, c, name

LEMMA ReadKeepsPlayers == PlayersInv /\ Read => PlayersSound'
<1> SUFFICES ASSUME PlayersInv, Read PROVE PlayersSound'
    OBVIOUS
<1>1. PICK s \in FirstOf(ToRead) :
          \/ /\ inbox[sock[client[s]]] # <<>>
             /\ Handle(client[s], sock[client[s]], inbox[sock[client[s]]])
          \/ Hangup(s, sock[client[s]])
    BY DEF Read
<1>2. s \in Slots /\ client[s] \in Fds /\ sock[client[s]] \in Conns
    BY <1>1, ToReadSlot DEF PlayersInv
<1>3. UNCHANGED <<tenants, hits>>
    BY DEF Read
<1>4. CASE inbox[sock[client[s]]] # <<>>
           /\ Handle(client[s], sock[client[s]], inbox[sock[client[s]]])
  <2>1. inbox[sock[client[s]]] \in Batches \ {<<>>}
      BY <1>2, <1>4 DEF PlayersInv, IInv, TypeOK
  <2>2. QED
      BY <1>2, <1>3, <1>4, <2>1, HandleKeepsPlayers
<1>5. CASE Hangup(s, sock[client[s]])
  <2>1. /\ UNCHANGED <<online, regby, paired, resp>>
        /\ \A f \in Fds : sock'[f] # NoConn => sock'[f] = sock[f]
      BY <1>2, <1>5 DEF Hangup, PlayersInv, IInv, TypeOK
  <2>2. QED
      BY <1>3, <2>1, PlayersStay
<1>6. QED
    BY <1>1, <1>4, <1>5

\* A hit reaches who has the descriptor it was answered to.
LEMMA SendKeepsPlayers == PlayersInv /\ Send => PlayersSound'
<1> SUFFICES ASSUME PlayersInv, Send PROVE PlayersSound'
    OBVIOUS
<1> USE DEF PlayersInv, PlayersSound
<1>1. UNCHANGED <<online, regby, paired, tenants, sock>> /\ resp' = NoResponse
    BY DEF Send
<1>2. HitsFollowPairing'
  <2>1. CASE hits' = hits
      BY <1>1, <2>1, HitsStay
  <2>2. CASE hits' # hits
    <3>1. /\ resp.from # NoConn /\ unread' # unread
          /\ hits' = hits \cup {<<resp.from, sock[resp.to]>>}
        BY <2>2 DEF Send
    <3>2. PICK g \in Fds, b \in Conns : g = resp.to /\ b = sock[g]
      <4>1. resp.to \in Fds /\ sock[resp.to] # NoConn
          BY <3>1 DEF Send, SendTo, IInv, TypeOK
      <4>2. QED
          BY <4>1 DEF IInv, TypeOK
    <3>3. PICK a : a = resp.from
        OBVIOUS
    <3>4. a # NoConn /\ hits' = hits \cup {<<a, b>>}
        BY <3>1, <3>2, <3>3
    <3>5. b \in tenants[g]
        BY <3>2, NoConnAssumption DEF OpenAreTenants
    <3>6. PICK f \in Fds : a \in tenants[f] /\ Matched(f, g)
        BY <3>2, <3>3, <3>4 DEF ResponseIsMatched
    <3>7. PICK c \in tenants[f], d \in tenants[g] : {c, d} \in paired
        BY <3>6 DEF Matched
    <3>8. c \in Conns /\ d \in Conns /\ Share(a, c) /\ Share(b, d)
        BY <3>2, <3>5, <3>6, <3>7 DEF IInv, TypeOK, Share
    <3>9. ASSUME NEW h \in hits \cup {<<a, b>>}
          PROVE  \E x, y \in Conns : {x, y} \in paired /\ Share(h[1], x) /\ Share(h[2], y)
      <4>1. CASE h \in hits
          BY <4>1 DEF HitsFollowPairing
      <4>2. CASE h = <<a, b>>
          BY <3>7, <3>8, <4>2
      <4>3. QED
          BY <4>1, <4>2
    <3>10. \A x, y : Share(x, y) <=> Share(x, y)'
        BY <1>1 DEF Share
    <3>11. QED
        BY <1>1, <3>4, <3>9, <3>10 DEF HitsFollowPairing
  <2>3. QED
      BY <2>1, <2>2
<1>3. ResponseIsMatched'
    BY <1>1 DEF NoResponse, ResponseIsMatched
<1>4. QED
    BY <1>1, <1>2, <1>3, ZenonT(60) DEF OpenAreTenants, EntriesAreRegistered, OpponentsAreMatched, Matched

LEMMA PlayersInvariant == Spec => []PlayersInv
<1>1. Init => PlayersSound
    BY NoConnAssumption
    DEF Init, PlayersSound, OpenAreTenants, EntriesAreRegistered, OpponentsAreMatched,
        ResponseIsMatched, NoResponse, HitsFollowPairing, EmptyMap
<1>2. PlayersInv /\ [Next]_vars => PlayersSound'
  <2> SUFFICES ASSUME PlayersInv, [Next]_vars PROVE PlayersSound'
      OBVIOUS
  <2>1. CASE Poll \/ Welcome \/ EndScan \/ UNCHANGED vars
             \/ \E c \in Conns : Client(c) \/ Network(c)
    <3>1. UNCHANGED <<online, regby, paired, tenants, resp, hits, sock>>
        BY <2>1 DEF Poll, Welcome, EndScan, vars, Client, Network, Connect, SendRequest, Receive,
                    Close, Abort, Vanish, ResetArrives, Timeout, PeerChange,
                    procVars, netVars, histVars
    <3>2. QED
        BY <3>1, PlayersStay
  <2>2. CASE Accept \/ Read \/ Send
      BY <2>2, AcceptKeepsPlayers, ReadKeepsPlayers, SendKeepsPlayers
  <2>3. QED
      BY <2>1, <2>2 DEF Next, Server
<1>3. QED
    BY <1>1, <1>2, Sound, PTL DEF Spec, PlayersInv

\* Whoever has registered on the connection that is open on a descriptor is on
\* the list under that name, whatever an earlier owner of the descriptor has
\* left there (main.cpp:185-189, and a disconnect that clears nothing, :147-164).
THEOREM RegistrationsHold == Spec => []RegistrationHolds
<1>1. PlayersInv => RegistrationHolds
    BY DEF PlayersInv, PlayersSound, EntriesAreRegistered, RegistrationHolds
<1>2. QED
    BY <1>1, PlayersInvariant, PTL

\* A hit only reaches a connection that has, or has had, a descriptor in
\* common with one that vs has put together with the hitter or with an
\* earlier owner of its descriptor (main.cpp:200-215).
THEOREM HitsAlwaysFollowPairing == Spec => []HitsFollowPairing
<1>1. PlayersInv => HitsFollowPairing
    BY DEF PlayersInv, PlayersSound
<1>2. QED
    BY <1>1, PlayersInvariant, PTL

=============================================================================
