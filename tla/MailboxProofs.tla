--------------------------- MODULE MailboxProofs ---------------------------
(***************************************************************************)
(* What the mailbox does as long as its processes keep out of each other's  *)
(* way, for every number of clients, requests and characters.               *)
(***************************************************************************)
EXTENDS Mailbox, TLAPS

-----------------------------------------------------------------------------
(* The slot.                                                                *)

\* The text of a request.
IsWord(w) ==
    /\ w \in Seq(STRING) /\ w # <<>> /\ Len(w) < SlotSize
    /\ \A i \in 1..Len(w) : w[i] # NUL

\* A slot that holds the first n characters of w and nothing else.
Filled(w, n) == [i \in 1..SlotSize |-> IF i <= n THEN w[i] ELSE NUL]

\* The text of a slot that holds all of w is w.
LEMMA TextOfFilled ==
    ASSUME NEW w, w = <<>> \/ IsWord(w)
    PROVE  Text(Filled(w, Len(w))) = w
<1> DEFINE n == Len(w)  cells == Filled(w, n)  zeros == {i \in DOMAIN cells : cells[i] = NUL}
<1>1. SlotSize \in Nat \ {0}
    BY MailboxAssumption
<1>2. w \in Seq(STRING) /\ n \in Nat /\ n < SlotSize /\ \A i \in 1..n : w[i] # NUL
  <2>1. CASE w = <<>>
    <3>1. w \in Seq(STRING) /\ Len(w) = 0
        BY <2>1
    <3>2. QED
        BY <1>1, <3>1
  <2>2. CASE IsWord(w)
      BY <2>2 DEF IsWord
  <2>3. QED
      BY <2>1, <2>2
<1> HIDE DEF n
<1>3. /\ DOMAIN cells = 1..SlotSize
      /\ \A i \in 1..SlotSize : cells[i] = IF i <= n THEN w[i] ELSE NUL
    BY DEF Filled
<1>4. n + 1 \in zeros /\ \A i \in zeros : n + 1 <= i
    BY <1>1, <1>2, <1>3
<1> HIDE DEF zeros, cells
<1>5. Min(zeros) = n + 1
  <2>1. \A i \in zeros : i \in Int
      BY <1>1, <1>3 DEF zeros
  <2>2. QED
      BY <1>2, <1>4, <2>1 DEF Min
<1>6. Text(cells) = SubSeq(cells, 1, n)
  <2>1. zeros # {} /\ Min(zeros) - 1 = n
      BY <1>2, <1>4, <1>5
  <2>2. QED
      BY <2>1 DEF Text, zeros
<1>7. cells \in Seq(STRING \cup {NUL}) /\ Len(cells) = SlotSize
  <2>1. \A i \in 1..SlotSize : i <= n => i \in 1..n /\ w[i] \in STRING
    <3>1. \A i \in 1..n : w[i] \in STRING
        BY <1>2 DEF n
    <3>2. QED
        BY <1>1, <1>2, <3>1
  <2>2. \A i \in 1..SlotSize : cells[i] \in STRING \cup {NUL}
      BY <1>2, <1>3, <2>1
  <2>3. cells \in [1..SlotSize -> STRING \cup {NUL}]
      BY <2>2 DEF cells, Filled
  <2>4. QED
      BY <1>1, <2>3
<1> DEFINE u == SubSeq(cells, 1, n)
<1>8. /\ u \in Seq(STRING \cup {NUL}) /\ Len(u) = n
      /\ \A i \in 1..n : u[i] = cells[i]
    BY <1>1, <1>2, <1>7
<1> HIDE DEF u
<1>9. \A i \in 1..n : u[i] = w[i]
    BY <1>1, <1>2, <1>3, <1>8
<1>10. u = w
    BY <1>2, <1>8, <1>9 DEF n
<1>11. QED
    BY <1>6, <1>10 DEF cells, n, u

-----------------------------------------------------------------------------
(* The inductive invariant.                                                 *)

\* A connection that has neither a receiver nor a sender yet.
Unserved(rs, ss, c) == rs[c] = Nobody /\ ss[c] = Nobody

\* A connection is not opened, or waits once, or is the parent's, before it
\* is served.
Waits ==
    /\ DOMAIN peer = Conns /\ DOMAIN receiver = Conns /\ DOMAIN sender = Conns
    /\ backlog \in Seq(Conns)
    /\ \A i, j \in 1..Len(backlog) : backlog[i] = backlog[j] => i = j
    /\ \A i \in 1..Len(backlog) : peer[backlog[i]] # "new" /\ Unserved(receiver, sender, backlog[i])
    /\ \A c \in Conns : peer[c] = "new" => Unserved(receiver, sender, c)
    /\ parent # "accept" =>
          /\ parent \in Conns /\ peer[parent] # "new" /\ Unserved(receiver, sender, parent)
          /\ \A i \in 1..Len(backlog) : backlog[i] # parent

\* What is on its way to the slot is a request, and a sender that looks has
\* cleared what it copied last.
Types ==
    /\ sent \in [Conns -> Nat] /\ DOMAIN inbox = Conns
    /\ \A c \in Conns : inbox[c] # <<>> => IsWord(inbox[c][1])
    /\ \A c \in Conns : receiver[c].pc \in {"clear", "write"} => IsWord(receiver[c].buf)
    /\ \A c \in Conns : receiver[c].pc = "write" => DOMAIN receiver[c] = {"pc", "buf", "at"}
    /\ \A c \in Conns : sender[c].pc = "look" => sender[c].temp = <<>>
    /\ \A c \in Conns : sender[c].pc \in {"copy", "wipe"} => DOMAIN sender[c] = {"pc", "temp"}

\* What the slot holds for a sender: nothing while it is being written.
InSlot == IF Writing = {} THEN Text(slot) ELSE <<>>

\* The list l when a sender in the state s, which has taken a request, is done.
WorkDone(s, l) ==
    CASE s.pc = "parse"  -> Registered(l, s.temp)
      [] s.pc = "scan"   -> IF s.name \in ToSet(Strtok(l, "|")) THEN Cut(l)
                            ELSE Cut(l) \o s.name \o <<"|">>
      [] s.pc = "append" -> l \o s.name \o <<"|">>
      [] OTHER -> l

Begins(t, w) == t \in Seq(STRING) /\ Len(t) <= Len(w) /\ \A i \in 1..Len(t) : t[i] = w[i]

\* A request is in the slot while nobody takes it, and no more than that one
\* process writes there and one sender is at work.
Sequential ==
    /\ \A c, d \in Writing : c = d
    /\ \A c, d \in Busy : c = d
    /\ \A c \in Writing : /\ Taking = {} /\ pending = <<>>
                          /\ receiver[c].at \in 1..Len(receiver[c].buf)
                          /\ slot = Filled(receiver[c].buf, receiver[c].at - 1)
    /\ Writing = {} => /\ slot = Filled(InSlot, Len(InSlot))
                       /\ InSlot = <<>> \/ IsWord(InSlot)
                       /\ Taking = {} => pending = InSlot
    /\ \A b \in Taking : /\ InSlot # <<>> /\ Begins(sender[b].temp, InSlot)
                         /\ sender[b].pc = "wipe" => sender[b].temp = InSlot
                         /\ pending = <<>> /\ due = Registered(list, InSlot)
    /\ Busy = {} => due = list
    /\ \A b \in Busy \ Taking : due = WorkDone(sender[b], list)

IInv == Waits /\ Types /\ (~raced => Sequential)

\* A word that begins another, and is as long, is that word.
LEMMA BeginsAll ==
    ASSUME NEW w, IsWord(w), NEW t, Begins(t, w), Len(t) = Len(w)
    PROVE  t = w
<1>1. t \in Seq(STRING) /\ w \in Seq(STRING) /\ \A i \in 1..Len(w) : t[i] = w[i]
    BY DEF Begins, IsWord
<1>2. QED
    BY <1>1

\* One character more.
LEMMA BeginsMore ==
    ASSUME NEW w, IsWord(w), NEW t, Begins(t, w), Len(t) # Len(w)
    PROVE  Begins(Append(t, w[Len(t) + 1]), w) /\ Len(t) + 1 \in 1..Len(w)
<1> DEFINE n == Len(t)  a == w[n + 1]  u == Append(t, a)
<1>1. t \in Seq(STRING) /\ n \in Nat /\ Len(w) \in Nat /\ n <= Len(w) /\ n # Len(w)
      /\ w \in Seq(STRING)
    BY DEF Begins, IsWord
<1>2. n + 1 \in 1..Len(w)
    BY <1>1
<1>3. a \in STRING
    BY <1>1, <1>2
<1> HIDE DEF a
<1>4. /\ u \in Seq(STRING) /\ Len(u) = n + 1 /\ u[n + 1] = a
      /\ \A i \in 1..n : u[i] = t[i]
  <2>1. PICK T : T = STRING
      OBVIOUS
  <2>2. t \in Seq(T) /\ a \in T /\ n = Len(t)
      BY <1>1, <1>3, <2>1
  <2> HIDE DEF n
  <2>3. /\ Append(t, a) \in Seq(T) /\ Len(Append(t, a)) = Len(t) + 1
        /\ Append(t, a)[Len(t) + 1] = a
        /\ \A i \in 1..Len(t) : Append(t, a)[i] = t[i]
      BY <2>2
  <2>4. QED
      BY <2>1, <2>2, <2>3
<1>5. \A i \in 1..n : t[i] = w[i]
    BY DEF Begins
<1>6. \A i \in 1..(n + 1) : i \in 1..n \/ i = n + 1
    BY <1>1
<1> HIDE DEF n, u
<1>7. \A i \in 1..Len(u) : u[i] = w[i]
    BY <1>4, <1>5, <1>6 DEF a
<1>8. Len(u) <= Len(w)
    BY <1>1, <1>2, <1>4
<1>9. QED
    BY <1>2, <1>4, <1>7, <1>8 DEF Begins, u, n, a

\* At the beginning the slot is empty and nobody is served.
LEMMA InitIInv == Init => IInv
<1> SUFFICES ASSUME Init PROVE IInv
    OBVIOUS
<1>1. /\ Writing = {} /\ Busy = {} /\ Taking = {}
      /\ \A c \in Conns : Unserved(receiver, sender, c) /\ receiver[c].pc = "none" /\ sender[c].pc = "none"
    BY DEF Init, Writing, Busy, Taking, Unserved, Nobody
<1>2. <<>> \in Seq(Conns) /\ Len(<<>>) = 0
    OBVIOUS
<1>3. slot = Filled(<<>>, Len(<<>>))
  <2>1. \A i \in 1..SlotSize : ~(i <= 0)
      BY MailboxAssumption
  <2>2. QED
      BY <1>2, <2>1 DEF Init, Cleared, Filled
<1>4. InSlot = <<>>
    BY <1>1, <1>3, TextOfFilled DEF InSlot
<1>5. Sequential
    BY <1>1, <1>3, <1>4 DEF Sequential, Init
<1>6. Waits
    BY <1>1, <1>2 DEF Waits, Init
<1>7. Types
    BY <1>1 DEF Types, Init
<1>8. QED
    BY <1>5, <1>6, <1>7 DEF IInv

-----------------------------------------------------------------------------
(* Connections wait once.                                                   *)

\* Steps that move no connection.
LEMMA WaitsStay ==
    ASSUME Waits, UNCHANGED <<parent, backlog>>,
           DOMAIN peer' = Conns, DOMAIN receiver' = Conns, DOMAIN sender' = Conns,
           \A d \in Conns : peer'[d] = "new" <=> peer[d] = "new",
           \A d \in Conns : Unserved(receiver, sender, d) => receiver'[d] = receiver[d] /\ sender'[d] = sender[d]
    PROVE  Waits'
<1>1. \A i \in 1..Len(backlog) : backlog[i] \in Conns
    BY DEF Waits
<1>2. \A d \in Conns : Unserved(receiver, sender, d) => Unserved(receiver', sender', d)
    BY DEF Unserved
<1>3. QED
    BY <1>1, <1>2 DEF Waits

\* A process that is at work is not one that is not there yet.
LEMMA AtWork ==
    ASSUME NEW c
    PROVE  /\ receiver[c].pc # "none" => ~Unserved(receiver, sender, c)
           /\ sender[c].pc # "none" => ~Unserved(receiver, sender, c)
BY DEF Unserved, Nobody

\* Connecting, accepting and forking move a connection forward only.
LEMMA WaitsNext == Waits /\ [Next]_vars => Waits'
<1> SUFFICES ASSUME Waits, [Next]_vars PROVE Waits'
    OBVIOUS
<1>1. /\ backlog \in Seq(Conns) /\ Len(backlog) \in Nat
      /\ \A i \in 1..Len(backlog) : backlog[i] \in Conns
    BY DEF Waits
<1>2. CASE \E c \in Conns : Connect(c)
  <2>1. PICK c \in Conns : Connect(c)
      BY <1>2
  <2>2. /\ backlog' \in Seq(Conns) /\ Len(backlog') = Len(backlog) + 1
        /\ backlog'[Len(backlog) + 1] = c
        /\ \A j \in 1..Len(backlog) : backlog'[j] = backlog[j]
      BY <1>1, <2>1 DEF Connect
  <2>3. \A j \in 1..Len(backlog') : j \in 1..Len(backlog) \/ j = Len(backlog) + 1
      BY <1>1, <2>2
  <2>4. /\ peer[c] = "new" /\ Unserved(receiver, sender, c) /\ UNCHANGED <<parent, receiver, sender>>
        /\ DOMAIN peer' = Conns /\ \A d \in Conns : peer'[d] = "new" <=> d # c /\ peer[d] = "new"
      BY <2>1 DEF Connect, Waits
  <2>5. \A j \in 1..Len(backlog) : backlog[j] # c
      BY <2>4 DEF Waits
  <2>6. \A i, j \in 1..Len(backlog') : backlog'[i] = backlog'[j] => i = j
      BY <2>2, <2>3, <2>5 DEF Waits
  <2>7. \A d \in Conns : Unserved(receiver', sender', d) <=> Unserved(receiver, sender, d)
      BY <2>4 DEF Unserved
  <2>8. \A i \in 1..Len(backlog') : peer'[backlog'[i]] # "new" /\ Unserved(receiver', sender', backlog'[i])
      BY <1>1, <2>2, <2>3, <2>4, <2>7 DEF Waits
  <2>9. \A d \in Conns : peer'[d] = "new" => Unserved(receiver', sender', d)
      BY <2>4, <2>7 DEF Waits
  <2>10. parent' # "accept" =>
            /\ parent' \in Conns /\ peer'[parent'] # "new" /\ Unserved(receiver', sender', parent')
            /\ \A i \in 1..Len(backlog') : backlog'[i] # parent'
    <3> SUFFICES ASSUME parent # "accept"
                 PROVE  /\ parent \in Conns /\ peer'[parent] # "new" /\ Unserved(receiver', sender', parent)
                        /\ \A i \in 1..Len(backlog') : backlog'[i] # parent
        BY <2>4
    <3>1. /\ parent \in Conns /\ peer[parent] # "new" /\ Unserved(receiver, sender, parent) /\ parent # c
          /\ \A i \in 1..Len(backlog) : backlog[i] # parent
        BY <2>4 DEF Waits
    <3>2. QED
        BY <2>2, <2>3, <2>4, <2>7, <3>1
  <2>11. DOMAIN receiver' = Conns /\ DOMAIN sender' = Conns
      BY <2>4 DEF Waits
  <2>12. QED
      BY <2>2, <2>4, <2>6, <2>8, <2>9, <2>10, <2>11 DEF Waits
<1>3. CASE Accept
  <2> DEFINE c == Head(backlog)
  <2>1. /\ backlog # <<>> /\ parent' = c /\ backlog' = Tail(backlog)
        /\ UNCHANGED <<peer, receiver, sender>>
      BY <1>3 DEF Accept
  <2>2. /\ Len(backlog) \in Nat \ {0} /\ c = backlog[1] /\ 1 \in 1..Len(backlog)
        /\ backlog' \in Seq(Conns) /\ Len(backlog') = Len(backlog) - 1
        /\ \A j \in 1..Len(backlog') : backlog'[j] = backlog[j + 1]
      BY <1>1, <2>1
  <2> HIDE DEF c
  <2>3. \A j \in 1..Len(backlog') : j + 1 \in 1..Len(backlog) /\ j + 1 # 1
      BY <2>2
  <2>4. c \in Conns /\ peer[c] # "new" /\ Unserved(receiver, sender, c)
      BY <1>1, <2>2 DEF Waits
  <2>5. \A j \in 1..Len(backlog') : backlog'[j] # c
      BY <2>2, <2>3 DEF Waits
  <2>6. \A i, j \in 1..Len(backlog') : backlog'[i] = backlog'[j] => i = j
    <3>1. TAKE i, j \in 1..Len(backlog')
    <3>2. HAVE backlog'[i] = backlog'[j]
    <3>3. backlog[i + 1] = backlog[j + 1]
        BY <2>2, <3>2
    <3>4. i + 1 = j + 1
        BY <2>3, <3>3 DEF Waits
    <3>5. QED
        BY <2>2, <3>4
  <2>7. \A d \in Conns : Unserved(receiver', sender', d) <=> Unserved(receiver, sender, d)
      BY <2>1 DEF Unserved
  <2>8. \A i \in 1..Len(backlog') : peer'[backlog'[i]] # "new" /\ Unserved(receiver', sender', backlog'[i])
      BY <1>1, <2>1, <2>2, <2>3, <2>7 DEF Waits
  <2>9. Unserved(receiver', sender', parent')
      BY <2>1, <2>4 DEF Unserved
  <2>10. /\ DOMAIN peer' = Conns /\ DOMAIN receiver' = Conns /\ DOMAIN sender' = Conns
         /\ \A d \in Conns : peer'[d] = "new" => Unserved(receiver', sender', d)
      BY <2>1, <2>7 DEF Waits
  <2>11. QED
      BY <2>1, <2>2, <2>4, <2>5, <2>6, <2>8, <2>9, <2>10 DEF Waits
<1>4. CASE Fork
  <2>1. /\ parent # "accept" /\ parent' = "accept" /\ UNCHANGED <<backlog, peer>>
        /\ DOMAIN receiver' = Conns /\ DOMAIN sender' = Conns
        /\ \A d \in Conns \ {parent} : receiver'[d] = receiver[d] /\ sender'[d] = sender[d]
      BY <1>4 DEF Fork, Waits
  <2>2. \A d \in Conns \ {parent} : Unserved(receiver, sender, d) => Unserved(receiver', sender', d)
      BY <2>1 DEF Unserved
  <2>3. peer[parent] # "new" /\ \A i \in 1..Len(backlog) : backlog[i] # parent
      BY <2>1 DEF Waits
  <2>4. QED
      BY <1>1, <2>1, <2>2, <2>3 DEF Waits
<1>5. CASE \E c \in Conns : SendRequest(c) \/ Leave(c)
  <2>1. /\ UNCHANGED <<parent, backlog, receiver, sender>> /\ DOMAIN peer' = Conns
        /\ \A d \in Conns : peer'[d] = "new" <=> peer[d] = "new"
      BY <1>5 DEF SendRequest, Leave, Waits
  <2>2. DOMAIN receiver' = Conns /\ DOMAIN sender' = Conns
      BY <2>1 DEF Waits
  <2>3. QED
      BY <2>1, <2>2, WaitsStay
<1>6. ASSUME NEW c \in Conns, Receiver(c) PROVE Waits'
  <2>1. /\ receiver[c].pc # "none" /\ UNCHANGED <<parent, backlog, peer, sender>>
        /\ DOMAIN receiver' = Conns /\ \A d \in Conns \ {c} : receiver'[d] = receiver[d]
    <3>1. DOMAIN receiver = Conns
        BY DEF Waits
    <3>2. CASE Recv(c)
        BY <3>1, <3>2 DEF Recv
    <3>3. CASE ClearSlot(c)
        BY <3>1, <3>3 DEF ClearSlot, netVars, histVars
    <3>4. CASE WriteSlot(c)
        BY <3>1, <3>4 DEF WriteSlot, netVars, histVars
    <3>5. QED
        BY <1>6, <3>2, <3>3, <3>4 DEF Receiver
  <2>2. DOMAIN peer' = Conns /\ DOMAIN sender' = Conns
      BY <2>1 DEF Waits
  <2>3. ~Unserved(receiver, sender, c)
      BY <2>1, AtWork
  <2>4. QED
      BY <2>1, <2>2, <2>3, WaitsStay
<1>7. ASSUME NEW c \in Conns, Sender(c) PROVE Waits'
  <2>1. /\ sender[c].pc # "none" /\ UNCHANGED <<parent, backlog, peer, receiver>>
        /\ DOMAIN sender' = Conns /\ \A d \in Conns \ {c} : sender'[d] = sender[d]
    <3>1. DOMAIN sender = Conns
        BY DEF Waits
    <3>2. CASE Look(c)
        BY <3>1, <3>2 DEF Look, netVars, histVars
    <3>3. CASE Copy(c)
        BY <3>1, <3>3 DEF Copy, netVars, histVars
    <3>4. CASE Wipe(c) \/ Parse(c) \/ Scan(c) \/ AppendName(c)
        BY <3>1, <3>4 DEF Wipe, Parse, Scan, AppendName, netVars, histVars
    <3>5. QED
        BY <1>7, <3>2, <3>3, <3>4 DEF Sender
  <2>2. DOMAIN peer' = Conns /\ DOMAIN receiver' = Conns
      BY <2>1 DEF Waits
  <2>3. ~Unserved(receiver, sender, c)
      BY <2>1, AtWork
  <2>4. QED
      BY <2>1, <2>2, <2>3, WaitsStay
<1>8. CASE UNCHANGED vars
    BY <1>8 DEF Waits, Unserved, vars, netVars, histVars
<1>9. QED
    BY <1>2, <1>3, <1>4, <1>5, <1>6, <1>7, <1>8 DEF Next, Client, Parent

-----------------------------------------------------------------------------
(* One process at a time.                                                   *)

\* A receiver's or a sender's step, as it changes the processes.
LEMMA OneMoves ==
    ASSUME NEW f, NEW f2, DOMAIN f = Conns, NEW c \in Conns, NEW new, f2 = [f EXCEPT ![c] = new]
    PROVE  DOMAIN f2 = Conns /\ f2[c] = new /\ \A d \in Conns \ {c} : f2[d] = f[d]
OBVIOUS

\* Types of what the clients and the parent do.
LEMMA OthersKeepTypes ==
    ASSUME Waits, Types,
           \/ \E c \in Conns : Client(c)
           \/ Parent
           \/ UNCHANGED vars
    PROVE  Types'
<1>1. CASE \E c \in Conns : SendRequest(c)
  <2>1. PICK c \in Conns : SendRequest(c)
      BY <1>1
  <2> DEFINE w == Words[c][sent[c] + 1]
  <2>2. sent[c] \in Nat /\ sent[c] < Len(Words[c]) /\ Words[c] \in Seq(Seq(STRING) \ {<<>>})
      BY <2>1, MailboxAssumption DEF SendRequest, Types
  <2>3. sent[c] + 1 \in 1..Len(Words[c])
      BY <2>2
  <2>4. w \in Seq(STRING) \ {<<>>}
      BY <2>2, <2>3
  <2>5. Len(w) < SlotSize /\ NUL \notin ToSet(w)
      BY <2>3, MailboxAssumption
  <2> HIDE DEF w
  <2>6. \A i \in 1..Len(w) : w[i] \in ToSet(w)
      BY <2>4 DEF ToSet
  <2>7. IsWord(w)
      BY <2>4, <2>5, <2>6 DEF IsWord
  <2>8. inbox' = [inbox EXCEPT ![c] = <<w>>]
      BY <2>1 DEF SendRequest, w
  <2>9. \A d \in Conns : inbox'[d] # <<>> => IsWord(inbox'[d][1])
      BY <2>7, <2>8 DEF Types
  <2>10. sent' \in [Conns -> Nat]
      BY <2>1, <2>2 DEF SendRequest, Types
  <2>11. UNCHANGED <<receiver, sender>> /\ DOMAIN inbox' = Conns
      BY <2>1 DEF SendRequest, Types
  <2>12. QED
      BY <2>9, <2>10, <2>11 DEF Types
<1>2. CASE Fork
  <2>1. UNCHANGED <<sent, inbox>>
      BY <1>2 DEF Fork
  <2>2. CASE UNCHANGED <<receiver, sender>>
      BY <2>1, <2>2 DEF Types
  <2>3. CASE /\ receiver' = [receiver EXCEPT ![parent] = [pc |-> "recv"]]
             /\ sender' = [sender EXCEPT ![parent] = [pc |-> "look", temp |-> <<>>]]
    <3>1. parent \in Conns /\ DOMAIN receiver = Conns /\ DOMAIN sender = Conns
        BY <1>2 DEF Fork, Waits
    <3>2. /\ receiver'[parent] = [pc |-> "recv"]
          /\ sender'[parent] = [pc |-> "look", temp |-> <<>>]
          /\ \A d \in Conns \ {parent} : receiver'[d] = receiver[d] /\ sender'[d] = sender[d]
        BY <2>3, <3>1, OneMoves
    <3>3. receiver'[parent].pc = "recv" /\ sender'[parent].pc = "look" /\ sender'[parent].temp = <<>>
        BY <3>2
    <3>4. QED
        BY <2>1, <3>2, <3>3 DEF Types
  <2>4. QED
      BY <1>2, <2>2, <2>3 DEF Fork
<1>3. CASE \/ \E c \in Conns : Connect(c) \/ Leave(c)
           \/ Accept
           \/ UNCHANGED vars
  <2>1. UNCHANGED <<sent, inbox, receiver, sender>>
      BY <1>3 DEF Connect, Leave, Accept, vars, netVars, histVars
  <2>2. QED
      BY <2>1 DEF Types
<1>4. QED
    BY <1>1, <1>2, <1>3 DEF Client, Parent

\* Types of a receiver's step.
LEMMA ReceiverKeepsTypes ==
    ASSUME Waits, Types, NEW c \in Conns, Receiver(c)
    PROVE  Types'
<1>1. DOMAIN receiver = Conns /\ UNCHANGED <<sent, sender>>
    BY DEF Waits, Receiver, Recv, ClearSlot, WriteSlot, netVars, histVars
<1>2. CASE Recv(c)
  <2>1. PICK new : /\ receiver' = [receiver EXCEPT ![c] = new]
                   /\ \/ new.pc = "clear" /\ new.buf = inbox[c][1] /\ inbox[c] # <<>>
                      \/ new.pc = "dead"
                   /\ inbox' = [inbox EXCEPT ![c] = <<>>] \/ UNCHANGED inbox
    <3>1. CASE inbox[c] # <<>>
      <4>1. [pc |-> "clear", buf |-> inbox[c][1]].pc = "clear"
            /\ [pc |-> "clear", buf |-> inbox[c][1]].buf = inbox[c][1]
          OBVIOUS
      <4>2. QED
          BY <1>2, <3>1, <4>1 DEF Recv
    <3>2. CASE inbox[c] = <<>>
      <4>1. [pc |-> "dead"].pc = "dead"
          OBVIOUS
      <4>2. QED
          BY <1>2, <3>2, <4>1 DEF Recv
    <3>3. QED
        BY <3>1, <3>2
  <2>2. receiver'[c] = new /\ \A d \in Conns \ {c} : receiver'[d] = receiver[d]
      BY <1>1, <2>1, OneMoves
  <2>3. DOMAIN inbox' = Conns /\ \A d \in Conns : inbox'[d] # <<>> => inbox'[d] = inbox[d]
      BY <2>1 DEF Types
  <2>4. new.pc \in {"clear", "write"} => IsWord(new.buf)
      BY <2>1 DEF Types
  <2>5. new.pc # "write"
      BY <2>1
  <2>6. QED
      BY <1>1, <2>2, <2>3, <2>4, <2>5 DEF Types
<1>3. CASE ClearSlot(c)
  <2>1. PICK new : /\ receiver' = [receiver EXCEPT ![c] = new]
                   /\ new = [pc |-> "write", buf |-> receiver[c].buf, at |-> 1]
      BY <1>3 DEF ClearSlot
  <2>2. /\ new.pc = "write" /\ new.buf = receiver[c].buf /\ DOMAIN new = {"pc", "buf", "at"}
        /\ receiver[c].pc = "clear" /\ UNCHANGED inbox
      BY <1>3, <2>1 DEF ClearSlot, netVars, histVars
  <2>3. receiver'[c] = new /\ \A d \in Conns \ {c} : receiver'[d] = receiver[d]
      BY <1>1, <2>1, OneMoves
  <2>4. QED
      BY <1>1, <2>2, <2>3 DEF Types
<1>4. CASE WriteSlot(c)
  <2>1. receiver[c].pc = "write" /\ DOMAIN receiver[c] = {"pc", "buf", "at"} /\ UNCHANGED inbox
      BY <1>4 DEF WriteSlot, Types, netVars, histVars
  <2>2. PICK new : /\ receiver' = [receiver EXCEPT ![c] = new]
                   /\ \/ new = [pc |-> "recv"]
                      \/ new = [receiver[c] EXCEPT !.at = @ + 1]
      BY <1>1, <1>4 DEF WriteSlot
  <2>3. \/ new.pc = "recv"
        \/ new.pc = "write" /\ new.buf = receiver[c].buf /\ DOMAIN new = {"pc", "buf", "at"}
      BY <2>1, <2>2
  <2>4. receiver'[c] = new /\ \A d \in Conns \ {c} : receiver'[d] = receiver[d]
      BY <1>1, <2>2, OneMoves
  <2>5. QED
      BY <1>1, <2>1, <2>3, <2>4 DEF Types
<1>5. QED
    BY <1>2, <1>3, <1>4 DEF Receiver

\* A sender that is done, or that has the name to register.
LooksOrGoesOn(s) ==
    \/ s.pc = "look" /\ s.temp = <<>>
    \/ s.pc \in {"scan", "append"}

\* What Parse makes of a sender, and of what is left to do.
LEMMA AfterParse ==
    ASSUME NEW c \in Conns, Parse(c)
    PROVE  \E new : /\ sender' = [sender EXCEPT ![c] = new] /\ LooksOrGoesOn(new)
                    /\ WorkDone(new, list) = WorkDone(sender[c], list)
<1> DEFINE words == Strtok(sender[c].temp, "@")
<1>1. WorkDone(sender[c], list) = Registered(list, sender[c].temp)
    BY DEF Parse, WorkDone
<1>2. CASE Len(words) < 2 \/ words[1] # <<Reg>>
  <2>1. PICK new : new = [pc |-> "look", temp |-> <<>>]
      OBVIOUS
  <2>2. new.pc = "look" /\ new.temp = <<>>
      BY <2>1
  <2>3. sender' = [sender EXCEPT ![c] = new]
      BY <1>2, <2>1 DEF Parse
  <2>4. WorkDone(new, list) = list /\ Registered(list, sender[c].temp) = list
      BY <1>2, <2>2 DEF WorkDone, Registered
  <2>5. QED
      BY <1>1, <2>2, <2>3, <2>4 DEF LooksOrGoesOn
<1>3. CASE ~(Len(words) < 2 \/ words[1] # <<Reg>>)
  <2>1. PICK new : new = [pc |-> "scan", name |-> words[2], temp |-> words[1]]
      OBVIOUS
  <2>2. new.pc = "scan" /\ new.name = words[2]
      BY <2>1
  <2>3. sender' = [sender EXCEPT ![c] = new]
      BY <1>3, <2>1 DEF Parse
  <2>4. WorkDone(new, list) = Registered(list, sender[c].temp)
      BY <1>3, <2>2 DEF WorkDone, Registered
  <2>5. QED
      BY <1>1, <2>2, <2>3, <2>4 DEF LooksOrGoesOn
<1>4. QED
    BY <1>2, <1>3

\* What Scan does.
LEMMA AfterScan ==
    ASSUME NEW c \in Conns, Scan(c)
    PROVE  \E new : /\ sender' = [sender EXCEPT ![c] = new] /\ LooksOrGoesOn(new)
                    /\ WorkDone(new, list') = WorkDone(sender[c], list)
<1>1. list' = Cut(list) /\ sender[c].pc = "scan"
    BY DEF Scan
<1>2. CASE sender[c].name \in ToSet(Strtok(list, "|"))
  <2>1. PICK new : new = [pc |-> "look", temp |-> <<>>]
      OBVIOUS
  <2>2. new.pc = "look" /\ new.temp = <<>>
      BY <2>1
  <2>3. sender' = [sender EXCEPT ![c] = new]
      BY <1>2, <2>1 DEF Scan
  <2>4. WorkDone(new, list') = WorkDone(sender[c], list)
      BY <1>1, <1>2, <2>2 DEF WorkDone
  <2>5. QED
      BY <2>2, <2>3, <2>4 DEF LooksOrGoesOn
<1>3. CASE sender[c].name \notin ToSet(Strtok(list, "|"))
  <2>1. PICK new : new = [pc |-> "append", name |-> sender[c].name]
      OBVIOUS
  <2>2. new.pc = "append" /\ new.name = sender[c].name
      BY <2>1
  <2>3. sender' = [sender EXCEPT ![c] = new]
      BY <1>3, <2>1 DEF Scan
  <2>4. WorkDone(new, list') = WorkDone(sender[c], list)
      BY <1>1, <1>3, <2>2 DEF WorkDone
  <2>5. QED
      BY <2>2, <2>3, <2>4 DEF LooksOrGoesOn
<1>4. QED
    BY <1>2, <1>3

\* What AppendName does.
LEMMA AfterAppend ==
    ASSUME NEW c \in Conns, AppendName(c)
    PROVE  \E new : /\ sender' = [sender EXCEPT ![c] = new] /\ LooksOrGoesOn(new)
                    /\ WorkDone(new, list') = WorkDone(sender[c], list)
<1>1. PICK new : new = [pc |-> "look", temp |-> <<>>]
    OBVIOUS
<1>2. new.pc = "look" /\ new.temp = <<>>
    BY <1>1
<1>3. sender' = [sender EXCEPT ![c] = new]
    BY <1>1 DEF AppendName
<1>4. WorkDone(new, list') = WorkDone(sender[c], list)
    BY <1>2 DEF AppendName, WorkDone
<1>5. QED
    BY <1>2, <1>3, <1>4 DEF LooksOrGoesOn

\* Types of a sender's step.
LEMMA SenderKeepsTypes ==
    ASSUME Waits, Types, NEW c \in Conns, Sender(c)
    PROVE  Types'
<1>1. DOMAIN sender = Conns /\ UNCHANGED <<sent, inbox, receiver>>
    BY DEF Waits, Sender, Look, Copy, Wipe, Parse, Scan, AppendName, netVars, histVars
<1>2. PICK new : /\ sender' = [sender EXCEPT ![c] = new]
                 /\ \/ new.pc = "look" /\ new.temp = <<>>
                    \/ new.pc \in {"copy", "wipe"} /\ DOMAIN new = {"pc", "temp"}
                    \/ new.pc \in {"parse", "scan", "append"}
  <2>1. CASE Look(c)
    <3>1. PICK new : new = [pc |-> "copy", temp |-> <<>>]
        OBVIOUS
    <3>2. new.pc = "copy" /\ DOMAIN new = {"pc", "temp"}
        BY <3>1
    <3>3. QED
        BY <2>1, <3>1, <3>2 DEF Look
  <2>2. CASE Copy(c)
    <3>1. sender[c].pc = "copy" /\ DOMAIN sender[c] = {"pc", "temp"}
        BY <2>2 DEF Copy, Types
    <3>2. PICK new : /\ sender' = [sender EXCEPT ![c] = new]
                     /\ \/ new = [sender[c] EXCEPT !.pc = "wipe"]
                        \/ \E t : new = [sender[c] EXCEPT !.temp = t]
        BY <1>1, <2>2 DEF Copy
    <3>3. new.pc \in {"copy", "wipe"} /\ DOMAIN new = {"pc", "temp"}
        BY <3>1, <3>2
    <3>4. QED
        BY <3>2, <3>3
  <2>3. CASE Wipe(c)
    <3>1. sender[c].pc = "wipe" /\ DOMAIN sender[c] = {"pc", "temp"}
        BY <2>3 DEF Wipe, Types
    <3>2. PICK new : new = [sender[c] EXCEPT !.pc = "parse"]
        OBVIOUS
    <3>3. sender' = [sender EXCEPT ![c] = new]
        BY <1>1, <2>3, <3>2 DEF Wipe
    <3>4. new.pc = "parse"
        BY <3>1, <3>2
    <3>5. QED
        BY <3>3, <3>4
  <2>4. CASE Parse(c) \/ Scan(c) \/ AppendName(c)
    <3>1. PICK new : sender' = [sender EXCEPT ![c] = new] /\ LooksOrGoesOn(new)
        BY <2>4, AfterParse, AfterScan, AfterAppend
    <3>2. QED
        BY <3>1 DEF LooksOrGoesOn
  <2>5. QED
      BY <2>1, <2>2, <2>3, <2>4 DEF Sender
<1>3. sender'[c] = new /\ \A d \in Conns \ {c} : sender'[d] = sender[d]
    BY <1>1, <1>2, OneMoves
<1>4. QED
    BY <1>1, <1>2, <1>3 DEF Types

\* Steps of processes that are not at work, as a step leaves those that are.
LEMMA WorkStays ==
    ASSUME Sequential, UNCHANGED <<slot, list, pending, due>>,
           Writing' = Writing, Busy' = Busy, Taking' = Taking,
           \A c \in Writing : receiver'[c] = receiver[c],
           \A c \in Busy : sender'[c] = sender[c]
    PROVE  Sequential'
<1>1. InSlot' = InSlot /\ Taking \subseteq Busy
    BY DEF InSlot, Taking, Busy
<1>2. QED
    BY <1>1 DEF Sequential

\* The clients, the parent, and a receiver that has nothing to write.
LEMMA OthersKeepWork ==
    ASSUME Waits, Sequential,
           \/ \E c \in Conns : Client(c) \/ Recv(c)
           \/ Parent
           \/ UNCHANGED vars
    PROVE  Sequential'
<1>1. CASE \/ \E c \in Conns : Client(c)
           \/ Accept
           \/ UNCHANGED vars
  <2>1. UNCHANGED <<slot, list, pending, due, receiver, sender>>
      BY <1>1 DEF Client, Connect, SendRequest, Leave, Accept, vars, netVars, histVars
  <2>2. QED
      BY <2>1, WorkStays DEF Writing, Busy, Taking
<1>2. CASE Fork
  <2>1. UNCHANGED <<slot, list, pending, due>> /\ parent \in Conns /\ DOMAIN receiver = Conns /\ DOMAIN sender = Conns
        /\ Unserved(receiver, sender, parent)
      BY <1>2 DEF Fork, Waits, histVars
  <2>2. CASE UNCHANGED <<receiver, sender>>
      BY <2>1, <2>2, WorkStays DEF Writing, Busy, Taking
  <2>3. CASE /\ receiver' = [receiver EXCEPT ![parent] = [pc |-> "recv"]]
             /\ sender' = [sender EXCEPT ![parent] = [pc |-> "look", temp |-> <<>>]]
    <3>1. /\ receiver'[parent] = [pc |-> "recv"]
          /\ sender'[parent] = [pc |-> "look", temp |-> <<>>]
          /\ \A d \in Conns \ {parent} : receiver'[d] = receiver[d] /\ sender'[d] = sender[d]
        BY <2>1, <2>3, OneMoves
    <3>2. receiver'[parent].pc = "recv" /\ sender'[parent].pc = "look"
        BY <3>1
    <3>3. receiver[parent].pc = "none" /\ sender[parent].pc = "none"
        BY <2>1 DEF Unserved, Nobody
    <3>4. Writing' = Writing /\ Busy' = Busy /\ Taking' = Taking
        BY <3>1, <3>2, <3>3 DEF Writing, Busy, Taking
    <3>5. parent \notin Writing /\ parent \notin Busy
        BY <3>3 DEF Writing, Busy
    <3>6. QED
        BY <2>1, <3>1, <3>4, <3>5, WorkStays DEF Writing, Busy
  <2>4. QED
      BY <1>2, <2>2, <2>3 DEF Fork
<1>3. CASE \E c \in Conns : Recv(c)
  <2>1. PICK c \in Conns : Recv(c)
      BY <1>3
  <2>2. PICK new : receiver' = [receiver EXCEPT ![c] = new] /\ new.pc \in {"clear", "dead"}
    <3>1. /\ [pc |-> "clear", buf |-> inbox[c][1]].pc = "clear"
          /\ [pc |-> "dead"].pc = "dead"
        OBVIOUS
    <3>2. QED
        BY <2>1, <3>1 DEF Recv
  <2>3. UNCHANGED <<slot, list, pending, due, sender>> /\ receiver[c].pc = "recv" /\ DOMAIN receiver = Conns
      BY <2>1 DEF Recv, Waits, histVars
  <2>4. receiver'[c] = new /\ \A d \in Conns \ {c} : receiver'[d] = receiver[d]
      BY <2>2, <2>3, OneMoves
  <2>5. Writing' = Writing /\ Busy' = Busy /\ Taking' = Taking /\ c \notin Writing
      BY <2>2, <2>3, <2>4 DEF Writing, Busy, Taking
  <2>6. QED
      BY <2>3, <2>4, <2>5, WorkStays DEF Writing
<1>4. QED
    BY <1>1, <1>2, <1>3 DEF Parent

\* A receiver clears the slot, whatever is there.
LEMMA ClearKeepsWork ==
    ASSUME Waits, Types, Sequential, NEW c \in Conns, ClearSlot(c), ~raced'
    PROVE  Sequential'
<1>1. /\ Writing = {} /\ Taking = {} /\ UNCHANGED <<list, due, sender>> /\ pending' = <<>>
      /\ slot' = Cleared /\ receiver[c].pc = "clear"
    BY DEF ClearSlot, Quiet, netVars, histVars
<1>2. PICK new : receiver' = [receiver EXCEPT ![c] = new]
                 /\ new = [pc |-> "write", buf |-> receiver[c].buf, at |-> 1]
    BY DEF ClearSlot
<1>3. new.pc = "write" /\ new.buf = receiver[c].buf /\ new.at = 1
    BY <1>2
<1>4. receiver'[c] = new /\ \A d \in Conns \ {c} : receiver'[d] = receiver[d]
    BY <1>2, OneMoves DEF Waits
<1>5. Writing' = {c}
    BY <1>1, <1>3, <1>4 DEF Writing
<1>6. Busy' = Busy /\ Taking' = {}
    BY <1>1 DEF Busy, Taking
<1>7. /\ Busy' = {} => due' = list'
      /\ \A b \in Busy' \ Taking' : due' = WorkDone(sender'[b], list')
    BY <1>1, <1>6 DEF Sequential
<1>8. new.at \in 1..Len(new.buf)
  <2>1. IsWord(new.buf)
      BY <1>1, <1>3 DEF Types
  <2>2. Len(new.buf) \in Nat \ {0}
      BY <2>1 DEF IsWord
  <2>3. QED
      BY <1>3, <2>2
<1>9. slot' = Filled(new.buf, new.at - 1)
  <2>1. \A i \in 1..SlotSize : ~(i <= 1 - 1)
      BY MailboxAssumption
  <2>2. QED
      BY <1>1, <1>3, <2>1 DEF Filled, Cleared
<1>10. QED
    BY <1>1, <1>4, <1>5, <1>6, <1>7, <1>8, <1>9 DEF Sequential

\* A receiver writes one more character, or the last.
LEMMA WriteKeepsWork ==
    ASSUME Waits, Types, Sequential, NEW c \in Conns, WriteSlot(c), ~raced
    PROVE  Sequential'
<1> DEFINE r == receiver[c]  n == Len(r.buf)
<1>1. /\ r.pc = "write" /\ c \in Writing /\ UNCHANGED <<list, sender>>
      /\ IsWord(r.buf) /\ DOMAIN r = {"pc", "buf", "at"}
    BY DEF WriteSlot, Types, Writing, netVars, histVars
<1>2. /\ Taking = {} /\ r.at \in 1..n /\ slot = Filled(r.buf, r.at - 1) /\ n \in Nat
      /\ n < SlotSize
    BY <1>1 DEF Sequential, IsWord
<1>3. Writing = {c} /\ InSlot = <<>>
    BY <1>1 DEF Sequential, InSlot
<1>4. slot' = Filled(r.buf, r.at)
  <2>1. ASSUME NEW i \in 1..SlotSize
        PROVE  (IF i = r.at THEN r.buf[i]
                ELSE IF i > r.at /\ r.at = n THEN NUL ELSE slot[i])
               = IF i <= r.at THEN r.buf[i] ELSE NUL
    <3>1. slot[i] = IF i <= r.at - 1 THEN r.buf[i] ELSE NUL
        BY <1>2 DEF Filled
    <3>2. i \in Int /\ r.at \in Int
        BY <1>2, MailboxAssumption
    <3> HIDE DEF r, n
    <3>3. QED
        BY <3>1, <3>2
  <2>2. slot' = [i \in 1..SlotSize |-> IF i = r.at THEN r.buf[i]
                     ELSE IF i > r.at /\ r.at = n THEN NUL ELSE slot[i]]
      BY DEF WriteSlot
  <2> HIDE DEF r, n
  <2>3. QED
      BY <2>1, <2>2 DEF Filled
<1>5. Busy' = Busy /\ Taking' = {}
    BY <1>1, <1>2 DEF Busy, Taking
<1>6. /\ \A b, d \in Busy' : b = d
      /\ Busy' = {} => due' = list'
      /\ \A b \in Busy' \ Taking' : due' = WorkDone(sender'[b], list')
  <2>1. due' = due
      BY DEF WriteSlot
  <2>2. QED
      BY <1>1, <1>2, <1>5, <2>1 DEF Sequential
<1>7. CASE r.at < n
  <2>1. PICK new : receiver' = [receiver EXCEPT ![c] = new] /\ new = [r EXCEPT !.at = @ + 1]
      BY <1>7 DEF WriteSlot, Waits
  <2>2. new.pc = "write" /\ new.buf = r.buf /\ new.at = r.at + 1
      BY <1>1, <2>1
  <2>3. receiver'[c] = new /\ \A d \in Conns \ {c} : receiver'[d] = receiver[d]
      BY <2>1, OneMoves DEF Waits
  <2>4. Writing' = {c}
      BY <1>3, <2>2, <2>3 DEF Writing
  <2>5. pending' = <<>>
      BY <1>1, <1>7 DEF WriteSlot, Sequential
  <2>6. new.at \in 1..Len(new.buf) /\ new.at - 1 = r.at
      BY <1>2, <1>7, <2>2
  <2> HIDE DEF r, n
  <2>7. slot' = Filled(new.buf, new.at - 1)
      BY <1>4, <2>2, <2>6
  <2>8. QED
      BY <1>1, <1>5, <1>6, <2>3, <2>4, <2>5, <2>6, <2>7 DEF Sequential
<1>8. CASE ~(r.at < n)
  <2>1. PICK new : receiver' = [receiver EXCEPT ![c] = new] /\ new = [pc |-> "recv"]
      BY <1>8 DEF WriteSlot
  <2>2. new.pc = "recv" /\ r.at = n
      BY <1>2, <1>8, <2>1
  <2>3. receiver'[c] = new /\ \A d \in Conns \ {c} : receiver'[d] = receiver[d]
      BY <2>1, OneMoves DEF Waits
  <2>4. Writing' = {}
      BY <1>3, <2>2, <2>3 DEF Writing
  <2>5. pending' = r.buf
      BY <1>8 DEF WriteSlot
  <2>6. slot' = Filled(r.buf, Len(r.buf))
      BY <1>4, <2>2
  <2> HIDE DEF r
  <2>7. InSlot' = r.buf
      BY <1>1, <2>4, <2>6, TextOfFilled DEF InSlot
  <2>8. QED
      BY <1>1, <1>5, <1>6, <2>4, <2>5, <2>6, <2>7 DEF Sequential
<1>9. QED
    BY <1>7, <1>8

\* A sender that looks finds the request that has been written.
LEMMA LookKeepsWork ==
    ASSUME Waits, Types, Sequential, NEW c \in Conns, Look(c), ~raced'
    PROVE  Sequential'
<1>1. /\ Writing = {} /\ Busy = {} /\ UNCHANGED <<slot, list, receiver>>
      /\ sender[c].pc = "look" /\ Text(slot) # <<>>
      /\ pending' = <<>> /\ due' = Registered(due, pending)
    BY DEF Look, Quiet, netVars, Types
<1>2. PICK new : sender' = [sender EXCEPT ![c] = new] /\ new = [pc |-> "copy", temp |-> <<>>]
    BY DEF Look
<1>3. new.pc = "copy" /\ new.temp = <<>>
    BY <1>2
<1>4. sender'[c] = new /\ \A d \in Conns \ {c} : sender'[d] = sender[d]
    BY <1>2, OneMoves DEF Waits
<1>5. Writing' = {} /\ InSlot' = InSlot /\ InSlot # <<>>
    BY <1>1 DEF Writing, InSlot
<1>6. Busy' = {c} /\ Taking' = {c}
    BY <1>1, <1>3, <1>4 DEF Busy, Taking
<1>7. slot = Filled(InSlot, Len(InSlot)) /\ IsWord(InSlot)
      /\ due' = Registered(list, InSlot)
  <2>1. Taking = {} /\ due = list
      BY <1>1 DEF Sequential, Taking, Busy
  <2>2. QED
      BY <1>1, <1>5, <2>1 DEF Sequential
<1>8. Begins(new.temp, InSlot)
  <2>1. Len(InSlot) \in Nat
      BY <1>7 DEF IsWord
  <2>2. Begins(<<>>, InSlot)
      BY <2>1 DEF Begins
  <2>3. QED
      BY <1>3, <2>2
<1>9. QED
    BY <1>1, <1>3, <1>4, <1>5, <1>6, <1>7, <1>8 DEF Sequential

\* While a sender takes a request nobody else is at work, and the slot holds
\* the request.
LEMMA OneTakes ==
    ASSUME Sequential, NEW c \in Taking
    PROVE  /\ Writing = {} /\ Busy = {c} /\ Taking = {c}
           /\ slot = Filled(InSlot, Len(InSlot)) /\ IsWord(InSlot)
           /\ Begins(sender[c].temp, InSlot)
           /\ pending = <<>> /\ due = Registered(list, InSlot)
<1>1. Taking \subseteq Busy /\ c \in Busy
    BY DEF Taking, Busy
<1>2. Writing = {} /\ Busy = {c} /\ Taking = {c}
    BY <1>1 DEF Sequential
<1>3. slot = Filled(InSlot, Len(InSlot)) /\ IsWord(InSlot) /\ InSlot # <<>> /\ Begins(sender[c].temp, InSlot)
    BY <1>2 DEF Sequential
<1>4. pending = <<>> /\ due = Registered(list, InSlot)
    BY DEF Sequential
<1>5. QED
    BY <1>2, <1>3, <1>4

\* A sender copies one more character, or finds the end.
LEMMA CopyKeepsWork ==
    ASSUME Waits, Types, Sequential, NEW c \in Conns, Copy(c)
    PROVE  Sequential'
<1> DEFINE t == sender[c].temp  w == InSlot  cell == slot[Len(t) + 1]
<1>1. /\ sender[c].pc = "copy" /\ c \in Taking /\ UNCHANGED <<slot, list, pending, due, receiver>>
      /\ DOMAIN sender[c] = {"pc", "temp"}
    BY DEF Copy, Taking, Types, netVars, histVars
<1>2. /\ Writing = {} /\ Busy = {c} /\ Taking = {c}
      /\ slot = Filled(w, Len(w)) /\ IsWord(w) /\ Begins(t, w)
      /\ pending = <<>> /\ due = Registered(list, w)
    BY <1>1, OneTakes
<1>3. Writing' = {} /\ InSlot' = w /\ w # <<>>
    BY <1>1, <1>2 DEF Writing, InSlot, IsWord
<1>4. cell = IF Len(t) + 1 <= Len(w) THEN w[Len(t) + 1] ELSE NUL
  <2>1. Len(t) \in Nat /\ Len(w) \in Nat /\ Len(t) <= Len(w) /\ Len(w) < SlotSize /\ SlotSize \in Nat
      BY <1>2, MailboxAssumption DEF Begins, IsWord
  <2>2. Len(t) + 1 \in 1..SlotSize
      BY <2>1
  <2> HIDE DEF t, w
  <2>3. slot[Len(t) + 1] = IF Len(t) + 1 <= Len(w) THEN w[Len(t) + 1] ELSE NUL
      BY <1>2, <2>2 DEF Filled
  <2>4. QED
      BY <2>3
<1>5. \E new : /\ sender' = [sender EXCEPT ![c] = new] /\ new.pc \in {"copy", "wipe"}
               /\ Begins(new.temp, w) /\ (new.pc = "wipe" => new.temp = w)
  <2>1. CASE Len(t) = Len(w)
    <3>1. cell = NUL
      <4>1. Len(w) \in Nat
          BY <1>2 DEF IsWord
      <4> HIDE DEF t, w, cell
      <4>2. ~(Len(t) + 1 <= Len(w))
          BY <4>1, <2>1
      <4>3. QED
          BY <1>4, <4>2
    <3>2. PICK new : sender' = [sender EXCEPT ![c] = new] /\ new = [sender[c] EXCEPT !.pc = "wipe"]
        BY <3>1 DEF Copy, Waits
    <3>3. new.pc = "wipe" /\ new.temp = t
        BY <1>1, <3>2
    <3> HIDE DEF t, w
    <3>4. t = w
        BY <1>2, <2>1, BeginsAll
    <3>5. QED
        BY <1>2, <3>2, <3>3, <3>4
  <2>2. CASE Len(t) # Len(w)
    <3> HIDE DEF t, w
    <3>1. Begins(Append(t, w[Len(t) + 1]), w) /\ Len(t) + 1 \in 1..Len(w)
        BY <1>2, <2>2, BeginsMore
    <3>2. cell = w[Len(t) + 1] /\ cell # NUL
      <4>1. Len(t) + 1 <= Len(w)
          BY <3>1
      <4>2. QED
          BY <1>2, <1>4, <3>1, <4>1 DEF IsWord
    <3>3. PICK new : sender' = [sender EXCEPT ![c] = new]
                     /\ new = [sender[c] EXCEPT !.temp = Append(t, cell)]
        BY <3>2 DEF Copy, Waits, t
    <3>4. new.pc = "copy" /\ new.temp = Append(t, cell)
        BY <1>1, <3>3
    <3> HIDE DEF cell
    <3>5. QED
        BY <3>1, <3>2, <3>3, <3>4
  <2>3. QED
      BY <2>1, <2>2
<1>6. PICK new : /\ sender' = [sender EXCEPT ![c] = new] /\ new.pc \in {"copy", "wipe"}
                 /\ Begins(new.temp, w) /\ (new.pc = "wipe" => new.temp = w)
    BY <1>5
<1>7. sender'[c] = new /\ \A d \in Conns \ {c} : sender'[d] = sender[d]
    BY <1>6, OneMoves DEF Waits
<1>8. Busy' = {c} /\ Taking' = {c}
    BY <1>2, <1>6, <1>7 DEF Busy, Taking
<1> HIDE DEF w
<1>9. QED
    BY <1>1, <1>2, <1>3, <1>6, <1>7, <1>8 DEF Sequential

\* A sender that has copied the request clears the slot.
LEMMA WipeKeepsWork ==
    ASSUME Waits, Types, Sequential, NEW c \in Conns, Wipe(c)
    PROVE  Sequential'
<1>1. /\ sender[c].pc = "wipe" /\ c \in Taking /\ UNCHANGED <<list, pending, due, receiver>>
      /\ slot' = Cleared /\ DOMAIN sender[c] = {"pc", "temp"}
    BY DEF Wipe, Taking, Types, netVars, histVars
<1>2. /\ Writing = {} /\ Busy = {c} /\ Taking = {c}
      /\ pending = <<>> /\ due = Registered(list, InSlot) /\ sender[c].temp = InSlot
    BY <1>1, OneTakes DEF Sequential
<1>3. PICK new : sender' = [sender EXCEPT ![c] = new] /\ new = [sender[c] EXCEPT !.pc = "parse"]
    BY DEF Wipe, Waits
<1>4. new.pc = "parse" /\ new.temp = InSlot
    BY <1>1, <1>2, <1>3
<1>5. sender'[c] = new /\ \A d \in Conns \ {c} : sender'[d] = sender[d]
    BY <1>3, OneMoves DEF Waits
<1>6. Writing' = {}
    BY <1>1, <1>2 DEF Writing
<1>7. Busy' = {c} /\ Taking' = {}
    BY <1>2, <1>4, <1>5 DEF Busy, Taking
<1>8. slot' = Filled(<<>>, Len(<<>>))
  <2>1. Len(<<>>) = 0 /\ \A i \in 1..SlotSize : ~(i <= 0)
      BY MailboxAssumption
  <2>2. QED
      BY <1>1, <2>1 DEF Cleared, Filled
<1>9. InSlot' = <<>>
    BY <1>6, <1>8, TextOfFilled DEF InSlot
<1>10. due' = WorkDone(new, list') /\ pending' = <<>>
    BY <1>1, <1>2, <1>4 DEF WorkDone
<1>11. QED
    BY <1>5, <1>6, <1>7, <1>8, <1>9, <1>10 DEF Sequential

\* A sender goes on with a request it has taken.
LEMMA GoesOn ==
    ASSUME Waits, Sequential, NEW c \in Conns, Parse(c) \/ Scan(c) \/ AppendName(c)
    PROVE  Sequential'
<1>1. /\ sender[c].pc \in {"parse", "scan", "append"} /\ UNCHANGED <<slot, pending, due, receiver>>
      /\ c \in Busy /\ c \notin Taking
    BY DEF Parse, Scan, AppendName, Busy, Taking, netVars, histVars
<1>2. Busy = {c} /\ Taking \subseteq Busy
    BY <1>1 DEF Sequential, Busy, Taking
<1>3. PICK new : /\ sender' = [sender EXCEPT ![c] = new] /\ LooksOrGoesOn(new)
                 /\ WorkDone(new, list') = WorkDone(sender[c], list)
  <2>1. CASE Parse(c)
    <3>1. list' = list
        BY <2>1 DEF Parse
    <3>2. QED
        BY <2>1, <3>1, AfterParse
  <2>2. QED
      BY <2>1, AfterScan, AfterAppend
<1>4. sender'[c] = new /\ \A d \in Conns \ {c} : sender'[d] = sender[d]
    BY <1>3, OneMoves DEF Waits
<1>5. Writing' = Writing /\ InSlot' = InSlot
    BY <1>1 DEF Writing, InSlot
<1>6. Taking = {} /\ Taking' = {}
    BY <1>1, <1>2, <1>3, <1>4 DEF Taking, LooksOrGoesOn
<1>7. due' = WorkDone(new, list')
    BY <1>1, <1>2, <1>3 DEF Sequential
<1>8. CASE new.pc = "look"
  <2>1. Busy' = {}
      BY <1>2, <1>4, <1>8 DEF Busy
  <2>2. WorkDone(new, list') = list'
      BY <1>8 DEF WorkDone
  <2>3. QED
      BY <1>1, <1>5, <1>6, <1>7, <2>1, <2>2 DEF Sequential
<1>9. CASE new.pc \in {"scan", "append"}
  <2>1. Busy' = {c}
      BY <1>2, <1>4, <1>9 DEF Busy
  <2>2. QED
      BY <1>1, <1>4, <1>5, <1>6, <1>7, <2>1 DEF Sequential
<1>10. QED
    BY <1>3, <1>8, <1>9 DEF LooksOrGoesOn

-----------------------------------------------------------------------------
(* The invariant, and what it says of the mail.                             *)

\* Every step keeps the invariant: an overlap is never forgotten, and without
\* one the step is that of the only process at work.
LEMMA NextIInv == IInv /\ [Next]_vars => IInv'
<1> SUFFICES ASSUME IInv, [Next]_vars PROVE IInv'
    OBVIOUS
<1> USE DEF IInv
<1>1. Waits'
    BY WaitsNext
<1>2. CASE (\E c \in Conns : Client(c)) \/ Parent \/ UNCHANGED vars
  <2>1. Types'
      BY <1>2, OthersKeepTypes
  <2>2. raced' = raced
      BY <1>2 DEF Client, Connect, SendRequest, Leave, Parent, Accept, Fork, vars, histVars
  <2>3. ~raced' => Sequential'
      BY <1>2, <2>2, OthersKeepWork
  <2>4. QED
      BY <1>1, <2>1, <2>3
<1>3. CASE \E c \in Conns : Receiver(c)
  <2>1. PICK c \in Conns : Receiver(c)
      BY <1>3
  <2>2. Types'
      BY <2>1, ReceiverKeepsTypes
  <2>3. ASSUME ~raced' PROVE Sequential'
    <3>1. ~raced
        BY <2>1, <2>3 DEF Receiver, Recv, ClearSlot, WriteSlot, histVars
    <3>2. CASE Recv(c)
        BY <3>1, <3>2, OthersKeepWork
    <3>3. CASE ClearSlot(c)
        BY <2>3, <3>1, <3>3, ClearKeepsWork
    <3>4. CASE WriteSlot(c)
        BY <3>1, <3>4, WriteKeepsWork
    <3>5. QED
        BY <2>1, <3>2, <3>3, <3>4 DEF Receiver
  <2>4. QED
      BY <1>1, <2>2, <2>3
<1>4. CASE \E c \in Conns : Sender(c)
  <2>1. PICK c \in Conns : Sender(c)
      BY <1>4
  <2>2. Types'
      BY <2>1, SenderKeepsTypes
  <2>3. ASSUME ~raced' PROVE Sequential'
    <3>1. ~raced
        BY <2>1, <2>3 DEF Sender, Look, Copy, Wipe, Parse, Scan, AppendName, histVars
    <3>2. CASE Look(c)
        BY <2>3, <3>1, <3>2, LookKeepsWork
    <3>3. CASE Copy(c)
        BY <3>1, <3>3, CopyKeepsWork
    <3>4. CASE Wipe(c)
        BY <3>1, <3>4, WipeKeepsWork
    <3>5. CASE Parse(c) \/ Scan(c) \/ AppendName(c)
        BY <3>1, <3>5, GoesOn
    <3>6. QED
        BY <2>1, <3>2, <3>3, <3>4, <3>5 DEF Sender
  <2>4. QED
      BY <1>1, <2>2, <2>3
<1>5. QED
    BY <1>2, <1>3, <1>4 DEF Next

\* As long as no two processes have been at work at once, a request is lost only
\* to a receiver that puts another over it before a sender has looked: what came
\* last is in the slot, whole, and the list is what the requests that were looked
\* at make of it one by one, for every number of connections, senders that
\* outlive their receivers, and requests of every length the slot has room for
\* (server.c:114-138, 221-300).
THEOREM QuietMailIsAlwaysKept == Spec => []QuietMailIsKept
<1>1. Init => IInv
    BY InitIInv
<1>2. IInv /\ [Next]_vars => IInv'
    BY NextIInv
<1>3. IInv => QuietMailIsKept
    BY DEF IInv, QuietMailIsKept, Sequential, InSlot, Taking, Busy
<1>4. QED
    BY <1>1, <1>2, <1>3, PTL DEF Spec

=============================================================================
