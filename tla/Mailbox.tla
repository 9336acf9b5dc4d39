------------------------------ MODULE Mailbox ------------------------------
(***************************************************************************)
(* The first of the older servers, server/bak/server.c: for each connection *)
(* the parent forks a receiver, which forks a sender.  Receivers put what   *)
(* they are sent into one shared slot, each over what is there; senders     *)
(* wake every second, take what they find there, whoever sent it, and       *)
(* register its name in a second shared text.  A receiver dies when its     *)
(* connection ends; a sender never does.                                    *)
(*                                                                         *)
(* The slot and the list are texts, sequences of characters; NUL is what    *)
(* clearing leaves.  Receivers write the slot and senders copy it character *)
(* by character, while clearing it, or what is behind the last character,   *)
(* is one step.                                                             *)
(***************************************************************************)
EXTENDS Integers, Sequences, SequencesExt, FiniteSets

CONSTANTS
    Conns,      \* connections
    Words,      \* per connection, the requests its client sends, in order
    Leavers,    \* bound: the clients that may leave
    Reg,        \* the command "reg", one character here
    SlotSize    \* characters the slot has room for, with the last NUL

NUL == "0"

\* What a receiver takes for a text ends before its first zero, and is not
\* empty.
ASSUME MailboxAssumption ==
    /\ SlotSize \in Nat \ {0}
    /\ Words \in [Conns -> Seq(Seq(STRING) \ {<<>>})]
    /\ \A c \in Conns : \A i \in 1..Len(Words[c]) :
          Len(Words[c][i]) < SlotSize /\ NUL \notin ToSet(Words[c][i])

VARIABLES
    parent,     \* the parent: accept, or the connection it has accepted
    backlog,    \* connections the kernel holds for accept
    peer,       \* per connection, its client: new, open, closed
    sent,       \* per client: requests sent so far
    inbox,      \* per connection: the request not received yet, if any
    receiver,   \* per connection: its receiver
    sender,     \* per connection: its sender
    slot,       \* the text behind r_addr and w_addr
    list,       \* the text of registered names, as far as its first NUL
    \* history
    raced,      \* two processes were at work on the texts at once
    pending,    \* until then, the request written into the slot last and neither
                \* looked at by a sender nor cleared by a receiver since
    due         \* until then, the list when the requests senders have looked at
                \* are carried out one by one

netVars == <<parent, backlog, peer, sent, inbox>>
histVars == <<raced, pending, due>>
vars == <<netVars, receiver, sender, slot, list, histVars>>

Text(cells) ==
    LET zeros == {i \in DOMAIN cells : cells[i] = NUL}
    IN  IF zeros = {} THEN cells ELSE SubSeq(cells, 1, Min(zeros) - 1)

\* the words strtok finds, one call after the other
Strtok(text, delim) ==
    LET begins == {i \in DOMAIN text : text[i] # delim /\ (i = 1 \/ text[i - 1] = delim)}
        end(b) == Min({i \in b..Len(text) : i = Len(text) \/ text[i + 1] = delim})
        order == SetToSortSeq(begins, <)
    IN  [k \in DOMAIN order |-> SubSeq(text, order[k], end(order[k]))]

\* strtok cuts the list behind its first word for everybody
Cut(text) ==
    LET ends == {i \in DOMAIN text : text[i] # "|" /\ (i = Len(text) \/ text[i + 1] = "|")}
    IN  IF ends = {} THEN text ELSE SubSeq(text, 1, Min(ends))

\* the list after a request that is carried out by itself
Registered(text, word) ==
    LET words == Strtok(word, "@")
    IN  IF Len(words) < 2 \/ words[1] # <<Reg>> THEN text
        ELSE IF words[2] \in ToSet(Strtok(text, "|")) THEN Cut(text)
        ELSE Cut(text) \o words[2] \o <<"|">>

Cleared == [i \in 1..SlotSize |-> NUL]

Nobody == [pc |-> "none"]

TypeOK ==
    /\ parent \in Conns \cup {"accept"}
    /\ \A c \in Conns :
          /\ peer[c] \in {"new", "open", "closed"} /\ sent[c] \in 0..Len(Words[c])
          /\ Len(inbox[c]) <= 1
          /\ receiver[c].pc \in {"none", "recv", "clear", "write", "dead"}
          /\ sender[c].pc \in {"none", "look", "copy", "wipe", "parse", "scan", "append"}
    /\ DOMAIN slot = 1..SlotSize /\ slot[SlotSize] = NUL
    /\ NUL \notin ToSet(list)

Init ==
    /\ parent = "accept" /\ backlog = <<>>
    /\ peer = [c \in Conns |-> "new"]
    /\ sent = [c \in Conns |-> 0] /\ inbox = [c \in Conns |-> <<>>]
    /\ receiver = [c \in Conns |-> Nobody]
    /\ sender = [c \in Conns |-> Nobody]
    /\ slot = Cleared /\ list = <<>>
    /\ raced = FALSE /\ pending = <<>> /\ due = <<>>

-----------------------------------------------------------------------------
(* The clients, one request on its way at a time.                           *)

Connect(c) ==
    /\ peer[c] = "new" /\ peer' = [peer EXCEPT ![c] = "open"]
    /\ backlog' = Append(backlog, c)
    /\ UNCHANGED <<parent, sent, inbox, receiver, sender, slot, list, histVars>>

SendRequest(c) ==
    /\ peer[c] = "open" /\ inbox[c] = <<>> /\ sent[c] < Len(Words[c])
    /\ inbox' = [inbox EXCEPT ![c] = <<Words[c][sent[c] + 1]>>]
    /\ sent' = [sent EXCEPT ![c] = @ + 1]
    /\ UNCHANGED <<parent, backlog, peer, receiver, sender, slot, list, histVars>>

Leave(c) ==
    /\ c \in Leavers
    /\ peer[c] = "open" /\ peer' = [peer EXCEPT ![c] = "closed"]
    /\ UNCHANGED <<parent, backlog, sent, inbox, receiver, sender, slot, list, histVars>>

-----------------------------------------------------------------------------
(* The parent, server.c:184-210, and the receiver's own fork, 216.  A fork  *)
(* that fails is noticed by nobody: the parent goes on to accept, and a     *)
(* receiver without a sender says "fork error" for ever and receives        *)
(* nothing.                                                                 *)

Accept ==
    /\ parent = "accept" /\ backlog # <<>>
    /\ parent' = Head(backlog) /\ backlog' = Tail(backlog)
    /\ UNCHANGED <<peer, sent, inbox, receiver, sender, slot, list, histVars>>

Fork ==
    /\ parent # "accept" /\ parent' = "accept"
    /\ \/ /\ receiver' = [receiver EXCEPT ![parent] = [pc |-> "recv"]]
          /\ sender' = [sender EXCEPT ![parent] = [pc |-> "look", temp |-> <<>>]]
       \/ UNCHANGED <<receiver, sender>>
    /\ UNCHANGED <<backlog, peer, sent, inbox, slot, list, histVars>>

-----------------------------------------------------------------------------
(* The receiver, 221-248.                                                   *)

Writing == {c \in Conns : receiver[c].pc = "write"}
Taking == {c \in Conns : sender[c].pc \in {"copy", "wipe"}}
Busy == {c \in Conns : sender[c].pc \notin {"none", "look"}}

\* once two have met, pending and due are not kept any more
Quiet(history) == IF raced' THEN <<>> ELSE history

Recv(c) ==
    /\ receiver[c].pc = "recv"
    /\ IF inbox[c] # <<>>
       THEN /\ receiver' = [receiver EXCEPT ![c] = [pc |-> "clear", buf |-> inbox[c][1]]]
            /\ inbox' = [inbox EXCEPT ![c] = <<>>]
       ELSE /\ peer[c] = "closed" /\ receiver' = [receiver EXCEPT ![c] = [pc |-> "dead"]]
            /\ UNCHANGED inbox
    /\ UNCHANGED <<parent, backlog, peer, sent, sender, slot, list, histVars>>

\* memset(w_addr): a request no sender has looked at yet is lost, though nobody
\* else is at work: the senders sleep for a second between two looks
ClearSlot(c) ==
    /\ receiver[c].pc = "clear"
    /\ slot' = Cleared
    /\ receiver' = [receiver EXCEPT ![c] = [pc |-> "write", buf |-> receiver[c].buf, at |-> 1]]
    /\ raced' = (raced \/ Writing # {} \/ Taking # {})
    /\ pending' = <<>> /\ due' = Quiet(due)
    /\ UNCHANGED <<netVars, sender, list>>

\* strncpy(w_addr, buf): the characters, then zeros as far as the slot goes,
\* with the last character in one step
WriteSlot(c) ==
    /\ receiver[c].pc = "write"
    /\ LET r == receiver[c]
       IN  /\ slot' = [i \in 1..SlotSize |->
                          IF i = r.at THEN r.buf[i]
                          ELSE IF i > r.at /\ r.at = Len(r.buf) THEN NUL ELSE slot[i]]
           /\ IF r.at < Len(r.buf)
              THEN receiver' = [receiver EXCEPT ![c].at = @ + 1] /\ UNCHANGED pending
              ELSE /\ receiver' = [receiver EXCEPT ![c] = [pc |-> "recv"]]
                   /\ pending' = IF raced THEN <<>> ELSE r.buf
    /\ UNCHANGED <<netVars, sender, list, raced, due>>

-----------------------------------------------------------------------------
(* The sender, 251-300.                                                     *)

\* strcmp(temp, r_addr), after a second's sleep
Look(c) ==
    /\ sender[c].pc = "look" /\ Text(slot) # sender[c].temp
    /\ sender' = [sender EXCEPT ![c] = [pc |-> "copy", temp |-> <<>>]]
    /\ raced' = (raced \/ Writing # {} \/ Busy # {})
    /\ pending' = <<>> /\ due' = Quiet(Registered(due, pending))
    /\ UNCHANGED <<netVars, receiver, slot, list>>

\* strcpy(temp, r_addr)
Copy(c) ==
    /\ sender[c].pc = "copy"
    /\ LET cell == slot[Len(sender[c].temp) + 1]
       IN  sender' = IF cell = NUL THEN [sender EXCEPT ![c].pc = "wipe"]
                     ELSE [sender EXCEPT ![c].temp = Append(@, cell)]
    /\ UNCHANGED <<netVars, receiver, slot, list, histVars>>

\* memset(r_addr)
Wipe(c) ==
    /\ sender[c].pc = "wipe"
    /\ slot' = Cleared
    /\ sender' = [sender EXCEPT ![c].pc = "parse"]
    /\ UNCHANGED <<netVars, receiver, list, histVars>>

\* a request that cannot be parsed stays in temp
BugParse(c) ==
    /\ sender[c].pc = "parse"
    /\ LET words == Strtok(sender[c].temp, "@")
       IN  sender' = [sender EXCEPT ![c] =
                        IF Len(words) < 2 THEN [pc |-> "look", temp |-> sender[c].temp]
                        ELSE IF words[1] # <<Reg>> THEN [pc |-> "look", temp |-> <<>>]
                        ELSE [pc |-> "scan", name |-> words[2], temp |-> words[1]]]
    /\ UNCHANGED <<netVars, receiver, slot, list, histVars>>

\* "cmd@body"; nothing is done for any command but one
Parse(c) ==
    /\ sender[c].pc = "parse"
    /\ LET words == Strtok(sender[c].temp, "@")
       IN  sender' = [sender EXCEPT ![c] =
                        IF Len(words) < 2 \/ words[1] # <<Reg>>
                        THEN [pc |-> "look", temp |-> <<>>]
                        ELSE [pc |-> "scan", name |-> words[2], temp |-> words[1]]]
    /\ UNCHANGED <<netVars, receiver, slot, list, histVars>>

\* regOnlineShmat looks for the name
Scan(c) ==
    /\ sender[c].pc = "scan"
    /\ list' = Cut(list)
    /\ sender' = [sender EXCEPT ![c] =
                    IF sender[c].name \in ToSet(Strtok(list, "|"))
                    THEN [pc |-> "look", temp |-> <<>>]
                    ELSE [pc |-> "append", name |-> sender[c].name]]
    /\ UNCHANGED <<netVars, receiver, slot, histVars>>

\* the name is written over the list
BugOverwriteName(c) ==
    /\ sender[c].pc = "append"
    /\ list' = sender[c].name \o <<"|">>
    /\ sender' = [sender EXCEPT ![c] = [pc |-> "look", temp |-> <<>>]]
    /\ UNCHANGED <<netVars, receiver, slot, histVars>>

\* and appends it, without a bar before it
AppendName(c) ==
    /\ sender[c].pc = "append"
    /\ list' = list \o sender[c].name \o <<"|">>
    /\ sender' = [sender EXCEPT ![c] = [pc |-> "look", temp |-> <<>>]]
    /\ UNCHANGED <<netVars, receiver, slot, histVars>>

-----------------------------------------------------------------------------

Client(c) == Connect(c) \/ SendRequest(c) \/ Leave(c)
Parent == Accept \/ Fork
Receiver(c) == Recv(c) \/ ClearSlot(c) \/ WriteSlot(c)
Sender(c) == Look(c) \/ Copy(c) \/ Wipe(c) \/ Parse(c) \/ Scan(c) \/ AppendName(c)

Next == \/ \E c \in Conns : Client(c) \/ Receiver(c) \/ Sender(c)
        \/ Parent

Spec == Init /\ [][Next]_vars

\* the processes run
FairSpec == /\ Spec /\ WF_vars(Parent)
            /\ \A c \in Conns : WF_vars(Receiver(c)) /\ WF_vars(Sender(c))

-----------------------------------------------------------------------------
(* What is promised.                                                        *)

\* As long as no two processes are at work on the texts at once, the one way to
\* lose a request is that a receiver puts another in its place before a sender has
\* looked at it.  Whenever nobody is at work the slot holds, whole, the request
\* that came last, if no sender has looked since, and the list is what all those
\* they have looked at make of it, each carried out once and in that order,
\* whichever sender took it and whether its client is still there.
QuietMailIsKept ==
    (~raced /\ Writing = {} /\ Busy = {}) => Text(slot) = pending /\ list = due

\* What is put into the slot does not stay there: some sender takes it, or a
\* receiver clears it.
MailIsTaken == (Text(slot) # <<>>) ~> (Text(slot) = <<>>)

=============================================================================
