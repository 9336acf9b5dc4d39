-------------------------- MODULE ForkServerProofs --------------------------
(***************************************************************************)
(* What the children of the older server can reach, for every number of     *)
(* connections, descriptors, children and characters between two cuts.      *)
(*                                                                         *)
(* HitsGoDown follows from who is forked when; what the children do to the  *)
(* text plays no part in it, and nothing is assumed of the text.  The two   *)
(* properties of methods that do not overlap follow from what the text says *)
(* between two of them, and need that a record fits the buffer it is        *)
(* printed into (RecordsFit).                                               *)
(***************************************************************************)
EXTENDS ForkServer, OnlineCodecLemmas, TLAPS

-----------------------------------------------------------------------------
(* The inductive invariant.                                                 *)

\* a sequence, of whatever
IsSeq(s) == \E S : s \in Seq(S)

Fields == {"pc", "conn", "nfds", "req", "seen", "len", "out", "at", "to"}

\* A child that has a connection was forked for the last one accepted until
\* then; one that has none is not sent any hit.
ChildOK(me) ==
    /\ DOMAIN me = Fields
    /\ me.nfds \in 0..Len(table)
    /\ me.conn # NoConn => me.nfds # 0 /\ me.conn = table[me.nfds]
    /\ me.conn = NoConn => me.req.cmd # "hit"

IInv == /\ IsSeq(table) /\ IsSeq(children)
        /\ ppc = "fork" => table # <<>>
        /\ ppc = "welcome" => table # <<>>
        /\ \A k \in Kids : ChildOK(children[k])
        /\ HitsGoDown

\* A sequence's places, whatever it is a sequence of.
LEMMA Lengths ==
    ASSUME NEW s, IsSeq(s)
    PROVE  Len(s) \in Nat /\ DOMAIN s = 1..Len(s) /\ (s # <<>> => Len(s) # 0)
BY DEF IsSeq

\* A sequence with one more element.
LEMMA Appended ==
    ASSUME NEW s, IsSeq(s), NEW e
    PROVE  /\ IsSeq(Append(s, e))
           /\ Len(Append(s, e)) = Len(s) + 1
           /\ \A i \in 1..Len(s) : Append(s, e)[i] = s[i]
           /\ Append(s, e)[Len(s) + 1] = e
           /\ Append(s, e) # <<>>
<1>1. PICK S : s \in Seq(S)
    BY DEF IsSeq
<1>2. s \in Seq(S \cup {e})
    BY <1>1
<1>3. Append(s, e) \in Seq(S \cup {e})
    BY <1>2
<1>4. QED
    BY <1>2, <1>3 DEF IsSeq

\* Nobody is served at the beginning.
LEMMA InitIInv == Init => IInv
<1>1. <<>> \in Seq({}) /\ DOMAIN <<>> = {}
    OBVIOUS
<1>2. QED
    BY <1>1 DEF Init, IInv, IsSeq, Kids, HitsGoDown

-----------------------------------------------------------------------------
(* Every step keeps it.                                                     *)

\* A child that goes on with its own connection and descriptors.
LEMMA ChildGoesOn ==
    ASSUME IInv, NEW k \in Kids, NEW new,
           DOMAIN new = Fields, new.conn = children[k].conn, new.nfds = children[k].nfds,
           new.conn = NoConn => new.req.cmd # "hit",
           Become(k, new), UNCHANGED <<table, ppc>>, HitsGoDown'
    PROVE  IInv'
<1>1. PICK S : children \in Seq(S)
    BY DEF IInv, IsSeq
<1>2. children \in Seq(S \cup {new})
    BY <1>1
<1>3. children' \in Seq(S \cup {new})
    BY <1>2 DEF Become, Kids
<1>4. /\ DOMAIN children' = DOMAIN children /\ children'[k] = new
      /\ \A j \in Kids \ {k} : children'[j] = children[j]
    BY <1>1 DEF Become, Kids
<1>5. ChildOK(new)'
    BY DEF IInv, ChildOK
<1>6. \A j \in Kids' : ChildOK(children[j])'
    BY <1>4, <1>5 DEF IInv, ChildOK, Kids
<1>7. QED
    BY <1>3, <1>6 DEF IInv, IsSeq

\* Done and what leads to it.
LEMMA DoneGoesOn ==
    ASSUME NEW me, DOMAIN me = Fields
    PROVE  /\ DOMAIN Done(me) = Fields /\ Done(me).conn = me.conn /\ Done(me).nfds = me.nfds
           /\ Done(me).req.cmd # "hit"
BY DEF Done, Idle, Fields

\* A child that has read the text.
LEMMA ApplyGoesOn ==
    ASSUME IInv, NEW k \in Kids, NEW m, Apply(k, m), UNCHANGED <<table, ppc, hits>>
    PROVE  IInv'
<1> DEFINE me == [children[k] EXCEPT !.seen = <<>>, !.len = 0]
<1>1. ChildOK(children[k])
    BY DEF IInv
<1>2. /\ DOMAIN me = Fields /\ me.conn = children[k].conn /\ me.nfds = children[k].nfds
      /\ me.req = children[k].req
    BY <1>1 DEF ChildOK, Fields
<1>3. PICK new : /\ Become(k, new)
                 /\ \/ new = Done(me)
                    \/ \E to : new = [me EXCEPT !.pc = "send", !.to = to]
                    \/ \E out : new = [me EXCEPT !.pc = "copy", !.out = out]
    BY DEF Apply
<1> HIDE DEF me
<1>4. /\ DOMAIN new = Fields /\ new.conn = me.conn /\ new.nfds = me.nfds
      /\ new.req = me.req \/ new.req.cmd # "hit"
    BY <1>2, <1>3, DoneGoesOn, ZenonT(60) DEF Fields
<1>5. HitsGoDown'
    BY DEF IInv, HitsGoDown
<1>6. QED
    BY <1>1, <1>2, <1>3, <1>4, <1>5, ChildGoesOn, ZenonT(60) DEF ChildOK

\* A hit goes through a descriptor of the child's, and its own connection is
\* the last of those.
LEMMA SendKeepsIInv ==
    ASSUME IInv, NEW k \in Kids, Send(k)
    PROVE  IInv'
<1> DEFINE me == children[k]
           d == ConnOf(k, me.to)
<1>1. ChildOK(me)
    BY DEF IInv
<1>2. PICK new : Become(k, new) /\ (new = Done(me) \/ new = [Done(me) EXCEPT !.pc = "dead"])
    BY DEF Send, SendOn
<1>3. /\ DOMAIN new = Fields /\ new.conn = me.conn /\ new.nfds = me.nfds
      /\ new.req.cmd # "hit"
    BY <1>1, <1>2, DoneGoesOn DEF ChildOK, Fields
<1>4. UNCHANGED <<table, ppc>>
    BY DEF Send
<1>5. HitsGoDown'
  <2>1. CASE hits' = hits
      BY <1>4, <2>1 DEF IInv, HitsGoDown
  <2>2. CASE hits' # hits
    <3>1. me.req.cmd = "hit" /\ unread' # unread /\ hits' = hits \cup {<<me.conn, d>>}
        BY <2>2 DEF Send
    <3>2. d # NoConn
        BY <3>1 DEF Send, SendOn
    <3>3. me.conn = table[me.nfds] /\ me.nfds \in 1..Len(table) /\ Len(table) \in Nat
        BY <1>1, <3>1, Lengths DEF ChildOK, IInv
    <3>4. PICK j \in 1..me.nfds : d = table[j]
      <4>1. me.to \in FirstFd..(FirstFd + me.nfds - 1) /\ d = table[me.to - FirstFd + 1]
          BY <3>2 DEF ConnOf
      <4>2. FirstFd \in Nat /\ me.nfds \in Nat
          BY <3>3, ForkAssumption
      <4>3. me.to - FirstFd + 1 \in 1..me.nfds
          BY <4>1, <4>2
      <4>4. QED
          BY <4>1, <4>3
    <3>5. me.nfds \in DOMAIN table /\ j \in DOMAIN table /\ j <= me.nfds
        BY <3>3, <3>4, Lengths DEF IInv
    <3>6. QED
        BY <1>4, <3>1, <3>3, <3>4, <3>5 DEF IInv, HitsGoDown
  <2>3. QED
      BY <2>1, <2>2
<1>6. QED
    BY <1>2, <1>3, <1>4, <1>5, ChildGoesOn

\* A child keeps its connection and its descriptors.
LEMMA ServeKeepsIInv ==
    ASSUME IInv, NEW k \in Kids, Serve(k)
    PROVE  IInv'
<1> DEFINE me == children[k]
<1>1. ChildOK(me) /\ DOMAIN me = Fields
    BY DEF IInv, ChildOK
<1>2. CASE Recv(k)
  <2>1. HitsGoDown' /\ UNCHANGED <<table, ppc>>
      BY <1>2 DEF Recv, IInv, HitsGoDown
  <2>2. PICK req : /\ Become(k, [me EXCEPT !.pc = "read", !.req = req])
                   /\ me.conn = NoConn => req.cmd # "hit"
    <3>1. CASE me.conn # NoConn /\ Become(k, [me EXCEPT !.pc = "read", !.req = Head(inbox[me.conn])])
        BY <3>1
    <3>2. CASE Become(k, [me EXCEPT !.pc = "read", !.req = [Idle EXCEPT !.cmd = "off"]])
      <4>1. [Idle EXCEPT !.cmd = "off"].cmd # "hit"
          BY DEF Idle
      <4>2. QED
          BY <3>2, <4>1
    <3>3. QED
        BY <1>2, <3>1, <3>2 DEF Recv
  <2>3. QED
      BY <1>1, <2>1, <2>2, ChildGoesOn DEF Fields
<1>3. CASE ReadFront(k)
  <2>1. HitsGoDown' /\ UNCHANGED <<table, ppc, hits>>
      BY <1>3 DEF ReadFront, IInv, HitsGoDown
  <2>2. CASE \E m \in {Rebuild(shm)} : Apply(k, m)
      BY <2>1, <2>2, ApplyGoesOn
  <2>3. CASE \E len, seen : Become(k, [me EXCEPT !.pc = "reading", !.len = len, !.seen = seen])
      BY <1>1, <2>1, <2>3, ChildGoesOn DEF Fields, ChildOK
  <2>4. QED
      BY <1>3, <2>2, <2>3 DEF ReadFront
<1>4. CASE ReadBack(k)
  <2>1. UNCHANGED <<table, ppc, hits>>
      BY <1>4 DEF ReadBack
  <2>2. QED
      BY <1>4, <2>1, ApplyGoesOn DEF ReadBack
<1>5. CASE CopyFront(k) \/ CopyBack(k)
  <2>1. HitsGoDown' /\ UNCHANGED <<table, ppc>>
      BY <1>5 DEF CopyFront, CopyBack, IInv, HitsGoDown
  <2>2. \/ Become(k, Done(me))
        \/ \E n : Become(k, [me EXCEPT !.pc = "copying", !.at = n])
      BY <1>5 DEF CopyFront, CopyBack
  <2>3. QED
      BY <1>1, <2>1, <2>2, DoneGoesOn, ChildGoesOn DEF Fields, ChildOK
<1>6. CASE Send(k)
    BY <1>6, SendKeepsIInv
<1>7. QED
    BY <1>2, <1>3, <1>4, <1>5, <1>6 DEF Serve

\* The parent only adds to its table, and to its children one that has all of
\* it.
LEMMA ParentKeepsIInv ==
    ASSUME IInv, Parent
    PROVE  IInv'
<1>1. Len(table) \in Nat /\ DOMAIN table = 1..Len(table)
    BY Lengths DEF IInv
<1>2. CASE Accept
  <2>1. CASE ~(Len(table) < MaxFds)
    <3>1. UNCHANGED <<table, children, hits>> /\ ppc' = "failed"
        BY <1>2, <2>1 DEF Accept, histVars
    <3>2. QED
        BY <3>1 DEF IInv, ChildOK, Kids, HitsGoDown
  <2>2. CASE Len(table) < MaxFds
    <3>1. PICK c : table' = Append(table, c) /\ UNCHANGED <<children, hits>>
        BY <1>2, <2>2 DEF Accept, histVars
    <3>2. /\ IsSeq(table') /\ table' # <<>> /\ Len(table') = Len(table) + 1
          /\ \A i \in 1..Len(table) : table'[i] = table[i]
        BY <3>1, Appended DEF IInv
    <3>3. DOMAIN table \subseteq DOMAIN table'
        BY <1>1, <3>2, Lengths
    <3>4. HitsGoDown'
        BY <1>1, <3>1, <3>2, <3>3 DEF IInv, HitsGoDown
    <3>5. \A k \in Kids : ChildOK(children[k])'
        BY <1>1, <3>1, <3>2 DEF IInv, ChildOK
    <3>6. QED
        BY <3>1, <3>2, <3>4, <3>5 DEF IInv, Kids
  <2>3. QED
      BY <2>1, <2>2
<1>3. CASE Welcome
  <2>1. UNCHANGED <<table, children, hits>> /\ ppc = "welcome"
      BY <1>3 DEF Welcome, histVars
  <2>2. QED
      BY <2>1 DEF IInv, ChildOK, Kids, HitsGoDown
<1>4. CASE Fork
  <2>1. UNCHANGED <<table, hits>> /\ ppc' = "accept"
      BY <1>4 DEF Fork, histVars
  <2>2. CASE children' = children
      BY <2>1, <2>2 DEF IInv, ChildOK, Kids, HitsGoDown
  <2>3. CASE children' # children
    <3>1. PICK new : \E conn : /\ new = NewChild(conn) /\ children' = Append(children, new)
                               /\ conn # NoConn => ppc = "fork" /\ conn = Last(table)
        BY <1>4, <2>3 DEF Fork
    <3>2. /\ IsSeq(children') /\ Len(children') = Len(children) + 1
          /\ \A i \in 1..Len(children) : children'[i] = children[i]
          /\ children'[Len(children) + 1] = new
        BY <3>1, Appended DEF IInv
    <3>3. /\ Len(children) \in Nat /\ Kids = 1..Len(children)
          /\ Kids' = 1..(Len(children) + 1)
        BY <3>2, Lengths DEF IInv, Kids
    <3>4. ChildOK(new)'
      <4>1. PICK conn : /\ new = NewChild(conn)
                        /\ conn # NoConn => Len(table) # 0 /\ conn = table[Len(table)]
          BY <3>1, Lengths DEF IInv, Last
      <4>2. QED
          BY <1>1, <2>1, <4>1 DEF ChildOK, NewChild, Fields, Idle
    <3>5. \A k \in Kids' : ChildOK(children[k])'
      <4>1. \A k \in Kids : ChildOK(children[k])'
          BY <2>1, <3>2, <3>3 DEF IInv, ChildOK
      <4>2. \A k \in Kids' : k \in Kids \/ children'[k] = new
          BY <3>2, <3>3
      <4>3. QED
          BY <3>4, <4>1, <4>2
    <3>6. QED
        BY <2>1, <3>2, <3>5 DEF IInv, HitsGoDown
  <2>4. QED
      BY <2>2, <2>3
<1>5. QED
    BY <1>2, <1>3, <1>4 DEF Parent

\* Every step keeps it.
LEMMA NextIInv == IInv /\ [Next]_vars => IInv'
<1> SUFFICES ASSUME IInv, [Next]_vars PROVE IInv'
    OBVIOUS
<1>1. CASE Parent
    BY <1>1, ParentKeepsIInv
<1>2. CASE \E k \in Kids : Serve(k)
    BY <1>2, ServeKeepsIInv
<1>3. CASE \/ \E c \in Conns : Client(c)
           \/ UNCHANGED vars
  <2>1. UNCHANGED <<ppc, table, children, hits>>
      BY <1>3 DEF Client, Connect, SendRequest, Receive, Leave, Abort, vars, histVars
  <2>2. QED
      BY <2>1 DEF IInv, ChildOK, Kids, HitsGoDown
<1>4. QED
    BY <1>1, <1>2, <1>3 DEF Next

\* A hit goes to a connection accepted before the hitter's, or to the hitter's
\* own, whatever the texts say that the children read from under each other's
\* hands.
THEOREM HitsAlwaysGoDown == Spec => []HitsGoDown
<1>1. IInv => HitsGoDown
    BY DEF IInv
<1>2. QED
    BY <1>1, InitIInv, NextIInv, PTL DEF Spec

-----------------------------------------------------------------------------
(* Copying.                                                                 *)

\* What the segment will hold when the rest of the text out, from behind its
\* n-th character on, has been written over s.
Over(s, out, n) ==
    SubSeq(s, 1, n) \o SubSeq(out, n + 1, Len(out)) \o SubSeq(s, Len(out) + 1, Len(s))

\* The empty window is the empty text, wherever it is.
LEMMA Piece ==
    ASSUME NEW s \in Seq(Char), NEW a \in Nat
    PROVE  /\ SubSeq(s, a + 1, Len(s)) \in Seq(Char)
           /\ Len(SubSeq(s, a + 1, Len(s))) = IF a < Len(s) THEN Len(s) - a ELSE 0
           /\ \A i \in 1..Len(SubSeq(s, a + 1, Len(s))) : SubSeq(s, a + 1, Len(s))[i] = s[a + i]
<1> DEFINE b == a + 1  p == SubSeq(s, b, Len(s))
<1>1. Len(s) \in Nat /\ b \in Nat \ {0} /\ b = a + 1
    OBVIOUS
<1>2. CASE a < Len(s)
  <2>1. b \in 1..(Len(s) + 1) /\ Len(s) \in (b - 1)..Len(s) /\ Len(s) - b + 1 = Len(s) - a
      BY <1>1, <1>2
  <2> HIDE DEF b
  <2>2. /\ p \in Seq(Char)
        /\ Len(p) = Len(s) - b + 1
        /\ \A h \in 1..(Len(s) - b + 1) : p[h] = s[b + h - 1]
      BY <2>1, Window
  <2>3. \A h \in 1..(Len(s) - a) : b + h - 1 = a + h
      BY <1>1
  <2> HIDE DEF p
  <2>4. p \in Seq(Char) /\ Len(p) = Len(s) - a /\ \A h \in 1..Len(p) : p[h] = s[a + h]
      BY <2>1, <2>2, <2>3
  <2>5. QED
      BY <1>2, <2>4 DEF p, b
<1>3. CASE ~(a < Len(s))
  <2>1. p = <<>>
      BY <1>1, <1>3, SubSeqEmpty
  <2>2. QED
      BY <1>3, <2>1
<1>4. QED
    BY <1>2, <1>3

\* Two pieces one after the other, character by character.
LEMMA Joined ==
    ASSUME NEW x \in Seq(Char), NEW y \in Seq(Char)
    PROVE  /\ x \o y \in Seq(Char) /\ Len(x \o y) = Len(x) + Len(y)
           /\ Len(x) \in Nat /\ Len(y) \in Nat
           /\ \A i \in 1..Len(x) : (x \o y)[i] = x[i]
           /\ \A i \in 1..Len(y) : (x \o y)[Len(x) + i] = y[i]
OBVIOUS

\* Writing the rest of out over s, character by character.
LEMMA OverIs ==
    ASSUME NEW s \in Seq(Char), NEW out \in Seq(Char), NEW n \in 0..Len(out), n <= Len(s)
    PROVE  /\ Over(s, out, n) \in Seq(Char)
           /\ Len(Over(s, out, n)) = IF Len(out) < Len(s) THEN Len(s) ELSE Len(out)
           /\ \A i \in 1..Len(Over(s, out, n)) :
                 Over(s, out, n)[i] = IF i <= n THEN s[i]
                                      ELSE IF i <= Len(out) THEN out[i] ELSE s[i]
<1> DEFINE a == SubSeq(s, 1, n)  b == SubSeq(out, n + 1, Len(out))
           c == SubSeq(s, Len(out) + 1, Len(s))
<1>1. Len(s) \in Nat /\ Len(out) \in Nat /\ n \in Nat
    OBVIOUS
<1>2. a \in Seq(Char) /\ Len(a) = n /\ \A i \in 1..n : a[i] = s[i]
  <2>1. 1 \in 1..(Len(s) + 1) /\ n \in (1 - 1)..Len(s) /\ n - 1 + 1 = n
        /\ \A i \in 1..n : 1 + i - 1 = i
      BY <1>1
  <2>2. a \in Seq(Char) /\ Len(a) = n - 1 + 1 /\ \A i \in 1..(n - 1 + 1) : a[i] = s[1 + i - 1]
      BY <2>1, Window
  <2> HIDE DEF a
  <2>3. QED
      BY <2>1, <2>2
<1>3. b \in Seq(Char) /\ Len(b) = Len(out) - n /\ \A i \in 1..Len(b) : b[i] = out[n + i]
  <2>1. /\ b \in Seq(Char) /\ Len(b) = IF n < Len(out) THEN Len(out) - n ELSE 0
        /\ \A i \in 1..Len(b) : b[i] = out[n + i]
      BY <1>1, Piece
  <2> HIDE DEF b
  <2>2. QED
      BY <1>1, <2>1
<1>4. /\ c \in Seq(Char) /\ Len(c) = IF Len(out) < Len(s) THEN Len(s) - Len(out) ELSE 0
      /\ \A i \in 1..Len(c) : c[i] = s[Len(out) + i]
    BY <1>1, Piece
<1> HIDE DEF a, b, c
<1>5. /\ a \o b \in Seq(Char) /\ Len(a \o b) = Len(out)
      /\ \A i \in 1..n : (a \o b)[i] = s[i]
      /\ \A i \in 1..(Len(out) - n) : (a \o b)[n + i] = out[n + i]
    BY <1>1, <1>2, <1>3, Joined
<1> DEFINE ab == a \o b  t == ab \o c
<1>6. \A i \in 1..Len(out) : ab[i] = IF i <= n THEN s[i] ELSE out[i]
  <2> HIDE DEF ab
  <2>1. TAKE i \in 1..Len(out)
  <2>2. CASE i <= n
      BY <1>1, <1>5, <2>2 DEF ab
  <2>3. CASE ~(i <= n)
    <3>1. PICK j \in 1..(Len(out) - n) : i = n + j
      <4>1. i - n \in 1..(Len(out) - n) /\ i = n + (i - n)
          BY <1>1, <2>1, <2>3
      <4>2. QED
          BY <4>1
    <3>2. QED
        BY <1>5, <2>3, <3>1 DEF ab
  <2>4. QED
      BY <2>2, <2>3
<1> HIDE DEF ab
<1>7. /\ t \in Seq(Char) /\ Len(t) = Len(out) + Len(c)
      /\ \A i \in 1..Len(out) : t[i] = ab[i]
      /\ \A i \in 1..Len(c) : t[Len(out) + i] = c[i]
  <2>1. ab \in Seq(Char) /\ Len(ab) = Len(out)
      BY <1>5 DEF ab
  <2>2. /\ ab \o c \in Seq(Char) /\ Len(ab \o c) = Len(ab) + Len(c)
        /\ \A i \in 1..Len(ab) : (ab \o c)[i] = ab[i]
        /\ \A i \in 1..Len(c) : (ab \o c)[Len(ab) + i] = c[i]
      BY <1>4, <2>1, Joined
  <2> HIDE DEF t
  <2>3. t = ab \o c
      BY DEF t
  <2>4. QED
      BY <2>1, <2>2, <2>3
<1> HIDE DEF t
<1>8. Over(s, out, n) = t
    BY DEF Over, a, b, c, ab, t
<1>9. Len(t) = IF Len(out) < Len(s) THEN Len(s) ELSE Len(out)
    BY <1>1, <1>4, <1>7
<1>10. ASSUME NEW i \in 1..Len(t)
       PROVE  t[i] = IF i <= n THEN s[i] ELSE IF i <= Len(out) THEN out[i] ELSE s[i]
  <2>1. CASE i <= Len(out)
    <3>1. i \in 1..Len(out)
        BY <1>1, <1>9, <2>1
    <3>2. QED
        BY <1>6, <1>7, <2>1, <3>1
  <2>2. CASE ~(i <= Len(out))
    <3>1. PICK j \in 1..Len(c) : i = Len(out) + j
      <4>1. Len(c) \in Nat
          BY <1>4
      <4>2. i - Len(out) \in 1..Len(c) /\ i = Len(out) + (i - Len(out))
          BY <1>1, <1>7, <1>10, <2>2, <4>1
      <4>3. QED
          BY <4>2
    <3>2. t[i] = s[i]
        BY <1>4, <1>7, <3>1
    <3>3. ~(i <= n)
        BY <1>1, <1>9, <2>2
    <3>4. QED
        BY <2>2, <3>2, <3>3
  <2>3. QED
      BY <2>1, <2>2
<1>11. QED
    BY <1>7, <1>8, <1>9, <1>10

\* A memcpy from its start is the text followed by what it does not reach.
LEMMA OverFromStart ==
    ASSUME NEW s \in Seq(Char), NEW out \in Seq(Char)
    PROVE  Over(s, out, 0) = out \o End(s, Len(out) + 1)
<1> DEFINE t == Over(s, out, 0)  c == SubSeq(s, Len(out) + 1, Len(s))  u == out \o c
<1>1. Len(s) \in Nat /\ Len(out) \in Nat /\ 0 \in 0..Len(out) /\ 0 <= Len(s)
    OBVIOUS
<1>2. /\ t \in Seq(Char)
      /\ Len(t) = IF Len(out) < Len(s) THEN Len(s) ELSE Len(out)
      /\ \A i \in 1..Len(t) : t[i] = IF i <= 0 THEN s[i] ELSE IF i <= Len(out) THEN out[i] ELSE s[i]
    BY <1>1, OverIs
<1>3. /\ c \in Seq(Char) /\ Len(c) = IF Len(out) < Len(s) THEN Len(s) - Len(out) ELSE 0
      /\ \A i \in 1..Len(c) : c[i] = s[Len(out) + i]
    BY <1>1, Piece
<1> HIDE DEF t, c
<1>4. /\ u \in Seq(Char) /\ Len(u) = Len(out) + Len(c)
      /\ \A i \in 1..Len(out) : u[i] = out[i]
      /\ \A i \in 1..Len(c) : u[Len(out) + i] = c[i]
    BY <1>3, Joined
<1> HIDE DEF u
<1>5. Len(u) = Len(t)
    BY <1>1, <1>2, <1>3, <1>4
<1>6. ASSUME NEW i \in 1..Len(t) PROVE t[i] = u[i]
  <2>1. CASE i <= Len(out)
    <3>1. i \in 1..Len(out) /\ ~(i <= 0)
        BY <1>1, <2>1
    <3>2. QED
        BY <1>2, <1>4, <2>1, <3>1
  <2>2. CASE ~(i <= Len(out))
    <3>1. PICK j \in 1..Len(c) : i = Len(out) + j
      <4>1. Len(c) \in Nat
          BY <1>3
      <4>2. i - Len(out) \in 1..Len(c) /\ i = Len(out) + (i - Len(out))
          BY <1>1, <1>4, <1>5, <1>6, <2>2, <4>1
      <4>3. QED
          BY <4>2
    <3>2. ~(i <= 0)
        BY <1>1, <2>2
    <3>3. QED
        BY <1>2, <1>3, <1>4, <2>2, <3>1, <3>2
  <2>3. QED
      BY <2>1, <2>2
<1>7. t = u
    BY <1>2, <1>4, <1>5, <1>6, SeqEqual
<1>8. QED
    BY <1>7 DEF t, u, c, End

\* Cutting a memcpy in two changes nothing of what it leaves.
Beginning(s, out, n) == SubSeq(out, 1, n) \o SubSeq(s, n + 1, Len(s))

\* Written in two pieces, it is the text written in one.
LEMMA CopiedInPieces ==
    ASSUME NEW s \in Seq(Char), NEW out \in Seq(Char), NEW n \in 0..Len(out)
    PROVE  /\ Beginning(s, out, n) \in Seq(Char) /\ n <= Len(Beginning(s, out, n))
           /\ Over(Beginning(s, out, n), out, n) = Over(s, out, 0)
           /\ n = Len(out) => Beginning(s, out, n) = Over(s, out, 0)
<1> DEFINE s2 == Beginning(s, out, n)
           a == SubSeq(out, 1, n)  c == SubSeq(s, n + 1, Len(s))
           t == Over(s, out, 0)  u == Over(s2, out, n)
<1>1. Len(s) \in Nat /\ Len(out) \in Nat /\ n \in Nat /\ 0 \in 0..Len(out) /\ 0 <= Len(s)
    OBVIOUS
<1>2. a \in Seq(Char) /\ Len(a) = n /\ \A i \in 1..n : a[i] = out[i]
  <2>1. 1 \in 1..(Len(out) + 1) /\ n \in (1 - 1)..Len(out) /\ n - 1 + 1 = n
        /\ \A i \in 1..n : 1 + i - 1 = i
      BY <1>1
  <2>2. a \in Seq(Char) /\ Len(a) = n - 1 + 1 /\ \A i \in 1..(n - 1 + 1) : a[i] = out[1 + i - 1]
      BY <2>1, Window
  <2> HIDE DEF a
  <2>3. QED
      BY <2>1, <2>2
<1>3. /\ c \in Seq(Char) /\ Len(c) = IF n < Len(s) THEN Len(s) - n ELSE 0
      /\ \A i \in 1..Len(c) : c[i] = s[n + i]
    BY <1>1, Piece
<1>4. s2 = a \o c
    BY DEF Beginning
<1> HIDE DEF a, c, s2
<1>5. /\ s2 \in Seq(Char) /\ Len(s2) = n + Len(c)
      /\ \A i \in 1..n : s2[i] = out[i]
      /\ \A i \in 1..Len(c) : s2[n + i] = s[n + i]
  <2>1. /\ a \o c \in Seq(Char) /\ Len(a \o c) = Len(a) + Len(c)
        /\ \A i \in 1..Len(a) : (a \o c)[i] = a[i]
        /\ \A i \in 1..Len(c) : (a \o c)[Len(a) + i] = c[i]
      BY <1>2, <1>3, Joined
  <2>2. QED
      BY <1>2, <1>3, <1>4, <2>1
<1>6. Len(s2) = IF n < Len(s) THEN Len(s) ELSE n
    BY <1>1, <1>3, <1>5
<1>7. ASSUME NEW i \in 1..Len(s2) PROVE s2[i] = IF i <= n THEN out[i] ELSE s[i]
  <2>1. CASE i <= n
      BY <1>1, <1>5, <2>1
  <2>2. CASE ~(i <= n)
    <3>1. PICK j \in 1..Len(c) : i = n + j
      <4>1. Len(c) \in Nat
          BY <1>3
      <4>2. i - n \in 1..Len(c) /\ i = n + (i - n)
          BY <1>1, <1>5, <1>7, <2>2, <4>1
      <4>3. QED
          BY <4>2
    <3>2. QED
        BY <1>5, <2>2, <3>1
  <2>3. QED
      BY <2>1, <2>2
<1>8. n <= Len(s2)
    BY <1>1, <1>6
<1>9. /\ t \in Seq(Char)
      /\ Len(t) = IF Len(out) < Len(s) THEN Len(s) ELSE Len(out)
      /\ \A i \in 1..Len(t) : t[i] = IF i <= 0 THEN s[i] ELSE IF i <= Len(out) THEN out[i] ELSE s[i]
    BY <1>1, OverIs
<1>10. /\ u \in Seq(Char)
       /\ Len(u) = IF Len(out) < Len(s2) THEN Len(s2) ELSE Len(out)
       /\ \A i \in 1..Len(u) : u[i] = IF i <= n THEN s2[i] ELSE IF i <= Len(out) THEN out[i] ELSE s2[i]
    BY <1>5, <1>8, OverIs
<1> HIDE DEF t, u
<1>11. u = t
  <2>1. Len(u) = Len(t)
      BY <1>1, <1>6, <1>9, <1>10
  <2>2. ASSUME NEW i \in 1..Len(t) PROVE t[i] = u[i]
    <3>1. i \in Nat /\ ~(i <= 0) /\ i \in 1..Len(u)
        BY <2>1
    <3>2. i \in 1..Len(s2) \/ i <= Len(out)
        BY <1>1, <1>5, <1>6, <1>9, <3>1
    <3>3. i <= n => i \in 1..Len(s2)
        BY <1>1, <1>5, <1>6, <3>1
    <3>4. CASE i <= n
        BY <1>1, <1>7, <1>9, <1>10, <3>1, <3>3, <3>4
    <3>5. CASE ~(i <= n) /\ i <= Len(out)
        BY <1>9, <1>10, <3>1, <3>5
    <3>6. CASE ~(i <= n) /\ ~(i <= Len(out))
        BY <1>7, <1>9, <1>10, <3>1, <3>2, <3>6
    <3>7. QED
        BY <3>4, <3>5, <3>6
  <2>3. QED
      BY <1>9, <1>10, <2>1, <2>2, SeqEqual
<1>12. ASSUME n = Len(out) PROVE s2 = t
  <2>1. Len(s2) = Len(t)
      BY <1>1, <1>6, <1>9, <1>12
  <2>2. ASSUME NEW i \in 1..Len(t) PROVE t[i] = s2[i]
    <3>1. i \in Nat /\ ~(i <= 0) /\ i \in 1..Len(s2)
        BY <2>1
    <3>2. QED
        BY <1>7, <1>9, <1>12, <3>1
  <2>3. QED
      BY <1>5, <1>9, <2>1, <2>2, SeqEqual
<1>13. QED
    BY <1>5, <1>8, <1>11, <1>12 DEF t, u, s2

-----------------------------------------------------------------------------
(* What the map says, and what has been registered and put together.        *)

\* The connection on the descriptor f, in a table of connections.
Holder(tab, f) == tab[f - FirstFd + 1]

\* The map m has entries only for descriptors of the table; every opponent in
\* it has been put together with the one whose opponent it is; and whoever has
\* registered is in it under that name.
Fits(m, reg, tab, pairs) ==
    /\ IsOnlineMap(m)
    /\ DOMAIN m \subseteq FirstFd..(FirstFd + Len(tab) - 1)
    /\ \A f \in DOMAIN m :
          \/ m[f].vsfd = NoFd
          \/ /\ m[f].vsfd \in DOMAIN m
             /\ {Holder(tab, f), Holder(tab, m[f].vsfd)} \in pairs
    /\ \A i \in 1..Len(tab) : reg[tab[i]] # <<>> =>
          /\ FirstFd - 1 + i \in DOMAIN m
          /\ m[FirstFd - 1 + i].name = reg[tab[i]]

\* A connection is on one descriptor.
TableOK(tab) ==
    /\ tab \in Seq(Conns) /\ Len(tab) <= MaxFds
    /\ \A i, j \in 1..Len(tab) : tab[i] = tab[j] => i = j

\* The i-th connection of a table is on the i-th descriptor.
LEMMA TableFds ==
    ASSUME NEW tab, TableOK(tab)
    PROVE  /\ Len(tab) \in Nat /\ FirstFd \in Nat
           /\ FirstFd..(FirstFd + Len(tab) - 1) \subseteq Fds
           /\ \A i \in 1..Len(tab) :
                 /\ FirstFd - 1 + i \in FirstFd..(FirstFd + Len(tab) - 1)
                 /\ Holder(tab, FirstFd - 1 + i) = tab[i]
           /\ \A f \in FirstFd..(FirstFd + Len(tab) - 1) :
                 f - FirstFd + 1 \in 1..Len(tab) /\ FirstFd - 1 + (f - FirstFd + 1) = f
<1>1. Len(tab) \in Nat /\ FirstFd \in Nat /\ MaxFds \in Nat /\ Len(tab) <= MaxFds
    BY ForkAssumption DEF TableOK
<1>2. FirstFd..(FirstFd + Len(tab) - 1) \subseteq FirstFd..(FirstFd + MaxFds - 1)
    BY <1>1
<1>3. FirstFd..(FirstFd + Len(tab) - 1) \subseteq Fds
    BY <1>2, ForkAssumption
<1>4. ASSUME NEW i \in 1..Len(tab)
      PROVE  /\ FirstFd - 1 + i \in FirstFd..(FirstFd + Len(tab) - 1)
             /\ FirstFd - 1 + i - FirstFd + 1 = i
    BY <1>1
<1>5. ASSUME NEW f \in FirstFd..(FirstFd + Len(tab) - 1)
      PROVE  f - FirstFd + 1 \in 1..Len(tab) /\ FirstFd - 1 + (f - FirstFd + 1) = f
    BY <1>1
<1>6. QED
    BY <1>1, <1>3, <1>4, <1>5 DEF Holder

\* The map of a finite table is finite.
LEMMA FitsIsFinite ==
    ASSUME NEW m, NEW reg, NEW tab, NEW pairs, TableOK(tab), Fits(m, reg, tab, pairs)
    PROVE  IsFiniteSet(DOMAIN m)
<1>1. FirstFd \in Int /\ FirstFd + Len(tab) - 1 \in Int
    BY TableFds
<1>2. IsFiniteSet(FirstFd..(FirstFd + Len(tab) - 1))
    BY <1>1, FS_Interval
<1>3. QED
    BY <1>2, FS_Subset DEF Fits

\* A connection that has registered nothing is added to the table.
LEMMA FitsLongerTable ==
    ASSUME NEW m, NEW reg, NEW tab, NEW pairs, TableOK(tab), Fits(m, reg, tab, pairs),
           NEW c \in Conns, reg[c] = <<>>
    PROVE  Fits(m, reg, Append(tab, c), pairs)
<1> DEFINE new == Append(tab, c)
<1>1. tab \in Seq(Conns) /\ Len(tab) \in Nat /\ FirstFd \in Nat
    BY TableFds DEF TableOK
<1>2. /\ Len(new) = Len(tab) + 1 /\ new[Len(tab) + 1] = c
      /\ \A i \in 1..Len(tab) : new[i] = tab[i]
    BY <1>1
<1> HIDE DEF new
<1>3. \A f \in FirstFd..(FirstFd + Len(tab) - 1) : Holder(new, f) = Holder(tab, f)
    BY <1>2, TableFds DEF Holder
<1>4. DOMAIN m \subseteq FirstFd..(FirstFd + Len(new) - 1)
    BY <1>1, <1>2 DEF Fits
<1>5. \A f \in DOMAIN m : m[f].vsfd = NoFd \/
          (m[f].vsfd \in DOMAIN m /\ {Holder(new, f), Holder(new, m[f].vsfd)} \in pairs)
    BY <1>3 DEF Fits
<1>6. ASSUME NEW i \in 1..Len(new), reg[new[i]] # <<>>
      PROVE  FirstFd - 1 + i \in DOMAIN m /\ m[FirstFd - 1 + i].name = reg[new[i]]
  <2>1. i # Len(tab) + 1
      BY <1>2, <1>6
  <2>2. i \in 1..Len(tab)
      BY <1>1, <1>2, <1>6, <2>1
  <2>3. QED
      BY <1>2, <1>6, <2>2 DEF Fits
<1>7. Fits(m, reg, new, pairs)
    BY <1>4, <1>5, <1>6 DEF Fits
<1>8. QED
    BY <1>7 DEF new

\* More has been put together.
LEMMA FitsMorePairs ==
    ASSUME NEW m, NEW reg, NEW tab, NEW pairs, NEW more, Fits(m, reg, tab, pairs),
           pairs \subseteq more
    PROVE  Fits(m, reg, tab, more)
BY DEF Fits

\* reg by the connection on the i-th descriptor.
LEMMA FitsReg ==
    ASSUME NEW m, NEW reg, NEW tab, NEW pairs, TableOK(tab), Fits(m, reg, tab, pairs),
           NEW i \in 1..Len(tab), NEW name \in Names, DOMAIN reg = Conns
    PROVE  /\ Fits(RegMap(m, FirstFd - 1 + i, name), [reg EXCEPT ![tab[i]] = name], tab, pairs)
           /\ DOMAIN m \subseteq DOMAIN RegMap(m, FirstFd - 1 + i, name)
<1> DEFINE fd == FirstFd - 1 + i  n == RegMap(m, fd, name)  r == [reg EXCEPT ![tab[i]] = name]
<1>1. fd \in Fds /\ IsOnlineMap(m) /\ fd \in FirstFd..(FirstFd + Len(tab) - 1)
    BY TableFds DEF Fits
<1>2. tab[i] \in Conns
    BY DEF TableOK
<1>3. r[tab[i]] = name /\ \A c \in Conns \ {tab[i]} : r[c] = reg[c]
    BY <1>2
<1> HIDE DEF fd, r
<1>4. IsOnlineMap(n) /\ DOMAIN n = DOMAIN m \cup {fd}
    BY <1>1, Lemmas!RegMapType, SameOperators, FdsAssumption
<1>5. (\A f \in DOMAIN m : n[f].vsfd = m[f].vsfd) /\ (fd \notin DOMAIN m => n[fd].vsfd = NoFd)
    BY <1>1, Lemmas!RegMapOpponents, SameOperators, FdsAssumption
<1>6. n[fd].name = name /\ \A f \in DOMAIN m \ {fd} : n[f] = m[f]
    BY <1>1, Lemmas!RegMapEntries, SameOperators, FdsAssumption
<1> HIDE DEF n
<1>7. DOMAIN n \subseteq FirstFd..(FirstFd + Len(tab) - 1)
    BY <1>1, <1>4 DEF Fits
<1>8. \A f \in DOMAIN n : n[f].vsfd = NoFd \/
          (n[f].vsfd \in DOMAIN n /\ {Holder(tab, f), Holder(tab, n[f].vsfd)} \in pairs)
    BY <1>4, <1>5 DEF Fits
<1>9. ASSUME NEW j \in 1..Len(tab), r[tab[j]] # <<>>
      PROVE  FirstFd - 1 + j \in DOMAIN n /\ n[FirstFd - 1 + j].name = r[tab[j]]
  <2>1. CASE j = i
      BY <1>3, <1>4, <1>6, <2>1 DEF fd
  <2>2. CASE j # i
    <3>1. tab[j] \in Conns \ {tab[i]}
        BY <2>2 DEF TableOK
    <3>2. r[tab[j]] = reg[tab[j]]
        BY <1>3, <3>1
    <3>3. FirstFd - 1 + j \in DOMAIN m /\ m[FirstFd - 1 + j].name = reg[tab[j]]
        BY <1>9, <3>2 DEF Fits
    <3>4. FirstFd - 1 + j # fd
        BY <2>2, TableFds DEF fd
    <3>5. QED
        BY <1>4, <1>6, <3>2, <3>3, <3>4
  <2>3. QED
      BY <2>1, <2>2
<1>10. Fits(n, r, tab, pairs)
    BY <1>4, <1>7, <1>8, <1>9 DEF Fits
<1>11. QED
    BY <1>4, <1>10 DEF n, r, fd

\* A changed status changes nothing of this.
LEMMA FitsStat ==
    ASSUME NEW m, NEW reg, NEW tab, NEW pairs, Fits(m, reg, tab, pairs),
           NEW fd \in DOMAIN m, NEW stat \in ONLINE_STAT
    PROVE  /\ Fits(StatMap(m, fd, stat), reg, tab, pairs)
           /\ DOMAIN m \subseteq DOMAIN StatMap(m, fd, stat)
<1> DEFINE n == StatMap(m, fd, stat)
<1>1. IsOnlineMap(m)
    BY DEF Fits
<1>2. IsOnlineMap(n) /\ DOMAIN n = DOMAIN m
    BY <1>1, Lemmas!StatMapType, SameOperators, FdsAssumption
<1>3. \A f \in DOMAIN m : n[f].name = m[f].name /\ n[f].vsfd = m[f].vsfd
    BY <1>1 DEF StatMap, IsOnlineMap, OnlineInfo
<1> HIDE DEF n
<1>4. Fits(n, reg, tab, pairs)
    BY <1>2, <1>3 DEF Fits
<1>5. QED
    BY <1>2, <1>4 DEF n

\* The pairs a vs by the connection c makes.
Pairs(c, m, name) ==
    {{c, table[f - FirstFd + 1]} : f \in {g \in NamedIn(m, name) : g - FirstFd + 1 \in DOMAIN table}}

\* vs by the connection on the i-th descriptor.
LEMMA FitsVs ==
    ASSUME NEW m, NEW reg, NEW pairs, TableOK(table), Fits(m, reg, table, pairs),
           NEW i \in 1..Len(table), FirstFd - 1 + i \in DOMAIN m, NEW name \in Names,
           NEW enemy \in NamedIn(m, name)
    PROVE  /\ Fits(VsMap(m, FirstFd - 1 + i, name, enemy), reg, table,
                   pairs \cup Pairs(table[i], m, name))
           /\ DOMAIN m \subseteq DOMAIN VsMap(m, FirstFd - 1 + i, name, enemy)
<1> DEFINE fd == FirstFd - 1 + i  n == VsMap(m, fd, name, enemy)
           more == pairs \cup Pairs(table[i], m, name)
<1>1. IsOnlineMap(m) /\ fd \in DOMAIN m /\ Holder(table, fd) = table[i]
    BY TableFds DEF Fits
<1>2. \A f \in NamedIn(m, name) : f \in DOMAIN m /\ {table[i], Holder(table, f)} \in more
  <2>1. TAKE f \in NamedIn(m, name)
  <2>2. f \in DOMAIN m /\ f \in FirstFd..(FirstFd + Len(table) - 1)
      BY DEF NamedIn, Fits
  <2>3. f - FirstFd + 1 \in DOMAIN table
      BY <2>2, TableFds DEF TableOK
  <2>4. QED
      BY <2>2, <2>3 DEF Pairs, Holder
<1> HIDE DEF fd, more
<1>3. /\ IsOnlineMap(n) /\ DOMAIN n = DOMAIN m /\ n[fd].vsfd = enemy
      /\ \A f \in DOMAIN m \ {fd} : n[f].vsfd = IF m[f].name = name THEN fd ELSE m[f].vsfd
      /\ \A f \in DOMAIN m : n[f].name = m[f].name
    BY <1>1, Lemmas!VsMapEntries, SameOperators, FdsAssumption
<1> HIDE DEF n
<1>4. pairs \subseteq more
    BY DEF more
<1>5. ASSUME NEW f \in DOMAIN n
      PROVE  n[f].vsfd = NoFd \/
             (n[f].vsfd \in DOMAIN n /\ {Holder(table, f), Holder(table, n[f].vsfd)} \in more)
  <2>1. CASE f = fd
      BY <1>1, <1>2, <1>3, <2>1
  <2>2. CASE f # fd /\ m[f].name = name
    <3>1. f \in NamedIn(m, name)
        BY <1>3, <2>2 DEF NamedIn
    <3>2. {Holder(table, f), table[i]} \in more
      <4>1. {Holder(table, f), table[i]} = {table[i], Holder(table, f)}
          OBVIOUS
      <4>2. QED
          BY <1>2, <3>1, <4>1
    <3>3. QED
        BY <1>1, <1>3, <2>2, <3>2
  <2>3. CASE f # fd /\ m[f].name # name
      BY <1>3, <1>4, <2>3 DEF Fits
  <2>4. QED
      BY <2>1, <2>2, <2>3
<1>6. Fits(n, reg, table, more)
    BY <1>3, <1>5 DEF Fits
<1>7. QED
    BY <1>3, <1>6 DEF n, fd, more

\* The last of those who have a name exists when there is one.
LEMMA LastExists ==
    ASSUME NEW m, NEW reg, NEW tab, NEW pairs, TableOK(tab), Fits(m, reg, tab, pairs),
           NEW name, NamedIn(m, name) # {}
    PROVE  \E e \in NamedIn(m, name) : e \in LastOf(NamedIn(m, name))
<1> DEFINE S == NamedIn(m, name)  n == FirstFd + Len(tab)
<1>1. n \in Nat /\ S \subseteq FirstFd..(FirstFd + Len(tab) - 1)
    BY TableFds DEF NamedIn, Fits
<1>2. S \in SUBSET (0..n)
  <2>1. FirstFd..(FirstFd + Len(tab) - 1) \subseteq 0..n
    <3>1. FirstFd \in Nat /\ Len(tab) \in Nat
        BY TableFds DEF TableOK
    <3>2. QED
        BY <3>1
  <2> HIDE DEF S, n
  <2>2. QED
      BY <1>1, <2>1
<1> HIDE DEF S, n
<1>3. S # {}
    BY DEF S
<1>4. Max(S) \in S /\ \A k \in S : k <= Max(S)
    BY <1>1, <1>2, <1>3, MaxIsGreatest
<1>5. QED
    BY <1>4 DEF LastOf, S

\* What has been registered when the request of a child is done.
RegAfter(me, reg) ==
    IF me.req.cmd = "reg" THEN [reg EXCEPT ![me.conn] = me.req.body] ELSE reg

\* A method that writes, by the connection on the i-th descriptor.
LEMMA UpdatedFits ==
    ASSUME NEW m, NEW reg, TableOK(table), Fits(m, reg, table, paired), DOMAIN reg = Conns,
           NEW i \in 1..Len(table), NEW me, me.conn = table[i],
           me.req.cmd \in {"reg", "vs"} => me.req.body \in Names,
           Writes(m, FirstFd - 1 + i, me.req),
           NEW more, paired \subseteq more,
           me.req.cmd = "vs" => Pairs(me.conn, m, me.req.body) \subseteq more
    PROVE  /\ Fits(Updated(m, FirstFd - 1 + i, me.req), RegAfter(me, reg), table, more)
           /\ DOMAIN m \subseteq DOMAIN Updated(m, FirstFd - 1 + i, me.req)
<1> DEFINE fd == FirstFd - 1 + i  n == Updated(m, fd, me.req)
<1>1. CASE me.req.cmd = "reg"
  <2>1. n = RegMap(m, fd, me.req.body)
      BY <1>1 DEF Updated
  <2>2. /\ Fits(RegMap(m, fd, me.req.body), [reg EXCEPT ![table[i]] = me.req.body], table, paired)
        /\ DOMAIN m \subseteq DOMAIN RegMap(m, fd, me.req.body)
      BY <1>1, FitsReg
  <2>3. RegAfter(me, reg) = [reg EXCEPT ![table[i]] = me.req.body]
      BY <1>1 DEF RegAfter
  <2> HIDE DEF fd, n
  <2>4. Fits(n, RegAfter(me, reg), table, paired)
      BY <2>1, <2>2, <2>3
  <2>5. QED
      BY <2>1, <2>2, <2>4, FitsMorePairs DEF n, fd
<1>2. CASE me.req.cmd = "vs"
  <2>1. fd \in DOMAIN m /\ NamedIn(m, me.req.body) # {} /\ RegAfter(me, reg) = reg
      BY <1>2 DEF Writes, RegAfter
  <2> DEFINE e == CHOOSE e \in LastOf(NamedIn(m, me.req.body)) : TRUE
  <2>2. e \in LastOf(NamedIn(m, me.req.body)) /\ e \in NamedIn(m, me.req.body)
      BY <2>1, LastExists DEF LastOf
  <2>3. n = VsMap(m, fd, me.req.body, e)
      BY <1>2, <2>1 DEF Updated
  <2> HIDE DEF e
  <2>4. /\ Fits(VsMap(m, fd, me.req.body, e), reg, table,
                paired \cup Pairs(table[i], m, me.req.body))
        /\ DOMAIN m \subseteq DOMAIN VsMap(m, fd, me.req.body, e)
      BY <1>2, <2>1, <2>2, FitsVs
  <2>5. paired \cup Pairs(table[i], m, me.req.body) \subseteq more
      BY <1>2
  <2> HIDE DEF n, fd
  <2>6. Fits(n, RegAfter(me, reg), table, more)
      BY <2>1, <2>3, <2>4, <2>5, FitsMorePairs
  <2>7. QED
      BY <2>3, <2>4, <2>6 DEF n, fd
<1>3. CASE me.req.cmd \notin {"reg", "vs"}
  <2>1. me.req.cmd = "off" /\ fd \in DOMAIN m /\ RegAfter(me, reg) = reg
      BY <1>3 DEF Writes, RegAfter
  <2>2. n = StatMap(m, fd, ONLINE_STAT_OFF)
      BY <2>1 DEF Updated
  <2>3. ONLINE_STAT_OFF \in ONLINE_STAT
      BY DEF ONLINE_STAT
  <2>4. Fits(n, reg, table, paired) /\ DOMAIN m \subseteq DOMAIN n
      BY <2>1, <2>2, <2>3, FitsStat
  <2> HIDE DEF n
  <2>5. QED
      BY <2>1, <2>4, FitsMorePairs DEF n
<1>4. QED
    BY <1>1, <1>2, <1>3

\* The text s shows a map that fits, and shows it whatever shorter text is
\* written over it next.
TextOK(s, reg, tab, pairs) == Keeps(s, Rebuild(s)) /\ Fits(Rebuild(s), reg, tab, pairs)

\* A method's new text over the one it has read.
LEMMA WrittenOver ==
    ASSUME RecordsFit, NEW s, NEW reg, NEW pairs, TableOK(table), TextOK(s, reg, table, pairs),
           NEW n, NEW new, NEW more, Fits(n, new, table, more), DOMAIN Rebuild(s) \subseteq DOMAIN n
    PROVE  Content(n) \in Seq(Char) /\ TextOK(Over(s, Content(n), 0), new, table, more)
<1> DEFINE m == Rebuild(s)  t == Over(s, Content(n), 0)
<1>1. Keeps(s, m) /\ s \in Seq(Char) /\ Fits(m, reg, table, pairs)
    BY DEF TextOK, Keeps
<1>2. IsOnlineMap(n) /\ IsFiniteSet(DOMAIN n)
    BY FitsIsFinite DEF Fits
<1>3. Content(n) \in Seq(Char)
    BY <1>2, ContentIsText, OnlineMapIsPlain
<1>4. t = Content(n) \o End(s, Len(Content(n)) + 1)
    BY <1>1, <1>3, OverFromStart
<1>5. Keeps(t, n)
    BY <1>1, <1>2, <1>4, KeepsNewest
<1> HIDE DEF t
<1>6. Rebuild(t) = n
    BY <1>2, <1>5, KeepsTheMap
<1>7. TextOK(t, new, table, more)
    BY <1>5, <1>6 DEF TextOK
<1>8. QED
    BY <1>3, <1>7 DEF t

-----------------------------------------------------------------------------
(* Connections and requests.                                                *)

\* A connection is in one place: not opened yet, waiting once, or on one
\* descriptor.
Places ==
    /\ TableOK(table) /\ backlog \in Seq(Conns) /\ DOMAIN peer = Conns
    /\ \A i, j \in 1..Len(backlog) : backlog[i] = backlog[j] => i = j
    /\ \A i \in 1..Len(table), j \in 1..Len(backlog) : table[i] # backlog[j]
    /\ \A i \in 1..Len(table) : peer[table[i]] # "new"
    /\ \A j \in 1..Len(backlog) : peer[backlog[j]] # "new"

\* Only who is on a descriptor has registered.
HaveRegistered ==
    /\ DOMAIN regby = Conns
    /\ \A c \in Conns : regby[c] # <<>> => \E i \in 1..Len(table) : table[i] = c

\* Names come with the requests that need one, and a child without a
\* connection has none.
ReqOK(me) ==
    /\ me.req.cmd \in {"reg", "vs"} => me.req.body \in Names
    /\ me.conn = NoConn => me.req.cmd \in {"none", "off"}

AllReqsOK ==
    /\ DOMAIN inbox = Conns
    /\ \A c \in Conns : inbox[c] # <<>> => Head(inbox[c]) \in Requests[c]
    /\ \A k \in Kids : ReqOK(children[k])

Placed == IInv /\ Places /\ HaveRegistered /\ AllReqsOK

\* What a child's step changes of the children.
LEMMA ChildrenAfter ==
    ASSUME IInv, NEW k \in Kids, NEW new, Become(k, new)
    PROVE  Kids' = Kids /\ children'[k] = new /\ \A j \in Kids \ {k} : children'[j] = children[j]
<1>1. PICK S : children \in Seq(S)
    BY DEF IInv, IsSeq
<1>2. QED
    BY <1>1 DEF Become, Kids

\* The connection of a child is on the last of the descriptors it was forked with.
LEMMA OwnFd ==
    ASSUME IInv, TableOK(table), NEW k \in Kids, children[k].conn # NoConn
    PROVE  /\ children[k].nfds \in 1..Len(table) /\ children[k].conn = table[children[k].nfds]
           /\ children[k].conn \in Conns
           /\ MyFd(k) = FirstFd - 1 + children[k].nfds
<1> DEFINE n == children[k].nfds  c == children[k].conn
<1>1. Len(table) \in Nat /\ table \in Seq(Conns) /\ DOMAIN table = 1..Len(table)
    BY DEF TableOK
<1>2. n \in 1..Len(table) /\ c = table[n]
    BY <1>1 DEF IInv, ChildOK
<1>3. (CHOOSE i \in DOMAIN table : table[i] = c) = n
    BY <1>1, <1>2 DEF TableOK
<1>4. Fd(c) = FirstFd - 1 + n
    BY <1>3 DEF Fd
<1>5. c \in Conns
    BY <1>1, <1>2
<1> HIDE DEF n
<1>6. MyFd(k) = FirstFd - 1 + n
    BY <1>4 DEF MyFd
<1>7. QED
    BY <1>2, <1>5, <1>6 DEF n

\* Fd finds the descriptor of a connection of the table.
LEMMA FdOf ==
    ASSUME TableOK(table), NEW i \in 1..Len(table)
    PROVE  Fd(table[i]) = FirstFd - 1 + i
<1>1. DOMAIN table = 1..Len(table)
    BY DEF TableOK
<1>2. (CHOOSE j \in DOMAIN table : table[j] = table[i]) = i
    BY <1>1 DEF TableOK
<1>3. QED
    BY <1>2 DEF Fd

\* At the beginning there is no connection anywhere.
LEMMA InitPlaced == Init => Placed
<1>1. <<>> \in Seq(Conns) /\ Len(<<>>) = 0 /\ DOMAIN <<>> = {}
    OBVIOUS
<1>2. Init => TableOK(table)
    BY <1>1, ForkAssumption DEF Init, TableOK
<1>3. Init => Places
    BY <1>1, <1>2 DEF Init, Places
<1>4. Init => HaveRegistered /\ AllReqsOK
    BY <1>1 DEF Init, HaveRegistered, AllReqsOK, Kids
<1>5. QED
    BY <1>3, <1>4, InitIInv DEF Placed

\* send only changes how open connections stand.
LEMMA SendOnPeers ==
    ASSUME DOMAIN peer = Conns, NEW c, NEW A \in BOOLEAN, NEW B \in BOOLEAN, SendOn(c, A, B)
    PROVE  DOMAIN peer' = Conns /\ \A d \in Conns : peer[d] # "new" => peer'[d] # "new"
BY DEF SendOn

\* Steps that move no connection.
LEMMA PlacesStay ==
    ASSUME Places, UNCHANGED <<table, backlog>>, DOMAIN peer' = Conns,
           \A d \in Conns : peer[d] # "new" => peer'[d] # "new"
    PROVE  Places'
<1>1. \A i \in 1..Len(table) : table[i] \in Conns
    BY DEF Places, TableOK
<1>2. \A j \in 1..Len(backlog) : backlog[j] \in Conns
    BY DEF Places
<1>3. QED
    BY <1>1, <1>2 DEF Places

\* Connecting, accepting and closing move a connection forward only.
LEMMA PlacesNext == Placed /\ [Next]_vars => Places'
<1> SUFFICES ASSUME Placed, [Next]_vars PROVE Places'
    OBVIOUS
<1>1. Places /\ DOMAIN peer = Conns
    BY DEF Placed, Places
<1>2. CASE \E c \in Conns : Connect(c)
  <2>1. PICK c \in Conns : /\ peer[c] = "new" /\ peer' = [peer EXCEPT ![c] = "open"]
                           /\ backlog' = Append(backlog, c) /\ UNCHANGED table
      BY <1>2 DEF Connect
  <2>2. backlog \in Seq(Conns) /\ Len(backlog) \in Nat
      BY <1>1 DEF Places
  <2>3. /\ backlog' \in Seq(Conns) /\ Len(backlog') = Len(backlog) + 1
        /\ backlog'[Len(backlog) + 1] = c
        /\ \A j \in 1..Len(backlog) : backlog'[j] = backlog[j]
      BY <2>1, <2>2
  <2>4. \A j \in 1..Len(backlog') : j \in 1..Len(backlog) \/ j = Len(backlog) + 1
      BY <2>2, <2>3
  <2>5. \A j \in 1..Len(backlog) : backlog[j] # c
      BY <1>1, <2>1 DEF Places
  <2>6. \A i \in 1..Len(table) : table[i] # c
      BY <1>1, <2>1 DEF Places
  <2>7. \A i, j \in 1..Len(backlog') : backlog'[i] = backlog'[j] => i = j
      BY <1>1, <2>3, <2>4, <2>5 DEF Places
  <2>8. \A i \in 1..Len(table), j \in 1..Len(backlog') : table[i] # backlog'[j]
      BY <1>1, <2>3, <2>4, <2>6 DEF Places
  <2>9. DOMAIN peer' = Conns /\ \A d \in Conns : peer'[d] # "new" <=> (d = c \/ peer[d] # "new")
      BY <1>1, <2>1
  <2>10. \A i \in 1..Len(table) : table[i] \in Conns
      BY <1>1 DEF Places, TableOK
  <2>11. \A i \in 1..Len(table) : peer'[table[i]] # "new"
      BY <1>1, <2>9, <2>10 DEF Places
  <2>12. \A j \in 1..Len(backlog') : peer'[backlog'[j]] # "new"
    <3>1. \A j \in 1..Len(backlog') : backlog'[j] \in Conns
        BY <2>3
    <3>2. QED
        BY <1>1, <2>3, <2>4, <2>9, <3>1 DEF Places
  <2>13. QED
      BY <1>1, <2>1, <2>3, <2>7, <2>8, <2>9, <2>11, <2>12 DEF Places
<1>3. CASE Accept /\ Len(table) < MaxFds
  <2>1. /\ table' = Append(table, Head(backlog)) /\ backlog' = Tail(backlog)
        /\ backlog # <<>> /\ UNCHANGED peer
      BY <1>3 DEF Accept
  <2> DEFINE c == Head(backlog)
  <2>2. /\ backlog \in Seq(Conns) /\ table \in Seq(Conns) /\ Len(table) \in Nat
        /\ Len(backlog) \in Nat \ {0} /\ c = backlog[1] /\ c \in Conns
      BY <1>1, <2>1 DEF Places, TableOK
  <2>3. /\ backlog' \in Seq(Conns) /\ Len(backlog') = Len(backlog) - 1
        /\ \A j \in 1..Len(backlog') : backlog'[j] = backlog[j + 1]
      BY <2>1, <2>2
  <2>4. /\ table' \in Seq(Conns) /\ Len(table') = Len(table) + 1
        /\ table'[Len(table) + 1] = c
        /\ \A i \in 1..Len(table) : table'[i] = table[i]
      BY <2>1, <2>2
  <2> HIDE DEF c
  <2>5. \A j \in 1..Len(backlog') : j + 1 \in 1..Len(backlog) /\ j + 1 # 1
      BY <2>2, <2>3
  <2>6. \A i \in 1..Len(table') : i \in 1..Len(table) \/ i = Len(table) + 1
      BY <2>2, <2>4
  <2>7. 1 \in 1..Len(backlog)
      BY <2>2
  <2>8. \A i \in 1..Len(table) : table[i] # c
      BY <1>1, <2>2, <2>7 DEF Places
  <2>9. \A j \in 1..Len(backlog') : backlog'[j] # c
      BY <1>1, <2>2, <2>3, <2>5, <2>7 DEF Places
  <2>10. \A i, j \in 1..Len(backlog') : backlog'[i] = backlog'[j] => i = j
    <3>1. TAKE i, j \in 1..Len(backlog')
    <3>2. HAVE backlog'[i] = backlog'[j]
    <3>3. backlog[i + 1] = backlog[j + 1]
        BY <2>3, <3>2
    <3>4. i + 1 = j + 1
        BY <1>1, <2>5, <3>3 DEF Places
    <3>5. QED
        BY <2>2, <2>3, <3>4
  <2>11. \A i, j \in 1..Len(table') : table'[i] = table'[j] => i = j
      BY <1>1, <2>4, <2>6, <2>8 DEF Places, TableOK
  <2>12. Len(table') <= MaxFds
      BY <1>3, <2>2, <2>4, ForkAssumption
  <2>13. TableOK(table')
      BY <2>4, <2>11, <2>12 DEF TableOK
  <2>14. \A i \in 1..Len(table'), j \in 1..Len(backlog') : table'[i] # backlog'[j]
      BY <1>1, <2>3, <2>4, <2>5, <2>6, <2>9, SMTT(30) DEF Places
  <2>15. \A i \in 1..Len(table') : peer[table'[i]] # "new"
      BY <1>1, <2>2, <2>4, <2>6, <2>7 DEF Places
  <2>16. \A j \in 1..Len(backlog') : peer[backlog'[j]] # "new"
      BY <1>1, <2>3, <2>5 DEF Places
  <2>17. QED
      BY <1>1, <2>1, <2>3, <2>10, <2>13, <2>14, <2>15, <2>16 DEF Places
<1>4. CASE Accept /\ ~(Len(table) < MaxFds)
    BY <1>1, <1>4, PlacesStay DEF Accept
<1>5. CASE Welcome
  <2>1. SendOn(Last(table), ppc' = "fork", ppc' = "dead") /\ UNCHANGED <<table, backlog>>
      BY <1>5 DEF Welcome
  <2>2. QED
      BY <1>1, <2>1, SendOnPeers, PlacesStay
<1>6. CASE \E k \in Kids : Send(k)
  <2>1. PICK k \in Kids : Send(k)
      BY <1>6
  <2>2. /\ DOMAIN peer' = Conns /\ \A d \in Conns : peer[d] # "new" => peer'[d] # "new"
        /\ UNCHANGED <<table, backlog>>
      BY <1>1, <2>1 DEF Send, SendOn
  <2>3. QED
      BY <1>1, <2>2, PlacesStay
<1>7. CASE \E c \in Conns : SendRequest(c) \/ Receive(c) \/ Leave(c) \/ Abort(c)
  <2>1. /\ DOMAIN peer' = Conns /\ \A d \in Conns : peer[d] # "new" => peer'[d] # "new"
        /\ UNCHANGED <<table, backlog>>
      BY <1>1, <1>7 DEF SendRequest, Receive, Leave, Abort
  <2>2. QED
      BY <1>1, <2>1, PlacesStay
<1>8. CASE \/ Fork \/ UNCHANGED vars
           \/ \E k \in Kids : Recv(k) \/ ReadFront(k) \/ ReadBack(k) \/ CopyFront(k) \/ CopyBack(k)
  <2>1. UNCHANGED <<table, backlog, peer>>
      BY <1>8 DEF Fork, Recv, ReadFront, ReadBack, CopyFront, CopyBack, vars, netVars
  <2>2. QED
      BY <1>1, <2>1, PlacesStay
<1>9. QED
    BY <1>2, <1>3, <1>4, <1>5, <1>6, <1>7, <1>8 DEF Next, Parent, Serve, Client

\* What a child does with its request: it takes one, keeps it or is done with it.
LEMMA ReqStays ==
    ASSUME Placed, NEW k \in Kids, NEW new, Become(k, new), ReqOK(new), UNCHANGED inbox
    PROVE  AllReqsOK'
<1>1. /\ Kids' = Kids /\ children'[k] = new
      /\ \A j \in Kids \ {k} : children'[j] = children[j]
    BY ChildrenAfter DEF Placed
<1>2. \A j \in Kids' : ReqOK(children'[j])
    BY <1>1 DEF Placed, AllReqsOK
<1>3. QED
    BY <1>2 DEF Placed, AllReqsOK, ReqOK

\* A child that is done with its request has none.
LEMMA DoneReq == ASSUME NEW me, DOMAIN me = Fields PROVE ReqOK(Done(me)) /\ Done(me).at = 0
BY DEF ReqOK, Done, Idle, Fields

\* What Apply makes of a child.
LEMMA ApplyGives ==
    ASSUME IInv, NEW k \in Kids, NEW m, Apply(k, m)
    PROVE  \E new : /\ Become(k, new)
                    /\ new.conn = children[k].conn
                    /\ new.req = children[k].req \/ (new = Done(children[k]) /\ new.pc \in {"recv", "dead"})
                    /\ \/ new.pc \in {"recv", "dead"} /\ new = Done(children[k])
                       \/ /\ new.pc = "send" /\ new.at = children[k].at
                          /\ children[k].req.cmd = "hit" => new.to = GetVsFD(m, MyFd(k))
                       \/ /\ new.pc = "copy" /\ new.at = children[k].at
                          /\ Writes(m, MyFd(k), children[k].req)
                          /\ new.out = Content(Updated(m, MyFd(k), children[k].req))
<1> DEFINE old == children[k]
           me == [children[k] EXCEPT !.seen = <<>>, !.len = 0]
           to == IF me.req.cmd = "hit" THEN GetVsFD(m, MyFd(k)) ELSE MyFd(k)
<1>1. DOMAIN old = Fields
    BY DEF IInv, ChildOK
<1>2. /\ DOMAIN me = Fields /\ me.conn = old.conn /\ me.req = old.req /\ me.at = old.at
      /\ me.nfds = old.nfds /\ me.pc = old.pc
    BY <1>1 DEF Fields
<1>3. Done(me) = Done(old)
    BY <1>1 DEF Done, Fields
<1>4. Done(old).pc \in {"recv", "dead"} /\ Done(old).conn = old.conn
    BY <1>1 DEF Done, Fields
<1>5. Become(k, IF me.req.cmd \in {"hit", "onlineinfo"}
                THEN IF to # 0 THEN [me EXCEPT !.pc = "send", !.to = to] ELSE Done(me)
                ELSE IF Writes(m, MyFd(k), me.req)
                     THEN [me EXCEPT !.pc = "copy", !.out = Content(Updated(m, MyFd(k), me.req))]
                     ELSE Done(me))
    BY DEF Apply
<1> HIDE DEF me, to
<1>6. CASE me.req.cmd \in {"hit", "onlineinfo"} /\ to # 0
  <2> DEFINE new == [me EXCEPT !.pc = "send", !.to = to]
  <2>1. Become(k, new)
      BY <1>5, <1>6
  <2>2. new.pc = "send" /\ new.to = to /\ new.conn = me.conn /\ new.req = me.req /\ new.at = me.at
      BY <1>2 DEF Fields
  <2>3. old.req.cmd = "hit" => to = GetVsFD(m, MyFd(k))
      BY <1>2 DEF to
  <2> HIDE DEF new
  <2>4. QED
      BY <1>2, <2>1, <2>2, <2>3
<1>7. CASE me.req.cmd \notin {"hit", "onlineinfo"} /\ Writes(m, MyFd(k), me.req)
  <2> DEFINE new == [me EXCEPT !.pc = "copy", !.out = Content(Updated(m, MyFd(k), me.req))]
  <2>1. Become(k, new)
      BY <1>5, <1>7
  <2>2. /\ new.pc = "copy" /\ new.out = Content(Updated(m, MyFd(k), me.req))
        /\ new.conn = me.conn /\ new.req = me.req /\ new.at = me.at
      BY <1>2 DEF Fields
  <2> HIDE DEF new
  <2>3. QED
      BY <1>2, <1>7, <2>1, <2>2
<1>8. CASE Become(k, Done(old))
    BY <1>4, <1>8
<1>9. QED
    BY <1>3, <1>5, <1>6, <1>7, <1>8

\* Every request a child has is one a client sends, or the end of its connection.
LEMMA ReqsNext == Placed /\ [Next]_vars => AllReqsOK'
<1> SUFFICES ASSUME Placed, [Next]_vars PROVE AllReqsOK'
    OBVIOUS
<1>1. IInv /\ AllReqsOK /\ Places
    BY DEF Placed
<1>2. CASE \E c \in Conns : SendRequest(c)
  <2>1. PICK c \in Conns : SendRequest(c)
      BY <1>2
  <2>2. UNCHANGED children /\ \E r \in Requests[c] : inbox' = [inbox EXCEPT ![c] = <<r>>]
      BY <2>1 DEF SendRequest
  <2>3. PICK r \in Requests[c] : inbox' = [inbox EXCEPT ![c] = <<r>>]
      BY <2>2
  <2>4. Head(<<r>>) = r
      OBVIOUS
  <2>5. /\ DOMAIN inbox' = Conns
        /\ \A d \in Conns : inbox'[d] # <<>> => Head(inbox'[d]) \in Requests[d]
      BY <1>1, <2>3, <2>4 DEF AllReqsOK
  <2>6. QED
      BY <1>1, <2>2, <2>5 DEF AllReqsOK, Kids, ReqOK
<1>3. ASSUME NEW k \in Kids, Recv(k) PROVE AllReqsOK'
  <2> DEFINE me == children[k]  c == me.conn
  <2>1. DOMAIN me = Fields
      BY <1>1 DEF IInv, ChildOK
  <2>2. CASE /\ c # NoConn /\ inbox[c] # <<>>
             /\ inbox' = [inbox EXCEPT ![c] = <<>>]
             /\ Become(k, [me EXCEPT !.pc = "read", !.req = Head(inbox[c])])
    <3>1. c \in Conns
        BY <1>1, <2>2, OwnFd DEF Places
    <3>2. PICK new : new = [me EXCEPT !.pc = "read", !.req = Head(inbox[c])]
        OBVIOUS
    <3>3. new.req = Head(inbox[c]) /\ new.conn = c
        BY <2>1, <3>2 DEF Fields
    <3>4. Head(inbox[c]) \in Requests[c]
        BY <1>1, <2>2, <3>1 DEF AllReqsOK
    <3>5. ReqOK(new)
        BY <2>2, <3>1, <3>3, <3>4, RequestsAssumption DEF ReqOK
    <3>6. /\ Kids' = Kids /\ children'[k] = new
          /\ \A j \in Kids \ {k} : children'[j] = children[j]
        BY <1>1, <2>2, <3>2, ChildrenAfter
    <3>7. \A j \in Kids' : ReqOK(children'[j])
        BY <1>1, <3>5, <3>6 DEF AllReqsOK
    <3>8. /\ DOMAIN inbox' = Conns
          /\ \A d \in Conns : inbox'[d] # <<>> => Head(inbox'[d]) \in Requests[d]
        BY <1>1, <2>2, <3>1 DEF AllReqsOK
    <3>9. QED
        BY <3>7, <3>8 DEF AllReqsOK, ReqOK
  <2>3. CASE /\ Become(k, [me EXCEPT !.pc = "read", !.req = [Idle EXCEPT !.cmd = "off"]])
             /\ UNCHANGED inbox
    <3>1. PICK new : new = [me EXCEPT !.pc = "read", !.req = [Idle EXCEPT !.cmd = "off"]]
        OBVIOUS
    <3>2. new.req.cmd = "off"
        BY <2>1, <3>1 DEF Fields, Idle
    <3>3. ReqOK(new)
        BY <3>2 DEF ReqOK
    <3>4. QED
        BY <2>3, <3>1, <3>3, ReqStays
  <2>4. QED
      BY <1>3, <2>2, <2>3 DEF Recv
<1>4. ASSUME NEW k \in Kids, NEW m, Apply(k, m), UNCHANGED inbox PROVE AllReqsOK'
  <2>1. PICK new : /\ Become(k, new) /\ new.conn = children[k].conn
                   /\ new.req = children[k].req \/ new = Done(children[k])
      BY <1>1, <1>4, ApplyGives
  <2>2. DOMAIN children[k] = Fields /\ ReqOK(children[k])
      BY <1>1 DEF IInv, ChildOK, AllReqsOK
  <2>3. ReqOK(new)
      BY <2>1, <2>2, DoneReq DEF ReqOK
  <2>4. QED
      BY <1>4, <2>1, <2>3, ReqStays
<1>5. ASSUME NEW k \in Kids, CopyFront(k) \/ CopyBack(k) \/ Send(k) \/ (ReadFront(k) /\ ~\E m : Apply(k, m))
      PROVE  AllReqsOK'
  <2> DEFINE me == children[k]
  <2>1. DOMAIN me = Fields /\ ReqOK(me)
      BY <1>1 DEF IInv, ChildOK, AllReqsOK
  <2>2. UNCHANGED inbox
      BY <1>5 DEF CopyFront, CopyBack, Send, ReadFront, netVars
  <2>3. PICK new : /\ Become(k, new)
                   /\ \/ new = Done(me) \/ new = [Done(me) EXCEPT !.pc = "dead"]
                      \/ \E n : new = [me EXCEPT !.pc = "copying", !.at = n]
                      \/ \E n : new = [me EXCEPT !.pc = "reading", !.len = Len(shm),
                                                     !.seen = SubSeq(shm, 1, n)]
    <3>1. CASE CopyFront(k)
        BY <3>1 DEF CopyFront
    <3>2. CASE CopyBack(k)
        BY <3>2 DEF CopyBack
    <3>3. CASE Send(k)
        BY <3>3 DEF Send, SendOn
    <3>4. CASE ReadFront(k) /\ ~\E m : Apply(k, m)
      <4>1. PICK n \in Nat \cup Cuts :
                Become(k, [me EXCEPT !.pc = "reading", !.len = Len(shm), !.seen = SubSeq(shm, 1, n)])
          BY <3>4 DEF ReadFront
      <4>2. QED
          BY <4>1
    <3>5. QED
        BY <1>5, <3>1, <3>2, <3>3, <3>4
  <2>4. ReqOK(new)
    <3>1. CASE new = Done(me) \/ new = [Done(me) EXCEPT !.pc = "dead"]
      <4>1. ReqOK(Done(me)) /\ DOMAIN Done(me) = Fields
          BY <2>1, DoneReq, DoneGoesOn
      <4>2. new.req = Done(me).req /\ new.conn = Done(me).conn
          BY <3>1, <4>1 DEF Fields
      <4>3. QED
          BY <4>1, <4>2 DEF ReqOK
    <3>2. CASE \/ \E n : new = [me EXCEPT !.pc = "copying", !.at = n]
               \/ \E n : new = [me EXCEPT !.pc = "reading", !.len = Len(shm),
                                                     !.seen = SubSeq(shm, 1, n)]
        BY <2>1, <3>2 DEF Fields, ReqOK
    <3>3. QED
        BY <2>3, <3>1, <3>2
  <2>5. QED
      BY <2>2, <2>3, <2>4, ReqStays
<1>6. CASE Fork /\ children' # children
  <2>1. PICK conn : children' = Append(children, NewChild(conn)) /\ UNCHANGED inbox
      BY <1>6 DEF Fork, netVars
  <2>2. PICK new : new = NewChild(conn)
      OBVIOUS
  <2>3. ReqOK(new)
      BY <2>2 DEF NewChild, Idle, ReqOK
  <2>4. /\ Len(children) \in Nat /\ Kids = 1..Len(children) /\ IsSeq(children')
        /\ Len(children') = Len(children) + 1
        /\ \A i \in 1..Len(children) : children'[i] = children[i]
        /\ children'[Len(children) + 1] = new
      BY <1>1, <2>1, <2>2, Appended, Lengths DEF IInv, Kids
  <2>5. Kids' = 1..(Len(children) + 1)
      BY <2>4, Lengths DEF Kids
  <2>6. \A j \in Kids' : j \in Kids \/ j = Len(children) + 1
      BY <2>4, <2>5
  <2>7. \A j \in Kids' : ReqOK(children'[j])
      BY <1>1, <2>3, <2>4, <2>6 DEF AllReqsOK
  <2>8. QED
      BY <1>1, <2>1, <2>7 DEF AllReqsOK, ReqOK
<1>7. CASE \/ Accept \/ Welcome \/ (Fork /\ UNCHANGED children) \/ UNCHANGED vars
           \/ \E c \in Conns : Connect(c) \/ Receive(c) \/ Leave(c) \/ Abort(c)
  <2>1. UNCHANGED <<children, inbox>>
      BY <1>7 DEF Accept, Welcome, Fork, Connect, Receive, Leave, Abort, vars, netVars
  <2>2. QED
      BY <1>1, <2>1 DEF AllReqsOK, Kids, ReqOK
<1>8. ASSUME NEW k \in Kids, ReadFront(k) PROVE AllReqsOK'
  <2>1. UNCHANGED inbox
      BY <1>8 DEF ReadFront, netVars
  <2>2. QED
      BY <1>4, <1>5, <1>8, <2>1
<1>9. ASSUME NEW k \in Kids, ReadBack(k) PROVE AllReqsOK'
    BY <1>4, <1>9 DEF ReadBack, netVars
<1>10. QED
    BY <1>2, <1>3, <1>5, <1>6, <1>7, <1>8, <1>9 DEF Next, Parent, Serve, Client

\* A registration comes from a child with a connection.
LEMMA RegisteredNext == Placed /\ [Next]_vars => HaveRegistered'
<1> SUFFICES ASSUME Placed, [Next]_vars PROVE HaveRegistered'
    OBVIOUS
<1>1. IInv /\ HaveRegistered /\ Places /\ AllReqsOK
    BY DEF Placed
<1>2. table \in Seq(Conns) /\ Len(table) \in Nat
    BY <1>1 DEF Places, TableOK
<1>3. CASE UNCHANGED <<table, regby>>
    BY <1>1, <1>3 DEF HaveRegistered
<1>4. CASE UNCHANGED regby /\ \E c \in Conns : table' = Append(table, c)
  <2>1. PICK c \in Conns : table' = Append(table, c)
      BY <1>4
  <2>2. Len(table') = Len(table) + 1 /\ \A i \in 1..Len(table) : table'[i] = table[i] /\ i \in 1..Len(table')
      BY <1>2, <2>1
  <2>3. QED
      BY <1>1, <1>4, <2>2 DEF HaveRegistered
<1>5. ASSUME NEW k \in Kids, CopyFront(k) \/ CopyBack(k), regby' # regby PROVE HaveRegistered'
  <2> DEFINE me == children[k]
  <2>1. Registered(me) /\ UNCHANGED table
      BY <1>5 DEF CopyFront, CopyBack
  <2>2. me.req.cmd = "reg" /\ regby' = [regby EXCEPT ![me.conn] = me.req.body]
      BY <1>5, <2>1 DEF Registered
  <2>3. me.conn # NoConn
      BY <1>1, <2>2 DEF AllReqsOK, ReqOK
  <2>4. me.nfds \in 1..Len(table) /\ me.conn = table[me.nfds]
      BY <1>1, <2>3, OwnFd DEF Places
  <2> HIDE DEF me
  <2>5. QED
      BY <1>1, <2>1, <2>2, <2>4 DEF HaveRegistered
<1>6. CASE Accept
  <2>1. backlog # <<>> => Head(backlog) \in Conns
      BY <1>1 DEF Places
  <2>2. QED
      BY <1>3, <1>4, <1>6, <2>1 DEF Accept, histVars
<1>7. CASE \/ Welcome \/ Fork \/ UNCHANGED vars \/ \E c \in Conns : Client(c)
           \/ \E k \in Kids : Recv(k) \/ ReadFront(k) \/ ReadBack(k) \/ Send(k)
    BY <1>3, <1>7 DEF Welcome, Fork, Client, Connect, SendRequest, Receive, Leave, Abort,
        Recv, ReadFront, ReadBack, Send, vars, histVars
<1>8. CASE \E k \in Kids : CopyFront(k) \/ CopyBack(k)
  <2>1. UNCHANGED table
      BY <1>8 DEF CopyFront, CopyBack
  <2>2. QED
      BY <1>3, <1>5, <1>8, <2>1
<1>9. QED
    BY <1>6, <1>7, <1>8 DEF Next, Parent, Serve

\* All of it is kept by every step.
LEMMA NextPlaced == Placed /\ [Next]_vars => Placed'
BY PlacesNext, ReqsNext, RegisteredNext, NextIInv DEF Placed

-----------------------------------------------------------------------------
(* One method at a time.                                                    *)

\* An opponent that has been looked up, and not used yet.
LookedUp(me, tab, pairs) ==
    \/ me.to = NoFd
    \/ /\ me.to \in FirstFd..(FirstFd + Len(tab) - 1)
       /\ {me.conn, Holder(tab, me.to)} \in pairs

\* Where a child is in its method: what it has read is the beginning of the
\* text, and what it writes leaves a text that shows a map that fits.
AtOK(me, s, reg, tab, pairs) ==
    /\ me.pc # "copying" => me.at = 0
    /\ me.pc = "reading" => \E n \in 0..Len(s) : me.seen = SubSeq(s, 1, n) /\ me.len = Len(s)
    /\ me.pc \in {"copy", "copying"} =>
          /\ me.out \in Seq(Char) /\ me.at \in 0..Len(me.out)
          /\ TextOK(Over(s, me.out, me.at), RegAfter(me, reg), tab, pairs)
    /\ me.pc = "send" /\ me.req.cmd = "hit" => LookedUp(me, tab, pairs)

Sequential ==
    /\ \A j, k \in Kids : InMethod(j) /\ InMethod(k) => j = k
    /\ (\A k \in Kids : children[k].pc # "copying") => TextOK(shm, regby, table, paired)
    /\ \A k \in Kids : AtOK(children[k], shm, regby, table, paired)
    /\ \A h \in hits : {h[1], h[2]} \in paired

\* The whole invariant.
SInv == Placed /\ (~raced => Sequential)

\* A text that fits goes on fitting when more pairs have been put together,
LEMMA TextMorePairs ==
    ASSUME NEW s, NEW reg, NEW tab, NEW pairs, TextOK(s, reg, tab, pairs),
           NEW more, pairs \subseteq more
    PROVE  TextOK(s, reg, tab, more)
BY FitsMorePairs DEF TextOK

\* and when a connection is accepted that has registered nothing.
LEMMA TextLongerTable ==
    ASSUME NEW s, NEW reg, NEW tab, NEW pairs, TableOK(tab), TextOK(s, reg, tab, pairs),
           NEW c \in Conns, reg[c] = <<>>
    PROVE  TextOK(s, reg, Append(tab, c), pairs)
BY FitsLongerTable DEF TextOK

\* The one child that is in a method takes a step of it.
LEMMA OneMoves ==
    ASSUME IInv, Sequential, NEW k \in Kids, \A j \in Kids \ {k} : ~InMethod(j),
           NEW new, Become(k, new), AtOK(new, shm', regby', table', paired'),
           new.pc # "copying" => TextOK(shm', regby', table', paired'),
           \A h \in hits' : {h[1], h[2]} \in paired'
    PROVE  Sequential'
<1>1. /\ Kids' = Kids /\ children'[k] = new
      /\ \A j \in Kids \ {k} : children'[j] = children[j]
    BY ChildrenAfter
<1>2. \A j \in Kids \ {k} : children[j].pc \in {"recv", "dead"}
    BY DEF InMethod
<1>3. \A i, j \in Kids' : InMethod(i)' /\ InMethod(j)' => i = j
    BY <1>1, <1>2 DEF InMethod
<1>4. (\A j \in Kids' : children'[j].pc # "copying") => TextOK(shm', regby', table', paired')
    BY <1>1
<1>5. ASSUME NEW j \in Kids' PROVE AtOK(children'[j], shm', regby', table', paired')
  <2>1. CASE j = k
      BY <1>1, <2>1
  <2>2. CASE j # k
    <3>1. /\ children'[j] = children[j] /\ children[j].pc \in {"recv", "dead"}
          /\ AtOK(children[j], shm, regby, table, paired)
        BY <1>1, <1>2, <1>5, <2>2 DEF Sequential
    <3>2. QED
        BY <3>1 DEF AtOK
  <2>3. QED
      BY <2>1, <2>2
<1>6. QED
    BY <1>3, <1>4, <1>5 DEF Sequential

\* The child in a method is alone in it, and before it copies the text is whole.
LEMMA TextIsWhole ==
    ASSUME Sequential, NEW k \in Kids, \A j \in Kids \ {k} : ~InMethod(j),
           children[k].pc # "copying"
    PROVE  TextOK(shm, regby, table, paired)
<1>1. \A j \in Kids : children[j].pc # "copying"
    BY DEF InMethod
<1>2. QED
    BY <1>1 DEF Sequential

\* recv: the next method begins.
LEMMA RecvSequential ==
    ASSUME Placed, Sequential, NEW k \in Kids, Recv(k), ~raced'
    PROVE  Sequential'
<1> DEFINE me == children[k]
<1>1. /\ me.pc = "recv" /\ UNCHANGED <<table, shm, regby, paired, hits>>
      /\ \A j \in Kids \ {k} : ~InMethod(j)
    BY DEF Recv
<1>2. DOMAIN me = Fields /\ IInv
    BY DEF Placed, IInv, ChildOK
<1>3. PICK req : Become(k, [me EXCEPT !.pc = "read", !.req = req])
    BY DEF Recv
<1>4. PICK new : new = [me EXCEPT !.pc = "read", !.req = req]
    OBVIOUS
<1>5. new.pc = "read" /\ new.at = me.at
    BY <1>2, <1>4 DEF Fields
<1>6. AtOK(me, shm, regby, table, paired) /\ \A h \in hits : {h[1], h[2]} \in paired
    BY DEF Sequential
<1>7. AtOK(new, shm', regby', table', paired')
    BY <1>1, <1>5, <1>6 DEF AtOK
<1>8. TextOK(shm, regby, table, paired)
    BY <1>1, TextIsWhole
<1> HIDE DEF me
<1>9. Become(k, new)
    BY <1>3, <1>4 DEF me
<1>10. QED
    BY <1>1, <1>2, <1>6, <1>7, <1>8, <1>9, OneMoves

\* What the method makes of the map it has read, when it has read the text as it is.
LEMMA ApplySequential ==
    ASSUME RecordsFit, Placed, Sequential, NEW k \in Kids, InMethod(k), children[k].pc # "copying",
           NEW m, m = Rebuild(shm), Apply(k, m),
           UNCHANGED <<table, shm, regby, hits>>
    PROVE  Sequential'
<1> DEFINE old == children[k]
<1>1. IInv /\ TableOK(table) /\ DOMAIN regby = Conns /\ ReqOK(old) /\ DOMAIN old = Fields
    BY DEF Placed, Places, HaveRegistered, AllReqsOK, IInv, ChildOK
<1>2. \A j \in Kids \ {k} : ~InMethod(j)
    BY DEF Sequential
<1>3. TextOK(shm, regby, table, paired)
    BY <1>2, TextIsWhole
<1>4. Fits(m, regby, table, paired)
    BY <1>3 DEF TextOK
<1>5. /\ paired \subseteq paired'
      /\ old.req.cmd = "vs" /\ Writes(m, MyFd(k), old.req) =>
             Pairs(old.conn, m, old.req.body) \subseteq paired'
  <2> DEFINE me == [children[k] EXCEPT !.seen = <<>>, !.len = 0]
  <2>1. me.req = old.req /\ me.conn = old.conn
      BY <1>1 DEF Fields
  <2>2. paired' = IF me.req.cmd = "vs" /\ Writes(m, MyFd(k), me.req)
                  THEN paired \cup Pairs(me.conn, m, me.req.body) ELSE paired
      BY DEF Apply, Pairs
  <2> HIDE DEF me
  <2>3. QED
      BY <2>1, <2>2
<1>6. PICK new : /\ Become(k, new)
                 /\ new.conn = old.conn
                 /\ new.req = old.req \/ (new = Done(old) /\ new.pc \in {"recv", "dead"})
                 /\ \/ new.pc \in {"recv", "dead"} /\ new = Done(old)
                    \/ /\ new.pc = "send" /\ new.at = old.at
                       /\ old.req.cmd = "hit" => new.to = GetVsFD(m, MyFd(k))
                    \/ /\ new.pc = "copy" /\ new.at = old.at
                       /\ Writes(m, MyFd(k), old.req)
                       /\ new.out = Content(Updated(m, MyFd(k), old.req))
    BY <1>1, ApplyGives
<1>7. old.at = 0
    BY DEF Sequential, AtOK
<1>8. TextOK(shm, regby, table, paired')
    BY <1>3, <1>5, TextMorePairs
<1>9. \A f \in DOMAIN m : f \in Fds /\ f # NoFd
  <2>1. DOMAIN m \subseteq Fds
      BY <1>4 DEF Fits, IsOnlineMap
  <2>2. QED
      BY <2>1, FdsAssumption DEF NoFd
<1> HIDE DEF old
<1>10. AtOK(new, shm, regby, table, paired')
  <2>1. CASE new.pc \in {"recv", "dead"} /\ new = Done(old)
    <3>1. new.at = 0
        BY <1>1, <2>1, DoneReq
    <3>2. QED
        BY <2>1, <3>1 DEF AtOK
  <2>2. CASE /\ new.pc = "send" /\ new.at = old.at
             /\ old.req.cmd = "hit" => new.to = GetVsFD(m, MyFd(k))
    <3>1. new.req = old.req
        BY <1>6, <2>2
    <3>2. ASSUME old.req.cmd = "hit" PROVE LookedUp(new, table, paired')
      <4>1. old.conn # NoConn
          BY <1>1, <3>2 DEF ReqOK
      <4>2. /\ old.nfds \in 1..Len(table) /\ old.conn = table[old.nfds]
            /\ MyFd(k) = FirstFd - 1 + old.nfds
          BY <1>1, <4>1, OwnFd DEF old
      <4>3. Holder(table, MyFd(k)) = old.conn
          BY <1>1, <4>2, TableFds
      <4>4. CASE MyFd(k) \in DOMAIN m
        <5>1. new.to = m[MyFd(k)].vsfd
            BY <2>2, <3>2, <4>4 DEF GetVsFD
        <5>2. \/ new.to = NoFd
              \/ new.to \in DOMAIN m /\ {old.conn, Holder(table, new.to)} \in paired
            BY <1>4, <4>3, <4>4, <5>1 DEF Fits
        <5>3. QED
            BY <1>4, <1>5, <1>6, <5>2 DEF LookedUp, Fits
      <4>5. CASE MyFd(k) \notin DOMAIN m
          BY <2>2, <3>2, <4>5 DEF GetVsFD, LookedUp
      <4>6. QED
          BY <4>4, <4>5
    <3>3. QED
        BY <1>7, <2>2, <3>1, <3>2 DEF AtOK
  <2>3. CASE /\ new.pc = "copy" /\ new.at = old.at
             /\ Writes(m, MyFd(k), old.req)
             /\ new.out = Content(Updated(m, MyFd(k), old.req))
    <3> DEFINE n == Updated(m, MyFd(k), old.req)
    <3>1. new.req = old.req
        BY <1>6, <2>3
    <3>2. old.conn # NoConn
      <4>1. SUFFICES ASSUME old.conn = NoConn PROVE FALSE
          OBVIOUS
      <4>2. old.req.cmd \in {"none", "off"} /\ MyFd(k) = NoFd
          BY <1>1, <4>1 DEF ReqOK, MyFd, old
      <4>3. MyFd(k) \in DOMAIN m
          BY <2>3, <4>2 DEF Writes
      <4>4. QED
          BY <1>9, <4>2, <4>3
    <3>3. /\ old.nfds \in 1..Len(table) /\ old.conn = table[old.nfds]
          /\ MyFd(k) = FirstFd - 1 + old.nfds
        BY <1>1, <3>2, OwnFd DEF old
    <3>4. /\ old.req.cmd \in {"reg", "vs"} => old.req.body \in Names
          /\ old.req.cmd = "vs" => Pairs(old.conn, m, old.req.body) \subseteq paired'
        BY <1>1, <1>5, <2>3 DEF ReqOK
    <3>5. Fits(n, RegAfter(old, regby), table, paired') /\ DOMAIN m \subseteq DOMAIN n
        BY <1>1, <1>4, <1>5, <2>3, <3>3, <3>4, UpdatedFits
    <3> HIDE DEF n
    <3>6. /\ Content(n) \in Seq(Char)
          /\ TextOK(Over(shm, Content(n), 0), RegAfter(old, regby), table, paired')
        BY <1>1, <1>3, <3>5, WrittenOver
    <3>7. new.out = Content(n)
        BY <2>3 DEF n
    <3>8. RegAfter(new, regby) = RegAfter(old, regby)
        BY <1>6, <3>1 DEF RegAfter
    <3>9. 0 \in 0..Len(Content(n))
        BY <3>6
    <3>10. QED
        BY <1>7, <2>3, <3>6, <3>7, <3>8, <3>9 DEF AtOK
  <2>4. QED
      BY <1>6, <2>1, <2>2, <2>3
<1>11. \A h \in hits' : {h[1], h[2]} \in paired'
    BY <1>5 DEF Sequential
<1>12. QED
    BY <1>1, <1>2, <1>6, <1>8, <1>10, <1>11, OneMoves

\* Read in one piece or in two, it is the text as it is.
LEMMA ReadSequential ==
    ASSUME RecordsFit, Placed, Sequential, NEW k \in Kids, ReadFront(k) \/ ReadBack(k)
    PROVE  Sequential'
<1> DEFINE me == children[k]
<1>1. IInv /\ DOMAIN me = Fields /\ UNCHANGED <<table, shm, regby, hits>>
    BY DEF Placed, IInv, ChildOK, ReadFront, ReadBack
<1>2. InMethod(k) /\ me.pc # "copying" /\ \A j \in Kids \ {k} : ~InMethod(j)
    BY DEF ReadFront, ReadBack, InMethod, Sequential
<1>3. TextOK(shm, regby, table, paired)
    BY <1>2, TextIsWhole
<1>4. shm \in Seq(Char) /\ Len(shm) \in Nat
    BY <1>3 DEF TextOK, Keeps
<1>5. CASE Apply(k, Rebuild(shm))
    BY <1>1, <1>2, <1>5, ApplySequential
<1>6. CASE ReadFront(k) /\ ~Apply(k, Rebuild(shm))
  <2>1. PICK n \in 0..(Len(shm) - 1) :
            /\ Become(k, [me EXCEPT !.pc = "reading", !.len = Len(shm),
                                    !.seen = SubSeq(shm, 1, n)])
            /\ UNCHANGED paired
      BY <1>6 DEF ReadFront
  <2>2. PICK new : new = [me EXCEPT !.pc = "reading", !.len = Len(shm),
                                    !.seen = SubSeq(shm, 1, n)]
      OBVIOUS
  <2>3. /\ new.pc = "reading" /\ new.len = Len(shm) /\ new.seen = SubSeq(shm, 1, n)
        /\ new.at = me.at
      BY <1>1, <2>2 DEF Fields
  <2>4. n \in 0..Len(shm)
      BY <1>4
  <2>5. me.at = 0
      BY <1>2 DEF Sequential, AtOK
  <2>6. AtOK(new, shm, regby, table, paired)
      BY <2>3, <2>4, <2>5 DEF AtOK
  <2>7. \A h \in hits : {h[1], h[2]} \in paired
      BY DEF Sequential
  <2> HIDE DEF me
  <2>8. Become(k, new)
      BY <2>1, <2>2
  <2>9. QED
      BY <1>1, <1>2, <1>3, <2>1, <2>6, <2>7, <2>8, OneMoves
<1>7. CASE ReadBack(k)
  <2>1. me.pc = "reading" /\ Apply(k, Rebuild(me.seen \o SubSeq(shm, Len(me.seen) + 1, me.len)))
      BY <1>7 DEF ReadBack
  <2>2. PICK n \in 0..Len(shm) : me.seen = SubSeq(shm, 1, n) /\ me.len = Len(shm)
      BY <2>1 DEF Sequential, AtOK
  <2> DEFINE a == SubSeq(shm, 1, n)
  <2>3. a \in Seq(Char) /\ Len(a) = n /\ \A i \in 1..n : a[i] = shm[i]
    <3>1. 1 \in 1..(Len(shm) + 1) /\ n \in (1 - 1)..Len(shm) /\ n - 1 + 1 = n
          /\ \A i \in 1..n : 1 + i - 1 = i
        BY <1>4
    <3>2. a \in Seq(Char) /\ Len(a) = n - 1 + 1 /\ \A i \in 1..(n - 1 + 1) : a[i] = shm[1 + i - 1]
        BY <1>4, <3>1, Window
    <3> HIDE DEF a
    <3>3. QED
        BY <3>1, <3>2
  <2>4. a = me.seen
      BY <2>2
  <2> HIDE DEF a
  <2>5. a \o SubSeq(shm, n + 1, Len(shm)) = shm
    <3> DEFINE b == SubSeq(shm, n + 1, Len(shm))  ab == a \o b
    <3>1. n \in Nat /\ n <= Len(shm)
        BY <1>4
    <3>2. /\ b \in Seq(Char) /\ Len(b) = IF n < Len(shm) THEN Len(shm) - n ELSE 0
          /\ \A i \in 1..Len(b) : b[i] = shm[n + i]
        BY <1>4, <3>1, Piece
    <3>3. Len(b) = Len(shm) - n
        BY <1>4, <3>1, <3>2
    <3> HIDE DEF b
    <3>4. /\ ab \in Seq(Char) /\ Len(ab) = Len(a) + Len(b)
          /\ \A i \in 1..Len(a) : ab[i] = a[i]
          /\ \A i \in 1..Len(b) : ab[Len(a) + i] = b[i]
        BY <2>3, <3>2, Joined
    <3> HIDE DEF ab
    <3>5. Len(ab) = Len(shm)
        BY <1>4, <2>3, <3>1, <3>3, <3>4
    <3>6. ASSUME NEW i \in 1..Len(ab) PROVE ab[i] = shm[i]
      <4>1. CASE i <= n
        <5>1. i \in 1..n
            BY <3>1, <4>1
        <5>2. QED
            BY <2>3, <3>4, <5>1
      <4>2. CASE ~(i <= n)
        <5>1. i - n \in 1..Len(b) /\ n + (i - n) = i
            BY <1>4, <3>1, <3>3, <3>5, <4>2
        <5>2. PICK j \in 1..Len(b) : n + j = i
            BY <5>1
        <5>3. QED
            BY <2>3, <3>2, <3>4, <5>2
      <4>3. QED
          BY <4>1, <4>2
    <3>7. ab = shm
        BY <1>4, <3>4, <3>5, <3>6, SeqEqual
    <3>8. QED
        BY <3>7 DEF ab, b
  <2>6. me.seen \o SubSeq(shm, Len(me.seen) + 1, me.len) = shm
      BY <2>2, <2>3, <2>4, <2>5
  <2>7. QED
      BY <1>5, <2>1, <2>6
<1>8. QED
    BY <1>5, <1>6, <1>7

\* memcpy, all of it or a first part.
LEMMA CopySequential ==
    ASSUME Placed, Sequential, NEW k \in Kids, CopyFront(k) \/ CopyBack(k)
    PROVE  Sequential'
<1> DEFINE me == children[k]
<1>1. IInv /\ DOMAIN me = Fields /\ UNCHANGED <<table, paired, hits>>
    BY DEF Placed, IInv, ChildOK, CopyFront, CopyBack
<1>2. InMethod(k) /\ me.pc \in {"copy", "copying"} /\ \A j \in Kids \ {k} : ~InMethod(j)
    BY DEF CopyFront, CopyBack, InMethod, Sequential
<1>3. /\ me.out \in Seq(Char) /\ me.at \in 0..Len(me.out)
      /\ TextOK(Over(shm, me.out, me.at), RegAfter(me, regby), table, paired)
    BY <1>2 DEF Sequential, AtOK
<1>4. \A h \in hits' : {h[1], h[2]} \in paired'
    BY <1>1 DEF Sequential
<1>5. ASSUME TextOK(shm', RegAfter(me, regby), table, paired), Become(k, Done(me)), Registered(me)
      PROVE  Sequential'
  <2>1. regby' = RegAfter(me, regby)
      BY <1>5 DEF Registered, RegAfter
  <2>2. PICK new : new = Done(me)
      OBVIOUS
  <2>3. new.pc \in {"recv", "dead"} /\ new.at = 0
      BY <1>1, <2>2 DEF Done, Fields
  <2>4. AtOK(new, shm', regby', table', paired')
      BY <2>3 DEF AtOK
  <2>5. TextOK(shm', regby', table', paired')
      BY <1>1, <1>5, <2>1
  <2> HIDE DEF me
  <2>6. Become(k, new)
      BY <1>5, <2>2
  <2>7. QED
      BY <1>1, <1>2, <1>4, <2>4, <2>5, <2>6, OneMoves
<1>6. CASE CopyFront(k)
  <2>1. PICK n \in (Cuts \cap 1..Len(me.out)) \cup {Len(me.out)} :
            /\ shm' = Beginning(shm, me.out, n)
            /\ IF n = Len(me.out) THEN Become(k, Done(me)) /\ Registered(me)
               ELSE Become(k, [me EXCEPT !.pc = "copying", !.at = n]) /\ UNCHANGED regby
      BY <1>6 DEF CopyFront, Beginning
  <2>2. n \in 0..Len(me.out)
      BY <1>3
  <2>3. me.at = 0 /\ me.pc # "copying"
      BY <1>6 DEF CopyFront, Sequential, AtOK
  <2>4. shm \in Seq(Char)
      BY <1>2, <2>3, TextIsWhole DEF TextOK, Keeps
  <2>5. /\ Over(Beginning(shm, me.out, n), me.out, n) = Over(shm, me.out, 0)
        /\ n = Len(me.out) => Beginning(shm, me.out, n) = Over(shm, me.out, 0)
      BY <1>3, <2>2, <2>4, CopiedInPieces
  <2>6. CASE n = Len(me.out)
      BY <1>3, <1>5, <2>1, <2>3, <2>5, <2>6
  <2>7. CASE n # Len(me.out)
    <3>1. PICK new : new = [me EXCEPT !.pc = "copying", !.at = n]
        OBVIOUS
    <3>2. /\ new.pc = "copying" /\ new.at = n /\ new.out = me.out /\ new.req = me.req
          /\ new.conn = me.conn
        BY <1>1, <3>1 DEF Fields
    <3>3. RegAfter(new, regby) = RegAfter(me, regby) /\ UNCHANGED regby
        BY <2>1, <2>7, <3>2 DEF RegAfter
    <3>4. TextOK(Over(shm', new.out, n), RegAfter(new, regby), table, paired)
        BY <1>3, <2>1, <2>3, <2>5, <3>2, <3>3
    <3>5. AtOK(new, shm', regby', table', paired')
        BY <1>1, <1>3, <2>2, <3>2, <3>3, <3>4 DEF AtOK
    <3> HIDE DEF me
    <3>6. Become(k, new)
        BY <2>1, <2>7, <3>1
    <3>7. QED
        BY <1>1, <1>2, <1>4, <3>2, <3>5, <3>6, OneMoves
  <2>8. QED
      BY <2>6, <2>7
<1>7. CASE CopyBack(k)
  <2>1. shm' = Over(shm, me.out, me.at) /\ Become(k, Done(me)) /\ Registered(me)
      BY <1>7 DEF CopyBack, Over
  <2>2. QED
      BY <1>3, <1>5, <2>1
<1>8. QED
    BY <1>6, <1>7

\* A hit goes where the map said when it was looked up.
LEMMA SendSequential ==
    ASSUME Placed, Sequential, NEW k \in Kids, Send(k)
    PROVE  Sequential'
<1> DEFINE me == children[k]  d == ConnOf(k, me.to)
<1>1. IInv /\ ChildOK(me) /\ DOMAIN me = Fields /\ UNCHANGED <<table, shm, regby, paired>>
    BY DEF Placed, IInv, ChildOK, Send
<1>2. InMethod(k) /\ me.pc = "send" /\ \A j \in Kids \ {k} : ~InMethod(j)
    BY DEF Send, InMethod, Sequential
<1>3. TextOK(shm, regby, table, paired)
    BY <1>2, TextIsWhole
<1>4. PICK new : Become(k, new) /\ (new = Done(me) \/ new = [Done(me) EXCEPT !.pc = "dead"])
    BY DEF Send, SendOn
<1>5. new.pc \in {"recv", "dead"} /\ new.at = 0
    BY <1>1, <1>4 DEF Done, Fields
<1>6. AtOK(new, shm', regby', table', paired')
    BY <1>5 DEF AtOK
<1>7. \A h \in hits' : {h[1], h[2]} \in paired'
  <2>1. CASE hits' = hits
      BY <1>1, <2>1 DEF Sequential
  <2>2. CASE hits' # hits
    <3>1. me.req.cmd = "hit" /\ unread' # unread /\ hits' = hits \cup {<<me.conn, d>>}
        BY <2>2 DEF Send
    <3>2. d # NoConn
        BY <3>1 DEF Send, SendOn
    <3>3. me.to \in FirstFd..(FirstFd + me.nfds - 1) /\ d = Holder(table, me.to)
        BY <3>2 DEF ConnOf, Holder
    <3>4. me.to # NoFd
      <4>1. me.nfds \in Int
          BY <1>1, Lengths DEF IInv, ChildOK
      <4>2. QED
          BY <3>3, <4>1, ForkAssumption DEF NoFd
    <3>5. {me.conn, d} \in paired
        BY <1>2, <3>1, <3>3, <3>4 DEF Sequential, AtOK, LookedUp
    <3>6. PICK pair : pair = <<me.conn, d>>
        OBVIOUS
    <3>7. pair[1] = me.conn /\ pair[2] = d
        BY <3>6
    <3>8. {pair[1], pair[2]} \in paired
        BY <3>5, <3>7
    <3>9. hits' = hits \cup {pair}
        BY <3>1, <3>6
    <3>10. \A h \in hits : {h[1], h[2]} \in paired
        BY DEF Sequential
    <3>11. paired' = paired
        BY <1>1
    <3> HIDE DEF me, d
    <3>12. QED
        BY <3>8, <3>9, <3>10, <3>11
  <2>3. QED
      BY <2>1, <2>2
<1> HIDE DEF me
<1>8. QED
    BY <1>1, <1>2, <1>3, <1>4, <1>5, <1>6, <1>7, OneMoves

\* A longer table.
LEMMA AcceptSequential ==
    ASSUME Placed, Sequential, Accept
    PROVE  Sequential'
<1>1. IInv /\ Places /\ HaveRegistered /\ TableOK(table)
    BY DEF Placed, Places
<1>2. CASE UNCHANGED table
  <2>1. UNCHANGED <<children, shm, regby, paired, hits>>
      BY DEF Accept, histVars
  <2>2. QED
      BY <1>2, <2>1 DEF Sequential, Kids, InMethod
<1>3. CASE table' # table
  <2>1. /\ table' = Append(table, Head(backlog)) /\ backlog # <<>>
        /\ UNCHANGED <<children, shm, regby, paired, hits>>
      BY <1>3 DEF Accept, histVars
  <2> DEFINE c == Head(backlog)
  <2>2. c \in Conns /\ c = backlog[1] /\ 1 \in 1..Len(backlog)
      BY <1>1, <2>1 DEF Places
  <2>3. regby[c] = <<>>
    <3>1. \A i \in 1..Len(table) : table[i] # c
        BY <1>1, <2>2 DEF Places
    <3>2. QED
        BY <1>1, <2>2, <3>1 DEF HaveRegistered
  <2>4. table \in Seq(Conns) /\ Len(table) \in Nat
      BY <1>1 DEF TableOK
  <2> HIDE DEF c
  <2>5. /\ Len(table') = Len(table) + 1
        /\ \A i \in 1..Len(table) : table'[i] = table[i]
      BY <2>1, <2>2, <2>4 DEF c
  <2>6. TextOK(shm, regby, table, paired) => TextOK(shm, regby, table', paired)
      BY <1>1, <2>1, <2>2, <2>3, TextLongerTable DEF c
  <2>7. ASSUME NEW j \in Kids PROVE AtOK(children[j], shm, regby, table', paired)
    <3> DEFINE me == children[j]
    <3>1. AtOK(me, shm, regby, table, paired) /\ DOMAIN me = Fields /\ ReqOK(me)
        BY <1>1 DEF Sequential, IInv, ChildOK, Placed, AllReqsOK
    <3>2. RegAfter(me, regby)[c] = <<>>
      <4>1. CASE me.req.cmd = "reg"
        <5>1. me.conn # NoConn
            BY <3>1, <4>1 DEF ReqOK
        <5>2. me.nfds \in 1..Len(table) /\ me.conn = table[me.nfds]
            BY <1>1, <5>1, OwnFd
        <5>3. me.conn # c
            BY <1>1, <2>2, <5>2 DEF Places
        <5>4. RegAfter(me, regby) = [regby EXCEPT ![me.conn] = me.req.body]
            BY <4>1 DEF RegAfter
        <5>5. QED
            BY <1>1, <2>2, <2>3, <5>3, <5>4 DEF HaveRegistered
      <4>2. CASE me.req.cmd # "reg"
          BY <2>3, <4>2 DEF RegAfter
      <4>3. QED
          BY <4>1, <4>2
    <3> HIDE DEF me
    <3>3. me.pc \in {"copy", "copying"} =>
              TextOK(Over(shm, me.out, me.at), RegAfter(me, regby), table', paired)
      <4>1. SUFFICES ASSUME me.pc \in {"copy", "copying"}
                     PROVE  TextOK(Over(shm, me.out, me.at), RegAfter(me, regby), table', paired)
          OBVIOUS
      <4>2. TextOK(Over(shm, me.out, me.at), RegAfter(me, regby), table, paired)
          BY <3>1, <4>1 DEF AtOK
      <4>3. QED
          BY <1>1, <2>1, <2>2, <3>2, <4>2, TextLongerTable DEF c
    <3>4. LookedUp(me, table, paired) => LookedUp(me, table', paired)
      <4>1. SUFFICES ASSUME me.to \in FirstFd..(FirstFd + Len(table) - 1)
                     PROVE  /\ me.to \in FirstFd..(FirstFd + Len(table') - 1)
                            /\ Holder(table', me.to) = Holder(table, me.to)
          BY DEF LookedUp
      <4>2. me.to - FirstFd + 1 \in 1..Len(table)
          BY <1>1, <4>1, TableFds
      <4>3. me.to \in FirstFd..(FirstFd + Len(table') - 1)
          BY <2>4, <2>5, <4>1, ForkAssumption
      <4>4. QED
          BY <2>5, <4>2, <4>3 DEF Holder
    <3>5. AtOK(me, shm, regby, table', paired)
        BY <3>1, <3>3, <3>4 DEF AtOK
    <3>6. QED
        BY <3>5 DEF me
  <2>8. QED
      BY <2>1, <2>6, <2>7 DEF Sequential, Kids, InMethod
<1>4. QED
    BY <1>2, <1>3

\* A child that is forked begins by waiting.
LEMMA ForkSequential ==
    ASSUME Placed, Sequential, Fork
    PROVE  Sequential'
<1>1. IInv /\ UNCHANGED <<table, shm, regby, paired, hits>>
    BY DEF Placed, Fork, histVars
<1>2. CASE children' = children
    BY <1>1, <1>2 DEF Sequential, Kids, InMethod
<1>3. CASE children' # children
  <2>1. PICK conn : children' = Append(children, NewChild(conn))
      BY <1>3 DEF Fork
  <2>2. PICK new : new = NewChild(conn)
      OBVIOUS
  <2>3. new.pc = "recv" /\ new.at = 0
      BY <2>2 DEF NewChild
  <2>4. /\ Len(children) \in Nat /\ Kids = 1..Len(children) /\ IsSeq(children')
        /\ Len(children') = Len(children) + 1
        /\ \A i \in 1..Len(children) : children'[i] = children[i]
        /\ children'[Len(children) + 1] = new
      BY <1>1, <2>1, <2>2, Appended, Lengths DEF IInv, Kids
  <2>5. Kids' = 1..(Len(children) + 1)
      BY <2>4, Lengths DEF Kids
  <2>6. \A j \in Kids' : (j \in Kids /\ children'[j] = children[j]) \/ children'[j] = new
      BY <2>4, <2>5
  <2>7. Kids \subseteq Kids' /\ \A j \in Kids : children'[j] = children[j]
      BY <2>4, <2>5
  <2>8. AtOK(new, shm, regby, table, paired)
      BY <2>3 DEF AtOK
  <2>9. \A j \in Kids' : AtOK(children'[j], shm, regby, table, paired)
      BY <2>6, <2>8 DEF Sequential
  <2>10. \A i, j \in Kids' : InMethod(i)' /\ InMethod(j)' => i = j
      BY <2>3, <2>6 DEF Sequential, InMethod
  <2>11. (\A j \in Kids' : children'[j].pc # "copying") => TextOK(shm, regby, table, paired)
      BY <2>7 DEF Sequential
  <2>12. QED
      BY <1>1, <2>9, <2>10, <2>11 DEF Sequential
<1>4. QED
    BY <1>2, <1>3

-----------------------------------------------------------------------------
(* As long as no two methods have overlapped, Sequential holds.             *)

\* Every step keeps the invariant.
LEMMA NextSInv ==
    ASSUME RecordsFit, SInv, [Next]_vars
    PROVE  SInv'
<1>1. Placed /\ Placed'
    BY NextPlaced DEF SInv
<1> SUFFICES ASSUME ~raced' PROVE Sequential'
    BY <1>1 DEF SInv
<1>2. CASE \E k \in Kids : Recv(k)
  <2>1. PICK k \in Kids : Recv(k)
      BY <1>2
  <2>2. ~raced
      BY <2>1 DEF Recv
  <2>3. Sequential
      BY <2>2 DEF SInv
  <2>4. QED
      BY <1>1, <2>1, <2>3, RecvSequential
<1>3. CASE \E k \in Kids : ReadFront(k) \/ ReadBack(k) \/ CopyFront(k) \/ CopyBack(k) \/ Send(k)
  <2>1. PICK k \in Kids : ReadFront(k) \/ ReadBack(k) \/ CopyFront(k) \/ CopyBack(k) \/ Send(k)
      BY <1>3
  <2>2. raced' = raced
      BY <2>1 DEF ReadFront, ReadBack, CopyFront, CopyBack, Send
  <2>3. Sequential
      BY <2>2 DEF SInv
  <2>4. QED
      BY <1>1, <2>1, <2>3, ReadSequential, CopySequential, SendSequential
<1>4. CASE Accept \/ Fork
  <2>1. raced' = raced
      BY <1>4 DEF Accept, Fork, histVars
  <2>2. Sequential
      BY <2>1 DEF SInv
  <2>3. QED
      BY <1>1, <1>4, <2>2, AcceptSequential, ForkSequential
<1>5. CASE Welcome \/ UNCHANGED vars \/ \E c \in Conns : Client(c)
  <2>1. UNCHANGED <<table, children, shm, raced, regby, paired, hits>>
      BY <1>5 DEF Welcome, Client, Connect, SendRequest, Receive, Leave, Abort, vars, histVars
  <2>2. Sequential
      BY <2>1 DEF SInv
  <2>3. QED
      BY <2>1, <2>2 DEF Sequential, Kids, InMethod
<1>6. QED
    BY <1>2, <1>3, <1>4, <1>5 DEF Next, Parent, Serve

\* The segment begins as the empty text of the empty map.
LEMMA InitSInv ==
    ASSUME RecordsFit, Init
    PROVE  SInv
<1>1. /\ table = <<>> /\ children = <<>> /\ shm = <<>> /\ hits = {}
      /\ regby = [c \in Conns |-> <<>>]
    BY DEF Init
<1>2. Kids = {} /\ Len(table) = 0
    BY <1>1 DEF Kids
<1>3. Rebuild(<<>>) = EmptyMap
    BY KeepsNothing, KeepsTheMap
<1>4. Fits(EmptyMap, regby, table, paired)
  <2>1. DOMAIN EmptyMap = {}
      BY DEF EmptyMap
  <2>2. QED
      BY <1>2, <2>1, KeepsNothing DEF Fits
<1>5. TextOK(shm, regby, table, paired)
    BY <1>1, <1>3, <1>4, KeepsNothing DEF TextOK
<1>6. Sequential
    BY <1>1, <1>2, <1>5 DEF Sequential
<1>7. QED
    BY <1>6, InitPlaced DEF SInv

\* So it always holds.
LEMMA AlwaysSInv ==
    ASSUME RecordsFit
    PROVE  Spec => []SInv
<1>1. Init => SInv
    BY InitSInv
<1>2. SInv /\ [Next]_vars => SInv'
    BY NextSInv
<1>3. QED
    BY <1>1, <1>2, PTL DEF Spec

\* As long as each method has ended before the next began, a hit reaches only
\* a player whom some vs has put together with the hitter.
THEOREM HitsAreAlwaysPaired ==
    ASSUME RecordsFit
    PROVE  Spec => []HitsArePaired
<1>1. SInv => HitsArePaired
    BY DEF SInv, Sequential, HitsArePaired
<1>2. QED
    BY <1>1, AlwaysSInv, PTL

\* As long as each method has ended before the next began, the text between
\* two of them says of every connection that registered the name it took last,
\* whatever is left in it of longer texts.
THEOREM LossAlwaysNeedsOverlap ==
    ASSUME RecordsFit
    PROVE  Spec => []LossNeedsOverlap
<1>1. SInv => LossNeedsOverlap
  <2> SUFFICES ASSUME SInv, ~raced, \A k \in Kids : ~InMethod(k),
                      NEW c \in Conns, regby[c] # <<>>
               PROVE  /\ Fd(c) \in DOMAIN Rebuild(shm)
                      /\ Rebuild(shm)[Fd(c)].name = regby[c]
      BY DEF LossNeedsOverlap
  <2>1. Placed /\ TableOK(table) /\ Sequential
      BY DEF SInv, Placed, Places
  <2>2. \A k \in Kids : children[k].pc # "copying"
      BY DEF InMethod
  <2>3. Fits(Rebuild(shm), regby, table, paired)
      BY <2>1, <2>2 DEF Sequential, TextOK
  <2>4. PICK i \in 1..Len(table) : table[i] = c
      BY <2>1 DEF Placed, HaveRegistered
  <2>5. Fd(c) = FirstFd - 1 + i
      BY <2>1, <2>4, FdOf
  <2>6. QED
      BY <2>3, <2>4, <2>5 DEF Fits
<1>2. QED
    BY <1>1, AlwaysSInv, PTL

=============================================================================
