---------------------------- MODULE OnlineCodec ----------------------------
(***************************************************************************)
(* The text form of the player map in the shared segment: OnlineInfo::encode*)
(* and ::decode, calOnlineShmatBuffer, rebuildOnlineShmat and getOnlineList *)
(* of onlineLogic.cpp.  A record is                                         *)
(*     name , fd , stat , vsfd ,                                            *)
(* and every record is closed by a bar.  Text is a sequence of one-character*)
(* strings; what the segment holds is the text before its first zero byte.  *)
(***************************************************************************)
EXTENDS OnlineMap, SequencesExt

CONSTANT TmpSize    \* the buffer encode prints into, 128 bytes

ASSUME TmpSizeAssumption == TmpSize \in Nat \ {0}

SPR_CHAR_ITEM == "|"
SPR_CHAR_ATTR == ","

\* Names are text without the two separators; client.c sends what the player
\* types, so this is an assumption on the player.
ASSUME NamesAssumption ==
    /\ Names \subseteq Seq(STRING)
    /\ \A name \in Names : \A i \in 1..Len(name) :
          name[i] \notin {SPR_CHAR_ITEM, SPR_CHAR_ATTR}

\* The keys of a map in the order in which std::map is iterated.
InOrder(S) ==
    [k \in 1..Cardinality(S) |->
        CHOOSE f \in S : Cardinality({g \in S : g < f}) = k - 1]

\* std::string::find from position p, 0 for npos.
Find(s, sep, p) ==
    LET at == {i \in p..Len(s) : s[i] = sep}
    IN  IF at = {} THEN 0 ELSE Min(at)

Digits == <<"0", "1", "2", "3", "4", "5", "6", "7", "8", "9">>

\* %d
Decimal(n) ==
    LET print[k \in 0..(IF n < 0 THEN -n ELSE n)] ==
            IF k < 10 THEN <<Digits[k + 1]>>
            ELSE print[k \div 10] \o <<Digits[(k % 10) + 1]>>
    IN  IF n < 0 THEN <<"-">> \o print[-n] ELSE print[n]

Value == [d \in ToSet(Digits) |-> (CHOOSE k \in 1..10 : Digits[k] = d) - 1]

\* The number that the digits of s from position p on are.
NumberFrom(s, p) ==
    LET digit == {i \in p..Len(s) : \A j \in p..i : s[j] \in DOMAIN Value}
        read[i \in 0..Len(s)] ==
            IF i = 0 THEN 0
            ELSE IF i \in digit THEN 10 * read[i - 1] + Value[s[i]]
            ELSE read[i - 1]
    IN  read[Len(s)]

\* atoi: the number the text begins with, 0 when it begins with none.
Atoi(s) == IF s # <<>> /\ s[1] = "-" THEN -NumberFrom(s, 2) ELSE NumberFrom(s, 1)

\* OnlineInfo::encode: snprintf keeps what fits before the closing zero.
Printed(fd, info) ==
    info.name     \o <<SPR_CHAR_ATTR>> \o Decimal(fd)        \o <<SPR_CHAR_ATTR>> \o
    Decimal(info.stat) \o <<SPR_CHAR_ATTR>> \o Decimal(info.vsfd) \o <<SPR_CHAR_ATTR>>

Encode(fd, info) ==
    LET text == Printed(fd, info)
    IN  IF Len(text) < TmpSize THEN text ELSE SubSeq(text, 1, TmpSize - 1)

\* calOnlineShmatBuffer: the map in the order of its keys.
Content(m) ==
    LET key == InOrder(DOMAIN m)
    IN  FlattenSeq([k \in DOMAIN key |->
            Encode(key[k], m[key[k]]) \o <<SPR_CHAR_ITEM>>])

\* OnlineInfo::decode: the four commas it finds, one after the other; it
\* fails unless all are there.
Comma(item, p) == Find(item, SPR_CHAR_ATTR, p)

Commas(item) ==
    LET first  == Comma(item, 1)
        second == Comma(item, first + 1)
        third  == Comma(item, second + 1)
        fourth == Comma(item, third + 1)
    IN  <<first, second, third, fourth>>

Whole(item) == 0 \notin ToSet(Commas(item))

Decode(item) ==
    LET c == Commas(item)
    IN  [fd   |-> Atoi(SubSeq(item, c[1] + 1, c[2] - 1)),
         info |-> [name |-> SubSeq(item, 1, c[1] - 1),
                   stat |-> Atoi(SubSeq(item, c[2] + 1, c[3] - 1)),
                   vsfd |-> Atoi(SubSeq(item, c[3] + 1, c[4] - 1))]]

\* The items of a text, each given by the bar behind it.  What follows the
\* last bar is no item.
Bars(s) == {b \in 1..Len(s) : s[b] = SPR_CHAR_ITEM}

ItemAt(s, b) == SubSeq(s, Max({0} \cup {a \in Bars(s) : a < b}) + 1, b - 1)

\* The records of a text: what the loop that rebuildOnlineShmat and
\* getOnlineList share decodes.
Records(s) ==
    [b \in {b \in Bars(s) : Whole(ItemAt(s, b))} |-> Decode(ItemAt(s, b))]

\* rebuildOnlineShmat with operator[] instead of insert: the last record wins
BugRebuildLastWins(s) ==
    LET r == Records(s)
    IN  [f \in {r[b].fd : b \in DOMAIN r} |->
            r[Max({b \in DOMAIN r : r[b].fd = f})].info]

\* rebuildOnlineShmat: map::insert keeps the first record of a descriptor.
Rebuild(s) ==
    LET r == Records(s)
    IN  [f \in {r[b].fd : b \in DOMAIN r} |->
            r[Min({b \in DOMAIN r : r[b].fd = f})].info]

\* getOnlineList without the test of _stat
BugListEverybody(s) ==
    LET r == Records(s)  all == InOrder(DOMAIN r)
    IN  [k \in DOMAIN all |-> r[all[k]].info.name]

\* getOnlineList: the names of the records that say ON, straight from the text.
OnlineList(s) ==
    LET r  == Records(s)
        on == InOrder({b \in DOMAIN r : r[b].info.stat = ONLINE_STAT_ON})
    IN  [k \in DOMAIN on |-> r[on[k]].info.name]

=============================================================================
