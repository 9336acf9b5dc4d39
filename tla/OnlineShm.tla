----------------------------- MODULE OnlineShm -----------------------------
(***************************************************************************)
(* COnlineLogic as it is: the player map lives as text in a segment of      *)
(* shared memory, every method decodes the whole text, changes the map and  *)
(* copies the new text over the old with memcpy, which writes no closing    *)
(* zero: what the old text had beyond the new one's length stays.           *)
(***************************************************************************)
EXTENDS OnlineCodec

CONSTANT ShmSize    \* the segment shm_create asks for, 1024 bytes

VARIABLES
    shm,        \* the text of the segment, up to its first zero byte
    mapOnline   \* the member of that name, as rebuildOnlineShmat fills it

vars == <<shm, mapOnline>>

Init == shm = <<>> /\ mapOnline = EmptyMap   \* a new segment is zeroed

\* memcpy(_shAddr, content.c_str(), content.length())
CopyOver(content) ==
    shm' = content \o SubSeq(shm, Len(content) + 1, Len(shm))

\* The end of every method that writes: the new text over the old, and the
\* map decoded again from what the segment then holds.  The rebuild at the
\* start of every method finds the same map.  (A vs by a player who is not
\* registered changes mapOnline and not the text; the next method's rebuild
\* undoes that before anything reads it, so it is not modelled.)
Save(m) == CopyOver(Content(m)) /\ mapOnline' = Rebuild(shm')

\* regOnlineShmat: writes only when the entry is new or its name changes
RegOnlineShmat(fd, name) ==
    /\ fd \in DOMAIN mapOnline => mapOnline[fd].name # name
    /\ Save(RegMap(mapOnline, fd, name))

\* the loop of vs stops at the first entry of that name
BugVsFirstOnly(fd, name) ==
    /\ fd \in DOMAIN mapOnline
    /\ \E enemy \in NamedIn(mapOnline, name) :
          /\ \A other \in NamedIn(mapOnline, name) : enemy <= other
          /\ Save([mapOnline EXCEPT ![enemy].vsfd = fd, ![fd].vsfd = enemy])

\* vs: writes only when somebody has that name and fd is registered
Vs(fd, name) ==
    /\ fd \in DOMAIN mapOnline
    /\ \E enemy \in LastOf(NamedIn(mapOnline, name)) :
          Save(VsMap(mapOnline, fd, name, enemy))

\* updateOnlineStat
UpdateOnlineStat(fd, stat) ==
    /\ fd \in DOMAIN mapOnline
    /\ Save(StatMap(mapOnline, fd, stat))

Next ==
    \E fd \in Fds :
        \/ \E name \in Names : RegOnlineShmat(fd, name)
        \/ \E name \in Names : Vs(fd, name)
        \/ \E stat \in ONLINE_STAT : UpdateOnlineStat(fd, stat)

Spec == Init /\ [][Next]_vars

-----------------------------------------------------------------------------

TypeOK == /\ IsOnlineMap(mapOnline)
          /\ mapOnline = Rebuild(shm)

\* The text implements the registry of OnlineRegistry: whatever older texts
\* have left behind the current one, decoding the segment gives the map the
\* calls have built.
Registry == INSTANCE OnlineRegistry WITH online <- mapOnline
RegistrySpec == Registry!Spec

NamesOn ==
    LET on == InOrder(OnlineIn(mapOnline))
    IN  [k \in DOMAIN on |-> mapOnline[on[k]].name]

\* The list sent for onlineinfo begins with exactly the players who are on,
\* in the order of their descriptors; left-over text only adds at its end.
ListBeginsWithPlayers == IsPrefix(NamesOn, OnlineList(shm))

\* memcpy has not written past the end of the segment.
SegmentFits == Len(shm) <= ShmSize

\* The record of f, were its opponent to be o, is not cut by encode.
HasRoom(f, o) == Len(Printed(f, [mapOnline[f] EXCEPT !.vsfd = o])) < TmpSize

\* The entry of f, or that it has none, is what it was.
Kept(f) ==
    /\ f \in DOMAIN mapOnline' <=> f \in DOMAIN mapOnline
    /\ f \in DOMAIN mapOnline => mapOnline'[f] = mapOnline[f]

\* f has fd as its opponent now, and is what it was otherwise.
TakesOn(f, fd) ==
    f \in DOMAIN mapOnline' /\ mapOnline'[f] = [mapOnline[f] EXCEPT !.vsfd = fd]

\* What a method may do to the entries of other players than its caller fd, when
\* names may be too long for encode's buffer.  A registration and a change of
\* status leave every other entry alone: none goes, changes or comes back from
\* older text.  A vs changes the entries of the players it names alone, and them
\* only so that the caller is their opponent.  Of a player whom the vs names and
\* whose record has no room for the caller's descriptor nothing is said: encode
\* cuts that record, and the player loses the entry or gets one back that an older
\* text left.
OthersSurvive ==
    [][\A fd \in Fds : \A f \in Fds \ {fd} :
          \/ Kept(f)
          \/ /\ \A name \in Names : ~RegOnlineShmat(fd, name)
             /\ \A stat \in ONLINE_STAT : ~UpdateOnlineStat(fd, stat)
             /\ \A name \in Names : Vs(fd, name) =>
                   /\ f \in NamedIn(mapOnline, name)
                   /\ HasRoom(f, fd) => TakesOn(f, fd)]_vars

=============================================================================
