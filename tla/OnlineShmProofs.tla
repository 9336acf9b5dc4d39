-------------------------- MODULE OnlineShmProofs --------------------------
(***************************************************************************)
(* What holds of the player map in the shared segment for every set of      *)
(* descriptors and names whose records fit encode's buffer.  That they fit  *)
(* is a hypothesis of the theorems and not of the module: a longer name is  *)
(* something a player can send, and costs its own registration.             *)
(***************************************************************************)
EXTENDS OnlineShm, OnlineCodecLemmas

\* The segment holds the text of the map and behind it what longer texts have
\* left, in which nobody is named who has no entry.
IInv ==
    /\ IsOnlineMap(mapOnline)
    /\ IsFiniteSet(DOMAIN mapOnline)
    /\ Keeps(shm, mapOnline)

\* A method that saves a map with all entries of the one before leaves a
\* segment from which every later method decodes just that map.
LEMMA SaveIsRead ==
    ASSUME RecordsFit, IInv,
           NEW m, IsOnlineMap(m), IsFiniteSet(DOMAIN m), DOMAIN mapOnline \subseteq DOMAIN m,
           Save(m)
    PROVE  IInv' /\ mapOnline' = m
<1>1. shm' = Content(m) \o End(shm, Len(Content(m)) + 1) /\ mapOnline' = Rebuild(shm')
    BY DEF Save, CopyOver, End
<1>2. Keeps(Content(m) \o End(shm, Len(Content(m)) + 1), m)
    BY KeepsNewest DEF IInv
<1>3. Keeps(shm', m)
    BY <1>1, <1>2
<1>4. Rebuild(shm') = m
    BY <1>3, KeepsTheMap
<1>5. mapOnline' = m
    BY <1>1, <1>4
<1>6. QED
    BY <1>3, <1>5 DEF IInv

\* Every step saves one of the three maps the registry's operations make, and
\* that map is what the segment then holds.
LEMMA StepSaves ==
    ASSUME RecordsFit, IInv, Next
    PROVE  /\ IInv'
           /\ \E fd \in Fds :
                 \/ \E name \in Names : mapOnline' = RegMap(mapOnline, fd, name)
                 \/ /\ fd \in DOMAIN mapOnline
                    /\ \E name \in Names :
                          \E enemy \in LastOf(NamedIn(mapOnline, name)) :
                             mapOnline' = VsMap(mapOnline, fd, name, enemy)
                 \/ /\ fd \in DOMAIN mapOnline
                    /\ \E stat \in ONLINE_STAT :
                          mapOnline' = StatMap(mapOnline, fd, stat)
<1>1. IsOnlineMap(mapOnline) /\ IsFiniteSet(DOMAIN mapOnline)
    BY DEF IInv
<1>2. CASE \E fd \in Fds, name \in Names : RegOnlineShmat(fd, name)
  <2>1. PICK fd \in Fds, name \in Names : Save(RegMap(mapOnline, fd, name))
      BY <1>2 DEF RegOnlineShmat
  <2>2. /\ IsOnlineMap(RegMap(mapOnline, fd, name))
        /\ DOMAIN RegMap(mapOnline, fd, name) = DOMAIN mapOnline \cup {fd}
      BY <1>1, Lemmas!RegMapType, SameOperators, FdsAssumption
  <2>3. IsFiniteSet(DOMAIN mapOnline \cup {fd})
      BY <1>1, FS_AddElement
  <2>4. IInv' /\ mapOnline' = RegMap(mapOnline, fd, name)
      BY <2>1, <2>2, <2>3, SaveIsRead
  <2>5. QED
      BY <2>4
<1>3. CASE \E fd \in Fds, name \in Names : Vs(fd, name)
  <2>1. PICK fd \in Fds, name \in Names :
            /\ fd \in DOMAIN mapOnline
            /\ \E enemy \in LastOf(NamedIn(mapOnline, name)) :
                  Save(VsMap(mapOnline, fd, name, enemy))
      BY <1>3 DEF Vs
  <2>2. PICK enemy \in LastOf(NamedIn(mapOnline, name)) :
            Save(VsMap(mapOnline, fd, name, enemy))
      BY <2>1
  <2>3. enemy \in NamedIn(mapOnline, name)
      BY <2>2 DEF LastOf
  <2>4. /\ IsOnlineMap(VsMap(mapOnline, fd, name, enemy))
        /\ DOMAIN VsMap(mapOnline, fd, name, enemy) = DOMAIN mapOnline
      BY <1>1, <2>1, <2>3, Lemmas!VsMapEntries, SameOperators, FdsAssumption
  <2>5. IInv' /\ mapOnline' = VsMap(mapOnline, fd, name, enemy)
      BY <1>1, <2>2, <2>4, SaveIsRead
  <2>6. QED
      BY <2>1, <2>5
<1>4. CASE \E fd \in Fds, stat \in ONLINE_STAT : UpdateOnlineStat(fd, stat)
  <2>1. PICK fd \in Fds, stat \in ONLINE_STAT :
            fd \in DOMAIN mapOnline /\ Save(StatMap(mapOnline, fd, stat))
      BY <1>4 DEF UpdateOnlineStat
  <2>2. /\ IsOnlineMap(StatMap(mapOnline, fd, stat))
        /\ DOMAIN StatMap(mapOnline, fd, stat) = DOMAIN mapOnline
      BY <1>1, <2>1, Lemmas!StatMapType, SameOperators, FdsAssumption
  <2>3. IInv' /\ mapOnline' = StatMap(mapOnline, fd, stat)
      BY <1>1, <2>1, <2>2, SaveIsRead
  <2>4. QED
      BY <2>1, <2>3
<1>5. QED
    BY <1>2, <1>3, <1>4 DEF Next

\* The invariant holds in every state.
LEMMA SegmentKeepsMap ==
    ASSUME RecordsFit
    PROVE  Spec => []IInv
<1>1. Init => IInv
    BY KeepsNothing DEF Init, IInv
<1>2. IInv /\ [Next]_vars => IInv'
  <2>1. ASSUME IInv, Next PROVE IInv'
      BY <2>1, StepSaves
  <2>2. ASSUME IInv, UNCHANGED vars PROVE IInv'
      BY <2>2 DEF IInv, vars
  <2>3. QED
      BY <2>1, <2>2
<1>3. QED
    BY <1>1, <1>2, PTL DEF Spec

-----------------------------------------------------------------------------

\* rebuildOnlineShmat always finds a well-formed map in the segment, and just
\* the one the last method had in memory: memcpy without a closing zero does
\* no harm although it leaves pieces of older texts behind the new one.
THEOREM TypeCorrect ==
    ASSUME RecordsFit
    PROVE  Spec => []TypeOK
<1>1. IInv => TypeOK
    BY KeepsTheMap DEF IInv, TypeOK
<1>2. QED
    BY <1>1, SegmentKeepsMap, PTL

\* getOnlineList, which reads the text and not the map, always names the
\* players who are on, in the order of their descriptors, before anything it
\* finds in what older texts have left.
THEOREM ListIsRight ==
    ASSUME RecordsFit
    PROVE  Spec => []ListBeginsWithPlayers
<1>1. NamesOn = NamesOf(mapOnline)
    BY DEF NamesOn, NamesOf
<1>2. IInv => ListBeginsWithPlayers
    BY <1>1, KeepsTheMap DEF IInv, ListBeginsWithPlayers
<1>3. QED
    BY <1>2, SegmentKeepsMap, PTL

\* The methods of COnlineLogic, each of which decodes the whole segment and
\* encodes it again, do to the map just what the registry's operations do.
THEOREM SegmentImplementsRegistry ==
    ASSUME RecordsFit
    PROVE  Spec => RegistrySpec
<1>1. Init => Registry!Init
    BY DEF Init, Registry!Init, EmptyMap, Registry!EmptyMap
<1>2. IInv /\ [Next]_vars => [Registry!Next]_mapOnline
  <2>1. ASSUME IInv, Next PROVE Registry!Next
    <3>1. \A m, fd, name : Registry!RegMap(m, fd, name) = RegMap(m, fd, name)
        BY DEF Registry!RegMap, RegMap, Registry!NoFd, NoFd, Registry!ONLINE_STAT_ON, ONLINE_STAT_ON
    <3>2. \A m, fd, name, enemy :
              Registry!VsMap(m, fd, name, enemy) = VsMap(m, fd, name, enemy)
        BY DEF Registry!VsMap, VsMap, Registry!Challenged, Challenged
    <3>3. \A m, fd, stat : Registry!StatMap(m, fd, stat) = StatMap(m, fd, stat)
        BY DEF Registry!StatMap, StatMap
    <3>4. \A m, name : Registry!LastOf(Registry!NamedIn(m, name)) = LastOf(NamedIn(m, name))
        BY DEF Registry!LastOf, LastOf, Registry!NamedIn, NamedIn
    <3>5. Registry!ONLINE_STAT = ONLINE_STAT
        BY DEF Registry!ONLINE_STAT, ONLINE_STAT, Registry!ONLINE_STAT_NEW, ONLINE_STAT_NEW,
               Registry!ONLINE_STAT_ON, ONLINE_STAT_ON, Registry!ONLINE_STAT_OFF, ONLINE_STAT_OFF
    <3>6. PICK fd \in Fds :
              \/ \E name \in Names : mapOnline' = RegMap(mapOnline, fd, name)
              \/ /\ fd \in DOMAIN mapOnline
                 /\ \E name \in Names :
                       \E enemy \in LastOf(NamedIn(mapOnline, name)) :
                          mapOnline' = VsMap(mapOnline, fd, name, enemy)
              \/ /\ fd \in DOMAIN mapOnline
                 /\ \E stat \in ONLINE_STAT :
                       mapOnline' = StatMap(mapOnline, fd, stat)
        BY <2>1, StepSaves
    <3>7. CASE \E name \in Names : mapOnline' = RegMap(mapOnline, fd, name)
        BY <3>1, <3>7 DEF Registry!Next, Registry!Reg
    <3>8. CASE /\ fd \in DOMAIN mapOnline
               /\ \E name \in Names :
                     \E enemy \in LastOf(NamedIn(mapOnline, name)) :
                        mapOnline' = VsMap(mapOnline, fd, name, enemy)
        BY <3>2, <3>4, <3>8 DEF Registry!Next, Registry!Vs
    <3>9. CASE /\ fd \in DOMAIN mapOnline
               /\ \E stat \in ONLINE_STAT :
                     mapOnline' = StatMap(mapOnline, fd, stat)
        BY <3>3, <3>5, <3>9 DEF Registry!Next, Registry!UpdateOnlineStat
    <3>10. QED
        BY <3>6, <3>7, <3>8, <3>9
  <2>2. ASSUME UNCHANGED vars PROVE UNCHANGED mapOnline
      BY <2>2 DEF vars
  <2>3. QED
      BY <2>1, <2>2
<1>3. QED
    BY <1>1, <1>2, SegmentKeepsMap, PTL DEF Spec, RegistrySpec, Registry!Spec

-----------------------------------------------------------------------------
(* The same methods when records may be cut: no hypothesis on the names.    *)

\* What the segment is made of, and the map that is decoded from it.
SInv ==
    /\ IsFiniteSet(DOMAIN mapOnline)
    /\ mapOnline = Rebuild(shm)
    /\ IsPlainMap(mapOnline)
    /\ SoundText(shm, DOMAIN mapOnline)
    /\ \A f \in DOMAIN mapOnline : Len(Printed(f, mapOnline[f])) < TmpSize

\* A new segment.
LEMMA NewIsSound == Init => SInv
<1> SUFFICES ASSUME Init PROVE SInv
    OBVIOUS
<1>1. shm = <<>> /\ mapOnline = EmptyMap /\ DOMAIN mapOnline = {}
    BY DEF Init, EmptyMap
<1>2. Bars(shm) = {} /\ shm \in Seq(Char)
    BY <1>1 DEF Bars
<1>3. Rebuild(shm) = mapOnline
    BY <1>1, <1>2 DEF Rebuild, Records, EmptyMap
<1>4. IsFiniteSet(DOMAIN mapOnline)
    BY <1>1, FS_EmptySet
<1>5. QED
    BY <1>1, <1>2, <1>3, <1>4 DEF SInv, IsPlainMap, SoundText

\* The entries of the map that is saved which fit are found again, and no
\* others than entries of that map.
LEMMA SaveKeepsSound ==
    ASSUME SInv, NEW m, IsPlainMap(m), IsFiniteSet(DOMAIN m), DOMAIN mapOnline \subseteq DOMAIN m,
           Save(m)
    PROVE  /\ SInv'
           /\ DOMAIN mapOnline' \subseteq DOMAIN m
           /\ \A f \in DOMAIN m : Len(Printed(f, m[f])) < TmpSize =>
                 f \in DOMAIN mapOnline' /\ mapOnline'[f] = m[f]
<1> DEFINE C == Content(m)  T == End(shm, Len(C) + 1)  D == DOMAIN m
<1>1. shm' = C \o T /\ mapOnline' = Rebuild(C \o T)
    BY DEF Save, CopyOver, End
<1>2. Closed(C) /\ Len(C) \in Nat
    BY ContentIsText
<1>3. PICK end : Holds(C, m, end)
    BY ContentHolds
<1> HIDE DEF C
<1>4. SoundText(C, D)
    BY <1>3, ContentIsSound
<1>5. SoundText(T, D) /\ T \in Seq(Char)
  <2>1. SoundText(shm, D)
      BY MoreIsSound DEF SInv
  <2>2. Len(C) + 1 \in Nat \ {0}
      BY <1>2
  <2>3. SoundText(T, D)
      BY <2>1, <2>2, EndIsSoundText
  <2>4. QED
      BY <2>3 DEF SoundText
<1> HIDE DEF T
<1>6. SoundText(C \o T, D)
    BY <1>2, <1>4, <1>5, ConcatIsSound
<1>7. D \in SUBSET Fds
    BY DEF IsPlainMap
<1> DEFINE s == C \o T
<1>8. /\ DOMAIN Rebuild(s) \subseteq D
      /\ IsPlainMap(Rebuild(s))
      /\ SoundText(s, DOMAIN Rebuild(s))
      /\ \A f \in DOMAIN Rebuild(s) : Len(Printed(f, Rebuild(s)[f])) < TmpSize
  <2> HIDE DEF s, D
  <2>1. SoundText(s, D)
      BY <1>6 DEF s
  <2>2. QED
      BY <1>7, <2>1, SoundRebuild
<1>9. IsFiniteSet(DOMAIN Rebuild(s))
    BY <1>8, FS_Subset
<1>10. \A f \in DOMAIN m : Len(Printed(f, m[f])) < TmpSize =>
           f \in DOMAIN Rebuild(s) /\ Rebuild(s)[f] = m[f]
    BY <1>3, <1>5, FittingIsFound
<1>11. shm' = s /\ mapOnline' = Rebuild(s)
    BY <1>1
<1> HIDE DEF s
<1>12. SInv'
    BY <1>8, <1>9, <1>11 DEF SInv
<1>13. QED
    BY <1>8, <1>10, <1>11, <1>12

\* What OthersSurvive says of a call by fd.
Spares(fd) ==
    \A f \in Fds \ {fd} :
       \/ Kept(f)
       \/ /\ \A name \in Names : ~RegOnlineShmat(fd, name)
          /\ \A stat \in ONLINE_STAT : ~UpdateOnlineStat(fd, stat)
          /\ \A name \in Names : Vs(fd, name) =>
                /\ f \in NamedIn(mapOnline, name)
                /\ HasRoom(f, fd) => TakesOn(f, fd)

\* A method that saves a map with no new key but the caller's: the entries it
\* has not changed stay, and so do those that have the caller as their opponent
\* now and room for it.
LEMMA SaveSpares ==
    ASSUME SInv, NEW fd \in Fds, NEW m, IsPlainMap(m), IsFiniteSet(DOMAIN m),
           DOMAIN mapOnline \subseteq DOMAIN m, DOMAIN m \subseteq DOMAIN mapOnline \cup {fd},
           Save(m)
    PROVE  /\ SInv'
           /\ \A f \in Fds \ {fd} :
                 (f \in DOMAIN mapOnline => m[f] = mapOnline[f]) => Kept(f)
           /\ \A f \in DOMAIN mapOnline \ {fd} :
                 m[f] = [mapOnline[f] EXCEPT !.vsfd = fd] /\ HasRoom(f, fd) => TakesOn(f, fd)
<1>1. /\ SInv'
      /\ DOMAIN mapOnline' \subseteq DOMAIN m
      /\ \A f \in DOMAIN m : Len(Printed(f, m[f])) < TmpSize =>
            f \in DOMAIN mapOnline' /\ mapOnline'[f] = m[f]
    BY SaveKeepsSound
<1>2. ASSUME NEW f \in Fds \ {fd}, f \in DOMAIN mapOnline => m[f] = mapOnline[f]
      PROVE  Kept(f)
  <2>1. CASE f \in DOMAIN mapOnline
    <3>1. m[f] = mapOnline[f] /\ Len(Printed(f, m[f])) < TmpSize
        BY <1>2, <2>1 DEF SInv
    <3>2. f \in DOMAIN mapOnline' /\ mapOnline'[f] = mapOnline[f]
        BY <1>1, <2>1, <3>1
    <3>3. QED
        BY <2>1, <3>2 DEF Kept
  <2>2. CASE f \notin DOMAIN mapOnline
      BY <1>1, <2>2 DEF Kept
  <2>3. QED
      BY <2>1, <2>2
<1>3. ASSUME NEW f \in DOMAIN mapOnline \ {fd},
             m[f] = [mapOnline[f] EXCEPT !.vsfd = fd], HasRoom(f, fd)
      PROVE  TakesOn(f, fd)
  <2>1. Len(Printed(f, m[f])) < TmpSize
      BY <1>3 DEF HasRoom
  <2>2. QED
      BY <1>1, <1>3, <2>1 DEF TakesOn
<1>4. QED
    BY <1>1, <1>2, <1>3

\* What the segment's invariant says of the map's entries.
LEMMA SoundEntries ==
    ASSUME SInv
    PROVE  /\ DOMAIN mapOnline \subseteq Fds /\ IsFiniteSet(DOMAIN mapOnline)
           /\ mapOnline = [f \in DOMAIN mapOnline |-> mapOnline[f]]
           /\ \A f \in DOMAIN mapOnline : mapOnline[f] \in Info
BY DEF SInv, IsPlainMap

\* Names are text without separators.
LEMMA NamesAreText == Names \subseteq {t \in Seq(Char) : Plain(t)}
<1>1. ASSUME NEW name \in Names PROVE name \in {t \in Seq(Char) : Plain(t)}
  <2>1. [name |-> name, stat |-> ONLINE_STAT_ON, vsfd |-> NoFd] \in OnlineInfo
      BY DEF OnlineInfo, ONLINE_STAT
  <2>2. [name |-> name, stat |-> ONLINE_STAT_ON, vsfd |-> NoFd] \in Info
      BY <2>1, NamesArePlain
  <2>3. QED
      BY <2>2 DEF Info
<1>2. QED
    BY <1>1

\* A registration leaves the others' entries alone.
LEMMA RegSpares ==
    ASSUME SInv, NEW fd \in Fds, NEW name \in Names, RegOnlineShmat(fd, name)
    PROVE  SInv' /\ \A f \in Fds \ {fd} : Kept(f)
<1> DEFINE m == RegMap(mapOnline, fd, name)
<1>1. Save(m)
    BY DEF RegOnlineShmat
<1>2. /\ DOMAIN m = DOMAIN mapOnline \cup {fd}
      /\ \A f \in DOMAIN mapOnline \ {fd} : m[f] = mapOnline[f]
    BY SoundEntries DEF RegMap
<1>3. IsPlainMap(m)
  <2>1. m = [f \in DOMAIN mapOnline \cup {fd} |-> m[f]]
      BY SoundEntries DEF RegMap
  <2>2. m[fd] \in Info
      BY SoundEntries, NamesAreText DEF RegMap, Info, ONLINE_STAT
  <2> HIDE DEF m
  <2>3. \A f \in DOMAIN mapOnline \cup {fd} : m[f] \in Info
      BY SoundEntries, <1>2, <2>2
  <2>4. QED
      BY SoundEntries, <1>2, <2>1, <2>3 DEF IsPlainMap
<1>4. IsFiniteSet(DOMAIN m)
    BY SoundEntries, <1>2, FS_AddElement
<1> HIDE DEF m
<1>5. /\ SInv'
      /\ \A f \in Fds \ {fd} : (f \in DOMAIN mapOnline => m[f] = mapOnline[f]) => Kept(f)
    BY <1>1, <1>2, <1>3, <1>4, SaveSpares
<1>6. QED
    BY <1>2, <1>5

\* A change of status leaves the others' entries alone.
LEMMA StatSpares ==
    ASSUME SInv, NEW fd \in Fds, NEW stat \in ONLINE_STAT, UpdateOnlineStat(fd, stat)
    PROVE  SInv' /\ \A f \in Fds \ {fd} : Kept(f)
<1> DEFINE m == StatMap(mapOnline, fd, stat)
<1>1. fd \in DOMAIN mapOnline /\ Save(m)
    BY DEF UpdateOnlineStat
<1>2. /\ DOMAIN m = DOMAIN mapOnline
      /\ \A f \in DOMAIN mapOnline \ {fd} : m[f] = mapOnline[f]
      /\ m[fd] = [mapOnline[fd] EXCEPT !.stat = stat]
      /\ m = [f \in DOMAIN mapOnline |-> m[f]]
    BY SoundEntries, <1>1 DEF StatMap
<1> HIDE DEF m
<1>3. IsPlainMap(m)
  <2>1. m[fd] \in Info
      BY SoundEntries, <1>1, <1>2 DEF Info
  <2>2. \A f \in DOMAIN mapOnline : m[f] \in Info
      BY SoundEntries, <1>2, <2>1
  <2>3. QED
      BY SoundEntries, <1>2, <2>2 DEF IsPlainMap
<1>4. /\ SInv'
      /\ \A f \in Fds \ {fd} : (f \in DOMAIN mapOnline => m[f] = mapOnline[f]) => Kept(f)
    BY SoundEntries, <1>1, <1>2, <1>3, SaveSpares
<1>5. QED
    BY <1>2, <1>4

\* A vs changes the entries of those it names only, and gives them the caller
\* as their opponent.
LEMMA VsSpares ==
    ASSUME SInv, NEW fd \in Fds, NEW name \in Names, Vs(fd, name)
    PROVE  /\ SInv'
           /\ \A f \in Fds \ {fd} :
                 \/ Kept(f)
                 \/ f \in NamedIn(mapOnline, name) /\ (HasRoom(f, fd) => TakesOn(f, fd))
<1>1. PICK enemy \in LastOf(NamedIn(mapOnline, name)) :
          Save(VsMap(mapOnline, fd, name, enemy))
    BY DEF Vs
<1>2. enemy \in Fds /\ fd \in DOMAIN mapOnline
    BY SoundEntries DEF LastOf, NamedIn, Vs
<1> DEFINE c == Challenged(mapOnline, fd, name)  m == VsMap(mapOnline, fd, name, enemy)
<1>3. /\ DOMAIN c = DOMAIN mapOnline
      /\ \A f \in NamedIn(mapOnline, name) : c[f] = [mapOnline[f] EXCEPT !.vsfd = fd]
      /\ \A f \in DOMAIN mapOnline \ NamedIn(mapOnline, name) : c[f] = mapOnline[f]
    BY DEF Challenged, NamedIn
<1>4. \A f \in DOMAIN mapOnline :
          c[f] = mapOnline[f] \/ c[f] = [mapOnline[f] EXCEPT !.vsfd = fd]
    BY <1>3
<1>5. m = [c EXCEPT ![fd].vsfd = enemy]
    BY DEF VsMap
<1> HIDE DEF c
<1>6. \A f \in DOMAIN mapOnline : c[f] \in Info
    BY SoundEntries, <1>4, ZenonT(60) DEF Info
<1>7. /\ DOMAIN m = DOMAIN mapOnline
      /\ \A f \in DOMAIN mapOnline \ {fd} : m[f] = c[f]
      /\ m[fd] = [c[fd] EXCEPT !.vsfd = enemy]
      /\ m = [f \in DOMAIN mapOnline |-> m[f]]
    BY <1>2, <1>3, <1>5
<1>8. Save(m)
    BY <1>1
<1> HIDE DEF m
<1>9. IsPlainMap(m)
  <2>1. m[fd] \in Info
      BY <1>2, <1>6, <1>7 DEF Info
  <2>2. \A f \in DOMAIN mapOnline : m[f] \in Info
      BY <1>6, <1>7, <2>1
  <2>3. QED
      BY SoundEntries, <1>7, <2>2 DEF IsPlainMap
<1>10. /\ SInv'
       /\ \A f \in Fds \ {fd} : (f \in DOMAIN mapOnline => m[f] = mapOnline[f]) => Kept(f)
       /\ \A f \in DOMAIN mapOnline \ {fd} :
             m[f] = [mapOnline[f] EXCEPT !.vsfd = fd] /\ HasRoom(f, fd) => TakesOn(f, fd)
    BY SoundEntries, <1>7, <1>8, <1>9, SaveSpares
<1>11. ASSUME NEW f \in Fds \ {fd}
       PROVE  \/ Kept(f)
              \/ f \in NamedIn(mapOnline, name) /\ (HasRoom(f, fd) => TakesOn(f, fd))
  <2>1. CASE f \in NamedIn(mapOnline, name)
    <3>1. f \in DOMAIN mapOnline \ {fd} /\ m[f] = [mapOnline[f] EXCEPT !.vsfd = fd]
        BY <1>3, <1>7, <2>1 DEF NamedIn
    <3>2. QED
        BY <1>10, <2>1, <3>1
  <2>2. CASE f \notin NamedIn(mapOnline, name)
    <3>1. f \in DOMAIN mapOnline => m[f] = mapOnline[f]
        BY <1>3, <1>7, <2>2
    <3>2. QED
        BY <1>10, <3>1
  <2>3. QED
      BY <2>1, <2>2
<1>12. QED
    BY <1>10, <1>11

\* Every step is a call of one of these, and spares the others as that call's.
LEMMA StepSpares ==
    ASSUME SInv, Next
    PROVE  SInv' /\ \A fd \in Fds : Spares(fd)
<1>1. SInv'
    BY RegSpares, VsSpares, StatSpares DEF Next
<1>2. ASSUME NEW fd \in Fds, NEW f \in Fds \ {fd}, ~Kept(f)
      PROVE  /\ \A name \in Names : ~RegOnlineShmat(fd, name)
             /\ \A stat \in ONLINE_STAT : ~UpdateOnlineStat(fd, stat)
             /\ \A name \in Names : Vs(fd, name) =>
                   /\ f \in NamedIn(mapOnline, name)
                   /\ HasRoom(f, fd) => TakesOn(f, fd)
    BY <1>2, RegSpares, VsSpares, StatSpares
<1>3. QED
    BY <1>1, <1>2 DEF Spares

\* Whatever names players send, however long, and whatever older texts come back
\* behind a shorter one: a registration and a change of status leave the entries
\* of the other players as they are, and a vs changes those of the players it
\* names only, each so that the caller is its opponent, as long as its record has
\* room for the caller's descriptor.
THEOREM OthersAreSpared == Spec => OthersSurvive
<1>1. SInv /\ [Next]_vars => SInv'
  <2>1. ASSUME SInv, Next PROVE SInv'
      BY <2>1, StepSpares
  <2>2. ASSUME SInv, UNCHANGED vars PROVE SInv'
      BY <2>2 DEF SInv, vars
  <2>3. QED
      BY <2>1, <2>2
<1>2. SInv /\ [Next]_vars =>
         [\A fd \in Fds : \A f \in Fds \ {fd} :
             \/ Kept(f)
             \/ /\ \A name \in Names : ~RegOnlineShmat(fd, name)
                /\ \A stat \in ONLINE_STAT : ~UpdateOnlineStat(fd, stat)
                /\ \A name \in Names : Vs(fd, name) =>
                      /\ f \in NamedIn(mapOnline, name)
                      /\ HasRoom(f, fd) => TakesOn(f, fd)]_vars
    BY StepSpares DEF Spares
<1>3. QED
    BY NewIsSound, <1>1, <1>2, PTL DEF Spec, OthersSurvive

=============================================================================
