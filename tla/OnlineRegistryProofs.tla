------------------------ MODULE OnlineRegistryProofs ------------------------
(***************************************************************************)
(* What holds of the player registry for every set of descriptors and names.*)
(* The lemmas about the map come first; the proofs about the servers that   *)
(* keep such a map take them from here.                                     *)
(***************************************************************************)
EXTENDS OnlineRegistry, TLAPS

-----------------------------------------------------------------------------
(* What the operators on the map return.                                    *)

\* Registering keeps the map well formed and adds its descriptor.
LEMMA RegMapType ==
    ASSUME NEW m, IsOnlineMap(m), NEW fd \in Fds, NEW name \in Names
    PROVE  /\ IsOnlineMap(RegMap(m, fd, name))
           /\ DOMAIN RegMap(m, fd, name) = DOMAIN m \cup {fd}
<1> USE DEF IsOnlineMap, OnlineInfo, ONLINE_STAT, ONLINE_STAT_ON
<1>1. CASE fd \notin DOMAIN m
    BY <1>1 DEF RegMap
<1>2. CASE fd \in DOMAIN m /\ m[fd].name # name
  <2> DEFINE renamed == [m EXCEPT ![fd].name = name]
  <2>1. renamed \in [DOMAIN m -> OnlineInfo] /\ DOMAIN renamed = DOMAIN m
      BY <1>2
  <2>2. RegMap(m, fd, name) = [renamed EXCEPT ![fd].stat = ONLINE_STAT_ON]
      BY <1>2 DEF RegMap
  <2> DEFINE info == [renamed[fd] EXCEPT !.stat = ONLINE_STAT_ON]
  <2>3. info \in OnlineInfo
      BY <1>2, <2>1
  <2>4. RegMap(m, fd, name) = [renamed EXCEPT ![fd] = info]
      BY <2>2
  <2> HIDE DEF renamed, info
  <2>5. RegMap(m, fd, name) \in [DOMAIN m -> OnlineInfo]
      BY <2>1, <2>3, <2>4
  <2>6. DOMAIN RegMap(m, fd, name) = DOMAIN m
      BY <2>5
  <2>7. QED
      BY <1>2, <2>5, <2>6
<1>3. CASE fd \in DOMAIN m /\ m[fd].name = name
    BY <1>3 DEF RegMap
<1>4. QED
    BY <1>1, <1>2, <1>3

\* Registering leaves every opponent as it was; a new entry has none.
LEMMA RegMapOpponents ==
    ASSUME NEW m, IsOnlineMap(m), NEW fd \in Fds, NEW name \in Names
    PROVE  /\ \A f \in DOMAIN m : RegMap(m, fd, name)[f].vsfd = m[f].vsfd
           /\ fd \notin DOMAIN m => RegMap(m, fd, name)[fd].vsfd = NoFd
<1> USE DEF IsOnlineMap, OnlineInfo
<1>1. CASE fd \notin DOMAIN m
    BY <1>1 DEF RegMap
<1>2. CASE fd \in DOMAIN m /\ m[fd].name # name
    BY <1>2 DEF RegMap
<1>3. CASE fd \in DOMAIN m /\ m[fd].name = name
    BY <1>3 DEF RegMap
<1>4. QED
    BY <1>1, <1>2, <1>3

\* What vs makes of the map, entry by entry: the challenger gets the enemy,
\* everybody else of that name gets the challenger, nothing else changes.
LEMMA VsMapEntries ==
    ASSUME NEW m, IsOnlineMap(m), NEW fd \in DOMAIN m, NEW name \in Names,
           NEW enemy \in NamedIn(m, name)
    PROVE  /\ IsOnlineMap(VsMap(m, fd, name, enemy))
           /\ DOMAIN VsMap(m, fd, name, enemy) = DOMAIN m
           /\ VsMap(m, fd, name, enemy)[fd].vsfd = enemy
           /\ \A f \in DOMAIN m \ {fd} :
                 VsMap(m, fd, name, enemy)[f].vsfd =
                     IF m[f].name = name THEN fd ELSE m[f].vsfd
           /\ \A f \in DOMAIN m :
                 VsMap(m, fd, name, enemy)[f].name = m[f].name
<1> DEFINE c == Challenged(m, fd, name)
<1>1. /\ DOMAIN c = DOMAIN m
      /\ c \in [DOMAIN m -> OnlineInfo]
      /\ \A f \in DOMAIN m : c[f].name = m[f].name
      /\ \A f \in DOMAIN m :
            c[f].vsfd = IF m[f].name = name THEN fd ELSE m[f].vsfd
    BY DEF Challenged, IsOnlineMap, OnlineInfo
<1>2. enemy \in Fds
    BY DEF NamedIn, IsOnlineMap
<1> HIDE DEF c
<1>3. VsMap(m, fd, name, enemy) = [c EXCEPT ![fd].vsfd = enemy]
    BY DEF VsMap, c
<1>4. QED
    BY <1>1, <1>2, <1>3 DEF IsOnlineMap, OnlineInfo

\* Registering puts the name on, and every other entry stays as it was.
LEMMA RegMapEntries ==
    ASSUME NEW m, IsOnlineMap(m), NEW fd \in Fds, NEW name \in Names
    PROVE  /\ RegMap(m, fd, name)[fd].name = name
           /\ RegMap(m, fd, name)[fd].stat \in
                 {ONLINE_STAT_ON} \cup {m[f].stat : f \in DOMAIN m \cap {fd}}
           /\ \A f \in DOMAIN m \ {fd} : RegMap(m, fd, name)[f] = m[f]
<1> USE DEF IsOnlineMap, OnlineInfo
<1>1. CASE fd \notin DOMAIN m
    BY <1>1 DEF RegMap
<1>2. CASE fd \in DOMAIN m /\ m[fd].name # name
    BY <1>2 DEF RegMap
<1>3. CASE fd \in DOMAIN m /\ m[fd].name = name
    BY <1>3 DEF RegMap
<1>4. QED
    BY <1>1, <1>2, <1>3

\* A challenge changes nobody's status.
LEMMA VsMapStats ==
    ASSUME NEW m, IsOnlineMap(m), NEW fd \in DOMAIN m, NEW name \in Names,
           NEW enemy \in NamedIn(m, name)
    PROVE  \A f \in DOMAIN m : VsMap(m, fd, name, enemy)[f].stat = m[f].stat
<1> DEFINE c == Challenged(m, fd, name)
<1>1. /\ c \in [DOMAIN m -> OnlineInfo]
      /\ \A f \in DOMAIN m : c[f].stat = m[f].stat
    BY DEF Challenged, IsOnlineMap, OnlineInfo, NamedIn
<1> HIDE DEF c
<1>2. VsMap(m, fd, name, enemy) = [c EXCEPT ![fd].vsfd = enemy]
    BY DEF VsMap, c
<1>3. QED
    BY <1>1, <1>2 DEF OnlineInfo

\* A changed status keeps the map well formed.
LEMMA StatMapType ==
    ASSUME NEW m, IsOnlineMap(m), NEW fd \in DOMAIN m, NEW stat \in ONLINE_STAT
    PROVE  IsOnlineMap(StatMap(m, fd, stat)) /\ DOMAIN StatMap(m, fd, stat) = DOMAIN m
    BY DEF StatMap, IsOnlineMap, OnlineInfo

-----------------------------------------------------------------------------
(* Type correctness.                                                        *)

\* The registry is always a map from descriptors to well-formed entries:
\* std::map<int,OnlineInfo> with the values the four methods store in it.
THEOREM TypeCorrect == Spec => []TypeOK
<1>1. Init => TypeOK
    BY DEF Init, TypeOK, IsOnlineMap, EmptyMap
<1>2. TypeOK /\ [Next]_online => TypeOK'
  <2> SUFFICES ASSUME TypeOK, [Next]_online PROVE TypeOK'
      OBVIOUS
  <2>1. CASE \E fd \in Fds, name \in Names : Reg(fd, name)
    <3>1. PICK fd \in Fds, name \in Names : online' = RegMap(online, fd, name)
        BY <2>1 DEF Reg
    <3>2. IsOnlineMap(RegMap(online, fd, name))
        BY RegMapType DEF TypeOK
    <3>3. QED
        BY <3>1, <3>2 DEF TypeOK
  <2>2. CASE \E fd \in Fds, name \in Names : Vs(fd, name)
      BY <2>2, VsMapEntries DEF Vs, TypeOK, LastOf
  <2>3. CASE \E fd \in Fds, stat \in ONLINE_STAT : UpdateOnlineStat(fd, stat)
      BY <2>3 DEF UpdateOnlineStat, StatMap, TypeOK, IsOnlineMap, OnlineInfo
  <2>4. CASE UNCHANGED online
      BY <2>4 DEF TypeOK
  <2>5. QED
      BY <2>1, <2>2, <2>3, <2>4 DEF Next
<1>3. QED
    BY <1>1, <1>2, PTL DEF Spec

-----------------------------------------------------------------------------
(* Opponents.                                                               *)

\* Reg and Vs are the only actions that touch descriptors or opponents, so
\* each step is described by one of three cases.
LEMMA StepOpponents ==
    ASSUME TypeOK, [Next]_online
    PROVE  \/ /\ \A f \in DOMAIN online : online'[f].vsfd = online[f].vsfd
              /\ \A f \in DOMAIN online' \ DOMAIN online :
                    online'[f].vsfd = NoFd
              /\ DOMAIN online \subseteq DOMAIN online'
           \/ \E fd \in DOMAIN online, name \in Names :
                 \E enemy \in NamedIn(online, name) :
                    online' = VsMap(online, fd, name, enemy)
<1>1. CASE \E fd \in Fds, name \in Names : Reg(fd, name)
  <2>1. PICK fd \in Fds, name \in Names : online' = RegMap(online, fd, name)
      BY <1>1 DEF Reg
  <2>2. DOMAIN online' = DOMAIN online \cup {fd}
      BY <2>1, RegMapType DEF TypeOK
  <2>3. /\ \A f \in DOMAIN online : online'[f].vsfd = online[f].vsfd
        /\ fd \notin DOMAIN online => online'[fd].vsfd = NoFd
      BY <2>1, RegMapOpponents DEF TypeOK
  <2>4. QED
      BY <2>2, <2>3
<1>2. CASE \E fd \in Fds, name \in Names : Vs(fd, name)
    BY <1>2 DEF Vs, LastOf
<1>3. CASE \E fd \in Fds, stat \in ONLINE_STAT : UpdateOnlineStat(fd, stat)
    BY <1>3 DEF UpdateOnlineStat, StatMap, TypeOK, IsOnlineMap, OnlineInfo
<1>4. CASE UNCHANGED online
    BY <1>4
<1>5. QED
    BY <1>1, <1>2, <1>3, <1>4 DEF Next

\* Whatever sequence of calls was made, the opponent of an entry is -1 or the
\* key of an entry: getVsFD (onlineLogic.cpp:356) never hands the server a
\* descriptor nobody registered on.
THEOREM OpponentsAreRegistered == Spec => []OpponentRegistered
<1>1. Init => OpponentRegistered
    BY DEF Init, OpponentRegistered, EmptyMap
<1>2. TypeOK /\ OpponentRegistered /\ [Next]_online => OpponentRegistered'
  <2> SUFFICES ASSUME TypeOK, OpponentRegistered, [Next]_online
               PROVE  OpponentRegistered'
      OBVIOUS
  <2>1. CASE /\ \A f \in DOMAIN online : online'[f].vsfd = online[f].vsfd
             /\ \A f \in DOMAIN online' \ DOMAIN online :
                   online'[f].vsfd = NoFd
             /\ DOMAIN online \subseteq DOMAIN online'
      BY <2>1 DEF OpponentRegistered
  <2>2. CASE \E fd \in DOMAIN online, name \in Names :
                \E enemy \in NamedIn(online, name) :
                   online' = VsMap(online, fd, name, enemy)
    <3>1. PICK fd \in DOMAIN online, name \in Names :
             \E enemy \in NamedIn(online, name) :
                online' = VsMap(online, fd, name, enemy)
        BY <2>2
    <3>2. PICK enemy \in NamedIn(online, name) :
           online' = VsMap(online, fd, name, enemy)
        BY <3>1
    <3>3. /\ DOMAIN online' = DOMAIN online
          /\ online'[fd].vsfd = enemy
          /\ \A f \in DOMAIN online \ {fd} :
                online'[f].vsfd \in {fd, online[f].vsfd}
        BY <3>2, VsMapEntries DEF TypeOK
    <3>4. enemy \in DOMAIN online
        BY DEF NamedIn
    <3>5. QED
        BY <3>3, <3>4 DEF OpponentRegistered
  <2>3. QED
      BY <2>1, <2>2, StepOpponents
<1>3. QED
    BY <1>1, <1>2, TypeCorrect, PTL DEF Spec

\* Every step that changes opponents leaves the challenger and its opponent
\* pointing at each other, and turns everybody else it changes towards the
\* challenger: the order of the two assignments in vs (onlineLogic.cpp:325
\* and 337) is right even for a player who challenges its own name.
THEOREM ChallengesAreMutual == Spec => ChallengeIsMutual
<1> DEFINE Mutual ==
        Repaired # {} =>
            \E g \in DOMAIN online' :
                /\ \A f \in Repaired \ {g} : online'[f].vsfd = g
                /\ online'[g].vsfd \in DOMAIN online'
                /\ online'[online'[g].vsfd].vsfd = g
<1>1. TypeOK /\ [Next]_online => Mutual
  <2> SUFFICES ASSUME TypeOK, [Next]_online, Repaired # {} PROVE Mutual
      OBVIOUS
  <2>a. PICK fd \in DOMAIN online, name \in Names :
           \E enemy \in NamedIn(online, name) :
              online' = VsMap(online, fd, name, enemy)
      BY StepOpponents DEF Repaired
  <2>1. PICK enemy \in NamedIn(online, name) :
           online' = VsMap(online, fd, name, enemy)
      BY <2>a
  <2>2. /\ DOMAIN online' = DOMAIN online
        /\ online'[fd].vsfd = enemy
        /\ \A f \in DOMAIN online \ {fd} :
              online'[f].vsfd =
                  IF online[f].name = name THEN fd ELSE online[f].vsfd
      BY <2>1, VsMapEntries DEF TypeOK
  <2>3. enemy \in DOMAIN online /\ online[enemy].name = name
      BY DEF NamedIn
  <2>4. \A f \in Repaired \ {fd} : online'[f].vsfd = fd
      BY <2>2 DEF Repaired
  <2>5. online'[enemy].vsfd = fd
      BY <2>2, <2>3
  <2>6. QED
      BY <2>2, <2>3, <2>4, <2>5
<1>2. QED
    BY <1>1, TypeCorrect, PTL DEF Spec, ChallengeIsMutual

\* Nobody who was registered disappears, and no call changes names and
\* opponents together: reg keeps the opponent (onlineLogic.cpp:201), vs the
\* names.
THEOREM RenamesKeepOpponents == Spec => RenameKeepsOpponent
<1> DEFINE Kept ==
        /\ DOMAIN online \subseteq DOMAIN online'
        /\ \/ Repaired = {}
           \/ \A f \in DOMAIN online' : online'[f].name = online[f].name
<1>1. TypeOK /\ [Next]_online => Kept
  <2> SUFFICES ASSUME TypeOK, [Next]_online PROVE Kept
      OBVIOUS
  <2>1. CASE /\ \A f \in DOMAIN online : online'[f].vsfd = online[f].vsfd
             /\ DOMAIN online \subseteq DOMAIN online'
      BY <2>1 DEF Repaired
  <2>2. CASE \E fd \in DOMAIN online, name \in Names :
                \E enemy \in NamedIn(online, name) :
                   online' = VsMap(online, fd, name, enemy)
      BY <2>2, VsMapEntries DEF TypeOK
  <2>3. QED
      BY <2>1, <2>2, StepOpponents
<1>2. QED
    BY <1>1, TypeCorrect, PTL DEF Spec, RenameKeepsOpponent

=============================================================================
