--------------------------- MODULE OnlineRegistry ---------------------------
(***************************************************************************)
(* What COnlineLogic promises its callers: a registry of players on which   *)
(* every call is one atomic step.  OnlineShm implements it with text in a   *)
(* shared segment, PlaneServer drives it from the poll loop.                *)
(***************************************************************************)
EXTENDS OnlineMap

VARIABLE online     \* the player map

TypeOK == IsOnlineMap(online)

Init == online = EmptyMap

\* regOnlineShmat
Reg(fd, name) == online' = RegMap(online, fd, name)

\* vs without the test of bUpdate: a challenger nobody knows is paired too
BugVsUnregistered(fd, name) ==
    \E enemy \in LastOf(NamedIn(online, name)) :
        online' = Challenged(online, fd, name)

\* vs: nothing happens unless somebody has that name and fd is registered
Vs(fd, name) ==
    /\ fd \in DOMAIN online
    /\ \E enemy \in LastOf(NamedIn(online, name)) :
          online' = VsMap(online, fd, name, enemy)

\* updateOnlineStat
UpdateOnlineStat(fd, stat) ==
    /\ fd \in DOMAIN online
    /\ online' = StatMap(online, fd, stat)

Next ==
    \E fd \in Fds :
        \/ \E name \in Names : Reg(fd, name)
        \/ \E name \in Names : Vs(fd, name)
        \/ \E stat \in ONLINE_STAT : UpdateOnlineStat(fd, stat)

Spec == Init /\ [][Next]_online

-----------------------------------------------------------------------------

\* A hit is sent to the descriptor getVsFD returns, so an opponent must be
\* somebody the registry knows: an entry's vsfd is -1 or the key of an entry.
OpponentRegistered ==
    \A f \in DOMAIN online : online[f].vsfd \in DOMAIN online \cup {NoFd}

Repaired == {f \in DOMAIN online :
                f \in DOMAIN online' /\ online'[f].vsfd # online[f].vsfd}

\* Whenever opponents change there is one challenger g to whom every other
\* changed entry now points, and g and its own opponent point at each other:
\* a vs request never leaves its sender shooting at somebody who cannot answer.
ChallengeIsMutual ==
    [][Repaired # {} =>
        \E g \in DOMAIN online' :
            /\ \A f \in Repaired \ {g} : online'[f].vsfd = g
            /\ online'[g].vsfd \in DOMAIN online'
            /\ online'[online'[g].vsfd].vsfd = g]_online

\* A player who takes a new name stays in the fight it was in, and a vs
\* request renames nobody: the names and the pairing never change together,
\* and nobody who was registered disappears.
RenameKeepsOpponent ==
    [][/\ DOMAIN online \subseteq DOMAIN online'
       /\ \/ Repaired = {}
          \/ \A f \in DOMAIN online' :
                online'[f].name = online[f].name]_online

=============================================================================
