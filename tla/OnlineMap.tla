----------------------------- MODULE OnlineMap -----------------------------
(***************************************************************************)
(* The player map of the plane-room server: COnlineLogic::mapOnline of      *)
(* server/game_logic_server/onlineLogic.cpp, a std::map from the            *)
(* descriptor of a connection to what the server knows about its player.    *)
(* Only operators: OnlineRegistry gives them a state machine, OnlineShm     *)
(* stores the map as text in the shared segment, and PlaneServer calls them *)
(* from its poll loop.                                                      *)
(***************************************************************************)
EXTENDS Integers

CONSTANTS
    Fds,    \* the descriptors a client connection can have
    Names   \* what a client can send as the body of reg or vs

\* 0 is the server's standard input, so no client has it; main.cpp:210 tests
\* against it, the initial value of iEnemyFd (onlineLogic.cpp:318) is it.
ASSUME FdsAssumption == Fds \subseteq Nat \ {0}

NoFd == -1

ONLINE_STAT_NEW == 0
ONLINE_STAT_ON  == 1
ONLINE_STAT_OFF == 2
ONLINE_STAT == {ONLINE_STAT_NEW, ONLINE_STAT_ON, ONLINE_STAT_OFF}

\* The field _fd is the key of the map.
OnlineInfo == [name : Names, stat : ONLINE_STAT, vsfd : Fds \cup {NoFd}]

IsOnlineMap(m) == DOMAIN m \subseteq Fds /\ m \in [DOMAIN m -> OnlineInfo]

EmptyMap == [f \in {} |-> 0]

-----------------------------------------------------------------------------

\* Operators named Bug... are plausible mistakes in the definition that
\* follows them; they are used only to see that the properties notice.

\* a new name always gets a new entry
BugRegForgetsOpponent(m, fd, name) ==
    [f \in DOMAIN m \cup {fd} |->
        IF f = fd THEN [name |-> name, stat |-> ONLINE_STAT_ON, vsfd |-> NoFd]
                  ELSE m[f]]

\* a known descriptor keeps the name it was first registered with
BugRegKeepsName(m, fd, name) ==
    IF fd \in DOMAIN m THEN m
    ELSE BugRegForgetsOpponent(m, fd, name)

\* regOnlineShmat: an unknown descriptor gets a fresh entry without opponent,
\* a known one takes the new name and keeps whatever opponent it has.
RegMap(m, fd, name) ==
    IF fd \notin DOMAIN m
    THEN [f \in DOMAIN m \cup {fd} |->
            IF f = fd
            THEN [name |-> name, stat |-> ONLINE_STAT_ON, vsfd |-> NoFd]
            ELSE m[f]]
    ELSE IF m[fd].name # name
         THEN [m EXCEPT ![fd].name = name, ![fd].stat = ONLINE_STAT_ON]
         ELSE m

\* The entries a vs request names, and the one the map's iteration order
\* (ascending descriptors) reaches last, as a set so that nothing is chosen
\* when there is none.
NamedIn(m, name) == {f \in DOMAIN m : m[f].name = name}

LastOf(S) == {f \in S : \A g \in S : g <= f}

\* The first loop of vs: every entry of that name gets fd as its opponent.
Challenged(m, fd, name) ==
    [f \in DOMAIN m |-> IF m[f].name = name
                        THEN [m[f] EXCEPT !.vsfd = fd]
                        ELSE m[f]]

\* the loop that finds the enemy does not make it the challenger's opponent
BugVsOneSided(m, fd, name, enemy) == [m EXCEPT ![fd].vsfd = enemy]

\* The rest of vs for a registered challenger: fd gets the last of them.
VsMap(m, fd, name, enemy) ==
    [Challenged(m, fd, name) EXCEPT ![fd].vsfd = enemy]

\* updateOnlineStat on an entry that exists.
StatMap(m, fd, stat) == [m EXCEPT ![fd].stat = stat]

\* without an opponent the hit goes to whoever is there
BugGetVsFD(m, fd) ==
    IF fd \in DOMAIN m /\ m[fd].vsfd # NoFd THEN m[fd].vsfd
    ELSE LET others == DOMAIN m \ {fd}
         IN  IF others = {} THEN NoFd ELSE CHOOSE f \in others : TRUE

\* getVsFD.
GetVsFD(m, fd) == IF fd \in DOMAIN m THEN m[fd].vsfd ELSE NoFd

\* getOnlineList, as the set of descriptors whose names it lists.
OnlineIn(m) == {f \in DOMAIN m : m[f].stat = ONLINE_STAT_ON}

=============================================================================
