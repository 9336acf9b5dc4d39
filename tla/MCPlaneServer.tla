--------------------------- MODULE MCPlaneServer ---------------------------
(* PlaneServer on a few connections, descriptors and slots.                 *)
EXTENDS PlaneServer, TLC
LOCAL INSTANCE Functions

CONSTANTS amy, bob, pow

\* A name, and a name with the command word of the next request behind it.
Words == {amy, bob, pow}
Commands == {"reg", "onlineinfo", "vs", "hit", "other"}
MCNames == {<<n>> : n \in Words} \cup {<<n, cmd>> : n \in Words, cmd \in Commands}

TwoFds == {4, 5}

DuelRequests == {[cmd |-> "reg", body |-> <<amy>>],
                 [cmd |-> "vs",  body |-> <<amy>>],
                 [cmd |-> "hit", body |-> <<pow>>]}
PollRequests == {[cmd |-> "onlineinfo", body |-> <<pow>>],
                 [cmd |-> "other", body |-> <<pow>>]}
InfoRequests == {[cmd |-> "onlineinfo", body |-> <<pow>>]}

\* The clients send four requests in all, and at most one of them is refused,
\* leaves or is closed.
MaxRequests == 4
FewRequests ==
    /\ FoldFunction(+, 0, nsent) <= MaxRequests
    /\ Cardinality({c \in Conns : peer[c] \notin {"new", "open"}}) <= 1

ConnSymmetry == Permutations(Conns)

=============================================================================
