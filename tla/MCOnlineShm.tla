---------------------------- MODULE MCOnlineShm ----------------------------
(* OnlineShm on small texts.                                                 *)
EXTENDS OnlineShm

Al        == <<"a", "l">>
Alexandra == <<"a", "l", "e", "x", "a", "n", "d", "r", "a", "-", "s", "o">>

\* one and two digits, so that records move when descriptors change places
MixedFds  == {9, 10}
ThreeFds  == {9, 10, 11}
NamesThatFit == {Al, Alexandra}
\* A record of Ob is cut when both descriptors in it have two digits, of B never.
B  == <<"b">>
Ob == <<"o", "b">>
NamesTooLong == {B, Ob}

=============================================================================
