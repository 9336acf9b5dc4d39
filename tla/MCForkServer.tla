--------------------------- MODULE MCForkServer ---------------------------
(* ForkServer on two players, and a third connection for which the parent   *)
(* has no descriptor.                                                       *)
EXTENDS ForkServer

CONSTANTS c1, c2, c3

MCConns == {c1, c2, c3}
MCLate == {c3}
MCLeavers == {c2}
TwoFds == {4, 5}
MCNames == {<<"a">>, <<"b">>}
MCRequests ==
    (c1 :> {[cmd |-> "reg", body |-> <<"a">>], [cmd |-> "hit", body |-> <<"b">>]}) @@
    (c2 :> {[cmd |-> "reg", body |-> <<"b">>], [cmd |-> "vs", body |-> <<"a">>]}) @@
    (c3 :> {})

=============================================================================
