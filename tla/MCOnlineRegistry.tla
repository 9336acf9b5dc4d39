-------------------------- MODULE MCOnlineRegistry --------------------------
(* OnlineRegistry on three descriptors and three names.                     *)
EXTENDS OnlineRegistry, TLC

MCFds == {4, 5, 6}

NameSymmetry == Permutations(Names)

=============================================================================
