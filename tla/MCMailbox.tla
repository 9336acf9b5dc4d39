----------------------------- MODULE MCMailbox -----------------------------
(* Mailbox with two clients: one whose requests have no body, and one that  *)
(* registers two names.                                                     *)
EXTENDS Mailbox

CONSTANTS c1, c2

MCConns == {c1, c2}
MCLeavers == {c1}
MCWords == [c \in MCConns |->
              IF c = c1 THEN << <<"r">>, <<"r">> >>
              ELSE << <<"r", "@", "a">>, <<"r", "@", "b">> >>]

=============================================================================
