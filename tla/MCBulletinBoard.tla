-------------------------- MODULE MCBulletinBoard --------------------------
(* BulletinBoard on a few instances of the app and both servers.            *)
EXTENDS BulletinBoard

CONSTANTS a1, a2

MCApps == {a1, a2}
MCKinds == {"simple", "threads"}

=============================================================================
