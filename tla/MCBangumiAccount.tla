-------------------------- MODULE MCBangumiAccount --------------------------
(***************************************************************************)
(* Instances of BangumiAccount for TLC: one operation of the account page  *)
(* and two requests of other pages, two users.                             *)
(***************************************************************************)
EXTENDS BangumiAccount

CONSTANTS o1, o2, o3, u1, u2

MCOps   == {o1, o2, o3}
MCUsers == {u1, u2}
=============================================================================
