---------------------------- MODULE MCFollowThrough ----------------------------
(* Small instances of FollowThrough.  There is a liveness property, so     *)
(* nothing is declared symmetric.                                          *)
EXTENDS FollowThrough
===============================================================================
