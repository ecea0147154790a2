--------------------------- MODULE MCRoomManager ----------------------------
(***************************************************************************)
(* RoomManager for TLC. Three sessions, so that one can add itself to a    *)
(* set that a second has emptied and a third has replaced, and two         *)
(* broadcasts that meet on a session. Sessions and broadcasters are        *)
(* interchangeable.                                                        *)
(***************************************************************************)
EXTENDS RoomManager, TLC

Symm == Permutations(Sessions) \cup Permutations(Broadcasters)
=============================================================================
