---------------------------- MODULE MCRoomMembers ---------------------------
(* RoomMembers on a small instance: the values are in the cfg file.         *)
EXTENDS RoomMembers
=============================================================================
