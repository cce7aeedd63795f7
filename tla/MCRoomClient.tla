---------------------------- MODULE MCRoomClient ----------------------------
(* RoomClient on a small instance.                                          *)
EXTENDS RoomClient
=============================================================================
