----------------------------- MODULE MCRoomHost -----------------------------
(* RoomHost on a small instance: the values are in the cfg files.           *)
EXTENDS RoomHost, TLC

NegativeLatency == -1

HandlerSymmetry == Permutations(Handlers)
=============================================================================
