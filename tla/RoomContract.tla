---------------------------- MODULE RoomContract ----------------------------
(***************************************************************************)
(* What a room promises its members about scheduled commands, without the *)
(* threads that make it happen.  At most one command is announced and at  *)
(* most one is being executed; the room's playback state and stream       *)
(* identifier only change as the effect of an executed command, of the    *)
(* host starting to play, or of the room coming to its end.               *)
(*                                                                         *)
(* RoomHost implements this module (RoomHost!ImplementsContract).          *)
(***************************************************************************)
EXTENDS Integers

CONSTANTS Commands,     \* the commands a host can accept, as records
          StreamIds,    \* the 32-bit stream identifiers, zero excluded
          None          \* no command

VARIABLES state,        \* the playback state the room announces
          stream,       \* the stream identifier the room announces
          announced,    \* the command announced and not started, or None
          executing     \* the command the host is executing, or None

vars == <<state, stream, announced, executing>>

Init ==
    /\ state = "Stopped"
    /\ stream \in StreamIds
    /\ announced = None
    /\ executing = None

(* A command is accepted: only when no other one is announced. *)
Announce ==
    /\ announced = None
    /\ announced' \in Commands
    /\ UNCHANGED <<state, stream, executing>>

(* The host starts on the announced command: one at a time. *)
Begin ==
    /\ announced # None
    /\ executing = None
    /\ executing' = announced
    /\ announced' = None
    /\ UNCHANGED <<state, stream>>

(* The executed command takes effect.  Only Seek changes the stream, and   *)
(* only to the identifier that was announced with it.                      *)
Effect ==
    /\ executing # None
    /\ executing' = None
    /\ state' = CASE executing.action = "Pause" -> "Paused"
                  [] executing.action = "Stop"  -> "Stopped"
                  [] OTHER                      -> state
    /\ stream' = IF executing.action = "Seek" THEN executing.nextStreamId ELSE stream
    /\ UNCHANGED announced

(* A segment starts to play. *)
Playing ==
    /\ executing = None
    /\ state' = "Playing"
    /\ UNCHANGED <<stream, announced, executing>>

(* The source is exhausted: the room stops without a command. *)
Ended ==
    /\ executing = None
    /\ state = "Playing"
    /\ state' = "Stopped"
    /\ UNCHANGED <<stream, announced, executing>>

Next ==
    \/ Announce
    \/ Begin
    \/ Effect
    \/ Playing
    \/ Ended

Spec == Init /\ [][Next]_vars
=============================================================================
