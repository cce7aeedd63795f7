-------------------------- MODULE MCClockExchange ---------------------------
(* ClockExchange on a small instance.                                       *)
EXTENDS ClockExchange
=============================================================================
