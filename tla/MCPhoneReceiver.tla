-------------------------- MODULE MCPhoneReceiver ---------------------------
(* PhoneReceiver on a small instance.                                       *)
EXTENDS PhoneReceiver
=============================================================================
