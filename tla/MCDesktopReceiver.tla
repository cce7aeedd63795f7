------------------------- MODULE MCDesktopReceiver --------------------------
(* DesktopReceiver on a small instance.                                     *)
EXTENDS DesktopReceiver

P(seq, start, count, stream, fmt) ==
    [sequence |-> seq, start |-> start, count |-> count, stream |-> stream, format |-> fmt]

(* A stream of packets of one and two frames, the second of which may       *)
(* arrive after a gap; a packet of the stream before a seek; and a          *)
(* datagram of another format.                                              *)
SentPackets ==
    { P(0, 0, 2, 1, "stereo"),
      P(1, 2, 1, 1, "stereo"),
      P(3, 3, 1, 1, "stereo"),
      P(2, 0, 1, 2, "stereo"),
      P(2, 3, 1, 1, "mono") }
=============================================================================
