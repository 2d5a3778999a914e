---------------------------- MODULE MCRtpSender ----------------------------
(* Two senders for one address and one for another; packets around one, two *)
(* and three RTP packets.                                                   *)
EXTENDS RtpSender, TLC

CONSTANTS s1, s2, a1, a2

MCDest == s1 :> a1 @@ s2 :> a1

MCDestApart == s1 :> a1 @@ s2 :> a2

MCSize == {0, 1, 1399, 1400, 1401, 2800}
=============================================================================
