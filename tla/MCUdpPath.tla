----------------------------- MODULE MCUdpPath -----------------------------
(* A small instance of UdpPath for TLC: a byte has three bits, so that a      *)
(* packet has at most 7 fragments and an address of two bytes a length of two.*)
EXTENDS UdpPath

\* An address of one byte, and one that leaves no room in the smaller datagram.
RemoteHosts == {<<1>>, <<2, 5>>}
=============================================================================
