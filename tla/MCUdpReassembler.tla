-------------------------- MODULE MCUdpReassembler --------------------------
(* A small instance of UdpReassembler for TLC. *)
EXTENDS UdpReassembler, TLC

\* Keys, destinations and message tags are only compared for equality.
Symmetric == Permutations(Keys) \cup Permutations(Dests) \cup Permutations(Gens)

\* What is left of an entry that is no longer in the table is never read.
Visible == <<present, [k \in present |-> <<age[k], shape[k], got[k]>>], message, delivered>>
=============================================================================
