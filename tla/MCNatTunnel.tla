---------------------------- MODULE MCNatTunnel ----------------------------
(* Small instances of NatTunnel for TLC. *)
EXTENDS NatTunnel, TLC

\* Tunnels and public connections are only compared for equality.
Symmetric == Permutations(Tunnels) \cup Permutations(Publics)
=============================================================================
