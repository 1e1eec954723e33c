---------------------------- MODULE MCHy2Server -----------------------------
(* Small instances of Hy2Server for TLC. *)
EXTENDS Hy2Server, TLC

\* Connections, users, rates and entries are only compared for equality; the
\* instances that use this have no or only refusable QUIC connections.
Symmetric ==
    Permutations(Quics) \cup Permutations(Users) \cup Permutations(Rates)
      \cup Permutations(Entries)
=============================================================================
