------------------------- MODULE MCAdminSupervisor -------------------------
(* Small instances of AdminSupervisor for TLC. *)
EXTENDS AdminSupervisor, TLC

\* Configurations and files are only compared for equality, and none of the fairness
\* conditions and temporal properties tells one from another: each is about one
\* handler, whatever it saves and wherever.  Handlers are not permuted.
Symmetric == Permutations(Configs) \cup Permutations(Inodes)
=============================================================================
