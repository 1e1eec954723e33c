--------------------------- MODULE MCCredentials ---------------------------
(* A small instance of AdminSessions, and so of Credentials, for TLC. *)
EXTENDS AdminSessions, TLC

\* Every set is one of identities that are only compared for equality.
Symmetric == Permutations(Users) \cup Permutations(Passwords) \cup Permutations(Handlers)
             \cup Permutations(Resets) \cup Permutations(Inodes)

\* The overlap of a reset with a change is followed to its end while no further
\* request waits for the lock.
ClashEndsFirst == clashed = "yes" => \A h \in Handlers : pc[h] # "lock"
=============================================================================
