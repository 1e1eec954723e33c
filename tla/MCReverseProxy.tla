--------------------------- MODULE MCReverseProxy ---------------------------
(* Small instances of ReverseProxy for TLC. *)
EXTENDS ReverseProxy, TLC

\* Requests, tasks, tunnels and files are only compared for equality.
Symmetric == Permutations(Requests) \cup Permutations(Tasks)
             \cup Permutations(Tunnels) \cup Permutations(Inodes)

\* What is left of tasks that ended is never read.
Visible ==
    <<pc, val, fileVars, settings, lock, slot, task, running, torn, tunnelVars,
      [t \in Alive \cup ({slot} \ {None}) |-> cfgOf[t]], aborted \cap Alive>>
=============================================================================
