---------------------------- MODULE MCShortStore ----------------------------
(* Small instances of ShortStore for TLC. *)
EXTENDS ShortStore, TLC

\* Codes of users and of the converter, and queries, are only compared for
\* equality; a user's code that is also asked for through shorten stays fixed.
Symmetric == Permutations(ConverterCodes) \cup Permutations(Queries)
=============================================================================
