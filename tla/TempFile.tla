------------------------------ MODULE TempFile ------------------------------
(***************************************************************************)
(* How reverse_proxy.rs (save), config.rs (save_atomic) and admin.rs       *)
(* (write_credentials) replace a file: write a temporary name beside it,   *)
(* then rename that over it.  The temporary name is a fixed one, so two    *)
(* writers that overlap share it.                                          *)
(*                                                                         *)
(* Files are inodes; a name refers to one, and an open descriptor keeps    *)
(* referring to its inode whatever happens to the name.  The operators are *)
(* conjuncts of the actions of the modules that instantiate this one.      *)
(***************************************************************************)
CONSTANTS
    Writers,  \* whoever may have the temporary file open
    Inodes,   \* files; reused once no name and no descriptor refers to them
    Values,   \* what a file is meant to hold
    Empty,    \* what it holds when it was opened and not yet written
    Mixed,    \* what it holds when two values overlap in it
    None

VARIABLES
    fd,    \* the file each writer has open
    file,  \* contents of each inode
    path,  \* inode of the name that is read
    tmp    \* inode of the temporary name

\* A file holds a value, nothing, or pieces of two values.
Contents == Values \cup {Empty, Mixed}

FileTypeOK ==
    /\ fd \in [Writers -> Inodes \cup {None}]
    /\ file \in [Inodes -> Contents]
    /\ path \in Inodes
    /\ tmp \in Inodes \cup {None}

\* The file holds v and nobody writes.
FileInit(v) ==
    /\ fd = [w \in Writers |-> None]
    /\ path \in Inodes
    /\ file = [n \in Inodes |-> IF n = path THEN v ELSE Empty]
    /\ tmp = None

\* What a name or a descriptor refers to; the kernel reclaims the other inodes.
InUse == {path, tmp} \cup {fd[w] : w \in Writers}
Reclaimed == file' = [n \in Inodes |-> IF n \in InUse' THEN file[n] ELSE Empty]

\* The temporary name is opened: truncated if it exists, else created.
Opens(w) ==
    /\ \E n \in Inodes :
         /\ IF tmp # None THEN n = tmp ELSE n \notin InUse
         /\ tmp' = n
         /\ fd' = [fd EXCEPT ![w] = n]
         /\ file' = [file EXCEPT ![n] = Empty]
    /\ UNCHANGED path

\* v is written from offset 0: what another writer wrote to the same file may
\* stick out behind it.
Writes(w, v) ==
    /\ \E c \in {v} \cup (IF file[fd[w]] \in {Empty, v} THEN {} ELSE {Mixed}) :
         file' = [file EXCEPT ![fd[w]] = c]
    /\ UNCHANGED <<fd, path, tmp>>

\* The temporary name, whoever wrote it, replaces the file.
Renames(w) ==
    /\ tmp # None
    /\ path' = tmp /\ tmp' = None
    /\ fd' = [fd EXCEPT ![w] = None]
    /\ Reclaimed

\* Another writer has already renamed the temporary name away.
RenameFails(w) ==
    /\ tmp = None
    /\ fd' = [fd EXCEPT ![w] = None]
    /\ UNCHANGED <<path, tmp>>
    /\ Reclaimed

\* A system call fails, or the writer dies: the temporary file stays.
Abandons(w) ==
    /\ fd' = [fd EXCEPT ![w] = None]
    /\ UNCHANGED <<path, tmp>>
    /\ Reclaimed

\* What a reader of the name finds, and whether it is a value.
Stored == file[path]
Intact == Stored \in Values
=============================================================================
