---------------------------- MODULE Credentials ----------------------------
(***************************************************************************)
(* The administrator accounts of admin.rs: the file they live in, the API  *)
(* handlers that change it under credentials_lock, and the command line    *)
(* --reset-admin-password, another process, which changes it without.      *)
(*                                                                         *)
(* A handler checks its caller (authorize) before it waits for the lock.   *)
(* Once it has the lock it loads, changes and writes the file without an   *)
(* await, so it is never dropped in between.                               *)
(***************************************************************************)
EXTENDS Integers, FiniteSets

CONSTANTS
    Users,      \* user names
    Passwords,
    Handlers,   \* API requests; reused once answered
    Resets,     \* runs of the command line; reused once ended
    Inodes,
    Empty, Mixed,   \* contents of files that hold no value
    None

ASSUME CredentialsAssumption ==
    /\ Users # {} /\ Passwords # {} /\ IsFiniteSet(Users)
    /\ Handlers \cap Resets = {}
    /\ None \notin Passwords \cup Handlers \cup Resets \cup Inodes

VARIABLES
    pc,       \* idle; lock; load; open; write; rename
    op,       \* what each writer was asked to do
    new,      \* the accounts it is about to write
    fd, file, path, tmp,
    lock,     \* holder of credentials_lock
    clashed   \* a reset and another writer overlapped, and since then the file
              \* has not been complete with nobody writing

fileVars == <<fd, file, path, tmp>>
vars == <<pc, op, new, fileVars, lock, clashed>>

Writers == Handlers \cup Resets

\* A file of accounts that ensure_credentials accepts: at least one user, each
\* name once.
Accounts == {a \in [Users -> Passwords \cup {None}] : \E u \in Users : a[u] # None}
Members(a) == {u \in Users : a[u] # None}

Requests ==
    [kind : {"add", "change", "reset"}, user : Users, password : Passwords]
      \cup [kind : {"delete"}, user : Users, password : {None}]

ASSUME RequestsAssumption == None \notin Requests

Save == INSTANCE TempFile WITH Values <- Accounts

TypeOK ==
    /\ pc \in [Writers -> {"idle", "lock", "load", "open", "write", "rename"}]
    /\ op \in [Writers -> Requests \cup {None}]
    /\ new \in [Writers -> Accounts \cup {None}]
    /\ Save!FileTypeOK
    /\ lock \in Handlers \cup {None}
    /\ clashed \in {"no", "yes"}

\* A first start: load_or_create_credentials has written one generated account.
Init ==
    /\ pc = [w \in Writers |-> "idle"]
    /\ op = [w \in Writers |-> None]
    /\ new = [w \in Writers |-> None]
    /\ \E a \in Accounts : Cardinality(Members(a)) = 1 /\ Save!FileInit(a)
    /\ lock = None /\ clashed = "no"

----------------------------------------------------------------------------
\* add_admin_user, change_admin_password, delete_admin_user: an authorised
\* caller with valid arguments; the handler goes on to wait for the lock.
Request(h, r) ==
    /\ pc[h] = "idle" /\ r.kind # "reset" /\ Save!Intact
    /\ op' = [op EXCEPT ![h] = r]
    /\ pc' = [pc EXCEPT ![h] = "lock"]
    /\ UNCHANGED <<new, fileVars, lock>>

Lock(h) ==
    /\ pc[h] = "lock" /\ lock = None
    /\ lock' = h
    /\ pc' = [pc EXCEPT ![h] = "load"]
    /\ UNCHANGED <<op, new, fileVars>>

\* reset_credentials: a new password for one user; no lock.
Reset(c, r) ==
    /\ pc[c] = "idle" /\ r.kind = "reset"
    /\ op' = [op EXCEPT ![c] = r]
    /\ pc' = [pc EXCEPT ![c] = "load"]
    /\ UNCHANGED <<new, fileVars, lock>>
\* The writer ends; a handler gives the lock back.
Ended(w) ==
    /\ pc' = [pc EXCEPT ![w] = "idle"]
    /\ op' = [op EXCEPT ![w] = None]
    /\ new' = [new EXCEPT ![w] = None]
    /\ lock' = IF lock = w THEN None ELSE lock

\* The client of a handler that waits for the lock goes away.
Disconnect(h) ==
    /\ pc[h] = "lock"
    /\ Ended(h)
    /\ UNCHANGED fileVars

\* What each operation refuses, given the accounts it loaded.
Refused(r, a) ==
    \/ r.kind = "add" /\ r.user \in Members(a)
    \/ r.kind = "change" /\ r.user \notin Members(a)
    \/ r.kind = "delete" /\ (Cardinality(Members(a)) <= 1 \/ r.user \notin Members(a))
\* Mutant of LoadAndChange: only the account that changes is kept.
LonelyLoadAndChange(w) ==
    /\ pc[w] = "load"
    /\ \/ /\ Save!Intact /\ ~Refused(op[w], Save!Stored)
          /\ new' = [new EXCEPT ![w] =
                       [u \in Users |-> IF u = op[w].user THEN op[w].password ELSE None]]
          /\ pc' = [pc EXCEPT ![w] = "open"]
          /\ UNCHANGED <<op, lock>>
       \/ (Save!Intact => Refused(op[w], Save!Stored)) /\ Ended(w)
    /\ UNCHANGED fileVars

\* load_credentials and the change to what it returned.
LoadAndChange(w) ==
    /\ pc[w] = "load"
    /\ \/ /\ Save!Intact /\ ~Refused(op[w], Save!Stored)
          /\ new' = [new EXCEPT ![w] = [Save!Stored EXCEPT ![op[w].user] = op[w].password]]
          /\ pc' = [pc EXCEPT ![w] = "open"]
          /\ UNCHANGED <<op, lock>>
       \/ (Save!Intact => Refused(op[w], Save!Stored)) /\ Ended(w)
    /\ UNCHANGED fileVars

(* write_credentials.                                                       *)
\* Mutant of WriteOpen: the file is written in place.
InPlaceWriteOpen(w) ==
    /\ pc[w] = "open"
    /\ tmp' = path
    /\ fd' = [fd EXCEPT ![w] = path]
    /\ file' = [file EXCEPT ![path] = Empty]
    /\ pc' = [pc EXCEPT ![w] = "write"]
    /\ UNCHANGED <<op, new, path, lock>>

WriteOpen(w) ==
    /\ pc[w] = "open"
    /\ Save!Opens(w)
    /\ pc' = [pc EXCEPT ![w] = "write"]
    /\ UNCHANGED <<op, new, lock>>

WriteContents(w) ==
    /\ pc[w] = "write"
    /\ Save!Writes(w, new[w])
    /\ pc' = [pc EXCEPT ![w] = "rename"]
    /\ UNCHANGED <<op, new, lock>>

WriteRename(w) ==
    /\ pc[w] = "rename"
    /\ Save!Renames(w) \/ Save!RenameFails(w)
    /\ Ended(w)

\* A system call fails, or the process dies and all its handlers with it.
WriteFails(w) ==
    /\ pc[w] \in {"open", "write", "rename"}
    /\ Save!Abandons(w)
    /\ Ended(w)

Crash ==
    /\ pc' = [w \in Writers |-> IF w \in Handlers THEN "idle" ELSE pc[w]]
    /\ op' = [w \in Writers |-> IF w \in Handlers THEN None ELSE op[w]]
    /\ new' = [w \in Writers |-> IF w \in Handlers THEN None ELSE new[w]]
    /\ fd' = [w \in Writers |-> IF w \in Handlers THEN None ELSE fd[w]]
    /\ lock' = None
    /\ UNCHANGED <<path, tmp>>
    /\ Save!Reclaimed

----------------------------------------------------------------------------
HandlerNext(h) == (\E r \in Requests : Request(h, r)) \/ Lock(h) \/ Disconnect(h)

WriterNext(w) ==
    LoadAndChange(w) \/ WriteOpen(w) \/ WriteContents(w) \/ WriteRename(w) \/ WriteFails(w)

\* Writers that have loaded the accounts and not yet ended.  Among the handlers it
\* is the lock that admits one at a time; nothing keeps a reset apart.
Changing == {w \in Writers : pc[w] \in {"open", "write", "rename"}}
Clash == \E c \in Changing \cap Resets : Changing # {c}
ClashNoted ==
    clashed' = IF Clash' THEN "yes"
               ELSE IF Changing' = {} /\ Save!Intact' THEN "no" ELSE clashed

Next ==
    /\ \/ \E h \in Handlers : HandlerNext(h)
       \/ \E c \in Resets, r \in Requests : Reset(c, r)
       \/ \E w \in Writers : WriterNext(w)
       \/ Crash
    /\ ClashNoted

Spec == Init /\ [][Next]_vars

----------------------------------------------------------------------------
(* Properties.                                                              *)

\* "preventing deletion of the last administrator": however the requests of the
\* service overlap and wherever they or a reset fail, the file is a complete one
\* with somebody in it, as long as no reset overlaps another change.
SomebodyCanLogIn == clashed = "no" => Save!Intact

\* A step that changes the file in use changes one account, the one a writer was
\* asked to change.
ChangesOne ==
    /\ Save!Intact /\ Save!Intact'
    /\ \E w \in Writers :
         /\ op[w] # None
         /\ \A u \in Users : u # op[w].user => Save!Stored'[u] = Save!Stored[u]

\* What credentials_lock is for: of the handlers, and of resets that overlap no
\* other change, none undoes another's change with accounts it loaded before, and
\* none of two deletions deletes what the other left.
OthersPreserved ==
    [][clashed = "no" /\ Save!Stored' # Save!Stored => ChangesOne]_vars

\* "preserves all other accounts", said of the reset: the same of every reset,
\* whatever the service does meanwhile.
ResetPreserves == [][Save!Stored' # Save!Stored => ChangesOne]_vars
=============================================================================
