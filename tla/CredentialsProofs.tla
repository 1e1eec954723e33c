------------------------- MODULE CredentialsProofs -------------------------
(***************************************************************************)
(* Proofs about Credentials and AdminSessions for any number of accounts,  *)
(* requests and sessions.  The argument: as long as no reset overlaps      *)
(* another change, one writer at a time is between its load and its        *)
(* rename, so the accounts it changes are still the ones in the file when  *)
(* its own replace them; and once an overlap is over with a complete file, *)
(* nothing of it is left.                                                  *)
(***************************************************************************)
EXTENDS AdminSessions, FiniteSetTheorems, TLAPS

\* A change that is not refused leaves accounts with somebody in them: the last
\* one is never deleted.
LEMMA ChangeKeepsSomebody ==
    ASSUME NEW a \in Accounts, NEW r \in Requests, ~Refused(r, a)
    PROVE  [a EXCEPT ![r.user] = r.password] \in Accounts
  <1> DEFINE b == [a EXCEPT ![r.user] = r.password]
  <1>1. b \in [Users -> Passwords \cup {None}] /\ r.user \in Users
    BY DEF Accounts, Requests
  <1>2. CASE r.kind # "delete"
    <2>1. r.password \in Passwords /\ r.password # None
      BY <1>2, CredentialsAssumption DEF Requests, CredentialsAssumption
    <2>2. b[r.user] # None
      BY <1>1, <2>1 DEF Accounts
    <2> QED BY <1>1, <2>2 DEF Accounts
  <1>3. CASE r.kind = "delete"
    <2>1. Cardinality(Members(a)) # 1 /\ r.user \in Members(a)
      BY <1>3 DEF Refused
    <2>2. Members(a) # {r.user}
      BY <2>1, FS_Singleton
    <2>3. PICK v \in Members(a) : v # r.user
      BY <2>1, <2>2
    <2>4. v \in Users /\ b[v] # None
      BY <2>3 DEF Members, Accounts
    <2> QED BY <1>1, <2>4 DEF Accounts
  <1> QED BY <1>2, <1>3

\* A step of the sessions is a step of the accounts, or leaves them alone.
LEMMA SessionStep == [SessionNext]_allVars => [Next]_vars
  BY DEF SessionNext, allVars, login, Tick, AuthorizedRequest, HandlerNext, Next

----------------------------------------------------------------------------
(* Types.                                                                   *)

\* A writer has a request while it is not idle, and accounts from its load on.
Carrying ==
    \A w \in Writers :
        /\ pc[w] # "idle" => op[w] \in Requests
        /\ pc[w] \in {"open", "write", "rename"} => new[w] \in Accounts

\* Initially every variable has its type.
LEMMA InitType == Init => TypeOK /\ Carrying
  BY DEF Init, TypeOK, Carrying, Save!FileInit, Save!FileTypeOK, Save!Contents

\* Every step keeps the types.
LEMMA NextType == TypeOK /\ Carrying /\ [Next]_vars => (TypeOK /\ Carrying)'
  <1> SUFFICES ASSUME TypeOK, Carrying, [Next]_vars PROVE (TypeOK /\ Carrying)'
    OBVIOUS
  <1>0. clashed' \in {"no", "yes"}
    BY DEF TypeOK, Next, ClashNoted, vars
  <1> USE <1>0, CredentialsAssumption
      DEF CredentialsAssumption, TypeOK, Carrying, fileVars, Writers, Ended, Save!FileTypeOK,
          Save!Contents
  <1>1. ASSUME NEW h \in Handlers, HandlerNext(h) PROVE (TypeOK /\ Carrying)'
    BY <1>1 DEF HandlerNext, Request, Lock, Disconnect
  <1>2. ASSUME NEW c \in Resets, NEW r \in Requests, Reset(c, r) PROVE (TypeOK /\ Carrying)'
    BY <1>2 DEF Reset
  <1>3. ASSUME NEW w \in Writers, WriterNext(w) PROVE (TypeOK /\ Carrying)'
    <2>1. CASE LoadAndChange(w)
      <3>1. CASE Ended(w)
        BY <2>1, <3>1 DEF LoadAndChange
      <3>2. CASE ~Ended(w)
        <4>1. [Save!Stored EXCEPT ![op[w].user] = op[w].password] \in Accounts
          BY <2>1, <3>2, ChangeKeepsSomebody DEF LoadAndChange, Save!Intact
        <4> QED BY <2>1, <3>2, <4>1 DEF LoadAndChange
      <3> QED BY <3>1, <3>2
    <2>2. CASE WriteOpen(w)
      BY <2>2 DEF WriteOpen, Save!Opens
    <2>3. CASE WriteContents(w)
      BY <2>3 DEF WriteContents, Save!Writes
    <2>4. CASE WriteRename(w)
      BY <2>4 DEF WriteRename, Save!Renames, Save!RenameFails, Save!Reclaimed
    <2>5. CASE WriteFails(w)
      BY <2>5 DEF WriteFails, Save!Abandons, Save!Reclaimed
    <2> QED BY <1>3, <2>1, <2>2, <2>3, <2>4, <2>5 DEF WriterNext
  <1>4. CASE Crash
    BY <1>4 DEF Crash, Save!Reclaimed
  <1>5. CASE UNCHANGED vars
    BY <1>5 DEF vars
  <1> QED BY <1>1, <1>2, <1>3, <1>4, <1>5 DEF Next

----------------------------------------------------------------------------
(* The lock, the writers and the file.                                      *)

\* A handler holds the lock from its load to its end.
LockHeld ==
    \A h \in Handlers : lock = h <=> pc[h] \in {"load", "open", "write", "rename"}

\* One writer at a time.
Exclusive == \A v, w \in Changing : v = w

\* What a writer has loaded is still in the file, and what it writes is in the
\* temporary file, which is its own.
WriterOwns ==
    \A w \in Writers :
        /\ pc[w] \in {"open", "write", "rename"} =>
             new[w] = [Save!Stored EXCEPT ![op[w].user] = op[w].password]
        /\ pc[w] \in {"write", "rename"} => tmp # None /\ fd[w] = tmp
        /\ pc[w] = "write" => file[tmp] = Empty
        /\ pc[w] = "rename" => file[tmp] = new[w]

\* The inductive invariant.
AccountsInv ==
    /\ LockHeld /\ path # tmp
    /\ clashed = "no" => Exclusive /\ WriterOwns
    /\ SomebodyCanLogIn

\* The first account is in the file and nobody writes.
LEMMA InitAccounts == Init => AccountsInv
  BY CredentialsAssumption
  DEF CredentialsAssumption, Init, AccountsInv, LockHeld, Exclusive, Changing, WriterOwns,
      SomebodyCanLogIn, Writers, Save!FileInit, Save!Intact, Save!Stored

\* Where no reset clashes, the lock admits one writer.
LEMMA ApartExclusive ==
    ASSUME TypeOK', LockHeld', ~Clash' PROVE Exclusive'
  <1>1. CASE Changing' \cap Resets = {}
    <2>1. \A w \in Changing' : w \in Handlers /\ lock' = w
      BY <1>1 DEF TypeOK, Changing, Writers, LockHeld
    <2> QED BY <2>1 DEF Exclusive
  <1>2. CASE Changing' \cap Resets # {}
    BY <1>2 DEF Clash, Exclusive
  <1> QED BY <1>1, <1>2

\* Every step keeps the lock with the handler that changes the file.
LEMMA LockKept ==
    ASSUME TypeOK, LockHeld, [Next]_vars PROVE LockHeld'
  <1> USE CredentialsAssumption
      DEF CredentialsAssumption, TypeOK, LockHeld, Writers, Ended, Save!FileTypeOK
  <1>1. ASSUME NEW h \in Handlers, HandlerNext(h) PROVE LockHeld'
    BY <1>1 DEF HandlerNext, Request, Lock, Disconnect
  <1>2. ASSUME NEW c \in Resets, NEW r \in Requests, Reset(c, r) PROVE LockHeld'
    BY <1>2 DEF Reset
  <1>3. ASSUME NEW w \in Writers, WriterNext(w) PROVE LockHeld'
    BY <1>3 DEF WriterNext, LoadAndChange, WriteOpen, WriteContents, WriteRename, WriteFails
  <1>4. CASE Crash
    BY <1>4 DEF Crash
  <1>5. CASE UNCHANGED vars
    BY <1>5 DEF vars
  <1> QED BY <1>1, <1>2, <1>3, <1>4, <1>5 DEF Next

\* What a step does to the file that is read: only the rename of the one writer
\* replaces it, with its own change of the accounts in it.
LEMMA StoredStep ==
    ASSUME TypeOK, Carrying, AccountsInv, clashed = "no", [Next]_vars
    PROVE  \/ path' = path /\ Save!Stored' = Save!Stored
           \/ \E w \in Writers :
                /\ pc[w] = "rename" /\ path' # path
                /\ op[w] \in Requests
                /\ Save!Stored' = [Save!Stored EXCEPT ![op[w].user] = op[w].password]
                /\ Save!Stored' \in Accounts
                /\ pc' = [pc EXCEPT ![w] = "idle"]
  <1> USE CredentialsAssumption
      DEF CredentialsAssumption, TypeOK, AccountsInv, Save!FileTypeOK, Save!Stored, fileVars
  <1>1. ASSUME NEW h \in Handlers, HandlerNext(h) PROVE path' = path /\ file' = file
    BY <1>1 DEF HandlerNext, Request, Lock, Disconnect
  <1>2. ASSUME NEW c \in Resets, NEW r \in Requests, Reset(c, r)
        PROVE  path' = path /\ file' = file
    BY <1>2 DEF Reset
  <1>3. ASSUME NEW w \in Writers, LoadAndChange(w) PROVE path' = path /\ file' = file
    BY <1>3 DEF LoadAndChange
  <1>4. ASSUME NEW w \in Writers, WriteOpen(w) PROVE path' = path /\ file'[path] = file[path]
    BY <1>4 DEF WriteOpen, Save!Opens, Save!InUse
  <1>5. ASSUME NEW w \in Writers, WriteContents(w)
        PROVE  path' = path /\ file'[path] = file[path]
    BY <1>5 DEF WriteContents, Save!Writes, WriterOwns
  <1>6. ASSUME NEW w \in Writers, WriteFails(w) \/ (WriteRename(w) /\ Save!RenameFails(w))
        PROVE  path' = path /\ file'[path] = file[path]
    BY <1>6 DEF WriteFails, WriteRename, Save!Abandons, Save!RenameFails, Save!Reclaimed,
                Save!InUse
  <1>7. CASE Crash
    <2>1. path' = path /\ file'[path] = file[path]
      BY <1>7 DEF Crash, Save!Reclaimed, Save!InUse
    <2> QED BY <2>1
  <1>8. ASSUME NEW w \in Writers, WriteRename(w), Save!Renames(w)
        PROVE  /\ pc[w] = "rename" /\ path' # path /\ op[w] \in Requests
               /\ Save!Stored' = [Save!Stored EXCEPT ![op[w].user] = op[w].password]
               /\ Save!Stored' \in Accounts
               /\ pc' = [pc EXCEPT ![w] = "idle"]
    <2>1. pc[w] = "rename" /\ path' = tmp /\ file'[tmp] = file[tmp] /\ tmp # path
      BY <1>8 DEF WriteRename, Save!Renames, Save!Reclaimed, Save!InUse
    <2>2. file[tmp] = new[w] /\ new[w] \in Accounts /\ op[w] \in Requests
      BY <2>1 DEF WriterOwns, Carrying
    <2>3. new[w] = [Save!Stored EXCEPT ![op[w].user] = op[w].password]
      BY <2>1 DEF WriterOwns
    <2> QED BY <1>8, <2>1, <2>2, <2>3 DEF WriteRename, Ended
  <1>9. CASE UNCHANGED vars
    BY <1>9 DEF vars
  <1>10. ASSUME NEW w \in Writers, WriterNext(w)
         PROVE  \/ path' = path /\ file'[path] = file[path]
                \/ WriteRename(w) /\ Save!Renames(w)
    BY <1>10, <1>3, <1>4, <1>5, <1>6 DEF WriterNext, WriteRename
  <1> QED BY <1>1, <1>2, <1>7, <1>8, <1>9, <1>10 DEF Next

\* The temporary name never is the file that is read.
LEMMA NamesApart ==
    ASSUME TypeOK, path # tmp, [Next]_vars PROVE (path # tmp)'
  <1> USE CredentialsAssumption
      DEF CredentialsAssumption, TypeOK, fileVars, Save!FileTypeOK
  <1>1. ASSUME NEW w \in Writers, WriterNext(w) PROVE (path # tmp)'
    BY <1>1 DEF WriterNext, LoadAndChange, WriteOpen, WriteContents, WriteRename, WriteFails,
      Save!Opens, Save!InUse, Save!Writes, Save!Renames, Save!RenameFails, Save!Abandons
  <1> QED BY <1>1 DEF Next, HandlerNext, Request, Lock, Disconnect, Reset, Crash, vars

\* A step of a writer keeps what the writer owns; the others, but for the one at
\* the file, own nothing.
LEMMA WriterKept ==
    ASSUME TypeOK, Carrying, AccountsInv, clashed = "no", Exclusive', NEW w \in Writers,
           WriterNext(w)
    PROVE  WriterOwns'
  <1> USE CredentialsAssumption
      DEF CredentialsAssumption, TypeOK, AccountsInv, Save!FileTypeOK
  <1>2. pc[w] # "load" =>
          \A v \in Writers \ {w} : pc[v] \notin {"open", "write", "rename"}
    BY DEF Exclusive, Changing, WriterNext, LoadAndChange, WriteOpen, WriteContents,
      WriteRename, WriteFails
  <1>3. CASE LoadAndChange(w)
    <2>1. UNCHANGED <<file, path, tmp, fd>> /\ Save!Stored' = Save!Stored
      BY <1>3 DEF LoadAndChange, fileVars, Save!Stored
    <2>2. CASE pc' = [pc EXCEPT ![w] = "idle"]
      BY <1>3, <2>1, <2>2 DEF LoadAndChange, Ended, WriterOwns
    <2>3. CASE pc' = [pc EXCEPT ![w] = "open"]
      <3>1. \A v \in Writers \ {w} : pc[v] \notin {"open", "write", "rename"}
        BY <2>3 DEF Exclusive, Changing
      <3> QED BY <1>3, <2>1, <2>3, <3>1 DEF LoadAndChange, Ended, WriterOwns
    <2> QED BY <1>3, <2>2, <2>3 DEF LoadAndChange, Ended
  <1>4. CASE WriteOpen(w)
    <2>1. PICK n \in Inodes :
            /\ IF tmp # None THEN n = tmp ELSE n \notin Save!InUse
            /\ tmp' = n /\ fd' = [fd EXCEPT ![w] = n] /\ file' = [file EXCEPT ![n] = Empty]
            /\ path' = path
      BY <1>4 DEF WriteOpen, Save!Opens
    <2>2. n # path
      BY <2>1 DEF Save!InUse
    <2>3. Save!Stored' = Save!Stored
      BY <2>1, <2>2 DEF Save!Stored
    <2> QED BY <1>2, <1>4, <2>1, <2>2, <2>3 DEF WriteOpen, WriterOwns
  <1>5. CASE WriteContents(w)
    <2>1. PICK c \in {new[w]} \cup (IF file[fd[w]] \in {Empty, new[w]} THEN {} ELSE {Mixed}) :
            file' = [file EXCEPT ![fd[w]] = c]
      BY <1>5 DEF WriteContents, Save!Writes
    <2>2. UNCHANGED <<fd, path, tmp, new, op>> /\ pc' = [pc EXCEPT ![w] = "rename"]
      BY <1>5 DEF WriteContents, Save!Writes
    <2>3. pc[w] = "write" /\ fd[w] = tmp /\ tmp # None /\ tmp \in Inodes /\ c = new[w]
      BY <1>5, <2>1 DEF WriteContents, WriterOwns
    <2>4. Save!Stored' = Save!Stored /\ file'[tmp] = new[w]
      BY <2>1, <2>2, <2>3 DEF Save!Stored
    <2> QED BY <1>2, <2>2, <2>3, <2>4 DEF WriterOwns
  <1>6. CASE WriteRename(w) \/ WriteFails(w)
    BY <1>2, <1>6 DEF WriteRename, WriteFails, Ended, WriterOwns, Save!Renames,
      Save!RenameFails, Save!Abandons
  <1> QED BY <1>3, <1>4, <1>5, <1>6 DEF WriterNext

\* Every step that leaves no clash behind keeps the file in one writer's hands.
LEMMA NextAccounts ==
    TypeOK /\ Carrying /\ AccountsInv /\ [Next]_vars => AccountsInv'
  <1> SUFFICES ASSUME TypeOK, Carrying, AccountsInv, [Next]_vars PROVE AccountsInv'
    OBVIOUS
  <1>1. LockHeld'
    BY LockKept DEF AccountsInv
  <1>2. (path # tmp)'
    BY NamesApart DEF AccountsInv
  <1>3. CASE UNCHANGED vars
    BY <1>1, <1>2, <1>3 DEF vars, fileVars, AccountsInv, Exclusive, Changing, WriterOwns,
      SomebodyCanLogIn, Save!Stored, Save!Intact
  <1>4. CASE ClashNoted /\ clashed' = "yes"
    BY <1>1, <1>2, <1>4 DEF AccountsInv, SomebodyCanLogIn
  <1>5. CASE ClashNoted /\ clashed' = "no" /\ clashed = "yes"
    <2>1. Changing' = {} /\ Save!Intact'
      BY <1>5 DEF ClashNoted
    <2>2. Exclusive' /\ WriterOwns'
      BY <2>1 DEF Exclusive, WriterOwns, Changing
    <2> QED BY <1>1, <1>2, <2>1, <2>2 DEF AccountsInv, SomebodyCanLogIn
  <1>6. CASE Next /\ clashed' = "no" /\ clashed = "no"
    <2>1. TypeOK'
      BY NextType
    <2>2. ~Clash'
      BY <1>6 DEF Next, ClashNoted
    <2>3. Exclusive'
      BY <1>1, <2>1, <2>2, ApartExclusive
    <2>4. SomebodyCanLogIn'
      BY <1>6, StoredStep DEF AccountsInv, SomebodyCanLogIn, Save!Intact
    <2>5. WriterOwns'
      <3> USE CredentialsAssumption
          DEF CredentialsAssumption, TypeOK, AccountsInv, WriterOwns, Save!FileTypeOK,
              Save!Stored, fileVars, Writers
      <3>1. ASSUME NEW h \in Handlers, HandlerNext(h) PROVE WriterOwns'
        BY <1>6, <3>1 DEF HandlerNext, Request, Lock, Disconnect, Ended
      <3>2. ASSUME NEW c \in Resets, NEW r \in Requests, Reset(c, r) PROVE WriterOwns'
        BY <1>6, <3>2 DEF Reset
      <3>3. ASSUME NEW w \in Writers, WriterNext(w) PROVE WriterOwns'
        BY <1>6, <2>3, <3>3, WriterKept
      <3>4. CASE Crash
        BY <1>6, <3>4 DEF Crash, Save!Reclaimed, Save!InUse
      <3> QED BY <1>6, <3>1, <3>2, <3>3, <3>4 DEF Next
    <2> QED BY <1>1, <1>2, <2>3, <2>4, <2>5 DEF AccountsInv
  <1> QED BY <1>3, <1>4, <1>5, <1>6 DEF Next, ClashNoted, TypeOK

\* In every reachable state the accounts and their writers have their types.
THEOREM TypeCorrect == SessionSpec => []TypeOK
  <1>1. SessionSpec => [](TypeOK /\ Carrying)
    <2>1. [SessionNext]_allVars => [Next]_vars
      BY SessionStep
    <2> QED BY <2>1, InitType, NextType, PTL DEF SessionSpec, SessionInit
  <1> QED BY <1>1, PTL

\* The lock, the writers and the file agree for ever.
THEOREM AccountsAgree == SessionSpec => [](TypeOK /\ Carrying /\ AccountsInv)
  <1>1. [SessionNext]_allVars => [Next]_vars
    BY SessionStep
  <1> QED BY <1>1, InitType, NextType, InitAccounts, NextAccounts, PTL
      DEF SessionSpec, SessionInit

\* The file of accounts is complete and has somebody in it at every moment, for
\* any number of overlapping requests, failures and crashes, unless a reset
\* overlapped another change.
THEOREM NobodyLockedOut == SessionSpec => []SomebodyCanLogIn
  <1>1. AccountsInv => SomebodyCanLogIn
    BY DEF AccountsInv
  <1> QED BY <1>1, AccountsAgree, PTL

\* Of handlers, and of resets that overlap no other change, none ever undoes
\* another's change: each changes one account.
THEOREM ChangesOneAccount == SessionSpec => OthersPreserved
  <1> DEFINE One == clashed = "no" /\ Save!Stored' # Save!Stored => ChangesOne
  <1>1. TypeOK /\ Carrying /\ AccountsInv /\ [Next]_vars => One
    <2> SUFFICES ASSUME TypeOK, Carrying, AccountsInv, [Next]_vars, clashed = "no",
                        Save!Stored' # Save!Stored
                 PROVE  ChangesOne
      OBVIOUS
    <2>1. PICK w \in Writers :
            /\ op[w] \in Requests
            /\ Save!Stored' = [Save!Stored EXCEPT ![op[w].user] = op[w].password]
            /\ Save!Stored' \in Accounts
      BY StoredStep
    <2>2. Save!Stored \in Accounts
      BY DEF AccountsInv, SomebodyCanLogIn, Save!Intact
    <2>3. op[w] # None
      BY <2>1, RequestsAssumption DEF RequestsAssumption
    <2>4. \A u \in Users : u # op[w].user => Save!Stored'[u] = Save!Stored[u]
      BY <2>1, <2>2 DEF Accounts
    <2> QED BY <2>1, <2>2, <2>3, <2>4 DEF ChangesOne, Save!Intact
  <1>2. [SessionNext]_allVars => [Next]_vars
    BY SessionStep
  <1>3. (TypeOK /\ Carrying /\ AccountsInv) /\ [SessionNext]_allVars => [One]_vars
    BY <1>1, <1>2
  <1> QED BY <1>3, AccountsAgree, PTL DEF SessionSpec, OthersPreserved

----------------------------------------------------------------------------
(* Sessions.                                                                *)

Tokens == [user : Users, password : Passwords]

\* A withdrawn token's user no longer has the password that signed it.
Withdrawn ==
    /\ token \in Tokens \cup {None}
    /\ withdrawn =>
         /\ clashed = "no" /\ token # None
         /\ Save!Stored[token.user] # token.password

\* No token has been issued yet.
LEMMA InitWithdrawn == SessionInit => Withdrawn
  BY DEF SessionInit, Withdrawn

\* A change that takes a token's password away is remembered, a login begins anew,
\* and no other step gives the password back.
LEMMA NextWithdrawn ==
    ASSUME TypeOK, Carrying, AccountsInv, Withdrawn, [SessionNext]_allVars
    PROVE  Withdrawn'
  <1>1. ASSUME NEW u \in Users, NEW password \in Passwords, login(u, password)
        PROVE  Withdrawn'
    BY <1>1, Zenon DEF login, issue_session_token, Withdrawn, Tokens
  <1>2. CASE Tick
    <2>1. Save!Stored' = Save!Stored /\ clashed' = clashed
      BY <1>2 DEF Tick, vars, fileVars, Save!Stored
    <2>2. withdrawn' => withdrawn /\ token' = token
      <3>1. withdrawn' => withdrawn /\ left' > 0
        BY <1>2, Zenon DEF Tick
      <3>2. left' > 0 => token' = token
        BY <1>2 DEF Tick
      <3> QED BY <3>1, <3>2
    <2>3. token' \in Tokens \cup {None}
      BY <1>2 DEF Tick, Withdrawn
    <2> QED BY <2>1, <2>2, <2>3 DEF Withdrawn
  <1>3. CASE Followed /\ [Next]_vars
    <2>1. token' = token /\ token \in Tokens \cup {None}
      BY <1>3 DEF Followed, Withdrawn
    <2>2. withdrawn' => clashed = "no" /\ clashed' = "no"
      BY <1>3, Zenon DEF Followed
    <2>3. CASE clashed # "no"
      BY <2>1, <2>2, <2>3 DEF Withdrawn
    <2>4. CASE path' = path /\ Save!Stored' = Save!Stored
      <3>1. withdrawn' => withdrawn
        BY <1>3, <2>4, Zenon DEF Followed
      <3> QED BY <2>1, <2>2, <2>4, <3>1 DEF Withdrawn
    <2>5. ASSUME NEW w \in Writers, clashed = "no",
                 pc[w] = "rename", path' # path, op[w] \in Requests,
                 Save!Stored' = [Save!Stored EXCEPT ![op[w].user] = op[w].password],
                 pc' = [pc EXCEPT ![w] = "idle"]
          PROVE  Withdrawn'
      <3> DEFINE changes == {v \in Writers : path' # path /\ pc[v] = "rename" /\ pc'[v] = "idle"
                                           /\ token # None /\ op[v].user = token.user}
      <3>1. \A v \in changes : v = w
        BY <2>5 DEF TypeOK
      <3>2. w \in changes <=> token # None /\ op[w].user = token.user
        BY <2>5 DEF TypeOK
      <3>3. withdrawn' => IF changes = {} THEN withdrawn
                          ELSE \E v \in changes : op[v].password # token.password
        BY <1>3, Zenon DEF Followed
      <3>4. Save!Stored \in Accounts
        BY <2>5 DEF AccountsInv, SomebodyCanLogIn, Save!Intact
      <3>5. op[w].user \in Users
        BY <2>5 DEF Requests
      <3> HIDE DEF changes
      <3>6. CASE token # None /\ op[w].user = token.user
        <4>1. withdrawn' => op[w].password # token.password
          BY <3>1, <3>2, <3>3, <3>6, Zenon
        <4>2. Save!Stored'[token.user] = op[w].password
          BY <2>5, <3>4, <3>5, <3>6 DEF Accounts
        <4> QED BY <2>1, <2>2, <3>6, <4>1, <4>2 DEF Withdrawn
      <3>7. CASE token # None /\ op[w].user # token.user
        <4>1. withdrawn' => withdrawn
          BY <3>1, <3>2, <3>3, <3>7, Zenon
        <4>2. Save!Stored'[token.user] = Save!Stored[token.user]
          BY <2>1, <2>5, <3>4, <3>5, <3>7 DEF Accounts, Tokens
        <4> QED BY <2>1, <2>2, <4>1, <4>2 DEF Withdrawn
      <3>8. CASE token = None
        <4>1. withdrawn' => withdrawn
          BY <3>1, <3>2, <3>3, <3>8, Zenon
        <4> QED BY <2>1, <3>8, <4>1 DEF Withdrawn
      <3> QED BY <3>6, <3>7, <3>8
    <2> QED BY <1>3, <2>3, <2>4, <2>5, StoredStep
  <1>4. CASE UNCHANGED allVars
    BY <1>4 DEF allVars, sessionVars, vars, fileVars, Withdrawn, Save!Stored
  <1>5. [Next]_vars
    BY SessionStep
  <1> QED BY <1>1, <1>2, <1>3, <1>4, <1>5 DEF SessionNext

\* A session ends with the password it was opened with, although the server keeps
\* no record of sessions, for any number of accounts and any session lifetime.
THEOREM SessionEndsWithPassword == SessionSpec => []SessionWithdrawn
  <1>1. Withdrawn => SessionWithdrawn
    BY DEF Withdrawn, SessionWithdrawn, validate_session_token
  <1>2. (TypeOK /\ Carrying /\ AccountsInv) /\ Withdrawn /\ [SessionNext]_allVars
          => Withdrawn'
    BY NextWithdrawn
  <1> QED BY <1>1, <1>2, AccountsAgree, InitWithdrawn, PTL DEF SessionSpec
=============================================================================
