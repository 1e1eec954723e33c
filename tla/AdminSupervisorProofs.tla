----------------------- MODULE AdminSupervisorProofs -----------------------
(***************************************************************************)
(* Proofs about AdminSupervisor for any number of requests, any channel    *)
(* size and any set of configurations.  The argument: while no save was    *)
(* cut off from its lock, the one save there can be belongs to the holder  *)
(* of write_lock and has the temporary file, which is never the file that  *)
(* is read, to itself.                                                     *)
(***************************************************************************)
EXTENDS AdminSupervisor, TLAPS

\* A handler has a configuration until its save, which begins under the lock, has
\* written it.
Carrying ==
    \A h \in Handlers :
        /\ pc[h] = "lock" \/ job[h] \in {"open", "write"} => val[h] \in Configs
        /\ pc[h] = "lock" => job[h] = "none"

\* Initially every variable has its type.
LEMMA InitType == Init => TypeOK /\ Carrying
  BY SupervisorAssumption
  DEF SupervisorAssumption, Init, TypeOK, Carrying, Save!FileInit, Save!FileTypeOK,
      Save!Contents

\* A step of a handler or of its save keeps the types.
LEMMA HandlerType ==
    ASSUME TypeOK, Carrying, NEW h \in Handlers, HandlerNext(h)
    PROVE  (TypeOK /\ Carrying)'
  <1> USE SupervisorAssumption
      DEF SupervisorAssumption, TypeOK, Carrying, fileVars, supVars, Released,
          Save!FileTypeOK, Save!Contents
  <1>1. ASSUME NEW c \in Configs, Put(h, c) PROVE (TypeOK /\ Carrying)'
    BY <1>1 DEF Put
  <1>2. CASE PutLock(h)
    BY <1>2 DEF PutLock
  <1>3. CASE Reload(h) \/ Send(h)
    BY <1>3 DEF Reload, Send
  <1>4. CASE Disconnect(h)
    BY <1>4 DEF Disconnect
  <1>5. CASE JobOpen(h)
    BY <1>5 DEF JobOpen, Save!Opens
  <1>6. CASE JobWrite(h)
    BY <1>6 DEF JobWrite, Save!Writes
  <1>7. CASE JobRename(h)
    BY <1>7 DEF JobRename, Save!Renames, Save!Reclaimed
  <1>8. CASE JobFails(h)
    BY <1>8 DEF JobFails, Save!Abandons, Save!RenameFails, Save!Reclaimed
  <1> QED BY <1>1, <1>2, <1>3, <1>4, <1>5, <1>6, <1>7, <1>8 DEF HandlerNext

\* Every step keeps the types.
LEMMA NextType == TypeOK /\ Carrying /\ [Next]_vars => (TypeOK /\ Carrying)'
  <1> SUFFICES ASSUME TypeOK, Carrying, [Next]_vars PROVE (TypeOK /\ Carrying)'
    OBVIOUS
  <1>1. ASSUME NEW h \in Handlers, HandlerNext(h) PROVE (TypeOK /\ Carrying)'
    BY <1>1, HandlerType
  <1> USE SupervisorAssumption
      DEF SupervisorAssumption, TypeOK, Carrying, fileVars, supVars, Save!FileTypeOK,
          Save!Contents, Save!Stored
  <1>2. CASE SupervisorNext
    BY <1>2 DEF SupervisorNext, Load, SetStatus, Spawn, Receive, RecordResult
  <1>3. CASE ServerNext
    BY <1>3 DEF ServerNext, ServerEnds, ServerSticks, ServerResumes
  <1>4. CASE Crash
    BY <1>4 DEF Crash, Save!Reclaimed
  <1>5. CASE UNCHANGED vars
    BY <1>5 DEF vars
  <1> QED BY <1>1, <1>2, <1>3, <1>4, <1>5 DEF Next

\* In every reachable state every variable has its type.
THEOREM TypeCorrect == Spec => []TypeOK
  <1>1. Spec => [](TypeOK /\ Carrying)
    BY InitType, NextType, PTL DEF Spec
  <1> QED BY <1>1, PTL

\* There is a server exactly while the supervisor watches or awaits it; the status
\* says running from before it is spawned until its result is recorded.
ServerWatched ==
    /\ server # "none" <=> sup \in {"run", "stop"}
    /\ running = "yes" <=> sup \in {"spawn", "run", "stop"}

\* A server that runs is never reported stopped, and one that is reported running
\* is about to be spawned, runs, or has only just ended.
THEOREM StatusIsTrue == Spec => []StatusTruthful
  <1>1. Init => ServerWatched
    BY DEF Init, ServerWatched
  <1>2. TypeOK /\ ServerWatched /\ [Next]_vars => ServerWatched'
    <2> SUFFICES ASSUME TypeOK, ServerWatched, [Next]_vars PROVE ServerWatched'
      OBVIOUS
    <2> USE DEF TypeOK, ServerWatched, supVars
    <2>1. ASSUME NEW h \in Handlers, HandlerNext(h) PROVE ServerWatched'
      BY <2>1 DEF HandlerNext, Put, PutLock, Reload, Send, Disconnect, JobOpen, JobWrite,
                  JobRename, JobFails
    <2>2. CASE SupervisorNext
      BY <2>2 DEF SupervisorNext, Load, SetStatus, Spawn, Receive, RecordResult
    <2>3. CASE ServerNext
      BY <2>3 DEF ServerNext, ServerEnds, ServerSticks, ServerResumes
    <2>4. CASE Crash
      BY <2>4 DEF Crash
    <2>5. CASE UNCHANGED vars
      BY <2>5 DEF vars
    <2> QED BY <2>1, <2>2, <2>3, <2>4, <2>5 DEF Next
  <1>3. TypeOK /\ ServerWatched => StatusTruthful
    BY DEF TypeOK, ServerWatched, StatusTruthful
  <1> QED BY <1>1, <1>2, <1>3, TypeCorrect, PTL DEF Spec

----------------------------------------------------------------------------
(* The lock, the saves and the files.                                       *)

\* Who waits for its save holds the lock, who waits for the lock or for room in
\* the channel has no save, and the lock is held by nobody else.
LockPlace ==
    \A h \in Handlers :
        /\ pc[h] = "save" => lock = h
        /\ lock = h => pc[h] \in {"save", "send"}
        /\ pc[h] \in {"lock", "send"} => job[h] = "none"

\* While no save was cut off, a save is that of the holder of the lock, which
\* waits for it; its descriptor is the temporary file, which holds nothing
\* before JobWrite and the configuration after it.
SaveAlone ==
    torn = "no" =>
        \A h \in Handlers :
            /\ job[h] # "none" => lock = h /\ pc[h] = "save"
            /\ job[h] \in {"write", "rename"} => tmp # None /\ fd[h] = tmp
            /\ job[h] = "write" => file[tmp] = Empty
            /\ job[h] = "rename" => file[tmp] \in Configs

\* A file that differs from what was loaded has its command in the channel or in
\* the hands of the holder of the lock.
CommandComing ==
    torn = "no" /\ loaded # None /\ loaded # Save!Stored =>
        chan > 0 \/ \E h \in Handlers : lock = h /\ pc[h] = "send"

\* The inductive invariant; what is read is never what is being written.
SaveInv == LockPlace /\ path # tmp /\ SaveAlone /\ AttendedIntact /\ CommandComing

\* Nothing has been saved yet.
LEMMA InitSave == Init => SaveInv
  BY SupervisorAssumption
  DEF SupervisorAssumption, Init, SaveInv, LockPlace, SaveAlone, AttendedIntact, CommandComing,
      Save!FileInit, Save!Intact, Save!Stored

\* A handler that takes or gives back the lock, or sends its command, leaves the
\* file alone; a client that leaves with the lock marks its save as cut off.
LEMMA HandlerSave ==
    ASSUME TypeOK, SaveInv, NEW h \in Handlers,
           (\E c \in Configs : Put(h, c)) \/ PutLock(h) \/ Reload(h) \/ Send(h) \/ Disconnect(h)
    PROVE  SaveInv'
  <1> USE SupervisorAssumption
      DEF SupervisorAssumption, TypeOK, SaveInv, fileVars, supVars, Released
  <1>0. /\ UNCHANGED fileVars /\ UNCHANGED <<sup, loaded>> /\ (torn' = "no" => torn = "no")
        /\ Save!Intact' = Save!Intact /\ Save!Stored' = Save!Stored
    BY DEF Put, PutLock, Reload, Send, Disconnect, Save!Intact, Save!Stored
  <1>1. AttendedIntact' /\ (path # tmp)'
    BY <1>0 DEF AttendedIntact
  <1>2. LockPlace'
    BY DEF LockPlace, Put, PutLock, Reload, Send, Disconnect
  <1>3. SaveAlone'
    BY DEF SaveAlone, LockPlace, Put, PutLock, Reload, Send, Disconnect
  <1>4. CommandComing'
    BY <1>0 DEF CommandComing, LockPlace, Put, PutLock, Reload, Send, Disconnect
  <1> QED BY <1>1, <1>2, <1>3, <1>4

\* A step of a save writes the temporary file only, until it has become the file.
LEMMA JobSave ==
    ASSUME TypeOK, Carrying, SaveInv, NEW h \in Handlers,
           JobOpen(h) \/ JobWrite(h) \/ JobRename(h) \/ JobFails(h)
    PROVE  SaveInv'
  <1> USE SupervisorAssumption
      DEF SupervisorAssumption, TypeOK, SaveInv, supVars, Released, Save!FileTypeOK
  <1>1. LockPlace'
    BY DEF LockPlace, JobOpen, JobWrite, JobRename, JobFails
  <1>2. CASE JobOpen(h)
    <2>1. PICK n \in Inodes :
            /\ IF tmp # None THEN n = tmp ELSE n \notin Save!InUse
            /\ tmp' = n /\ fd' = [fd EXCEPT ![h] = n] /\ file' = [file EXCEPT ![n] = Empty]
            /\ path' = path
      BY <1>2 DEF JobOpen, Save!Opens
    <2>2. n # path
      BY <2>1 DEF Save!InUse
    <2>3. Save!Stored' = Save!Stored /\ AttendedIntact'
      BY <1>2, <2>1, <2>2 DEF JobOpen, AttendedIntact, Save!Intact, Save!Stored
    <2>4. SaveAlone'
      BY <1>2, <2>1 DEF JobOpen, SaveAlone
    <2>5. CommandComing'
      BY <1>2, <2>3 DEF JobOpen, CommandComing
    <2> QED BY <1>1, <2>1, <2>2, <2>3, <2>4, <2>5
  <1>3. CASE JobWrite(h)
    <2>1. PICK c \in {val[h]} \cup (IF file[fd[h]] \in {Empty, val[h]} THEN {} ELSE {Mixed}) :
            file' = [file EXCEPT ![fd[h]] = c]
      BY <1>3 DEF JobWrite, Save!Writes
    <2>2. UNCHANGED <<fd, path, tmp>>
      BY <1>3 DEF JobWrite, Save!Writes
    <2>3. ASSUME torn = "no" PROVE fd[h] = tmp /\ tmp # None /\ c \in Configs
      BY <1>3, <2>1, <2>3 DEF JobWrite, SaveAlone, Carrying
    <2>4. torn = "no" => Save!Stored' = Save!Stored
      BY <2>1, <2>2, <2>3 DEF Save!Stored
    <2>5. AttendedIntact' /\ CommandComing'
      BY <1>3, <2>4 DEF JobWrite, AttendedIntact, CommandComing, Save!Intact
    <2>6. SaveAlone'
      BY <1>3, <2>1, <2>2, <2>3 DEF JobWrite, SaveAlone
    <2> QED BY <1>1, <2>2, <2>5, <2>6
  <1>4. CASE JobRename(h)
    <2>1. tmp # None /\ path' = tmp /\ tmp' = None /\ file'[tmp] = file[tmp]
      BY <1>4 DEF JobRename, Save!Renames, Save!Reclaimed, Save!InUse
    <2>2. AttendedIntact'
      BY <1>4, <2>1 DEF JobRename, AttendedIntact, SaveAlone, Save!Intact, Save!Stored
    <2>3. SaveAlone'
      BY <1>4 DEF JobRename, SaveAlone
    <2>4. CommandComing'
      BY <1>4 DEF JobRename, CommandComing, SaveAlone
    <2> QED BY <1>1, <2>1, <2>2, <2>3, <2>4
  <1>5. CASE JobFails(h)
    <2>1. path' = path /\ tmp' = tmp /\ file'[path] = file[path]
      BY <1>5 DEF JobFails, Save!Abandons, Save!RenameFails, Save!Reclaimed, Save!InUse
    <2>2. Save!Stored' = Save!Stored
      BY <2>1 DEF Save!Stored
    <2>3. AttendedIntact'
      BY <1>5, <2>2 DEF JobFails, AttendedIntact, Save!Intact
    <2>4. SaveAlone'
      BY <1>5 DEF JobFails, SaveAlone
    <2>5. CommandComing'
      BY <1>5, <2>2 DEF JobFails, CommandComing, SaveAlone
    <2> QED BY <1>1, <2>1, <2>3, <2>4, <2>5
  <1> QED BY <1>2, <1>3, <1>4, <1>5

\* Every step keeps the lock, the saves and the file in agreement.
LEMMA NextSave == TypeOK /\ Carrying /\ SaveInv /\ [Next]_vars => SaveInv'
  <1> SUFFICES ASSUME TypeOK, Carrying, SaveInv, [Next]_vars PROVE SaveInv'
    OBVIOUS
  <1>1. ASSUME NEW h \in Handlers, HandlerNext(h) PROVE SaveInv'
    BY <1>1, HandlerSave, JobSave DEF HandlerNext
  <1> USE SupervisorAssumption
      DEF SupervisorAssumption, TypeOK, SaveInv, fileVars, supVars, LockPlace, SaveAlone,
          AttendedIntact, CommandComing, Save!Intact, Save!Stored
  <1>2. CASE Load
    BY <1>2 DEF Load
  <1>3. CASE Receive
    BY <1>3 DEF Receive
  <1>4. CASE SetStatus \/ Spawn \/ RecordResult \/ ServerNext
    BY <1>4 DEF SetStatus, Spawn, RecordResult, ServerNext, ServerEnds, ServerSticks,
                ServerResumes
  <1>5. CASE Crash
    BY <1>5 DEF Crash, Save!Reclaimed, Save!InUse, Save!FileTypeOK
  <1>6. CASE UNCHANGED vars
    BY <1>6 DEF vars
  <1> QED BY <1>1, <1>2, <1>3, <1>4, <1>5, <1>6 DEF Next, SupervisorNext

\* The lock, the saves, the file and the commands agree for ever.
THEOREM SavesAgree == Spec => []SaveInv
  BY InitType, NextType, InitSave, NextSave, PTL DEF Spec

\* While every save had write_lock to its end, the file is a complete
\* configuration at every moment, and so after every crash.
THEOREM FileIntact == Spec => []AttendedIntact
  <1>1. SaveInv => AttendedIntact
    BY DEF SaveInv
  <1> QED BY <1>1, SavesAgree, PTL

\* A file that differs from what the supervisor loaded has a reload coming.
THEOREM NoLostReload == Spec => []ReloadComing
  <1>1. SaveInv => ReloadComing
    BY DEF SaveInv, CommandComing, ReloadComing
  <1> QED BY <1>1, SavesAgree, PTL
=============================================================================
