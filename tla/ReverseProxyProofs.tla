------------------------- MODULE ReverseProxyProofs -------------------------
(***************************************************************************)
(* Proofs about ReverseProxy for any number of requests, settings, tasks   *)
(* and tunnels.  The argument: only the holder of the task mutex touches   *)
(* the slot, a task leaves the slot only once it was told to stop, and the *)
(* request that changed the settings last still has its restart to do.     *)
(***************************************************************************)
EXTENDS ReverseProxy, FiniteSetTheorems, TLAPS

\* A request carries settings from Update to Apply, and from RestartRead to
\* RestartSpawn.
Carrying ==
    \A r \in Requests :
        pc[r] \in {"open", "write", "rename", "apply", "spawn"} => val[r] \in Settings

\* Initially every variable has its type.
LEMMA InitType == Init => TypeOK /\ Carrying
  BY DEF Init, TypeOK, Carrying, Settings, Save!FileInit, Save!FileTypeOK, Save!Contents

\* Every step keeps the types, the file's included.
LEMMA NextType == TypeOK /\ Carrying /\ [Next]_vars => (TypeOK /\ Carrying)'
  <1> SUFFICES ASSUME TypeOK, Carrying, [Next]_vars PROVE (TypeOK /\ Carrying)'
    OBVIOUS
  <1> USE DEF TypeOK, Carrying, fileVars, taskVars, tunnelVars, requestVars, Answered,
          Save!FileTypeOK, Save!Contents
  <1>1. ASSUME NEW r \in Requests, UpdateNext(r) PROVE (TypeOK /\ Carrying)'
    <2>1. ASSUME NEW s \in Settings, Update(r, s) PROVE (TypeOK /\ Carrying)'
      BY <2>1 DEF Update
    <2>2. CASE SaveOpen(r)
      BY <2>2 DEF SaveOpen, Save!Opens
    <2>3. CASE SaveWrite(r)
      BY <2>3 DEF SaveWrite, Save!Writes
    <2>4. CASE SaveRename(r)
      BY <2>4 DEF SaveRename, Save!Renames, Save!RenameFails, Save!Reclaimed
    <2>5. CASE SaveFails(r)
      BY <2>5 DEF SaveFails, Save!Abandons, Save!Reclaimed
    <2>6. CASE Apply(r)
      BY <2>6 DEF Apply
    <2>7. CASE RestartLock(r)
      BY <2>7 DEF RestartLock
    <2>8. CASE RestartAwait(r) \/ RestartRead(r)
      BY <2>8 DEF RestartAwait, RestartRead
    <2>9. CASE RestartSpawn(r)
      BY <2>9 DEF RestartSpawn
    <2>10. CASE Disconnect(r)
      BY <2>10 DEF Disconnect
    <2> QED BY <1>1, <2>1, <2>2, <2>3, <2>4, <2>5, <2>6, <2>7, <2>8, <2>9, <2>10
        DEF UpdateNext
  <1>2. ASSUME NEW t \in Tasks, TaskNext(t) PROVE (TypeOK /\ Carrying)'
    BY <1>2 DEF TaskNext, TaskFails, TaskRecords, TaskStops, Orphans
  <1>3. ASSUME NEW w \in Tunnels, TunnelNext(w) PROVE (TypeOK /\ Carrying)'
    BY <1>3 DEF TunnelNext, TunnelConnects, TunnelJoins, Ping, Pong, TunnelEnds
  <1>4. CASE Crash
    BY <1>4 DEF Crash, Save!Intact, Save!Stored, Save!Reclaimed
  <1>5. CASE UNCHANGED vars
    BY <1>5 DEF vars
  <1> QED BY <1>1, <1>2, <1>3, <1>4, <1>5 DEF Next

\* In every reachable state every variable has its type.
THEOREM TypeCorrect == Spec => []TypeOK
  <1>1. Spec => [](TypeOK /\ Carrying)
    BY InitType, NextType, PTL DEF Spec
  <1> QED BY <1>1, PTL

----------------------------------------------------------------------------
(* The task mutex and the slot.                                             *)

\* The mutex is held exactly from RestartLock to RestartSpawn.
MutexHeld ==
    \A r \in Requests : lock = r <=> pc[r] \in {"await", "read", "spawn"}

\* A task that nobody told to stop is in the slot; under the mutex the slot is
\* first told to stop and then empty.
SlotOwned ==
    /\ Alive \ aborted \subseteq {slot}
    /\ \A r \in Requests : pc[r] = "await" /\ slot # None => slot \in aborted
    /\ \A r \in Requests : pc[r] \in {"read", "spawn"} => slot = None

\* A request that will still make it so.
Pending(r) ==
    pc[r] \in {"lock", "await", "read"} \/ (pc[r] = "spawn" /\ val[r] = settings)
RestartComing ==
    torn = "no" => (lock = None /\ Matching) \/ \E r \in Requests : Pending(r)

\* While no request was dropped half way, the only task is that of the slot, it
\* was told to stop only under the mutex, and its state is the one shown.
StateShown ==
    torn = "no" =>
        /\ Alive \subseteq {slot}
        /\ lock = None => slot \notin aborted /\ (running = "yes" <=> Alive # {})

\* The inductive invariant.
TaskInv == MutexHeld /\ SlotOwned /\ RestartComing /\ StateShown

\* There is no task yet and the settings are disabled.
LEMMA InitTask == Init => TaskInv
  BY ReverseProxyAssumption
  DEF Init, TaskInv, MutexHeld, SlotOwned, RestartComing, StateShown, Matching, Alive,
      ReverseProxyAssumption

\* A save touches neither the settings nor a task.
LEMMA SaveKeepsTask ==
    ASSUME NEW r \in Requests, TypeOK, Carrying, TaskInv,
           \/ \E s \in Settings : Update(r, s)
           \/ SaveOpen(r) \/ SaveWrite(r) \/ SaveRename(r) \/ SaveFails(r)
    PROVE  TaskInv'
  <1>1. /\ UNCHANGED <<settings, lock, taskVars, torn>>
        /\ pc[r] \in {"idle", "open", "write", "rename"}
        /\ \E step \in {"idle", "open", "write", "rename", "apply"} :
             pc' = [pc EXCEPT ![r] = step]
        /\ \A q \in Requests \ {r} : val'[q] = val[q]
    BY DEF Update, SaveOpen, SaveWrite, SaveRename, SaveFails, Answered, TypeOK
  <1> USE <1>1 DEF TypeOK, TaskInv, taskVars
  <1>2. MutexHeld'
    BY DEF MutexHeld
  <1>3. SlotOwned'
    BY DEF SlotOwned, Alive
  <1>4. RestartComing'
    BY DEF RestartComing, Matching, Pending
  <1>5. StateShown'
    BY DEF StateShown, Alive
  <1> QED BY <1>2, <1>3, <1>4, <1>5

\* The request that changes the settings goes on to the restart, and the restart
\* takes the slot through its states.
LEMMA RestartKeepsTask ==
    ASSUME NEW r \in Requests, TypeOK, Carrying, TaskInv,
           \/ Apply(r) \/ RestartLock(r) \/ RestartAwait(r) \/ RestartRead(r)
           \/ RestartSpawn(r) \/ Disconnect(r)
    PROVE  TaskInv'
  <1> USE ReverseProxyAssumption
      DEF ReverseProxyAssumption, Settings, TypeOK, TaskInv, taskVars, Answered
  <1>1. CASE Apply(r)
    <2>1. MutexHeld' /\ SlotOwned' /\ StateShown'
      BY <1>1 DEF Apply, MutexHeld, SlotOwned, StateShown, Alive
    <2>2. RestartComing'
      <3>1. CASE val[r] = settings
        BY <1>1, <3>1 DEF Apply, RestartComing, Matching, Pending
      <3>2. CASE val[r] # settings
        BY <1>1, <3>2 DEF Apply, RestartComing, Pending
      <3> QED BY <3>1, <3>2
    <2> QED BY <2>1, <2>2
  <1>2. CASE RestartLock(r)
    <2>1. MutexHeld' /\ SlotOwned' /\ StateShown'
      BY <1>2 DEF RestartLock, MutexHeld, SlotOwned, StateShown, Alive
    <2>2. RestartComing'
      BY <1>2 DEF RestartLock, RestartComing, Pending
    <2> QED BY <2>1, <2>2
  <1>3. CASE RestartAwait(r)
    <2>1. MutexHeld' /\ SlotOwned' /\ StateShown'
      BY <1>3 DEF RestartAwait, MutexHeld, SlotOwned, StateShown, Alive
    <2>2. RestartComing'
      BY <1>3 DEF RestartAwait, RestartComing, Pending
    <2> QED BY <2>1, <2>2
  <1>4. CASE RestartRead(r)
    <2>1. MutexHeld' /\ SlotOwned' /\ StateShown'
      BY <1>4 DEF RestartRead, MutexHeld, SlotOwned, StateShown, Alive
    <2>2. RestartComing'
      BY <1>4 DEF RestartRead, RestartComing, Pending
    <2> QED BY <2>1, <2>2
  <1>5. CASE RestartSpawn(r)
    <2>1. slot = None /\ lock = r /\ lock' = None
      BY <1>5 DEF RestartSpawn, MutexHeld, SlotOwned
    <2>2. MutexHeld'
      BY <1>5, <2>1 DEF RestartSpawn, MutexHeld
    <2>3. SlotOwned'
      BY <1>5, <2>1, <2>2 DEF RestartSpawn, MutexHeld, SlotOwned, Alive
    <2>4. RestartComing'
      <3>1. CASE val[r] = settings
        BY <1>5, <2>1, <3>1 DEF RestartSpawn, RestartComing, Matching
      <3>2. CASE val[r] # settings
        <4>1. UNCHANGED settings /\ torn' = torn /\ pc' = [pc EXCEPT ![r] = "idle"]
              /\ \A q \in Requests \ {r} : val'[q] = val[q]
          BY <1>5, <3>2 DEF RestartSpawn
        <4>2. ~Pending(r)
          BY <1>5, <3>2 DEF RestartSpawn, Pending
        <4>3. torn = "no" => \E q \in Requests : Pending(q)
          BY <2>1 DEF RestartComing
        <4> QED BY <4>1, <4>2, <4>3 DEF RestartComing, Pending
      <3> QED BY <3>1, <3>2
    <2>5. StateShown'
      BY <1>5, <2>1 DEF RestartSpawn, StateShown, Alive
    <2> QED BY <2>2, <2>3, <2>4, <2>5
  <1>6. CASE Disconnect(r)
    BY <1>6 DEF Disconnect, MutexHeld, SlotOwned, RestartComing, StateShown, Alive
  <1> QED BY <1>1, <1>2, <1>3, <1>4, <1>5, <1>6

\* Every step keeps the mutex, the slot, the settings and the state shown in
\* agreement.
LEMMA NextTask == TypeOK /\ Carrying /\ TaskInv /\ [Next]_vars => TaskInv'
  <1> SUFFICES ASSUME TypeOK, Carrying, TaskInv, [Next]_vars PROVE TaskInv'
    OBVIOUS
  <1>1. ASSUME NEW r \in Requests, UpdateNext(r) PROVE TaskInv'
    BY <1>1, SaveKeepsTask, RestartKeepsTask DEF UpdateNext
  <1> USE ReverseProxyAssumption
      DEF ReverseProxyAssumption, Settings, TypeOK, taskVars, requestVars
  <1>2. ASSUME NEW t \in Tasks, TaskNext(t) PROVE TaskInv'
    <2>1. UNCHANGED <<requestVars, settings, lock, slot, cfgOf, aborted, torn>>
      BY <1>2 DEF TaskNext, TaskFails, TaskRecords, TaskStops
    <2>2. t \in Alive /\ Alive' \subseteq Alive
      BY <1>2 DEF TaskNext, TaskFails, TaskRecords, TaskStops, Alive
    <2>3. MutexHeld' /\ SlotOwned' /\ RestartComing'
      BY <2>1, <2>2 DEF TaskInv, MutexHeld, SlotOwned, RestartComing, Matching, Pending
    <2>4. StateShown'
      BY <1>2, <2>1, <2>2
      DEF TaskInv, StateShown, Alive, TaskNext, TaskFails, TaskRecords, TaskStops
    <2> QED BY <2>3, <2>4 DEF TaskInv
  <1>3. ASSUME NEW w \in Tunnels, TunnelNext(w) PROVE TaskInv'
    <2>1. UNCHANGED <<requestVars, settings, lock, taskVars, torn>>
      BY <1>3 DEF TunnelNext, TunnelConnects, TunnelJoins, Ping, Pong, TunnelEnds
    <2> QED BY <2>1 DEF TaskInv, MutexHeld, SlotOwned, RestartComing, StateShown, Matching,
                        Pending, Alive
  <1>4. CASE Crash
    <2>1. Save!Stored \in Settings
      BY <1>4 DEF Crash, Save!Intact
    <2>2. MutexHeld' /\ SlotOwned' /\ StateShown'
      BY <1>4 DEF Crash, MutexHeld, SlotOwned, StateShown, Alive
    <2>3. RestartComing'
      BY <1>4, <2>1 DEF Crash, RestartComing, Matching
    <2> QED BY <2>2, <2>3 DEF TaskInv
  <1>5. CASE UNCHANGED vars
    BY <1>5 DEF vars, TaskInv, MutexHeld, SlotOwned, RestartComing, StateShown, Matching,
                Pending, Alive
  <1> QED BY <1>1, <1>2, <1>3, <1>4, <1>5 DEF Next

\* The mutex, the slot, the tasks and the state shown agree for ever.
THEOREM TasksAgree == Spec => []TaskInv
  BY InitType, NextType, InitTask, NextTask, PTL DEF Spec

\* However updates overlap, are dropped or crash, once they are answered the task
\* is one of the settings in memory.
THEOREM LatestSettingsRun == Spec => []LatestRuns
  <1>1. TaskInv => LatestRuns
    BY DEF TaskInv, RestartComing, Matching, Pending, LatestRuns, Settled
  <1> QED BY <1>1, TasksAgree, PTL

\* A tunnel is reported running exactly while its task is.
THEOREM StatusIsTrue == Spec => []StatusTruthful
  <1>1. TypeOK /\ TaskInv => StatusTruthful
    BY DEF TypeOK, TaskInv, MutexHeld, StateShown, StatusTruthful, Settled
  <1> QED BY <1>1, TypeCorrect, TasksAgree, PTL

\* There are never two tunnel tasks that nobody told to stop.
THEOREM NoSecondTunnel == Spec => []OneTunnel
  <1>1. TaskInv => OneTunnel
    <2> SUFFICES ASSUME TaskInv PROVE OneTunnel
      OBVIOUS
    <2>1. IsFiniteSet({slot}) /\ Cardinality({slot}) = 1
      BY FS_Singleton
    <2>2. Cardinality(Alive \ aborted) <= Cardinality({slot})
      BY <2>1, FS_Subset DEF TaskInv, SlotOwned
    <2> QED BY <2>1, <2>2 DEF OneTunnel
  <1> QED BY <1>1, TasksAgree, PTL

----------------------------------------------------------------------------
(* The nodes shown online.                                                  *)

\* A tunnel has a gateway only while that task is alive, and only then.
GatewayLives == \A w \in Tunnels : gateway[w] \in Alive \cup {None}

\* Only a request that has seen the task of the slot end clears the tracker, so
\* no tunnel it forgets has a gateway that runs and was not told to stop.
LEMMA NextNodes ==
    TypeOK /\ TaskInv /\ GatewayLives /\ RelayNodesCounted /\ [Next]_vars
      => (GatewayLives /\ RelayNodesCounted)'
  <1> SUFFICES ASSUME TypeOK, TaskInv, GatewayLives, RelayNodesCounted, [Next]_vars
               PROVE (GatewayLives /\ RelayNodesCounted)'
    OBVIOUS
  <1> USE ReverseProxyAssumption
      DEF ReverseProxyAssumption, TypeOK, GatewayLives, RelayNodesCounted, Alive,
          taskVars, tunnelVars
  <1>1. ASSUME NEW r \in Requests, UpdateNext(r) PROVE (GatewayLives /\ RelayNodesCounted)'
    <2>1. CASE RestartAwait(r)
      <3>1. Alive \ aborted = {}
        BY <2>1 DEF RestartAwait, TaskInv, SlotOwned
      <3> QED BY <2>1, <3>1 DEF RestartAwait
    <2>2. CASE RestartLock(r)
      BY <2>2 DEF RestartLock
    <2>3. CASE RestartSpawn(r)
      BY <2>3 DEF RestartSpawn
    <2>4. CASE \/ \E s \in Settings : Update(r, s)
               \/ SaveOpen(r) \/ SaveWrite(r) \/ SaveRename(r) \/ SaveFails(r) \/ Apply(r)
               \/ RestartRead(r) \/ Disconnect(r)
      BY <2>4 DEF Update, SaveOpen, SaveWrite, SaveRename, SaveFails, Apply, RestartRead,
                  Disconnect
    <2> QED BY <1>1, <2>1, <2>2, <2>3, <2>4 DEF UpdateNext
  <1>2. ASSUME NEW t \in Tasks, TaskNext(t) PROVE (GatewayLives /\ RelayNodesCounted)'
    BY <1>2 DEF TaskNext, TaskFails, TaskRecords, TaskStops, Orphans
  <1>3. ASSUME NEW w \in Tunnels, TunnelNext(w) PROVE (GatewayLives /\ RelayNodesCounted)'
    BY <1>3 DEF TunnelNext, TunnelConnects, TunnelJoins, Ping, Pong, TunnelEnds
  <1>4. CASE Crash
    BY <1>4 DEF Crash
  <1>5. CASE UNCHANGED vars
    BY <1>5 DEF vars
  <1> QED BY <1>1, <1>2, <1>3, <1>4, <1>5 DEF Next

\* Clearing the tracker for a restart never takes a node from a relay that runs.
THEOREM NodesOfRelayCounted == Spec => []RelayNodesCounted
  <1>1. Init => GatewayLives /\ RelayNodesCounted
    BY DEF Init, GatewayLives, RelayNodesCounted
  <1>2. Spec => [](GatewayLives /\ RelayNodesCounted)
    BY <1>1, NextNodes, TypeCorrect, TasksAgree, PTL DEF Spec
  <1> QED BY <1>2, PTL
=============================================================================
