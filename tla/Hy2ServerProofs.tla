-------------------------- MODULE Hy2ServerProofs --------------------------
(***************************************************************************)
(* Proofs about Hy2Server for any number of connections, users, rates and  *)
(* generations.  Three arguments: the queue of rates holds at most one     *)
(* more than clients have moved; while none has moved, the rate in it is   *)
(* that of the connection being paired; and an entry counts exactly the    *)
(* connections that refer to it, so dropping or making one loses nobody.   *)
(***************************************************************************)
EXTENDS Hy2Server, FiniteSetTheorems, TLAPS

Serving(e) == {p \in Peers : entry[p] = e}

\* A task has a user from its authentication on and an entry while it serves;
\* an entry counts the tasks that have it, finitely many.
Counting ==
    /\ \A p \in Peers : task[p] \in {"answer", "serve"} => name[p] \in Users
    /\ \A p \in Peers : task[p] = "serve" <=> entry[p] # None
    /\ \A e \in Entries : IsFiniteSet(Serving(e)) /\ active[e] = Cardinality(Serving(e))

\* Initially every variable has its type, and nobody is counted.
LEMMA InitType == Init => TypeOK /\ Counting
  <1> SUFFICES ASSUME Init PROVE TypeOK /\ Counting
    OBVIOUS
  <1>1. TypeOK
    BY Hy2ServerAssumption DEF Hy2ServerAssumption, Init, TypeOK
  <1>2. \A e \in Entries : Serving(e) = {}
    BY Hy2ServerAssumption DEF Hy2ServerAssumption, Init, Serving
  <1> QED BY <1>1, <1>2, FS_EmptySet DEF Init, Counting

\* The connection being paired has no task yet, and one still waiting neither.
PairPlace ==
    /\ loop \in {"pair", "owed"} =>
         cur \in Quics /\ task[cur] = "none" /\ link[cur] \in {"open", "up", "closed"}
    /\ \A c \in Quics : link[c] = "waiting" => task[c] = "none"

\* A task is begun only for the connection being paired, or on the TCP side.
LEMMA NextPlace == TypeOK /\ PairPlace /\ [Next]_vars => PairPlace'
  <1> SUFFICES ASSUME TypeOK, PairPlace, [Next]_vars PROVE PairPlace'
    OBVIOUS
  <1>0. Quics \cap Tcps = {}
    BY Hy2ServerAssumption DEF Hy2ServerAssumption
  <1> USE <1>0 DEF PairPlace, loopVars, rateVars, taskVars, trafficVars, Closed
  <1>1. ASSUME NEW us \in SUBSET Users, Run(us) \/ StartFails(us) PROVE PairPlace'
    BY <1>1 DEF Run, StartFails, NextGeneration, TypeOK
  <1>2. CASE AskReload \/ Shutdown \/ ListenerFails \/ HandshakeFirst
    BY <1>2 DEF AskReload, Shutdown, ListenerFails, HandshakeFirst, TypeOK
  <1>3. CASE Pair
    BY <1>3 DEF Pair, TypeOK
  <1>4. ASSUME NEW c \in Quics, QuicNext(c) PROVE PairPlace'
    <2>1. CASE Incoming(c)
      BY <2>1 DEF Incoming, TypeOK
    <2>2. CASE AcceptQuic(c) \/ RefuseQuic(c)
      BY <2>2 DEF AcceptQuic, RefuseQuic, TypeOK
    <2>3. CASE Establish(c)
      BY <2>3 DEF Establish, TypeOK
    <2>4. CASE Move(c)
      BY <2>4 DEF Move
    <2>5. CASE Leave(c)
      BY <2>5 DEF Leave, TypeOK
    <2>6. CASE Connected(c) \/ Serve(c)
      BY <2>6 DEF Connected, Serve, TypeOK, Peers
    <2>7. ASSUME NEW u \in Users, NEW rx \in ClientRates, Authenticate(c, u, rx)
          PROVE  PairPlace'
      BY <2>7 DEF Authenticate, TypeOK, Peers
    <2> QED BY <1>4, <2>1, <2>2, <2>3, <2>4, <2>5, <2>6, <2>7 DEF QuicNext
  <1>5. ASSUME NEW t \in Tcps, TcpNext(t) PROVE PairPlace'
    <2>1. UNCHANGED <<loop, cur, link>> /\ \A p \in Peers \ {t} : task'[p] = task[p]
      BY <1>5 DEF TcpNext, AcceptTcp, ServeSsh, ServeVless, TypeOK
    <2> QED BY <2>1 DEF Peers
  <1>6. ASSUME NEW p \in Peers, End(p) PROVE PairPlace'
    <2>1. UNCHANGED <<loop, cur>> /\ task' = [task EXCEPT ![p] = "none"] /\ task[p] # "none"
      BY <1>6 DEF End
    <2>2. \A c \in Quics : link'[c] # link[c] => link'[c] = "closed"
      BY <1>6 DEF End, TypeOK
    <2> QED BY <2>1, <2>2 DEF Peers, TypeOK
  <1>7. CASE UNCHANGED vars
    BY <1>7 DEF vars
  <1> QED BY <1>1, <1>2, <1>3, <1>4, <1>5, <1>6, <1>7 DEF Next

\* A connection that begins to be counted is one more in its entry alone.
LEMMA CountedOne ==
    ASSUME TypeOK, Counting, NEW p \in Peers, NEW u \in Users, entry[p] = None, Counted(p, u)
    PROVE  /\ registry' \in [Users -> Entries \cup {None}]
           /\ entry' \in [Peers -> Entries \cup {None}] /\ entry'[p] = registry'[u]
           /\ entry'[p] # None
           /\ \A q \in Peers \ {p} : entry'[q] = entry[q]
           /\ \A v \in Users \ {u} : registry'[v] = registry[v]
           /\ registry[u] # None => registry'[u] = registry[u]
           /\ active' \in [Entries -> Nat]
           /\ \A e \in Entries :
                IsFiniteSet(Serving(e)') /\ active'[e] = Cardinality(Serving(e)')
  <1> USE Hy2ServerAssumption DEF Hy2ServerAssumption, TypeOK
  <1>1. PICK e \in Entries :
          /\ registry[u] # None => e = registry[u]
          /\ registry' = [registry EXCEPT ![u] = e]
          /\ entry' = [entry EXCEPT ![p] = e]
          /\ active' = [active EXCEPT ![e] = @ + 1]
    BY DEF Counted
  <1>2. p \notin Serving(e) /\ Serving(e)' = Serving(e) \cup {p}
    BY <1>1 DEF Serving
  <1>3. IsFiniteSet(Serving(e)') /\ active'[e] = Cardinality(Serving(e)')
    BY <1>1, <1>2, FS_AddElement DEF Counting
  <1>4. ASSUME NEW f \in Entries \ {e}
        PROVE  IsFiniteSet(Serving(f)') /\ active'[f] = Cardinality(Serving(f)')
    <2>1. Serving(f)' = Serving(f)
      BY <1>1 DEF Serving
    <2> QED BY <1>1, <2>1 DEF Counting
  <1> QED BY <1>1, <1>3, <1>4

\* A task that ends is one fewer in its entry alone.
LEMMA UncountedOne ==
    ASSUME TypeOK, Counting, NEW p \in Peers, Uncounted(p),
           entry' = [entry EXCEPT ![p] = None]
    PROVE  /\ active' \in [Entries -> Nat]
           /\ \A e \in Entries :
                IsFiniteSet(Serving(e)') /\ active'[e] = Cardinality(Serving(e)')
  <1> USE Hy2ServerAssumption DEF Hy2ServerAssumption, TypeOK
  <1>1. ASSUME NEW e \in Entries, entry[p] = e
        PROVE  /\ active' = [active EXCEPT ![e] = @ - 1]
               /\ active[e] - 1 \in Nat
               /\ IsFiniteSet(Serving(e)') /\ active[e] - 1 = Cardinality(Serving(e)')
    <2>1. p \in Serving(e) /\ Serving(e)' = Serving(e) \ {p}
      BY <1>1 DEF Serving
    <2>2. active' = [active EXCEPT ![e] = @ - 1]
      BY <1>1 DEF Uncounted
    <2>3. IsFiniteSet(Serving(e)') /\ active[e] - 1 = Cardinality(Serving(e)')
      BY <2>1, FS_RemoveElement DEF Counting
    <2>4. Cardinality(Serving(e)') \in Nat
      BY <2>3, FS_CardinalityType
    <2> QED BY <2>2, <2>3, <2>4
  <1>2. ASSUME NEW e \in Entries, entry[p] # e PROVE Serving(e)' = Serving(e)
    BY <1>2 DEF Serving
  <1>3. CASE entry[p] = None
    <2>1. \A e \in Entries : Serving(e)' = Serving(e)
      BY <1>2, <1>3
    <2>2. active' = active
      BY <1>3 DEF Uncounted
    <2> QED BY <2>1, <2>2 DEF Counting
  <1>4. CASE entry[p] # None
    <2>1. PICK e \in Entries : entry[p] = e
      BY <1>4
    <2>2. ASSUME NEW f \in Entries \ {e} PROVE Serving(f)' = Serving(f)
      BY <1>2, <2>1
    <2>3. active' = [active EXCEPT ![e] = @ - 1] /\ active[e] - 1 \in Nat
      BY <1>1, <2>1
    <2>4. active'[e] = Cardinality(Serving(e)') /\ IsFiniteSet(Serving(e)')
      BY <1>1, <2>1, <2>3
    <2>5. ASSUME NEW f \in Entries \ {e}
          PROVE  IsFiniteSet(Serving(f)') /\ active'[f] = Cardinality(Serving(f)')
      BY <2>2, <2>3 DEF Counting
    <2> QED BY <2>3, <2>4, <2>5
  <1> QED BY <1>3, <1>4

\* A step that leaves the names, the entries and the counts alone counts on.
LEMMA QuietCounting ==
    ASSUME Counting, UNCHANGED <<name, entry, active>>,
           \A p \in Peers : task'[p] \in {"answer", "serve"} => task'[p] = task[p],
           \A p \in Peers : task[p] = "serve" => task'[p] = "serve"
    PROVE  Counting'
  <1>1. \A e \in Entries : Serving(e)' = Serving(e)
    BY DEF Serving
  <1> QED BY <1>1 DEF Counting

\* Every step keeps the types and the counts.
LEMMA NextType == TypeOK /\ PairPlace /\ Counting /\ [Next]_vars => (TypeOK /\ Counting)'
  <1> SUFFICES ASSUME TypeOK, PairPlace, Counting, [Next]_vars PROVE (TypeOK /\ Counting)'
    OBVIOUS
  <1>0. /\ Quics \cap Tcps = {} /\ ServerLimit \in Nat /\ ClientRates \subseteq Nat
        /\ MaxMoves \in Nat /\ None \notin Quics \cup Tcps \cup Users \cup Rates \cup Entries
    BY Hy2ServerAssumption DEF Hy2ServerAssumption
  <1> USE <1>0 DEF loopVars, rateVars, taskVars, trafficVars, Closed
  <1>1. ASSUME NEW us \in SUBSET Users, Run(us) \/ StartFails(us) PROVE (TypeOK /\ Counting)'
    <2>1. Counting'
      BY <1>1, QuietCounting DEF Run, StartFails, NextGeneration
    <2>2. CASE Run(us)
      BY <2>1, <2>2 DEF Run, NextGeneration, TypeOK
    <2>3. CASE StartFails(us)
      BY <2>1, <2>3 DEF StartFails, NextGeneration, TypeOK
    <2> QED BY <1>1, <2>2, <2>3
  <1>2. CASE AskReload \/ Shutdown \/ ListenerFails \/ HandshakeFirst
    BY <1>2, QuietCounting DEF AskReload, Shutdown, ListenerFails, HandshakeFirst, TypeOK
  <1>3. CASE Pair
    <2>1. Head(queue) \in Rates /\ Tail(queue) \in Seq(Rates)
      BY <1>3 DEF Pair, TypeOK
    <2>2. TypeOK'
      BY <1>3, <2>1 DEF Pair, TypeOK
    <2>3. UNCHANGED <<name, entry, active>> /\ task[cur] = "none"
          /\ task' = [task EXCEPT ![cur] = "connect"]
      BY <1>3 DEF Pair, PairPlace
    <2>4. Counting'
      BY <2>3, QuietCounting DEF TypeOK
    <2> QED BY <2>2, <2>4
  <1>4. ASSUME NEW c \in Quics, QuicNext(c) PROVE (TypeOK /\ Counting)'
    <2> USE DEF Peers
    <2>1. CASE Incoming(c) \/ RefuseQuic(c) \/ Establish(c) \/ Leave(c)
      <3>1. UNCHANGED taskVars /\ UNCHANGED trafficVars
        BY <2>1 DEF Incoming, RefuseQuic, Establish, Leave
      <3>2. Counting'
        BY <3>1, QuietCounting
      <3>3. TypeOK'
        <4>1. CASE Incoming(c) \/ Establish(c)
          BY <4>1 DEF Incoming, Establish, TypeOK
        <4>2. CASE RefuseQuic(c)
          BY <4>2 DEF RefuseQuic, TypeOK
        <4>3. CASE Leave(c)
          BY <4>3 DEF Leave, TypeOK
        <4> QED BY <2>1, <4>1, <4>2, <4>3
      <3> QED BY <3>2, <3>3
    <2>2. CASE AcceptQuic(c) \/ Move(c)
      <3>1. PICK r \in Rates :
              /\ queue' = Append(queue, r)
              /\ ctl' = [ctl EXCEPT ![c] = r]
              /\ bps' = [bps EXCEPT ![r] = 0]
        BY <2>2 DEF AcceptQuic, Move, Built
      <3>2. queue' \in Seq(Rates)
        BY <3>1 DEF TypeOK
      <3>3. TypeOK'
        <4>1. CASE AcceptQuic(c)
          BY <3>1, <3>2, <4>1 DEF AcceptQuic, TypeOK
        <4>2. CASE Move(c)
          <5>1. moves' \in 0 .. MaxMoves
            BY <4>2 DEF Move, TypeOK
          <5> QED BY <3>1, <3>2, <4>2, <5>1 DEF Move, TypeOK
        <4> QED BY <2>2, <4>1, <4>2
      <3> QED BY <2>2, <3>3, QuietCounting DEF AcceptQuic, Move
    <2>3. CASE Connected(c)
      BY <2>3, QuietCounting DEF Connected, TypeOK
    <2>4. CASE Serve(c)
      <3>1. name[c] \in Users /\ entry[c] = None
        BY <2>4 DEF Serve, Counting
      <3>2. Counted(c, name[c])
        BY <2>4 DEF Serve
      <3>3. TypeOK'
        BY <2>4, <3>1, <3>2, CountedOne DEF Serve, TypeOK
      <3>4. Counting'
        BY <2>4, <3>1, <3>2, CountedOne DEF Serve, TypeOK, Counting
      <3> QED BY <3>3, <3>4
    <2>5. ASSUME NEW u \in Users, NEW rx \in ClientRates, Authenticate(c, u, rx)
          PROVE  (TypeOK /\ Counting)'
      <3>1. Negotiated(rx) \in Nat
        BY DEF Negotiated
      <3>2. TypeOK'
        BY <2>5, <3>1 DEF Authenticate, TypeOK
      <3>3. UNCHANGED <<entry, active>> /\ task[c] = "auth"
            /\ task' = [task EXCEPT ![c] = "answer"] /\ name' = [name EXCEPT ![c] = u]
        BY <2>5 DEF Authenticate
      <3>4. \A e \in Entries : Serving(e)' = Serving(e)
        BY <3>3 DEF Serving
      <3>5. Counting'
        BY <3>3, <3>4 DEF Counting, TypeOK
      <3> QED BY <3>2, <3>5
    <2> QED BY <1>4, <2>1, <2>2, <2>3, <2>4, <2>5 DEF QuicNext
  <1>5. ASSUME NEW t \in Tcps, TcpNext(t) PROVE (TypeOK /\ Counting)'
    <2> t \in Peers
      BY DEF Peers
    <2>1. CASE AcceptTcp(t) \/ ServeSsh(t)
      <3>1. known' \in [Peers -> SUBSET Users]
        BY <2>1 DEF AcceptTcp, ServeSsh, TypeOK
      <3>2. TypeOK'
        BY <2>1, <3>1 DEF AcceptTcp, ServeSsh, TypeOK
      <3>3. Counting'
        BY <2>1, QuietCounting DEF AcceptTcp, ServeSsh, TypeOK
      <3> QED BY <3>2, <3>3
    <2>2. ASSUME NEW u \in Users, ServeVless(t, u) PROVE (TypeOK /\ Counting)'
      <3>1. entry[t] = None /\ Counted(t, u)
        BY <2>2 DEF ServeVless, Counting
      <3>2. TypeOK'
        BY <2>2, <3>1, CountedOne DEF ServeVless, TypeOK
      <3>3. Counting'
        BY <2>2, <3>1, CountedOne DEF ServeVless, TypeOK, Counting
      <3> QED BY <3>2, <3>3
    <2> QED BY <1>5, <2>1, <2>2 DEF TcpNext
  <1>6. ASSUME NEW p \in Peers, End(p) PROVE (TypeOK /\ Counting)'
    <2>1. Uncounted(p) /\ entry' = [entry EXCEPT ![p] = None]
      BY <1>6 DEF End
    <2>2. active' \in [Entries -> Nat]
      BY <2>1, UncountedOne
    <2>3. TypeOK'
      <3>1. known' \in [Peers -> SUBSET Users] /\ old' \subseteq Peers
        BY <1>6 DEF End, TypeOK
      <3>2. /\ link' \in [Quics -> {"away", "waiting", "open", "up", "closed"}]
            /\ ctl' \in [Quics -> Rates \cup {None}]
            /\ held' \in [Quics -> Rates \cup {None}] /\ deal' \in [Quics -> Nat]
        <4>1. CASE p \in Quics /\ Closed({p}) /\ held' = [held EXCEPT ![p] = None]
                   /\ deal' = [deal EXCEPT ![p] = 0]
          BY <4>1 DEF TypeOK
        <4>2. CASE UNCHANGED <<held, deal, link, ctl>>
          BY <4>2 DEF TypeOK
        <4> QED BY <1>6, <4>1, <4>2 DEF End
      <3>3. task' \in [Peers -> {"none", "connect", "auth", "answer", "ssh", "serve"}]
        BY <1>6 DEF End, TypeOK
      <3> QED BY <1>6, <2>1, <2>2, <3>1, <3>2, <3>3 DEF End, TypeOK
    <2>4. Counting'
      BY <1>6, <2>1, UncountedOne DEF End, TypeOK, Counting
    <2> QED BY <2>3, <2>4
  <1>7. CASE UNCHANGED vars
    BY <1>7, QuietCounting DEF vars, TypeOK
  <1> QED BY <1>1, <1>2, <1>3, <1>4, <1>5, <1>6, <1>7 DEF Next

\* The types, the pairing and the counts hold for ever.
THEOREM TypesCounted == Spec => [](TypeOK /\ PairPlace /\ Counting)
  <1>1. Init => PairPlace
    BY DEF Init, PairPlace
  <1> QED BY <1>1, InitType, NextType, NextPlace, PTL DEF Spec

\* In every reachable state every variable has its type.
THEOREM TypeCorrect == Spec => []TypeOK
  BY TypesCounted, PTL

----------------------------------------------------------------------------
(* The queue of rates.                                                      *)

\* The rates in the queue: one for each move, and that of the connection which is
\* being paired.
QueueBound == Len(queue) <= moves + (IF loop \in {"pair", "owed"} THEN 1 ELSE 0)

\* Every step keeps the bound.
LEMMA NextQueue == TypeOK /\ QueueBound /\ [Next]_vars => QueueBound'
  <1> SUFFICES ASSUME TypeOK, QueueBound, [Next]_vars PROVE QueueBound'
    OBVIOUS
  <1>0. Len(queue) \in Nat /\ moves \in Nat /\ queue \in Seq(Rates)
    BY DEF TypeOK
  <1> USE <1>0 DEF QueueBound, loopVars, rateVars
  <1>1. ASSUME NEW us \in SUBSET Users, Run(us) \/ StartFails(us) PROVE QueueBound'
    BY <1>1 DEF Run, StartFails, NextGeneration
  <1>2. CASE AskReload \/ Shutdown \/ ListenerFails \/ HandshakeFirst
    BY <1>2 DEF AskReload, Shutdown, ListenerFails, HandshakeFirst
  <1>3. CASE Pair
    BY <1>3 DEF Pair
  <1>4. ASSUME NEW c \in Quics, QuicNext(c) PROVE QueueBound'
    <2>1. CASE AcceptQuic(c)
      BY <2>1 DEF AcceptQuic, Built
    <2>2. CASE RefuseQuic(c)
      BY <2>2 DEF RefuseQuic
    <2>3. CASE Move(c)
      BY <2>3 DEF Move, Built
    <2>4. CASE UNCHANGED <<loop, queue, moves>>
      BY <2>4
    <2> QED BY <1>4, <2>1, <2>2, <2>3, <2>4
        DEF QuicNext, Incoming, Establish, Leave, Connected, Serve, Authenticate
  <1>5. ASSUME NEW t \in Tcps, TcpNext(t) PROVE QueueBound'
    BY <1>5 DEF TcpNext, AcceptTcp, ServeSsh, ServeVless
  <1>6. ASSUME NEW p \in Peers, End(p) PROVE QueueBound'
    BY <1>6 DEF End
  <1>7. CASE UNCHANGED vars
    BY <1>7 DEF vars
  <1> QED BY <1>1, <1>2, <1>3, <1>4, <1>5, <1>6, <1>7 DEF Next

\* The queue is bounded for ever.
THEOREM QueueBounded == Spec => []QueueBound
  <1>1. Init => QueueBound
    BY DEF Init, QueueBound
  <1> QED BY <1>1, TypeCorrect, NextQueue, PTL DEF Spec

\* Between two connections the queue holds one rate for each move and none for
\* connections that failed.
THEOREM QueueNeverLeaks == Spec => []QueueDrained
  <1>1. TypeOK /\ QueueBound => QueueDrained
    BY DEF TypeOK, QueueBound, QueueDrained
  <1> QED BY <1>1, TypeCorrect, QueueBounded, PTL

----------------------------------------------------------------------------
(* Whose rate it is.                                                        *)

\* A connection that lives has a controller of its own.
OwnController ==
    /\ \A c \in Quics : link[c] \in {"open", "up"} <=> ctl[c] # None
    /\ \A c, d \in Quics : ctl[c] # None /\ ctl[c] = ctl[d] => c = d

\* While no client has moved, a task holds the rate of its own connection, and
\* the queue that of the connection being paired, at which no rate is set yet.
HoldsOwn ==
    \A c \in Quics : link[c] \in {"open", "up"} /\ task[c] # "none" =>
        held[c] = ctl[c] /\ bps[ctl[c]] = deal[c]
QueueOwn ==
    loop \in {"pair", "owed"} /\ link[cur] \in {"open", "up"} =>
        queue = <<ctl[cur]>> /\ bps[ctl[cur]] = 0

RateInv ==
    /\ OwnController
    /\ \A c \in Quics : task[c] = "none" => deal[c] = 0
    /\ moves = 0 => HoldsOwn /\ QueueOwn

\* Every step leaves each connection its own controller and rate.
LEMMA NextRate ==
    TypeOK /\ PairPlace /\ QueueBound /\ RateInv /\ [Next]_vars => RateInv'
  <1> SUFFICES ASSUME TypeOK, PairPlace, QueueBound, RateInv, [Next]_vars PROVE RateInv'
    OBVIOUS
  <1>0. Quics \cap Tcps = {} /\ None \notin Rates /\ Quics \subseteq Peers
    BY Hy2ServerAssumption DEF Hy2ServerAssumption, Peers
  <1> USE <1>0 DEF RateInv, loopVars, rateVars, taskVars, trafficVars, Closed
  <1>1. ASSUME NEW us \in SUBSET Users, Run(us) \/ StartFails(us) PROVE RateInv'
    BY <1>1 DEF Run, StartFails, NextGeneration, OwnController, HoldsOwn, QueueOwn, TypeOK
  <1>2. CASE AskReload \/ ListenerFails \/ HandshakeFirst
    BY <1>2 DEF AskReload, ListenerFails, HandshakeFirst, OwnController, HoldsOwn, QueueOwn
  <1>3. CASE Shutdown
    BY <1>3 DEF Shutdown, OwnController, HoldsOwn, QueueOwn, TypeOK
  <1>4. CASE Pair
    <2>1. cur \in Quics /\ task[cur] = "none" /\ deal[cur] = 0
      BY <1>4 DEF Pair, PairPlace
    <2>2. OwnController' /\ QueueOwn'
      BY <1>4 DEF Pair, OwnController, QueueOwn
    <2>3. \A c \in Quics : task'[c] = "none" => deal'[c] = 0
      BY <1>4, <2>1 DEF Pair, TypeOK
    <2>4. ASSUME moves = 0 PROVE HoldsOwn'
      <3>1. ASSUME link[cur] \in {"open", "up"} PROVE Head(queue) = ctl[cur] /\ bps[ctl[cur]] = 0
        BY <1>4, <2>4, <3>1 DEF Pair, QueueOwn
      <3> QED BY <1>4, <2>1, <2>4, <3>1 DEF Pair, HoldsOwn, TypeOK
    <2> QED BY <1>4, <2>2, <2>3, <2>4 DEF Pair
  <1>5. ASSUME NEW c \in Quics, QuicNext(c) PROVE RateInv'
    <2>1. CASE Incoming(c) \/ Establish(c)
      <3>1. UNCHANGED <<loop, cur, queue, moves, ctl, bps, task, held, deal>>
        BY <2>1 DEF Incoming, Establish
      <3>2. \A d \in Quics : link'[d] \in {"open", "up"} <=> link[d] \in {"open", "up"}
        BY <2>1 DEF Incoming, Establish, TypeOK
      <3>3. OwnController' /\ (HoldsOwn => HoldsOwn')
        BY <3>1, <3>2 DEF OwnController, HoldsOwn
      <3>4. QueueOwn => QueueOwn'
        BY <3>1, <3>2 DEF QueueOwn, PairPlace
      <3> QED BY <3>1, <3>3, <3>4
    <2>2. CASE AcceptQuic(c)
      <3>1. PICK r \in Rates :
              /\ r \notin UsedRates
              /\ queue' = Append(queue, r)
              /\ ctl' = [ctl EXCEPT ![c] = r]
              /\ bps' = [bps EXCEPT ![r] = 0]
        BY <2>2 DEF AcceptQuic, Built
      <3>2. \A d \in Quics : ctl[d] # r
        BY <3>1 DEF UsedRates
      <3>3. link[c] = "waiting" /\ task[c] = "none" /\ link' = [link EXCEPT ![c] = "open"]
            /\ UNCHANGED <<moves, task, held, deal>> /\ cur' = c /\ loop = "select"
        BY <2>2 DEF AcceptQuic, PairPlace
      <3>4. OwnController'
        BY <3>1, <3>2, <3>3 DEF OwnController, TypeOK
      <3>5. ASSUME moves = 0 PROVE HoldsOwn'
        BY <3>1, <3>2, <3>3, <3>5 DEF HoldsOwn, OwnController, TypeOK
      <3>6. ASSUME moves = 0 PROVE QueueOwn'
        <4>1. queue = <<>>
          BY <3>3, <3>6 DEF QueueBound, TypeOK
        <4>2. queue' = <<r>>
          BY <3>1, <4>1
        <4> QED BY <3>1, <3>3, <4>2 DEF QueueOwn, TypeOK
      <3> QED BY <3>3, <3>4, <3>5, <3>6
    <2>3. CASE RefuseQuic(c)
      BY <2>3 DEF RefuseQuic, OwnController, HoldsOwn, QueueOwn, PairPlace, TypeOK
    <2>4. CASE Move(c)
      <3>1. PICK r \in Rates : r \notin UsedRates /\ ctl' = [ctl EXCEPT ![c] = r]
        BY <2>4 DEF Move, Built
      <3>2. \A d \in Quics : ctl[d] # r
        BY <3>1 DEF UsedRates
      <3>3. link[c] = "up" /\ UNCHANGED <<link, task, deal>> /\ moves' # 0
        BY <2>4 DEF Move, TypeOK
      <3>4. OwnController'
        BY <3>1, <3>2, <3>3 DEF OwnController, TypeOK
      <3> QED BY <3>3, <3>4
    <2>5. CASE Leave(c)
      BY <2>5 DEF Leave, OwnController, HoldsOwn, QueueOwn, PairPlace, TypeOK
    <2>6. CASE Connected(c) \/ Serve(c)
      <3>1. UNCHANGED <<loop, cur, queue, moves, ctl, bps, link, held, deal>>
        BY <2>6 DEF Connected, Serve
      <3>2. \A d \in Quics : task'[d] = "none" <=> task[d] = "none"
        BY <2>6 DEF Connected, Serve, TypeOK
      <3> QED BY <3>1, <3>2 DEF OwnController, HoldsOwn, QueueOwn
    <2>7. ASSUME NEW u \in Users, NEW rx \in ClientRates, Authenticate(c, u, rx)
          PROVE  RateInv'
      <3>1. /\ task[c] = "auth" /\ link[c] = "up"
            /\ bps' = [bps EXCEPT ![held[c]] = Negotiated(rx)]
            /\ deal' = [deal EXCEPT ![c] = Negotiated(rx)]
            /\ task' = [task EXCEPT ![c] = "answer"]
            /\ UNCHANGED <<loop, cur, queue, moves, ctl, link, held>>
        BY <2>7 DEF Authenticate
      <3>2. OwnController' /\ \A d \in Quics : task'[d] = "none" => deal'[d] = 0
        BY <3>1 DEF OwnController, TypeOK
      <3>3. ASSUME moves = 0 PROVE HoldsOwn' /\ QueueOwn'
        <4>1. held[c] = ctl[c] /\ ctl[c] \in Rates
          BY <3>1, <3>3 DEF HoldsOwn, OwnController, TypeOK
        <4>2. \A d \in Quics \ {c} : ctl[d] # ctl[c]
          BY <4>1 DEF OwnController
        <4>3. HoldsOwn'
          BY <3>1, <3>3, <4>1, <4>2 DEF HoldsOwn, OwnController, TypeOK
        <4>4. QueueOwn'
          BY <3>1, <3>3, <4>1, <4>2 DEF QueueOwn, PairPlace, TypeOK
        <4> QED BY <4>3, <4>4
      <3> QED BY <3>1, <3>2, <3>3
    <2> QED BY <1>5, <2>1, <2>2, <2>3, <2>4, <2>5, <2>6, <2>7 DEF QuicNext
  <1>6. ASSUME NEW t \in Tcps, TcpNext(t) PROVE RateInv'
    <2>1. UNCHANGED <<loop, cur, queue, moves, ctl, bps, link, held, deal>>
          /\ \A d \in Quics : task'[d] = task[d]
      BY <1>6 DEF TcpNext, AcceptTcp, ServeSsh, ServeVless, TypeOK
    <2> QED BY <2>1 DEF OwnController, HoldsOwn, QueueOwn
  <1>7. ASSUME NEW p \in Peers, End(p) PROVE RateInv'
    <2>1. /\ UNCHANGED <<loop, cur, queue, moves, bps>>
          /\ task[p] # "none" /\ task' = [task EXCEPT ![p] = "none"]
      BY <1>7 DEF End
    <2>2. CASE p \in Quics /\ Closed({p}) /\ held' = [held EXCEPT ![p] = None]
               /\ deal' = [deal EXCEPT ![p] = 0]
      BY <2>1, <2>2 DEF OwnController, HoldsOwn, QueueOwn, PairPlace, TypeOK
    <2>3. CASE p \in Tcps /\ UNCHANGED <<held, deal, link, ctl>>
      BY <2>1, <2>3 DEF OwnController, HoldsOwn, QueueOwn, TypeOK
    <2> QED BY <1>7, <2>2, <2>3 DEF End
  <1>8. CASE UNCHANGED vars
    BY <1>8 DEF vars, OwnController, HoldsOwn, QueueOwn
  <1> QED BY <1>1, <1>2, <1>3, <1>4, <1>5, <1>6, <1>7, <1>8 DEF Next

\* While no client has moved, a connection runs at the rate its own client
\* negotiated, and at none before, for any number of connections and however
\* their handshakes and failures overlap.
THEOREM RateIsOwn == Spec => []RateApplied
  <1>1. Init => RateInv
    BY DEF Init, RateInv, OwnController, HoldsOwn, QueueOwn
  <1>2. RateInv => RateApplied
    BY DEF RateInv, HoldsOwn, RateApplied
  <1> QED BY <1>1, <1>2, NextRate, TypesCounted, QueueBounded, PTL DEF Spec

----------------------------------------------------------------------------
(* The connections shown.                                                   *)

\* Every connection of the running generation counts in the entry of its user.
Registered == \A p \in Peers \ old : task[p] = "serve" => entry[p] = registry[name[p]]

\* An entry is made only for a user that has none, and so that nobody counts in.
LEMMA NextRegistered ==
    TypeOK /\ PairPlace /\ Counting /\ Registered /\ [Next]_vars => Registered'
  <1> SUFFICES ASSUME TypeOK, PairPlace, Counting, Registered, [Next]_vars PROVE Registered'
    OBVIOUS
  <1> USE DEF Registered, loopVars, rateVars, taskVars, trafficVars
  <1>1. ASSUME NEW us \in SUBSET Users, Run(us) \/ StartFails(us) PROVE Registered'
    BY <1>1 DEF Run, StartFails, NextGeneration, TypeOK
  <1>2. CASE AskReload \/ Shutdown \/ ListenerFails \/ HandshakeFirst
    BY <1>2 DEF AskReload, Shutdown, ListenerFails, HandshakeFirst
  <1>3. CASE Pair
    BY <1>3 DEF Pair, TypeOK
  <1>4. ASSUME NEW p \in Peers, NEW u \in Users, entry[p] = None, Counted(p, u),
               task' = [task EXCEPT ![p] = "serve"], UNCHANGED old,
               name'[p] = u, \A q \in Peers \ {p} : name'[q] = name[q]
        PROVE  Registered'
    <2>1. entry'[p] = registry'[u]
      BY <1>4, CountedOne
    <2>2. ASSUME NEW q \in Peers \ {p}, q \notin old, task[q] = "serve"
          PROVE  entry'[q] = registry'[name[q]]
      <3>1. name[q] \in Users /\ entry[q] # None /\ entry[q] = registry[name[q]]
        BY <2>2 DEF Counting
      <3> QED BY <1>4, <2>2, <3>1, CountedOne
    <2> QED BY <1>4, <2>1, <2>2 DEF TypeOK
  <1>5. ASSUME NEW c \in Quics, QuicNext(c) PROVE Registered'
    <2>0. c \in Peers
      BY DEF Peers
    <2>1. CASE Serve(c)
      <3>1. name[c] \in Users /\ entry[c] = None
        BY <2>0, <2>1 DEF Serve, Counting
      <3> QED BY <1>4, <2>0, <2>1, <3>1 DEF Serve
    <2>2. ASSUME NEW u \in Users, NEW rx \in ClientRates, Authenticate(c, u, rx)
          PROVE  Registered'
      BY <2>0, <2>2 DEF Authenticate, TypeOK
    <2>3. CASE Connected(c)
      BY <2>0, <2>3 DEF Connected, TypeOK
    <2>4. CASE Incoming(c) \/ AcceptQuic(c) \/ RefuseQuic(c) \/ Establish(c) \/ Move(c) \/ Leave(c)
      BY <2>4 DEF Incoming, AcceptQuic, RefuseQuic, Establish, Move, Leave
    <2> QED BY <1>5, <2>1, <2>2, <2>3, <2>4 DEF QuicNext
  <1>6. ASSUME NEW t \in Tcps, TcpNext(t) PROVE Registered'
    <2>0. t \in Peers
      BY DEF Peers
    <2>1. ASSUME NEW u \in Users, ServeVless(t, u) PROVE Registered'
      <3>1. entry[t] = None
        BY <2>0, <2>1 DEF ServeVless, Counting
      <3> QED BY <1>4, <2>0, <2>1, <3>1 DEF ServeVless, TypeOK
    <2>2. CASE AcceptTcp(t) \/ ServeSsh(t)
      BY <2>0, <2>2 DEF AcceptTcp, ServeSsh, TypeOK
    <2> QED BY <1>6, <2>1, <2>2 DEF TcpNext
  <1>7. ASSUME NEW p \in Peers, End(p) PROVE Registered'
    BY <1>7 DEF End, TypeOK
  <1>8. CASE UNCHANGED vars
    BY <1>8 DEF vars
  <1> QED BY <1>1, <1>2, <1>3, <1>5, <1>6, <1>7, <1>8 DEF Next

\* The WebUI shows as many connections as there are, for any number of users,
\* connections and reloads.
THEOREM ConnectionsAreShown == Spec => []ConnectionsShown
  <1>1. Init => Registered
    BY DEF Init, Registered
  <1>2. TypeOK /\ Counting /\ Registered => ConnectionsShown
    <2> SUFFICES ASSUME TypeOK, Counting, Registered PROVE ConnectionsShown
      OBVIOUS
    <2>1. UsedEntries \ {None} \subseteq Entries
      BY DEF UsedEntries, TypeOK
    <2>2. ASSUME NEW e \in Entries
          PROVE  {p \in Peers : task[p] = "serve" /\ entry[p] = e} = Serving(e)
      BY Hy2ServerAssumption DEF Hy2ServerAssumption, Counting, Serving
    <2> QED BY <2>1, <2>2 DEF Counting, Registered, ConnectionsShown
  <1> QED BY <1>1, <1>2, NextRegistered, TypesCounted, PTL DEF Spec
=============================================================================
