--------------------------- MODULE SessionsProofs ---------------------------
(***************************************************************************)
(* The session manager for any number of sessions, nodes and TTLs: its     *)
(* types, LeaksAreKnown and LiveSessionsKeepEphemerals, each with the      *)
(* inductive invariant it needs and one step per action.                   *)
(***************************************************************************)
EXTENDS Sessions, StoreProofs

\* The inductive invariant.  That the session of an ephemeral node is a real
\* one keeps it apart from NoSession, the value of closing when no Close runs.
SessionsInv ==
    /\ StoreInv
    /\ issued \subseteq Session
    /\ \A p \in DOMAIN nodes : nodes[p].Ephemeral => nodes[p].SessionID \in Session
    /\ LeaksAreKnown

\* The table of sessions.  A session that has ended does not come back.
TableInv ==
    /\ issued \subseteq Session
    /\ DOMAIN sessions \subseteq issued
    /\ \A sid \in DOMAIN sessions : sessions[sid] \in SessionRecord
    /\ expiring \subseteq issued /\ dropped \subseteq issued
    /\ closing \in issued \cup {NoSession}
    /\ \A sid \in Session : CleanupOwed(sid) => ~Live(sid)

\* The paths that createNode has handed on.
CreatedInv == registering \subseteq Session \X Path /\ late \subseteq Path

\* The steps of Sessions, for clients that may ask for any TTL.
AnyTTLNext == SessionsNext \/ \E sid \in Session, ttl \in Int : CreateSession(sid, ttl)
AnyTTLSpec == SessionsInit /\ [][AnyTTLNext]_sessionVars

-----------------------------------------------------------------------------
\* RemoveAll (Delete, DeleteEphemerals) leaves the owner of other nodes alone.
LEMMA RemovalKeepsOwners ==
    ASSUME StoreTypeOK, NEW D, nodes' = RemoveAll(D), NEW p \in DOMAIN nodes'
    PROVE  /\ p \in DOMAIN nodes /\ p \notin D
           /\ nodes'[p].Ephemeral = nodes[p].Ephemeral
           /\ nodes'[p].SessionID = nodes[p].SessionID
<1>1. p \in DOMAIN nodes \ D
  BY DEF RemoveAll
<1>2. nodes[p] \in Node
  BY <1>1 DEF StoreTypeOK
<1>3. nodes'[p] = [nodes[p] EXCEPT !.Children =
                      @ \ {baseName(d) : d \in {e \in D : parentPath(e) = p}}]
  BY <1>1 DEF RemoveAll
<1> QED
  BY <1>1, <1>2, <1>3 DEF Node

\* Insert (Create) leaves the owner of the nodes that were there alone.
LEMMA InsertionKeepsOwners ==
    ASSUME StoreTypeOK, NEW p, NEW q, NEW node, nodes' = Insert(p, q, node),
           NEW x \in DOMAIN nodes', x # q
    PROVE  /\ x \in DOMAIN nodes
           /\ nodes'[x].Ephemeral = nodes[x].Ephemeral
           /\ nodes'[x].SessionID = nodes[x].SessionID
<1>1. x \in DOMAIN nodes
  BY DEF Insert
<1>2. nodes[x] \in Node
  BY <1>1 DEF StoreTypeOK
<1>3. \/ nodes'[x] = nodes[x]
      \/ nodes'[x] = [nodes[x] EXCEPT !.Children = @ \cup {baseName(q)}]
  BY <1>1 DEF Insert
<1> QED
  BY <1>1, <1>2, <1>3 DEF Node

\* A step that leaves the nodes alone, and after which every session that was
\* live or about to be cleaned up still is, or has been dropped, keeps the invariant.
LEMMA ManagerStepKeepsInv ==
    ASSUME SessionsInv, UNCHANGED storeVars, issued' \subseteq Session,
           late' = late, dropped \subseteq dropped',
           \A sid \in Session : Live(sid) \/ CleanupOwed(sid)
               => Live(sid)' \/ CleanupOwed(sid)' \/ sid \in dropped'
    PROVE  SessionsInv'
<1>1. nodes' = nodes /\ seqCounter' = seqCounter
  BY DEF storeVars
<1>2. StoreInv'
  BY <1>1 DEF SessionsInv, StoreInv, StoreTypeOK, ParentsExist, Exists,
             ChildrenMirrorNodes, ListedChildrenExist, NodesAreListed, EphemeralsAreLeaves
<1>3. LeaksAreKnown'
  BY <1>1 DEF SessionsInv, LeaksAreKnown
<1> QED
  BY <1>1, <1>2, <1>3 DEF SessionsInv

\* The two places where onExpire runs: DeleteEphemerals(sid), after which sid is
\* not about to be cleaned up any more.
LEMMA CleanupKeepsInv ==
    ASSUME SessionsInv, NEW sid, DeleteEphemerals(sid),
           UNCHANGED <<sessions, issued, historyVars>>,
           \A s \in Session \ {sid} : CleanupOwed(s) => CleanupOwed(s)'
    PROVE  SessionsInv'
<1>1. StoreInv'
  BY DeleteEphemeralsKeepsTree DEF SessionsInv
<1>2. nodes' = RemoveAll(EphemeralsOf(sid)) /\ StoreTypeOK
  BY DEF DeleteEphemerals, SessionsInv, StoreInv
<1>3. ASSUME NEW p \in DOMAIN nodes', nodes'[p].Ephemeral
      PROVE  /\ p \in DOMAIN nodes /\ nodes[p].Ephemeral
             /\ nodes'[p].SessionID = nodes[p].SessionID
             /\ nodes[p].SessionID \in Session \ {sid}
  <2>1. /\ p \in DOMAIN nodes /\ p \notin EphemeralsOf(sid) /\ nodes[p].Ephemeral
        /\ nodes'[p].SessionID = nodes[p].SessionID
    BY <1>2, <1>3, RemovalKeepsOwners
  <2> QED
    BY <2>1 DEF SessionsInv, EphemeralsOf
<1>4. LeaksAreKnown'
  BY <1>3 DEF SessionsInv, LeaksAreKnown, Live, historyVars
<1> QED
  BY <1>1, <1>3, <1>4 DEF SessionsInv

\* The creation of an ephemeral node: its session is live or about to be cleaned
\* up, or the node is recorded as late.
LEMMA CreationKeepsInv ==
    ASSUME SessionsInv, NEW sid \in Session, NEW p \in Path, NEW d \in Data,
           NEW sequential \in BOOLEAN, CanCreate(p, sequential),
           Create(p, d, TRUE, sid, sequential),
           NoteCreated(sid, ActualPath(p, sequential)),
           UNCHANGED <<sessions, issued, closing, expiring, dropped>>
    PROVE  SessionsInv'
<1> DEFINE q == ActualPath(p, sequential)
           node == NewNode(d, TRUE, sid)
<1>1. StoreInv'
  BY CreateKeepsTree, Zenon DEF SessionsInv
<1>2. nodes' = Insert(p, q, node) /\ StoreTypeOK
  BY DEF Create, CanCreate, SessionsInv, StoreInv
<1>3. nodes'[q] = node /\ node.Ephemeral /\ node.SessionID = sid
  BY <1>2 DEF Insert, NewNode
<1>4. late' = IF Live(sid) \/ CleanupOwed(sid) THEN late \ {q} ELSE late \cup {q}
  BY DEF NoteCreated
<1> HIDE DEF q, node
<1>5. ASSUME NEW x \in DOMAIN nodes', nodes'[x].Ephemeral
      PROVE  /\ nodes'[x].SessionID \in Session
             /\ LET s == nodes'[x].SessionID IN
                \/ s \in DOMAIN sessions' \/ s \in expiring' \/ closing' = s
                \/ s \in dropped' \/ x \in late'
  <2>1. CASE x = q
    BY <2>1, <1>3, <1>4 DEF Live, CleanupOwed
  <2>2. CASE x # q
    <3>1. /\ x \in DOMAIN nodes /\ nodes[x].Ephemeral
          /\ nodes'[x].SessionID = nodes[x].SessionID
      BY <1>2, <1>5, <2>2, InsertionKeepsOwners
    <3> QED
      BY <3>1, <1>4, <2>2 DEF SessionsInv, LeaksAreKnown, Live, CleanupOwed
  <2> QED
    BY <2>1, <2>2
<1>6. LeaksAreKnown'
  BY <1>5 DEF LeaksAreKnown, Live, CleanupOwed
<1> QED
  BY <1>1, <1>5, <1>6 DEF SessionsInv

\* The removal of any nodes that leaves a tree.
LEMMA RemovalKeepsInv ==
    ASSUME SessionsInv, StoreInv', NEW D, nodes' = RemoveAll(D),
           UNCHANGED <<sessions, issued, closing, expiring, dropped, late>>
    PROVE  SessionsInv'
<1>1. \A x \in DOMAIN nodes' : /\ x \in DOMAIN nodes
                               /\ nodes'[x].Ephemeral = nodes[x].Ephemeral
                               /\ nodes'[x].SessionID = nodes[x].SessionID
  BY RemovalKeepsOwners DEF SessionsInv, StoreInv
<1>2. LeaksAreKnown'
  BY <1>1 DEF SessionsInv, LeaksAreKnown, Live, CleanupOwed
<1> QED
  BY <1>1, <1>2 DEF SessionsInv

-----------------------------------------------------------------------------
\* Every step of the session manager and of the handlers keeps the invariant.
LEMMA NextSessionsInv == SessionsInv /\ [AnyTTLNext]_sessionVars => SessionsInv'
<1> SUFFICES ASSUME SessionsInv, [AnyTTLNext]_sessionVars PROVE SessionsInv'
  OBVIOUS
<1> USE ManagerStepKeepsInv
<1>1. ASSUME NEW sid \in Session, NEW ttl, CreateSession(sid, ttl)
      PROVE  SessionsInv'
  BY <1>1 DEF CreateSession, historyVars, Live, CleanupOwed, SessionsInv
<1>2. ASSUME NEW sid \in Session, Heartbeat(sid) PROVE SessionsInv'
  BY <1>2 DEF Heartbeat, Forget, Live, CleanupOwed, SessionsInv
<1>3. ASSUME NEW sid \in Session, CloseSession(sid) PROVE SessionsInv'
  BY <1>3, StoreAssumption DEF CloseSession, Forget, MutexFree, historyVars, Live, CleanupOwed, SessionsInv
<1>4. ASSUME CloseOnExpire PROVE SessionsInv'
  BY <1>4, CleanupKeepsInv DEF CloseOnExpire, CleanupOwed
<1>5. CASE CheckExpirations
  BY <1>5 DEF CheckExpirations, Forget, historyVars, Live, CleanupOwed, SessionsInv
<1>6. ASSUME NEW sid \in Session, OnExpire(sid) PROVE SessionsInv'
  BY <1>6, CleanupKeepsInv DEF OnExpire, CleanupOwed
<1>7. ASSUME NEW sid \in Session, NEW p \in InputPath, NEW d \in Data,
             NEW sequential \in BOOLEAN, CreateNode(sid, p, d, sequential)
      PROVE  SessionsInv'
  BY <1>7, CreationKeepsInv, StoreAssumption, Zenon DEF CreateNode, tableVars, Path, Name
<1>8. ASSUME NEW call \in registering, RegisterEphemeral(call[1], call[2])
      PROVE  SessionsInv'
  BY <1>8 DEF RegisterEphemeral, historyVars, Live, CleanupOwed, SessionsInv
<1>9. ASSUME NEW p \in InputPath, DeleteNode(p) PROVE SessionsInv'
  <2>1. p \in Path
    BY StoreAssumption DEF Path, Name
  <2>2. StoreInv'
    BY <1>9, <2>1, DeleteKeepsTree DEF SessionsInv, DeleteNode
  <2> QED
    BY <1>9, <2>2, RemovalKeepsInv DEF DeleteNode, Delete, tableVars, historyVars
<1>10. CASE Tick
  BY <1>10 DEF Tick, historyVars, Live, CleanupOwed, SessionsInv
<1>11. CASE UNCHANGED sessionVars
  BY <1>11 DEF sessionVars, tableVars, historyVars, Live, CleanupOwed, SessionsInv
<1> QED
  BY <1>1, <1>2, <1>3, <1>4, <1>5, <1>6, <1>7, <1>8, <1>9, <1>10, <1>11
  DEF AnyTTLNext, SessionsNext

\* Initially there are no sessions and no ephemeral nodes.
LEMMA InitSessionsInv == SessionsInit => SessionsInv
<1> SUFFICES ASSUME SessionsInit PROVE SessionsInv
  OBVIOUS
<1>1. StoreInv
  BY InitStoreInv DEF SessionsInit
<1>2. \A p \in DOMAIN nodes : ~nodes[p].Ephemeral
  BY DEF SessionsInit, StoreInit, NewNode
<1> QED
  BY <1>1, <1>2 DEF SessionsInv, SessionsInit, LeaksAreKnown

LEMMA SessionsInvHolds == AnyTTLSpec => []SessionsInv
BY InitSessionsInv, NextSessionsInv, PTL DEF AnyTTLSpec

\* The TTLs of TTLInput are TTLs.
LEMMA SessionsIsAnyTTL == SessionsSpec => AnyTTLSpec
<1>1. [SessionsNext]_sessionVars => [AnyTTLNext]_sessionVars
  BY DEF AnyTTLNext
<1> QED
  BY <1>1, PTL DEF SessionsSpec, AnyTTLSpec

(***************************************************************************)
(* Whatever the order of Create, Heartbeat, Close, expiry and the handlers *)
(* of ephemeral nodes, a node outlives its session only through a          *)
(* heartbeat that dropped the session or a createNode that came after the  *)
(* cleanup.                                                                *)
(***************************************************************************)
THEOREM LeaksTheorem == SessionsSpec => []LeaksAreKnown
<1>1. SessionsInv => LeaksAreKnown
  BY DEF SessionsInv
<1> QED
  BY <1>1, SessionsIsAnyTTL, SessionsInvHolds, PTL

-----------------------------------------------------------------------------
(* The types *)

LEMMA ValidTTLRange ==
    ASSUME NEW ttl \in Int
    PROVE  ValidTTL(ttl) \in 1..MaxTTL
BY SessionsAssumption DEF ValidTTL

LEMMA RecordUpdates ==
    ASSUME NEW x \in SessionRecord
    PROVE  /\ \A n \in 0..(MaxTTL + 1) : [x EXCEPT !.Idle = n] \in SessionRecord
           /\ \A K \in SUBSET Path : [x EXCEPT !.EphemeralKeys = K] \in SessionRecord
           /\ x.EphemeralKeys \subseteq Path /\ x.Idle \in 0..(MaxTTL + 1)
BY DEF SessionRecord

\* createSession.
LEMMA CreateSessionKeepsTable ==
    ASSUME TableInv, NEW sid \in Session, NEW ttl \in Int, CreateSession(sid, ttl)
    PROVE  TableInv'
<1>1. [TTL |-> ValidTTL(ttl), Idle |-> 0, EphemeralKeys |-> {}] \in SessionRecord
  BY ValidTTLRange, SessionsAssumption DEF SessionRecord
<1>2. /\ sid \notin issued /\ issued' = issued \cup {sid}
      /\ DOMAIN sessions' = DOMAIN sessions \cup {sid}
      /\ \A x \in DOMAIN sessions' : sessions'[x] \in SessionRecord
      /\ UNCHANGED <<closing, expiring, dropped>>
  BY <1>1 DEF CreateSession, historyVars, TableInv
<1> QED
  BY <1>2, StoreAssumption DEF TableInv, Live, CleanupOwed

\* A session's record is replaced by another one.
LEMMA UpdateKeepsTable ==
    ASSUME TableInv, NEW sid \in DOMAIN sessions, NEW x \in SessionRecord,
           sessions' = [sessions EXCEPT ![sid] = x],
           UNCHANGED <<issued, closing, expiring, dropped>>
    PROVE  TableInv'
<1>1. DOMAIN sessions' = DOMAIN sessions
  OBVIOUS
<1>2. \A y \in DOMAIN sessions : sessions'[y] \in SessionRecord
  BY DEF TableInv
<1> QED
  BY <1>1, <1>2 DEF TableInv, Live, CleanupOwed

LEMMA HeartbeatKeepsTable ==
    ASSUME TableInv, NEW sid \in Session, Heartbeat(sid)
    PROVE  TableInv'
<1>1. sid \in DOMAIN sessions /\ sessions[sid] \in SessionRecord
  BY DEF Heartbeat, Live, TableInv
<1>2. CASE IsExpired(sid)
  <2>1. /\ sessions' = Forget({sid}) /\ dropped' = dropped \cup {sid}
        /\ UNCHANGED <<issued, closing, expiring>>
    BY <1>2 DEF Heartbeat
  <2> QED
    BY <1>1, <2>1 DEF TableInv, Forget, Live, CleanupOwed
<1>3. CASE ~IsExpired(sid)
  <2>1. [sessions[sid] EXCEPT !.Idle = 0] \in SessionRecord
    BY <1>1, RecordUpdates, SessionsAssumption
  <2> QED
    BY <1>1, <1>3, <2>1, UpdateKeepsTable DEF Heartbeat
<1> QED
  BY <1>2, <1>3

LEMMA CloseSessionKeepsTable ==
    ASSUME TableInv, NEW sid \in Session, CloseSession(sid)
    PROVE  TableInv'
<1>1. /\ sid \in DOMAIN sessions /\ sessions' = Forget({sid}) /\ closing' = sid
      /\ UNCHANGED <<issued, expiring, dropped>>
  BY DEF CloseSession, Live, historyVars
<1> QED
  BY <1>1 DEF TableInv, Forget, Live, CleanupOwed

LEMMA CheckExpirationsKeepsTable ==
    ASSUME TableInv, CheckExpirations
    PROVE  TableInv'
<1> DEFINE E == {sid \in DOMAIN sessions : IsExpired(sid)}
<1>1. /\ E \subseteq DOMAIN sessions /\ sessions' = Forget(E) /\ expiring' = expiring \cup E
      /\ UNCHANGED <<issued, closing, dropped>>
  BY DEF CheckExpirations, historyVars
<1> HIDE DEF E
<1> QED
  BY <1>1 DEF TableInv, Forget, Live, CleanupOwed

LEMMA TickKeepsTable ==
    ASSUME TableInv, Tick
    PROVE  TableInv'
<1> DEFINE idle(sid) == IF sessions[sid].Idle > MaxTTL THEN sessions[sid].Idle
                                                       ELSE sessions[sid].Idle + 1
<1>1. /\ sessions' = [sid \in DOMAIN sessions |-> [sessions[sid] EXCEPT !.Idle = idle(sid)]]
      /\ UNCHANGED <<issued, closing, expiring, dropped>>
  BY DEF Tick, historyVars
<1>2. ASSUME NEW sid \in DOMAIN sessions
      PROVE  [sessions[sid] EXCEPT !.Idle = idle(sid)] \in SessionRecord
  <2>1. sessions[sid] \in SessionRecord
    BY DEF TableInv
  <2>2. sessions[sid].Idle \in 0..(MaxTTL + 1)
    BY <2>1, RecordUpdates
  <2>3. idle(sid) \in 0..(MaxTTL + 1)
    BY <2>2, SessionsAssumption
  <2> HIDE DEF idle
  <2> QED
    BY <2>1, <2>3, RecordUpdates
<1> HIDE DEF idle
<1>3. DOMAIN sessions' = DOMAIN sessions /\ \A sid \in DOMAIN sessions' : sessions'[sid] \in SessionRecord
  BY <1>1, <1>2
<1> QED
  BY <1>1, <1>3 DEF TableInv, Live, CleanupOwed

LEMMA RegisterEphemeralKeepsTable ==
    ASSUME TableInv, NEW sid, NEW q \in Path, RegisterEphemeral(sid, q)
    PROVE  TableInv'
<1>1. CASE Live(sid)
  <2> DEFINE K == sessions[sid].EphemeralKeys \cup {q}
  <2>1. sid \in DOMAIN sessions /\ sessions[sid] \in SessionRecord
    BY <1>1 DEF Live, TableInv
  <2>2. K \in SUBSET Path
    BY <2>1, RecordUpdates
  <2>3. sessions' = [sessions EXCEPT ![sid] = [sessions[sid] EXCEPT !.EphemeralKeys = K]]
    BY <1>1 DEF RegisterEphemeral
  <2> HIDE DEF K
  <2>4. [sessions[sid] EXCEPT !.EphemeralKeys = K] \in SessionRecord
    BY <2>1, <2>2, RecordUpdates
  <2> QED
    BY <2>1, <2>3, <2>4, UpdateKeepsTable DEF RegisterEphemeral, historyVars
<1>2. CASE ~Live(sid)
  BY <1>2 DEF RegisterEphemeral, historyVars, TableInv, Live, CleanupOwed
<1> QED
  BY <1>1, <1>2

\* onExpire, from Close and from the expiration loop.
LEMMA OnExpireKeepsTable ==
    ASSUME TableInv, CloseOnExpire \/ \E sid \in Session : OnExpire(sid)
    PROVE  TableInv'
<1>1. /\ UNCHANGED <<sessions, issued, dropped>> /\ expiring' \subseteq expiring
      /\ closing' = closing \/ closing' = NoSession
  BY Zenon DEF CloseOnExpire, OnExpire, historyVars
<1> QED
  BY <1>1, StoreAssumption DEF TableInv, Live, CleanupOwed

\* Every operation of the session manager keeps its table in order.
LEMMA NextTableInv == TableInv /\ CreatedInv /\ [AnyTTLNext]_sessionVars => TableInv'
<1> SUFFICES ASSUME TableInv, CreatedInv, [AnyTTLNext]_sessionVars PROVE TableInv'
  OBVIOUS
<1>1. ASSUME NEW sid \in Session, NEW ttl \in Int, CreateSession(sid, ttl) PROVE TableInv'
  BY <1>1, CreateSessionKeepsTable
<1>2. ASSUME NEW sid \in Session, Heartbeat(sid) PROVE TableInv'
  BY <1>2, HeartbeatKeepsTable
<1>3. ASSUME NEW sid \in Session, CloseSession(sid) PROVE TableInv'
  BY <1>3, CloseSessionKeepsTable
<1>4. CASE CloseOnExpire \/ \E sid \in Session : OnExpire(sid)
  BY <1>4, OnExpireKeepsTable
<1>5. CASE CheckExpirations
  BY <1>5, CheckExpirationsKeepsTable
<1>6. ASSUME UNCHANGED <<tableVars, dropped>> PROVE TableInv'
  BY <1>6 DEF tableVars, TableInv, Live, CleanupOwed
<1>7. ASSUME NEW sid \in Session, NEW p \in InputPath, NEW d \in Data,
             NEW sequential \in BOOLEAN, CreateNode(sid, p, d, sequential)
      PROVE  TableInv'
  BY <1>6, <1>7 DEF CreateNode
<1>8. ASSUME NEW call \in registering, RegisterEphemeral(call[1], call[2]) PROVE TableInv'
  <2>1. call[2] \in Path
    BY DEF CreatedInv
  <2> QED
    BY <1>8, <2>1, RegisterEphemeralKeepsTable
<1>9. ASSUME NEW p \in InputPath, DeleteNode(p) PROVE TableInv'
  BY <1>6, <1>9 DEF DeleteNode, historyVars
<1>10. CASE Tick
  BY <1>10, TickKeepsTable
<1>11. CASE UNCHANGED sessionVars
  BY <1>6, <1>11 DEF sessionVars, historyVars
<1> QED
  BY <1>1, <1>2, <1>3, <1>4, <1>5, <1>7, <1>8, <1>9, <1>10, <1>11, SessionsAssumption
  DEF AnyTTLNext, SessionsNext

\* createNode hands on paths of the store.
LEMMA NextCreatedInv ==
    SessionsInv /\ CreatedInv /\ [AnyTTLNext]_sessionVars => CreatedInv'
<1> SUFFICES ASSUME SessionsInv, CreatedInv, [AnyTTLNext]_sessionVars PROVE CreatedInv'
  OBVIOUS
<1>1. ASSUME registering' \subseteq registering, late' = late PROVE CreatedInv'
  BY <1>1 DEF CreatedInv
<1>2. ASSUME NEW sid \in Session, NEW p \in InputPath, NEW d \in Data,
             NEW sequential \in BOOLEAN, CreateNode(sid, p, d, sequential)
      PROVE  CreatedInv'
  <2> DEFINE q == ActualPath(p, sequential)
  <2>1. p \in Path /\ seqCounter \in Nat
    BY StoreAssumption DEF Path, Name, SessionsInv, StoreInv, StoreTypeOK
  <2>2. q \in Path
    BY <2>1, ActualPathFacts
  <2>3. registering' = registering \cup {<<sid, q>>} /\ late' \subseteq late \cup {q}
    BY <1>2 DEF CreateNode, NoteCreated
  <2> HIDE DEF q
  <2> QED
    BY <2>2, <2>3 DEF CreatedInv
<1>3. CASE UNCHANGED sessionVars
  BY <1>1, <1>3 DEF sessionVars, historyVars
<1>4. ASSUME NEW sid \in Session, Heartbeat(sid) \/ CloseSession(sid) \/ OnExpire(sid)
      PROVE  CreatedInv'
  BY <1>1, <1>4 DEF Heartbeat, CloseSession, OnExpire, historyVars
<1>5. ASSUME NEW sid \in Session, NEW ttl, CreateSession(sid, ttl) PROVE CreatedInv'
  BY <1>1, <1>5 DEF CreateSession, historyVars
<1>6. CASE CloseOnExpire \/ CheckExpirations \/ Tick
  BY <1>1, <1>6, Zenon DEF CloseOnExpire, CheckExpirations, Tick, historyVars
<1>7. ASSUME NEW sid, NEW q, RegisterEphemeral(sid, q) PROVE CreatedInv'
  BY <1>1, <1>7 DEF RegisterEphemeral, historyVars
<1>8. ASSUME NEW p, DeleteNode(p) PROVE CreatedInv'
  BY <1>1, <1>8 DEF DeleteNode, historyVars
<1> QED
  BY <1>2, <1>3, <1>4, <1>5, <1>6, <1>7, <1>8 DEF AnyTTLNext, SessionsNext

\* All that is invariant of the sessions, in one formula.
AllSessionsInv == SessionsInv /\ TableInv /\ CreatedInv

LEMMA InitAllSessionsInv == SessionsInit => AllSessionsInv
<1>1. SessionsInit => TableInv /\ CreatedInv
  BY StoreAssumption DEF SessionsInit, TableInv, CreatedInv, Live, CleanupOwed
<1> QED
  BY <1>1, InitSessionsInv DEF AllSessionsInv

LEMMA NextAllSessionsInv == AllSessionsInv /\ [AnyTTLNext]_sessionVars => AllSessionsInv'
BY NextSessionsInv, NextTableInv, NextCreatedInv, Zenon DEF AllSessionsInv

LEMMA AllSessionsInvHolds == AnyTTLSpec => []AllSessionsInv
BY InitAllSessionsInv, NextAllSessionsInv, PTL DEF AnyTTLSpec

LEMMA SessionsTypes == AllSessionsInv => SessionsTypeOK
BY Zenon DEF AllSessionsInv, SessionsInv, StoreInv, TableInv, CreatedInv, SessionsTypeOK

(***************************************************************************)
(* The session manager's table holds records with a TTL that Create        *)
(* validated, for sessions that were handed out, whatever TTLs clients ask *)
(* for and however the operations interleave.                              *)
(***************************************************************************)
THEOREM SessionsTypeTheorem == SessionsSpec => []SessionsTypeOK
BY SessionsIsAnyTTL, AllSessionsInvHolds, SessionsTypes, PTL

-----------------------------------------------------------------------------
(* The ephemeral nodes of live sessions *)

\* What LiveSessionsKeepEphemerals says of one step.
LiveNodesStay ==
    \A p \in DOMAIN nodes :
        nodes[p].Ephemeral /\ Live(nodes[p].SessionID) /\ p \notin DOMAIN nodes'
            => DeleteNode(p)

\* onExpire runs for sessions that have ended, and takes no node of another one.
LEMMA CleanupSparesTheLiving ==
    ASSUME TableInv, NEW sid \in Session, CleanupOwed(sid), DeleteEphemerals(sid)
    PROVE  LiveNodesStay
<1>1. ~Live(sid)
  BY DEF TableInv
<1>2. DOMAIN nodes' = DOMAIN nodes \ EphemeralsOf(sid)
  BY DEF DeleteEphemerals, RemoveAll
<1> QED
  BY <1>1, <1>2 DEF LiveNodesStay, EphemeralsOf

LEMMA NextLiveNodesStay ==
    AllSessionsInv /\ [AnyTTLNext]_sessionVars => LiveNodesStay
<1> SUFFICES ASSUME SessionsInv, TableInv, [AnyTTLNext]_sessionVars PROVE LiveNodesStay
  BY DEF AllSessionsInv
<1>1. ASSUME DOMAIN nodes \subseteq DOMAIN nodes' PROVE LiveNodesStay
  BY <1>1 DEF LiveNodesStay
<1>2. ASSUME UNCHANGED storeVars PROVE LiveNodesStay
  BY <1>1, <1>2 DEF storeVars
<1>3. ASSUME NEW sid \in Session, Heartbeat(sid) \/ CloseSession(sid) PROVE LiveNodesStay
  BY <1>2, <1>3 DEF Heartbeat, CloseSession
<1>4. ASSUME NEW sid \in Session, OnExpire(sid) PROVE LiveNodesStay
  BY <1>4, CleanupSparesTheLiving DEF OnExpire, CleanupOwed
<1>5. CASE CloseOnExpire
  <2>1. closing \in Session /\ CleanupOwed(closing) /\ DeleteEphemerals(closing)
    BY <1>5 DEF CloseOnExpire, MutexFree, TableInv, CleanupOwed
  <2> QED
    BY <2>1, CleanupSparesTheLiving
<1>6. ASSUME NEW sid \in Session, NEW ttl, CreateSession(sid, ttl) PROVE LiveNodesStay
  BY <1>2, <1>6 DEF CreateSession
<1>7. CASE CheckExpirations \/ Tick
  BY <1>2, <1>7, Zenon DEF CheckExpirations, Tick
<1>8. ASSUME NEW sid \in Session, NEW p \in InputPath, NEW d \in Data,
             NEW sequential \in BOOLEAN, CreateNode(sid, p, d, sequential)
      PROVE  LiveNodesStay
  BY <1>1, <1>8 DEF CreateNode, CanCreate, Create, Insert
<1>9. ASSUME NEW sid, NEW q, RegisterEphemeral(sid, q) PROVE LiveNodesStay
  BY <1>2, <1>9 DEF RegisterEphemeral
<1>10. ASSUME NEW p, DeleteNode(p) PROVE LiveNodesStay
  <2>1. DOMAIN nodes' = DOMAIN nodes \ {p}
    BY <1>10 DEF DeleteNode, Delete, RemoveAll
  <2> QED
    BY <1>10, <2>1 DEF LiveNodesStay
<1>11. CASE UNCHANGED sessionVars
  BY <1>2, <1>11 DEF sessionVars
<1> QED
  BY <1>3, <1>4, <1>5, <1>6, <1>7, <1>8, <1>9, <1>10, <1>11 DEF AnyTTLNext, SessionsNext

LEMMA LiveNodesStayAlways == AnyTTLSpec => LiveSessionsKeepEphemerals
<1>1. AllSessionsInv /\ [AnyTTLNext]_sessionVars => [LiveNodesStay]_sessionVars
  BY NextLiveNodesStay
<1>2. AnyTTLSpec => [][LiveNodesStay]_sessionVars
  BY <1>1, AllSessionsInvHolds, PTL DEF AnyTTLSpec
<1> QED
  BY <1>2 DEF LiveNodesStay, LiveSessionsKeepEphemerals

(***************************************************************************)
(* No Close, expiry or heartbeat of another session takes an ephemeral     *)
(* node from a session that lives: only deleteNode for that node does.     *)
(***************************************************************************)
THEOREM LiveSessionsTheorem == SessionsSpec => LiveSessionsKeepEphemerals
BY SessionsIsAnyTTL, LiveNodesStayAlways, PTL

=============================================================================
