------------------------- MODULE LockServiceProofs -------------------------
(***************************************************************************)
(* The composed lock service, for any number of clients, sessions and      *)
(* locks: its lock manager is the one of LockManager, so all that is       *)
(* proved there holds; and a client with a live session that was told it   *)
(* has a lock does have it.                                                *)
(***************************************************************************)
EXTENDS LockService, LockManagerProofs, SessionsProofs

\* A request's node belongs to its session.
NodesAreOwned ==
    \A r \in Request : HasNode(r) => nodes[path[r]].SessionID = SessionOf[r]

\* It stays until the request gives it up, its session ends or a client deletes it.
NodesAreKept ==
    \A r \in Request :
        /\ path[r] # Root /\ path[r] \notin ClientPath
        /\ pc[r] \notin GivenUp
        /\ Live(SessionOf[r])
        => Exists(path[r])

\* What a client knows against where its request is.
ClientsAreBehind ==
    /\ http \in [Request -> {"none", "sent", "held", "failed", "unlocking", "done"}]
    /\ \A r \in Request :
          /\ http[r] = "held" => pc[r] = "granted"
          /\ pc[r] \notin BeforeCreate \cup {"failed"} => path[r] # Root
          /\ pc[r] # "idle" => http[r] # "none"
          /\ http[r] # "none" => SessionOf[r] \in issued

\* The inductive invariant, with TableInv and LockInv.
ServiceInv ==
    /\ SessionsInv
    /\ NodesAreOwned
    /\ NodesAreKept
    /\ ClientsAreBehind

-----------------------------------------------------------------------------
\* Every step of the service is a step of the lock manager or none of its business.
LEMMA ServiceStepIsLockStep ==
    ASSUME closing \in Session \cup {NoSession}, [ServiceNext]_serviceVars
    PROVE  [LockNext]_lockVars
<1>1. CASE UNCHANGED serviceVars
  BY <1>1 DEF serviceVars, lockVars, storeVars, managerVars
<1>2. ASSUME NEW r \in Request,
             \/ SendTryLock(r) \/ TryLockReturns(r) \/ SendUnlock(r) \/ UnlockReturns(r)
             \/ GiveUp(r)
      PROVE  UNCHANGED lockVars
  BY <1>2 DEF SendTryLock, TryLockReturns, SendUnlock, UnlockReturns, GiveUp
<1>3. ASSUME NEW r \in Request, AcquireLock(r) \/ ServeTryLock(r) \/ ReleaseLock(r)
      PROVE  LockNext
  BY <1>3 DEF AcquireLock, ServeTryLock, ReleaseLock, LockNext
<1>4. CASE SessionStep
  <2>1. UNCHANGED storeVars
    BY <1>4, Zenon DEF SessionStep, CreateSession, Heartbeat, CloseSession, CheckExpirations, Tick
  <2> QED
    BY <1>4, <2>1 DEF SessionStep, lockVars
<1>5. CASE EndBy(closing, CloseOnExpire)
  <2>1. closing \in Session
    BY <1>5 DEF EndBy, CloseOnExpire, MutexFree
  <2>2. SessionEnds(closing)
    BY <1>5 DEF EndBy, CloseOnExpire, SessionEnds
  <2> QED
    BY <2>1, <2>2 DEF LockNext
<1>6. ASSUME NEW sid \in Session, EndBy(sid, OnExpire(sid))
      PROVE  LockNext
  BY <1>6 DEF EndBy, OnExpire, SessionEnds, LockNext
<1>7. CASE OtherStep
  BY <1>7 DEF OtherStep, LockNext
<1> QED
  BY <1>1, <1>2, <1>3, <1>4, <1>5, <1>6, <1>7 DEF ServiceNext

\* The session table is changed by its own operations only, and they keep TableInv.
LEMMA ServiceKeepsTable ==
    ASSUME TableInv, [ServiceNext]_serviceVars
    PROVE  TableInv'
<1>1. ASSUME UNCHANGED <<sessions, issued, closing, expiring, dropped>>
      PROVE  TableInv'
  BY <1>1 DEF TableInv, Live, CleanupOwed
<1>2. CASE UNCHANGED serviceVars
  BY <1>1, <1>2 DEF serviceVars
<1>3. ASSUME NEW r \in Request,
             \/ SendTryLock(r) \/ TryLockReturns(r) \/ SendUnlock(r) \/ UnlockReturns(r)
             \/ GiveUp(r) \/ AcquireLock(r) \/ ServeTryLock(r) \/ ReleaseLock(r)
      PROVE  TableInv'
  BY <1>1, <1>3 DEF SendTryLock, TryLockReturns, SendUnlock, UnlockReturns, GiveUp,
       AcquireLock, ServeTryLock, ReleaseLock, sessionsOnly
<1>4. CASE SessionStep
  <2>1. ASSUME NEW sid \in Session, NEW ttl \in TTLInput, CreateSession(sid, ttl)
        PROVE  TableInv'
    BY <2>1, CreateSessionKeepsTable, SessionsAssumption
  <2> QED
    BY <1>4, <2>1, HeartbeatKeepsTable, CloseSessionKeepsTable, CheckExpirationsKeepsTable,
       TickKeepsTable DEF SessionStep
<1>5. CASE EndBy(closing, CloseOnExpire)
  BY <1>5, OnExpireKeepsTable DEF EndBy
<1>6. ASSUME NEW sid \in Session, EndBy(sid, OnExpire(sid))
      PROVE  TableInv'
  BY <1>6, OnExpireKeepsTable DEF EndBy
<1>7. CASE OtherStep
  BY <1>1, <1>7 DEF OtherStep, sessionsOnly
<1> QED
  BY <1>2, <1>3, <1>4, <1>5, <1>6, <1>7 DEF ServiceNext

\* TableInv holds throughout.
LEMMA TableInvHolds == ServiceSpec => []TableInv
<1>1. ServiceInit => TableInv
  BY StoreAssumption DEF ServiceInit, SessionsInit, TableInv, CleanupOwed, Live
<1>2. TableInv /\ [ServiceNext]_serviceVars => TableInv'
  BY ServiceKeepsTable
<1> QED
  BY <1>1, <1>2, PTL DEF ServiceSpec

(***************************************************************************)
(* The composed service implements the lock manager's specification: what  *)
(* holds of every behaviour of LockManager, exclusion and FIFO order among *)
(* it, holds of the service with its sessions, handlers and clients.       *)
(***************************************************************************)
THEOREM ServiceRefinesLockManager == ServiceSpec => ImplementsLockManager
<1>1. ServiceInit => LockInit
  BY DEF ServiceInit
<1>2. TableInv /\ [ServiceNext]_serviceVars => [LockNext]_lockVars
  BY ServiceStepIsLockStep DEF TableInv
<1> QED
  BY <1>1, <1>2, TableInvHolds, PTL DEF ServiceSpec, LockSpec, ImplementsLockManager

(***************************************************************************)
(* The composed service implements FairLock: with sessions that expire,    *)
(* handlers that outlive their clients and answers that are lost, acquire  *)
(* calls are still granted in the order of their arrival at the store.     *)
(***************************************************************************)
THEOREM ServiceRefinesFairLock == ServiceSpec => ImplementsFairLock
BY ServiceRefinesLockManager, RefinementTheorem, PTL DEF ImplementsLockManager

-----------------------------------------------------------------------------
\* A step that leaves the store and the paths alone.
LEMMA QuietKeepsNodes ==
    ASSUME NodesAreOwned, NodesAreKept, UNCHANGED storeVars, path' = path,
           \A r \in Request : pc'[r] \notin GivenUp => pc[r] \notin GivenUp,
           \A r \in Request : path[r] # Root /\ Live(SessionOf[r])' => Live(SessionOf[r])
    PROVE  NodesAreOwned' /\ NodesAreKept'
BY DEF NodesAreOwned, NodesAreKept, HasNode, Exists, storeVars

\* A removal that takes the node of a request that gives up or has lost its
\* session, or a node that clients may delete.
LEMMA RemovalKeepsNodes ==
    ASSUME StoreTypeOK, NodesAreOwned, NodesAreKept,
           NEW D, nodes' = RemoveAll(D), path' = path, sessions' = sessions,
           \A r \in Request : pc'[r] \notin GivenUp => pc[r] \notin GivenUp,
           \A r \in Request : HasNode(r) /\ path[r] \in D =>
               pc'[r] \in GivenUp \/ ~Live(SessionOf[r]) \/ path[r] \in ClientPath
    PROVE  NodesAreOwned' /\ NodesAreKept'
<1>1. DOMAIN nodes' = DOMAIN nodes \ D
  BY DEF RemoveAll
<1>2. \A p \in DOMAIN nodes' : nodes'[p].SessionID = nodes[p].SessionID
  BY RemovalKeepsOwners
<1>3. NodesAreOwned'
  BY <1>1, <1>2 DEF NodesAreOwned, HasNode, Exists
<1>4. NodesAreKept'
  BY <1>1 DEF NodesAreKept, HasNode, Exists, Live
<1> QED
  BY <1>3, <1>4

\* The creation of a lock directory.
LEMMA DirCreationKeepsNodes ==
    ASSUME LockInv, NodesAreOwned, NodesAreKept,
           NEW d \in LockDirs, Create(d, NoData, FALSE, NoSession, FALSE),
           path' = path, sessions' = sessions,
           \A r \in Request : pc'[r] \notin GivenUp => pc[r] \notin GivenUp
    PROVE  NodesAreOwned' /\ NodesAreKept'
<1>1. DOMAIN nodes \subseteq DOMAIN nodes'
  BY DirCreationIsQuiet, Zenon
<1>2. ASSUME NEW r \in Request, path[r] # Root, path[r] \in DOMAIN nodes'
      PROVE  /\ path[r] \in DOMAIN nodes
             /\ nodes'[path[r]].SessionID = nodes[path[r]].SessionID
  <2>1. path[r] \in Path /\ parentPath(path[r]) = lockPath(r) /\ lockPath(r) \in Dirs
    BY <1>2, LockNodeFacts, Zenon DEF LockInv, QueueInv, NodesAreOwn, StoreInv, StoreTypeOK
  <2>2. path[r] # d
    BY <2>1, DirFacts
  <2>3. CASE Exists(d)
    BY <1>2, <2>3 DEF Create, ActualPath
  <2>4. CASE ~Exists(d)
    <3>1. nodes' = Insert(d, d, NewNode(NoData, FALSE, NoSession))
      BY <2>4 DEF Create, ActualPath
    <3>2. StoreTypeOK
      BY DEF LockInv, StoreInv
    <3>3. \A x \in DOMAIN nodes' : x # d => /\ x \in DOMAIN nodes
                                           /\ nodes'[x].SessionID = nodes[x].SessionID
      BY <3>1, <3>2, InsertionKeepsOwners, ZenonT(40)
    <3> QED
      BY <1>2, <2>2, <3>3
  <2> QED
    BY <2>3, <2>4
<1>3. NodesAreOwned'
  BY <1>2 DEF NodesAreOwned, HasNode, Exists
<1>4. NodesAreKept'
  BY <1>1 DEF NodesAreKept, Exists, Live
<1> QED
  BY <1>3, <1>4

\* The creation of a lock node.
LEMMA NodeCreationKeepsNodes ==
    ASSUME LockInv, NodesAreOwned, NodesAreKept, NEW r \in Request,
           CanCreate(LockNodeName(r), TRUE),
           Create(LockNodeName(r), r, TRUE, SessionOf[r], TRUE),
           path' = [path EXCEPT ![r] = ActualPath(LockNodeName(r), TRUE)],
           sessions' = sessions,
           \A x \in Request \ {r} : pc'[x] = pc[x]
    PROVE  NodesAreOwned' /\ NodesAreKept'
<1> DEFINE q == ActualPath(LockNodeName(r), TRUE)
           node == NewNode(r, TRUE, SessionOf[r])
<1>1. seqCounter \in Nat /\ StoreTypeOK
  BY DEF LockInv, StoreInv, StoreTypeOK
<1>2. q # Root /\ baseName(q) = <<"lock-", seqCounter + 1>>
  BY <1>1, LockNodeFacts, Zenon
<1>3. nodes' = Insert(LockNodeName(r), q, node)
  BY DEF CanCreate, Create, Exists
<1>4. node.SessionID = SessionOf[r]
  BY DEF NewNode
<1> HIDE DEF q, node
<1>5. /\ DOMAIN nodes' = DOMAIN nodes \cup {q} /\ nodes'[q] = node
      /\ path' = [path EXCEPT ![r] = q] /\ path \in [Request -> Path]
  BY <1>3 DEF Insert, q, LockInv
<1>6. \A x \in Request \ {r} : path'[x] = path[x] /\ path[x] # q
  <2> SUFFICES ASSUME NEW x \in Request \ {r}, path[x] = q PROVE FALSE
    BY <1>5
  <2>1. Sequence(x) \in 1..seqCounter
    BY <1>2 DEF LockInv, QueueInv, NodesAreOwn
  <2> QED
    BY <1>1, <1>2, <2>1 DEF Sequence
<1>7. \A x \in DOMAIN nodes : x # q => nodes'[x].SessionID = nodes[x].SessionID
  BY <1>1, <1>3, <1>5, InsertionKeepsOwners
<1>8. NodesAreOwned'
  <2> SUFFICES ASSUME NEW x \in Request, path'[x] # Root, path'[x] \in DOMAIN nodes'
               PROVE  nodes'[path'[x]].SessionID = SessionOf[x]
    BY Zenon DEF NodesAreOwned, HasNode, Exists
  <2>1. CASE x = r
    BY <1>4, <1>5, <2>1, Zenon
  <2>2. CASE x # r
    BY <1>5, <1>6, <1>7, <2>2 DEF NodesAreOwned, HasNode, Exists
  <2> QED
    BY <2>1, <2>2, Zenon
<1>9. NodesAreKept'
  <2> SUFFICES ASSUME NEW x \in Request, path'[x] # Root, path'[x] \notin ClientPath,
                      pc'[x] \notin GivenUp, SessionOf[x] \in DOMAIN sessions
               PROVE  path'[x] \in DOMAIN nodes'
    BY Zenon DEF NodesAreKept, Exists, Live
  <2>1. CASE x = r
    BY <1>5, <2>1, Zenon
  <2>2. CASE x # r
    BY <1>5, <1>6, <2>2 DEF NodesAreKept, Exists, Live
  <2> QED
    BY <2>1, <2>2, Zenon
<1> QED
  BY <1>8, <1>9

-----------------------------------------------------------------------------
\* What a step of TryLock does to the store, the paths and the other requests.
LEMMA TryLockEffect ==
    ASSUME LockInv, NEW r \in Request, TryLockStep(r)
    PROVE  /\ \A x \in Request \ {r} : pc'[x] = pc[x]
           /\ pc[r] \notin {"idle", "granted"}
           /\ pc'[r] \notin GivenUp => pc[r] \notin GivenUp
           /\ pc'[r] \notin BeforeCreate \cup {"failed"} =>
                 \/ pc[r] \notin BeforeCreate \cup {"failed"} /\ path' = path
                 \/ path' = [path EXCEPT ![r] = ActualPath(LockNodeName(r), TRUE)]
           /\ \/ UNCHANGED storeVars /\ path' = path
              \/ /\ nodes' = RemoveAll({path[r]}) /\ seqCounter' = seqCounter
                 /\ path' = path /\ pc'[r] \in GivenUp
              \/ /\ Create(lockPath(r), NoData, FALSE, NoSession, FALSE)
                 /\ path' = path
              \/ /\ CanCreate(LockNodeName(r), TRUE)
                 /\ Create(LockNodeName(r), r, TRUE, SessionOf[r], TRUE)
                 /\ path' = [path EXCEPT ![r] = ActualPath(LockNodeName(r), TRUE)]
                 /\ pc[r] = "create"
<1>0. pc \in [Request -> PC]
  BY DEF LockInv
<1> USE DEF GivenUp, BeforeCreate, Goto
<1>1. CASE EnsureDirExists(r)
  BY <1>0, <1>1 DEF EnsureDirExists
<1>2. CASE EnsureDirCreate(r)
  BY <1>0, <1>2, Zenon DEF EnsureDirCreate
<1>3. CASE CreateLockNode(r)
  BY <1>0, <1>3, Zenon DEF CreateLockNode
<1>4. CASE CheckLockAcquired(r)
  BY <1>0, <1>4 DEF CheckLockAcquired
<1>5. CASE Record(r)
  BY <1>0, <1>5 DEF Record
<1>6. CASE Abandon(r)
  BY <1>0, <1>6, Zenon DEF Abandon, DeleteOwnNode, Delete
<1>7. CASE Register(r)
  BY <1>0, <1>7 DEF Register
<1>8. CASE Wakeup(r)
  BY <1>0, <1>8 DEF Wakeup
<1>9. CASE TimerFires(r)
  BY <1>0, <1>9 DEF TimerFires
<1>10. CASE RecheckLockAcquired(r)
  BY <1>0, <1>10 DEF RecheckLockAcquired
<1>11. CASE RecordLate(r)
  BY <1>0, <1>11 DEF RecordLate
<1>12. CASE AbandonLate(r)
  BY <1>0, <1>12, Zenon DEF AbandonLate, DeleteOwnNode, Delete
<1>13. CASE Deregister(r)
  BY <1>0, <1>13, Zenon DEF Deregister
<1> QED
  BY <1>1, <1>2, <1>3, <1>4, <1>5, <1>6, <1>7, <1>8, <1>9, <1>10, <1>11, <1>12, <1>13, Zenon
     DEF TryLockStep

\* The creation of a node that is not ephemeral.
LEMMA DirCreationKeepsInv ==
    ASSUME SessionsInv, NEW d \in LockDirs, Create(d, NoData, FALSE, NoSession, FALSE),
           UNCHANGED <<sessions, issued, closing, expiring, dropped, late>>
    PROVE  SessionsInv'
<1> DEFINE node == NewNode(NoData, FALSE, NoSession)
<1>1. d \in Path /\ ActualPath(d, FALSE) = d
  BY DirFacts DEF ActualPath
<1>2. StoreInv'
  BY <1>1, CreateKeepsTree, Zenon DEF SessionsInv
<1>3. StoreTypeOK
  BY DEF SessionsInv, StoreInv
<1>4. ~node.Ephemeral
  BY DEF NewNode
<1>5. CASE Exists(d)
  <2>1. nodes' = nodes
    BY <1>1, <1>5, Zenon DEF Create
  <2> QED
    BY <1>2, <2>1 DEF SessionsInv, LeaksAreKnown, Live, CleanupOwed
<1>6. CASE ~Exists(d)
  <2>1. nodes' = Insert(d, d, node)
    BY <1>1, <1>6, Zenon DEF Create
  <2> HIDE DEF node
  <2>2. nodes'[d] = node
    BY <2>1 DEF Insert
  <2>3. \A x \in DOMAIN nodes' : nodes'[x].Ephemeral =>
            /\ x \in DOMAIN nodes /\ nodes[x].Ephemeral
            /\ nodes'[x].SessionID = nodes[x].SessionID
    BY <1>3, <1>4, <2>1, <2>2, InsertionKeepsOwners
  <2>4. LeaksAreKnown'
    BY <2>3 DEF SessionsInv, LeaksAreKnown, Live, CleanupOwed
  <2> QED
    BY <1>2, <2>3, <2>4 DEF SessionsInv
<1> QED
  BY <1>5, <1>6

\* The steps of TryLock keep the invariant.
LEMMA ServeTryLockKeepsInv ==
    ASSUME ServiceInv, LockInv, LockInv', NEW r \in Request, ServeTryLock(r)
    PROVE  ServiceInv'
<1>1. /\ TryLockStep(r)
      /\ UNCHANGED <<sessions, issued, closing, expiring, registering, dropped, http>>
      /\ IF path'[r] # path[r] THEN NoteCreated(SessionOf[r], path'[r]) ELSE UNCHANGED late
  BY DEF ServeTryLock
<1>2. /\ \A x \in Request \ {r} : pc'[x] = pc[x]
      /\ pc[r] \notin {"idle", "granted"}
      /\ \A x \in Request : pc'[x] \notin GivenUp => pc[x] \notin GivenUp
  BY <1>1, TryLockEffect, Zenon
<1>3. ClientsAreBehind'
  <2>1. /\ \A x \in Request \ {r} : path'[x] = path[x]
        /\ path[r] # Root => path'[r] # Root
        /\ pc'[r] \notin BeforeCreate \cup {"failed"} => path'[r] # Root
    <3>1. seqCounter \in Nat /\ path \in [Request -> Path]
      BY DEF LockInv, StoreInv, StoreTypeOK
    <3>2. ActualPath(LockNodeName(r), TRUE) # Root
      BY <3>1, LockNodeFacts, Zenon
    <3> QED
      BY <1>1, <3>1, <3>2, TryLockEffect, Zenon DEF ServiceInv, ClientsAreBehind
  <2> QED
    BY <1>1, <1>2, <2>1, Zenon DEF ServiceInv, ClientsAreBehind
<1>4. StoreInv' /\ StoreTypeOK
  BY DEF LockInv, StoreInv
<1>5. CASE UNCHANGED storeVars /\ path' = path
  <2>1. SessionsInv'
    BY <1>1, <1>5, ManagerStepKeepsInv DEF ServiceInv, SessionsInv, Live, CleanupOwed
  <2>2. NodesAreOwned' /\ NodesAreKept'
    BY <1>1, <1>2, <1>5, QuietKeepsNodes DEF ServiceInv, Live
  <2> QED
    BY <1>3, <2>1, <2>2 DEF ServiceInv
<1>6. CASE nodes' = RemoveAll({path[r]}) /\ path' = path /\ pc'[r] \in GivenUp
  <2>1. SessionsInv'
    BY <1>1, <1>4, <1>6, RemovalKeepsInv DEF ServiceInv
  <2>2. \A x \in Request : HasNode(x) /\ path[x] \in {path[r]} => x = r
    BY DEF LockInv, QueueInv, NodesAreOwn, HasNode
  <2>3. NodesAreOwned' /\ NodesAreKept'
    BY <1>1, <1>2, <1>4, <1>6, <2>2, RemovalKeepsNodes, Zenon DEF ServiceInv
  <2> QED
    BY <1>3, <2>1, <2>3 DEF ServiceInv
<1>7. CASE Create(lockPath(r), NoData, FALSE, NoSession, FALSE) /\ path' = path
  <2>1. lockPath(r) \in LockDirs
    BY LockAssumption DEF lockPath, LockDirs
  <2>2. SessionsInv'
    BY <1>1, <1>7, <2>1, DirCreationKeepsInv, Zenon DEF ServiceInv
  <2>3. NodesAreOwned' /\ NodesAreKept'
    BY <1>1, <1>2, <1>7, <2>1, DirCreationKeepsNodes, Zenon DEF ServiceInv
  <2> QED
    BY <1>3, <2>2, <2>3 DEF ServiceInv
<1>8. CASE /\ CanCreate(LockNodeName(r), TRUE)
           /\ Create(LockNodeName(r), r, TRUE, SessionOf[r], TRUE)
           /\ path' = [path EXCEPT ![r] = ActualPath(LockNodeName(r), TRUE)]
           /\ pc[r] = "create"
  <2>1. /\ LockNodeName(r) \in Path /\ r \in Data /\ SessionOf[r] \in Session
        /\ ActualPath(LockNodeName(r), TRUE) # Root
    BY LockNodeFacts, LockAssumption, Zenon DEF LockInv, StoreInv, StoreTypeOK
  <2>2. path[r] = Root /\ path'[r] = ActualPath(LockNodeName(r), TRUE)
    BY <1>8 DEF LockInv, QueueInv, NodesAreOwn, BeforeCreate
  <2>3. NoteCreated(SessionOf[r], ActualPath(LockNodeName(r), TRUE))
    BY <1>1, <2>1, <2>2, Zenon DEF NoteCreated
  <2>4. SessionsInv'
    BY <1>1, <1>8, <2>1, <2>3, CreationKeepsInv, Zenon DEF ServiceInv
  <2>5. NodesAreOwned' /\ NodesAreKept'
    BY <1>1, <1>2, <1>8, NodeCreationKeepsNodes, Zenon DEF ServiceInv
  <2> QED
    BY <1>3, <2>4, <2>5 DEF ServiceInv
<1> QED
  BY <1>1, <1>5, <1>6, <1>7, <1>8, TryLockEffect, Zenon

-----------------------------------------------------------------------------
\* The clients' own steps and the start of acquireLock: the nodes and the sessions
\* stay as they are.
LEMMA ClientStepKeepsInv ==
    ASSUME ServiceInv, LockInv, NEW r \in Request,
           \/ SendTryLock(r) \/ TryLockReturns(r) \/ SendUnlock(r) \/ UnlockReturns(r)
           \/ GiveUp(r) \/ AcquireLock(r)
    PROVE  ServiceInv'
<1>1. UNCHANGED storeVars /\ path' = path /\ UNCHANGED sessionsOnly
  BY Zenon DEF SendTryLock, TryLockReturns, SendUnlock, UnlockReturns, GiveUp, AcquireLock, Call,
       lockVars, managerVars
<1>2. /\ pc \in [Request -> PC]
      /\ http \in [Request -> {"none", "sent", "held", "failed", "unlocking", "done"}]
  BY DEF LockInv, ServiceInv, ClientsAreBehind
<1>3. \A x \in Request : \/ pc'[x] = pc[x]
                         \/ pc[x] = "idle" /\ pc'[x] = "exists" /\ http'[x] # "none"
  BY <1>2 DEF SendTryLock, TryLockReturns, SendUnlock, UnlockReturns, GiveUp, AcquireLock,
       Call, Goto, lockVars, managerVars
<1>4. SessionsInv'
  BY <1>1, ManagerStepKeepsInv DEF ServiceInv, SessionsInv, Live, CleanupOwed, sessionsOnly
<1>5. NodesAreOwned' /\ NodesAreKept'
  BY <1>1, <1>3, QuietKeepsNodes DEF ServiceInv, Live, sessionsOnly, GivenUp
<1>6. /\ http' \in [Request -> {"none", "sent", "held", "failed", "unlocking", "done"}]
      /\ \A x \in Request : /\ http[x] # "none" => http'[x] # "none"
                            /\ http'[x] # "none" => http[x] # "none" \/ SessionOf[x] \in issued
                            /\ http'[x] = "held" => http[x] = "held" \/ pc[x] = "granted"
  BY <1>2 DEF SendTryLock, TryLockReturns, SendUnlock, UnlockReturns, GiveUp, AcquireLock, Answer
<1>7. \A x \in Request : http'[x] = "held" => pc'[x] = "granted"
  BY <1>3, <1>6 DEF ServiceInv, ClientsAreBehind
<1>8. ClientsAreBehind'
  BY <1>1, <1>3, <1>6, <1>7, Zenon DEF ServiceInv, ClientsAreBehind, sessionsOnly, BeforeCreate
<1> QED
  BY <1>4, <1>5, <1>8 DEF ServiceInv

\* releaseLock: the node that goes is that of a client that has called Unlock.
LEMMA ReleaseLockKeepsInv ==
    ASSUME ServiceInv, LockInv, LockInv', NEW r \in Request, ReleaseLock(r)
    PROVE  ServiceInv'
<1>0. pc \in [Request -> PC]
  BY DEF LockInv
<1>1. /\ http[r] \in {"unlocking", "done"} /\ http' = http /\ UNCHANGED sessionsOnly
      /\ path' = path
      /\ \A x \in Request \ {r} : pc'[x] = pc[x]
      /\ pc[r] \in {"granted", "unlock"}
  BY <1>0 DEF ReleaseLock, UnlockForget, UnlockDelete, Goto
<1>2. \A x \in Request : pc'[x] \notin GivenUp => pc[x] \notin GivenUp
  BY <1>1 DEF GivenUp
<1>3. ClientsAreBehind'
  BY <1>1 DEF ServiceInv, ClientsAreBehind, sessionsOnly, BeforeCreate
<1>4. StoreInv' /\ StoreTypeOK
  BY DEF LockInv, StoreInv
<1>5. CASE UNCHANGED storeVars
  <2>1. SessionsInv'
    BY <1>1, <1>5, ManagerStepKeepsInv, Zenon
       DEF ServiceInv, SessionsInv, Live, CleanupOwed, sessionsOnly
  <2>2. NodesAreOwned' /\ NodesAreKept'
    BY <1>1, <1>2, <1>5, QuietKeepsNodes DEF ServiceInv, Live, sessionsOnly
  <2> QED
    BY <1>3, <2>1, <2>2 DEF ServiceInv
<1>6. CASE nodes' = RemoveAll({path[r]}) /\ pc'[r] \in GivenUp
  <2>1. SessionsInv'
    BY <1>1, <1>4, <1>6, RemovalKeepsInv DEF ServiceInv, sessionsOnly
  <2>2. \A x \in Request : HasNode(x) /\ path[x] \in {path[r]} => x = r
    BY DEF LockInv, QueueInv, NodesAreOwn, HasNode
  <2>3. NodesAreOwned' /\ NodesAreKept'
    BY <1>1, <1>2, <1>4, <1>6, <2>2, RemovalKeepsNodes DEF ServiceInv, sessionsOnly
  <2> QED
    BY <1>3, <2>1, <2>3 DEF ServiceInv
<1> QED
  BY <1>0, <1>5, <1>6, Zenon DEF ReleaseLock, UnlockForget, UnlockDelete, DeleteOwnNode, Delete, Goto,
       GivenUp

\* Sessions begin, are renewed and end.  A request has no node before its session
\* has been issued, so a new session owns none.
LEMMA SessionStepKeepsInv ==
    ASSUME ServiceInv, LockInv, TableInv, TableInv', SessionStep
    PROVE  ServiceInv'
<1> DEFINE Effect ==
        /\ UNCHANGED storeVars /\ issued \subseteq issued' /\ late' = late
        /\ dropped \subseteq dropped'
        /\ \A sid \in issued : Live(sid)' => Live(sid)
        /\ \A sid \in Session : Live(sid) \/ CleanupOwed(sid)
              => Live(sid)' \/ CleanupOwed(sid)' \/ sid \in dropped'
<1>1. Effect
  <2> USE DEF Live, CleanupOwed, historyVars
  <2>1. ASSUME NEW sid \in Session, NEW ttl \in TTLInput, CreateSession(sid, ttl)
        PROVE  Effect
    BY <2>1 DEF CreateSession
  <2>2. ASSUME NEW sid \in Session, Heartbeat(sid) PROVE Effect
    BY <2>2 DEF Heartbeat, Forget
  <2>3. ASSUME NEW sid \in Session, CloseSession(sid) PROVE Effect
    BY <2>3, StoreAssumption DEF CloseSession, Forget, MutexFree
  <2>4. CASE CheckExpirations
    BY <2>4 DEF CheckExpirations, Forget
  <2>5. CASE Tick
    BY <2>5 DEF Tick
  <2> QED
    BY <2>1, <2>2, <2>3, <2>4, <2>5 DEF SessionStep
<1>2. UNCHANGED <<pc, path, http>>
  BY DEF SessionStep, managerVars
<1>3. SessionsInv'
  BY <1>1, ManagerStepKeepsInv DEF ServiceInv, TableInv
<1>4. \A r \in Request : path[r] # Root => SessionOf[r] \in issued
  BY DEF ServiceInv, ClientsAreBehind, LockInv, QueueInv, NodesAreOwn, BeforeCreate
<1>5. \A r \in Request : path[r] # Root /\ Live(SessionOf[r])' => Live(SessionOf[r])
  BY <1>1, <1>4
<1>6. NodesAreOwned' /\ NodesAreKept'
  BY <1>1, <1>2, <1>5, QuietKeepsNodes DEF ServiceInv
<1>7. ClientsAreBehind'
  BY <1>1, <1>2, Zenon DEF ServiceInv, ClientsAreBehind
<1> QED
  BY <1>3, <1>6, <1>7 DEF ServiceInv

\* onExpire: the nodes that go belong to a session that has ended.
LEMMA CleanupKeepsServiceInv ==
    ASSUME ServiceInv, LockInv, NEW sid \in Session, ~Live(sid), DeleteEphemerals(sid),
           UNCHANGED <<sessions, issued, historyVars, pc, path, http>>,
           \A s \in Session \ {sid} : CleanupOwed(s) => CleanupOwed(s)'
    PROVE  ServiceInv'
<1>1. SessionsInv'
  BY CleanupKeepsInv DEF ServiceInv
<1>2. nodes' = RemoveAll(EphemeralsOf(sid)) /\ StoreTypeOK
  BY DEF DeleteEphemerals, LockInv, StoreInv
<1>3. \A r \in Request : HasNode(r) /\ path[r] \in EphemeralsOf(sid) => ~Live(SessionOf[r])
  BY DEF ServiceInv, NodesAreOwned, EphemeralsOf
<1>4. NodesAreOwned' /\ NodesAreKept'
  BY <1>2, <1>3, RemovalKeepsNodes DEF ServiceInv
<1>5. ClientsAreBehind'
  BY Zenon DEF ServiceInv, ClientsAreBehind
<1> QED
  BY <1>1, <1>4, <1>5 DEF ServiceInv

\* The goroutines of deletions, and what clients do to the nodes of ClientPath.
LEMMA OtherStepKeepsInv ==
    ASSUME ServiceInv, LockInv, LockInv', OtherStep
    PROVE  ServiceInv'
<1>1. UNCHANGED sessionsOnly /\ UNCHANGED <<pc, path, http>>
  BY Zenon DEF OtherStep, OnNodeDeleted, ClientCreates, ClientDeletes, managerVars
<1>2. ClientsAreBehind'
  BY <1>1 DEF ServiceInv, ClientsAreBehind, sessionsOnly
<1>3. ASSUME NEW p \in callbacks, OnNodeDeleted(p) PROVE ServiceInv'
  <2>1. UNCHANGED storeVars
    BY <1>3 DEF OnNodeDeleted
  <2>2. SessionsInv'
    BY <1>1, <2>1, ManagerStepKeepsInv
       DEF ServiceInv, SessionsInv, Live, CleanupOwed, sessionsOnly
  <2>3. NodesAreOwned' /\ NodesAreKept'
    BY <1>1, <2>1, QuietKeepsNodes DEF ServiceInv, Live, sessionsOnly
  <2> QED
    BY <1>2, <2>2, <2>3 DEF ServiceInv
<1>4. ASSUME NEW p \in ClientPath \cap LockDirs, ClientCreates(p) PROVE ServiceInv'
  <2>1. Create(p, NoData, FALSE, NoSession, FALSE) /\ p \in LockDirs
    BY <1>4, Zenon DEF ClientCreates
  <2>2. SessionsInv'
    BY <1>1, <2>1, DirCreationKeepsInv, Zenon DEF ServiceInv, sessionsOnly
  <2>3. NodesAreOwned' /\ NodesAreKept'
    BY <1>1, <2>1, DirCreationKeepsNodes, Zenon DEF ServiceInv, sessionsOnly
  <2> QED
    BY <1>2, <2>2, <2>3 DEF ServiceInv
<1>5. ASSUME NEW p \in ClientPath, ClientDeletes(p) PROVE ServiceInv'
  <2>1. nodes' = RemoveAll({p}) /\ StoreInv' /\ StoreTypeOK
    BY <1>5 DEF ClientDeletes, Delete, LockInv, StoreInv
  <2>2. SessionsInv'
    BY <1>1, <2>1, RemovalKeepsInv DEF ServiceInv, sessionsOnly
  <2>3. NodesAreOwned' /\ NodesAreKept'
    BY <1>1, <2>1, RemovalKeepsNodes DEF ServiceInv, sessionsOnly
  <2> QED
    BY <1>2, <2>2, <2>3 DEF ServiceInv
<1> QED
  BY <1>3, <1>4, <1>5 DEF OtherStep

\* Every step of the service keeps the invariant.
LEMMA NextServiceInv ==
    ASSUME ServiceInv, LockInv, LockInv', TableInv, TableInv', [ServiceNext]_serviceVars
    PROVE  ServiceInv'
<1>1. ASSUME NEW r \in Request,
             \/ SendTryLock(r) \/ TryLockReturns(r) \/ SendUnlock(r) \/ UnlockReturns(r)
             \/ GiveUp(r) \/ AcquireLock(r)
      PROVE  ServiceInv'
  BY <1>1, ClientStepKeepsInv
<1>2. ASSUME NEW r \in Request, ServeTryLock(r) PROVE ServiceInv'
  BY <1>2, ServeTryLockKeepsInv
<1>3. ASSUME NEW r \in Request, ReleaseLock(r) PROVE ServiceInv'
  BY <1>3, ReleaseLockKeepsInv
<1>4. CASE SessionStep
  BY <1>4, SessionStepKeepsInv
<1>5. CASE EndBy(closing, CloseOnExpire)
  <2>1. closing \in Session /\ ~Live(closing)
    BY <1>5 DEF EndBy, CloseOnExpire, MutexFree, TableInv, CleanupOwed
  <2>2. /\ DeleteEphemerals(closing)
        /\ UNCHANGED <<sessions, issued, historyVars, pc, path, http>>
        /\ \A s \in Session \ {closing} : CleanupOwed(s) => CleanupOwed(s)'
    BY <1>5 DEF EndBy, CloseOnExpire, CleanupOwed
  <2> QED
    BY <2>1, <2>2, CleanupKeepsServiceInv
<1>6. ASSUME NEW sid \in Session, EndBy(sid, OnExpire(sid)) PROVE ServiceInv'
  <2>1. ~Live(sid)
    BY <1>6 DEF EndBy, OnExpire, TableInv, CleanupOwed
  <2>2. /\ DeleteEphemerals(sid)
        /\ UNCHANGED <<sessions, issued, historyVars, pc, path, http>>
        /\ \A s \in Session \ {sid} : CleanupOwed(s) => CleanupOwed(s)'
    BY <1>6 DEF EndBy, OnExpire, CleanupOwed
  <2> QED
    BY <2>1, <2>2, CleanupKeepsServiceInv
<1>7. CASE OtherStep
  BY <1>7, OtherStepKeepsInv
<1>8. CASE UNCHANGED serviceVars
  <2>1. /\ UNCHANGED storeVars /\ UNCHANGED <<pc, path, http>>
        /\ UNCHANGED <<sessions, issued, closing, expiring, dropped, late>>
    BY <1>8 DEF serviceVars, storeVars
  <2>2. SessionsInv'
    BY <2>1, ManagerStepKeepsInv DEF ServiceInv, SessionsInv, Live, CleanupOwed
  <2>3. NodesAreOwned' /\ NodesAreKept'
    BY <2>1, QuietKeepsNodes DEF ServiceInv, Live
  <2>4. ClientsAreBehind'
    BY <2>1 DEF ServiceInv, ClientsAreBehind
  <2> QED
    BY <2>2, <2>3, <2>4 DEF ServiceInv
<1> QED
  BY <1>1, <1>2, <1>3, <1>4, <1>5, <1>6, <1>7, <1>8 DEF ServiceNext

\* Initially no request has been sent.
LEMMA InitServiceInv == ServiceInit => ServiceInv
<1> SUFFICES ASSUME ServiceInit PROVE ServiceInv
  OBVIOUS
<1>1. SessionsInv
  BY InitSessionsInv DEF ServiceInit
<1>2. NodesAreOwned /\ NodesAreKept
  BY DEF ServiceInit, LockInit, NodesAreOwned, NodesAreKept, HasNode
<1>3. ClientsAreBehind
  BY DEF ServiceInit, LockInit, ClientsAreBehind, BeforeCreate
<1> QED
  BY <1>1, <1>2, <1>3 DEF ServiceInv

\* The invariant holds throughout: LockInv comes from LockManagerProofs by refinement.
LEMMA ServiceInvHolds == ServiceSpec => [](ServiceInv /\ LockInv)
<1>1. ServiceSpec => []LockInv
  BY ServiceRefinesLockManager, LockInvHolds, PTL DEF ImplementsLockManager
<1>2. ServiceInv /\ LockInv /\ LockInv' /\ TableInv /\ TableInv' /\ [ServiceNext]_serviceVars
          => ServiceInv'
  BY NextServiceInv
<1> QED
  BY <1>1, <1>2, InitServiceInv, TableInvHolds, PTL DEF ServiceSpec

-----------------------------------------------------------------------------
(***************************************************************************)
(* A client that TryLock gave a lock holds it until it calls Unlock or its *)
(* session ends, for any number of clients, sessions and locks, and        *)
(* whatever answers are lost or late (clients that delete the node itself  *)
(* through the API aside).                                                 *)
(***************************************************************************)
THEOREM BeliefsTheorem == ServiceSpec => []BeliefsAreTrue
<1>1. ServiceInv => BeliefsAreTrue
  BY DEF ServiceInv, ClientsAreBehind, NodesAreKept, BeliefsAreTrue, Holds, HasNode,
       Acquired, GivenUp, BeforeCreate
<1> QED
  BY <1>1, ServiceInvHolds, PTL

(***************************************************************************)
(* No two clients with live sessions believe that they hold the same lock. *)
(***************************************************************************)
THEOREM ClientExclusionTheorem == ServiceSpec => []ClientExclusion
<1>1. BeliefsAreTrue /\ MutualExclusion => ClientExclusion
  BY DEF BeliefsAreTrue, MutualExclusion, ClientExclusion
<1> QED
  BY <1>1, BeliefsTheorem, ServiceRefinesLockManager, MutualExclusionTheorem, PTL
     DEF ImplementsLockManager

\* A client that was given a lock, and whose session lives, has no older request
\* for the lock before it in the queue.
ClientsInOrder ==
    \A r, q \in Request :
        /\ http[r] = "held" /\ Live(SessionOf[r]) /\ path[r] \notin ClientPath
        /\ HasNode(q) /\ NameOf[r] = NameOf[q]
        => Sequence(r) <= Sequence(q)

(***************************************************************************)
(* FIFO order as the clients see it: when TryLock has returned a lock to a *)
(* client, every request for it that came earlier has left the queue, also *)
(* one whose client has given up and whose handler still runs.             *)
(***************************************************************************)
THEOREM ClientOrderTheorem == ServiceSpec => []ClientsInOrder
<1>1. BeliefsAreTrue /\ NoOvertaking => ClientsInOrder
  BY DEF BeliefsAreTrue, NoOvertaking, ClientsInOrder
<1> QED
  BY <1>1, BeliefsTheorem, ServiceRefinesLockManager, FIFOTheorem, PTL
     DEF ImplementsLockManager

(***************************************************************************)
(* The lock nodes of the service leak in the two ways of LeaksAreKnown     *)
(* only: the session was dropped by a late heartbeat, or TryLock created   *)
(* the node after the session had been cleaned up.                         *)
(***************************************************************************)
THEOREM ServiceLeaksTheorem == ServiceSpec => []LeaksAreKnown
<1>1. ServiceInv => LeaksAreKnown
  BY DEF ServiceInv, SessionsInv
<1> QED
  BY <1>1, ServiceInvHolds, PTL

-----------------------------------------------------------------------------
\* The paths of the nodes that came too late are paths of lock nodes.
LEMMA ServiceKeepsCreated ==
    ASSUME CreatedInv, LockInv', [ServiceNext]_serviceVars
    PROVE  CreatedInv'
<1>1. ASSUME UNCHANGED <<registering, late>> PROVE CreatedInv'
  BY <1>1 DEF CreatedInv
<1>2. CASE UNCHANGED serviceVars
  BY <1>1, <1>2 DEF serviceVars
<1>3. ASSUME NEW r \in Request,
             \/ SendTryLock(r) \/ TryLockReturns(r) \/ SendUnlock(r) \/ UnlockReturns(r)
             \/ GiveUp(r) \/ AcquireLock(r) \/ ReleaseLock(r)
      PROVE  CreatedInv'
  BY <1>1, <1>3 DEF SendTryLock, TryLockReturns, SendUnlock, UnlockReturns, GiveUp,
       AcquireLock, ReleaseLock, sessionsOnly
<1>4. ASSUME NEW r \in Request, ServeTryLock(r) PROVE CreatedInv'
  <2>1. path'[r] \in Path
    BY DEF LockInv
  <2>2. late' \subseteq late \cup {path'[r]} /\ registering' = registering
    BY <1>4 DEF ServeTryLock, NoteCreated
  <2> QED
    BY <2>1, <2>2 DEF CreatedInv
<1>5. CASE SessionStep
  BY <1>1, <1>5, Zenon DEF SessionStep, CreateSession, Heartbeat, CloseSession,
       CheckExpirations, Tick, historyVars
<1>6. CASE EndBy(closing, CloseOnExpire) \/ \E sid \in Session : EndBy(sid, OnExpire(sid))
  BY <1>1, <1>6, Zenon DEF EndBy, CloseOnExpire, OnExpire, historyVars
<1>7. CASE OtherStep
  BY <1>1, <1>7 DEF OtherStep, sessionsOnly
<1> QED
  BY <1>2, <1>3, <1>4, <1>5, <1>6, <1>7 DEF ServiceNext

(***************************************************************************)
(* The state of the server and what its clients know of it keep their      *)
(* types, in every interleaving of handlers, sessions and clients.         *)
(***************************************************************************)
THEOREM ServiceTypeTheorem == ServiceSpec => []ServiceTypeOK
<1>1. ServiceSpec => []LockTypeOK
  BY ServiceRefinesLockManager, LockTypeTheorem, PTL DEF ImplementsLockManager
<1>2. ServiceInit => CreatedInv
  BY DEF ServiceInit, SessionsInit, CreatedInv
<1>3. CreatedInv /\ LockInv' /\ [ServiceNext]_serviceVars => CreatedInv'
  BY ServiceKeepsCreated
<1>4. ServiceSpec => []CreatedInv
  BY <1>2, <1>3, ServiceInvHolds, PTL DEF ServiceSpec
<1>5. ServiceInv /\ TableInv /\ CreatedInv => SessionsTypeOK
  BY SessionsTypes DEF ServiceInv, AllSessionsInv
<1>6. LockTypeOK /\ SessionsTypeOK /\ ServiceInv => ServiceTypeOK
  BY DEF ServiceTypeOK, ServiceInv, ClientsAreBehind
<1> QED
  BY <1>1, <1>4, <1>5, <1>6, ServiceInvHolds, TableInvHolds, PTL

=============================================================================
