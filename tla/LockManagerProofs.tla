------------------------- MODULE LockManagerProofs -------------------------
(***************************************************************************)
(* Proof that the lock manager excludes and orders its requests, for any   *)
(* number of requests, locks and sessions, whatever the interleaving.      *)
(*                                                                         *)
(* The argument: a lock's directory changes in two ways only.  A new lock- *)
(* node takes a sequence number above all earlier ones, and nodes are      *)
(* removed.  Neither can put a child in front of one that was first, so    *)
(* the answer of checkLockAcquired never becomes stale while the node      *)
(* exists.  With the invariant that says so, the manager implements        *)
(* FairLock, step by step.                                                 *)
(***************************************************************************)
EXTENDS LockNames, StoreProofs, WellFoundedInduction

Dirs == {LockDir(l) : l \in Lock}

\* The inductive invariant.
LockInv ==
    /\ StoreInv
    /\ pc \in [Request -> PC]
    /\ path \in [Request -> Path]
    /\ QueueInv
    /\ NoNodeLeftBehind

-----------------------------------------------------------------------------
\* Where /locks and the lock directories lie: no directory lies inside another lock's.
LEMMA DirFacts ==
    /\ LocksDir \in Path /\ LocksDir # Root /\ parentPath(LocksDir) = Root
    /\ \A l \in Lock : /\ LockDir(l) \in Path
                      /\ LockDir(l) # Root
                      /\ parentPath(LockDir(l)) = LocksDir
                      /\ baseName(LockDir(l)) = <<l, 0>>
    /\ Root \notin Dirs /\ LocksDir \notin Dirs
    /\ \A d \in LockDirs : d \in Path /\ d # Root /\ parentPath(d) \notin Dirs
<1>1. Root \in Path /\ <<"locks", 0>> \in Name
  BY LockAssumption DEF Root, Path, Name
<1>2. LocksDir = Child(Root, <<"locks", 0>>)
  BY DEF LocksDir, Child, Root
<1>3. LocksDir \in Path /\ LocksDir # Root /\ parentPath(LocksDir) = Root
  BY <1>1, <1>2, ChildFacts
<1>4. ASSUME NEW l \in Lock
      PROVE  /\ LockDir(l) \in Path
             /\ LockDir(l) # Root
             /\ parentPath(LockDir(l)) = LocksDir
             /\ baseName(LockDir(l)) = <<l, 0>>
  <2>1. <<l, 0>> \in Name
    BY LockAssumption DEF Name
  <2> QED
    BY <1>3, <2>1, ChildFacts DEF LockDir
<1>5. LocksDir \notin Dirs /\ Root \notin Dirs
  BY <1>3, <1>4 DEF Dirs
<1> QED
  BY <1>3, <1>4, <1>5 DEF LockDirs, Dirs

\* Where TryLock creates its node, and the name Create gives it.
LEMMA LockNodeFacts ==
    ASSUME NEW r \in Request, seqCounter \in Nat
    PROVE  LET q == ActualPath(LockNodeName(r), TRUE) IN
           /\ lockPath(r) \in Dirs /\ lockPath(r) \in Path /\ lockPath(r) # Root
           /\ LockNodeName(r) \in Path /\ LockNodeName(r) # Root
           /\ parentPath(LockNodeName(r)) = lockPath(r)
           /\ q \in Path /\ q # Root
           /\ parentPath(q) = lockPath(r)
           /\ baseName(q) = <<"lock-", seqCounter + 1>>
<1> DEFINE n == <<"lock-", seqCounter + 1>>
<1>1. NameOf[r] \in Lock
  BY LockAssumption
<1>2. lockPath(r) \in Path /\ lockPath(r) # Root /\ lockPath(r) \in Dirs
  BY <1>1, DirFacts DEF lockPath, Dirs
<1>3. <<"lock-", 0>> \in Name /\ n \in Name /\ <<"lock-", 0>>[1] = "lock-"
  BY LockAssumption DEF Name
<1>4. /\ LockNodeName(r) \in Path /\ LockNodeName(r) # Root
      /\ parentPath(LockNodeName(r)) = lockPath(r)
      /\ baseName(LockNodeName(r)) = <<"lock-", 0>>
  BY <1>2, <1>3, ChildFacts DEF LockNodeName
<1>5. ActualPath(LockNodeName(r), TRUE) = Child(lockPath(r), n)
  BY <1>3, <1>4 DEF ActualPath, WithSequence
<1>6. /\ Child(lockPath(r), n) \in Path
      /\ Child(lockPath(r), n) # Root
      /\ parentPath(Child(lockPath(r), n)) = lockPath(r)
      /\ baseName(Child(lockPath(r), n)) = n
  BY <1>2, <1>3, ChildFacts
<1> QED
  BY <1>2, <1>4, <1>5, <1>6, Zenon

-----------------------------------------------------------------------------
(***************************************************************************)
(* A step that adds nothing to the lock directories and draws no sequence  *)
(* number keeps QueueInv: every step but the creation of a lock node.      *)
(***************************************************************************)
LEMMA QuietStepKeepsQueue ==
    ASSUME LockInv, StoreInv', seqCounter' = seqCounter, path' = path,
           \A p \in DOMAIN nodes' \ {Root} : parentPath(p) \in Dirs =>
               p \in DOMAIN nodes /\ nodes'[p].Ephemeral = nodes[p].Ephemeral,
           \A d \in Dirs : d \in DOMAIN nodes /\ d \in DOMAIN nodes' =>
               nodes'[d].Children \subseteq nodes[d].Children,
           \A r \in Request : pc'[r] \in BeforeCreate => pc[r] \in BeforeCreate,
           \A r \in Request : pc'[r] \in Acquired => pc[r] \in Acquired \/ IsFirst(r)
    PROVE  QueueInv'
<1>1. DirectoryHoldsLockNodes'
  BY DEF LockInv, QueueInv, DirectoryHoldsLockNodes, Dirs, LockDir, LocksDir, Child
<1>2. NodesAreOwn'
  BY DEF LockInv, QueueInv, NodesAreOwn, Sequence, lockPath, LockDir, LocksDir, Child
<1>3. HolderIsFirstChild'
  <2> SUFFICES ASSUME NEW r \in Request, Holds(r)', NEW n \in nodes'[lockPath(r)].Children
               PROVE  Sequence(r) <= n[2]
    BY DEF HolderIsFirstChild, Sequence, lockPath, LockDir, LocksDir, Child
  <2>1. path[r] # Root /\ path[r] \in DOMAIN nodes'
    BY DEF Holds, HasNode, Exists
  <2>2. parentPath(path[r]) = lockPath(r) /\ lockPath(r) \in Dirs
    BY <2>1, LockNodeFacts, Zenon DEF LockInv, QueueInv, NodesAreOwn, StoreInv, StoreTypeOK
  <2>3. path[r] \in DOMAIN nodes
    BY <2>1, <2>2
  <2>4. lockPath(r) \in DOMAIN nodes /\ lockPath(r) \in DOMAIN nodes'
    BY <2>1, <2>2, <2>3 DEF LockInv, StoreInv, ParentsExist, Exists
  <2>5. n \in nodes[lockPath(r)].Children
    BY <2>2, <2>4
  <2>6. CASE pc[r] \in Acquired
    BY <2>1, <2>3, <2>5, <2>6 DEF LockInv, QueueInv, HolderIsFirstChild, Holds, HasNode, Exists
  <2>7. CASE IsFirst(r)
    BY <2>5, <2>7 DEF IsFirst, Sequence
  <2> QED
    BY <2>6, <2>7 DEF Holds
<1> QED
  BY <1>1, <1>2, <1>3 DEF QueueInv

\* What RemoveAll does to the lock directories.
LEMMA RemovalIsQuiet ==
    ASSUME LockInv, NEW D, nodes' = RemoveAll(D)
    PROVE  /\ \A p \in DOMAIN nodes' : /\ p \in DOMAIN nodes
                                      /\ nodes'[p].Ephemeral = nodes[p].Ephemeral
                                      /\ nodes'[p].Children \subseteq nodes[p].Children
           /\ \A p \in D : p \notin DOMAIN nodes'
<1>1. DOMAIN nodes' = DOMAIN nodes \ D
  BY DEF RemoveAll
<1>2. ASSUME NEW p \in DOMAIN nodes'
      PROVE  /\ nodes'[p].Ephemeral = nodes[p].Ephemeral
             /\ nodes'[p].Children \subseteq nodes[p].Children
  BY <1>1, <1>2 DEF RemoveAll, LockInv, StoreInv, StoreTypeOK, Node
<1> QED
  BY <1>1, <1>2

\* What creating a lock directory does to the lock directories.
LEMMA DirCreationIsQuiet ==
    ASSUME LockInv, NEW d \in LockDirs, Create(d, NoData, FALSE, NoSession, FALSE)
    PROVE  /\ seqCounter' = seqCounter
           /\ DOMAIN nodes \subseteq DOMAIN nodes'
           /\ \A p \in DOMAIN nodes' \ {Root} : parentPath(p) \in Dirs =>
                 p \in DOMAIN nodes /\ nodes'[p].Ephemeral = nodes[p].Ephemeral
           /\ \A e \in Dirs : e \in DOMAIN nodes =>
                 nodes'[e].Children \subseteq nodes[e].Children
<1>1. seqCounter' = seqCounter
  BY DEF Create
<1>2. ActualPath(d, FALSE) = d
  BY DEF ActualPath
<1>3. d \in Path /\ d # Root /\ parentPath(d) \notin Dirs
  BY DirFacts
<1>4. CASE Exists(d)
  BY <1>1, <1>2, <1>4, Zenon DEF Create
<1>5. CASE ~Exists(d)
  <2>1. nodes' = Insert(d, d, NewNode(NoData, FALSE, NoSession))
    BY <1>2, <1>5, Zenon DEF Create
  <2>2. DOMAIN nodes' = DOMAIN nodes \cup {d}
    BY <2>1 DEF Insert
  <2>3. ASSUME NEW x \in DOMAIN nodes
        PROVE  /\ nodes'[x].Ephemeral = nodes[x].Ephemeral
               /\ x # parentPath(d) => nodes'[x] = nodes[x]
    <3>1. nodes[x] \in Node
      BY DEF LockInv, StoreInv, StoreTypeOK
    <3>2. x # d
      BY <1>5 DEF Exists
    <3>3. nodes'[x] = IF x = parentPath(d)
                      THEN [nodes[x] EXCEPT !.Children = @ \cup {baseName(d)}]
                      ELSE nodes[x]
      BY <1>3, <2>1, <2>2, <3>2 DEF Insert
    <3> QED
      BY <3>1, <3>3 DEF Node
  <2> QED
    BY <1>1, <1>3, <2>2, <2>3
<1> QED
  BY <1>4, <1>5

(***************************************************************************)
(* The creation of a lock node keeps QueueInv: its sequence number is      *)
(* above those of all nodes there, so it is first of an empty directory or *)
(* behind everyone else.                                                   *)
(***************************************************************************)
LEMMA LockNodeCreationKeepsQueue ==
    ASSUME LockInv, StoreInv', NEW r \in Request,
           CanCreate(LockNodeName(r), TRUE),
           Goto(r, "create", "check"),
           Create(LockNodeName(r), r, TRUE, SessionOf[r], TRUE),
           path' = [path EXCEPT ![r] = ActualPath(LockNodeName(r), TRUE)]
    PROVE  QueueInv' /\ NoNodeLeftBehind' /\ path' \in [Request -> Path]
<1> DEFINE q == ActualPath(LockNodeName(r), TRUE)
           node == NewNode(r, TRUE, SessionOf[r])
<1>1. seqCounter \in Nat /\ seqCounter' = seqCounter + 1
  BY DEF LockInv, StoreInv, StoreTypeOK, Create
<1>2. /\ lockPath(r) \in Dirs
      /\ q \in Path /\ q # Root
      /\ parentPath(q) = lockPath(r)
      /\ baseName(q) = <<"lock-", seqCounter + 1>>
      /\ LockNodeName(r) # Root
      /\ parentPath(LockNodeName(r)) = lockPath(r)
  BY <1>1, LockNodeFacts, Zenon
<1>4. q \notin DOMAIN nodes /\ nodes' = Insert(LockNodeName(r), q, node)
  BY Zenon DEF CanCreate, Create, Exists
<1>5. node.Ephemeral
  BY DEF NewNode
<1> HIDE DEF q, node
<1>3. baseName(q)[1] = "lock-" /\ baseName(q)[2] = seqCounter + 1
  BY <1>2
<1>6. DOMAIN nodes' = DOMAIN nodes \cup {q} /\ nodes'[q] = node
  BY <1>4 DEF Insert
<1>7. ASSUME NEW x \in DOMAIN nodes
      PROVE  /\ nodes'[x].Ephemeral = nodes[x].Ephemeral
             /\ nodes'[x].Children \subseteq nodes[x].Children \cup {baseName(q)}
  <2>1. nodes[x] \in Node
    BY DEF LockInv, StoreInv, StoreTypeOK
  <2>2. nodes'[x] = IF x = lockPath(r)
                    THEN [nodes[x] EXCEPT !.Children = @ \cup {baseName(q)}]
                    ELSE nodes[x]
    BY <1>2, <1>4, <1>6 DEF Insert
  <2> QED
    BY <2>1, <2>2 DEF Node
<1>8. /\ path \in [Request -> Path]
      /\ path' = [path EXCEPT ![r] = q]
      /\ path[r] = Root
      /\ pc \in [Request -> PC]
      /\ pc' = [pc EXCEPT ![r] = "check"]
      /\ "check" \notin BeforeCreate \cup Acquired \cup GivenUp
  BY DEF LockInv, QueueInv, NodesAreOwn, Goto, q, BeforeCreate, Acquired, GivenUp
<1>9. ASSUME NEW x \in Request, x # r
      PROVE  path'[x] = path[x] /\ pc'[x] = pc[x] /\ path[x] # q
  <2>1. path'[x] = path[x] /\ pc'[x] = pc[x]
    BY <1>8, <1>9
  <2>2. CASE path[x] = q
    <3>1. Sequence(x) \in 1..seqCounter
      BY <1>2, <2>2 DEF LockInv, QueueInv, NodesAreOwn
    <3> QED
      BY <1>1, <1>3, <2>2, <3>1 DEF Sequence
  <2> QED
    BY <2>1, <2>2, Zenon
<1>10. path' \in [Request -> Path]
  BY <1>2, <1>8, Zenon
<1>11. DirectoryHoldsLockNodes'
  <2> SUFFICES ASSUME NEW p \in DOMAIN nodes' \ {Root}, parentPath(p) \in Dirs
               PROVE  nodes'[p].Ephemeral /\ baseName(p)[2] <= seqCounter'
    BY DEF DirectoryHoldsLockNodes, Dirs, LockDir, LocksDir, Child
  <2>1. CASE p = q
    BY <1>1, <1>3, <1>5, <1>6, <2>1
  <2>2. CASE p # q
    <3>1. p \in DOMAIN nodes \ {Root} /\ p \in Path
      BY <1>6, <2>2 DEF LockInv, StoreInv, StoreTypeOK
    <3>2. nodes[p].Ephemeral /\ baseName(p)[2] <= seqCounter
      BY <3>1 DEF LockInv, QueueInv, DirectoryHoldsLockNodes, Dirs
    <3>3. baseName(p)[2] \in Nat
      BY <3>1, ParentFacts DEF Name
    <3> QED
      BY <1>1, <1>7, <3>1, <3>2, <3>3
  <2> QED
    BY <2>1, <2>2
<1>12. NodesAreOwn'
  <2> SUFFICES ASSUME NEW x \in Request
               PROVE  /\ pc'[x] \in BeforeCreate => path'[x] = Root
                      /\ path'[x] # Root =>
                           /\ parentPath(path'[x]) = lockPath(x)
                           /\ baseName(path'[x])[1] = "lock-"
                           /\ baseName(path'[x])[2] \in 1..seqCounter'
                           /\ \A y \in Request : path'[y] = path'[x] => y = x
    BY Zenon DEF NodesAreOwn, Sequence, lockPath, LockDir, LocksDir, Child
  <2>1. CASE x = r
    <3>1. path'[x] = q /\ pc'[x] = "check"
      BY <1>8, <2>1, Zenon
    <3>2. seqCounter + 1 \in 1..seqCounter'
      BY <1>1
    <3>3. \A y \in Request : path'[y] = q => y = x
      BY <1>9, <2>1, Zenon
    <3> QED
      BY <1>2, <1>3, <1>8, <2>1, <3>1, <3>2, <3>3, Zenon
  <2>2. CASE x # r
    <3>1. /\ pc[x] \in BeforeCreate => path[x] = Root
          /\ path[x] # Root =>
               /\ parentPath(path[x]) = lockPath(x)
               /\ baseName(path[x])[1] = "lock-"
               /\ baseName(path[x])[2] \in 1..seqCounter
               /\ \A y \in Request : path[y] = path[x] => y = x
      BY DEF LockInv, QueueInv, NodesAreOwn, Sequence
    <3>2. \A y \in Request : path'[y] = path[x] => y # r
      BY <1>8, <1>9, <2>2, Zenon
    <3>3. \A i \in 1..seqCounter : i \in 1..seqCounter'
      BY <1>1
    <3>4. \A y \in Request : path'[y] = path[x] => path[y] = path[x]
      BY <1>9, <3>2, Zenon
    <3> QED
      BY <1>9, <2>2, <3>1, <3>3, <3>4, Zenon
  <2> QED
    BY <2>1, <2>2, Zenon
<1>13. HolderIsFirstChild'
  <2> SUFFICES ASSUME NEW x \in Request, Holds(x)', NEW n \in nodes'[lockPath(x)].Children
               PROVE  baseName(path'[x])[2] <= n[2]
    BY Zenon DEF HolderIsFirstChild, Sequence, lockPath, LockDir, LocksDir, Child
  <2>1. x # r
    BY <1>8 DEF Holds
  <2>2. path'[x] = path[x] /\ Holds(x)
    BY <1>6, <1>9, <2>1 DEF Holds, HasNode, Exists
  <2>3. Sequence(x) \in 1..seqCounter /\ parentPath(path[x]) = lockPath(x)
    BY <2>2 DEF LockInv, QueueInv, NodesAreOwn, Holds, HasNode
  <2>4. lockPath(x) \in DOMAIN nodes
    BY <2>2, <2>3 DEF LockInv, StoreInv, ParentsExist, Holds, HasNode, Exists
  <2>5. CASE n \in nodes[lockPath(x)].Children
    BY <2>2, <2>5, Zenon DEF LockInv, QueueInv, HolderIsFirstChild, Sequence
  <2>6. CASE n = baseName(q)
    <3>1. baseName(path'[x])[2] \in 1..seqCounter
      BY <2>2, <2>3, Zenon DEF Sequence
    <3>2. n[2] = seqCounter + 1
      BY <1>3, <2>6
    <3>3. \A i \in 1..seqCounter : i <= seqCounter + 1
      BY <1>1
    <3> QED
      BY <3>1, <3>2, <3>3, Zenon
  <2> QED
    BY <1>7, <2>4, <2>5, <2>6, Zenon
<1>14. NoNodeLeftBehind'
  <2> SUFFICES ASSUME NEW x \in Request, pc'[x] \in GivenUp, HasNode(x)'
               PROVE  FALSE
    BY DEF NoNodeLeftBehind
  <2>1. x # r
    BY <1>8
  <2> QED
    BY <1>6, <1>9, <2>1 DEF LockInv, NoNodeLeftBehind, HasNode, Exists
<1> QED
  BY <1>10, <1>11, <1>12, <1>13, <1>14, Zenon DEF QueueInv

-----------------------------------------------------------------------------
\* A step of one request that changes neither the store nor a path.
LEMMA ControlStep ==
    ASSUME LockInv, NEW r \in Request, NEW to \in PC,
           UNCHANGED storeVars, path' = path, pc' = [pc EXCEPT ![r] = to],
           to \in BeforeCreate => pc[r] \in BeforeCreate,
           to \in Acquired => pc[r] \in Acquired \/ IsFirst(r),
           to \in GivenUp => ~HasNode(r)
    PROVE  LockInv'
<1>1. StoreInv'
  BY DEF LockInv, storeVars, StoreInv, StoreTypeOK, ParentsExist, Exists,
       ChildrenMirrorNodes, ListedChildrenExist, NodesAreListed, EphemeralsAreLeaves
<1>2. pc \in [Request -> PC] /\ pc' \in [Request -> PC] /\ path' \in [Request -> Path]
  BY DEF LockInv
<1>3. \A x \in Request : pc'[x] = IF x = r THEN to ELSE pc[x]
  BY <1>2
<1>4. QueueInv'
  <2>1. /\ seqCounter' = seqCounter
        /\ \A p \in DOMAIN nodes' \ {Root} : parentPath(p) \in Dirs =>
               p \in DOMAIN nodes /\ nodes'[p].Ephemeral = nodes[p].Ephemeral
        /\ \A d \in Dirs : d \in DOMAIN nodes /\ d \in DOMAIN nodes' =>
               nodes'[d].Children \subseteq nodes[d].Children
    BY DEF storeVars
  <2>2. /\ \A x \in Request : pc'[x] \in BeforeCreate => pc[x] \in BeforeCreate
        /\ \A x \in Request : pc'[x] \in Acquired => pc[x] \in Acquired \/ IsFirst(x)
    BY <1>3
  <2> QED
    BY <1>1, <2>1, <2>2, QuietStepKeepsQueue
<1>5. NoNodeLeftBehind'
  BY <1>3 DEF storeVars, LockInv, NoNodeLeftBehind, HasNode, Exists
<1> QED
  BY <1>1, <1>2, <1>4, <1>5 DEF LockInv

\* The removal of nodes, alone or at the end of a request.
LEMMA RemovalStep ==
    ASSUME LockInv, StoreInv', NEW D, nodes' = RemoveAll(D), seqCounter' = seqCounter,
           path' = path, pc' \in [Request -> PC],
           \A x \in Request : \/ pc'[x] = pc[x]
                              \/ pc'[x] \in GivenUp /\ path[x] \in D
    PROVE  LockInv'
<1>1. /\ \A p \in DOMAIN nodes' : /\ p \in DOMAIN nodes
                                 /\ nodes'[p].Ephemeral = nodes[p].Ephemeral
                                 /\ nodes'[p].Children \subseteq nodes[p].Children
      /\ \A p \in D : p \notin DOMAIN nodes'
  BY RemovalIsQuiet
<1>2. QueueInv'
  <2>1. /\ \A x \in Request : pc'[x] \in BeforeCreate => pc[x] \in BeforeCreate
        /\ \A x \in Request : pc'[x] \in Acquired => pc[x] \in Acquired \/ IsFirst(x)
    BY DEF BeforeCreate, Acquired, GivenUp
  <2> QED
    BY <1>1, <2>1, QuietStepKeepsQueue
<1>3. NoNodeLeftBehind'
  BY <1>1 DEF LockInv, NoNodeLeftBehind, HasNode, Exists
<1> QED
  BY <1>2, <1>3 DEF LockInv

\* A request that deletes its own node and gives up.
LEMMA DeleteOwnNodeStep ==
    ASSUME LockInv, NEW r \in Request, NEW to \in GivenUp,
           DeleteOwnNode(r), path' = path, pc' = [pc EXCEPT ![r] = to]
    PROVE  LockInv'
<1>1. /\ path[r] \in Path /\ to \in PC
      /\ pc \in [Request -> PC] /\ pc' \in [Request -> PC]
  BY DEF LockInv, GivenUp, PC, Registered, Returned
<1>2. CASE CanDelete(path[r], -1)
  <2>1. Delete(path[r], -1) /\ nodes' = RemoveAll({path[r]}) /\ seqCounter' = seqCounter
    BY <1>2 DEF DeleteOwnNode, Delete
  <2>2. StoreInv'
    BY <1>1, <2>1, DeleteKeepsTree DEF LockInv
  <2>3. \A x \in Request : \/ pc'[x] = pc[x]
                           \/ pc'[x] \in GivenUp /\ path[x] \in {path[r]}
    BY <1>1
  <2> QED
    BY <1>1, <2>1, <2>2, <2>3, RemovalStep
<1>3. CASE ~CanDelete(path[r], -1)
  <2>1. ~HasNode(r)
    <3> SUFFICES ASSUME HasNode(r) PROVE CanDelete(path[r], -1)
      BY <1>3
    <3>1. path[r] # Root /\ path[r] \in DOMAIN nodes
      BY DEF HasNode, Exists
    <3>2. parentPath(path[r]) = lockPath(r) /\ lockPath(r) \in Dirs
      BY <3>1, LockNodeFacts, Zenon DEF LockInv, QueueInv, NodesAreOwn, StoreInv, StoreTypeOK
    <3>3. nodes[path[r]].Ephemeral
      BY <3>1, <3>2 DEF LockInv, QueueInv, DirectoryHoldsLockNodes, Dirs
    <3>4. ASSUME NEW n \in nodes[path[r]].Children
          PROVE  FALSE
      <4>1. n \in Name
        BY <3>1 DEF LockInv, StoreInv, StoreTypeOK, Node
      <4>2. Child(path[r], n) \in DOMAIN nodes
        BY <3>1 DEF LockInv, StoreInv, ChildrenMirrorNodes, ListedChildrenExist, Exists
      <4>3. Child(path[r], n) # Root /\ parentPath(Child(path[r], n)) = path[r]
        BY <1>1, <4>1, ChildFacts
      <4> QED
        BY <3>3, <4>2, <4>3 DEF LockInv, StoreInv, EphemeralsAreLeaves
    <3>5. nodes[path[r]].Children = {}
      BY <3>1, <3>4 DEF LockInv, StoreInv, StoreTypeOK, Node
    <3> QED
      BY <3>1, <3>5 DEF CanDelete, VersionMatches, Exists
  <2>2. UNCHANGED storeVars
    BY <1>3 DEF DeleteOwnNode
  <2>3. to \notin BeforeCreate /\ to \notin Acquired
    BY DEF GivenUp, BeforeCreate, Acquired
  <2> QED
    BY <1>1, <2>1, <2>2, <2>3, ControlStep, Zenon
<1> QED
  BY <1>2, <1>3

\* The creation of a lock directory, alone or as a step of a request.
LEMMA DirCreationStep ==
    ASSUME LockInv, NEW d \in LockDirs, Create(d, NoData, FALSE, NoSession, FALSE),
           path' = path, pc' \in [Request -> PC],
           \A x \in Request : pc'[x] = pc[x]
                              \/ (pc[x] \in BeforeCreate /\ pc'[x] \in BeforeCreate)
    PROVE  LockInv'
<1>1. d \in Path
  BY DirFacts
<1>2. StoreInv'
  BY <1>1, CreateKeepsTree, Zenon DEF LockInv
<1>3. /\ seqCounter' = seqCounter
      /\ \A p \in DOMAIN nodes' \ {Root} : parentPath(p) \in Dirs =>
             p \in DOMAIN nodes /\ nodes'[p].Ephemeral = nodes[p].Ephemeral
      /\ \A e \in Dirs : e \in DOMAIN nodes =>
             nodes'[e].Children \subseteq nodes[e].Children
  BY DirCreationIsQuiet, Zenon
<1>4. QueueInv'
  <2>1. /\ \A x \in Request : pc'[x] \in BeforeCreate => pc[x] \in BeforeCreate
        /\ \A x \in Request : pc'[x] \in Acquired => pc[x] \in Acquired \/ IsFirst(x)
    BY DEF BeforeCreate, Acquired
  <2> QED
    BY <1>2, <1>3, <2>1, QuietStepKeepsQueue
<1>5. NoNodeLeftBehind'
  <2> SUFFICES ASSUME NEW x \in Request, pc'[x] \in GivenUp, HasNode(x)'
               PROVE  FALSE
    BY DEF NoNodeLeftBehind
  <2>1. pc[x] \in GivenUp
    BY DEF GivenUp, BeforeCreate
  <2>2. path[x] # Root /\ path[x] \in DOMAIN nodes'
    BY DEF HasNode, Exists
  <2>3. parentPath(path[x]) = lockPath(x) /\ lockPath(x) \in Dirs
    BY <2>2, LockNodeFacts, Zenon DEF LockInv, QueueInv, NodesAreOwn, StoreInv, StoreTypeOK
  <2> QED
    BY <1>3, <2>1, <2>2, <2>3 DEF LockInv, NoNodeLeftBehind, HasNode, Exists
<1> QED
  BY <1>2, <1>4, <1>5 DEF LockInv

-----------------------------------------------------------------------------
\* The invariant holds in a fresh server.
LEMMA InitLockInv == LockInit => LockInv
<1> SUFFICES ASSUME LockInit PROVE LockInv
  OBVIOUS
<1>1. StoreInit
  BY DEF LockInit
<1>2. StoreInv
  BY <1>1, InitStoreInv
<1>3. pc \in [Request -> PC] /\ path \in [Request -> Path]
  <2>1. Root \in Path
    BY DEF Root, Path
  <2> QED
    BY <2>1 DEF LockInit, PC, BeforeCreate
<1>4. \A r \in Request : path[r] = Root /\ pc[r] = "idle"
  BY DEF LockInit
<1>5. DOMAIN nodes = {Root}
  BY <1>1 DEF StoreInit
<1> QED
  BY <1>2, <1>3, <1>4, <1>5 DEF LockInv, QueueInv, NoNodeLeftBehind, HasNode,
       DirectoryHoldsLockNodes, NodesAreOwn, HolderIsFirstChild, Holds

\* Every step of TryLock and waitForLock keeps the invariant.
LEMMA TryLockStepKeepsInv ==
    ASSUME LockInv, NEW r \in Request, Call(r) \/ TryLockStep(r)
    PROVE  LockInv'
<1> USE DEF PC, BeforeCreate, Registered, Acquired, Returned, GivenUp
<1>1. CASE Call(r)
  BY <1>1, ControlStep, Zenon DEF Call, Goto
<1>2. CASE EnsureDirExists(r)
  <2>1. CASE Exists(lockPath(r))
    BY <1>2, <2>1, ControlStep, Zenon DEF EnsureDirExists, Goto
  <2>2. CASE ~Exists(lockPath(r))
    BY <1>2, <2>2, ControlStep, Zenon DEF EnsureDirExists, Goto
  <2> QED
    BY <2>1, <2>2
<1>3. CASE EnsureDirCreate(r)
  <2>1. CASE ParentOK(lockPath(r))
    <3>1. Create(lockPath(r), NoData, FALSE, NoSession, FALSE) /\ path' = path
      BY <1>3, <2>1, Zenon DEF EnsureDirCreate
    <3>2. lockPath(r) \in LockDirs
      BY LockAssumption DEF lockPath, LockDirs
    <3>3. /\ pc' \in [Request -> PC]
          /\ \A x \in Request : pc'[x] = pc[x]
                               \/ (pc[x] \in BeforeCreate /\ pc'[x] \in BeforeCreate)
      BY <1>3 DEF EnsureDirCreate, Goto, LockInv
    <3> QED
      BY <3>1, <3>2, <3>3, DirCreationStep, Zenon
  <2>2. CASE ~ParentOK(lockPath(r))
    BY <1>3, <2>2, ControlStep, Zenon DEF EnsureDirCreate, Goto
  <2> QED
    BY <2>1, <2>2
<1>4. CASE CreateLockNode(r)
  <2>1. CASE /\ CanCreate(LockNodeName(r), TRUE)
             /\ Goto(r, "create", "check")
             /\ Create(LockNodeName(r), r, TRUE, SessionOf[r], TRUE)
             /\ path' = [path EXCEPT ![r] = ActualPath(LockNodeName(r), TRUE)]
    <3>1. LockNodeName(r) \in Path
      BY LockNodeFacts, Zenon DEF LockInv, StoreInv, StoreTypeOK
    <3>2. r \in Data \cup {NoData} /\ SessionOf[r] \in Session \cup {NoSession}
      BY LockAssumption
    <3>3. StoreInv'
      BY <2>1, <3>1, <3>2, CreateKeepsTree, Zenon DEF LockInv
    <3>4. pc' \in [Request -> PC]
      BY <2>1 DEF Goto, LockInv
    <3> QED
      BY <2>1, <3>3, <3>4, LockNodeCreationKeepsQueue, Zenon DEF LockInv
  <2>2. CASE /\ Goto(r, "create", "failed")
             /\ UNCHANGED <<storeVars, path>>
    <3>1. path[r] = Root
      BY <2>2 DEF Goto, LockInv, QueueInv, NodesAreOwn
    <3>2. ~HasNode(r)
      BY <3>1 DEF HasNode
    <3> QED
      BY <2>2, <3>2, ControlStep, Zenon DEF Goto
  <2> QED
    BY <1>4, <2>1, <2>2, Zenon DEF CreateLockNode
<1>5. CASE CheckLockAcquired(r)
  <2>1. PICK to \in {"abandon", "record", "register"} :
          /\ to = "record" => IsFirst(r)
          /\ pc' = [pc EXCEPT ![r] = to]
    BY <1>5, Zenon DEF CheckLockAcquired, Goto
  <2> QED
    BY <1>5, <2>1, ControlStep, Zenon DEF CheckLockAcquired
<1>6. CASE Record(r)
  BY <1>6, ControlStep, Zenon DEF Record, Goto
<1>7. CASE Abandon(r)
  BY <1>7, DeleteOwnNodeStep, Zenon DEF Abandon, Goto
<1>8. CASE Register(r)
  BY <1>8, ControlStep, Zenon DEF Register, Goto
<1>9. CASE Wakeup(r)
  BY <1>9, ControlStep, Zenon DEF Wakeup, Goto
<1>10. CASE TimerFires(r)
  BY <1>10, ControlStep, Zenon DEF TimerFires, Goto
<1>11. CASE RecheckLockAcquired(r)
  <2>1. PICK to \in {"abandonLate", "recordLate", "wait"} :
          /\ to = "recordLate" => IsFirst(r)
          /\ pc' = [pc EXCEPT ![r] = to]
    BY <1>11, Zenon DEF RecheckLockAcquired, Goto
  <2> QED
    BY <1>11, <2>1, ControlStep, Zenon DEF RecheckLockAcquired
<1>12. CASE RecordLate(r)
  BY <1>12, ControlStep, Zenon DEF RecordLate, Goto
<1>13. CASE AbandonLate(r)
  BY <1>13, DeleteOwnNodeStep, Zenon DEF AbandonLate, Goto
<1>14. CASE Deregister(r)
  <2>1. CASE Goto(r, "leaveGranted", "granted")
    BY <1>14, <2>1, ControlStep, Zenon DEF Deregister, Goto
  <2>2. CASE Goto(r, "leaveFailed", "failed")
    <3>1. ~HasNode(r)
      BY <2>2 DEF Goto, LockInv, NoNodeLeftBehind
    <3> QED
      BY <1>14, <2>2, <3>1, ControlStep, Zenon DEF Deregister, Goto
  <2> QED
    BY <1>14, <2>1, <2>2 DEF Deregister
<1> QED
  BY <1>1, <1>2, <1>3, <1>4, <1>5, <1>6, <1>7, <1>8, <1>9, <1>10, <1>11, <1>12,
     <1>13, <1>14 DEF TryLockStep

\* Every step of the server keeps the invariant.
LEMMA NextLockInv == LockInv /\ [LockNext]_lockVars => LockInv'
<1> SUFFICES ASSUME LockInv, [LockNext]_lockVars PROVE LockInv'
  OBVIOUS
<1>1. ASSUME NEW r \in Request, Call(r) \/ TryLockStep(r)
      PROVE  LockInv'
  BY <1>1, TryLockStepKeepsInv
<1>2. ASSUME NEW r \in Request, UnlockForget(r)
      PROVE  LockInv'
  BY <1>2, ControlStep, Zenon DEF UnlockForget, Goto, PC, BeforeCreate, Registered, Acquired,
       Returned, GivenUp
<1>3. ASSUME NEW r \in Request, UnlockDelete(r)
      PROVE  LockInv'
  BY <1>3, DeleteOwnNodeStep, Zenon DEF UnlockDelete, Goto, GivenUp
<1>4. ASSUME UNCHANGED <<storeVars, pc, path>>
      PROVE  LockInv'
  BY <1>4 DEF LockInv, storeVars, StoreInv, StoreTypeOK, ParentsExist, Exists,
       ChildrenMirrorNodes, ListedChildrenExist, NodesAreListed, EphemeralsAreLeaves,
       QueueInv, DirectoryHoldsLockNodes, NodesAreOwn, HolderIsFirstChild, Holds,
       HasNode, Sequence, NoNodeLeftBehind
<1>5. ASSUME NEW sid \in Session, SessionEnds(sid)
      PROVE  LockInv'
  <2>1. StoreInv'
    BY <1>5, DeleteEphemeralsKeepsTree DEF SessionEnds, LockInv
  <2> QED
    BY <1>5, <2>1, RemovalStep DEF SessionEnds, DeleteEphemerals, LockInv
<1>6. ASSUME NEW p \in LockDirs, ClientCreates(p)
      PROVE  LockInv'
  BY <1>6, DirCreationStep, Zenon DEF ClientCreates, managerVars, LockInv
<1>7. ASSUME NEW p, ClientDeletes(p)
      PROVE  LockInv'
  <2>1. p \in Path
    BY <1>7 DEF ClientDeletes, Delete, CanDelete, Exists, LockInv, StoreInv, StoreTypeOK
  <2>2. StoreInv'
    BY <1>7, <2>1, DeleteKeepsTree DEF ClientDeletes, LockInv
  <2> QED
    BY <1>7, <2>2, RemovalStep DEF ClientDeletes, Delete, LockInv
<1>8. CASE UNCHANGED lockVars
  BY <1>4, <1>8 DEF lockVars, managerVars
<1>9. ASSUME NEW p \in callbacks, OnNodeDeleted(p)
      PROVE  LockInv'
  BY <1>4, <1>9 DEF OnNodeDeleted
<1> QED
  BY <1>1, <1>2, <1>3, <1>5, <1>6, <1>7, <1>8, <1>9 DEF LockNext

\* The invariant holds in every reachable state.
LEMMA LockInvHolds == LockSpec => []LockInv
BY InitLockInv, NextLockInv, PTL DEF LockSpec

-----------------------------------------------------------------------------
\* A queued request's node is among the children checkLockAcquired looks at.
LEMMA QueuedIsListed ==
    ASSUME LockInv, NEW r \in Request, HasNode(r)
    PROVE  /\ baseName(path[r]) \in nodes[lockPath(r)].Children
           /\ Sequence(r) \in 1..seqCounter
           /\ baseName(path[r]) = <<"lock-", Sequence(r)>>
           /\ path[r] = Child(lockPath(r), <<"lock-", Sequence(r)>>)
           /\ lockPath(r) \in DOMAIN nodes
<1>1. path[r] # Root /\ path[r] \in DOMAIN nodes /\ path[r] \in Path
  BY DEF HasNode, Exists, LockInv
<1>2. /\ parentPath(path[r]) = lockPath(r)
      /\ baseName(path[r])[1] = "lock-"
      /\ Sequence(r) \in 1..seqCounter
  BY <1>1 DEF LockInv, QueueInv, NodesAreOwn
<1>3. lockPath(r) # Root
  BY LockNodeFacts, Zenon DEF LockInv, StoreInv, StoreTypeOK
<1>4. ~Unlisted(path[r])
  <2>1. Len(path[r]) # 1
    BY <1>1, <1>2, <1>3 DEF parentPath, Path, Root
  <2> QED
    BY <2>1 DEF Unlisted
<1>5. baseName(path[r]) \in nodes[lockPath(r)].Children
  BY <1>1, <1>2, <1>4 DEF LockInv, StoreInv, ChildrenMirrorNodes, NodesAreListed
<1>6. baseName(path[r]) \in Name /\ Child(parentPath(path[r]), baseName(path[r])) = path[r]
  BY <1>1, ParentFacts
<1>7. baseName(path[r]) = <<"lock-", Sequence(r)>>
  BY <1>2, <1>6 DEF Sequence, Name
<1>8. lockPath(r) \in DOMAIN nodes
  BY <1>1, <1>2 DEF LockInv, StoreInv, ParentsExist, Exists
<1> QED
  BY <1>2, <1>5, <1>6, <1>7, <1>8

\* Two queued requests for a lock have different sequence numbers.
LEMMA SequencesDiffer ==
    ASSUME LockInv, NEW r \in Request, NEW q \in Request, HasNode(r), HasNode(q),
           NameOf[r] = NameOf[q], Sequence(r) = Sequence(q)
    PROVE  r = q
<1>1. path[r] = path[q]
  BY QueuedIsListed, Zenon DEF lockPath
<1> QED
  BY <1>1 DEF LockInv, QueueInv, NodesAreOwn, HasNode

\* The invariant implies FIFO order.
LEMMA InvImpliesNoOvertaking == LockInv => NoOvertaking
<1> SUFFICES ASSUME LockInv, NEW r \in Request, NEW q \in Request,
                    Holds(r), HasNode(q), NameOf[r] = NameOf[q]
             PROVE  Sequence(r) <= Sequence(q)
  BY DEF NoOvertaking
<1>1. baseName(path[q]) \in nodes[lockPath(r)].Children
  BY QueuedIsListed, Zenon DEF lockPath
<1> QED
  BY <1>1 DEF LockInv, QueueInv, HolderIsFirstChild, Sequence

(***************************************************************************)
(* A request that holds a lock is the oldest one with a node, for any      *)
(* number of requests: the server grants locks in FIFO order.              *)
(***************************************************************************)
THEOREM FIFOTheorem == LockSpec => []NoOvertaking
BY LockInvHolds, InvImpliesNoOvertaking, PTL

(***************************************************************************)
(* No two requests hold the same lock, for any number of requests, locks   *)
(* and sessions and every interleaving of TryLock, Unlock, session expiry  *)
(* and deletions by clients.                                               *)
(***************************************************************************)
THEOREM MutualExclusionTheorem == LockSpec => []MutualExclusion
<1>1. LockInv => MutualExclusion
  <2> SUFFICES ASSUME LockInv, NEW r \in Request, NEW q \in Request,
                      Holds(r), Holds(q), NameOf[r] = NameOf[q]
               PROVE  r = q
    BY DEF MutualExclusion
  <2>1. HasNode(r) /\ HasNode(q)
    BY DEF Holds
  <2>2. Sequence(r) <= Sequence(q) /\ Sequence(q) <= Sequence(r)
    BY <2>1, InvImpliesNoOvertaking DEF NoOvertaking
  <2>3. Sequence(r) \in 1..seqCounter /\ Sequence(q) \in 1..seqCounter
    BY <2>1, QueuedIsListed, Zenon
  <2>4. Sequence(r) = Sequence(q)
    BY <2>2, <2>3 DEF LockInv, StoreInv, StoreTypeOK
  <2> QED
    BY <2>1, <2>4, SequencesDiffer
<1> QED
  BY <1>1, LockInvHolds, PTL

(***************************************************************************)
(* A TryLock that failed and an Unlock that returned leave no node in the  *)
(* queue: store.Delete, whose error TryLock ignores, cannot fail for any   *)
(* reason but that the node is gone already.                               *)
(***************************************************************************)
THEOREM NoNodeLeftBehindTheorem == LockSpec => []NoNodeLeftBehind
<1>1. LockInv => NoNodeLeftBehind
  BY DEF LockInv
<1> QED
  BY <1>1, LockInvHolds, PTL

(***************************************************************************)
(* The strengthening is an invariant itself: a lock's directory holds only *)
(* ephemeral lock nodes with numbers already drawn, no two requests share  *)
(* one, and the holder's stays the first child.                            *)
(***************************************************************************)
THEOREM QueueTheorem == LockSpec => []QueueInv
<1>1. LockInv => QueueInv
  BY DEF LockInv
<1> QED
  BY <1>1, LockInvHolds, PTL

-----------------------------------------------------------------------------
(* The waiter channels *)

\* The variables of the manager that LockInv says nothing about.
ManagerTypeOK ==
    /\ locks \subseteq Path
    /\ waiters \in [Lock -> Seq(Request)]
    /\ token \in [Request -> BOOLEAN]
    /\ callbacks \subseteq Path

Listed(w) == {w[i] : i \in 1..Len(w)}
Once(w) == \A i, j \in 1..Len(w) : w[i] = w[j] => i = j

\* The elements of a concatenation.
LEMMA ConcatElements ==
    ASSUME NEW S, NEW a \in Seq(S), NEW b \in Seq(S)
    PROVE  /\ a \o b \in Seq(S) /\ Len(a \o b) = Len(a) + Len(b)
           /\ \A i \in 1..(Len(a) + Len(b)) :
                 (a \o b)[i] = IF i <= Len(a) THEN a[i] ELSE b[i - Len(a)]
OBVIOUS

\* Removing an element from a sequence without repetitions leaves the others, once each.
LEMMA WithoutFacts ==
    ASSUME NEW S, NEW s \in Seq(S), NEW r, Once(s)
    PROVE  LET t == Without(s, r) IN
           t \in Seq(S) /\ Listed(t) = Listed(s) \ {r} /\ Once(t)
<1> USE DEF Listed, Once
<1> DEFINE t == Without(s, r)
<1>1. CASE ~\E i \in 1..Len(s) : s[i] = r
  BY <1>1 DEF Without
<1>2. CASE \E i \in 1..Len(s) : s[i] = r
  <2> DEFINE k == IndexIn(s, r)
  <2>1. k \in 1..Len(s) /\ s[k] = r
    <3>1. PICK i \in 1..Len(s) : s[i] = r
      BY <1>2
    <3>2. \A j \in 1..(i - 1) : j \in 1..Len(s) /\ j # i
      OBVIOUS
    <3>3. \A j \in 1..(i - 1) : s[j] # r
      BY <3>1, <3>2
    <3> QED
      BY <3>1, <3>3, Zenon DEF IndexIn
  <2>2. t = SubSeq(s, 1, k - 1) \o SubSeq(s, k + 1, Len(s))
    BY <1>2, Zenon DEF Without
  <2> HIDE DEF k, t
  <2>3. /\ t \in Seq(S) /\ Len(t) = Len(s) - 1 /\ Len(s) \in Nat
        /\ \A i \in 1..Len(t) : t[i] = IF i < k THEN s[i] ELSE s[i + 1]
    <3> DEFINE a == SubSeq(s, 1, k - 1)
               b == SubSeq(s, k + 1, Len(s))
    <3>1. a \in Seq(S) /\ Len(a) = k - 1 /\ \A i \in 1..Len(a) : a[i] = s[i]
      BY <2>1
    <3>2. b \in Seq(S) /\ Len(b) = Len(s) - k /\ \A i \in 1..Len(b) : b[i] = s[i + k]
      BY <2>1
    <3>3. t = a \o b
      BY <2>2
    <3> HIDE DEF a, b
    <3>4. /\ t \in Seq(S) /\ Len(t) = Len(a) + Len(b)
          /\ \A i \in 1..(Len(a) + Len(b)) : t[i] = IF i <= Len(a) THEN a[i] ELSE b[i - Len(a)]
      BY <3>1, <3>2, <3>3, ConcatElements, Zenon
    <3>5. t \in Seq(S) /\ Len(t) = Len(s) - 1 /\ Len(s) \in Nat
      BY <2>1, <3>1, <3>2, <3>4
    <3>6. ASSUME NEW i \in 1..Len(t)
          PROVE  t[i] = IF i < k THEN s[i] ELSE s[i + 1]
      <4>1. t[i] = IF i <= Len(a) THEN a[i] ELSE b[i - Len(a)]
        BY <3>4
      <4>2. CASE i < k
        BY <2>1, <3>1, <4>1, <4>2
      <4>3. CASE ~(i < k)
        <5>1. i - Len(a) \in 1..Len(b) /\ (i - Len(a)) + k = i + 1 /\ ~(i <= Len(a))
          BY <2>1, <3>1, <3>2, <3>5, <4>3
        <5> QED
          BY <3>2, <4>1, <4>3, <5>1
      <4> QED
        BY <4>2, <4>3
    <3> QED
      BY <3>5, <3>6
  <2>4. ASSUME NEW i \in 1..Len(t), NEW j \in 1..Len(t), t[i] = t[j]
        PROVE  i = j
    <3> DEFINE at(x) == IF x < k THEN x ELSE x + 1
    <3>1. \A x \in 1..Len(t) : t[x] = s[at(x)] /\ at(x) \in 1..Len(s)
      BY <2>1, <2>3
    <3>2. at(i) = at(j)
      BY <2>4, <3>1, Zenon
    <3> QED
      BY <2>1, <3>2
  <2>5. \A i \in 1..Len(t) : t[i] # r /\ \E j \in 1..Len(s) : s[j] = t[i]
    BY <2>1, <2>3
  <2>6. ASSUME NEW j \in 1..Len(s), s[j] # r
        PROVE  \E i \in 1..Len(t) : t[i] = s[j]
    <3>1. CASE j < k
      BY <2>1, <2>3, <3>1
    <3>2. CASE j > k
      <4>1. j - 1 \in 1..Len(t) /\ t[j - 1] = s[j]
        BY <2>1, <2>3, <3>2
      <4> QED
        BY <4>1
    <3> QED
      BY <2>1, <2>6, <3>1, <3>2
  <2>7. {t[i] : i \in 1..Len(t)} = {s[i] : i \in 1..Len(s)} \ {r}
    BY <2>5, <2>6
  <2> QED
    BY <2>3, <2>4, <2>7, Zenon DEF t
<1> QED
  BY <1>1, <1>2, Zenon

\* Adding an element that is not there yet.
LEMMA AppendFacts ==
    ASSUME NEW S, NEW s \in Seq(S), NEW r \in S,
           r \notin Listed(s), Once(s)
    PROVE  LET t == Append(s, r) IN
           t \in Seq(S) /\ Listed(t) = Listed(s) \cup {r} /\ Once(t)
<1> USE DEF Listed, Once
<1> DEFINE t == Append(s, r)
<1>1. /\ t \in Seq(S) /\ Len(t) = Len(s) + 1 /\ Len(s) \in Nat
      /\ \A i \in 1..Len(s) : t[i] = s[i]
      /\ t[Len(t)] = r
  OBVIOUS
<1> HIDE DEF t
<1>2. {t[i] : i \in 1..Len(t)} = {s[i] : i \in 1..Len(s)} \cup {r}
  <2>1. \A i \in 1..Len(t) : i \in 1..Len(s) \/ i = Len(t)
    BY <1>1
  <2>2. \A i \in 1..Len(s) : i \in 1..Len(t)
    BY <1>1
  <2>3. Len(t) \in 1..Len(t)
    BY <1>1
  <2> QED
    BY <1>1, <2>1, <2>2, <2>3
<1>3. \A i, j \in 1..Len(t) : t[i] = t[j] => i = j
  BY <1>1
<1> QED
  BY <1>1, <1>2, <1>3 DEF t

\* The requests inside waitForLock for a lock.
Waiting(l) == {r \in Request : NameOf[r] = l /\ pc[r] \in Registered}

\* The inductive invariant for the waiter channels.
WaitersInv == ManagerTypeOK /\ WaitersAreWaiting

LEMMA WaitersAsSets ==
    WaitersAreWaiting => \A l \in Lock : Listed(waiters[l]) = Waiting(l) /\ Once(waiters[l])
BY DEF WaitersAreWaiting, Listed, Once, Waiting

\* A step that neither edits the slices nor moves a call into or out of waitForLock.
LEMMA OutsideWaitForLock ==
    ASSUME WaitersAreWaiting, waiters' = waiters,
           \A r \in Request : pc'[r] \in Registered <=> pc[r] \in Registered
    PROVE  WaitersAreWaiting'
<1>1. \A l \in Lock : Waiting(l)' = Waiting(l)
  BY DEF Waiting
<1> QED
  BY <1>1 DEF WaitersAreWaiting, Waiting

\* One call of waitForLock enters or leaves: the slice of its lock changes with it.
LEMMA OneSliceChanges ==
    ASSUME WaitersInv, NEW r \in Request, NEW s,
           waiters' = [waiters EXCEPT ![NameOf[r]] = s],
           \A q \in Request \ {r} : pc'[q] = pc[q],
           s \in Seq(Request),
           Listed(s) = Waiting(NameOf[r])', Once(s)
    PROVE  waiters' \in [Lock -> Seq(Request)] /\ WaitersAreWaiting'
<1>1. NameOf[r] \in Lock /\ waiters \in [Lock -> Seq(Request)]
  BY LockAssumption DEF WaitersInv, ManagerTypeOK
<1>2. waiters' \in [Lock -> Seq(Request)] /\ waiters'[NameOf[r]] = s
  BY <1>1
<1>3. ASSUME NEW l \in Lock
      PROVE  Listed(waiters'[l]) = Waiting(l)' /\ Once(waiters'[l])
  <2>1. CASE l = NameOf[r]
    BY <1>2, <2>1, Zenon
  <2>2. CASE l # NameOf[r]
    <3>1. waiters'[l] = waiters[l] /\ Waiting(l)' = Waiting(l)
      BY <1>1, <2>2 DEF Waiting
    <3> QED
      BY <3>1, WaitersAsSets DEF WaitersInv
  <2> QED
    BY <2>1, <2>2, Zenon
<1> QED
  BY <1>2, <1>3 DEF WaitersAreWaiting, Waiting, Listed, Once

LEMMA RegisterKeepsWaiters ==
    ASSUME LockInv, WaitersInv, NEW r \in Request, Register(r)
    PROVE  WaitersInv'
<1> DEFINE l == NameOf[r]
           s == Append(waiters[l], r)
<1>1. /\ pc \in [Request -> PC] /\ pc[r] = "register" /\ pc' = [pc EXCEPT ![r] = "wait"]
      /\ waiters' = [waiters EXCEPT ![l] = s]
      /\ UNCHANGED <<locks, token, callbacks>>
  BY DEF Register, Goto, LockInv
<1>2. l \in Lock /\ waiters[l] \in Seq(Request)
  BY LockAssumption DEF WaitersInv, ManagerTypeOK
<1>3. Listed(waiters[l]) = Waiting(l) /\ Once(waiters[l])
  BY <1>2, WaitersAsSets DEF WaitersInv
<1>4. r \notin Listed(waiters[l])
  BY <1>1, <1>3 DEF Waiting, Registered
<1>5. s \in Seq(Request) /\ Listed(s) = Waiting(l) \cup {r} /\ Once(s)
  BY <1>2, <1>3, <1>4, AppendFacts
<1>6. Waiting(l)' = Waiting(l) \cup {r}
  BY <1>1 DEF Waiting, Registered
<1>7. \A q \in Request \ {r} : pc'[q] = pc[q]
  BY <1>1
<1> HIDE DEF s
<1>8. waiters' \in [Lock -> Seq(Request)] /\ WaitersAreWaiting'
  BY <1>1, <1>5, <1>6, <1>7, OneSliceChanges, Zenon
<1> QED
  BY <1>1, <1>8, Zenon DEF WaitersInv, ManagerTypeOK

LEMMA DeregisterKeepsWaiters ==
    ASSUME LockInv, WaitersInv, NEW r \in Request, Deregister(r)
    PROVE  WaitersInv'
<1> DEFINE l == NameOf[r]
           s == Without(waiters[l], r)
<1>1. /\ pc \in [Request -> PC]
      /\ \E to \in {"granted", "failed"} : pc' = [pc EXCEPT ![r] = to]
      /\ waiters' = [waiters EXCEPT ![l] = s]
      /\ UNCHANGED <<locks, token, callbacks>>
  BY DEF Deregister, Goto, LockInv
<1>2. l \in Lock /\ waiters[l] \in Seq(Request)
  BY LockAssumption DEF WaitersInv, ManagerTypeOK
<1>3. Listed(waiters[l]) = Waiting(l) /\ Once(waiters[l])
  BY <1>2, WaitersAsSets DEF WaitersInv
<1>4. s \in Seq(Request) /\ Listed(s) = Waiting(l) \ {r} /\ Once(s)
  BY <1>2, <1>3, WithoutFacts, Zenon
<1>5. Waiting(l)' = Waiting(l) \ {r}
  BY <1>1 DEF Waiting, Registered
<1>6. \A q \in Request \ {r} : pc'[q] = pc[q]
  BY <1>1
<1> HIDE DEF s
<1>7. waiters' \in [Lock -> Seq(Request)] /\ WaitersAreWaiting'
  BY <1>1, <1>4, <1>5, <1>6, OneSliceChanges, Zenon
<1> QED
  BY <1>1, <1>7, Zenon DEF WaitersInv, ManagerTypeOK

\* The deletion of a request's own node records at most a callback for it.
LEMMA OwnNodeCallback ==
    ASSUME LockInv, ManagerTypeOK, NEW r \in Request, DeleteOwnNode(r)
    PROVE  callbacks' \subseteq Path
<1>1. path[r] \in Path
  BY DEF LockInv
<1> QED
  BY <1>1 DEF DeleteOwnNode, ManagerTypeOK

\* The steps of a request outside Register and Deregister.
LEMMA RequestKeepsWaiters ==
    ASSUME LockInv, WaitersInv, NEW r \in Request, NEW to,
           pc' = [pc EXCEPT ![r] = to], waiters' = waiters,
           to \in Registered <=> pc[r] \in Registered,
           locks' \subseteq Path, token' \in [Request -> BOOLEAN], callbacks' \subseteq Path
    PROVE  WaitersInv'
<1>1. \A q \in Request : pc'[q] \in Registered <=> pc[q] \in Registered
  BY DEF LockInv
<1>2. WaitersAreWaiting'
  BY <1>1, OutsideWaitForLock DEF WaitersInv
<1> QED
  BY <1>2 DEF WaitersInv, ManagerTypeOK

LEMMA TryLockStepKeepsWaiters ==
    ASSUME LockInv, WaitersInv, NEW r \in Request, Call(r) \/ TryLockStep(r)
    PROVE  WaitersInv'
<1>1. /\ ManagerTypeOK /\ path[r] \in Path
      /\ locks \subseteq Path /\ token \in [Request -> BOOLEAN] /\ callbacks \subseteq Path
  BY DEF WaitersInv, ManagerTypeOK, LockInv
<1> USE DEF Goto, Registered
<1>2. CASE Call(r)
  BY <1>1, <1>2, RequestKeepsWaiters, Zenon DEF Call
<1>3. CASE EnsureDirExists(r)
  BY <1>1, <1>3, RequestKeepsWaiters, Zenon DEF EnsureDirExists
<1>4. CASE EnsureDirCreate(r)
  BY <1>1, <1>4, RequestKeepsWaiters, Zenon DEF EnsureDirCreate
<1>5. CASE CreateLockNode(r)
  BY <1>1, <1>5, RequestKeepsWaiters, Zenon DEF CreateLockNode
<1>6. CASE CheckLockAcquired(r)
  <2>1. PICK to \in {"abandon", "record", "register"} : pc' = [pc EXCEPT ![r] = to]
    BY <1>6, Zenon DEF CheckLockAcquired
  <2> QED
    BY <1>1, <1>6, <2>1, RequestKeepsWaiters, Zenon DEF CheckLockAcquired
<1>7. CASE Record(r)
  BY <1>1, <1>7, RequestKeepsWaiters, Zenon DEF Record
<1>8. CASE Abandon(r)
  BY <1>1, <1>8, OwnNodeCallback, RequestKeepsWaiters, Zenon DEF Abandon
<1>9. CASE Register(r)
  BY <1>9, RegisterKeepsWaiters
<1>10. CASE Wakeup(r)
  <2>1. token' \in [Request -> BOOLEAN]
    BY <1>1, <1>10 DEF Wakeup
  <2> QED
    BY <1>1, <1>10, <2>1, RequestKeepsWaiters, Zenon DEF Wakeup
<1>11. CASE TimerFires(r)
  BY <1>1, <1>11, RequestKeepsWaiters, Zenon DEF TimerFires
<1>12. CASE RecheckLockAcquired(r)
  <2>1. PICK to \in {"abandonLate", "recordLate", "wait"} : pc' = [pc EXCEPT ![r] = to]
    BY <1>12, Zenon DEF RecheckLockAcquired
  <2> QED
    BY <1>1, <1>12, <2>1, RequestKeepsWaiters, Zenon DEF RecheckLockAcquired
<1>13. CASE RecordLate(r)
  BY <1>1, <1>13, RequestKeepsWaiters, Zenon DEF RecordLate
<1>14. CASE AbandonLate(r)
  BY <1>1, <1>14, OwnNodeCallback, RequestKeepsWaiters, Zenon DEF AbandonLate
<1>15. CASE Deregister(r)
  BY <1>15, DeregisterKeepsWaiters
<1> QED
  BY <1>2, <1>3, <1>4, <1>5, <1>6, <1>7, <1>8, <1>9, <1>10, <1>11, <1>12, <1>13,
     <1>14, <1>15 DEF TryLockStep

\* Every step of the server keeps the slices of waiters and the calls in step.
LEMMA NextWaitersInv == LockInv /\ WaitersInv /\ [LockNext]_lockVars => WaitersInv'
<1> SUFFICES ASSUME LockInv, WaitersInv, [LockNext]_lockVars PROVE WaitersInv'
  OBVIOUS
<1>1. /\ ManagerTypeOK
      /\ locks \subseteq Path /\ token \in [Request -> BOOLEAN] /\ callbacks \subseteq Path
  BY DEF WaitersInv, ManagerTypeOK
<1>2. ASSUME UNCHANGED <<pc, waiters, locks>>,
             token' \in [Request -> BOOLEAN], callbacks' \subseteq Path
      PROVE  WaitersInv'
  BY <1>2, OutsideWaitForLock DEF WaitersInv, ManagerTypeOK
<1>3. ASSUME NEW r \in Request, Call(r) \/ TryLockStep(r)
      PROVE  WaitersInv'
  BY <1>3, TryLockStepKeepsWaiters
<1>4. ASSUME NEW r \in Request, UnlockForget(r)
      PROVE  WaitersInv'
  BY <1>1, <1>4, RequestKeepsWaiters, Zenon DEF UnlockForget, Goto, Registered
<1>5. ASSUME NEW r \in Request, UnlockDelete(r)
      PROVE  WaitersInv'
  BY <1>1, <1>5, OwnNodeCallback, RequestKeepsWaiters, Zenon DEF UnlockDelete, Goto, Registered
<1>6. ASSUME NEW p \in callbacks, OnNodeDeleted(p)
      PROVE  WaitersInv'
  <2>1. token' \in [Request -> BOOLEAN]
    BY <1>6, Zenon DEF OnNodeDeleted
  <2> QED
    BY <1>1, <1>2, <1>6, <2>1 DEF OnNodeDeleted
<1>7. ASSUME NEW sid \in Session, SessionEnds(sid)
      PROVE  WaitersInv'
  <2>1. EphemeralsOf(sid) \subseteq Path
    BY DEF EphemeralsOf, LockInv, StoreInv, StoreTypeOK
  <2> QED
    BY <1>1, <1>2, <1>7, <2>1 DEF SessionEnds
<1>8. ASSUME NEW p, ClientCreates(p)
      PROVE  WaitersInv'
  BY <1>1, <1>2, <1>8 DEF ClientCreates, managerVars
<1>9. ASSUME NEW p, ClientDeletes(p)
      PROVE  WaitersInv'
  <2>1. p \in Path
    BY <1>9 DEF ClientDeletes, Delete, CanDelete, Exists, LockInv, StoreInv, StoreTypeOK
  <2> QED
    BY <1>1, <1>2, <1>9, <2>1 DEF ClientDeletes
<1>10. CASE UNCHANGED lockVars
  BY <1>1, <1>2, <1>10 DEF lockVars, managerVars
<1> QED
  BY <1>3, <1>4, <1>5, <1>6, <1>7, <1>8, <1>9, <1>10 DEF LockNext

LEMMA WaitersInvHolds == LockSpec => []WaitersInv
<1>1. LockInit => WaitersInv
  BY LockAssumption DEF LockInit, WaitersInv, ManagerTypeOK, WaitersAreWaiting, Registered
<1> QED
  BY <1>1, NextWaitersInv, LockInvHolds, PTL DEF LockSpec

(***************************************************************************)
(* The slice of waiter channels of a lock holds one channel for each call  *)
(* inside waitForLock and nothing else, whatever the order in which calls  *)
(* register, are notified, time out and run their deferred removal.        *)
(***************************************************************************)
THEOREM WaitersTheorem == LockSpec => []WaitersAreWaiting
<1>1. WaitersInv => WaitersAreWaiting
  BY DEF WaitersInv
<1> QED
  BY <1>1, WaitersInvHolds, PTL

(***************************************************************************)
(* The maps of the lock manager keep their types: what is recorded as      *)
(* held, registered or about to be called back are paths and requests.     *)
(***************************************************************************)
THEOREM LockTypeTheorem == LockSpec => []LockTypeOK
<1>1. LockInv /\ WaitersInv => LockTypeOK
  BY DEF LockInv, WaitersInv, ManagerTypeOK, LockTypeOK, StoreInv
<1> QED
  BY <1>1, LockInvHolds, WaitersInvHolds, PTL

-----------------------------------------------------------------------------
(***************************************************************************)
(* The lock manager implements FairLock: the creation of a lock node is    *)
(* Arrive, a successful checkLockAcquired is Grant, the deletion of lock   *)
(* nodes, whoever deletes them, is Leave, and every other step leaves the  *)
(* abstract state alone.                                                   *)
(***************************************************************************)
\* The abstract state of LockManager's Fair.
Tickets == [r \in Request |-> IF HasNode(r) THEN Sequence(r) ELSE 0]
Owners == {r \in Request : Holds(r)}

\* A request with a node is queued in the abstract sense.
LEMMA TicketIsPositive ==
    ASSUME LockInv, NEW r \in Request, HasNode(r)
    PROVE  Tickets[r] # 0
<1>1. Sequence(r) \in 1..seqCounter
  BY QueuedIsListed, Zenon
<1>2. Sequence(r) # 0
  BY <1>1 DEF LockInv, StoreInv, StoreTypeOK
<1> QED
  BY <1>2 DEF Tickets

\* A step that gives nobody a node and grants nothing is Leave, or no step at all.
LEMMA LeaveOrNothing ==
    ASSUME LockInv, LockInv', path' = path, seqCounter' = seqCounter,
           \A r \in Request : HasNode(r)' =>
               HasNode(r) /\ (pc'[r] \in Acquired <=> pc[r] \in Acquired)
    PROVE  Fair!Next \/ UNCHANGED Fair!fairVars
<1> DEFINE S == {r \in Request : HasNode(r) /\ ~HasNode(r)'}
<1>1. \A r \in Request : Sequence(r)' = Sequence(r)
  BY DEF Sequence
<1>2. CASE S = {}
  <2>1. \A r \in Request : HasNode(r)' <=> HasNode(r)
    BY <1>2
  <2>2. Tickets' = Tickets
    BY <1>1, <2>1 DEF Tickets
  <2>3. Owners' = Owners
    BY <2>1 DEF Owners, Holds
  <2> QED
    BY <2>2, <2>3 DEF Fair!fairVars, Tickets, Owners
<1>3. CASE S # {}
  <2>1. PICK s \in S : TRUE
    BY <1>3
  <2>2. Tickets[s] # 0
    BY <2>1, TicketIsPositive
  <2>3. Tickets' = [r \in Request |-> IF r \in S THEN 0 ELSE Tickets[r]]
    BY <1>1 DEF Tickets
  <2>4. Owners' = Owners \ S
    BY DEF Owners, Holds
  <2>5. Fair!Leave(S)
    BY <2>1, <2>2, <2>3, <2>4 DEF Fair!Leave, Fair!Queued, Tickets, Owners
  <2>6. S \in SUBSET Request
    OBVIOUS
  <2> QED
    BY <2>5, <2>6 DEF Fair!Next
<1> QED
  BY <1>2, <1>3

\* A successful check of a request whose node exists is Grant.
LEMMA CheckGrants ==
    ASSUME LockInv, LockInv', NEW r \in Request, UNCHANGED storeVars, path' = path,
           IsFirst(r), pc[r] \notin Acquired,
           \E to \in Acquired : pc' = [pc EXCEPT ![r] = to]
    PROVE  Fair!Next \/ UNCHANGED Fair!fairVars
<1>1. /\ pc'[r] \in Acquired
      /\ \A x \in Request : x # r => pc'[x] = pc[x]
  BY DEF LockInv
<1>2. \A x \in Request : /\ Sequence(x)' = Sequence(x)
                         /\ HasNode(x)' = HasNode(x)
  BY DEF Sequence, HasNode, Exists, storeVars
<1>3. Tickets' = Tickets /\ seqCounter' = seqCounter
  BY <1>2 DEF Tickets, storeVars
<1>4. CASE ~HasNode(r)
  <2>1. Owners' = Owners
    BY <1>1, <1>2, <1>4 DEF Owners, Holds
  <2> QED
    BY <1>3, <2>1 DEF Fair!fairVars, Tickets, Owners
<1>5. CASE HasNode(r)
  <2>1. Owners' = Owners \cup {r} /\ r \notin Owners
    BY <1>1, <1>2, <1>5 DEF Owners, Holds
  <2>2. Tickets[r] # 0
    BY <1>5, TicketIsPositive
  <2>3. ASSUME NEW q \in Request, NameOf[q] = NameOf[r], Tickets[q] # 0
        PROVE  Tickets[r] <= Tickets[q]
    <3>1. HasNode(q)
      BY <2>3 DEF Tickets
    <3>2. baseName(path[q]) \in nodes[lockPath(r)].Children
      BY <2>3, <3>1, QueuedIsListed, Zenon DEF lockPath
    <3>3. Sequence(r) <= Sequence(q)
      BY <3>2 DEF IsFirst, Sequence
    <3> QED
      BY <1>5, <3>1, <3>3 DEF Tickets
  <2>4. Fair!Grant(r)
    BY <1>3, <2>1, <2>2, <2>3 DEF Fair!Grant, Fair!Queued, Tickets, Owners
  <2> QED
    BY <2>4 DEF Fair!Next
<1> QED
  BY <1>4, <1>5

\* The creation of a lock node is Arrive.
LEMMA CreationArrives ==
    ASSUME LockInv, LockInv', NEW r \in Request,
           CanCreate(LockNodeName(r), TRUE),
           Goto(r, "create", "check"),
           Create(LockNodeName(r), r, TRUE, SessionOf[r], TRUE),
           path' = [path EXCEPT ![r] = ActualPath(LockNodeName(r), TRUE)]
    PROVE  Fair!Next
<1> DEFINE q == ActualPath(LockNodeName(r), TRUE)
<1>1. seqCounter \in Nat /\ seqCounter' = seqCounter + 1
  BY DEF LockInv, StoreInv, StoreTypeOK, Create
<1>2. q # Root /\ baseName(q) = <<"lock-", seqCounter + 1>>
  BY <1>1, LockNodeFacts, Zenon
<1>3. DOMAIN nodes' = DOMAIN nodes \cup {q}
  BY DEF Create, CanCreate, Exists, Insert
<1>4. path \in [Request -> Path] /\ path' = [path EXCEPT ![r] = q] /\ path[r] = Root
  BY Zenon DEF LockInv, QueueInv, NodesAreOwn, Goto, BeforeCreate
<1>5. /\ pc' = [pc EXCEPT ![r] = "check"] /\ pc \in [Request -> PC]
      /\ "check" \notin Acquired /\ "create" \notin Acquired /\ pc[r] = "create"
  BY DEF LockInv, Goto, Acquired
<1> HIDE DEF q
<1>6. /\ ~HasNode(r) /\ HasNode(r)' /\ Sequence(r)' = seqCounter + 1
      /\ ~Holds(r) /\ ~Holds(r)'
  <2>1. path'[r] = q /\ pc'[r] = "check"
    BY <1>4, <1>5, Zenon
  <2>2. ~HasNode(r) /\ HasNode(r)'
    BY <1>2, <1>3, <1>4, <2>1, Zenon DEF HasNode, Exists
  <2>3. Sequence(r)' = seqCounter + 1
    <3>1. Sequence(r)' = baseName(q)[2]
      BY <2>1, Zenon DEF Sequence, baseName
    <3> QED
      BY <1>2, <3>1
  <2>4. ~Holds(r) /\ ~Holds(r)'
    BY <1>5, <2>1 DEF Holds
  <2> QED
    BY <2>2, <2>3, <2>4
<1>7. ASSUME NEW x \in Request, x # r
      PROVE  HasNode(x)' = HasNode(x) /\ Sequence(x)' = Sequence(x) /\ Holds(x)' = Holds(x)
  <2>1. path'[x] = path[x] /\ pc'[x] = pc[x] /\ path'[r] = q
    BY <1>4, <1>5, <1>7, Zenon
  <2>2. path[x] # q
    BY <1>2, <1>7, <2>1, Zenon DEF LockInv, QueueInv, NodesAreOwn
  <2> QED
    BY <1>3, <2>1, <2>2, Zenon DEF HasNode, Exists, Sequence, Holds
<1>8. Tickets' = [Tickets EXCEPT ![r] = seqCounter + 1] /\ Tickets[r] = 0
  BY <1>6, <1>7, Zenon DEF Tickets
<1>9. Owners' = Owners
  BY <1>6, <1>7 DEF Owners
<1>10. Fair!Arrive(r)
  BY <1>1, <1>8, <1>9 DEF Fair!Arrive, Fair!Queued, Tickets, Owners
<1> QED
  BY <1>10 DEF Fair!Next

-----------------------------------------------------------------------------
\* Steps that change neither the store nor which requests are past the check.
LEMMA ControlStutters ==
    ASSUME LockInv, LockInv', NEW r \in Request, NEW to,
           UNCHANGED storeVars, path' = path, pc' = [pc EXCEPT ![r] = to],
           to \in Acquired <=> pc[r] \in Acquired
    PROVE  Fair!Next \/ UNCHANGED Fair!fairVars
<1>1. \A x \in Request : pc'[x] \in Acquired <=> pc[x] \in Acquired
  BY DEF LockInv
<1>2. \A x \in Request : HasNode(x)' => HasNode(x)
  BY DEF HasNode, Exists, storeVars
<1>3. seqCounter' = seqCounter
  BY DEF storeVars
<1> QED
  BY <1>1, <1>2, <1>3, LeaveOrNothing

\* The deletion of a request's own node, after which it is gone.
LEMMA DeleteOwnNodeLeaves ==
    ASSUME LockInv, LockInv', NEW r \in Request, NEW to \in GivenUp,
           DeleteOwnNode(r), path' = path, pc' = [pc EXCEPT ![r] = to]
    PROVE  Fair!Next \/ UNCHANGED Fair!fairVars
<1>1. \A x \in Request : pc'[x] = IF x = r THEN to ELSE pc[x]
  BY DEF LockInv
<1>2. ~HasNode(r)'
  BY <1>1 DEF LockInv, NoNodeLeftBehind
<1>3. /\ seqCounter' = seqCounter
      /\ \A p \in DOMAIN nodes' : p \in DOMAIN nodes
  <2>1. CASE CanDelete(path[r], -1)
    BY <2>1 DEF DeleteOwnNode, Delete, RemoveAll
  <2>2. CASE ~CanDelete(path[r], -1)
    BY <2>2 DEF DeleteOwnNode, storeVars
  <2> QED
    BY <2>1, <2>2
<1>4. \A x \in Request : HasNode(x)' =>
         HasNode(x) /\ (pc'[x] \in Acquired <=> pc[x] \in Acquired)
  BY <1>1, <1>2, <1>3 DEF HasNode, Exists
<1> QED
  BY <1>3, <1>4, LeaveOrNothing

\* Steps of the rest of the server: they remove nodes or create directories.
LEMMA ServerStepLeaves ==
    ASSUME LockInv, LockInv', pc' = pc, path' = path, seqCounter' = seqCounter,
           \A p \in DOMAIN nodes' \ {Root} : parentPath(p) \in Dirs => p \in DOMAIN nodes
    PROVE  Fair!Next \/ UNCHANGED Fair!fairVars
<1>1. ASSUME NEW x \in Request, HasNode(x)'
      PROVE  HasNode(x)
  <2>1. path[x] # Root /\ path[x] \in DOMAIN nodes'
    BY <1>1 DEF HasNode, Exists
  <2>2. parentPath(path[x]) = lockPath(x) /\ lockPath(x) \in Dirs
    BY <2>1, LockNodeFacts, Zenon DEF LockInv, QueueInv, NodesAreOwn, StoreInv, StoreTypeOK
  <2> QED
    BY <2>1, <2>2 DEF HasNode, Exists
<1> QED
  BY <1>1, LeaveOrNothing

\* Every step of TryLock and waitForLock is a step of FairLock, or none.
LEMMA TryLockStepRefines ==
    ASSUME LockInv, LockInv', NEW r \in Request, Call(r) \/ TryLockStep(r)
    PROVE  Fair!Next \/ UNCHANGED Fair!fairVars
<1> USE DEF Acquired, GivenUp
<1>1. CASE Call(r)
  BY <1>1, ControlStutters, Zenon DEF Call, Goto
<1>2. CASE EnsureDirExists(r)
  <2>1. PICK to \in {"create", "mkdir"} : pc' = [pc EXCEPT ![r] = to]
    BY <1>2, Zenon DEF EnsureDirExists, Goto
  <2> QED
    BY <1>2, <2>1, ControlStutters, Zenon DEF EnsureDirExists, Goto
<1>3. CASE EnsureDirCreate(r)
  <2>1. CASE ParentOK(lockPath(r))
    <3>1. Create(lockPath(r), NoData, FALSE, NoSession, FALSE) /\ path' = path
      BY <1>3, <2>1, Zenon DEF EnsureDirCreate
    <3>2. lockPath(r) \in LockDirs
      BY LockAssumption DEF lockPath, LockDirs
    <3>3. /\ seqCounter' = seqCounter
          /\ \A p \in DOMAIN nodes' \ {Root} : parentPath(p) \in Dirs => p \in DOMAIN nodes
      BY <3>1, <3>2, DirCreationIsQuiet, Zenon
    <3>4. \A x \in Request : pc'[x] \in Acquired <=> pc[x] \in Acquired
      BY <1>3, Zenon DEF EnsureDirCreate, Goto, LockInv
    <3>5. ASSUME NEW x \in Request, HasNode(x)'
          PROVE  HasNode(x)
      <4>1. path[x] # Root /\ path[x] \in DOMAIN nodes'
        BY <3>1, <3>5 DEF HasNode, Exists
      <4>2. parentPath(path[x]) = lockPath(x) /\ lockPath(x) \in Dirs
        BY <4>1, LockNodeFacts, Zenon DEF LockInv, QueueInv, NodesAreOwn, StoreInv, StoreTypeOK
      <4> QED
        BY <3>3, <4>1, <4>2 DEF HasNode, Exists
    <3> QED
      BY <3>1, <3>3, <3>4, <3>5, LeaveOrNothing, Zenon
  <2>2. CASE ~ParentOK(lockPath(r))
    BY <1>3, <2>2, ControlStutters, Zenon DEF EnsureDirCreate, Goto
  <2> QED
    BY <2>1, <2>2
<1>4. CASE CreateLockNode(r)
  <2>1. CASE /\ CanCreate(LockNodeName(r), TRUE)
             /\ Goto(r, "create", "check")
             /\ Create(LockNodeName(r), r, TRUE, SessionOf[r], TRUE)
             /\ path' = [path EXCEPT ![r] = ActualPath(LockNodeName(r), TRUE)]
    BY <2>1, CreationArrives, Zenon
  <2>2. CASE /\ Goto(r, "create", "failed")
             /\ UNCHANGED <<storeVars, path>>
    BY <2>2, ControlStutters, Zenon DEF Goto
  <2> QED
    BY <1>4, <2>1, <2>2, Zenon DEF CreateLockNode
<1>5. CASE CheckLockAcquired(r)
  <2>1. PICK to \in {"abandon", "record", "register"} :
          /\ to = "record" => IsFirst(r)
          /\ pc' = [pc EXCEPT ![r] = to]
          /\ pc[r] = "check"
          /\ UNCHANGED storeVars /\ path' = path
    BY <1>5, Zenon DEF CheckLockAcquired, Goto
  <2>2. CASE to = "record"
    BY <2>1, <2>2, CheckGrants, Zenon
  <2>3. CASE to # "record"
    BY <2>1, <2>3, ControlStutters, Zenon
  <2> QED
    BY <2>2, <2>3
<1>6. CASE Record(r)
  BY <1>6, ControlStutters, Zenon DEF Record, Goto
<1>7. CASE Abandon(r)
  BY <1>7, DeleteOwnNodeLeaves, Zenon DEF Abandon, Goto
<1>8. CASE Register(r)
  BY <1>8, ControlStutters, Zenon DEF Register, Goto
<1>9. CASE Wakeup(r)
  BY <1>9, ControlStutters, Zenon DEF Wakeup, Goto
<1>10. CASE TimerFires(r)
  BY <1>10, ControlStutters, Zenon DEF TimerFires, Goto
<1>11. CASE RecheckLockAcquired(r)
  <2>1. PICK to \in {"abandonLate", "recordLate", "wait"} :
          /\ to = "recordLate" => IsFirst(r)
          /\ pc' = [pc EXCEPT ![r] = to]
          /\ pc[r] = "recheck"
          /\ UNCHANGED storeVars /\ path' = path
    BY <1>11, Zenon DEF RecheckLockAcquired, Goto
  <2>2. CASE to = "recordLate"
    BY <2>1, <2>2, CheckGrants, Zenon
  <2>3. CASE to # "recordLate"
    BY <2>1, <2>3, ControlStutters, Zenon
  <2> QED
    BY <2>2, <2>3
<1>12. CASE RecordLate(r)
  BY <1>12, ControlStutters, Zenon DEF RecordLate, Goto
<1>13. CASE AbandonLate(r)
  BY <1>13, DeleteOwnNodeLeaves, Zenon DEF AbandonLate, Goto
<1>14. CASE Deregister(r)
  <2>1. CASE Goto(r, "leaveGranted", "granted")
    BY <1>14, <2>1, ControlStutters, Zenon DEF Deregister, Goto
  <2>2. CASE Goto(r, "leaveFailed", "failed")
    BY <1>14, <2>2, ControlStutters, Zenon DEF Deregister, Goto
  <2> QED
    BY <1>14, <2>1, <2>2 DEF Deregister
<1> QED
  BY <1>1, <1>2, <1>3, <1>4, <1>5, <1>6, <1>7, <1>8, <1>9, <1>10, <1>11, <1>12,
     <1>13, <1>14 DEF TryLockStep

(***************************************************************************)
(* The lock manager implements FairLock: under every interleaving of       *)
(* TryLock, Unlock, session expiry and client deletions, a lock is granted *)
(* only to the oldest request still queued for it.                         *)
(***************************************************************************)
THEOREM RefinementTheorem == LockSpec => ImplementsFairLock
<1>1. LockInit => Fair!Init
  <2> SUFFICES ASSUME LockInit PROVE Fair!Init
    OBVIOUS
  <2>1. \A r \in Request : path[r] = Root
    BY DEF LockInit
  <2>2. Tickets = [r \in Request |-> 0] /\ Owners = {} /\ seqCounter = 0
    BY <2>1 DEF Tickets, Owners, Holds, HasNode, LockInit, StoreInit
  <2> QED
    BY <2>2 DEF Fair!Init, Tickets, Owners
<1>2. LockInv /\ LockInv' /\ [LockNext]_lockVars => [Fair!Next]_(Fair!fairVars)
  <2> SUFFICES ASSUME LockInv, LockInv', [LockNext]_lockVars
               PROVE  Fair!Next \/ UNCHANGED Fair!fairVars
    OBVIOUS
  <2>1. ASSUME NEW r \in Request, Call(r) \/ TryLockStep(r)
        PROVE  Fair!Next \/ UNCHANGED Fair!fairVars
    BY <2>1, TryLockStepRefines
  <2>2. ASSUME NEW r \in Request, UnlockForget(r)
        PROVE  Fair!Next \/ UNCHANGED Fair!fairVars
    BY <2>2, ControlStutters, Zenon DEF UnlockForget, Goto, Acquired
  <2>3. ASSUME NEW r \in Request, UnlockDelete(r)
        PROVE  Fair!Next \/ UNCHANGED Fair!fairVars
    BY <2>3, DeleteOwnNodeLeaves, Zenon DEF UnlockDelete, Goto, GivenUp
  <2>4. ASSUME UNCHANGED <<storeVars, pc, path>>
        PROVE  Fair!Next \/ UNCHANGED Fair!fairVars
    BY <2>4, ServerStepLeaves DEF storeVars
  <2>5. ASSUME NEW sid \in Session, SessionEnds(sid)
        PROVE  Fair!Next \/ UNCHANGED Fair!fairVars
    BY <2>5, ServerStepLeaves DEF SessionEnds, DeleteEphemerals, RemoveAll
  <2>6. ASSUME NEW p \in LockDirs, ClientCreates(p)
        PROVE  Fair!Next \/ UNCHANGED Fair!fairVars
    BY <2>6, DirCreationIsQuiet, ServerStepLeaves, Zenon DEF ClientCreates, managerVars
  <2>7. ASSUME NEW p, ClientDeletes(p)
        PROVE  Fair!Next \/ UNCHANGED Fair!fairVars
    BY <2>7, ServerStepLeaves DEF ClientDeletes, Delete, RemoveAll
  <2>8. ASSUME NEW p \in callbacks, OnNodeDeleted(p)
        PROVE  Fair!Next \/ UNCHANGED Fair!fairVars
    BY <2>4, <2>8 DEF OnNodeDeleted
  <2>9. CASE UNCHANGED lockVars
    BY <2>4, <2>9 DEF lockVars, managerVars
  <2> QED
    BY <2>1, <2>2, <2>3, <2>5, <2>6, <2>7, <2>8, <2>9 DEF LockNext
<1> QED
  BY <1>1, <1>2, LockInvHolds, PTL DEF LockSpec, ImplementsFairLock, Fair!Spec

-----------------------------------------------------------------------------
(***************************************************************************)
(* The names of the lock- nodes.  checkLockAcquired compares names, and    *)
(* the model compares numbers: the theorems at the end say that this is    *)
(* the same.  What itoa and the loop of parseSequence compute is proved by *)
(* least counterexample, after showing that each satisfies its equation.   *)
(***************************************************************************)
\* Every nonempty set of naturals has a least element: the form in which induction is used.
LEMMA LeastNatural ==
    ASSUME NEW T \in SUBSET Nat, T # {}
    PROVE  \E x \in T : \A y \in T : x <= y
<1> DEFINE R == {ss \in Nat \X Nat : ss[1] < ss[2]}
<1>1. IsWellFoundedOn(R, Nat)
  BY NatLessThanWellFounded, Zenon DEF OpToRel
<1> HIDE DEF R
<1>2. PICK x \in T : \A y \in T : ~(<<y, x>> \in R)
  BY <1>1, WFMin, Zenon
<1>3. ASSUME NEW y \in T PROVE x <= y
  <2>1. ~(y < x)
    BY <1>2, Zenon DEF R
  <2>2. x \in Nat /\ y \in Nat
    BY Zenon
  <2> QED
    BY <2>1, <2>2
<1> QED
  BY <1>3

\* A number is its quotient and its last digit.
LEMMA DivMod ==
    ASSUME NEW k \in Nat
    PROVE  /\ k \div Radix \in Nat /\ k % Radix \in 0..(Radix - 1)
           /\ k = ((k \div Radix) * Radix) + (k % Radix)
BY NumeralsAssumption

\* The loop of itoa divides until it is done.
LEMMA DivLess ==
    ASSUME NEW k \in Nat, k >= Radix
    PROVE  k \div Radix < k /\ k \div Radix >= 1
BY NumeralsAssumption, DivMod

\* Division keeps the order.
LEMMA DivMono ==
    ASSUME NEW k \in Nat, NEW m \in Nat, k <= m
    PROVE  k \div Radix <= m \div Radix
BY NumeralsAssumption, DivMod

\* f satisfies the equation of itoa up to n.
ItoaUpTo(f, n) ==
    f = [k \in 0..n |-> IF k < Radix THEN <<k>> ELSE Append(f[k \div Radix], k % Radix)]

\* The equation at one number.
LEMMA ItoaUpToValue ==
    ASSUME NEW n \in Nat, NEW f, ItoaUpTo(f, n), NEW k \in 0..n
    PROVE  f[k] = IF k < Radix THEN <<k>> ELSE Append(f[k \div Radix], k % Radix)
BY Zenon DEF ItoaUpTo

\* For every bound there is a function that satisfies the equation up to it.
LEMMA ItoaUpToExists ==
    ASSUME NEW n \in Nat
    PROVE  \E f : ItoaUpTo(f, n)
<1> DEFINE T == {m \in Nat : ~\E f : ItoaUpTo(f, m)}
<1> SUFFICES ASSUME T # {} PROVE FALSE
  BY Zenon
<1>1. PICK x \in T : \A y \in T : x <= y
  <2>1. T \in SUBSET Nat
    OBVIOUS
  <2> HIDE DEF T
  <2> QED
    BY <2>1, LeastNatural
<1>2. x \in Nat /\ ~\E f : ItoaUpTo(f, x)
  BY <1>1
<1>3. CASE x = 0
  <2> DEFINE f == [k \in 0..0 |-> <<k>>]
  <2>1. \A k \in 0..0 : k < Radix
    BY NumeralsAssumption
  <2>2. f = [k \in 0..0 |-> IF k < Radix THEN <<k>> ELSE Append(f[k \div Radix], k % Radix)]
    BY <2>1, Zenon
  <2> QED
    BY <1>2, <1>3, <2>2, Zenon DEF ItoaUpTo
<1>4. CASE x # 0
  <2>1. x - 1 \in Nat /\ ~(x <= x - 1)
    BY <1>2, <1>4
  <2>2. PICK f : ItoaUpTo(f, x - 1)
    BY <1>1, <2>1, Zenon
  <2> DEFINE g == [k \in 0..x |-> IF k < Radix THEN <<k>> ELSE Append(f[k \div Radix], k % Radix)]
  <2>3. ASSUME NEW k \in 0..x, ~(k < Radix) PROVE f[k \div Radix] = g[k \div Radix]
    <3> DEFINE j == k \div Radix
    <3>1. k \in Nat /\ Radix \in Nat /\ k >= Radix
      BY <1>2, <2>3, NumeralsAssumption
    <3>2. j < k /\ j \in Nat
      BY <3>1, DivLess, DivMod, Zenon
    <3>3. j \in 0..(x - 1) /\ j \in 0..x
      BY <1>2, <3>1, <3>2
    <3> HIDE DEF j
    <3>4. f[j] = IF j < Radix THEN <<j>> ELSE Append(f[j \div Radix], j % Radix)
      BY <2>1, <2>2, <3>3, ItoaUpToValue, Zenon
    <3>5. g[j] = IF j < Radix THEN <<j>> ELSE Append(f[j \div Radix], j % Radix)
      BY <3>3, Zenon
    <3> QED
      BY <3>4, <3>5, Zenon DEF j
  <2>4. g = [k \in 0..x |-> IF k < Radix THEN <<k>> ELSE Append(g[k \div Radix], k % Radix)]
    BY <2>3, Zenon
  <2> QED
    BY <1>2, <2>4, Zenon DEF ItoaUpTo
<1> QED
  BY <1>3, <1>4

\* Two such functions agree where both are defined.
LEMMA ItoaUpToAgree ==
    ASSUME NEW n \in Nat, NEW m \in Nat, NEW f, NEW g, ItoaUpTo(f, n), ItoaUpTo(g, m),
           NEW k \in Nat, k <= n, k <= m
    PROVE  f[k] = g[k]
<1> DEFINE T == {i \in Nat : i <= n /\ i <= m /\ f[i] # g[i]}
<1> SUFFICES ASSUME T # {} PROVE FALSE
  BY Zenon
<1>1. PICK x \in T : \A y \in T : x <= y
  <2>1. T \in SUBSET Nat
    OBVIOUS
  <2> HIDE DEF T
  <2> QED
    BY <2>1, LeastNatural
<1>2. x \in Nat /\ x \in 0..n /\ x \in 0..m /\ f[x] # g[x]
  BY <1>1
<1>3. /\ f[x] = IF x < Radix THEN <<x>> ELSE Append(f[x \div Radix], x % Radix)
      /\ g[x] = IF x < Radix THEN <<x>> ELSE Append(g[x \div Radix], x % Radix)
  BY <1>2, ItoaUpToValue, Zenon
<1>4. ~(x < Radix)
  BY <1>2, <1>3, Zenon
<1>5. x >= Radix
  BY <1>2, <1>4, NumeralsAssumption
<1>6. x \div Radix \in Nat /\ x \div Radix < x
  BY <1>2, <1>5, DivLess, DivMod, Zenon
<1> DEFINE j == x \div Radix
<1> HIDE DEF j
<1>7. j \in Nat /\ j <= n /\ j <= m /\ ~(x <= j)
  BY <1>2, <1>6 DEF j
<1>8. f[j] = g[j]
  BY <1>1, <1>7, Zenon
<1> QED
  BY <1>2, <1>3, <1>4, <1>8, Zenon DEF j

\* itoa satisfies its equation.
LEMMA ItoaDef ==
    itoa = [k \in Nat |-> IF k < Radix THEN <<k>> ELSE Append(itoa[k \div Radix], k % Radix)]
<1> DEFINE F(n) == CHOOSE f : ItoaUpTo(f, n)
           g == [n \in Nat |-> F(n)[n]]
<1>1. \A n \in Nat : ItoaUpTo(F(n), n)
  BY ItoaUpToExists, Zenon
<1> HIDE DEF F
<1>2. ASSUME NEW k \in Nat
      PROVE  g[k] = IF k < Radix THEN <<k>> ELSE Append(g[k \div Radix], k % Radix)
  <2>0. k \in 0..k
    BY <1>2
  <2>1. g[k] = IF k < Radix THEN <<k>> ELSE Append(F(k)[k \div Radix], k % Radix)
    BY <1>1, <2>0, ItoaUpToValue, Zenon
  <2>2. CASE k < Radix
    BY <2>1, <2>2, Zenon
  <2>3. CASE ~(k < Radix)
    <3> DEFINE j == k \div Radix
    <3>1. k >= Radix
      BY <2>3, NumeralsAssumption
    <3>2. j \in Nat /\ j < k
      BY <3>1, DivLess, DivMod, Zenon
    <3> HIDE DEF j
    <3>3. j <= k /\ j <= j
      BY <3>2
    <3>4. F(k)[j] = F(j)[j]
      <4>1. ItoaUpTo(F(k), k) /\ ItoaUpTo(F(j), j)
        BY <1>1, <3>2, Zenon
      <4> QED
        BY <1>2, <3>2, <3>3, <4>1, ItoaUpToAgree
    <3>5. g[j] = F(k)[j]
      BY <3>2, <3>4, Zenon
    <3> QED
      BY <2>1, <2>3, <3>5, Zenon DEF j
  <2> QED
    BY <2>2, <2>3, Zenon
<1>3. g = [k \in Nat |-> IF k < Radix THEN <<k>> ELSE Append(g[k \div Radix], k % Radix)]
  BY <1>2, Zenon
<1> QED
  BY <1>3, Zenon DEF itoa

Digit == 0..(Radix - 1)

\* The two cases of itoa.
LEMMA ItoaStep ==
    ASSUME NEW k \in Nat
    PROVE  /\ k < Radix => itoa[k] = <<k>>
           /\ ~(k < Radix) => itoa[k] = Append(itoa[k \div Radix], k % Radix)
<1>1. itoa[k] = IF k < Radix THEN <<k>> ELSE Append(itoa[k \div Radix], k % Radix)
  BY ItoaDef, Zenon
<1> QED
  BY <1>1, Zenon

\* A numeral is a nonempty sequence of digits.
LEMMA ItoaType ==
    ASSUME NEW k \in Nat
    PROVE  itoa[k] \in Seq(Digit) /\ Len(itoa[k]) \in Nat \ {0}
<1> DEFINE T == {m \in Nat : ~(itoa[m] \in Seq(Digit) /\ Len(itoa[m]) \in Nat \ {0})}
<1> SUFFICES ASSUME T # {} PROVE FALSE
  BY Zenon
<1>1. PICK x \in T : \A y \in T : x <= y
  <2>1. T \in SUBSET Nat
    OBVIOUS
  <2> HIDE DEF T
  <2> QED
    BY <2>1, LeastNatural
<1>2. x \in Nat /\ ~(itoa[x] \in Seq(Digit) /\ Len(itoa[x]) \in Nat \ {0})
  BY <1>1, Zenon
<1>3. CASE x < Radix
  <2>1. x \in Digit
    BY <1>2, <1>3, NumeralsAssumption DEF Digit
  <2>2. itoa[x] = <<x>>
    BY <1>2, <1>3, ItoaStep, Zenon
  <2> HIDE DEF Digit
  <2> QED
    BY <1>2, <2>1, <2>2
<1>4. CASE ~(x < Radix)
  <2> DEFINE j == x \div Radix
             d == x % Radix
  <2>1. x >= Radix
    BY <1>2, <1>4, NumeralsAssumption
  <2>2. j \in Nat /\ j < x /\ d \in Digit
    BY <1>2, <2>1, DivLess, DivMod, Zenon DEF Digit
  <2>3. itoa[x] = Append(itoa[j], d)
    BY <1>2, <1>4, ItoaStep, Zenon
  <2> HIDE DEF j, d
  <2>4. ~(x <= j)
    BY <1>2, <2>2
  <2>5. itoa[j] \in Seq(Digit)
    BY <1>1, <2>2, <2>4, Zenon
  <2> HIDE DEF Digit
  <2> QED
    BY <1>2, <2>2, <2>3, <2>5
<1> QED
  BY <1>3, <1>4

\* A smaller number has no longer numeral.
LEMMA ItoaLength ==
    ASSUME NEW k \in Nat, NEW m \in Nat, k <= m
    PROVE  Len(itoa[k]) <= Len(itoa[m])
<1> DEFINE T == {x \in Nat : \E y \in Nat : x <= y /\ ~(Len(itoa[x]) <= Len(itoa[y]))}
<1> SUFFICES ASSUME T # {} PROVE FALSE
  BY Zenon
<1>1. PICK x \in T : \A z \in T : x <= z
  <2>1. T \in SUBSET Nat
    OBVIOUS
  <2> HIDE DEF T
  <2> QED
    BY <2>1, LeastNatural
<1>2. PICK y \in Nat : x <= y /\ ~(Len(itoa[x]) <= Len(itoa[y]))
  BY <1>1, Zenon
<1>3. x \in Nat
  BY <1>1
<1>4. \A n \in Nat : Len(itoa[n]) \in Nat \ {0}
  BY ItoaType, Zenon
<1>5. CASE x < Radix
  <2>1. itoa[x] = <<x>>
    BY <1>3, <1>5, ItoaStep, Zenon
  <2>2. Len(itoa[x]) = 1
    BY <2>1
  <2>3. Len(itoa[y]) \in Nat \ {0}
    BY <1>4, Zenon
  <2>4. 1 <= Len(itoa[y])
    BY <2>3
  <2> QED
    BY <1>2, <2>2, <2>4, Zenon
<1>6. CASE ~(x < Radix)
  <2> DEFINE i == x \div Radix
             j == y \div Radix
  <2>1. x >= Radix /\ ~(y < Radix)
    BY <1>2, <1>3, <1>6, NumeralsAssumption
  <2>2. i \in Nat /\ j \in Nat /\ i < x /\ i <= j
    BY <1>2, <1>3, <2>1, DivLess, DivMod, DivMono, Zenon
  <2>3. itoa[x] = Append(itoa[i], x % Radix) /\ itoa[y] = Append(itoa[j], y % Radix)
    BY <1>3, <1>6, <2>1, ItoaStep, Zenon
  <2> HIDE DEF i, j
  <2>4. ~(x <= i)
    BY <1>3, <2>2
  <2>5. Len(itoa[i]) <= Len(itoa[j])
    BY <1>1, <2>2, <2>4, Zenon
  <2>6. itoa[i] \in Seq(Digit) /\ itoa[j] \in Seq(Digit)
    BY <2>2, ItoaType, Zenon
  <2>7. Len(itoa[x]) = Len(itoa[i]) + 1 /\ Len(itoa[y]) = Len(itoa[j]) + 1
    BY <2>3, <2>6
  <2>8. Len(itoa[i]) \in Nat /\ Len(itoa[j]) \in Nat
    BY <2>6
  <2>9. Len(itoa[i]) + 1 <= Len(itoa[j]) + 1
    BY <2>5, <2>8
  <2> QED
    BY <1>2, <2>7, <2>9, Zenon
<1> QED
  BY <1>5, <1>6

-----------------------------------------------------------------------------
\* f satisfies the equation of the loop of parseSequence for the first m digits.
ReadUpTo(f, d, s, m) ==
    f = [n \in 0..m |-> IF n = 0 THEN s ELSE f[n - 1] * Radix + d[n]]

\* For every numeral there is a function that satisfies the equation.
LEMMA ReadUpToExists ==
    ASSUME NEW d, NEW s, NEW m \in Nat
    PROVE  \E f : ReadUpTo(f, d, s, m)
<1> DEFINE T == {n \in Nat : ~\E f : ReadUpTo(f, d, s, n)}
<1> SUFFICES ASSUME T # {} PROVE FALSE
  BY Zenon
<1>1. PICK x \in T : \A y \in T : x <= y
  <2>1. T \in SUBSET Nat
    OBVIOUS
  <2> HIDE DEF T
  <2> QED
    BY <2>1, LeastNatural
<1>2. x \in Nat /\ ~\E f : ReadUpTo(f, d, s, x)
  BY <1>1, Zenon
<1>3. CASE x = 0
  <2> DEFINE f == [n \in 0..0 |-> s]
  <2>1. \A n \in 0..0 : n = 0
    OBVIOUS
  <2>2. f = [n \in 0..0 |-> IF n = 0 THEN s ELSE f[n - 1] * Radix + d[n]]
    BY <2>1, Zenon
  <2> QED
    BY <1>2, <1>3, <2>2, Zenon DEF ReadUpTo
<1>4. CASE x # 0
  <2>1. x - 1 \in Nat /\ ~(x <= x - 1)
    BY <1>2, <1>4
  <2>2. PICK f : ReadUpTo(f, d, s, x - 1)
    BY <1>1, <2>1, Zenon
  <2> DEFINE g == [n \in 0..x |-> IF n = 0 THEN s ELSE f[n - 1] * Radix + d[n]]
  <2>3. ASSUME NEW n \in 0..x, n # 0 PROVE f[n - 1] = g[n - 1]
    <3> DEFINE j == n - 1
    <3>1. j \in 0..(x - 1) /\ j \in 0..x
      BY <1>2, <2>3
    <3> HIDE DEF j
    <3>2. f[j] = IF j = 0 THEN s ELSE f[j - 1] * Radix + d[j]
      BY <2>2, <3>1, Zenon DEF ReadUpTo
    <3>3. g[j] = IF j = 0 THEN s ELSE f[j - 1] * Radix + d[j]
      BY <3>1, Zenon
    <3> QED
      BY <3>2, <3>3, Zenon DEF j
  <2>4. g = [n \in 0..x |-> IF n = 0 THEN s ELSE g[n - 1] * Radix + d[n]]
    BY <2>3, Zenon
  <2> QED
    BY <1>2, <2>4, Zenon DEF ReadUpTo
<1> QED
  BY <1>3, <1>4

\* readDigits satisfies its equation.
LEMMA ReadDef ==
    ASSUME NEW D, NEW d \in Seq(D), NEW s
    PROVE  /\ readDigits(d, s)[0] = s
           /\ \A n \in 1..Len(d) : readDigits(d, s)[n] = readDigits(d, s)[n - 1] * Radix + d[n]
<1>0. Len(d) \in Nat
  OBVIOUS
<1>1. \E f : ReadUpTo(f, d, s, Len(d))
  BY <1>0, ReadUpToExists, Zenon
<1>2. readDigits(d, s) =
         [n \in 0..Len(d) |-> IF n = 0 THEN s ELSE readDigits(d, s)[n - 1] * Radix + d[n]]
  BY <1>1, Zenon DEF readDigits, ReadUpTo
<1> DEFINE f == readDigits(d, s)
<1> HIDE DEF f
<1>3. f = [n \in 0..Len(d) |-> IF n = 0 THEN s ELSE f[n - 1] * Radix + d[n]]
  BY <1>2, Zenon DEF f
<1>4. 0 \in 0..Len(d) /\ \A n \in 1..Len(d) : n \in 0..Len(d) /\ n # 0
  BY <1>0
<1>5. f[0] = s /\ \A n \in 1..Len(d) : f[n] = f[n - 1] * Radix + d[n]
  BY <1>3, <1>4, Zenon
<1> QED
  BY <1>5, Zenon DEF f

\* What the loop has read after n digits.
Read(d, n) == readDigits(d, 0)[n]

\* The loop of parseSequence, one digit at a time.
LEMMA ReadFacts ==
    ASSUME NEW d \in Seq(Digit)
    PROVE  /\ Len(d) \in Nat /\ Read(d, 0) = 0 /\ parseSequence(d) = Read(d, Len(d))
           /\ \A n \in 1..Len(d) : Read(d, n) = Read(d, n - 1) * Radix + d[n]
           /\ \A n \in 1..Len(d) : d[n] \in Nat /\ d[n] < Radix
<1> USE DEF Read
<1>1. Len(d) \in Nat /\ \A n \in 1..Len(d) : d[n] \in Digit
  OBVIOUS
<1>2. \A x \in Digit : x \in Nat /\ x < Radix
  BY NumeralsAssumption DEF Digit
<1>3. /\ readDigits(d, 0)[0] = 0
      /\ \A n \in 1..Len(d) : readDigits(d, 0)[n] = readDigits(d, 0)[n - 1] * Radix + d[n]
  BY ReadDef, Zenon
<1>4. parseSequence(d) = Read(d, Len(d))
  BY Zenon DEF parseSequence
<1> QED
  BY <1>1, <1>2, <1>3, <1>4, Zenon

\* What is read is a natural number.
LEMMA ReadType ==
    ASSUME NEW d \in Seq(Digit), NEW n \in 0..Len(d)
    PROVE  Read(d, n) \in Nat
<1> DEFINE T == {i \in Nat : i <= Len(d) /\ Read(d, i) \notin Nat}
<1>0. Len(d) \in Nat
  OBVIOUS
<1> SUFFICES ASSUME T # {} PROVE FALSE
  BY <1>0
<1>1. PICK x \in T : \A y \in T : x <= y
  <2>1. T \in SUBSET Nat
    OBVIOUS
  <2> HIDE DEF T
  <2> QED
    BY <2>1, LeastNatural
<1>2. x \in Nat /\ x <= Len(d) /\ Read(d, x) \notin Nat
  BY <1>1, Zenon
<1>3. x # 0
  BY <1>2, ReadFacts
<1>4. x \in 1..Len(d) /\ x - 1 \in Nat /\ x - 1 <= Len(d) /\ ~(x <= x - 1)
  BY <1>0, <1>2, <1>3
<1>5. Read(d, x - 1) \in Nat
  BY <1>1, <1>4, Zenon
<1>6. Read(d, x) = Read(d, x - 1) * Radix + d[x] /\ d[x] \in Nat
  BY <1>4, ReadFacts, Zenon
<1>7. \A a, b \in Nat : a * Radix + b \in Nat
  BY NumeralsAssumption
<1> QED
  BY <1>2, <1>5, <1>6, <1>7, Zenon

\* Digits that two numerals have in common, one of them after leading zeros, read the same.
LEMMA ReadShift ==
    ASSUME NEW d \in Seq(Digit), NEW e \in Seq(Digit), NEW off \in Nat, NEW m \in Nat,
           off + m <= Len(d), m <= Len(e), Read(d, off) = 0,
           \A n \in 1..m : d[off + n] = e[n]
    PROVE  Read(d, off + m) = Read(e, m)
<1> DEFINE T == {i \in Nat : i <= m /\ Read(d, off + i) # Read(e, i)}
<1>0. Len(d) \in Nat /\ Len(e) \in Nat
  OBVIOUS
<1> SUFFICES ASSUME T # {} PROVE FALSE
  BY <1>0
<1>1. PICK x \in T : \A y \in T : x <= y
  <2>1. T \in SUBSET Nat
    OBVIOUS
  <2> HIDE DEF T
  <2> QED
    BY <2>1, LeastNatural
<1>2. x \in Nat /\ x <= m /\ Read(d, off + x) # Read(e, x)
  BY <1>1, Zenon
<1>3. CASE x = 0
  <2>1. off + x = off
    BY <1>3
  <2>2. Read(e, x) = 0
    BY <1>3, ReadFacts, Zenon
  <2> QED
    BY <1>2, <2>1, <2>2, Zenon
<1>4. CASE x # 0
  <2>1. /\ x \in 1..Len(e) /\ off + x \in 1..Len(d) /\ x \in 1..m
        /\ x - 1 \in Nat /\ x - 1 <= m /\ ~(x <= x - 1)
        /\ (off + x) - 1 = off + (x - 1)
    BY <1>0, <1>2, <1>4
  <2>2. Read(d, off + (x - 1)) = Read(e, x - 1)
    BY <1>1, <2>1, Zenon
  <2>3. Read(e, x) = Read(e, x - 1) * Radix + e[x]
    BY <2>1, ReadFacts, Zenon
  <2>4. Read(d, off + x) = Read(d, (off + x) - 1) * Radix + d[off + x]
    BY <2>1, ReadFacts, Zenon
  <2> QED
    BY <1>2, <2>1, <2>2, <2>3, <2>4, Zenon
<1> QED
  BY <1>3, <1>4

\* Leading zeros do not count.
LEMMA ReadZeros ==
    ASSUME NEW d \in Seq(Digit), NEW m \in 0..Len(d), \A n \in 1..m : d[n] = 0
    PROVE  Read(d, m) = 0
<1> DEFINE T == {i \in Nat : i <= m /\ Read(d, i) # 0}
<1>0. Len(d) \in Nat /\ m \in Nat /\ m <= Len(d)
  OBVIOUS
<1> SUFFICES ASSUME T # {} PROVE FALSE
  BY <1>0
<1>1. PICK x \in T : \A y \in T : x <= y
  <2>1. T \in SUBSET Nat
    OBVIOUS
  <2> HIDE DEF T
  <2> QED
    BY <2>1, LeastNatural
<1>2. x \in Nat /\ x <= m /\ Read(d, x) # 0
  BY <1>1, Zenon
<1>3. x # 0
  BY <1>2, ReadFacts
<1>4. x \in 1..Len(d) /\ x \in 1..m /\ x - 1 \in Nat /\ x - 1 <= m /\ ~(x <= x - 1)
  BY <1>0, <1>2, <1>3
<1>5. Read(d, x - 1) = 0
  BY <1>1, <1>4, Zenon
<1>6. Read(d, x) = Read(d, x - 1) * Radix + d[x] /\ d[x] = 0
  BY <1>4, ReadFacts, Zenon
<1>7. 0 * Radix + 0 = 0
  BY NumeralsAssumption
<1> QED
  BY <1>2, <1>5, <1>6, <1>7, Zenon

\* One more digit multiplies by the radix and adds the digit.
LEMMA ParseAppend ==
    ASSUME NEW d \in Seq(Digit), NEW x \in Digit
    PROVE  parseSequence(Append(d, x)) = parseSequence(d) * Radix + x
<1> DEFINE e == Append(d, x)
<1>1. /\ e \in Seq(Digit) /\ Len(e) = Len(d) + 1 /\ Len(d) \in Nat /\ e[Len(d) + 1] = x
      /\ \A n \in 1..Len(d) : e[n] = d[n]
  <2> HIDE DEF Digit
  <2> QED
    OBVIOUS
<1> HIDE DEF e
<1>2. Len(e) \in 1..Len(e) /\ Len(e) - 1 = Len(d)
  BY <1>1
<1>3. parseSequence(e) = Read(e, Len(e)) /\ parseSequence(d) = Read(d, Len(d))
  BY <1>1, ReadFacts, Zenon
<1>4. Read(e, Len(e)) = Read(e, Len(d)) * Radix + x
  BY <1>1, <1>2, ReadFacts, Zenon
<1>5. Read(e, 0 + Len(d)) = Read(d, Len(d))
  <2>1. /\ 0 \in Nat /\ 0 + Len(d) <= Len(e) /\ Len(d) <= Len(d)
        /\ \A n \in 1..Len(d) : e[0 + n] = d[n]
    BY <1>1
  <2>2. Read(e, 0) = 0
    BY <1>1, ReadFacts, Zenon
  <2> QED
    BY <1>1, <2>1, <2>2, ReadShift, Zenon
<1>6. 0 + Len(d) = Len(d)
  BY <1>1
<1> QED
  BY <1>3, <1>4, <1>5, <1>6, Zenon DEF e

\* parseSequence reads what itoa writes.
LEMMA ParseItoa ==
    ASSUME NEW k \in Nat
    PROVE  parseSequence(itoa[k]) = k
<1> DEFINE T == {m \in Nat : parseSequence(itoa[m]) # m}
<1> SUFFICES ASSUME T # {} PROVE FALSE
  BY Zenon
<1>1. PICK x \in T : \A y \in T : x <= y
  <2>1. T \in SUBSET Nat
    OBVIOUS
  <2> HIDE DEF T
  <2> QED
    BY <2>1, LeastNatural
<1>2. x \in Nat /\ parseSequence(itoa[x]) # x
  BY <1>1, Zenon
<1>3. CASE x < Radix
  <2> DEFINE d == <<x>>
  <2>1. itoa[x] = d
    BY <1>2, <1>3, ItoaStep, Zenon
  <2>2. d \in Seq(Digit)
    BY <1>2, <2>1, ItoaType, Zenon
  <2>3. Len(d) = 1 /\ d[1] = x /\ 1 \in 1..Len(d) /\ 1 - 1 = 0
    OBVIOUS
  <2> HIDE DEF d
  <2>4. parseSequence(d) = Read(d, 0) * Radix + x /\ Read(d, 0) = 0
    BY <2>2, <2>3, ReadFacts, Zenon
  <2>5. 0 * Radix + x = x
    BY <1>2, NumeralsAssumption
  <2> QED
    BY <1>2, <2>1, <2>4, <2>5, Zenon
<1>4. CASE ~(x < Radix)
  <2> DEFINE j == x \div Radix
             d == x % Radix
  <2>1. x >= Radix
    BY <1>2, <1>4, NumeralsAssumption
  <2>2. j \in Nat /\ j < x /\ d \in Digit /\ x = j * Radix + d
    BY <1>2, <2>1, DivLess, DivMod, Zenon DEF Digit
  <2>3. itoa[x] = Append(itoa[j], d)
    BY <1>2, <1>4, ItoaStep, Zenon
  <2> HIDE DEF j, d
  <2>4. ~(x <= j)
    BY <1>2, <2>2
  <2>5. parseSequence(itoa[j]) = j /\ itoa[j] \in Seq(Digit)
    BY <1>1, <2>2, <2>4, ItoaType, Zenon
  <2>6. parseSequence(itoa[x]) = parseSequence(itoa[j]) * Radix + d
    BY <2>2, <2>3, <2>5, ParseAppend, Zenon
  <2> QED
    BY <1>2, <2>2, <2>5, <2>6, Zenon
<1> QED
  BY <1>3, <1>4

\* The name of a sequential node ends in its number.
LEMMA FormatFacts ==
    ASSUME NEW k \in Nat
    PROVE  /\ formatSequence(k) \in Seq(Digit)
           /\ Len(itoa[k]) <= Width => Len(formatSequence(k)) = Width
           /\ parseSequence(formatSequence(k)) = k
<1> DEFINE s == itoa[k]
           pad == Width - Len(s)
           zeros == [i \in 1..pad |-> 0]
<1>1. s \in Seq(Digit) /\ Len(s) \in Nat
  BY ItoaType
<1>2. parseSequence(s) = k
  BY ParseItoa
<1> HIDE DEF s
<1>3. CASE Len(s) >= Width
  <2>1. formatSequence(k) = s
    BY <1>3, Zenon DEF formatSequence, padLeft, s
  <2>2. Len(s) <= Width => Len(s) = Width
    BY <1>1, <1>3, NumeralsAssumption
  <2> QED
    BY <1>1, <1>2, <2>1, <2>2, Zenon DEF s
<1>4. CASE ~(Len(s) >= Width)
  <2>1. formatSequence(k) = zeros \o s
    BY <1>4, Zenon DEF formatSequence, padLeft, s
  <2>2. pad \in Nat /\ 0 \in Digit
    BY <1>1, <1>4, NumeralsAssumption DEF Digit
  <2> HIDE DEF pad, Digit
  <2>3. zeros \in Seq(Digit) /\ Len(zeros) = pad
    BY <2>2
  <2> DEFINE e == zeros \o s
  <2>4. /\ e \in Seq(Digit) /\ Len(e) = pad + Len(s)
        /\ \A n \in 1..pad : e[n] = zeros[n]
        /\ \A n \in 1..Len(s) : e[pad + n] = s[n]
    <3> HIDE DEF zeros
    <3>1. e \in Seq(Digit) /\ Len(e) = Len(zeros) + Len(s)
      BY <1>1, <2>3
    <3>2. ASSUME NEW n \in 1..pad PROVE e[n] = zeros[n]
      BY <1>1, <2>2, <2>3
    <3>3. ASSUME NEW n \in 1..Len(s) PROVE e[pad + n] = s[n]
      BY <1>1, <2>2, <2>3
    <3> QED
      BY <2>3, <3>1, <3>2, <3>3, Zenon
  <2>5. \A n \in 1..pad : e[n] = 0
    BY <2>4, Zenon
  <2> HIDE DEF e, zeros
  <2>6. pad \in 0..Len(e) /\ pad + Len(s) <= Len(e) /\ Len(s) <= Len(s)
    BY <1>1, <2>2, <2>4
  <2>7. Read(e, pad) = 0
    BY <2>4, <2>5, <2>6, ReadZeros, Zenon
  <2>8. Read(e, pad + Len(s)) = Read(s, Len(s))
    BY <1>1, <2>2, <2>4, <2>6, <2>7, ReadShift, Zenon
  <2>9. parseSequence(e) = parseSequence(s)
    BY <1>1, <2>4, <2>8, ReadFacts, Zenon
  <2>10. pad + Len(s) = Width
    BY <1>1, NumeralsAssumption DEF pad
  <2> QED
    BY <1>2, <2>1, <2>4, <2>9, <2>10, Zenon DEF e
<1> QED
  BY <1>3, <1>4

\* s and t agree before k, and s has the smaller digit there.
LowerAt(s, t, k) == s[k] < t[k] /\ \A j \in 1..(k - 1) : s[j] = t[j]

\* Numbers compare by their leading part first, by their last digit second.
LEMMA Horner ==
    ASSUME NEW a \in Nat, NEW b \in Nat, NEW x \in Nat, NEW y \in Nat, x < Radix, y < Radix
    PROVE  /\ a < b => a * Radix + x < b * Radix + y
           /\ a * Radix + x = b * Radix + y => a = b /\ x = y
           /\ a * Radix + x < b * Radix + y => a < b \/ (a = b /\ x < y)
<1>0. Radix \in Nat
  BY NumeralsAssumption
<1>1. ASSUME NEW c \in Nat, NEW d \in Nat, c < d, NEW u \in Nat, NEW v \in Nat, u < Radix
      PROVE  c * Radix + u < d * Radix + v
  <2>1. PICK e \in Nat : d = c + 1 + e
    <3>1. d - c - 1 \in Nat /\ d = c + 1 + (d - c - 1)
      BY <1>1
    <3> QED
      BY <3>1, Zenon
  <2>2. d * Radix = c * Radix + Radix + e * Radix
    BY <1>0, <2>1
  <2>3. e * Radix \in Nat /\ c * Radix \in Nat
    BY <1>0
  <2> HIDE <2>1
  <2> DEFINE cr == c * Radix
             er == e * Radix
             dr == d * Radix
  <2> HIDE DEF cr, er, dr
  <2>4. dr = cr + Radix + er /\ cr \in Nat /\ er \in Nat
    BY <2>2, <2>3 DEF cr, er, dr
  <2>5. cr + u < dr + v
    BY <1>0, <1>1, <2>4
  <2> QED
    BY <2>5 DEF cr, dr
<1>2. a < b => a * Radix + x < b * Radix + y
  BY <1>1, Zenon
<1>3. b < a => b * Radix + y < a * Radix + x
  BY <1>1, Zenon
<1>4. a * Radix \in Nat /\ b * Radix \in Nat
  BY <1>0
<1>5. a < b \/ a = b \/ b < a
  OBVIOUS
<1> DEFINE ar == a * Radix
           br == b * Radix
<1> HIDE DEF ar, br
<1>6. /\ a < b => ar + x < br + y
      /\ b < a => br + y < ar + x
      /\ a = b => ar = br
      /\ ar \in Nat /\ br \in Nat
  BY <1>2, <1>3, <1>4 DEF ar, br
<1>7. /\ ar + x = br + y => a = b /\ x = y
      /\ ar + x < br + y => a < b \/ (a = b /\ x < y)
  BY <1>5, <1>6
<1> QED
  BY <1>2, <1>7 DEF ar, br

\* Of two numerals of the same length the one that reads lower has the smaller digit
\* where they first differ.
LEMMA ReadOrder ==
    ASSUME NEW s \in Seq(Digit), NEW t \in Seq(Digit), NEW m \in Nat, m <= Len(s), m <= Len(t)
    PROVE  /\ Read(s, m) = Read(t, m) => \A j \in 1..m : s[j] = t[j]
           /\ Read(s, m) < Read(t, m) => \E k \in 1..m : LowerAt(s, t, k)
<1> DEFINE P(i) == /\ Read(s, i) = Read(t, i) => \A j \in 1..i : s[j] = t[j]
                   /\ Read(s, i) < Read(t, i) => \E k \in 1..i : LowerAt(s, t, k)
           T == {i \in Nat : i <= m /\ ~P(i)}
<1>0. Len(s) \in Nat /\ Len(t) \in Nat
  OBVIOUS
<1> SUFFICES ASSUME T # {} PROVE FALSE
  BY <1>0
<1> HIDE DEF P
<1>1. PICK x \in T : \A y \in T : x <= y
  <2>1. T \in SUBSET Nat
    OBVIOUS
  <2> HIDE DEF T
  <2> QED
    BY <2>1, LeastNatural
<1>2. x \in Nat /\ x <= m /\ ~P(x)
  BY <1>1, Zenon
<1>3. CASE x = 0
  <2>1. Read(s, 0) = 0 /\ Read(t, 0) = 0
    BY ReadFacts, Zenon
  <2>2. ~(Read(s, 0) < Read(t, 0)) /\ \A j \in 1..0 : FALSE
    BY <2>1
  <2>3. P(0)
    BY <2>2, Zenon DEF P
  <2> QED
    BY <1>2, <1>3, <2>3, Zenon
<1>4. CASE x # 0
  <2> DEFINE p == x - 1
  <2>1. /\ x \in 1..Len(s) /\ x \in 1..Len(t) /\ p \in 0..Len(s) /\ p \in 0..Len(t)
        /\ p \in Nat /\ p <= m /\ ~(x <= p) /\ x \in 1..x
        /\ \A j \in 1..x : j \in 1..p \/ j = x
        /\ \A j \in 1..p : j \in 1..x
    BY <1>0, <1>2, <1>4
  <2>2. P(p)
    BY <1>1, <2>1, Zenon
  <2>3. /\ Read(s, x) = Read(s, p) * Radix + s[x] /\ Read(t, x) = Read(t, p) * Radix + t[x]
        /\ s[x] \in Nat /\ s[x] < Radix /\ t[x] \in Nat /\ t[x] < Radix
    BY <2>1, ReadFacts, Zenon
  <2> HIDE DEF p
  <2>4. Read(s, p) \in Nat /\ Read(t, p) \in Nat
    BY <2>1, ReadType, Zenon
  <2>5. /\ Read(s, x) = Read(t, x) => Read(s, p) = Read(t, p) /\ s[x] = t[x]
        /\ Read(s, x) < Read(t, x) =>
              Read(s, p) < Read(t, p) \/ (Read(s, p) = Read(t, p) /\ s[x] < t[x])
    BY <2>3, <2>4, Horner
  <2>6. Read(s, x) = Read(t, x) => \A j \in 1..x : s[j] = t[j]
    BY <2>1, <2>2, <2>5, Zenon DEF P
  <2>7. ASSUME Read(s, x) < Read(t, x) PROVE \E k \in 1..x : LowerAt(s, t, k)
    <3>1. CASE Read(s, p) < Read(t, p)
      BY <2>1, <2>2, <3>1, Zenon DEF P
    <3>2. CASE Read(s, p) = Read(t, p) /\ s[x] < t[x]
      <4>1. \A j \in 1..p : s[j] = t[j]
        BY <2>2, <3>2, Zenon DEF P
      <4>2. LowerAt(s, t, x)
        BY <3>2, <4>1, Zenon DEF LowerAt, p
      <4> QED
        BY <2>1, <4>2, Zenon
    <3> QED
      BY <2>5, <2>7, <3>1, <3>2, Zenon
  <2> QED
    BY <1>2, <2>6, <2>7, Zenon DEF P
<1> QED
  BY <1>3, <1>4

\* Numerals that agree up to a place read the same up to it.
LEMMA SamePrefix ==
    ASSUME NEW s \in Seq(Digit), NEW t \in Seq(Digit), Len(s) = Len(t), NEW k \in 1..Len(s)
    PROVE  SubSeq(s, 1, k - 1) = SubSeq(t, 1, k - 1) <=> \A j \in 1..(k - 1) : s[j] = t[j]
<1> HIDE DEF Digit
<1>1. /\ Len(s) \in Nat /\ k - 1 \in 0..Len(s)
      /\ \A j \in 1..(k - 1) : 1 <= j /\ j <= k - 1 /\ (1 + j) - 1 = j
  OBVIOUS
<1> DEFINE p == SubSeq(s, 1, k - 1)
           q == SubSeq(t, 1, k - 1)
<1>2. /\ p = [j \in 1..(k - 1) |-> s[j]] /\ q = [j \in 1..(k - 1) |-> t[j]]
  OBVIOUS
<1> HIDE DEF p, q
<1>3. p = q <=> \A j \in 1..(k - 1) : s[j] = t[j]
  BY <1>2, Zenon
<1> QED
  BY <1>3, Zenon DEF p, q

\* sort.Strings orders numerals of one length as the numbers they stand for.
LEMMA NumeralOrder ==
    ASSUME NEW s \in Seq(Digit), NEW t \in Seq(Digit), Len(s) = Len(t)
    PROVE  SortsBefore(s, t) <=> parseSequence(s) < parseSequence(t)
<1>0. /\ Len(s) \in Nat /\ Len(s) \in 0..Len(s) /\ Len(t) \in 0..Len(t) /\ Len(s) <= Len(s)
      /\ Len(s) <= Len(t)
  OBVIOUS
<1>1. /\ parseSequence(s) = Read(s, Len(s)) /\ parseSequence(t) = Read(t, Len(s))
      /\ Read(s, Len(s)) \in Nat /\ Read(t, Len(s)) \in Nat
  BY <1>0, ReadFacts, ReadType, Zenon
<1>2. SortsBefore(s, t) <=> \E k \in 1..Len(s) : LowerAt(s, t, k)
  <2>1. ~(Len(s) < Len(t))
    BY <1>0
  <2>2. ASSUME NEW k \in 1..Len(s)
        PROVE  /\ LowerAt(s, t, k) <=>
                    s[k] < t[k] /\ SubSeq(s, 1, k - 1) = SubSeq(t, 1, k - 1)
               /\ k <= Len(t)
    <3>1. k <= Len(t)
      BY <1>0
    <3> QED
      BY <3>1, SamePrefix, Zenon DEF LowerAt
  <2> QED
    BY <2>1, <2>2, Zenon DEF SortsBefore
<1>3. /\ Read(s, Len(s)) = Read(t, Len(s)) => \A j \in 1..Len(s) : s[j] = t[j]
      /\ Read(s, Len(s)) < Read(t, Len(s)) => \E k \in 1..Len(s) : LowerAt(s, t, k)
      /\ Read(t, Len(s)) < Read(s, Len(s)) => \E k \in 1..Len(s) : LowerAt(t, s, k)
  <2>1. Len(s) \in Nat /\ Len(s) <= Len(s) /\ Len(s) <= Len(t)
    BY <1>0, Zenon
  <2>2. /\ Read(s, Len(s)) = Read(t, Len(s)) => \A j \in 1..Len(s) : s[j] = t[j]
        /\ Read(s, Len(s)) < Read(t, Len(s)) => \E k \in 1..Len(s) : LowerAt(s, t, k)
    BY <2>1, ReadOrder, Zenon
  <2>3. Read(t, Len(s)) < Read(s, Len(s)) => \E k \in 1..Len(s) : LowerAt(t, s, k)
    BY <2>1, ReadOrder, Zenon
  <2> QED
    BY <2>2, <2>3, Zenon
<1>4. \A j \in 1..Len(s) : s[j] \in Nat /\ t[j] \in Nat
  BY ReadFacts, Zenon
<1>5. ASSUME NEW k \in 1..Len(s), LowerAt(s, t, k) PROVE Read(s, Len(s)) < Read(t, Len(s))
  <2>1. Read(s, Len(s)) # Read(t, Len(s))
    <3>1. s[k] # t[k]
      BY <1>4, <1>5 DEF LowerAt
    <3> QED
      BY <1>3, <3>1, Zenon
  <2>2. ASSUME NEW i \in 1..Len(s), LowerAt(t, s, i) PROVE FALSE
    <3>1. i < k \/ i = k \/ k < i
      BY <1>0
    <3>2. CASE i < k
      <4>1. i \in 1..(k - 1) /\ s[i] \in Nat /\ t[i] \in Nat
        BY <1>0, <1>4, <3>2
      <4>2. s[i] = t[i] /\ t[i] < s[i]
        BY <1>5, <2>2, <4>1, Zenon DEF LowerAt
      <4> QED
        BY <4>1, <4>2
    <3>3. CASE k < i
      <4>1. k \in 1..(i - 1) /\ s[k] \in Nat /\ t[k] \in Nat
        BY <1>0, <1>4, <3>3
      <4>2. s[k] = t[k] /\ s[k] < t[k]
        BY <1>5, <2>2, <4>1, Zenon DEF LowerAt
      <4> QED
        BY <4>1, <4>2
    <3>4. CASE i = k
      <4>1. s[k] \in Nat /\ t[k] \in Nat /\ s[k] < t[k] /\ t[k] < s[k]
        BY <1>4, <1>5, <2>2, <3>4, Zenon DEF LowerAt
      <4> QED
        BY <4>1
    <3> QED
      BY <3>1, <3>2, <3>3, <3>4, Zenon
  <2>3. ~(Read(t, Len(s)) < Read(s, Len(s)))
    BY <1>3, <2>2, Zenon
  <2> QED
    BY <1>1, <2>1, <2>3
<1> QED
  BY <1>1, <1>2, <1>3, <1>5, Zenon

\* Names of the numbers that fit the padding sort by number, and differ when the numbers do.
LEMMA FormatOrder ==
    ASSUME NEW k \in Nat, NEW m \in Nat, Len(itoa[k]) <= Width, Len(itoa[m]) <= Width
    PROVE  /\ SortsBefore(formatSequence(k), formatSequence(m)) <=> k < m
           /\ formatSequence(k) = formatSequence(m) <=> k = m
<1>1. /\ formatSequence(k) \in Seq(Digit) /\ formatSequence(m) \in Seq(Digit)
      /\ Len(formatSequence(k)) = Len(formatSequence(m))
      /\ parseSequence(formatSequence(k)) = k /\ parseSequence(formatSequence(m)) = m
  BY FormatFacts, Zenon
<1>2. SortsBefore(formatSequence(k), formatSequence(m)) <=>
         parseSequence(formatSequence(k)) < parseSequence(formatSequence(m))
  BY <1>1, NumeralOrder, Zenon
<1> QED
  BY <1>1, <1>2, Zenon

-----------------------------------------------------------------------------
\* Store.Create draws no number above the bound.
CounterInv == seqCounter \in 0..MaxSeq

LEMMA CounterStep ==
    ASSUME CounterInv,
           \/ seqCounter' = seqCounter
           \/ seqCounter < MaxSeq /\ seqCounter' = seqCounter + 1
    PROVE  CounterInv'
BY StoreAssumption DEF CounterInv

LEMMA CounterInvHolds == LockSpec => []CounterInv
<1>1. LockInit => CounterInv
  BY StoreAssumption DEF LockInit, StoreInit, CounterInv
<1>2. CounterInv /\ [LockNext]_lockVars => CounterInv'
  <2> SUFFICES ASSUME [LockNext]_lockVars
               PROVE  \/ seqCounter' = seqCounter
                      \/ seqCounter < MaxSeq /\ seqCounter' = seqCounter + 1
    BY CounterStep, Zenon
  <2> USE DEF storeVars, Create, Delete, DeleteEphemerals, DeleteOwnNode
  <2>1. ASSUME NEW r \in Request, TryLockStep(r)
        PROVE  \/ seqCounter' = seqCounter
               \/ seqCounter < MaxSeq /\ seqCounter' = seqCounter + 1
    BY <2>1, Zenon DEF TryLockStep, EnsureDirExists, EnsureDirCreate, CreateLockNode,
         CheckLockAcquired, Record, Abandon, Register, Wakeup, TimerFires,
         RecheckLockAcquired, RecordLate, AbandonLate, Deregister
  <2>2. ASSUME NEW r \in Request, Call(r) \/ UnlockForget(r) \/ UnlockDelete(r)
        PROVE  seqCounter' = seqCounter
    BY <2>2, Zenon DEF Call, UnlockForget, UnlockDelete
  <2>3. ASSUME NEW p, OnNodeDeleted(p) \/ ClientCreates(p) \/ ClientDeletes(p)
        PROVE  seqCounter' = seqCounter
    BY <2>3, Zenon DEF OnNodeDeleted, ClientCreates, ClientDeletes
  <2>4. ASSUME NEW sid \in Session, SessionEnds(sid) PROVE seqCounter' = seqCounter
    BY <2>4, Zenon DEF SessionEnds
  <2>5. CASE UNCHANGED lockVars
    BY <2>5, Zenon DEF lockVars
  <2> QED
    BY <2>1, <2>2, <2>3, <2>4, <2>5, Zenon DEF LockNext
<1> QED
  BY <1>1, <1>2, PTL DEF LockSpec

\* The number of a child of a lock's directory fits the padding.
LEMMA NumbersFit ==
    ASSUME LockInv, CounterInv, NEW r \in Request, HasNode(r),
           NEW n \in nodes[lockPath(r)].Children
    PROVE  n[2] \in Nat /\ Len(itoa[n[2]]) <= Width
<1>1. lockPath(r) \in DOMAIN nodes
  BY QueuedIsListed, Zenon
<1>2. n \in Name /\ lockPath(r) \in Path
  BY <1>1 DEF LockInv, StoreInv, StoreTypeOK, Node
<1> DEFINE p == Child(lockPath(r), n)
<1>3. p \in DOMAIN nodes
  BY <1>1 DEF LockInv, StoreInv, ChildrenMirrorNodes, ListedChildrenExist, Exists
<1>4. p # Root /\ parentPath(p) = lockPath(r) /\ baseName(p) = n
  BY <1>2, ChildFacts
<1> HIDE DEF p
<1>5. parentPath(p) \in {LockDir(l) : l \in Lock}
  BY <1>4, LockAssumption DEF lockPath
<1>6. n[2] <= seqCounter
  BY <1>3, <1>4, <1>5, Zenon DEF LockInv, QueueInv, DirectoryHoldsLockNodes
<1>7. n[2] \in Nat
  BY <1>2 DEF Name
<1>8. MaxSeq \in Nat /\ n[2] <= MaxSeq
  BY <1>6, <1>7, StoreAssumption DEF CounterInv
<1>9. Len(itoa[n[2]]) <= Len(itoa[MaxSeq])
  BY <1>7, <1>8, ItoaLength, Zenon
<1>10. Len(itoa[n[2]]) \in Nat /\ Len(itoa[MaxSeq]) \in Nat
  BY <1>7, <1>8, ItoaType
<1> QED
  BY <1>7, <1>9, <1>10, LockNamesAssumption, NumeralsAssumption

(***************************************************************************)
(* Whatever the radix and the width, as long as the numbers drawn fit the  *)
(* padding: the name that sort.Strings puts first in a lock's directory is *)
(* that of the oldest request, so checkLockAcquired, which compares names, *)
(* decides by age.                                                         *)
(***************************************************************************)
THEOREM NamesTheorem == LockSpec => []NamesSortByAge
<1>1. LockInv /\ CounterInv => NamesSortByAge
  <2> SUFFICES ASSUME LockInv, CounterInv, NEW r \in Request, HasNode(r)
               PROVE  FirstByName(r) <=> IsFirst(r)
    BY DEF NamesSortByAge
  <2> DEFINE C == nodes[lockPath(r)].Children
             s == Sequence(r)
  <2>1. baseName(path[r]) \in C /\ s = baseName(path[r])[2]
    BY QueuedIsListed, Zenon DEF Sequence
  <2>2. \A n \in C : n[2] \in Nat /\ Len(itoa[n[2]]) <= Width
    BY NumbersFit, Zenon
  <2>3. s \in Nat /\ Len(itoa[s]) <= Width
    BY <2>1, <2>2, Zenon
  <2>4. IsFirst(r) <=> \A n \in C : s <= n[2]
    BY <2>1, Zenon DEF IsFirst
  <2>5. FirstByName(r) <=>
           \A n \in C : \/ formatSequence(n[2]) = formatSequence(s)
                        \/ SortsBefore(formatSequence(s), formatSequence(n[2]))
    BY Zenon DEF FirstByName
  <2> HIDE DEF C, s
  <2>6. ASSUME NEW n \in C
        PROVE  s <= n[2] <=> \/ formatSequence(n[2]) = formatSequence(s)
                             \/ SortsBefore(formatSequence(s), formatSequence(n[2]))
    <3>1. n[2] \in Nat /\ Len(itoa[n[2]]) <= Width
      BY <2>2, Zenon
    <3>2. /\ SortsBefore(formatSequence(s), formatSequence(n[2])) <=> s < n[2]
          /\ formatSequence(s) = formatSequence(n[2]) <=> s = n[2]
      BY <2>3, <3>1, FormatOrder, Zenon
    <3>3. s <= n[2] <=> s = n[2] \/ s < n[2]
      BY <2>3, <3>1
    <3> QED
      BY <3>2, <3>3, Zenon
  <2> QED
    BY <2>4, <2>5, <2>6, Zenon
<1> QED
  BY <1>1, LockInvHolds, CounterInvHolds, PTL

(***************************************************************************)
(* The loop in TryLock reads from the digits of a name the number that     *)
(* itoa and padLeft wrote, for every number, padded or longer than the     *)
(* width.                                                                  *)
(***************************************************************************)
THEOREM ReadBackTheorem == LockSpec => []SequenceReadsBack
<1>1. LockInv => SequenceReadsBack
  <2> SUFFICES ASSUME LockInv, NEW r \in Request, path[r] # Root
               PROVE  parseSequence(formatSequence(Sequence(r))) = Sequence(r)
    BY DEF SequenceReadsBack
  <2>1. Sequence(r) \in 1..seqCounter /\ seqCounter \in Nat
    BY DEF LockInv, QueueInv, NodesAreOwn, StoreInv, StoreTypeOK
  <2>2. Sequence(r) \in Nat
    BY <2>1
  <2> QED
    BY <2>2, FormatFacts, Zenon
<1> QED
  BY <1>1, LockInvHolds, PTL
=============================================================================
