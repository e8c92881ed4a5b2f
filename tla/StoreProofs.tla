---------------------------- MODULE StoreProofs ----------------------------
(***************************************************************************)
(* Proof that the store's map and children lists always form a tree with   *)
(* the ephemeral nodes among its leaves.  StoreInv is inductive: the       *)
(* emptiness check of Delete sees every node below the deleted one because *)
(* the lists mirror the map, and DeleteEphemerals orphans nothing because  *)
(* nothing lies below an ephemeral node.                                   *)
(***************************************************************************)
EXTENDS Store, TLAPS

(***************************************************************************)
(* Paths are built and taken apart consistently: parentPath and baseName   *)
(* undo Child.                                                             *)
(***************************************************************************)
LEMMA ChildFacts ==
    ASSUME NEW p \in Path, NEW n \in Name
    PROVE  /\ Child(p, n) \in Path
           /\ Child(p, n) # Root
           /\ parentPath(Child(p, n)) = p
           /\ baseName(Child(p, n)) = n
BY DEF Child, Path, Root, parentPath, baseName

\* parentPath and baseName take a path apart, and Child puts it together again.
LEMMA ParentFacts ==
    ASSUME NEW p \in Path, p # Root
    PROVE  /\ parentPath(p) \in Path
           /\ baseName(p) \in Name
           /\ Child(parentPath(p), baseName(p)) = p
           /\ parentPath(p) # p
BY DEF Child, Path, Root, parentPath, baseName

\* The path Create uses lies beside the one it was given, or is an unlisted
\* child of the root.
LEMMA ActualPathFacts ==
    ASSUME NEW p \in Path, NEW b \in BOOLEAN, seqCounter \in Nat
    PROVE  LET q == ActualPath(p, b) IN
           /\ q \in Path
           /\ p # Root => q # Root /\ parentPath(q) = parentPath(p)
           /\ p = Root => q = Root \/ (q # Root /\ Unlisted(q) /\ parentPath(q) = Root)
<1>1. CASE ~b
  BY <1>1 DEF ActualPath
<1>2. CASE b /\ p = Root
  <2> DEFINE n == <<NoBase, seqCounter + 1>>
  <2>1. ActualPath(p, b) = <<n>>
    BY <1>2 DEF ActualPath, WithSequence
  <2>2. <<n>> = Child(Root, n)
    BY DEF Child, Root
  <2>3. Root \in Path /\ n \in Name /\ n[1] = NoBase
    BY StoreAssumption DEF Root, Path, Name
  <2>4. Len(<<n>>) = 1
    OBVIOUS
  <2>5. /\ Child(Root, n) \in Path
        /\ Child(Root, n) # Root
        /\ parentPath(Child(Root, n)) = Root
        /\ baseName(Child(Root, n)) = n
    BY <2>3, ChildFacts
  <2>6. Unlisted(<<n>>)
    BY <2>2, <2>3, <2>4, <2>5 DEF Unlisted
  <2> HIDE DEF n
  <2> QED
    BY <1>2, <2>1, <2>2, <2>5, <2>6, Zenon
<1>3. CASE b /\ p # Root
  <2>1. ActualPath(p, b) = Child(parentPath(p), <<baseName(p)[1], seqCounter + 1>>)
    BY <1>3 DEF ActualPath, WithSequence
  <2>2. parentPath(p) \in Path /\ <<baseName(p)[1], seqCounter + 1>> \in Name
    <3>1. baseName(p)[1] \in Base /\ seqCounter + 1 \in Nat
      BY <1>3, ParentFacts DEF Name
    <3> QED
      BY <1>3, <3>1, ParentFacts DEF Name
  <2> QED
    BY <1>3, <2>1, <2>2, ChildFacts, Zenon
<1> QED
  BY <1>1, <1>2, <1>3

-----------------------------------------------------------------------------
(***************************************************************************)
(* Removing nodes that have nothing below them keeps the tree.             *)
(***************************************************************************)
LEMMA RemoveAllKeepsTree ==
    ASSUME StoreInv, NEW D \in SUBSET (DOMAIN nodes \ {Root}),
           \A q \in DOMAIN nodes \ {Root} : parentPath(q) \notin D,
           nodes' = RemoveAll(D), seqCounter' = seqCounter
    PROVE  StoreInv'
<1> DEFINE Gone(x) == {baseName(d) : d \in {e \in D : parentPath(e) = x}}
<1>1. DOMAIN nodes' = DOMAIN nodes \ D
  BY DEF RemoveAll
<1>2. ASSUME NEW x \in DOMAIN nodes'
      PROVE  /\ nodes[x] \in Node
             /\ nodes'[x] = [nodes[x] EXCEPT !.Children = @ \ Gone(x)]
             /\ nodes'[x] \in Node
             /\ nodes'[x].Children = nodes[x].Children \ Gone(x)
             /\ nodes'[x].Ephemeral = nodes[x].Ephemeral
  BY <1>1, <1>2 DEF RemoveAll, StoreInv, StoreTypeOK, Node
<1>3. \A p \in DOMAIN nodes : p \in Path
  BY DEF StoreInv, StoreTypeOK
<1>4. StoreTypeOK'
  BY <1>1, <1>2 DEF StoreInv, StoreTypeOK
<1>5. ParentsExist'
  BY <1>1 DEF StoreInv, ParentsExist, Exists
<1>6. EphemeralsAreLeaves'
  BY <1>1, <1>2, <1>5 DEF StoreInv, EphemeralsAreLeaves, ParentsExist, Exists
<1>7. ListedChildrenExist'
  <2> SUFFICES ASSUME NEW p \in DOMAIN nodes', NEW n \in nodes'[p].Children
               PROVE  Child(p, n) \in DOMAIN nodes'
    BY DEF ListedChildrenExist, Exists
  <2>1. n \in nodes[p].Children /\ n \notin Gone(p) /\ n \in Name /\ p \in Path
    BY <1>1, <1>2, <1>3 DEF Node
  <2>2. Child(p, n) \in DOMAIN nodes
    BY <1>1, <2>1 DEF StoreInv, ChildrenMirrorNodes, ListedChildrenExist, Exists
  <2>3. parentPath(Child(p, n)) = p /\ baseName(Child(p, n)) = n
    BY <2>1, ChildFacts
  <2> QED
    BY <1>1, <2>1, <2>2, <2>3
<1>8. NodesAreListed'
  <2> SUFFICES ASSUME NEW p \in DOMAIN nodes' \ {Root}, ~Unlisted(p)
               PROVE  baseName(p) \in nodes'[parentPath(p)].Children
    BY DEF NodesAreListed, Unlisted
  <2>1. parentPath(p) \in DOMAIN nodes'
    BY <1>5 DEF ParentsExist, Exists
  <2>2. baseName(p) \in nodes[parentPath(p)].Children
    BY <1>1 DEF StoreInv, ChildrenMirrorNodes, NodesAreListed
  <2>3. ASSUME NEW d \in D, parentPath(d) = parentPath(p), baseName(d) = baseName(p)
        PROVE  FALSE
    <3>1. d = p
      BY <1>1, <1>3, <2>3, ParentFacts
    <3> QED
      BY <1>1, <3>1
  <2> QED
    BY <1>2, <2>1, <2>2, <2>3
<1> QED
  BY <1>4, <1>5, <1>6, <1>7, <1>8 DEF StoreInv, ChildrenMirrorNodes

\* Adding a node that did not exist below a parent that may have children.
LEMMA InsertKeepsTree ==
    ASSUME StoreInv, NEW p \in Path, NEW q \in Path, NEW node \in Node,
           q \notin DOMAIN nodes, q # Root, ParentOK(p), node.Children = {},
           p # Root => parentPath(q) = parentPath(p),
           p = Root => Unlisted(q) /\ parentPath(q) = Root,
           nodes' = Insert(p, q, node), seqCounter' \in Nat
    PROVE  StoreInv'
<1> DEFINE pp == parentPath(q)
<1>1. DOMAIN nodes' = DOMAIN nodes \cup {q}
  BY DEF Insert
<1>2. pp \in DOMAIN nodes /\ ~nodes[pp].Ephemeral /\ pp # q
  BY DEF ParentOK, Exists, StoreInv, ParentsExist, EphemeralsAreLeaves
<1>3. nodes'[q] = node
  BY <1>1 DEF Insert
<1>4. baseName(q) \in Name /\ Child(pp, baseName(q)) = q
  BY ParentFacts
<1>5. ASSUME NEW x \in DOMAIN nodes
      PROVE  /\ nodes[x] \in Node
             /\ nodes'[x] \in Node
             /\ nodes'[x].Ephemeral = nodes[x].Ephemeral
             /\ nodes[x].Children \subseteq nodes'[x].Children
             /\ nodes'[x].Children \subseteq nodes[x].Children \cup {baseName(q)}
             /\ nodes'[x].Children # nodes[x].Children => x = pp
             /\ p # Root /\ x = pp => baseName(q) \in nodes'[x].Children
  <2>1. nodes[x] \in Node
    BY DEF StoreInv, StoreTypeOK
  <2>2. CASE p # Root /\ x = parentPath(p)
    <3>1. nodes'[x] = [nodes[x] EXCEPT !.Children = @ \cup {baseName(q)}]
      BY <1>1, <2>2 DEF Insert
    <3> QED
      BY <1>4, <2>1, <2>2, <3>1 DEF Node
  <2>3. CASE ~(p # Root /\ x = parentPath(p))
    <3>1. nodes'[x] = nodes[x]
      BY <1>1, <2>3 DEF Insert
    <3> QED
      BY <2>1, <2>3, <3>1
  <2> QED
    BY <2>2, <2>3
<1>6. \A x \in DOMAIN nodes : x \in Path
  BY DEF StoreInv, StoreTypeOK
<1>7. StoreTypeOK'
  BY <1>1, <1>3, <1>5 DEF StoreInv, StoreTypeOK
<1>8. ParentsExist'
  BY <1>1, <1>2 DEF StoreInv, ParentsExist, Exists
<1>9. EphemeralsAreLeaves'
  BY <1>1, <1>2, <1>5 DEF StoreInv, EphemeralsAreLeaves, ParentsExist, Exists
<1>10. ListedChildrenExist'
  <2> SUFFICES ASSUME NEW x \in DOMAIN nodes', NEW n \in nodes'[x].Children
               PROVE  Child(x, n) \in DOMAIN nodes'
    BY DEF ListedChildrenExist, Exists
  <2>1. x \in DOMAIN nodes
    BY <1>1, <1>3
  <2>2. CASE n \in nodes[x].Children
    BY <1>1, <2>1, <2>2 DEF StoreInv, ChildrenMirrorNodes, ListedChildrenExist, Exists
  <2>3. CASE n \notin nodes[x].Children
    <3>1. n = baseName(q) /\ x = pp
      BY <1>5, <2>1, <2>3
    <3> QED
      BY <1>1, <1>4, <3>1
  <2> QED
    BY <2>2, <2>3
<1>11. NodesAreListed'
  <2> SUFFICES ASSUME NEW x \in DOMAIN nodes' \ {Root}, ~Unlisted(x)
               PROVE  baseName(x) \in nodes'[parentPath(x)].Children
    BY DEF NodesAreListed, Unlisted
  <2>1. CASE x = q
    BY <1>2, <1>5, <2>1
  <2>2. CASE x # q
    <3>1. parentPath(x) \in DOMAIN nodes
      BY <1>1, <2>2 DEF StoreInv, ParentsExist, Exists
    <3>2. baseName(x) \in nodes[parentPath(x)].Children
      BY <1>1, <2>2 DEF StoreInv, ChildrenMirrorNodes, NodesAreListed
    <3> QED
      BY <1>5, <3>1, <3>2
  <2> QED
    BY <2>1, <2>2
<1> QED
  BY <1>7, <1>8, <1>9, <1>10, <1>11 DEF StoreInv, ChildrenMirrorNodes

-----------------------------------------------------------------------------
\* Store.Create keeps the tree well formed.
LEMMA CreateKeepsTree ==
    ASSUME StoreInv, NEW p \in Path, NEW data \in Data \cup {NoData},
           NEW ephemeral \in BOOLEAN, NEW sid \in Session \cup {NoSession},
           NEW sequential \in BOOLEAN, Create(p, data, ephemeral, sid, sequential)
    PROVE  StoreInv'
<1> DEFINE q == ActualPath(p, sequential)
           node == NewNode(data, ephemeral, sid)
<1>1. seqCounter \in Nat /\ seqCounter' \in Nat
  BY DEF StoreInv, StoreTypeOK, Create
<1>2. CASE Exists(q)
  BY <1>1, <1>2 DEF Create, StoreInv, StoreTypeOK, ParentsExist, ChildrenMirrorNodes,
       ListedChildrenExist, NodesAreListed, EphemeralsAreLeaves, Exists
<1>3. CASE ~Exists(q)
  <2>1. q \notin DOMAIN nodes /\ q # Root
    BY <1>3 DEF Exists, StoreInv, ParentsExist
  <2>2. /\ q \in Path
        /\ p # Root => parentPath(q) = parentPath(p)
        /\ p = Root => Unlisted(q) /\ parentPath(q) = Root
    BY <1>1, <2>1, ActualPathFacts
  <2>3. node \in Node /\ node.Children = {}
    BY DEF NewNode, Node
  <2>4. ParentOK(p) /\ nodes' = Insert(p, q, node)
    BY <1>3 DEF Create
  <2> HIDE DEF q, node
  <2> QED
    BY <1>1, <2>1, <2>2, <2>3, <2>4, InsertKeepsTree
<1> QED
  BY <1>2, <1>3

\* Store.Set changes the data and the version of one node only.
LEMMA SetKeepsTree ==
    ASSUME StoreInv, NEW p \in Path, NEW data \in Data, NEW v \in Int, Set(p, data, v)
    PROVE  StoreInv'
<1>1. p \in DOMAIN nodes /\ nodes[p] \in Node /\ DOMAIN nodes' = DOMAIN nodes
  BY DEF Set, Exists, StoreInv, StoreTypeOK
<1>2. ASSUME NEW x \in DOMAIN nodes
      PROVE  /\ nodes'[x] \in Node
             /\ nodes'[x].Children = nodes[x].Children
             /\ nodes'[x].Ephemeral = nodes[x].Ephemeral
  <2>1. nodes[x] \in Node
    BY DEF StoreInv, StoreTypeOK
  <2>2. nodes'[x] = IF x = p THEN [nodes[p] EXCEPT !.Data = data, !.Version = @ + 1]
                             ELSE nodes[x]
    BY <1>1 DEF Set
  <2>3. CASE x = p
    <3> DEFINE v1 == nodes[p].Version + 1
    <3>1. v1 \in Nat
      BY <1>1 DEF Node
    <3>2. nodes'[p] = [[nodes[p] EXCEPT !.Data = data] EXCEPT !.Version = v1]
      BY <1>1, <2>2, <2>3 DEF Node
    <3> HIDE DEF v1
    <3> QED
      BY <1>1, <2>3, <3>1, <3>2, Zenon DEF Node
  <2>4. CASE x # p
    BY <2>1, <2>2, <2>4
  <2> QED
    BY <2>3, <2>4
<1>3. StoreTypeOK'
  BY <1>1, <1>2 DEF Set, StoreInv, StoreTypeOK
<1>4. ParentsExist'
  BY <1>1 DEF StoreInv, ParentsExist, Exists
<1>5. ChildrenMirrorNodes'
  BY <1>1, <1>2 DEF StoreInv, ParentsExist, Exists, ChildrenMirrorNodes,
       ListedChildrenExist, NodesAreListed, Unlisted
<1>6. EphemeralsAreLeaves'
  BY <1>1, <1>2 DEF StoreInv, ParentsExist, Exists, EphemeralsAreLeaves
<1> QED
  BY <1>3, <1>4, <1>5, <1>6 DEF StoreInv

\* Store.Delete removes a leaf.
LEMMA DeleteKeepsTree ==
    ASSUME StoreInv, NEW p \in Path, NEW v \in Int, Delete(p, v)
    PROVE  StoreInv'
<1>1. p \in DOMAIN nodes /\ p # Root /\ nodes[p].Children = {}
  BY DEF Delete, CanDelete, Exists
<1>2. ASSUME NEW q \in DOMAIN nodes \ {Root}, parentPath(q) = p
      PROVE  FALSE
  <2>1. ~Unlisted(q)
    <3>1. q \in Path /\ p \in Path
      BY DEF StoreInv, StoreTypeOK
    <3>2. Len(p) > 0 /\ Len(q) = Len(p) + 1
      BY <1>1, <1>2, <3>1 DEF Path, Root, parentPath
    <3> QED
      BY <3>2, <3>1 DEF Unlisted, Path
  <2> QED
    BY <1>1, <1>2, <2>1 DEF StoreInv, ChildrenMirrorNodes, NodesAreListed
<1>3. nodes' = RemoveAll({p}) /\ seqCounter' = seqCounter
  BY DEF Delete
<1> QED
  BY <1>1, <1>2, <1>3, RemoveAllKeepsTree

\* Store.DeleteEphemerals removes the nodes of a session, all of them leaves.
LEMMA DeleteEphemeralsKeepsTree ==
    ASSUME StoreInv, NEW sid, DeleteEphemerals(sid)
    PROVE  StoreInv'
<1> DEFINE D == EphemeralsOf(sid)
<1>1. D \in SUBSET (DOMAIN nodes \ {Root})
  BY DEF EphemeralsOf, StoreInv, EphemeralsAreLeaves
<1>2. \A q \in DOMAIN nodes \ {Root} : parentPath(q) \notin D
  BY DEF EphemeralsOf, StoreInv, EphemeralsAreLeaves
<1>3. nodes' = RemoveAll(D) /\ seqCounter' = seqCounter
  BY DEF DeleteEphemerals
<1> HIDE DEF D
<1> QED
  BY <1>1, <1>2, <1>3, RemoveAllKeepsTree

-----------------------------------------------------------------------------
\* NewStore holds the root alone, which is a tree.
LEMMA InitStoreInv == StoreInit => StoreInv
<1> SUFFICES ASSUME StoreInit PROVE StoreInv
  OBVIOUS
<1>1. DOMAIN nodes = {Root}
  BY DEF StoreInit
<1>2. nodes[Root] \in Node /\ nodes[Root].Children = {} /\ ~nodes[Root].Ephemeral
  BY Zenon DEF StoreInit, NewNode, Node
<1>3. Root \in Path
  BY DEF Root, Path
<1> QED
  BY <1>1, <1>2, <1>3, Zenon DEF StoreInit, StoreInv, StoreTypeOK, ParentsExist, Exists,
       ChildrenMirrorNodes, ListedChildrenExist, NodesAreListed, EphemeralsAreLeaves

(***************************************************************************)
(* The store is a tree in every reachable state: parents exist, children   *)
(* lists and map agree, and ephemeral nodes are leaves, whatever sequence  *)
(* of Create, Set, Delete and DeleteEphemerals is called.                  *)
(***************************************************************************)
THEOREM StoreIsATree == StoreSpec => []StoreInv
<1>1. StoreInit => StoreInv
  BY InitStoreInv
<1>2. StoreInv /\ [StoreNext]_storeVars => StoreInv'
  <2> SUFFICES ASSUME StoreInv, [StoreNext]_storeVars PROVE StoreInv'
    OBVIOUS
  <2>1. InputPath \subseteq Path /\ MaxVersion \in Nat
    BY StoreAssumption DEF Path, Name
  <2>2. CASE UNCHANGED storeVars
    BY <2>2 DEF storeVars, StoreInv, StoreTypeOK, ParentsExist, Exists,
         ChildrenMirrorNodes, ListedChildrenExist, NodesAreListed, EphemeralsAreLeaves
  <2>3. ASSUME NEW p \in InputPath, NEW d \in Data, NEW eph \in BOOLEAN,
               NEW sequential \in BOOLEAN, NEW sid \in Session \cup {NoSession},
               Create(p, d, eph, sid, sequential)
        PROVE  StoreInv'
    BY <2>1, <2>3, CreateKeepsTree
  <2>4. ASSUME NEW p \in InputPath, NEW d \in Data, NEW v \in -1..MaxVersion, Set(p, d, v)
        PROVE  StoreInv'
    BY <2>1, <2>4, SetKeepsTree
  <2>5. ASSUME NEW p \in InputPath, NEW v \in -1..MaxVersion, Delete(p, v)
        PROVE  StoreInv'
    BY <2>1, <2>5, DeleteKeepsTree
  <2>6. ASSUME NEW sid \in Session, DeleteEphemerals(sid)
        PROVE  StoreInv'
    BY <2>6, DeleteEphemeralsKeepsTree
  <2> QED
    BY <2>2, <2>3, <2>4, <2>5, <2>6 DEF StoreNext
<1> QED
  BY <1>1, <1>2, PTL DEF StoreSpec

(***************************************************************************)
(* No operation leaves a node without its parent, so the assignment to     *)
(* s.nodes[parent] in Delete never dereferences nil.                       *)
(***************************************************************************)
THEOREM ParentsExistTheorem == StoreSpec => []ParentsExist
<1>1. StoreInv => ParentsExist
  BY DEF StoreInv
<1> QED
  BY <1>1, StoreIsATree, PTL

(***************************************************************************)
(* The children lists that Create, Delete and DeleteEphemerals maintain    *)
(* and the map of nodes agree, but for the sequential children of the root *)
(* that Create does not list.                                              *)
(***************************************************************************)
THEOREM ChildrenMirrorTheorem == StoreSpec => []ChildrenMirrorNodes
<1>1. StoreInv => ChildrenMirrorNodes
  BY DEF StoreInv
<1> QED
  BY <1>1, StoreIsATree, PTL

(***************************************************************************)
(* Create's check of the parent keeps ephemeral nodes without children, so *)
(* DeleteEphemerals may remove them without looking below.                 *)
(***************************************************************************)
THEOREM EphemeralLeavesTheorem == StoreSpec => []EphemeralsAreLeaves
<1>1. StoreInv => EphemeralsAreLeaves
  BY DEF StoreInv
<1> QED
  BY <1>1, StoreIsATree, PTL

(***************************************************************************)
(* The map holds nodes by canonical paths, and versions and the sequence   *)
(* counter are never negative.                                             *)
(***************************************************************************)
THEOREM StoreTypeTheorem == StoreSpec => []StoreTypeOK
<1>1. StoreInv => StoreTypeOK
  BY DEF StoreInv
<1> QED
  BY <1>1, StoreIsATree, PTL

=============================================================================
