------------------------------- MODULE Store -------------------------------
(***************************************************************************)
(* The hierarchical store of internal/store/store.go: a map from paths to  *)
(* nodes, guarded by one mutex, so that every method is one atomic step.   *)
(*                                                                         *)
(* A path is the sequence of its names, the root "/" the empty sequence:   *)
(* these are the canonical paths, the values normalizePath returns.  A     *)
(* name is a pair <<base, seq>>: <<b, 0>> is the plain name b, and         *)
(* <<b, n>> with n > 0 is b followed by formatSequence(n), the name of a   *)
(* sequential node.                                                        *)
(*                                                                         *)
(* Children is a set here and a slice in the code.  Create appends a name  *)
(* only when the node did not exist, so by ListedChildrenExist the slice   *)
(* never holds a name twice, and removing the first match removes the      *)
(* name; its order is not visible, GetChildren sorts.                      *)
(***************************************************************************)
EXTENDS Integers, Sequences

CONSTANTS
    Base,        \* base names of nodes
    NoBase,      \* the empty base, of names that are only a sequence number
    Session,     \* session identifiers
    Data,        \* node payloads
    NoSession,   \* the empty session ID of a persistent node
    NoData,      \* the nil payload
    InputPath,   \* the paths callers pass, a set of canonical paths
    MaxSeq,      \* bound on the sequence counter (below 10^10, see Numerals)
    MaxVersion   \* bound on node versions

ASSUME StoreAssumption ==
    /\ NoBase \in Base
    /\ MaxSeq \in Nat /\ MaxVersion \in Nat
    /\ InputPath \subseteq Seq(Base \X Nat)
    /\ NoSession \notin Session

VARIABLES
    nodes,       \* Store.nodes: the nodes that exist, by path
    seqCounter   \* Store.seqCounter

storeVars == <<nodes, seqCounter>>

Name == Base \X Nat
Path == Seq(Name)
Root == << >>
Node == [Data      : Data \cup {NoData},
         Version   : Nat,
         Ephemeral : BOOLEAN,
         SessionID : Session \cup {NoSession},
         Children  : SUBSET Name]

StoreTypeOK ==
    /\ DOMAIN nodes \subseteq Path
    /\ \A p \in DOMAIN nodes : nodes[p] \in Node
    /\ seqCounter \in Nat

-----------------------------------------------------------------------------
parentPath(p) == SubSeq(p, 1, Len(p) - 1)
baseName(p) == p[Len(p)]
Child(p, n) == Append(p, n)

\* nodePath + formatSequence(seq).  On "/" the suffix becomes a name of its own.
WithSequence(p, seq) ==
    IF p = Root THEN << <<NoBase, seq>> >>
                ELSE Child(parentPath(p), <<baseName(p)[1], seq>>)

Exists(p) == p \in DOMAIN nodes

\* The version check of Set and Delete: a negative version matches any.
VersionMatches(p, expected) == expected < 0 \/ expected = nodes[p].Version

\* Mutant: the payload and the session ID swapped.
NewNodeSwapped(data, ephemeral, sid) ==
    [Data |-> sid, Version |-> 1, Ephemeral |-> ephemeral,
     SessionID |-> data, Children |-> {}]

NewNode(data, ephemeral, sid) ==
    [Data |-> data, Version |-> 1, Ephemeral |-> ephemeral,
     SessionID |-> sid, Children |-> {}]

StoreInit ==
    /\ nodes = [p \in {Root} |-> [NewNode(NoData, FALSE, NoSession) EXCEPT !.Version = 0]]
    /\ seqCounter = 0

-----------------------------------------------------------------------------
\* Mutant: without the check that the parent is not ephemeral.
ParentMayBeEphemeral(p) == p # Root => Exists(parentPath(p))

\* The parent check at the head of Create; its failure returns an error.
ParentOK(p) ==
    p # Root => /\ Exists(parentPath(p))
                /\ ~nodes[parentPath(p)].Ephemeral

ActualPath(p, sequential) ==
    IF sequential THEN WithSequence(p, seqCounter + 1) ELSE p

CanCreate(p, sequential) == ParentOK(p) /\ ~Exists(ActualPath(p, sequential))

\* Adds node at path q and lists it in the parent of p, the path that was asked for.
Insert(p, q, node) ==
    [x \in DOMAIN nodes \cup {q} |->
        IF x = q THEN node
        ELSE IF p # Root /\ x = parentPath(p)
             THEN [nodes[x] EXCEPT !.Children = @ \cup {baseName(q)}]
             ELSE nodes[x]]

\* Mutant: the parents keep listing the nodes that are gone.
RemoveUnlinked(D) == [x \in DOMAIN nodes \ D |-> nodes[x]]

\* Removes the nodes D, each from its parent's children as well.
RemoveAll(D) ==
    [x \in DOMAIN nodes \ D |->
        [nodes[x] EXCEPT !.Children = @ \ {baseName(d) : d \in {e \in D : parentPath(e) = x}}]]

(***************************************************************************)
(* Create.  The counter has advanced before the check that the node does   *)
(* not exist, so a failed sequential Create leaves a gap.  When the parent *)
(* check fails nothing changes.                                            *)
(***************************************************************************)
Create(p, data, ephemeral, sid, sequential) ==
    LET q == ActualPath(p, sequential) IN
    /\ ParentOK(p)
    /\ sequential => seqCounter < MaxSeq
    /\ seqCounter' = IF sequential THEN seqCounter + 1 ELSE seqCounter
    /\ nodes' = IF Exists(q) THEN nodes
                             ELSE Insert(p, q, NewNode(data, ephemeral, sid))

\* Mutant: the version becomes the one the caller expected.
SetToExpected(p, data, expected) ==
    /\ Exists(p)
    /\ VersionMatches(p, expected)
    /\ nodes[p].Version < MaxVersion
    /\ nodes' = [nodes EXCEPT ![p].Data = data, ![p].Version = expected]
    /\ UNCHANGED seqCounter

\* Set.
Set(p, data, expected) ==
    /\ Exists(p)
    /\ VersionMatches(p, expected)
    /\ nodes[p].Version < MaxVersion
    /\ nodes' = [nodes EXCEPT ![p].Data = data, ![p].Version = @ + 1]
    /\ UNCHANGED seqCounter

\* Mutant: without the check that the node has no children.
CanDeleteSubtree(p, expected) == p # Root /\ Exists(p) /\ VersionMatches(p, expected)

\* The conditions under which Delete removes the node instead of returning an error.
CanDelete(p, expected) ==
    /\ p # Root
    /\ Exists(p)
    /\ VersionMatches(p, expected)
    /\ nodes[p].Children = {}

\* Delete.
Delete(p, expected) ==
    /\ CanDelete(p, expected)
    /\ nodes' = RemoveAll({p})
    /\ UNCHANGED seqCounter

EphemeralsOf(sid) == {p \in DOMAIN nodes : nodes[p].Ephemeral /\ nodes[p].SessionID = sid}

\* DeleteEphemerals, called by the session manager when a session ends.
DeleteEphemerals(sid) ==
    /\ nodes' = RemoveAll(EphemeralsOf(sid))
    /\ UNCHANGED seqCounter

(***************************************************************************)
(* The callers of the store.  createNode refuses an ephemeral node without *)
(* a session; a persistent node may carry a session ID.  The name a        *)
(* sequence number is appended to is a plain one.                          *)
(***************************************************************************)
StoreNext ==
    \/ \E p \in InputPath, d \in Data, eph, sequential \in BOOLEAN,
          sid \in Session \cup {NoSession} :
            /\ eph => sid # NoSession
            /\ sequential /\ p # Root => baseName(p)[2] = 0
            /\ Create(p, d, eph, sid, sequential)
    \/ \E p \in InputPath, d \in Data, v \in -1..MaxVersion : Set(p, d, v)
    \/ \E p \in InputPath, v \in -1..MaxVersion : Delete(p, v)
    \/ \E sid \in Session : DeleteEphemerals(sid)

StoreSpec == StoreInit /\ [][StoreNext]_storeVars

-----------------------------------------------------------------------------
\* A sequential node created with path "/" is a child of the root that the
\* root does not list: Create has no parent to list it in.
Unlisted(p) == Len(p) = 1 /\ baseName(p)[1] = NoBase

(***************************************************************************)
(* ParentsExist: the parent of every node exists.  Delete dereferences     *)
(* s.nodes[parent] without checking it, so this is also what keeps it from *)
(* a nil dereference; neither Delete nor DeleteEphemerals looks at the     *)
(* nodes below the one it removes, only Delete at the children list.       *)
(***************************************************************************)
ParentsExist ==
    /\ Exists(Root)
    /\ \A p \in DOMAIN nodes \ {Root} : Exists(parentPath(p))

(***************************************************************************)
(* ChildrenMirrorNodes: the children lists and the map describe the same   *)
(* tree.  A listed child exists, and an existing node is listed by its     *)
(* parent, apart from the sequential children of the root.  Delete's       *)
(* emptiness check and the lock manager's GetChildren depend on it.        *)
(***************************************************************************)
ListedChildrenExist ==
    \A p \in DOMAIN nodes : \A n \in nodes[p].Children : Exists(Child(p, n))

NodesAreListed ==
    \A p \in DOMAIN nodes \ {Root} :
        Unlisted(p) \/ baseName(p) \in nodes[parentPath(p)].Children

ChildrenMirrorNodes == ListedChildrenExist /\ NodesAreListed

(***************************************************************************)
(* EphemeralsAreLeaves: no node lies below an ephemeral one, and the root  *)
(* is not ephemeral, so DeleteEphemerals, which does not look at children, *)
(* orphans nothing.                                                        *)
(***************************************************************************)
EphemeralsAreLeaves ==
    /\ ~nodes[Root].Ephemeral
    /\ \A p \in DOMAIN nodes \ {Root} : ~nodes[parentPath(p)].Ephemeral

\* The inductive invariant of the store.
StoreInv ==
    /\ StoreTypeOK
    /\ ParentsExist
    /\ ChildrenMirrorNodes
    /\ EphemeralsAreLeaves

=============================================================================
