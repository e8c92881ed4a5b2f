----------------------------- MODULE LockNames -----------------------------
(***************************************************************************)
(* The names of lock nodes as the strings they are.  LockManager compares  *)
(* sequence numbers where checkLockAcquired and GetLockHolder sort names;  *)
(* the properties here say that the two agree while the numbers fit the    *)
(* padding.                                                                *)
(***************************************************************************)
EXTENDS LockManager, Numerals

\* The numbers fit the padding.
ASSUME LockNamesAssumption == Len(itoa[MaxSeq]) <= Width

\* checkLockAcquired on names: all begin with "lock-", the digits decide.
FirstByName(r) ==
    LET ours == formatSequence(Sequence(r))
        theirs == {formatSequence(n[2]) : n \in nodes[lockPath(r)].Children} \ {ours}
    IN  \A name \in theirs : SortsBefore(ours, name)

(***************************************************************************)
(* NamesSortByAge: of the requests queued for a lock, the one whose name   *)
(* sorts first as a string is the one that has the lowest number.          *)
(***************************************************************************)
NamesSortByAge ==
    \A r \in Request : HasNode(r) => (FirstByName(r) <=> IsFirst(r))

(***************************************************************************)
(* SequenceReadsBack: Lock.Sequence, which TryLock reads from the digits   *)
(* of its node's name, is the number the node was created with.            *)
(***************************************************************************)
SequenceReadsBack ==
    \A r \in Request :
        path[r] # Root => parseSequence(formatSequence(Sequence(r))) = Sequence(r)

=============================================================================
