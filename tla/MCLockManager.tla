--------------------------- MODULE MCLockManager ---------------------------
(***************************************************************************)
(* LockManager for TLC: up to three requests for one lock, r2 and r3 in    *)
(* the same session.                                                       *)
(***************************************************************************)
EXTENDS LockNames

CONSTANTS r1, r2, r3, s1, s2

MCBase == {"", "locks", "lock-", "a"}
MCNameOf == [r \in Request |-> "a"]
MCSessionOf == [r \in Request |-> IF r = r1 THEN s1 ELSE s2]

\* r1 does not wait.
MCTimeoutOf == [r \in Request |-> IF r = r1 THEN "immediate" ELSE "timed"]
AllTimed == [r \in Request |-> "timed"]
AllForever == [r \in Request |-> "forever"]

\* Clients create and delete /locks.
OnlyLocksDir == {LocksDir}

\* Clients create and delete /locks and delete the second lock node.
MCClientPath == {LocksDir, Child(LockDir("a"), <<"lock-", 2>>)}

=============================================================================
