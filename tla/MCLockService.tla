--------------------------- MODULE MCLockService ---------------------------
(***************************************************************************)
(* LockService for TLC: two requests for one lock, each in a session of    *)
(* its own.                                                                *)
(***************************************************************************)
EXTENDS LockService

CONSTANTS r1, r2, s1, s2

MCBase == {"", "locks", "lock-", "a"}
MCNameOf == [r \in Request |-> "a"]
MCSessionOf == [r \in Request |-> IF r = r1 THEN s1 ELSE s2]
MCTimeoutOf == [r \in Request |-> IF r = r1 THEN "timed" ELSE "immediate"]
\* Clients create and delete /locks.
MCClientPath == {LocksDir}

=============================================================================
