---------------------------- MODULE LockManager ----------------------------
(***************************************************************************)
(* The lock manager of internal/lock/manager.go over the store.  Each      *)
(* request is one call of TryLock, with its own goroutine, followed, when  *)
(* it returns a lock, by at most one Unlock.  A step is the work between   *)
(* two points where other goroutines can run: one store method (atomic     *)
(* under Store.mu) or one critical section of Manager.mu.                  *)
(*                                                                         *)
(* The rest of the server is represented by the store operations it runs   *)
(* meanwhile: DeleteEphemerals when a session ends, and clients creating   *)
(* the lock directories and deleting nodes through the API.  Clients       *)
(* create no nodes of their own inside a lock's directory.                 *)
(***************************************************************************)
EXTENDS Store

CONSTANTS
    Request,         \* calls of TryLock
    Lock,            \* lock names
    NameOf,          \* the lock name of each request
    SessionOf,       \* the session ID of each request
    TimeoutOf,       \* the kind of its timeout: < 0, = 0 or > 0
    ClientPath,      \* the nodes that clients create and delete through the API
    ManagerNotified  \* TRUE: deletions call Manager.onNodeDeleted, as NewManager
                     \* sets up; FALSE: main.go has replaced that callback

ASSUME LockAssumption ==
    /\ NameOf \in [Request -> Lock]
    /\ SessionOf \in [Request -> Session]
    /\ TimeoutOf \in [Request -> {"immediate", "forever", "timed"}]
    /\ Request \subseteq Data
    /\ Lock \cup {"locks", "lock-"} \subseteq Base
    /\ ManagerNotified \in BOOLEAN

VARIABLES
    pc,         \* where each request is
    path,       \* nodePath: the lock node it created
    locks,      \* Manager.locks: the paths recorded as held
    waiters,    \* Manager.waiters: the waiting requests, in order of registration
    token,      \* whether the request's waiter channel (of capacity 1) is full
    callbacks   \* deleted paths whose onNodeDelete goroutine has not run yet

managerVars == <<pc, path, locks, waiters, token, callbacks>>
lockVars == <<storeVars, managerVars>>

LocksDir == << <<"locks", 0>> >>
LockDir(l) == Child(LocksDir, <<l, 0>>)
LockDirs == {LocksDir} \cup {LockDir(l) : l \in Lock}
lockPath(r) == LockDir(NameOf[r])
LockNodeName(r) == Child(lockPath(r), <<"lock-", 0>>)

BeforeCreate == {"idle", "exists", "mkdir", "create"}
Registered == {"wait", "recheck", "recordLate", "abandonLate", "leaveGranted", "leaveFailed"}
Acquired == {"record", "recordLate", "leaveGranted", "granted", "unlock"}
Returned == {"granted", "failed", "unlock", "released"}
GivenUp == {"leaveFailed", "failed", "released"}
PC == BeforeCreate \cup Registered \cup Acquired \cup Returned
          \cup {"check", "abandon", "register"}

\* The slice without the first entry that is r.
IndexIn(s, r) == CHOOSE i \in 1..Len(s) : s[i] = r /\ \A j \in 1..(i - 1) : s[j] # r
Without(s, r) ==
    IF \E i \in 1..Len(s) : s[i] = r
    THEN SubSeq(s, 1, IndexIn(s, r) - 1) \o SubSeq(s, IndexIn(s, r) + 1, Len(s))
    ELSE s

LockTypeOK ==
    /\ StoreTypeOK
    /\ pc \in [Request -> PC]
    /\ path \in [Request -> Path]
    /\ locks \subseteq Path
    /\ waiters \in [Lock -> Seq(Request)]
    /\ token \in [Request -> BOOLEAN]
    /\ callbacks \subseteq Path

LockInit ==
    /\ StoreInit
    /\ pc = [r \in Request |-> "idle"]
    /\ path = [r \in Request |-> Root]
    /\ locks = {}
    /\ waiters = [l \in Lock |-> << >>]
    /\ token = [r \in Request |-> FALSE]
    /\ callbacks = {}

Goto(r, from, to) == pc[r] = from /\ pc' = [pc EXCEPT ![r] = to]

-----------------------------------------------------------------------------
(* TryLock *)

Call(r) ==
    /\ Goto(r, "idle", "exists")
    /\ UNCHANGED <<storeVars, path, locks, waiters, token, callbacks>>

EnsureDirExists(r) ==
    /\ Goto(r, "exists", IF Exists(lockPath(r)) THEN "create" ELSE "mkdir")
    /\ UNCHANGED <<storeVars, path, locks, waiters, token, callbacks>>

\* The error of this Create is ignored.
EnsureDirCreate(r) ==
    /\ Goto(r, "mkdir", "create")
    /\ IF ParentOK(lockPath(r))
       THEN Create(lockPath(r), NoData, FALSE, NoSession, FALSE)
       ELSE UNCHANGED storeVars
    /\ UNCHANGED <<path, locks, waiters, token, callbacks>>

\* Mutant: the lock node is persistent.
CreatePersistentLockNode(r) ==
    \/ /\ CanCreate(LockNodeName(r), TRUE)
       /\ Goto(r, "create", "check")
       /\ Create(LockNodeName(r), r, FALSE, SessionOf[r], TRUE)
       /\ path' = [path EXCEPT ![r] = ActualPath(LockNodeName(r), TRUE)]
       /\ UNCHANGED <<locks, waiters, token, callbacks>>
    \/ /\ ~ParentOK(LockNodeName(r))
       /\ Goto(r, "create", "failed")
       /\ UNCHANGED <<storeVars, path, locks, waiters, token, callbacks>>

CreateLockNode(r) ==
    \/ /\ CanCreate(LockNodeName(r), TRUE)
       /\ Goto(r, "create", "check")
       /\ Create(LockNodeName(r), r, TRUE, SessionOf[r], TRUE)
       /\ path' = [path EXCEPT ![r] = ActualPath(LockNodeName(r), TRUE)]
       /\ UNCHANGED <<locks, waiters, token, callbacks>>
    \/ /\ ~ParentOK(LockNodeName(r))
       /\ Goto(r, "create", "failed")
       /\ UNCHANGED <<storeVars, path, locks, waiters, token, callbacks>>

\* Mutant: one predecessor too many is ignored.
IsFirstOrSecond(r) ==
    LET children == nodes[lockPath(r)].Children IN
    /\ baseName(path[r]) \in children
    /\ \A n \in children : baseName(path[r])[2] <= n[2] + 1

\* Mutant: the last of the sorted children instead of the first.
IsLast(r) ==
    LET children == nodes[lockPath(r)].Children IN
    /\ baseName(path[r]) \in children
    /\ \A n \in children : baseName(path[r])[2] >= n[2]

\* checkLockAcquired: our node is the first of the sorted children.  All of
\* them are lock- nodes, so the order is that of the sequence numbers.
IsFirst(r) ==
    LET children == nodes[lockPath(r)].Children IN
    /\ baseName(path[r]) \in children
    /\ \A n \in children : baseName(path[r])[2] <= n[2]

\* Mutant: the lock counts as acquired once the directory could be listed.
CheckListingOnly(r) ==
    /\ Goto(r, "check", IF Exists(lockPath(r)) THEN "record" ELSE "abandon")
    /\ UNCHANGED <<storeVars, path, locks, waiters, token, callbacks>>

CheckLockAcquired(r) ==
    /\ Goto(r, "check",
            IF ~Exists(lockPath(r)) THEN "abandon"
            ELSE IF IsFirst(r) THEN "record"
            ELSE IF TimeoutOf[r] = "immediate" THEN "abandon"
            ELSE "register")
    /\ UNCHANGED <<storeVars, path, locks, waiters, token, callbacks>>

Record(r) ==
    /\ Goto(r, "record", "granted")
    /\ locks' = locks \cup {path[r]}
    /\ UNCHANGED <<storeVars, path, waiters, token, callbacks>>

\* store.Delete(nodePath, -1), whose error is ignored, and the goroutine it starts.
DeleteOwnNode(r) ==
    IF CanDelete(path[r], -1)
    THEN Delete(path[r], -1) /\ callbacks' = callbacks \cup {path[r]}
    ELSE UNCHANGED <<storeVars, callbacks>>

Abandon(r) ==
    /\ Goto(r, "abandon", "failed")
    /\ DeleteOwnNode(r)
    /\ UNCHANGED <<path, locks, waiters, token>>

-----------------------------------------------------------------------------
(* waitForLock *)

Register(r) ==
    /\ Goto(r, "register", "wait")
    /\ waiters' = [waiters EXCEPT ![NameOf[r]] = Append(@, r)]
    /\ UNCHANGED <<storeVars, path, locks, token, callbacks>>

Wakeup(r) ==
    /\ token[r]
    /\ Goto(r, "wait", "recheck")
    /\ token' = [token EXCEPT ![r] = FALSE]
    /\ UNCHANGED <<storeVars, path, locks, waiters, callbacks>>

\* Mutant: the condition of the timer reversed.
TimerFiresWithoutTimeout(r) ==
    /\ TimeoutOf[r] # "timed"
    /\ Goto(r, "wait", "abandonLate")
    /\ UNCHANGED <<storeVars, path, locks, waiters, token, callbacks>>

TimerFires(r) ==
    /\ TimeoutOf[r] = "timed"
    /\ Goto(r, "wait", "abandonLate")
    /\ UNCHANGED <<storeVars, path, locks, waiters, token, callbacks>>

\* Mutant: a notification is taken for the lock.
RecheckTrustsWakeup(r) ==
    /\ Goto(r, "recheck", "recordLate")
    /\ UNCHANGED <<storeVars, path, locks, waiters, token, callbacks>>

RecheckLockAcquired(r) ==
    /\ Goto(r, "recheck",
            IF ~Exists(lockPath(r)) THEN "abandonLate"
            ELSE IF IsFirst(r) THEN "recordLate"
            ELSE "wait")
    /\ UNCHANGED <<storeVars, path, locks, waiters, token, callbacks>>

RecordLate(r) ==
    /\ Goto(r, "recordLate", "leaveGranted")
    /\ locks' = locks \cup {path[r]}
    /\ UNCHANGED <<storeVars, path, waiters, token, callbacks>>

\* Mutant: a call that timed out leaves its node.
AbandonLateKeepsNode(r) ==
    /\ Goto(r, "abandonLate", "leaveFailed")
    /\ UNCHANGED <<storeVars, path, locks, waiters, token, callbacks>>

AbandonLate(r) ==
    /\ Goto(r, "abandonLate", "leaveFailed")
    /\ DeleteOwnNode(r)
    /\ UNCHANGED <<path, locks, waiters, token>>

\* Mutant: the waiter is removed only when the lock was acquired.
DeregisterGrantedOnly(r) ==
    \/ /\ Goto(r, "leaveGranted", "granted")
       /\ waiters' = [waiters EXCEPT ![NameOf[r]] = Without(@, r)]
       /\ UNCHANGED <<storeVars, path, locks, token, callbacks>>
    \/ /\ Goto(r, "leaveFailed", "failed")
       /\ UNCHANGED <<storeVars, path, locks, waiters, token, callbacks>>

\* The deferred removal of the waiter.
Deregister(r) ==
    /\ \/ Goto(r, "leaveGranted", "granted")
       \/ Goto(r, "leaveFailed", "failed")
    /\ waiters' = [waiters EXCEPT ![NameOf[r]] = Without(@, r)]
    /\ UNCHANGED <<storeVars, path, locks, token, callbacks>>

-----------------------------------------------------------------------------
(* Unlock, onNodeDeleted and the rest of the server *)

UnlockForget(r) ==
    /\ Goto(r, "granted", "unlock")
    /\ locks' = locks \ {path[r]}
    /\ UNCHANGED <<storeVars, path, waiters, token, callbacks>>

UnlockDelete(r) ==
    /\ Goto(r, "unlock", "released")
    /\ DeleteOwnNode(r)
    /\ UNCHANGED <<path, locks, waiters, token>>

\* The waiters of the lock whose directory p is or lies in: onNodeDeleted takes
\* the lock's name from the second component of the path.
WaitersFor(p) ==
    LET L == {l \in Lock : Len(p) >= 2 /\ p[1] = LocksDir[1] /\ p[2] = <<l, 0>>}
    IN  {r \in Request : \E l \in L : waiters[l] # << >> /\ Head(waiters[l]) = r}

\* The goroutine started for a deletion.  A full channel stays full.
OnNodeDeleted(p) ==
    /\ p \in callbacks
    /\ callbacks' = callbacks \ {p}
    /\ token' = [r \in Request |-> token[r] \/ (ManagerNotified /\ r \in WaitersFor(p))]
    /\ UNCHANGED <<storeVars, pc, path, locks, waiters>>

SessionEnds(sid) ==
    /\ DeleteEphemerals(sid)
    /\ callbacks' = callbacks \cup EphemeralsOf(sid)
    /\ UNCHANGED <<pc, path, locks, waiters, token>>

ClientCreates(p) ==
    /\ CanCreate(p, FALSE)
    /\ Create(p, NoData, FALSE, NoSession, FALSE)
    /\ UNCHANGED managerVars

\* Bound: a path is deleted again only after the callback of its last deletion.
ClientDeletes(p) ==
    /\ p \notin callbacks
    /\ Delete(p, -1)
    /\ callbacks' = callbacks \cup {p}
    /\ UNCHANGED <<pc, path, locks, waiters, token>>

-----------------------------------------------------------------------------
TryLockStep(r) ==
    \/ EnsureDirExists(r) \/ EnsureDirCreate(r) \/ CreateLockNode(r)
    \/ CheckLockAcquired(r) \/ Record(r) \/ Abandon(r)
    \/ Register(r) \/ Wakeup(r) \/ TimerFires(r) \/ RecheckLockAcquired(r)
    \/ RecordLate(r) \/ AbandonLate(r) \/ Deregister(r)

LockNext ==
    \/ \E r \in Request : Call(r) \/ TryLockStep(r) \/ UnlockForget(r) \/ UnlockDelete(r)
    \/ \E p \in callbacks : OnNodeDeleted(p)
    \/ \E sid \in Session : SessionEnds(sid)
    \/ \E p \in ClientPath \cap LockDirs : ClientCreates(p)
    \/ \E p \in ClientPath : ClientDeletes(p)

LockSpec == LockInit /\ [][LockNext]_lockVars

\* The paths whose deletion starts a goroutine that matters here.
LockPaths ==
    LockDirs \cup {Child(LockDir(l), <<"lock-", s>>) : l \in Lock, s \in 1..MaxSeq}

\* Every goroutine the Go scheduler runs makes progress: a TryLock in flight,
\* an Unlock once called, a callback once started.  A timer, once expired, stays
\* ready, and select chooses at random among the ready channels, so wakeups
\* cannot win against it for ever.
LockFairness ==
    /\ \A r \in Request : /\ WF_lockVars(TryLockStep(r))
                         /\ SF_lockVars(TimerFires(r))
                         /\ WF_lockVars(UnlockDelete(r))
    /\ \A p \in LockPaths : WF_lockVars(OnNodeDeleted(p))

LockFairSpec == LockSpec /\ LockFairness

-----------------------------------------------------------------------------
HasNode(r) == path[r] # Root /\ Exists(path[r])
Sequence(r) == baseName(path[r])[2]

\* r has passed checkLockAcquired and its lock node is still there.
Holds(r) == pc[r] \in Acquired /\ HasNode(r)

(***************************************************************************)
(* MutualExclusion: no two requests hold the same lock.  A request holds   *)
(* it from the moment checkLockAcquired returned true until its lock node  *)
(* is deleted, by Unlock, by the end of its session or by a client.        *)
(***************************************************************************)
MutualExclusion ==
    \A r, q \in Request : Holds(r) /\ Holds(q) /\ NameOf[r] = NameOf[q] => r = q

(***************************************************************************)
(* NoOvertaking: when a request holds a lock, every older request for it   *)
(* (lower sequence number) has lost its node: "fair FIFO ordering".        *)
(***************************************************************************)
NoOvertaking ==
    \A r, q \in Request :
        Holds(r) /\ HasNode(q) /\ NameOf[r] = NameOf[q] => Sequence(r) <= Sequence(q)

(***************************************************************************)
(* NoNodeLeftBehind: a TryLock that returns an error and an Unlock that    *)
(* has returned leave no lock node behind: one that stayed would block     *)
(* every later request until the session ends.                             *)
(***************************************************************************)
NoNodeLeftBehind ==
    \A r \in Request : pc[r] \in GivenUp => ~HasNode(r)

(***************************************************************************)
(* QueueInv, the strengthening that makes the properties above inductive:  *)
(* a lock's directory holds only ephemeral lock- nodes with sequence       *)
(* numbers already drawn, each request's node is its own, and the node of  *)
(* a request that passed checkLockAcquired stays the first child as later  *)
(* requests draw higher numbers.                                           *)
(***************************************************************************)
DirectoryHoldsLockNodes ==
    \A p \in DOMAIN nodes \ {Root} :
        parentPath(p) \in {LockDir(l) : l \in Lock} =>
            /\ nodes[p].Ephemeral
            /\ baseName(p)[2] <= seqCounter

NodesAreOwn ==
    \A r \in Request :
        /\ pc[r] \in BeforeCreate => path[r] = Root
        /\ path[r] # Root => /\ parentPath(path[r]) = lockPath(r)
                             /\ baseName(path[r])[1] = "lock-"
                             /\ Sequence(r) \in 1..seqCounter
                             /\ \A q \in Request : path[q] = path[r] => q = r

HolderIsFirstChild ==
    \A r \in Request :
        Holds(r) => \A n \in nodes[lockPath(r)].Children : Sequence(r) <= n[2]

QueueInv == DirectoryHoldsLockNodes /\ NodesAreOwn /\ HolderIsFirstChild

(***************************************************************************)
(* WaitersAreWaiting: the waiter channels registered for a lock are those  *)
(* of the calls that are inside waitForLock for it, each once.  A channel  *)
(* left behind at the head would take every later notification.            *)
(***************************************************************************)
WaitersAreWaiting ==
    \A l \in Lock :
        LET w == waiters[l] IN
        /\ {w[i] : i \in 1..Len(w)} = {r \in Request : NameOf[r] = l /\ pc[r] \in Registered}
        /\ \A i, j \in 1..Len(w) : w[i] = w[j] => i = j

\* The queue of the lock manager as FairLock sees it.
Fair == INSTANCE FairLock WITH
    ticket <- [r \in Request |-> IF HasNode(r) THEN Sequence(r) ELSE 0],
    last   <- seqCounter,
    owner  <- {r \in Request : Holds(r)}

(***************************************************************************)
(* ImplementsFairLock: every step of the lock manager is a step of         *)
(* FairLock or leaves its state alone: a lock is granted only to the       *)
(* oldest request still queued, in whatever order goroutines run.          *)
(***************************************************************************)
ImplementsFairLock == Fair!Spec

(***************************************************************************)
(* FirstIsServed: a request that waits for its predecessor ("otherwise,    *)
(* client waits for the predecessor to release", README.md) is granted the *)
(* lock, or returns, once its node is the first.                           *)
(***************************************************************************)
FirstIsServed ==
    \A r \in Request :
        pc[r] = "wait" /\ HasNode(r) /\ IsFirst(r) ~> pc[r] \in Returned \/ ~HasNode(r)

(***************************************************************************)
(* DeletionsNotify: "Set up watch callbacks for lock notifications"        *)
(* (manager.go): when the callback of a deletion below a lock's directory  *)
(* runs, the waiter that registered first for that lock has a notification *)
(* to read.  It says nothing of waiters that register too late.            *)
(***************************************************************************)
DeletionsNotify ==
    [][\A p \in callbacks : OnNodeDeleted(p) => \A r \in WaitersFor(p) : token'[r]]_lockVars

=============================================================================
