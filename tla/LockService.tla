---------------------------- MODULE LockService ----------------------------
(***************************************************************************)
(* The lock service as its clients use it: the lock manager, the session   *)
(* manager and the store as cmd/skylock/main.go wires them, the lock       *)
(* handlers of internal/api/server.go, and Client.TryLock and Lock.Unlock  *)
(* of pkg/client/client.go.                                                *)
(*                                                                         *)
(* A call over HTTP is three steps: the client sends it, the handler runs, *)
(* the client has the answer.  The client may give up between them, when   *)
(* its context or its 30 s timeout expires, the connection breaks, or the  *)
(* server's WriteTimeout of 10 s cuts the answer off; the handler does not *)
(* notice and runs all the same, at any later time.  A request that is     *)
(* lost is one whose handler never runs.  Sessions are opened, renewed and *)
(* closed by anyone who knows their ID, at any time.                       *)
(***************************************************************************)
EXTENDS LockManager, Sessions

VARIABLES
    http    \* what the client knows of each request: "none" (not sent), "sent",
            \* "held" (TryLock returned a lock), "failed" (it returned an error),
            \* "unlocking" (Unlock was called), "done" (Unlock returned)

sessionsOnly == <<sessions, issued, closing, expiring, registering, dropped, late>>
serviceVars == <<nodes, seqCounter, pc, path, locks, waiters, token, callbacks,
                 sessions, issued, closing, expiring, registering, dropped, late, http>>

ServiceTypeOK ==
    /\ LockTypeOK
    /\ SessionsTypeOK
    /\ http \in [Request -> {"none", "sent", "held", "failed", "unlocking", "done"}]

ServiceInit ==
    /\ LockInit
    /\ SessionsInit
    /\ http = [r \in Request |-> "none"]

Answer(r, from, to) == http[r] = from /\ http' = [http EXCEPT ![r] = to]

-----------------------------------------------------------------------------
(* The clients *)

\* Client.TryLock: the client has had a session ID from Connect.  Neither the
\* client nor the handler checks that the session is still there.
SendTryLock(r) ==
    /\ SessionOf[r] \in issued
    /\ Answer(r, "none", "sent")
    /\ UNCHANGED <<lockVars, sessionsOnly>>

\* The answer of acquireLock arrives.
TryLockReturns(r) ==
    /\ \/ pc[r] = "granted" /\ Answer(r, "sent", "held")
       \/ pc[r] = "failed" /\ Answer(r, "sent", "failed")
    /\ UNCHANGED <<lockVars, sessionsOnly>>

\* Lock.Unlock.
SendUnlock(r) ==
    /\ Answer(r, "held", "unlocking")
    /\ UNCHANGED <<lockVars, sessionsOnly>>

\* The answer of releaseLock arrives: an error when the node was gone already.
UnlockReturns(r) ==
    /\ pc[r] = "released"
    /\ Answer(r, "unlocking", "done")
    /\ UNCHANGED <<lockVars, sessionsOnly>>

\* doRequest returns an error without an answer.
GiveUp(r) ==
    /\ Answer(r, "sent", "failed") \/ Answer(r, "unlocking", "done")
    /\ UNCHANGED <<lockVars, sessionsOnly>>

-----------------------------------------------------------------------------
(* The server *)

\* acquireLock begins, whether or not the client still waits for it.
AcquireLock(r) ==
    /\ http[r] # "none"
    /\ Call(r)
    /\ UNCHANGED <<sessionsOnly, http>>

\* A step of TryLock inside acquireLock.
ServeTryLock(r) ==
    /\ TryLockStep(r)
    /\ IF path'[r] # path[r] THEN NoteCreated(SessionOf[r], path'[r]) ELSE UNCHANGED late
    /\ UNCHANGED <<sessions, issued, closing, expiring, registering, dropped, http>>

\* releaseLock.
ReleaseLock(r) ==
    /\ http[r] \in {"unlocking", "done"}
    /\ UnlockForget(r) \/ UnlockDelete(r)
    /\ UNCHANGED <<sessionsOnly, http>>

\* The sessions' own operations: createSession, heartbeat, closeSession, the
\* expiration loop and the passing of time.
SessionStep ==
    /\ \/ \E sid \in Session, ttl \in TTLInput : CreateSession(sid, ttl)
       \/ \E sid \in Session : Heartbeat(sid) \/ CloseSession(sid)
       \/ CheckExpirations
       \/ Tick
    /\ UNCHANGED <<managerVars, http>>

\* Mutant: the deletions of onExpire start no goroutines.
EndBySilently(sid, step) ==
    /\ step
    /\ UNCHANGED <<pc, path, locks, waiters, token, callbacks, http>>

\* main.go's onExpire, from Close and from the expiration loop.  Each deletion
\* starts a goroutine.
EndBy(sid, step) ==
    /\ step
    /\ callbacks' = callbacks \cup EphemeralsOf(sid)
    /\ UNCHANGED <<pc, path, locks, waiters, token, http>>

\* The delete callback of the store, and the nodes that clients create and delete.
OtherStep ==
    /\ \/ \E p \in callbacks : OnNodeDeleted(p)
       \/ \E p \in ClientPath \cap LockDirs : ClientCreates(p)
       \/ \E p \in ClientPath : ClientDeletes(p)
    /\ UNCHANGED <<sessionsOnly, http>>

ServiceNext ==
    \/ \E r \in Request :
          \/ SendTryLock(r) \/ TryLockReturns(r) \/ SendUnlock(r) \/ UnlockReturns(r)
          \/ GiveUp(r)
          \/ AcquireLock(r) \/ ServeTryLock(r) \/ ReleaseLock(r)
    \/ SessionStep
    \/ EndBy(closing, CloseOnExpire)
    \/ \E sid \in Session : EndBy(sid, OnExpire(sid))
    \/ OtherStep

ServiceSpec == ServiceInit /\ [][ServiceNext]_serviceVars

\* The server's goroutines run: TryLock goes on, a timer that has expired is served
\* (see LockFairness), time passes, the ticker of expirationLoop finds expired
\* sessions, and the calls of onExpire are made.  The clients owe nothing.
ServiceFairness ==
    /\ \A r \in Request :
          /\ WF_serviceVars(ServeTryLock(r))
          /\ SF_serviceVars(ServeTryLock(r) /\ TimerFires(r))
    /\ WF_serviceVars(Tick /\ UNCHANGED <<managerVars, http>>)
    /\ WF_serviceVars(CheckExpirations /\ UNCHANGED <<managerVars, http>>)
    /\ WF_serviceVars(EndBy(closing, CloseOnExpire))
    /\ \A sid \in Session : WF_serviceVars(EndBy(sid, OnExpire(sid)))

ServiceFairSpec == ServiceSpec /\ ServiceFairness

-----------------------------------------------------------------------------
(***************************************************************************)
(* ImplementsLockManager: composed with sessions and clients, the lock     *)
(* manager still behaves as LockManager says; what main.go wires to the    *)
(* end of a session is the SessionEnds of that module.  Exclusion and      *)
(* FIFO order carry over.                                                  *)
(***************************************************************************)
ImplementsLockManager == LockSpec

(***************************************************************************)
(* BeliefsAreTrue: a client that TryLock gave a lock, and that has not     *)
(* called Unlock, holds it as long as its session lives: late answers,     *)
(* handlers that run after their client gave up, the end of other sessions *)
(* and the Unlock of others take no lock away.                             *)
(***************************************************************************)
BeliefsAreTrue ==
    \A r \in Request :
        http[r] = "held" /\ Live(SessionOf[r]) /\ path[r] \notin ClientPath => Holds(r)

(***************************************************************************)
(* ClientExclusion: no two clients with live sessions believe that they    *)
(* hold the same lock.                                                     *)
(***************************************************************************)
ClientExclusion ==
    \A r, q \in Request :
        /\ http[r] = "held" /\ Live(SessionOf[r]) /\ path[r] \notin ClientPath
        /\ http[q] = "held" /\ Live(SessionOf[q]) /\ path[q] \notin ClientPath
        /\ NameOf[r] = NameOf[q]
        => r = q

(***************************************************************************)
(* LockCallsReturn: acquireLock, once it has begun, returns, even where no *)
(* notification ever reaches a waiting call.                               *)
(***************************************************************************)
LockCallsReturn ==
    \A r \in Request :
        TimeoutOf[r] # "forever" => []<>(pc[r] = "idle" \/ pc[r] \in Returned)

(***************************************************************************)
(* SilentHoldersLoseTheirLocks: "Locks are automatically released when the *)
(* owning session expires" (README.md): the lock nodes of a client that    *)
(* stops sending heartbeats go for good, the two leaks aside.              *)
(***************************************************************************)
SilentHoldersLoseTheirLocks ==
    \A sid \in Session :
        <>[][~Heartbeat(sid)]_serviceVars
            => <>[](sid \in dropped \/ EphemeralsOf(sid) \subseteq late)

=============================================================================
