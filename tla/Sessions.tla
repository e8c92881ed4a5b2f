------------------------------ MODULE Sessions ------------------------------
(***************************************************************************)
(* The session manager of internal/session/manager.go, the API handlers    *)
(* that create and delete ephemeral nodes, and main.go's wiring of a       *)
(* session's end to Store.DeleteEphemerals.  A step is one critical        *)
(* section of the manager's mutex or one store method.  Close keeps the    *)
(* mutex while it calls onExpire, so its two steps exclude every other     *)
(* session operation but not the store's.                                  *)
(*                                                                         *)
(* Time is counted in ticks since a session's last heartbeat, up to one    *)
(* tick past the longest TTL: IsExpired cannot tell later ones apart.      *)
(***************************************************************************)
EXTENDS Store

CONSTANTS
    TTLInput,     \* the TTLs clients ask for, zero and negative ones included
    DefaultTTL,   \* Manager.defaultTTL
    MaxTTL        \* Manager.maxTTL

ASSUME SessionsAssumption ==
    /\ TTLInput \subseteq Int
    /\ DefaultTTL \in Nat \ {0} /\ MaxTTL \in Nat \ {0}

VARIABLES
    sessions,     \* Manager.sessions
    issued,       \* the session IDs handed out so far (uuid.New returns a fresh one)
    closing,      \* the session whose Close holds the mutex and has not called onExpire
    expiring,     \* the sessions whose onExpire goroutine has not run
    registering,  \* createNode calls between store.Create and RegisterEphemeral
    dropped,      \* history: sessions removed by a heartbeat that came too late
    late          \* history: ephemeral nodes created when their session had ended
                  \* and no cleanup of it was still to come

historyVars == <<dropped, late>>
tableVars == <<sessions, issued, closing, expiring>>
sessionVars == <<storeVars, tableVars, registering, historyVars>>

SessionRecord == [TTL           : 1..MaxTTL,
                  Idle          : 0..(MaxTTL + 1),
                  EphemeralKeys : SUBSET Path]

SessionsTypeOK ==
    /\ StoreTypeOK
    /\ DOMAIN sessions \subseteq Session
    /\ \A sid \in DOMAIN sessions : sessions[sid] \in SessionRecord
    /\ issued \subseteq Session /\ DOMAIN sessions \subseteq issued
    /\ closing \in Session \cup {NoSession}
    /\ expiring \subseteq issued
    /\ registering \subseteq Session \X Path
    /\ dropped \subseteq issued
    /\ late \subseteq Path

SessionsInit ==
    /\ StoreInit
    /\ sessions = << >>
    /\ issued = {} /\ closing = NoSession /\ expiring = {}
    /\ registering = {}
    /\ dropped = {} /\ late = {}

Live(sid) == sid \in DOMAIN sessions
IsExpired(sid) == sessions[sid].Idle > sessions[sid].TTL
MutexFree == closing = NoSession
Forget(S) == [sid \in DOMAIN sessions \ S |-> sessions[sid]]

\* onExpire has still to delete the ephemeral nodes of sid.
CleanupOwed(sid) == sid \in expiring \/ closing = sid

-----------------------------------------------------------------------------
\* Mutant: the default replaces a TTL that is too long, not one that is missing.
ValidTTLSwapped(ttl) == IF ttl > MaxTTL THEN DefaultTTL ELSE ttl

\* The validation at the head of Create.
ValidTTL(ttl) ==
    LET asked == IF ttl <= 0 THEN DefaultTTL ELSE ttl
    IN  IF asked > MaxTTL THEN MaxTTL ELSE asked

CreateSession(sid, ttl) ==
    /\ MutexFree
    /\ sid \notin issued
    /\ issued' = issued \cup {sid}
    /\ sessions' = [x \in DOMAIN sessions \cup {sid} |->
                       IF x = sid
                       THEN [TTL |-> ValidTTL(ttl), Idle |-> 0, EphemeralKeys |-> {}]
                       ELSE sessions[x]]
    /\ UNCHANGED <<storeVars, closing, expiring, registering, historyVars>>

\* A heartbeat that comes too late removes the session and does not call onExpire.
Heartbeat(sid) ==
    /\ MutexFree
    /\ Live(sid)
    /\ IF IsExpired(sid)
       THEN sessions' = Forget({sid}) /\ dropped' = dropped \cup {sid}
       ELSE sessions' = [sessions EXCEPT ![sid].Idle = 0] /\ UNCHANGED dropped
    /\ UNCHANGED <<storeVars, issued, closing, expiring, registering, late>>

CloseSession(sid) ==
    /\ MutexFree
    /\ Live(sid)
    /\ sessions' = Forget({sid})
    /\ closing' = sid
    /\ UNCHANGED <<storeVars, issued, expiring, registering, historyVars>>

\* Mutant: Close returns without calling onExpire.
CloseForgetsCallback ==
    /\ ~MutexFree
    /\ closing' = NoSession
    /\ UNCHANGED <<storeVars, sessions, issued, expiring, registering, historyVars>>

CloseOnExpire ==
    /\ ~MutexFree
    /\ DeleteEphemerals(closing)
    /\ closing' = NoSession
    /\ UNCHANGED <<sessions, issued, expiring, registering, historyVars>>

\* Mutant: the sessions are removed and no callback is started.
CheckExpirationsSilently ==
    LET E == {sid \in DOMAIN sessions : IsExpired(sid)} IN
    /\ MutexFree
    /\ E # {}
    /\ sessions' = Forget(E)
    /\ UNCHANGED <<storeVars, issued, closing, expiring, registering, historyVars>>

\* One tick of expirationLoop that finds expired sessions.
CheckExpirations ==
    LET E == {sid \in DOMAIN sessions : IsExpired(sid)} IN
    /\ MutexFree
    /\ E # {}
    /\ sessions' = Forget(E)
    /\ expiring' = expiring \cup E
    /\ UNCHANGED <<storeVars, issued, closing, registering, historyVars>>

\* Mutant: the callback takes every ephemeral node for one of its session.
OnExpireDeletesAll(sid) ==
    /\ sid \in expiring
    /\ nodes' = RemoveAll({p \in DOMAIN nodes : nodes[p].Ephemeral})
    /\ expiring' = expiring \ {sid}
    /\ UNCHANGED <<seqCounter, sessions, issued, closing, registering, historyVars>>

\* The goroutine that checkExpirations starts.
OnExpire(sid) ==
    /\ sid \in expiring
    /\ DeleteEphemerals(sid)
    /\ expiring' = expiring \ {sid}
    /\ UNCHANGED <<sessions, issued, closing, registering, historyVars>>

-----------------------------------------------------------------------------
\* History of the creation of an ephemeral node q for session sid.
NoteCreated(sid, q) ==
    late' = IF Live(sid) \/ CleanupOwed(sid) THEN late \ {q} ELSE late \cup {q}

(***************************************************************************)
(* createNode for an ephemeral node, when store.Create succeeds (see Store *)
(* for its failures).  Nothing asks the session manager                    *)
(* whether the session exists, and RegisterEphemeral's result is ignored.  *)
(***************************************************************************)
CreateNode(sid, p, d, sequential) ==
    LET q == ActualPath(p, sequential) IN
    /\ sid \in issued
    /\ CanCreate(p, sequential)
    /\ Create(p, d, TRUE, sid, sequential)
    /\ registering' = registering \cup {<<sid, q>>}
    /\ NoteCreated(sid, q)
    /\ UNCHANGED <<tableVars, dropped>>

RegisterEphemeral(sid, q) ==
    /\ MutexFree
    /\ <<sid, q>> \in registering
    /\ registering' = registering \ {<<sid, q>>}
    /\ sessions' = IF Live(sid) THEN [sessions EXCEPT ![sid].EphemeralKeys = @ \cup {q}]
                                ELSE sessions
    /\ UNCHANGED <<storeVars, issued, closing, expiring, historyVars>>

\* UnregisterEphemeral has no caller: a deleted node stays in EphemeralKeys.
DeleteNode(p) ==
    /\ Delete(p, -1)
    /\ UNCHANGED <<tableVars, registering, historyVars>>

Tick ==
    /\ sessions' = [sid \in DOMAIN sessions |->
                       [sessions[sid] EXCEPT !.Idle = IF @ > MaxTTL THEN @ ELSE @ + 1]]
    /\ UNCHANGED <<storeVars, issued, closing, expiring, registering, historyVars>>

SessionsNext ==
    \/ \E sid \in Session, ttl \in TTLInput : CreateSession(sid, ttl)
    \/ \E sid \in Session : Heartbeat(sid) \/ CloseSession(sid) \/ OnExpire(sid)
    \/ CloseOnExpire
    \/ CheckExpirations
    \/ \E sid \in Session, p \in InputPath, d \in Data, sequential \in BOOLEAN :
          CreateNode(sid, p, d, sequential)
    \/ \E call \in registering : RegisterEphemeral(call[1], call[2])
    \/ \E p \in InputPath : DeleteNode(p)
    \/ Tick

SessionsSpec == SessionsInit /\ [][SessionsNext]_sessionVars

-----------------------------------------------------------------------------
(***************************************************************************)
(* LeaksAreKnown: an ephemeral node whose session has ended and will not   *)
(* be cleaned up comes from one of two places only: a heartbeat that       *)
(* removed the session without calling onExpire, or a createNode that ran  *)
(* when the session had already ended and been cleaned up.  In every other *)
(* order of Close, expiry, heartbeat and createNode the node goes.         *)
(***************************************************************************)
LeaksAreKnown ==
    \A p \in DOMAIN nodes :
        nodes[p].Ephemeral =>
            LET sid == nodes[p].SessionID IN
            Live(sid) \/ CleanupOwed(sid) \/ sid \in dropped \/ p \in late

(***************************************************************************)
(* LiveSessionsKeepEphemerals: as long as a session lives, only a          *)
(* deleteNode for the node itself removes an ephemeral node of it: the     *)
(* end of other sessions, by Close or by expiry, does not.                 *)
(***************************************************************************)
LiveSessionsKeepEphemerals ==
    [][\A p \in DOMAIN nodes :
          nodes[p].Ephemeral /\ Live(nodes[p].SessionID) /\ p \notin DOMAIN nodes'
              => DeleteNode(p)]_sessionVars

(***************************************************************************)
(* SilentClientsAreCleanedUp: a client that stops sending heartbeats (it   *)
(* crashed, or lost the network) ends up without a session and without     *)
(* ephemeral nodes, the two leaks above aside.                             *)
(***************************************************************************)
SilentClientsAreCleanedUp ==
    \A sid \in Session :
        <>[][~Heartbeat(sid)]_sessionVars
            => <>[](sid \in dropped \/ (~Live(sid) /\ EphemeralsOf(sid) \subseteq late))

(***************************************************************************)
(* ExpiredSessionsAreCleanedUp: "All ephemeral nodes owned by an expired   *)
(* session are automatically deleted" (README.md): once a session that was *)
(* live has ended, the nodes it owned are gone or about to be deleted.     *)
(***************************************************************************)
ExpiredSessionsAreCleanedUp ==
    \A p \in DOMAIN nodes :
        nodes[p].Ephemeral /\ p \notin late
            => Live(nodes[p].SessionID) \/ CleanupOwed(nodes[p].SessionID)

=============================================================================
