----------------------------- MODULE Keepalive -----------------------------
(***************************************************************************)
(* How the client SDK, pkg/client/client.go, keeps its session: Connect,   *)
(* the heartbeat goroutine that each Connect starts, and Close, with the   *)
(* session manager of Sessions at the other end.  Other clients use the    *)
(* API directly and do with their sessions what Sessions allows.           *)
(*                                                                         *)
(* A tick is longer than the 5 s after which a heartbeat request gives up, *)
(* and goroutines are not starved: before the next tick a heartbeat that   *)
(* is due is sent, one that was sent is answered or fails, and a closed    *)
(* channel is noticed.  Connect's own request may take any time.  The      *)
(* goroutine of a Connect and the heartbeatStop channel it makes are named *)
(* by its session.                                                         *)
(***************************************************************************)
EXTENDS Sessions

CONSTANTS
    ClientTTL     \* the TTL Connect asks for, in ticks

\* Mutant: one heartbeat per TTL.
OncePerTTL == ValidTTL(ClientTTL)

\* The heartbeat interval: a third of the TTL that the server granted.
Interval == ValidTTL(ClientTTL) \div 3

ASSUME KeepaliveAssumption == ClientTTL \in Int /\ ClientTTL >= 3 /\ MaxTTL >= 3

VARIABLES
    app,          \* the program that uses the SDK: "ready", "connecting", "closing"
                  \* (Close waits for the goroutines), "deleting", "dead"
    mine,         \* the sessions its Connect calls have created, the last one first
    sessionID,    \* Client.sessionID; heartbeatStop is the channel of the same name
    stopped,      \* the channels that Close has closed
    beat,         \* where each heartbeat goroutine is
    waited,       \* ticks since its ticker fired
    watching,     \* the channel its select looks at
    target,       \* the session its request is for
    missed        \* history: how many of its last requests failed; 2 once two in a row did

beatVars == <<beat, waited, watching, target, missed>>
clientVars == <<app, mine, sessionID, stopped, beatVars>>
keepaliveVars == <<sessionVars, clientVars>>

KeepaliveTypeOK ==
    /\ SessionsTypeOK
    /\ app \in {"ready", "connecting", "closing", "deleting", "dead"}
    /\ mine \in Seq(issued) /\ sessionID \in issued \cup {NoSession} /\ stopped \subseteq issued
    /\ beat \in [Session -> {"off", "select", "due", "sent"}]
    /\ waited \in [Session -> 0..Interval]
    /\ watching \in [Session -> Session] /\ target \in [Session -> Session]
    /\ missed \in [Session -> 0..2]

Off == [g \in Session |-> "off"]
Zero == [g \in Session |-> 0]
Own == [g \in Session |-> g]

KeepaliveInit ==
    /\ SessionsInit
    /\ app = "ready" /\ mine = << >> /\ sessionID = NoSession /\ stopped = {}
    /\ beat = Off /\ waited = Zero /\ watching = Own /\ target = Own /\ missed = Zero

\* The process ends, and its memory with it.
Dies ==
    /\ app' = "dead" /\ sessionID' = NoSession /\ stopped' = {}
    /\ beat' = Off /\ waited' = Zero /\ watching' = Own /\ target' = Own /\ missed' = Zero

Mine(sid) == \E k \in 1..Len(mine) : mine[k] = sid
Proceed(from, to) == app = from /\ app' = to

-----------------------------------------------------------------------------
(* Connect and Close *)

\* createSession, for a request of Connect.
Connect(sid) ==
    /\ Proceed("ready", "connecting")
    /\ CreateSession(sid, ClientTTL)
    /\ mine' = <<sid>> \o mine
    /\ UNCHANGED <<sessionID, stopped, beatVars>>

\* The answer arrives and startHeartbeat runs.  The ticks it took are ticks
\* without a heartbeat.
ConnectReturns ==
    LET sid == Head(mine)
        idle == IF Live(sid) THEN sessions[sid].Idle ELSE MaxTTL + 1 IN
    /\ Proceed("connecting", "ready")
    /\ sessionID' = sid
    /\ beat' = [beat EXCEPT ![sid] = "select"]
    /\ missed' = [missed EXCEPT ![sid] = IF idle = 0 THEN 0 ELSE IF idle <= Interval THEN 1 ELSE 2]
    /\ UNCHANGED <<sessionVars, mine, stopped, waited, watching, target>>

\* It does not, or too late.
ConnectFails ==
    /\ Proceed("connecting", "ready")
    /\ UNCHANGED <<sessionVars, mine, sessionID, stopped, beatVars>>

\* Close closes heartbeatStop; it panics, and the process with it, when a Close has
\* done so before.  Without a Connect it does nothing.
Close ==
    /\ sessionID # NoSession
    /\ \/ /\ sessionID \notin stopped
          /\ Proceed("ready", "closing")
          /\ stopped' = stopped \cup {sessionID}
          /\ UNCHANGED <<sessionID, beatVars>>
       \/ /\ sessionID \in stopped
          /\ app = "ready" /\ Dies
    /\ UNCHANGED <<sessionVars, mine>>

\* heartbeatWG.Wait returns.
CloseWaited ==
    /\ \A g \in Session : beat[g] = "off"
    /\ Proceed("closing", "deleting")
    /\ UNCHANGED <<sessionVars, mine, sessionID, stopped, beatVars>>

\* The DELETE request: served, refused for a session that is gone, or lost.
CloseReturns ==
    /\ Proceed("deleting", "ready")
    /\ CloseSession(sessionID) \/ UNCHANGED sessionVars
    /\ UNCHANGED <<mine, sessionID, stopped, beatVars>>

\* The program ends without Close.
Crash ==
    /\ app # "dead" /\ Dies
    /\ UNCHANGED <<sessionVars, mine>>

-----------------------------------------------------------------------------
(* startHeartbeat's goroutine *)

\* Mutant: the goroutine keeps the session ID it was started with.
BeatForOwnSession(g) ==
    /\ beat[g] = "due"
    /\ beat' = [beat EXCEPT ![g] = "sent"]
    /\ target' = [target EXCEPT ![g] = g]
    /\ UNCHANGED <<sessionVars, app, mine, sessionID, stopped, waited, watching, missed>>

\* The ticker has fired: the request is for the session the client has now.
SendHeartbeat(g) ==
    /\ beat[g] = "due"
    /\ beat' = [beat EXCEPT ![g] = "sent"]
    /\ target' = [target EXCEPT ![g] = sessionID]
    /\ UNCHANGED <<sessionVars, app, mine, sessionID, stopped, waited, watching, missed>>

\* Mutant: the goroutine keeps the channel it was started with.
LoopOnOwnChannel(g, failures) ==
    /\ beat' = [beat EXCEPT ![g] = "select"]
    /\ missed' = [missed EXCEPT ![g] = failures]
    /\ target' = [target EXCEPT ![g] = g]
    /\ UNCHANGED <<app, mine, sessionID, stopped, waited, watching>>

\* Back to the select, which reads Client.heartbeatStop again.
Loop(g, failures) ==
    /\ beat' = [beat EXCEPT ![g] = "select"]
    /\ watching' = [watching EXCEPT ![g] = sessionID]
    /\ missed' = [missed EXCEPT ![g] = failures]
    /\ target' = [target EXCEPT ![g] = g]
    /\ UNCHANGED <<app, mine, sessionID, stopped, waited>>

\* The server handles the request; an error is logged and changes nothing.
HeartbeatServed(g) ==
    /\ beat[g] = "sent"
    /\ MutexFree
    /\ Heartbeat(target[g]) \/ (~Live(target[g]) /\ UNCHANGED sessionVars)
    /\ Loop(g, IF missed[g] = 2 THEN 2 ELSE 0)

HeartbeatLost(g) ==
    /\ beat[g] = "sent"
    /\ UNCHANGED sessionVars
    /\ Loop(g, IF missed[g] = 0 THEN 1 ELSE 2)

\* select may take the closed channel or the ticker when both are ready.
StopHeartbeat(g) ==
    /\ beat[g] \in {"select", "due"} /\ watching[g] \in stopped
    /\ beat' = [beat EXCEPT ![g] = "off"]
    /\ waited' = [waited EXCEPT ![g] = 0]
    /\ watching' = [watching EXCEPT ![g] = g]
    /\ missed' = [missed EXCEPT ![g] = 0]
    /\ UNCHANGED <<sessionVars, app, mine, sessionID, stopped, target>>

\* The goroutine has something to do or waits for an answer.
Busy(g) == beat[g] \in {"due", "sent"} \/ (beat[g] = "select" /\ watching[g] \in stopped)

\* A tick of the clock: on the server and in the tickers.
ClockTick ==
    /\ \A g \in Session : ~Busy(g)
    /\ Tick
    /\ waited' = [g \in Session |-> IF beat[g] = "off" \/ waited[g] + 1 = Interval
                                    THEN 0 ELSE waited[g] + 1]
    /\ beat' = [g \in Session |-> IF beat[g] = "select" /\ waited[g] + 1 = Interval
                                  THEN "due" ELSE beat[g]]
    /\ UNCHANGED <<app, mine, sessionID, stopped, watching, target, missed>>

-----------------------------------------------------------------------------
\* What the server does by itself and for its other clients.
Others ==
    /\ \/ \E sid \in Session :
             \/ \E ttl \in TTLInput : CreateSession(sid, ttl)
             \/ ~Mine(sid) /\ (Heartbeat(sid) \/ CloseSession(sid))
             \/ OnExpire(sid)
       \/ CloseOnExpire
       \/ CheckExpirations
       \/ \E sid \in Session, p \in InputPath, d \in Data, sequential \in BOOLEAN :
             CreateNode(sid, p, d, sequential)
       \/ \E call \in registering : RegisterEphemeral(call[1], call[2])
       \/ \E p \in InputPath : DeleteNode(p)
    /\ UNCHANGED clientVars

Beats(g) == SendHeartbeat(g) \/ HeartbeatServed(g) \/ HeartbeatLost(g) \/ StopHeartbeat(g)

KeepaliveNext ==
    \/ \E sid \in Session : Connect(sid)
    \/ ConnectReturns \/ ConnectFails
    \/ Close \/ CloseWaited \/ CloseReturns \/ Crash
    \/ \E g \in Session : Beats(g)
    \/ ClockTick
    \/ Others

KeepaliveSpec == KeepaliveInit /\ [][KeepaliveNext]_keepaliveVars

\* Time passes and the goroutines on both sides go on; a Close that was called does
\* too.  The program need not call anything, and every request may be lost.
KeepaliveFairness ==
    /\ WF_keepaliveVars(ClockTick)
    /\ WF_keepaliveVars(CheckExpirations /\ UNCHANGED clientVars)
    /\ WF_keepaliveVars(CloseOnExpire /\ UNCHANGED clientVars)
    /\ \A sid \in Session : /\ WF_keepaliveVars(OnExpire(sid) /\ UNCHANGED clientVars)
                           /\ WF_keepaliveVars(Beats(sid))
    /\ WF_keepaliveVars(CloseWaited)

KeepaliveFairSpec == KeepaliveSpec /\ KeepaliveFairness

-----------------------------------------------------------------------------
(***************************************************************************)
(* OneLossIsHarmless: a connected client keeps its session, with a tick    *)
(* to spare, as long as no two of its heartbeats in a row are lost; a      *)
(* Connect whose answer was slow counts as one that was.                   *)
(***************************************************************************)
OneLossIsHarmless ==
    sessionID # NoSession /\ beat[sessionID] # "off" /\ missed[sessionID] < 2
        => Live(sessionID) /\ sessions[sessionID].Idle < sessions[sessionID].TTL

(***************************************************************************)
(* CloseStopsHeartbeats: Close returns, also when an earlier Connect left  *)
(* a goroutine that waits for a channel nobody will close: it looks at the *)
(* new one after its next heartbeat.                                       *)
(***************************************************************************)
CloseStopsHeartbeats == []<>(app # "closing")

(***************************************************************************)
(* OnlyTheLastSessionIsKept: a session that a later Connect replaced, that *)
(* Close could not delete, or whose Connect failed, ends: no goroutine of  *)
(* the client goes on renewing it.                                         *)
(***************************************************************************)
OnlyTheLastSessionIsKept ==
    \A sid \in Session :
        []<>(Mine(sid) /\ (sid # sessionID \/ sid \in stopped) => ~Live(sid))

=============================================================================
