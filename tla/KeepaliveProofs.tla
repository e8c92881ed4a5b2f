-------------------------- MODULE KeepaliveProofs --------------------------
(***************************************************************************)
(* The SDK's heartbeats against the server's expiry check, for every TTL   *)
(* of three ticks or more, any number of sessions and any behaviour of the *)
(* other clients.  To the session manager the SDK is one of its clients,   *)
(* so what SessionsProofs shows holds with the SDK as well.                *)
(***************************************************************************)
EXTENDS Keepalive, SessionsProofs

TTLGranted == ValidTTL(ClientTTL)

LEMMA IntervalFacts ==
    /\ TTLGranted \in Nat /\ TTLGranted <= MaxTTL /\ MaxTTL \in Nat
    /\ Interval \in Nat /\ Interval > 0 /\ 3 * Interval <= TTLGranted
<1>1. TTLGranted \in Nat /\ TTLGranted <= MaxTTL /\ TTLGranted >= 3 /\ MaxTTL \in Nat
  BY KeepaliveAssumption, SessionsAssumption DEF TTLGranted, ValidTTL
<1>2. Interval = TTLGranted \div 3
  BY DEF Interval, TTLGranted
<1>3. \A n \in Nat : n >= 3 => n \div 3 \in Nat /\ n \div 3 > 0 /\ 3 * (n \div 3) <= n
  OBVIOUS
<1> QED
  BY <1>1, <1>2, <1>3

RecordFields == {"TTL", "Idle", "EphemeralKeys"}
RecordOK(x) == x = [f \in RecordFields |-> x[f]] /\ x.TTL \in Nat /\ x.Idle \in Nat

\* The table of sessions, and the client's part in it.
TableOK ==
    /\ DOMAIN sessions \subseteq issued
    /\ \A sid \in DOMAIN sessions : RecordOK(sessions[sid])
    /\ mine \in Seq(Session) /\ \A sid \in Session : Mine(sid) => sid \in issued
    /\ \A sid \in Session : Mine(sid) /\ Live(sid) => sessions[sid].TTL = TTLGranted

\* Where the goroutines are.
BeatsOK ==
    /\ beat \in [Session -> {"off", "select", "due", "sent"}]
    /\ waited \in [Session -> 0..(Interval - 1)]
    /\ missed \in [Session -> 0..2]
    /\ DOMAIN target = Session
    /\ \A g \in Session : beat[g] # "select" => waited[g] = 0

\* How Connect and Close go on.
ClientOK ==
    /\ sessionID \in Session \cup {NoSession}
    /\ sessionID # NoSession => Mine(sessionID)
    /\ app = "connecting" => mine # << >> /\ beat[Head(mine)] = "off"
    /\ app = "deleting" => \A g \in Session : beat[g] = "off"
    /\ \A g \in Session : g \notin issued => beat[g] = "off"
    /\ sessionID # NoSession /\ beat[sessionID] = "sent" => target[sessionID] = sessionID

\* The time that the session's own goroutine, with its last requests lost as missed
\* says, can have left the session without a heartbeat.
LongestIdle ==
    (IF missed[sessionID] = 0 THEN 0 ELSE Interval)
        + (IF beat[sessionID] = "select" THEN waited[sessionID] ELSE Interval)

Kept == Live(sessionID) /\ sessions[sessionID].Idle <= LongestIdle

\* The inductive invariant for OneLossIsHarmless.
KeepaliveInv ==
    /\ TableOK /\ BeatsOK /\ ClientOK
    /\ sessionID # NoSession /\ beat[sessionID] # "off" /\ missed[sessionID] < 2 => Kept

\* Kept leaves the session alive for more than a tick.
LEMMA KeptIsEnough ==
    ASSUME KeepaliveInv, sessionID # NoSession, beat[sessionID] # "off", missed[sessionID] < 2
    PROVE  Live(sessionID) /\ sessions[sessionID].Idle < sessions[sessionID].TTL
             /\ ~IsExpired(sessionID)
<1>1. Live(sessionID) /\ sessions[sessionID].Idle <= LongestIdle
  BY DEF KeepaliveInv, Kept
<1>2. sessionID \in Session /\ sessions[sessionID].TTL = TTLGranted /\ sessions[sessionID].Idle \in Nat
  BY <1>1 DEF KeepaliveInv, ClientOK, TableOK, RecordOK, Live
<1>3. LongestIdle \in Nat /\ LongestIdle <= 2 * Interval
  BY <1>2, IntervalFacts DEF LongestIdle, KeepaliveInv, BeatsOK
<1> QED
  BY <1>1, <1>2, <1>3, IntervalFacts DEF IsExpired

-----------------------------------------------------------------------------
(* What happens to the table of sessions *)

LEMMA NewRecord ==
    RecordOK([TTL |-> TTLGranted, Idle |-> 0, EphemeralKeys |-> {}])
BY IntervalFacts DEF RecordOK, RecordFields

LEMMA IdleRecord ==
    ASSUME NEW x, RecordOK(x), NEW n \in Nat
    PROVE  LET y == [x EXCEPT !.Idle = n] IN RecordOK(y) /\ y.Idle = n /\ y.TTL = x.TTL
BY DEF RecordOK, RecordFields

LEMMA KeysRecord ==
    ASSUME NEW x, RecordOK(x), NEW k
    PROVE  LET y == [x EXCEPT !.EphemeralKeys = k] IN
           RecordOK(y) /\ y.Idle = x.Idle /\ y.TTL = x.TTL
BY DEF RecordOK, RecordFields

\* Sessions end when they have expired; those that do not are no older than before.
Undisturbed ==
    /\ issued \subseteq issued' /\ DOMAIN sessions' \subseteq issued'
    /\ \A sid \in DOMAIN sessions' : RecordOK(sessions'[sid])
    /\ \A sid \in DOMAIN sessions' \cap issued :
          /\ sid \in DOMAIN sessions /\ sessions'[sid].TTL = sessions[sid].TTL
          /\ sessions'[sid].Idle <= sessions[sid].Idle
    /\ \A sid \in DOMAIN sessions : Mine(sid) /\ ~IsExpired(sid) => sid \in DOMAIN sessions'

LEMMA UnchangedIsUndisturbed ==
    ASSUME KeepaliveInv, sessions' = sessions, issued' = issued
    PROVE  Undisturbed
BY DEF KeepaliveInv, TableOK, Undisturbed, RecordOK

LEMMA ForgetIsUndisturbed ==
    ASSUME KeepaliveInv, NEW S, \A sid \in S : Mine(sid) => IsExpired(sid),
           sessions' = Forget(S), issued' = issued
    PROVE  Undisturbed
BY DEF KeepaliveInv, TableOK, Undisturbed, RecordOK, Forget

LEMMA CreateIsUndisturbed ==
    ASSUME KeepaliveInv, NEW sid \in Session, NEW ttl \in Int, CreateSession(sid, ttl)
    PROVE  Undisturbed
<1>1. ValidTTL(ttl) \in Nat
  BY SessionsAssumption DEF ValidTTL
<1>2. RecordOK([TTL |-> ValidTTL(ttl), Idle |-> 0, EphemeralKeys |-> {}])
  BY <1>1 DEF RecordOK, RecordFields
<1>3. /\ sid \notin issued /\ issued' = issued \cup {sid}
      /\ DOMAIN sessions' = DOMAIN sessions \cup {sid}
      /\ sessions'[sid] = [TTL |-> ValidTTL(ttl), Idle |-> 0, EphemeralKeys |-> {}]
      /\ \A x \in DOMAIN sessions : x # sid => sessions'[x] = sessions[x]
  BY DEF CreateSession
<1> QED
  BY <1>2, <1>3 DEF KeepaliveInv, TableOK, Undisturbed, RecordOK

LEMMA UpdateIsUndisturbed ==
    ASSUME KeepaliveInv, NEW sid \in DOMAIN sessions, NEW y, RecordOK(y),
           y.TTL = sessions[sid].TTL, y.Idle <= sessions[sid].Idle,
           sessions' = [sessions EXCEPT ![sid] = y], issued' = issued
    PROVE  Undisturbed
<1>1. /\ DOMAIN sessions' = DOMAIN sessions /\ sessions'[sid] = y
      /\ \A x \in DOMAIN sessions : x # sid => sessions'[x] = sessions[x]
  OBVIOUS
<1>2. \A x \in DOMAIN sessions : RecordOK(sessions[x]) /\ sessions[x].Idle \in Nat
  BY DEF KeepaliveInv, TableOK, RecordOK
<1>3. \A x \in DOMAIN sessions : /\ RecordOK(sessions'[x]) /\ sessions'[x].TTL = sessions[x].TTL
                                /\ sessions'[x].Idle <= sessions[x].Idle
  BY <1>1, <1>2
<1>4. DOMAIN sessions \subseteq issued
  BY DEF KeepaliveInv, TableOK
<1> QED
  BY <1>1, <1>3, <1>4 DEF Undisturbed

LEMMA HeartbeatIsUndisturbed ==
    ASSUME KeepaliveInv, NEW sid, Heartbeat(sid)
    PROVE  Undisturbed /\ (~IsExpired(sid) => sessions'[sid].Idle = 0)
<1>0. sid \in DOMAIN sessions /\ issued' = issued /\ RecordOK(sessions[sid])
  BY DEF Heartbeat, Live, KeepaliveInv, TableOK
<1>1. CASE IsExpired(sid)
  BY <1>0, <1>1, ForgetIsUndisturbed DEF Heartbeat
<1>2. CASE ~IsExpired(sid)
  <2> DEFINE y == [sessions[sid] EXCEPT !.Idle = 0]
  <2>1. sessions' = [sessions EXCEPT ![sid] = y]
    BY <1>2 DEF Heartbeat
  <2>2. RecordOK(y) /\ y.Idle = 0 /\ y.TTL = sessions[sid].TTL
    BY <1>0, IdleRecord
  <2> HIDE DEF y
  <2> QED
    BY <1>0, <1>2, <2>1, <2>2, UpdateIsUndisturbed DEF RecordOK
<1> QED
  BY <1>1, <1>2

LEMMA RegisterIsUndisturbed ==
    ASSUME KeepaliveInv, NEW sid, NEW q, RegisterEphemeral(sid, q)
    PROVE  Undisturbed
<1>0. issued' = issued
  BY DEF RegisterEphemeral
<1>1. CASE Live(sid)
  <2> DEFINE y == [sessions[sid] EXCEPT !.EphemeralKeys = @ \cup {q}]
  <2>1. sessions' = [sessions EXCEPT ![sid] = y] /\ sid \in DOMAIN sessions
    BY <1>1 DEF RegisterEphemeral, Live
  <2>2. RecordOK(y) /\ y.Idle = sessions[sid].Idle /\ y.TTL = sessions[sid].TTL
    BY <2>1, KeysRecord, Zenon DEF KeepaliveInv, TableOK
  <2> HIDE DEF y
  <2> QED
    BY <1>0, <2>1, <2>2, UpdateIsUndisturbed DEF RecordOK
<1>2. CASE ~Live(sid)
  BY <1>0, <1>2, UnchangedIsUndisturbed DEF RegisterEphemeral
<1> QED
  BY <1>1, <1>2

LEMMA OthersAreUndisturbed ==
    ASSUME KeepaliveInv, Others
    PROVE  Undisturbed
<1>1. ASSUME NEW sid \in Session, NEW ttl \in TTLInput, CreateSession(sid, ttl) PROVE Undisturbed
  BY <1>1, CreateIsUndisturbed, SessionsAssumption
<1>2. ASSUME NEW sid \in Session, ~Mine(sid), Heartbeat(sid) \/ CloseSession(sid) PROVE Undisturbed
  <2>1. CASE Heartbeat(sid)
    BY <2>1, HeartbeatIsUndisturbed
  <2>2. CASE CloseSession(sid)
    BY <1>2, <2>2, ForgetIsUndisturbed DEF CloseSession
  <2> QED
    BY <1>2, <2>1, <2>2
<1>3. ASSUME NEW sid \in Session, OnExpire(sid) PROVE Undisturbed
  BY <1>3, UnchangedIsUndisturbed DEF OnExpire
<1>4. CASE CloseOnExpire
  BY <1>4, UnchangedIsUndisturbed DEF CloseOnExpire
<1>5. CASE CheckExpirations
  BY <1>5, ForgetIsUndisturbed DEF CheckExpirations
<1>6. ASSUME NEW sid \in Session, NEW p \in InputPath, NEW d \in Data, NEW sequential \in BOOLEAN,
             CreateNode(sid, p, d, sequential)
      PROVE  Undisturbed
  BY <1>6, UnchangedIsUndisturbed DEF CreateNode, tableVars
<1>7. ASSUME NEW call \in registering, RegisterEphemeral(call[1], call[2]) PROVE Undisturbed
  BY <1>7, RegisterIsUndisturbed
<1>8. ASSUME NEW p \in InputPath, DeleteNode(p) PROVE Undisturbed
  BY <1>8, UnchangedIsUndisturbed DEF DeleteNode, tableVars
<1> QED
  BY <1>1, <1>2, <1>3, <1>4, <1>5, <1>6, <1>7, <1>8 DEF Others

-----------------------------------------------------------------------------
(* What the client does *)

LEMMA TableStays ==
    ASSUME KeepaliveInv, Undisturbed, mine' = mine
    PROVE  TableOK'
<1>1. \A sid \in Session : Mine(sid)' = Mine(sid)
  BY DEF Mine
<1>2. /\ mine \in Seq(Session) /\ \A sid \in Session : Mine(sid) => sid \in issued
      /\ \A sid \in Session : Mine(sid) /\ Live(sid) => sessions[sid].TTL = TTLGranted
  BY DEF KeepaliveInv, TableOK
<1>3. \A sid \in Session : Mine(sid)' /\ Live(sid)' => sessions'[sid].TTL = TTLGranted
  BY <1>1, <1>2 DEF Undisturbed, Live
<1>4. \A sid \in Session : Mine(sid)' => sid \in issued'
  BY <1>1, <1>2 DEF Undisturbed
<1>5. DOMAIN sessions' \subseteq issued' /\ \A sid \in DOMAIN sessions' : RecordOK(sessions'[sid])
  BY DEF Undisturbed
<1> QED
  BY <1>2, <1>3, <1>4, <1>5 DEF TableOK

LEMMA SessionStays ==
    ASSUME KeepaliveInv, Undisturbed, sessionID # NoSession, beat[sessionID] # "off",
           missed[sessionID] < 2
    PROVE  /\ sessionID \in DOMAIN sessions' /\ sessions'[sessionID].Idle \in Nat
           /\ sessions'[sessionID].Idle <= sessions[sessionID].Idle
           /\ sessions[sessionID].Idle <= LongestIdle
<1>1. sessionID \in DOMAIN sessions /\ ~IsExpired(sessionID) /\ Mine(sessionID)
  BY KeptIsEnough DEF KeepaliveInv, ClientOK, Live
<1>2. sessionID \in issued
  BY <1>1 DEF KeepaliveInv, TableOK
<1> QED
  BY <1>1, <1>2 DEF Undisturbed, RecordOK, KeepaliveInv, Kept

\* LongestIdle of a session's goroutine, in the terms of the step that leaves it so.
LEMMA LongestIdleType ==
    ASSUME KeepaliveInv, sessionID \in Session
    PROVE  LongestIdle \in Nat
BY IntervalFacts DEF KeepaliveInv, BeatsOK, LongestIdle

LEMMA OthersStep ==
    ASSUME KeepaliveInv, Others
    PROVE  KeepaliveInv'
<1>1. Undisturbed
  BY OthersAreUndisturbed
<1>2. /\ app' = app /\ mine' = mine /\ sessionID' = sessionID /\ beat' = beat
      /\ waited' = waited /\ target' = target /\ missed' = missed
  BY DEF Others, clientVars, beatVars
<1>3. TableOK'
  BY <1>1, <1>2, TableStays
<1>4. BeatsOK'
  BY <1>2 DEF KeepaliveInv, BeatsOK
<1>5. ClientOK'
  BY <1>1, <1>2 DEF KeepaliveInv, ClientOK, Undisturbed, Mine
<1>6. ASSUME sessionID # NoSession, beat[sessionID] # "off", missed[sessionID] < 2
      PROVE  Kept'
  <2>1. sessionID \in Session
    BY <1>6 DEF KeepaliveInv, ClientOK
  <2>2. sessions[sessionID].Idle \in Nat
    BY <1>6, KeptIsEnough DEF Live, KeepaliveInv, TableOK, RecordOK
  <2>3. LongestIdle' = LongestIdle
    BY <1>2 DEF LongestIdle
  <2> QED
    BY <1>1, <1>2, <1>6, <2>1, <2>2, <2>3, SessionStays, LongestIdleType DEF Kept, Live
<1> QED
  BY <1>2, <1>3, <1>4, <1>5, <1>6 DEF KeepaliveInv

\* Steps of the client that leave its goroutines and the server alone.
LEMMA ClientStep ==
    ASSUME KeepaliveInv, ConnectFails \/ CloseWaited \/ (Close /\ app' = "closing")
    PROVE  KeepaliveInv'
<1> USE DEF ConnectFails, CloseWaited, Close, Proceed, Dies
<1>1. /\ mine' = mine /\ sessionID' = sessionID /\ beat' = beat /\ sessions' = sessions
      /\ waited' = waited /\ target' = target /\ missed' = missed /\ issued' = issued
      /\ app' # "connecting" /\ (app' = "deleting" => \A g \in Session : beat[g] = "off")
  BY DEF sessionVars, tableVars, beatVars
<1>2. TableOK'
  BY <1>1, UnchangedIsUndisturbed, TableStays
<1>3. BeatsOK'
  BY <1>1 DEF KeepaliveInv, BeatsOK
<1>4. ClientOK'
  BY <1>1 DEF KeepaliveInv, ClientOK, Mine
<1> QED
  BY <1>1, <1>2, <1>3, <1>4 DEF KeepaliveInv, Kept, Live, LongestIdle

LEMMA DiesStep ==
    ASSUME KeepaliveInv, Crash \/ (Close /\ app' # "closing")
    PROVE  KeepaliveInv'
<1>1. Dies /\ sessions' = sessions /\ issued' = issued /\ mine' = mine
  BY DEF Crash, Close, Proceed, sessionVars, tableVars
<1>2. TableOK'
  BY <1>1, UnchangedIsUndisturbed, TableStays
<1>3. BeatsOK'
  BY <1>1, IntervalFacts DEF Dies, Off, Zero, Own, BeatsOK
<1>4. ClientOK'
  BY <1>1 DEF Dies, Off, ClientOK
<1> QED
  BY <1>1, <1>2, <1>3, <1>4 DEF KeepaliveInv, Dies

LEMMA ConnectReturnsStep ==
    ASSUME KeepaliveInv, ConnectReturns
    PROVE  KeepaliveInv'
<1> DEFINE sid == Head(mine)
           idle == IF Live(sid) THEN sessions[sid].Idle ELSE MaxTTL + 1
<1>0. mine \in Seq(Session) /\ mine # << >> /\ beat[sid] = "off" /\ app = "connecting"
  BY DEF ConnectReturns, Proceed, KeepaliveInv, TableOK, ClientOK
<1>1. sid \in Session /\ Mine(sid)
  BY <1>0 DEF Mine
<1>2. waited[sid] = 0 /\ sid # NoSession /\ sid \in issued
  BY <1>0, <1>1, StoreAssumption DEF KeepaliveInv, BeatsOK, TableOK
<1>3. /\ app' = "ready" /\ sessionID' = sid /\ beat' = [beat EXCEPT ![sid] = "select"]
      /\ missed' = [missed EXCEPT ![sid] = IF idle = 0 THEN 0 ELSE IF idle <= Interval THEN 1 ELSE 2]
      /\ mine' = mine /\ sessions' = sessions /\ issued' = issued
      /\ waited' = waited /\ target' = target
  BY DEF ConnectReturns, Proceed, sessionVars, tableVars
<1>4. idle \in Nat
  BY IntervalFacts DEF KeepaliveInv, TableOK, RecordOK, Live
<1>5. TableOK'
  BY <1>3, UnchangedIsUndisturbed, TableStays
<1> HIDE DEF sid
<1>6. BeatsOK'
  BY <1>1, <1>2, <1>3 DEF KeepaliveInv, BeatsOK
<1>7. ClientOK'
  BY <1>1, <1>2, <1>3 DEF KeepaliveInv, BeatsOK, ClientOK, Mine
<1>8. ASSUME missed'[sid] < 2 PROVE Kept'
  <2>1. idle <= Interval /\ missed'[sid] = (IF idle = 0 THEN 0 ELSE 1)
    BY <1>1, <1>3, <1>4, <1>8, IntervalFacts DEF KeepaliveInv, BeatsOK
  <2>2. Live(sid) /\ idle = sessions[sid].Idle
    BY <2>1, IntervalFacts
  <2>3. LongestIdle' = IF idle = 0 THEN 0 ELSE Interval
    BY <1>1, <1>2, <1>3, <2>1, IntervalFacts DEF LongestIdle, KeepaliveInv, BeatsOK
  <2> QED
    BY <1>3, <1>4, <2>1, <2>2, <2>3 DEF Kept, Live
<1> QED
  BY <1>3, <1>5, <1>6, <1>7, <1>8 DEF KeepaliveInv

LEMMA ConnectStep ==
    ASSUME KeepaliveInv, NEW sid \in Session, Connect(sid)
    PROVE  KeepaliveInv'
<1>1. Undisturbed
  BY CreateIsUndisturbed, KeepaliveAssumption DEF Connect
<1>2. /\ app' = "connecting" /\ mine' = <<sid>> \o mine /\ sessionID' = sessionID /\ beat' = beat
      /\ waited' = waited /\ target' = target /\ missed' = missed
  BY DEF Connect, Proceed, beatVars
<1>3. /\ sid \notin issued /\ issued' = issued \cup {sid} /\ sid \in DOMAIN sessions'
      /\ sessions'[sid].TTL = TTLGranted
  BY DEF Connect, CreateSession, TTLGranted
<1>4. /\ mine \in Seq(Session) /\ mine' \in Seq(Session) /\ mine' # << >> /\ Head(mine') = sid
      /\ \A x \in Session : Mine(x)' <=> x = sid \/ Mine(x)
  <2>1. mine \in Seq(Session)
    BY DEF KeepaliveInv, TableOK
  <2>2. /\ mine' \in Seq(Session) /\ Len(mine') = Len(mine) + 1 /\ mine'[1] = sid
        /\ \A k \in 1..Len(mine) : mine'[k + 1] = mine[k]
    BY <1>2, <2>1
  <2>3. \A k \in 1..Len(mine') : k = 1 \/ (k - 1 \in 1..Len(mine) /\ mine'[k] = mine[k - 1])
    BY <2>1, <2>2
  <2> QED
    BY <2>1, <2>2, <2>3 DEF Mine
<1>5. TableOK'
  <2>1. /\ \A x \in Session : Mine(x) => x \in issued
        /\ \A x \in Session : Mine(x) /\ Live(x) => sessions[x].TTL = TTLGranted
    BY DEF KeepaliveInv, TableOK
  <2>2. \A x \in Session : Mine(x)' => x \in issued'
    BY <1>3, <1>4, <2>1
  <2>3. \A x \in Session : Mine(x)' /\ Live(x)' => sessions'[x].TTL = TTLGranted
    BY <1>1, <1>3, <1>4, <2>1 DEF Undisturbed, Live
  <2> QED
    BY <1>1, <1>4, <2>2, <2>3 DEF TableOK, Undisturbed
<1>6. BeatsOK'
  BY <1>2 DEF KeepaliveInv, BeatsOK
<1>7. ClientOK'
  BY <1>2, <1>3, <1>4 DEF KeepaliveInv, ClientOK
<1>8. ASSUME sessionID # NoSession, beat[sessionID] # "off", missed[sessionID] < 2
      PROVE  Kept'
  <2>1. sessionID \in Session
    BY <1>8 DEF KeepaliveInv, ClientOK
  <2>2. sessions[sessionID].Idle \in Nat
    BY <1>8, KeptIsEnough DEF Live, KeepaliveInv, TableOK, RecordOK
  <2>3. LongestIdle' = LongestIdle
    BY <1>2 DEF LongestIdle
  <2> QED
    BY <1>1, <1>2, <1>8, <2>1, <2>2, <2>3, SessionStays, LongestIdleType DEF Kept, Live
<1> QED
  BY <1>2, <1>5, <1>6, <1>7, <1>8 DEF KeepaliveInv

LEMMA CloseReturnsStep ==
    ASSUME KeepaliveInv, CloseReturns
    PROVE  KeepaliveInv'
<1>1. /\ app = "deleting" /\ app' = "ready" /\ mine' = mine /\ sessionID' = sessionID
      /\ beat' = beat /\ waited' = waited /\ target' = target /\ missed' = missed
      /\ issued' = issued /\ (sessions' = sessions \/ sessions' = Forget({sessionID}))
  BY DEF CloseReturns, Proceed, beatVars, CloseSession, sessionVars, tableVars
<1>2. \A g \in Session : beat[g] = "off"
  BY <1>1 DEF KeepaliveInv, ClientOK
<1>3. TableOK'
  <2>1. DOMAIN sessions' \subseteq DOMAIN sessions /\ \A x \in DOMAIN sessions' : sessions'[x] = sessions[x]
    BY <1>1 DEF Forget
  <2>2. \A x \in Session : Mine(x)' = Mine(x)
    BY <1>1 DEF Mine
  <2> QED
    BY <1>1, <2>1, <2>2 DEF KeepaliveInv, TableOK, Live
<1>4. BeatsOK'
  BY <1>1 DEF KeepaliveInv, BeatsOK
<1>5. ClientOK'
  BY <1>1 DEF KeepaliveInv, ClientOK, Mine
<1>6. sessionID # NoSession => beat[sessionID] = "off"
  BY <1>2 DEF KeepaliveInv, ClientOK
<1> QED
  BY <1>1, <1>3, <1>4, <1>5, <1>6 DEF KeepaliveInv

LEMMA SendHeartbeatStep ==
    ASSUME KeepaliveInv, NEW g \in Session, SendHeartbeat(g)
    PROVE  KeepaliveInv'
<1>1. /\ beat[g] = "due" /\ beat' = [beat EXCEPT ![g] = "sent"]
      /\ target' = [target EXCEPT ![g] = sessionID]
      /\ app' = app /\ mine' = mine /\ sessionID' = sessionID /\ waited' = waited
      /\ missed' = missed /\ issued' = issued /\ sessions' = sessions
  BY DEF SendHeartbeat, sessionVars, tableVars
<1>2. TableOK'
  BY <1>1, UnchangedIsUndisturbed, TableStays
<1>3. BeatsOK'
  BY <1>1 DEF KeepaliveInv, BeatsOK
<1>4. ClientOK'
  <2>1. app = "connecting" => Head(mine) \in Session
    <3>1. mine \in Seq(Session) /\ (app = "connecting" => mine # << >>)
      BY DEF KeepaliveInv, ClientOK, TableOK
    <3> QED
      BY <3>1
  <2> QED
    BY <1>1, <2>1 DEF KeepaliveInv, ClientOK, BeatsOK, Mine
<1>5. sessionID # NoSession => LongestIdle' = LongestIdle /\ (beat'[sessionID] = "off" => beat[sessionID] = "off")
                              /\ (beat[sessionID] = "off" => beat'[sessionID] = "off")
  BY <1>1 DEF KeepaliveInv, ClientOK, BeatsOK, LongestIdle
<1> QED
  BY <1>1, <1>2, <1>3, <1>4, <1>5 DEF KeepaliveInv, Kept, Live

LEMMA StopHeartbeatStep ==
    ASSUME KeepaliveInv, NEW g \in Session, StopHeartbeat(g)
    PROVE  KeepaliveInv'
<1>1. /\ beat' = [beat EXCEPT ![g] = "off"] /\ waited' = [waited EXCEPT ![g] = 0]
      /\ missed' = [missed EXCEPT ![g] = 0] /\ target' = target
      /\ app' = app /\ mine' = mine /\ sessionID' = sessionID
      /\ issued' = issued /\ sessions' = sessions
  BY DEF StopHeartbeat, sessionVars, tableVars
<1>2. TableOK'
  BY <1>1, UnchangedIsUndisturbed, TableStays
<1>3. BeatsOK'
  BY <1>1, IntervalFacts DEF KeepaliveInv, BeatsOK
<1>4. ClientOK'
  <2>1. app = "connecting" => Head(mine) \in Session
    <3>1. mine \in Seq(Session) /\ (app = "connecting" => mine # << >>)
      BY DEF KeepaliveInv, ClientOK, TableOK
    <3> QED
      BY <3>1
  <2> QED
    BY <1>1, <2>1 DEF KeepaliveInv, ClientOK, BeatsOK, Mine
<1>5. sessionID # NoSession /\ sessionID # g =>
         /\ LongestIdle' = LongestIdle /\ beat'[sessionID] = beat[sessionID]
         /\ missed'[sessionID] = missed[sessionID]
  BY <1>1 DEF KeepaliveInv, ClientOK, BeatsOK, LongestIdle
<1>6. beat'[g] = "off"
  BY <1>1 DEF KeepaliveInv, BeatsOK
<1> QED
  BY <1>1, <1>2, <1>3, <1>4, <1>5, <1>6 DEF KeepaliveInv, Kept, Live

\* What both outcomes of a request have in common.
LEMMA LoopStep ==
    ASSUME KeepaliveInv, NEW g \in Session, NEW f \in 0..2, beat[g] = "sent", Loop(g, f), Undisturbed,
           g = sessionID /\ f < 2 => Kept'
    PROVE  KeepaliveInv'
<1>1. /\ beat' = [beat EXCEPT ![g] = "select"] /\ missed' = [missed EXCEPT ![g] = f]
      /\ target' = [target EXCEPT ![g] = g] /\ waited' = waited
      /\ app' = app /\ mine' = mine /\ sessionID' = sessionID
  BY DEF Loop
<1>2. TableOK'
  BY <1>1, TableStays
<1>3. BeatsOK'
  BY <1>1 DEF KeepaliveInv, BeatsOK
<1>4. ClientOK'
  <2>1. app = "connecting" => Head(mine) \in Session
    <3>1. mine \in Seq(Session) /\ (app = "connecting" => mine # << >>)
      BY DEF KeepaliveInv, ClientOK, TableOK
    <3> QED
      BY <3>1
  <2> QED
    BY <1>1, <2>1 DEF KeepaliveInv, ClientOK, BeatsOK, Mine, Undisturbed
<1>5. ASSUME sessionID # NoSession, beat'[sessionID] # "off", missed'[sessionID] < 2
      PROVE  Kept'
  <2>1. sessionID \in Session
    BY <1>5 DEF KeepaliveInv, ClientOK
  <2>2. CASE sessionID = g
    BY <1>1, <1>5, <2>2 DEF KeepaliveInv, BeatsOK
  <2>3. CASE sessionID # g
    <3>1. /\ beat[sessionID] # "off" /\ missed[sessionID] < 2
          /\ beat'[sessionID] = beat[sessionID] /\ missed'[sessionID] = missed[sessionID]
      BY <1>1, <1>5, <2>1, <2>3 DEF KeepaliveInv, BeatsOK
    <3>2. sessions[sessionID].Idle \in Nat
      BY <1>5, <3>1, KeptIsEnough DEF Live, KeepaliveInv, TableOK, RecordOK
    <3>3. LongestIdle' = LongestIdle
      BY <1>1, <3>1 DEF LongestIdle
    <3> QED
      BY <1>1, <1>5, <2>1, <3>1, <3>2, <3>3, SessionStays, LongestIdleType DEF Kept, Live
  <2> QED
    BY <2>2, <2>3
<1> QED
  BY <1>1, <1>2, <1>3, <1>4, <1>5 DEF KeepaliveInv

LEMMA HeartbeatServedStep ==
    ASSUME KeepaliveInv, NEW g \in Session, HeartbeatServed(g)
    PROVE  KeepaliveInv'
<1> DEFINE f == IF missed[g] = 2 THEN 2 ELSE 0
<1>1. beat[g] = "sent" /\ Loop(g, f) /\ f \in 0..2
  BY DEF HeartbeatServed
<1>2. Undisturbed
  <2>1. CASE Heartbeat(target[g])
    BY <2>1, HeartbeatIsUndisturbed
  <2>2. CASE UNCHANGED sessionVars
    BY <2>2, UnchangedIsUndisturbed DEF sessionVars, tableVars
  <2> QED
    BY <2>1, <2>2 DEF HeartbeatServed
<1>3. ASSUME g = sessionID, f < 2 PROVE Kept'
  <2>1. sessionID # NoSession /\ missed[sessionID] < 2 /\ target[g] = sessionID /\ waited[g] = 0
    BY <1>1, <1>3, StoreAssumption DEF KeepaliveInv, BeatsOK, ClientOK
  <2>2. Live(sessionID) /\ ~IsExpired(sessionID)
    BY <1>1, <1>3, <2>1, KeptIsEnough
  <2>3. Heartbeat(sessionID)
    BY <2>1, <2>2 DEF HeartbeatServed
  <2>4. sessions'[sessionID].Idle = 0
    BY <2>2, <2>3, HeartbeatIsUndisturbed
  <2>5. sessionID \in DOMAIN sessions'
    BY <1>1, <1>2, <1>3, <2>1, SessionStays
  <2>6. sessionID' = sessionID /\ missed'[g] = 0 /\ beat'[g] = "select" /\ waited'[g] = 0
    BY <1>1, <1>3, <2>1 DEF Loop, KeepaliveInv, BeatsOK
  <2>7. LongestIdle' = 0
    BY <1>3, <2>6 DEF LongestIdle
  <2> QED
    BY <2>4, <2>5, <2>6, <2>7 DEF Kept, Live
<1> HIDE DEF f
<1> QED
  BY <1>1, <1>2, <1>3, LoopStep

LEMMA HeartbeatLostStep ==
    ASSUME KeepaliveInv, NEW g \in Session, HeartbeatLost(g)
    PROVE  KeepaliveInv'
<1> DEFINE f == IF missed[g] = 0 THEN 1 ELSE 2
<1>1. beat[g] = "sent" /\ Loop(g, f) /\ f \in 0..2 /\ sessions' = sessions /\ issued' = issued
  BY DEF HeartbeatLost, sessionVars, tableVars
<1>2. Undisturbed
  BY <1>1, UnchangedIsUndisturbed
<1>3. ASSUME g = sessionID, f < 2 PROVE Kept'
  <2>1. sessionID # NoSession /\ missed[sessionID] = 0 /\ waited[g] = 0
    BY <1>1, <1>3, StoreAssumption DEF KeepaliveInv, BeatsOK
  <2>2. Live(sessionID) /\ sessions[sessionID].Idle <= LongestIdle
    BY <1>1, <1>3, <2>1 DEF KeepaliveInv, Kept
  <2>3. LongestIdle = Interval
    BY <1>1, <1>3, <2>1, IntervalFacts DEF LongestIdle
  <2>4. sessionID' = sessionID /\ missed'[g] = 1 /\ beat'[g] = "select" /\ waited'[g] = 0
    BY <1>1, <1>3, <2>1 DEF Loop, KeepaliveInv, BeatsOK
  <2>5. LongestIdle' = Interval
    BY <1>3, <2>4, IntervalFacts DEF LongestIdle
  <2> QED
    BY <1>1, <2>2, <2>3, <2>4, <2>5 DEF Kept, Live
<1> HIDE DEF f
<1> QED
  BY <1>1, <1>2, <1>3, LoopStep

LEMMA ClockTickStep ==
    ASSUME KeepaliveInv, ClockTick
    PROVE  KeepaliveInv'
<1>1. /\ waited' = [g \in Session |-> IF beat[g] = "off" \/ waited[g] + 1 = Interval
                                      THEN 0 ELSE waited[g] + 1]
      /\ beat' = [g \in Session |-> IF beat[g] = "select" /\ waited[g] + 1 = Interval
                                    THEN "due" ELSE beat[g]]
      /\ app' = app /\ mine' = mine /\ sessionID' = sessionID /\ target' = target
      /\ missed' = missed /\ issued' = issued
      /\ \A g \in Session : beat[g] \in {"off", "select"}
  BY DEF ClockTick, Tick, Busy, KeepaliveInv, BeatsOK
<1>2. /\ DOMAIN sessions' = DOMAIN sessions
      /\ \A x \in DOMAIN sessions : /\ RecordOK(sessions'[x]) /\ sessions'[x].TTL = sessions[x].TTL
                                    /\ sessions'[x].Idle <= sessions[x].Idle + 1
  <2> SUFFICES ASSUME NEW x \in DOMAIN sessions
               PROVE  /\ RecordOK(sessions'[x]) /\ sessions'[x].TTL = sessions[x].TTL
                      /\ sessions'[x].Idle <= sessions[x].Idle + 1
    BY Zenon DEF ClockTick, Tick
  <2> DEFINE n == IF sessions[x].Idle > MaxTTL THEN sessions[x].Idle ELSE sessions[x].Idle + 1
  <2>1. RecordOK(sessions[x]) /\ sessions[x].Idle \in Nat
    BY DEF KeepaliveInv, TableOK, RecordOK
  <2>2. n \in Nat /\ n <= sessions[x].Idle + 1
    BY <2>1, IntervalFacts
  <2>3. sessions'[x] = [sessions[x] EXCEPT !.Idle = n]
    BY DEF ClockTick, Tick
  <2> HIDE DEF n
  <2> QED
    BY <2>1, <2>2, <2>3, IdleRecord
<1>3. TableOK'
  BY <1>1, <1>2 DEF KeepaliveInv, TableOK, Live, Mine
<1>4. BeatsOK'
  <2>1. waited' \in [Session -> 0..(Interval - 1)]
    BY <1>1, IntervalFacts DEF KeepaliveInv, BeatsOK
  <2> QED
    BY <1>1, <2>1 DEF KeepaliveInv, BeatsOK
<1>5. ClientOK'
  <2>1. app = "connecting" => Head(mine) \in Session
    BY DEF KeepaliveInv, ClientOK, TableOK
  <2> QED
    BY <1>1, <2>1 DEF KeepaliveInv, ClientOK, Mine
<1>6. ASSUME sessionID # NoSession, beat'[sessionID] # "off", missed[sessionID] < 2
      PROVE  Kept'
  <2>1. sessionID \in Session /\ beat[sessionID] = "select"
    BY <1>1, <1>6 DEF KeepaliveInv, ClientOK
  <2>2. sessionID \in DOMAIN sessions /\ sessions[sessionID].Idle <= LongestIdle
    BY <1>6, <2>1 DEF KeepaliveInv, Kept, Live
  <2>3. sessions[sessionID].Idle \in Nat /\ sessions'[sessionID].Idle \in Nat
          /\ sessions'[sessionID].Idle <= sessions[sessionID].Idle + 1
    BY <1>2, <2>2 DEF KeepaliveInv, TableOK, RecordOK
  <2>4. LongestIdle \in Nat /\ LongestIdle' = LongestIdle + 1
    BY <1>1, <2>1, IntervalFacts DEF KeepaliveInv, BeatsOK, LongestIdle
  <2> QED
    BY <1>1, <1>2, <2>2, <2>3, <2>4 DEF Kept, Live
<1> QED
  BY <1>1, <1>3, <1>4, <1>5, <1>6 DEF KeepaliveInv

LEMMA KeepaliveInvHolds == KeepaliveSpec => []KeepaliveInv
<1>1. KeepaliveInit => KeepaliveInv
  BY IntervalFacts, StoreAssumption
     DEF KeepaliveInit, SessionsInit, KeepaliveInv, TableOK, BeatsOK, ClientOK, Off, Zero, Own,
         Mine, Live
<1>2. KeepaliveInv /\ [KeepaliveNext]_keepaliveVars => KeepaliveInv'
  <2> SUFFICES ASSUME KeepaliveInv, [KeepaliveNext]_keepaliveVars PROVE KeepaliveInv'
    OBVIOUS
  <2>1. CASE KeepaliveNext
    BY <2>1, ConnectStep, ConnectReturnsStep, ClientStep, DiesStep, CloseReturnsStep,
       SendHeartbeatStep, StopHeartbeatStep, HeartbeatServedStep, HeartbeatLostStep,
       ClockTickStep, OthersStep DEF KeepaliveNext, Beats
  <2>2. CASE UNCHANGED keepaliveVars
    BY <2>2 DEF keepaliveVars, clientVars, beatVars, sessionVars, tableVars, KeepaliveInv,
                TableOK, BeatsOK, ClientOK, Kept, LongestIdle, Live, Mine
  <2> QED
    BY <2>1, <2>2
<1> QED
  BY <1>1, <1>2, PTL DEF KeepaliveSpec

(***************************************************************************)
(* KeepaliveTheorem: for every TTL of three ticks or more, and whatever    *)
(* else clients do, the interval that Connect chooses leaves room for one  *)
(* lost heartbeat: the session is still there when the next one is sent.   *)
(***************************************************************************)
THEOREM KeepaliveTheorem == KeepaliveSpec => []OneLossIsHarmless
<1>1. KeepaliveInv => OneLossIsHarmless
  BY KeptIsEnough DEF OneLossIsHarmless
<1> QED
  BY <1>1, KeepaliveInvHolds, PTL

-----------------------------------------------------------------------------
(* The SDK as a client of the session manager *)

\* What the client's goroutines refer to.  As long as one runs there is a session
\* that its next request is for.
GoroutinesInv ==
    /\ app \in {"ready", "connecting", "closing", "deleting", "dead"}
    /\ stopped \subseteq issued
    /\ watching \in [Session -> Session] /\ target \in [Session -> Session]
    /\ \A g \in Session : beat[g] # "off" => sessionID \in Session

LEMMA IssuedGrows ==
    ASSUME [KeepaliveNext]_keepaliveVars
    PROVE  issued \subseteq issued'
<1>1. ASSUME NEW sid, NEW ttl, CreateSession(sid, ttl) PROVE issued \subseteq issued'
  BY <1>1 DEF CreateSession
<1>2. ASSUME UNCHANGED sessionVars PROVE issued' = issued
  BY <1>2 DEF sessionVars, tableVars
<1>3. ASSUME NEW sid, Heartbeat(sid) \/ CloseSession(sid) \/ OnExpire(sid) PROVE issued' = issued
  BY <1>3 DEF Heartbeat, CloseSession, OnExpire
<1>4. CASE CloseOnExpire \/ CheckExpirations \/ Tick
  BY <1>4, Zenon DEF CloseOnExpire, CheckExpirations, Tick
<1>5. ASSUME NEW sid, NEW p, NEW d, NEW sequential, CreateNode(sid, p, d, sequential)
      PROVE  issued' = issued
  BY <1>5 DEF CreateNode, tableVars
<1>6. ASSUME NEW sid, NEW q, RegisterEphemeral(sid, q) PROVE issued' = issued
  BY <1>6 DEF RegisterEphemeral
<1>7. ASSUME NEW p, DeleteNode(p) PROVE issued' = issued
  BY <1>7 DEF DeleteNode, tableVars
<1>8. CASE Others
  BY <1>1, <1>3, <1>4, <1>5, <1>6, <1>7, <1>8 DEF Others
<1>9. ASSUME NEW g \in Session, Beats(g) PROVE issued' = issued
  BY <1>2, <1>3, <1>9 DEF Beats, SendHeartbeat, HeartbeatServed, HeartbeatLost, StopHeartbeat
<1>10. CASE \/ ConnectReturns \/ ConnectFails \/ Close \/ CloseWaited \/ CloseReturns \/ Crash
  BY <1>2, <1>3, <1>10 DEF ConnectReturns, ConnectFails, Close, CloseWaited, CloseReturns, Crash
<1>11. CASE UNCHANGED keepaliveVars
  BY <1>2, <1>11 DEF keepaliveVars
<1> QED
  BY <1>1, <1>4, <1>8, <1>9, <1>10, <1>11 DEF KeepaliveNext, Connect, ClockTick

LEMMA NextGoroutinesInv ==
    KeepaliveInv /\ GoroutinesInv /\ [KeepaliveNext]_keepaliveVars => GoroutinesInv'
<1> SUFFICES ASSUME KeepaliveInv, GoroutinesInv, [KeepaliveNext]_keepaliveVars
             PROVE  GoroutinesInv'
  OBVIOUS
<1>1. issued \subseteq issued'
  BY IssuedGrows
<1>2. /\ beat \in [Session -> {"off", "select", "due", "sent"}]
      /\ sessionID \in Session \cup {NoSession}
      /\ sessionID # NoSession => sessionID \in issued
  BY DEF KeepaliveInv, BeatsOK, ClientOK, TableOK
<1> USE DEF GoroutinesInv
<1>3. ASSUME UNCHANGED <<sessionID, stopped, beatVars>>,
             app' \in {"ready", "connecting", "closing", "deleting", "dead"}
      PROVE  GoroutinesInv'
  BY <1>1, <1>3 DEF beatVars
<1>4. ASSUME NEW sid \in Session, Connect(sid) PROVE GoroutinesInv'
  BY <1>3, <1>4 DEF Connect, Proceed
<1>5. CASE ConnectReturns
  <2>1. Head(mine) \in Session
    BY <1>5 DEF ConnectReturns, Proceed, KeepaliveInv, ClientOK, TableOK
  <2> QED
    BY <1>1, <1>2, <1>5, <2>1 DEF ConnectReturns, Proceed
<1>6. CASE ConnectFails \/ CloseWaited \/ CloseReturns
  BY <1>3, <1>6 DEF ConnectFails, CloseWaited, CloseReturns, Proceed
<1>7. ASSUME Dies PROVE GoroutinesInv'
  BY <1>7 DEF Dies, Off, Own
<1>8. CASE Close
  <2>1. CASE Dies
    BY <1>7, <2>1
  <2>2. CASE /\ stopped' = stopped \cup {sessionID} /\ Proceed("ready", "closing")
             /\ UNCHANGED <<sessionID, beatVars>>
    BY <1>1, <1>2, <1>8, <2>2 DEF Close, Proceed, beatVars
  <2> QED
    BY <1>8, <2>1, <2>2 DEF Close
<1>9. CASE Crash
  BY <1>7, <1>9 DEF Crash
<1>10. ASSUME NEW g \in Session, SendHeartbeat(g) PROVE GoroutinesInv'
  <2>1. sessionID \in Session
    BY <1>10 DEF SendHeartbeat
  <2> QED
    BY <1>1, <1>2, <1>10, <2>1 DEF SendHeartbeat
<1>11. ASSUME NEW g \in Session, NEW f, beat[g] = "sent", Loop(g, f) PROVE GoroutinesInv'
  BY <1>1, <1>2, <1>11 DEF Loop
<1>12. ASSUME NEW g \in Session, StopHeartbeat(g) PROVE GoroutinesInv'
  BY <1>1, <1>2, <1>12 DEF StopHeartbeat
<1>13. ASSUME NEW g \in Session, Beats(g) PROVE GoroutinesInv'
  BY <1>10, <1>11, <1>12, <1>13 DEF Beats, HeartbeatServed, HeartbeatLost
<1>14. CASE ClockTick
  BY <1>1, <1>2, <1>14 DEF ClockTick
<1>15. CASE Others
  BY <1>3, <1>15 DEF Others, clientVars
<1>16. CASE UNCHANGED keepaliveVars
  BY <1>3, <1>16 DEF keepaliveVars, clientVars
<1> QED
  BY <1>4, <1>5, <1>6, <1>8, <1>9, <1>13, <1>14, <1>15, <1>16 DEF KeepaliveNext

\* Every step of the SDK is a step of the session manager or none of its business.
LEMMA KeepaliveStepIsSessionsStep ==
    ASSUME TableInv, GoroutinesInv, [KeepaliveNext]_keepaliveVars
    PROVE  [AnyTTLNext]_sessionVars
<1>1. ASSUME NEW sid \in Session, Connect(sid) PROVE AnyTTLNext
  BY <1>1, KeepaliveAssumption DEF Connect, AnyTTLNext
<1>2. CASE ConnectReturns \/ ConnectFails \/ Close \/ CloseWaited \/ Crash
  BY <1>2 DEF ConnectReturns, ConnectFails, Close, CloseWaited, Crash
<1>3. CASE CloseReturns
  <2>1. CASE UNCHANGED sessionVars
    BY <2>1
  <2>2. CASE CloseSession(sessionID)
    <3>1. sessionID \in Session
      BY <2>2 DEF CloseSession, Live, TableInv
    <3> QED
      BY <2>2, <3>1 DEF AnyTTLNext, SessionsNext
  <2> QED
    BY <1>3, <2>1, <2>2 DEF CloseReturns
<1>4. ASSUME NEW g \in Session, Beats(g) PROVE [AnyTTLNext]_sessionVars
  <2>1. target[g] \in Session
    BY DEF GoroutinesInv
  <2>2. Heartbeat(target[g]) \/ UNCHANGED sessionVars
    BY <1>4 DEF Beats, SendHeartbeat, HeartbeatServed, HeartbeatLost, StopHeartbeat
  <2> QED
    BY <2>1, <2>2 DEF AnyTTLNext, SessionsNext
<1>5. CASE ClockTick
  BY <1>5 DEF ClockTick, AnyTTLNext, SessionsNext
<1>6. CASE Others
  BY <1>6 DEF Others, AnyTTLNext, SessionsNext
<1>7. CASE UNCHANGED keepaliveVars
  BY <1>7 DEF keepaliveVars
<1> QED
  BY <1>1, <1>2, <1>3, <1>4, <1>5, <1>6, <1>7 DEF KeepaliveNext

LEMMA KeepaliveInvariants == KeepaliveSpec => [](GoroutinesInv /\ AllSessionsInv)
<1>1. KeepaliveInit => GoroutinesInv
  BY DEF KeepaliveInit, GoroutinesInv, Off, Own
<1>2. KeepaliveInit => AllSessionsInv
  BY InitAllSessionsInv DEF KeepaliveInit
<1>3. AllSessionsInv /\ GoroutinesInv /\ [KeepaliveNext]_keepaliveVars => AllSessionsInv'
  BY KeepaliveStepIsSessionsStep, NextAllSessionsInv DEF AllSessionsInv
<1> QED
  BY <1>1, <1>2, <1>3, KeepaliveInvHolds, NextGoroutinesInv, PTL DEF KeepaliveSpec

(***************************************************************************)
(* The SDK's Connect, heartbeats and Close are requests like any others:   *)
(* the session manager with the SDK behaves as Sessions says, for a client *)
(* that asks for Connect's TTL.                                            *)
(***************************************************************************)
THEOREM KeepaliveRefinesSessions == KeepaliveSpec => AnyTTLSpec
<1>1. KeepaliveInit => SessionsInit
  BY DEF KeepaliveInit
<1>2. AllSessionsInv /\ GoroutinesInv /\ [KeepaliveNext]_keepaliveVars => [AnyTTLNext]_sessionVars
  BY KeepaliveStepIsSessionsStep DEF AllSessionsInv
<1> QED
  BY <1>1, <1>2, KeepaliveInvariants, PTL DEF KeepaliveSpec, AnyTTLSpec

(***************************************************************************)
(* With the SDK's goroutines, crashes and repeated Connects, the ephemeral *)
(* nodes that outlive their session are still those of LeaksAreKnown.      *)
(***************************************************************************)
THEOREM KeepaliveLeaksTheorem == KeepaliveSpec => []LeaksAreKnown
<1>1. SessionsInv => LeaksAreKnown
  BY DEF SessionsInv
<1> QED
  BY <1>1, KeepaliveRefinesSessions, SessionsInvHolds, PTL

(***************************************************************************)
(* With the SDK, too, nothing but deleteNode for the node itself takes an  *)
(* ephemeral node from a live session.                                     *)
(***************************************************************************)
THEOREM KeepaliveNodesTheorem == KeepaliveSpec => LiveSessionsKeepEphemerals
BY KeepaliveRefinesSessions, LiveNodesStayAlways, PTL

(***************************************************************************)
(* The state of the SDK keeps its type: in particular each heartbeat is    *)
(* for a session and each select looks at a channel, never at none, as     *)
(* long as the goroutine runs.                                             *)
(***************************************************************************)
THEOREM KeepaliveTypeTheorem == KeepaliveSpec => []KeepaliveTypeOK
<1>1. ASSUME KeepaliveInv, GoroutinesInv, AllSessionsInv
      PROVE  KeepaliveTypeOK
  <2>1. SessionsTypeOK
    BY <1>1, SessionsTypes
  <2>2. mine \in Seq(issued)
    <3>1. mine \in Seq(Session) /\ \A k \in 1..Len(mine) : mine[k] \in issued
      BY <1>1 DEF KeepaliveInv, TableOK, Mine
    <3> QED
      BY <3>1
  <2>3. sessionID \in issued \cup {NoSession}
    BY <1>1 DEF KeepaliveInv, ClientOK, TableOK
  <2>4. waited \in [Session -> 0..Interval]
    BY <1>1, IntervalFacts DEF KeepaliveInv, BeatsOK
  <2> QED
    BY <1>1, <2>1, <2>2, <2>3, <2>4 DEF KeepaliveTypeOK, GoroutinesInv, KeepaliveInv, BeatsOK
<1>2. KeepaliveInv /\ GoroutinesInv /\ AllSessionsInv => KeepaliveTypeOK
  BY <1>1
<1> QED
  BY <1>2, KeepaliveInvHolds, KeepaliveInvariants, PTL

=============================================================================
