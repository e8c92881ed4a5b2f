--------------------------- MODULE WatchesProofs ---------------------------
(***************************************************************************)
(* A watch loses no change: proof of the properties of Watches, for any    *)
(* number of consumers, paths and nodes and any capacity of the channels.  *)
(***************************************************************************)
EXTENDS Watches, StoreProofs

\* A consumer that has registered is listed, or its one-time watch has fired
\* and the event is in its channel.
Registered ==
    \A w \in Watcher :
        IF consumer[w] = "idle"
        THEN ~watch[w].open
        ELSE watch[w].open \/ (~watch[w].persistent /\ watch[w].events = 1)

\* What a consumer has read is current, or the news is on its way.
CurrentOrTold ==
    \A w \in Watcher :
        consumer[w] = "receive"
            => \/ cache[w] = Seen(watch[w].path)
               \/ pending[watch[w].path] > 0
               \/ watch[w].events > 0

\* The inductive invariant of the watch manager and its consumers.
WatchesInv ==
    /\ WatchesTypeOK
    /\ ChannelsMatchWatches
    /\ OneTimeFiresOnce
    /\ Registered
    /\ CurrentOrTold

-----------------------------------------------------------------------------
\* Each operation that Watches adds callbacks to is an operation of the store.
LEMMA WatchesStepIsStoreStep == [WatchesNext]_watchesVars => [StoreNext]_storeVars
<1> SUFFICES ASSUME [WatchesNext]_watchesVars PROVE [StoreNext]_storeVars
  OBVIOUS
<1>1. CASE UNCHANGED watchesVars
  BY <1>1 DEF watchesVars, storeVars
<1>2. ASSUME NEW p \in InputPath, NEW d \in Data, NEW eph \in BOOLEAN,
             NEW sequential \in BOOLEAN, NEW sid \in Session \cup {NoSession},
             CreateNode(p, d, eph, sid, sequential)
      PROVE  StoreNext
  BY <1>2 DEF CreateNode, StoreNext
<1>3. ASSUME NEW p \in InputPath, NEW d \in Data, NEW v \in -1..MaxVersion, SetNode(p, d, v)
      PROVE  StoreNext
  BY <1>3 DEF SetNode, StoreNext
<1>4. ASSUME NEW p \in InputPath, NEW v \in -1..MaxVersion, DeleteNode(p, v)
      PROVE  StoreNext
  BY <1>4 DEF DeleteNode, StoreNext
<1>5. ASSUME NEW sid \in Session, EndSession(sid)
      PROVE  StoreNext
  BY <1>5 DEF EndSession, StoreNext
<1>6. ASSUME NEW p \in WatchPath, TriggerEvent(p)
      PROVE  UNCHANGED storeVars
  BY <1>6, Zenon DEF TriggerEvent, storeVars
<1>7. ASSUME NEW w \in Watcher, NEW p \in WatchPath, NEW persistent \in BOOLEAN,
             Watch(w, p, persistent)
      PROVE  UNCHANGED storeVars
  BY <1>7 DEF Watch, storeVars
<1>8. ASSUME NEW w \in Watcher, Unwatch(w) \/ Get(w) \/ Receive(w)
      PROVE  UNCHANGED storeVars
  BY <1>8 DEF Unwatch, Get, Receive, storeVars
<1> QED
  BY <1>1, <1>2, <1>3, <1>4, <1>5, <1>6, <1>7, <1>8 DEF WatchesNext

\* A store operation that notifies the watchers of D keeps the invariant when
\* it changes what Get returns at the paths of D only.
LEMMA NotifiedChange ==
    ASSUME WatchesInv, NEW D, Notify(D), UNCHANGED watchVars,
           \A p \in WatchPath \ D : Seen(p)' = Seen(p)
    PROVE  WatchesInv'
<1>1. /\ pending \in [WatchPath -> 0..MaxPending]
      /\ pending' = [p \in WatchPath |-> pending[p] + (IF p \in D THEN 1 ELSE 0)]
      /\ \A p \in WatchPath \cap D : pending[p] < MaxPending
      /\ MaxPending \in Nat
  BY WatchesAssumption DEF WatchesInv, WatchesTypeOK, Notify
<1>2. pending' \in [WatchPath -> 0..MaxPending]
  BY <1>1
<1>3. UNCHANGED <<watchers, watch, consumer, cache>>
  BY DEF watchVars
<1>4. CurrentOrTold'
  <2> SUFFICES ASSUME NEW w \in Watcher, consumer[w] = "receive",
                      ~(pending'[watch[w].path] > 0), ~(watch[w].events > 0)
               PROVE  cache[w] = Seen(watch[w].path)'
    BY <1>3 DEF CurrentOrTold
  <2>1. watch[w].path \in WatchPath
    BY DEF WatchesInv, WatchesTypeOK, WatchRecord
  <2>2. watch[w].path \notin D /\ pending[watch[w].path] = 0
    BY <1>1, <2>1
  <2>3. cache[w] = Seen(watch[w].path)
    BY <2>2 DEF WatchesInv, CurrentOrTold
  <2>4. Seen(watch[w].path)' = Seen(watch[w].path)
    BY <1>3, <2>1, <2>2
  <2> QED
    BY <2>3, <2>4
<1> QED
  BY <1>2, <1>3, <1>4 DEF WatchesInv, WatchesTypeOK, ChannelsMatchWatches,
       OneTimeFiresOnce, Registered

\* Create changes what Get returns at the path of the node it adds only.
LEMMA CreateSeen ==
    ASSUME StoreInv, NEW p \in Path, NEW d, NEW eph, NEW sid, NEW sequential \in BOOLEAN,
           Create(p, d, eph, sid, sequential),
           NEW x \in Path, x \notin {ActualPath(p, sequential)} \ DOMAIN nodes
    PROVE  Seen(x)' = Seen(x)
<1> DEFINE q == ActualPath(p, sequential)
<1>1. CASE q \in DOMAIN nodes
  BY <1>1 DEF Create, Exists, Seen
<1>2. CASE q \notin DOMAIN nodes
  <2> DEFINE node == NewNode(d, eph, sid)
  <2>1. nodes' = Insert(p, q, node) /\ x # q
    BY <1>2 DEF Create, Exists
  <2>2. x \in DOMAIN nodes' <=> x \in DOMAIN nodes
    BY <2>1 DEF Insert
  <2>3. CASE x \in DOMAIN nodes
    <3>1. nodes[x] \in Node
      BY <2>3 DEF StoreInv, StoreTypeOK
    <3>2. \/ nodes'[x] = nodes[x]
          \/ nodes'[x] = [nodes[x] EXCEPT !.Children = @ \cup {baseName(q)}]
      BY <2>1, <2>3 DEF Insert
    <3>3. nodes'[x].Data = nodes[x].Data /\ nodes'[x].Version = nodes[x].Version
      BY <3>1, <3>2 DEF Node
    <3> QED
      BY <2>2, <2>3, <3>3 DEF Seen, Exists
  <2>4. CASE x \notin DOMAIN nodes
    BY <2>2, <2>4 DEF Seen, Exists
  <2> QED
    BY <2>3, <2>4
<1> QED
  BY <1>1, <1>2

\* Removing the nodes D changes what Get returns at the paths of D only.
LEMMA RemoveAllSeen ==
    ASSUME StoreInv, NEW D, nodes' = RemoveAll(D), NEW x \in Path, x \notin D
    PROVE  Seen(x)' = Seen(x)
<1> DEFINE Gone == {baseName(d) : d \in {e \in D : parentPath(e) = x}}
<1>1. x \in DOMAIN nodes' <=> x \in DOMAIN nodes
  BY DEF RemoveAll
<1>2. CASE x \in DOMAIN nodes
  <2>1. nodes[x] \in Node
    BY <1>2 DEF StoreInv, StoreTypeOK
  <2>2. nodes'[x] = [nodes[x] EXCEPT !.Children = @ \ Gone]
    BY <1>2 DEF RemoveAll
  <2> HIDE DEF Gone
  <2>3. nodes'[x].Data = nodes[x].Data /\ nodes'[x].Version = nodes[x].Version
    BY <2>1, <2>2 DEF Node
  <2> QED
    BY <1>1, <1>2, <2>3 DEF Seen, Exists
<1>3. CASE x \notin DOMAIN nodes
  BY <1>1, <1>3 DEF Seen, Exists
<1> QED
  BY <1>2, <1>3

\* The store's operations keep the invariant: each notifies the paths it changes.
LEMMA StoreOperations ==
    ASSUME WatchesInv, StoreInv,
           \/ \E p \in InputPath, d \in Data, eph, sequential \in BOOLEAN,
                 sid \in Session \cup {NoSession} : CreateNode(p, d, eph, sid, sequential)
           \/ \E p \in InputPath, d \in Data, v \in -1..MaxVersion : SetNode(p, d, v)
           \/ \E p \in InputPath, v \in -1..MaxVersion : DeleteNode(p, v)
           \/ \E sid \in Session : EndSession(sid)
    PROVE  WatchesInv'
<1>1. InputPath \subseteq Path /\ WatchPath \subseteq Path
  BY StoreAssumption, WatchesAssumption DEF Path, Name
<1>2. ASSUME NEW p \in InputPath, NEW d \in Data, NEW eph \in BOOLEAN,
             NEW sequential \in BOOLEAN, NEW sid \in Session \cup {NoSession},
             CreateNode(p, d, eph, sid, sequential)
      PROVE  WatchesInv'
  <2> DEFINE D == {ActualPath(p, sequential)} \ DOMAIN nodes
  <2>1. Create(p, d, eph, sid, sequential) /\ Notify(D) /\ UNCHANGED watchVars
    BY <1>2 DEF CreateNode
  <2>2. \A x \in WatchPath \ D : Seen(x)' = Seen(x)
    BY <1>1, <2>1, CreateSeen
  <2> HIDE DEF D
  <2> QED
    BY <2>1, <2>2, NotifiedChange
<1>3. ASSUME NEW p \in InputPath, NEW d \in Data, NEW v \in -1..MaxVersion, SetNode(p, d, v)
      PROVE  WatchesInv'
  <2>1. Set(p, d, v) /\ Notify({p}) /\ UNCHANGED watchVars
    BY <1>3 DEF SetNode
  <2>2. \A x \in WatchPath \ {p} : Seen(x)' = Seen(x)
    BY <2>1 DEF Set, Seen, Exists
  <2> QED
    BY <2>1, <2>2, NotifiedChange
<1>4. ASSUME NEW p \in InputPath, NEW v \in -1..MaxVersion, DeleteNode(p, v)
      PROVE  WatchesInv'
  <2>1. nodes' = RemoveAll({p}) /\ Notify({p}) /\ UNCHANGED watchVars
    BY <1>4 DEF DeleteNode, Delete
  <2>2. \A x \in WatchPath \ {p} : Seen(x)' = Seen(x)
    BY <1>1, <2>1, RemoveAllSeen
  <2> QED
    BY <2>1, <2>2, NotifiedChange
<1>5. ASSUME NEW sid \in Session, EndSession(sid)
      PROVE  WatchesInv'
  <2> DEFINE D == EphemeralsOf(sid)
  <2>1. nodes' = RemoveAll(D) /\ Notify(D) /\ UNCHANGED watchVars
    BY <1>5 DEF EndSession, DeleteEphemerals
  <2> HIDE DEF D
  <2>2. \A x \in WatchPath \ D : Seen(x)' = Seen(x)
    BY <1>1, <2>1, RemoveAllSeen
  <2> QED
    BY <2>1, <2>2, NotifiedChange
<1> QED
  BY <1>2, <1>3, <1>4, <1>5

-----------------------------------------------------------------------------
\* TriggerEvent tells every listed watcher, or finds its channel full already.
LEMMA TriggerEventKeepsInv ==
    ASSUME WatchesInv, NEW p \in WatchPath, TriggerEvent(p)
    PROVE  WatchesInv'
<1>1. /\ pending \in [WatchPath -> 0..MaxPending]
      /\ pending[p] > 0
      /\ pending' = [pending EXCEPT ![p] = @ - 1]
      /\ MaxPending \in Nat /\ ChannelCap \in Nat \ {0}
  BY WatchesAssumption, Zenon DEF WatchesInv, WatchesTypeOK, TriggerEvent
<1>2. pending' \in [WatchPath -> 0..MaxPending]
  BY <1>1
<1>3. /\ watchers' \in [WatchPath -> SUBSET Watcher]
      /\ watchers'[p] = {w \in watchers[p] : watch[w].persistent}
      /\ \A x \in WatchPath : x # p => watchers'[x] = watchers[x]
  BY Zenon DEF TriggerEvent, WatchesInv, WatchesTypeOK
<1>4. nodes' = nodes /\ consumer' = consumer /\ cache' = cache
  BY Zenon DEF TriggerEvent
<1>5. watch' \in [Watcher -> WatchRecord]
      /\ \A w \in Watcher :
           IF w \in watchers[p]
           THEN /\ watch'[w].path = watch[w].path
                /\ watch'[w].persistent = watch[w].persistent
                /\ watch'[w].events = Sent(watch[w].events)
                /\ watch'[w].open = watch[w].persistent
           ELSE watch'[w] = watch[w]
  <2>1. DOMAIN watch' = Watcher /\ watch' = [w \in Watcher |-> watch'[w]]
    BY Zenon DEF TriggerEvent
  <2>2. ASSUME NEW w \in Watcher, w \notin watchers[p]
        PROVE  watch'[w] = watch[w] /\ watch'[w] \in WatchRecord
    BY <2>2, Zenon DEF TriggerEvent, WatchesInv, WatchesTypeOK
  <2>3. ASSUME NEW w \in Watcher, w \in watchers[p]
        PROVE  /\ watch'[w] \in WatchRecord
               /\ watch'[w].path = watch[w].path
               /\ watch'[w].persistent = watch[w].persistent
               /\ watch'[w].events = Sent(watch[w].events)
               /\ watch'[w].open = watch[w].persistent
    <3>1. watch'[w] = [watch[w] EXCEPT !.events = Sent(watch[w].events), !.open = watch[w].persistent]
      BY <2>3, Zenon DEF TriggerEvent
    <3>2. watch[w] \in WatchRecord
      BY DEF WatchesInv, WatchesTypeOK
    <3>3. Sent(watch[w].events) \in 0..ChannelCap
      BY <1>1, <3>2 DEF WatchRecord, Sent
    <3> QED
      BY <3>1, <3>2, <3>3, Zenon DEF WatchRecord
  <2> QED
    BY <2>1, <2>2, <2>3
<1>6. \A w \in Watcher : /\ watch[w] \in WatchRecord
                         /\ consumer[w] \in {"idle", "read", "receive"}
  BY DEF WatchesInv, WatchesTypeOK
<1>7. \A w \in Watcher : w \in watchers[p] <=> watch[w].open /\ watch[w].path = p
  BY DEF WatchesInv, ChannelsMatchWatches
<1>8. WatchesTypeOK'
  BY <1>2, <1>3, <1>4, <1>5 DEF WatchesTypeOK, WatchesInv
<1>9. ChannelsMatchWatches'
  BY <1>3, <1>5, <1>6, <1>7 DEF WatchesInv, ChannelsMatchWatches, WatchRecord
<1>10. OneTimeFiresOnce'
  BY <1>1, <1>4, <1>5, <1>6, <1>7 DEF WatchesInv, OneTimeFiresOnce, WatchRecord, Sent
<1>11. Registered'
  BY <1>1, <1>4, <1>5, <1>6, <1>7 DEF WatchesInv, OneTimeFiresOnce, Registered, WatchRecord,
       Sent
<1>12. CurrentOrTold'
  <2> SUFFICES ASSUME NEW w \in Watcher, consumer[w] = "receive"
               PROVE  \/ cache[w] = Seen(watch[w].path)
                      \/ pending'[watch[w].path] > 0
                      \/ watch'[w].events > 0
    <3>1. \A w \in Watcher : watch'[w].path = watch[w].path
      BY <1>5
    <3> QED
      BY <1>4, <3>1 DEF CurrentOrTold, Seen, Exists
  <2>3. CASE w \in watchers[p]
    BY <1>1, <1>5, <1>6, <2>3 DEF WatchRecord, Sent
  <2>4. CASE w \notin watchers[p] /\ watch[w].path = p
    BY <1>5, <1>7, <2>4 DEF WatchesInv, Registered
  <2>5. CASE watch[w].path # p /\ w \notin watchers[p]
    BY <1>1, <1>5, <1>6, <2>5 DEF WatchesInv, CurrentOrTold, WatchRecord
  <2> QED
    BY <2>3, <2>4, <2>5
<1> QED
  BY <1>8, <1>9, <1>10, <1>11, <1>12 DEF WatchesInv

\* Watch and Unwatch change the list and the channel of one watcher together;
\* the consumer's own steps concern its channel and its cache.
LEMMA ConsumerKeepsInv ==
    ASSUME WatchesInv, NEW w \in Watcher,
           \/ \E p \in WatchPath, persistent \in BOOLEAN : Watch(w, p, persistent)
           \/ Unwatch(w) \/ Get(w) \/ Receive(w)
    PROVE  WatchesInv'
<1>1. /\ watch[w] \in WatchRecord
      /\ ChannelCap \in Nat
  BY WatchesAssumption DEF WatchesInv, WatchesTypeOK
<1> USE DEF WatchesInv, WatchesTypeOK
<1>2. ASSUME NEW p \in WatchPath, NEW persistent \in BOOLEAN, Watch(w, p, persistent)
      PROVE  WatchesInv'
  <2> DEFINE new == [path |-> p, persistent |-> persistent, events |-> 0, open |-> TRUE]
  <2>1. new \in WatchRecord /\ new.path = p /\ new.persistent = persistent
        /\ new.events = 0 /\ new.open
    BY <1>1 DEF WatchRecord
  <2>2. /\ watch' = [watch EXCEPT ![w] = new]
        /\ consumer[w] = "idle"
        /\ consumer' = [consumer EXCEPT ![w] = "read"]
        /\ watchers' = [watchers EXCEPT ![p] = @ \cup {w}]
        /\ UNCHANGED <<nodes, seqCounter, pending, cache>>
    BY <1>2 DEF Watch
  <2> HIDE DEF new
  <2>3. WatchesTypeOK'
    BY <2>1, <2>2
  <2>4. ChannelsMatchWatches'
    BY <2>1, <2>2 DEF ChannelsMatchWatches, Registered
  <2>5. OneTimeFiresOnce' /\ Registered'
    BY <2>1, <2>2 DEF OneTimeFiresOnce, Registered
  <2>6. CurrentOrTold'
    BY <2>1, <2>2 DEF CurrentOrTold, Seen, Exists
  <2> QED
    BY <2>3, <2>4, <2>5, <2>6
<1>3. CASE Unwatch(w)
  <2> DEFINE none == NoWatch(watch[w].path)
  <2>1. none \in WatchRecord /\ ~none.open /\ none.path = watch[w].path
    BY <1>1 DEF WatchRecord, NoWatch
  <2>2. /\ watch' = [watch EXCEPT ![w] = none]
        /\ consumer' = [consumer EXCEPT ![w] = "idle"]
        /\ watchers' = [watchers EXCEPT ![watch[w].path] = @ \ {w}]
        /\ cache' = [cache EXCEPT ![w] = Absent]
        /\ UNCHANGED <<nodes, seqCounter, pending>>
    BY <1>3 DEF Unwatch
  <2> HIDE DEF none
  <2>3. watch[w].path \in WatchPath
    BY <1>1 DEF WatchRecord
  <2>4. WatchesTypeOK'
    BY <2>1, <2>2, <2>3
  <2>5. ChannelsMatchWatches'
    BY <2>1, <2>2, <2>3 DEF ChannelsMatchWatches
  <2>6. OneTimeFiresOnce' /\ Registered'
    BY <2>1, <2>2 DEF OneTimeFiresOnce, Registered
  <2>7. CurrentOrTold'
    BY <2>1, <2>2 DEF CurrentOrTold, Seen, Exists
  <2> QED
    BY <2>4, <2>5, <2>6, <2>7
<1>4. CASE Get(w)
  <2>1. WatchesTypeOK' /\ ChannelsMatchWatches' /\ OneTimeFiresOnce' /\ Registered'
    BY <1>4 DEF Get, ChannelsMatchWatches, OneTimeFiresOnce, Registered
  <2>2. CurrentOrTold'
    BY <1>4 DEF Get, CurrentOrTold, Seen, Exists
  <2> QED
    BY <2>1, <2>2
<1>5. CASE Receive(w)
  <2> DEFINE left == [watch[w] EXCEPT !.events = @ - 1]
  <2>1. /\ left \in WatchRecord /\ left.open = watch[w].open /\ left.path = watch[w].path
        /\ left.persistent = watch[w].persistent /\ left.events = watch[w].events - 1
    BY <1>1, <1>5 DEF WatchRecord, Receive
  <2>2. /\ watch' = [watch EXCEPT ![w] = left]
        /\ consumer[w] = "receive" /\ watch[w].events > 0
        /\ consumer' = [consumer EXCEPT ![w] = IF watch[w].persistent THEN "read" ELSE "idle"]
        /\ UNCHANGED <<nodes, seqCounter, pending, watchers>>
        /\ cache' = [cache EXCEPT ![w] = Absent]
    BY <1>5 DEF Receive
  <2> HIDE DEF left
  <2>3. WatchesTypeOK' /\ ChannelsMatchWatches'
    BY <2>1, <2>2 DEF ChannelsMatchWatches
  <2>4. OneTimeFiresOnce' /\ Registered'
    BY <1>1, <2>1, <2>2 DEF OneTimeFiresOnce, Registered, WatchRecord
  <2>5. CurrentOrTold'
    BY <2>1, <2>2 DEF CurrentOrTold, Seen, Exists
  <2> QED
    BY <2>3, <2>4, <2>5
<1> QED
  BY <1>2, <1>3, <1>4, <1>5

-----------------------------------------------------------------------------
(***************************************************************************)
(* The watch manager changes nothing in the store: with its callbacks, the *)
(* store still behaves as Store says, and stays a tree.                    *)
(***************************************************************************)
THEOREM WatchedStoreIsATree == WatchesSpec => StoreSpec /\ []StoreInv
<1>1. WatchesInit => StoreInit
  BY DEF WatchesInit
<1>2. [WatchesNext]_watchesVars => [StoreNext]_storeVars
  BY WatchesStepIsStoreStep
<1>3. WatchesSpec => StoreSpec
  BY <1>1, <1>2, PTL DEF WatchesSpec, StoreSpec
<1> QED
  BY <1>3, StoreIsATree, PTL

\* NewManager has no watchers.
LEMMA InitWatchesInv == WatchesInit => WatchesInv
<1> SUFFICES ASSUME WatchesInit PROVE WatchesInv
  OBVIOUS
<1>1. \A p \in WatchPath : NoWatch(p) \in WatchRecord /\ ~NoWatch(p).open
  BY WatchesAssumption DEF WatchRecord, NoWatch
<1>2. \A w \in Watcher : watch[w] \in WatchRecord /\ ~watch[w].open
  BY <1>1 DEF WatchesInit
<1>3. WatchesTypeOK
  BY <1>2, WatchesAssumption DEF WatchesInit, WatchesTypeOK
<1> QED
  BY <1>2, <1>3 DEF WatchesInit, WatchesInv, ChannelsMatchWatches, OneTimeFiresOnce,
       Registered, CurrentOrTold

\* The invariant of the watch manager and its consumers holds throughout.
LEMMA WatchesInvHolds == WatchesSpec => []WatchesInv
<1>1. WatchesInit => WatchesInv
  BY InitWatchesInv
<1>2. WatchesInv /\ StoreInv /\ [WatchesNext]_watchesVars => WatchesInv'
  <2> SUFFICES ASSUME WatchesInv, StoreInv, [WatchesNext]_watchesVars PROVE WatchesInv'
    OBVIOUS
  <2>1. CASE UNCHANGED watchesVars
    BY <2>1 DEF watchesVars, WatchesInv, WatchesTypeOK, ChannelsMatchWatches,
         OneTimeFiresOnce, Registered, CurrentOrTold, Seen, Exists
  <2> QED
    BY <2>1, StoreOperations, TriggerEventKeepsInv, ConsumerKeepsInv DEF WatchesNext
<1> QED
  BY <1>1, <1>2, WatchedStoreIsATree, PTL DEF WatchesSpec

(***************************************************************************)
(* No change is lost: whatever the order of the callbacks and however many *)
(* events are dropped at full channels, a consumer that reads again at     *)
(* each event is up to date once its path is quiet.                        *)
(***************************************************************************)
THEOREM CacheConvergesTheorem == WatchesSpec => []CacheConverges
<1>1. WatchesInv => CacheConverges
  BY DEF WatchesInv, CurrentOrTold, CacheConverges
<1> QED
  BY <1>1, WatchesInvHolds, PTL

(***************************************************************************)
(* A channel is open exactly while its watch is listed: no event is sent   *)
(* on a closed channel, no channel is closed twice, none stays open        *)
(* unlisted, whatever callbacks are still running at an Unwatch.           *)
(***************************************************************************)
THEOREM ChannelsTheorem == WatchesSpec => []ChannelsMatchWatches
<1>1. WatchesInv => ChannelsMatchWatches
  BY DEF WatchesInv
<1> QED
  BY <1>1, WatchesInvHolds, PTL

(***************************************************************************)
(* A one-time watch fires exactly once, however many callbacks of its path *)
(* run at the same time.                                                   *)
(***************************************************************************)
THEOREM OneTimeTheorem == WatchesSpec => []OneTimeFiresOnce
<1>1. WatchesInv => OneTimeFiresOnce
  BY DEF WatchesInv
<1> QED
  BY <1>1, WatchesInvHolds, PTL

(***************************************************************************)
(* The lists of watchers, the channels and the callbacks keep their types; *)
(* in particular no channel ever holds more events than its capacity.      *)
(***************************************************************************)
THEOREM WatchesTypeTheorem == WatchesSpec => []WatchesTypeOK
<1>1. WatchesInv => WatchesTypeOK
  BY DEF WatchesInv
<1> QED
  BY <1>1, WatchesInvHolds, PTL

=============================================================================
