------------------------------ MODULE Watches ------------------------------
(***************************************************************************)
(* The watch manager of internal/watch/watcher.go on top of the store, as  *)
(* cmd/skylock/main.go wires them: every change of a node starts a         *)
(* goroutine that calls TriggerEvent with the node's path.  The goroutines *)
(* of several changes run in any order, later than the change itself; the  *)
(* manager's mutex makes each TriggerEvent, Watch and Unwatch one step.    *)
(*                                                                         *)
(* What an event says (its type, data and version) is left out: events of  *)
(* one path arrive in any order, so a watcher can only use an event as the *)
(* signal to read the node again.  This makes the pending calls of a path  *)
(* and the events in a channel numbers.  The consumer below does that; it  *)
(* stands for the code that calls Watch, of which the server has none yet. *)
(***************************************************************************)
EXTENDS Store

CONSTANTS
    Watcher,      \* the consumers, each with at most one watch at a time
    WatchPath,    \* the paths they watch
    Absent,       \* what Get finds at a path without a node
    ChannelCap,   \* capacity of Watcher.EventCh (10)
    MaxPending    \* bound on the calls of TriggerEvent under way for a path

ASSUME WatchesAssumption ==
    /\ WatchPath \subseteq Path
    /\ ChannelCap \in Nat \ {0}
    /\ MaxPending \in Nat

VARIABLES
    pending,      \* the number of callback goroutines that have not run, by path
    watchers,     \* Manager.watchers; no entry is the empty set
    watch,        \* the Watcher each consumer holds: Path, Persistent, and its
                  \* EventCh as the number of events in it and whether it is open
    consumer,     \* what each consumer does next
    cache         \* what each consumer last read, Absent once it is to be read again

watchVars == <<watchers, watch, consumer, cache>>
watchesVars == <<nodes, seqCounter, pending, watchers, watch, consumer, cache>>

WatchRecord == [path : WatchPath, persistent : BOOLEAN,
                events : 0..ChannelCap, open : BOOLEAN]

\* A consumer that holds no watch.
NoWatch(p) == [path |-> p, persistent |-> FALSE, events |-> 0, open |-> FALSE]

\* What Get returns.
Seen(p) == IF Exists(p) THEN <<nodes[p].Data, nodes[p].Version>> ELSE Absent

WatchesTypeOK ==
    /\ pending \in [WatchPath -> 0..MaxPending]
    /\ watchers \in [WatchPath -> SUBSET Watcher]
    /\ watch \in [Watcher -> WatchRecord]
    /\ consumer \in [Watcher -> {"idle", "read", "receive"}]
    /\ DOMAIN cache = Watcher

WatchesInit ==
    /\ StoreInit
    /\ pending = [p \in WatchPath |-> 0]
    /\ watchers = [p \in WatchPath |-> {}]
    /\ watch \in [Watcher -> {NoWatch(p) : p \in WatchPath}]
    /\ consumer = [w \in Watcher |-> "idle"]
    /\ cache = [w \in Watcher |-> Absent]

-----------------------------------------------------------------------------
\* The callbacks of main.go for the nodes D that a store operation changed.
Notify(D) ==
    /\ \A p \in WatchPath \cap D : pending[p] < MaxPending
    /\ pending' = [p \in WatchPath |-> pending[p] + (IF p \in D THEN 1 ELSE 0)]

(***************************************************************************)
(* The store's operations with their callbacks.  A Create that finds the   *)
(* node there already calls nothing; no operation calls                    *)
(* TriggerChildrenChange for the parent.                                   *)
(***************************************************************************)
CreateNode(p, d, eph, sid, sequential) ==
    /\ eph => sid # NoSession
    /\ sequential /\ p # Root => baseName(p)[2] = 0
    /\ Create(p, d, eph, sid, sequential)
    /\ Notify({ActualPath(p, sequential)} \ DOMAIN nodes)
    /\ UNCHANGED watchVars

SetNode(p, d, v) ==
    /\ Set(p, d, v)
    /\ Notify({p})
    /\ UNCHANGED watchVars

DeleteNode(p, v) ==
    /\ Delete(p, v)
    /\ Notify({p})
    /\ UNCHANGED watchVars

\* Mutant: DeleteEphemerals without its callbacks.
EndSessionSilently(sid) ==
    /\ DeleteEphemerals(sid)
    /\ UNCHANGED pending
    /\ UNCHANGED watchVars

EndSession(sid) ==
    /\ DeleteEphemerals(sid)
    /\ Notify(EphemeralsOf(sid))
    /\ UNCHANGED watchVars

-----------------------------------------------------------------------------
\* Mutants: a queue without limit in place of the channel, and a send that takes
\* the last place for none.
SentAlways(events) == events + 1
SentBelowLast(events) == IF events + 1 < ChannelCap THEN events + 1 ELSE events

\* The send of TriggerEvent to a channel with this many events in it.
Sent(events) == IF events < ChannelCap THEN events + 1 ELSE events

\* Mutant: the one-time watches stay listed when they have fired.
TriggerKeepsAll(p) ==
    /\ pending[p] > 0
    /\ pending' = [pending EXCEPT ![p] = @ - 1]
    /\ watch' = [w \in Watcher |->
           IF w \notin watchers[p] THEN watch[w]
           ELSE [watch[w] EXCEPT !.events = Sent(@),
                                 !.open = watch[w].persistent]]
    /\ UNCHANGED <<nodes, seqCounter, watchers, consumer, cache>>

(***************************************************************************)
(* TriggerEvent: sends the event to every watcher of the path, dropping it *)
(* where the channel is full, then removes the one-time watches and closes *)
(* their channels.  A listed one-time watch has not been triggered, so the *)
(* flag of that name is left out.                                          *)
(***************************************************************************)
TriggerEvent(p) ==
    /\ pending[p] > 0
    /\ pending' = [pending EXCEPT ![p] = @ - 1]
    /\ watch' = [w \in Watcher |->
           IF w \notin watchers[p] THEN watch[w]
           ELSE [watch[w] EXCEPT !.events = Sent(@),
                                 !.open = watch[w].persistent]]
    /\ watchers' = [watchers EXCEPT ![p] = {w \in @ : watch[w].persistent}]
    /\ UNCHANGED <<nodes, seqCounter, consumer, cache>>

\* Watch.  The consumer reads the node only after it has registered.
Watch(w, p, persistent) ==
    /\ consumer[w] = "idle"
    /\ watchers' = [watchers EXCEPT ![p] = @ \cup {w}]
    /\ watch' = [watch EXCEPT ![w] = [path |-> p, persistent |-> persistent,
                                      events |-> 0, open |-> TRUE]]
    /\ consumer' = [consumer EXCEPT ![w] = "read"]
    /\ UNCHANGED <<nodes, seqCounter, pending, cache>>

(***************************************************************************)
(* Unwatch.  A one-time watch that has fired is not listed any more: its   *)
(* channel is closed already, and Unwatch leaves it alone.  The consumer   *)
(* drops what is still in the channel.                                     *)
(***************************************************************************)
Unwatch(w) ==
    /\ consumer[w] \in {"read", "receive"}
    /\ watchers' = [watchers EXCEPT ![watch[w].path] = @ \ {w}]
    /\ watch' = [watch EXCEPT ![w] = NoWatch(@.path)]
    /\ consumer' = [consumer EXCEPT ![w] = "idle"]
    /\ cache' = [cache EXCEPT ![w] = Absent]
    /\ UNCHANGED <<nodes, seqCounter, pending>>

\* The consumer reads the node it watches.
Get(w) ==
    /\ consumer[w] = "read"
    /\ cache' = [cache EXCEPT ![w] = Seen(watch[w].path)]
    /\ consumer' = [consumer EXCEPT ![w] = "receive"]
    /\ UNCHANGED <<nodes, seqCounter, pending, watchers, watch>>

(***************************************************************************)
(* The consumer takes an event: what it last read is out of date.  A       *)
(* one-time watch has had its only event, the consumer holds no watch now. *)
(***************************************************************************)
Receive(w) ==
    /\ consumer[w] = "receive"
    /\ watch[w].events > 0
    /\ watch' = [watch EXCEPT ![w].events = @ - 1]
    /\ consumer' = [consumer EXCEPT ![w] = IF watch[w].persistent THEN "read" ELSE "idle"]
    /\ cache' = [cache EXCEPT ![w] = Absent]
    /\ UNCHANGED <<nodes, seqCounter, pending, watchers>>

WatchesNext ==
    \/ \E p \in InputPath, d \in Data, eph, sequential \in BOOLEAN,
          sid \in Session \cup {NoSession} : CreateNode(p, d, eph, sid, sequential)
    \/ \E p \in InputPath, d \in Data, v \in -1..MaxVersion : SetNode(p, d, v)
    \/ \E p \in InputPath, v \in -1..MaxVersion : DeleteNode(p, v)
    \/ \E sid \in Session : EndSession(sid)
    \/ \E p \in WatchPath : TriggerEvent(p)
    \/ \E w \in Watcher, p \in WatchPath, persistent \in BOOLEAN : Watch(w, p, persistent)
    \/ \E w \in Watcher : Unwatch(w) \/ Get(w) \/ Receive(w)

WatchesSpec == WatchesInit /\ [][WatchesNext]_watchesVars

-----------------------------------------------------------------------------
(***************************************************************************)
(* ChannelsMatchWatches: a channel is open exactly while its watch is      *)
(* listed, under its own path.  TriggerEvent sends to every listed watch   *)
(* and Unwatch closes the channel of a listed one, so a closed channel     *)
(* left in the list would make the server panic; an open one outside it    *)
(* would leave its consumer waiting for ever.                              *)
(***************************************************************************)
ChannelsMatchWatches ==
    \A w \in Watcher, p \in WatchPath :
        w \in watchers[p] <=> watch[w].open /\ watch[w].path = p

(***************************************************************************)
(* OneTimeFiresOnce: a one-time watch is listed and has no event yet, or   *)
(* has fired and its only event is there to be taken, however the          *)
(* callbacks, Watch and Unwatch interleave and however full the other      *)
(* channels are.                                                           *)
(***************************************************************************)
OneTimeFiresOnce ==
    \A w \in Watcher :
        consumer[w] \in {"read", "receive"} /\ ~watch[w].persistent
            => watch[w].events = (IF watch[w].open THEN 0 ELSE 1)

(***************************************************************************)
(* CacheConverges: a consumer that registers, reads, and reads again at    *)
(* each event holds the node's current data and version, or its absence,   *)
(* as soon as no callback of the path is under way and its channel is      *)
(* empty.  It does not depend on the order of the events, on the events    *)
(* dropped at a full channel, or on a one-time watch spent on a change     *)
(* older than the watch.                                                   *)
(***************************************************************************)
CacheConverges ==
    \A w \in Watcher :
        /\ consumer[w] = "receive"
        /\ pending[watch[w].path] = 0
        /\ watch[w].events = 0
        => cache[w] = Seen(watch[w].path)

=============================================================================
