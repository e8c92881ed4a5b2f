# SkyLock in TLA+

A verification development for SkyLock, a lock and coordination service in Go:
TLA+ models of its components, TLC runs that check them on small instances, and
TLAPS proofs for all instances. `PROJECT.json` maps every definition to the
source lines it stands for and lists runs, mutants, findings, hazards and
theorems.

## The system

| Part | Source | State | Operations that change it | Where it is hard |
|---|---|---|---|---|
| Store | `internal/store` | map of nodes with children lists, sequence counter | Create, Set, Delete, DeleteEphemerals | the tree is kept twice; callbacks run in goroutines |
| Lock manager | `internal/lock` | waiters, held locks; the queue is in the store | TryLock, waitForLock, Unlock, onNodeDeleted | many small atomic steps; timeouts race grants and deletions |
| Session manager | `internal/session` | sessions with TTL and last heartbeat | Create, Heartbeat, Close, RegisterEphemeral, expiry | expiry races heartbeats, closes and creates |
| Raft | `internal/raft` | term, vote, role, log, indexes, timers | run(), RPC goroutines, handlers, applyLoop | two mutexes that do not exclude each other; lossy network |
| Transport | `internal/transport` | calls in flight | RequestVote, AppendEntries | loss, delay, cancelled contexts |
| Watch manager | `internal/watch` | watchers with bounded channels | Watch, Unwatch, TriggerEvent | full channels, one-time watches, callbacks in any order |
| HTTP API | `internal/api` | none of its own | handlers over store, sessions, locks | several calls per request, nothing atomic across them |
| Server wiring | `cmd/skylock` | the callbacks | SetOnExpire, SetWatchCallbacks, shutdown | order of registration |
| Client SDK | `pkg/client` | session ID, stop channel, heartbeat goroutines | Connect, Close, TryLock, Unlock | heartbeats against TTL; answers that come late or never; a second Connect or Close |
| CLI, configuration | `cmd/skylockctl`, `internal/config` | none | | |

How they interact: API handlers call the session manager, the store and the lock
manager. The lock manager keeps its queue as ephemeral sequential nodes in the
store and hears of deletions through the store's callback. The end of a session
calls `DeleteEphemerals`, which releases locks. Every change of a node starts a
goroutine that tells the watch manager. The Raft node runs beside all of
this: the server never calls `Propose` or `SetApplyFunc`, so the store is not
replicated, and only the leader's ID is visible through the API.

What makes each part correct: the store is a tree; a lock is held by one request
at a time, in order of arrival, and a request that is done leaves nothing in the
queue; a client that was given a lock holds it while its session lives; an
ephemeral node lives as long as its session, and a client that sends heartbeats
keeps it; a watcher that reads at each event ends up with the current value; a
leader was elected by a majority, logs match, all servers apply the same entries
in order, and elections go on.

## Modules

| Module | Models | Uses |
|---|---|---|
| `Store` | the store; every method is atomic under its mutex, so one action each | |
| `LockManager` | TryLock/waitForLock/Unlock as a program counter per request; one step per store call or critical section | `Store` |
| `FairLock` | what the lock manager promises: tickets, grants to the oldest, leaving | |
| `Sessions` | session manager, the handlers that create and delete ephemeral nodes, `onExpire` | `Store` |
| `Watches` | watch manager, the store's callbacks, a consumer of watches | `Store` |
| `LockService` | lock manager and sessions wired together, lock handlers, the client's TryLock and Unlock | `LockManager`, `Sessions` |
| `Keepalive` | the client's Connect, heartbeat goroutines and Close against the session manager | `Sessions` |
| `Raft` | consensus package and the calls of the transport | |
| `Numerals` | sequence numbers as padded decimal strings, and back | |
| `LockNames` | lock nodes compared by name, as the code does | `LockManager`, `Numerals` |
| `StoreProofs`, `SessionsProofs`, `WatchesProofs`, `LockServiceProofs`, `KeepaliveProofs` | theorems | the above |
| `LockManagerProofs` | theorems about the queue and about the names in it | `LockNames` |
| `RaftProofs`, `RaftLogProofs` | theorems about elections and applying; about types, logs and what is applied | `Raft` |
| `MCWatches`, `MCLockManager`, `MCLockService`, `MCSessions`, `MCKeepalive`, `MCRaft` | instances for TLC | the above |

Definitions whose comment starts with "Mutant:" are plausible bugs: TLC finds the
named property violated when one of them takes the place of the definition that
follows it.

**Store.** A path is a sequence of names, a name a base and a sequence number;
this is what `normalizePath` leaves of a string. `LockNames` justifies comparing
numbers where the code compares padded strings. A failed operation that changes
nothing is not an action; a failed sequential Create is one, because it advances
the counter. Timestamps are left out.

**LockManager.** `pc` names the points between which other goroutines run:
`exists`, `mkdir`, `create`, `check`, `record` or `abandon`; then `register`,
`wait`, `recheck`, `recordLate` or `abandonLate`, and `leave...` for the deferred
removal of the waiter; then `granted`, `unlock`, `released`. `token[r]` is the
waiter's channel of capacity one, `callbacks` the goroutines started by
deletions. The server appears as `SessionEnds`, `ClientCreates` and
`ClientDeletes`. `ManagerNotified` chooses between the callbacks that
`NewManager` installs and those `main.go` replaces them with.
Clients create nothing of their own inside a lock's directory.

**Sessions.** Time is ticks since the last heartbeat. `Close` is two steps, since
the store is free while it holds the manager's mutex. `dropped` and `late` are
history variables: the sessions a late heartbeat removed, and the nodes created
for a session that had ended. A client only uses session IDs that were issued.

**Watches.** A store operation and the start of its callback goroutine are one
step, since the store's mutex is held; the goroutine's `TriggerEvent` is a later
step of its own, so callbacks of one path run in any order. What an event carries
is left out: in that order it means nothing, and the goroutines under way and the
events in a channel become numbers. No route of the API registers a watch; the
consumer (`Get`, `Receive`) is external and does what such events are good for,
to read the node again. The `triggered` flag is implied by being listed.

**LockService.** A lock request over HTTP is sent, handled and answered in separate
steps. The client may give up at any time; the handler runs all the same, or
never. `http[r]` is what the client knows, `pc[r]` what the server has done.
`EndBy` joins the end of a session to the deletion of its lock nodes, as `main.go`
does. A session may be renewed and closed at any time. `/locks` is created by no
code of the server, so it is a node that clients create and delete. A client that
deletes a lock node itself, through the node API, is outside the promises
(`ClientPath`).

**Keepalive.** One client of the SDK, in detail, next to others that use the API
as `Sessions` allows. Each `Connect` starts a goroutine that reads the client's
current session and stop channel again in each round, as the code does. A tick is
longer than the 5 s timeout of a heartbeat request, so a request is handled or
lost before the next tick; `ClockTick` waits for goroutines that have something to
do, which is the assumption that a process is not starved for a whole tick. A
request that the server handles after the client has given it up is not modelled.
Setting the session ID and making the stop channel are one step. A second `Close`
panics (`Dies`). A process that crashes sends nothing any more. `missed` counts
lost heartbeats in a row; a `Connect` answered late counts as one or two, by the
ticks it took.

**Raft.** `pc[i]` is where `run()` is. `State`'s methods are atomic; `Node.mu`
excludes handlers from one another but not from `run()`. A handler is two steps:
term and role, then vote or log. The goroutine of an append call reads `nextIndex`,
the term before the entries, the entries and the commit index in four steps
(`ReadNextIndex`, `ReadPrevLogTerm`, `ReadEntries`, `SendAppendRequest`), and
`Propose` the role, the term and the log in three (`ProposeRole`, `ProposeTerm`,
`ProposeAppend`; `proposing` holds the calls in between): no mutex is held from one
to the next. Reads that are still merged into one step:
those of a handler's second step, where `Node.mu` keeps other handlers away and
only `run()` and `Propose` of a leader could come in between; the last index and
last term of a vote request, which decide whether a vote is granted, and no
property says who deserves one; what `updateCommitIndex` compares, which while one
server wins all elections no handler on that server writes; and the two indexes
that `applyLoop` compares, of which only `applyLoop` writes one. `calls` holds the RPCs with
their stage; it is a set, so two calls with the same content at the same stage
count as one. A reply to a candidacy that is over is kept only if its term is
higher, since the vote counter is not read any more. `armed` and `stale` say
whether the timer will fire and whether `run()` is waiting on the timer the field
still holds. `grants`, `winners` and `applied` are history variables: the votes
granted, the elections won, and the entries handed to `applyFunc` with their index.
A command is the server that proposed it.

## Runs

| Run | Instance | Shows |
|---|---|---|
| `watches` | `/`, `/a`, `/a/a`, the sequential nodes beside them; 1 session, versions up to 2; 2 consumers of `/a`, channels of 1, 2 callbacks under way | the tree invariants; channels match watches, one-time watches fire once, readers converge |
| `lock_queue` | 3 requests, one of them immediate, one lock, 2 sessions; clients delete `/locks` and a lock node | exclusion, FIFO, nothing left behind, names that sort by age, refinement of `FairLock` |
| `service` | 2 requests of 2 sessions, one timed and one immediate; clients create and delete `/locks` | clients' beliefs, exclusion between them, the known leaks, refinement of `LockManager`; calls return, silent holders lose their locks |
| `keepalive` | 1 SDK client and others, 2 sessions, TTLs of 1 and 3 ticks, one path | one lost heartbeat is harmless; Close returns; replaced sessions end; the only two leaks; live sessions lose nothing; silent clients are cleaned up |
| `raft_rivals` | 2 servers, both contenders, 2 terms, no entries | majority behind every leader; reported leaders were elected; candidacies end; deposed leaders stop |
| `raft_replication` | 2 servers, both contenders, 1 term, log of 2, 1 append call in flight | entries keep their index, nothing is applied twice; while one server has won all elections, logs agree with its log and what is applied stays committed there |

Six runs show the code to disagree with what the repository says of it. The
property is the quoted statement, and TLC's trace is the evidence (`findings` in
`PROJECT.json`):

- `lock_lost_wakeup`: a release between check and registration is missed, and
  `Lock` waits for ever.
- `lock_server_wiring`: `main.go` replaces the lock manager's callback; the
  callback of a deletion runs and no registered waiter is notified. With
  `ManagerNotified = TRUE` the same instance satisfies the property, so the trace
  is due to the wiring and not to the lost wakeup.
- `sessions_late_heartbeat`: a late heartbeat removes the session, not its nodes.
- `raft_votes`: two votes in one term, between `BecomeCandidate` and `SetVotedFor`.
- `raft_timer`: a follower waits on a timer that a handler stopped and replaced.
- `raft_log_matching`: two logs with different entries of the same index and term.
  `runCandidate` calls `BecomeLeader` on votes counted earlier and does not look at
  the term again (`node.go:214`). A handler has taken the server to a later term
  meanwhile; it leads in that term, and the rival elected for it leads too.

Other weaknesses are stated as exceptions inside properties that hold, or as
hazards: a sequential create on `/` is listed by nobody (`Unlisted`), an
ephemeral node created for a session that is gone stays (`late`),
`Log.AppendEntries` truncates without a conflict, `deleteNode` reads a decimal
version as a negative number, a fresh server refuses every lock until a client
creates `/locks`, and a cluster of an even number of servers commits at half.

**Bounds.** Channels of one event are full at the second; two callbacks under way
are enough to run in the wrong order. Three ticks are the smallest TTL with a
heartbeat in every tick, two sessions let a second Connect replace the first.
`MaxSeq` and `MaxVersion` only cut off longer runs of the same steps. Two requests
suffice for every race of a holder with a waiter, the third makes a queue in which
the middle one leaves. In Raft two servers already interleave candidacies,
step-downs and stale replies; three are needed for a majority that is not
everybody, which only `raft_votes` and the theorems have. With one append call in
flight no two requests overlap in `raft_replication`, and no follower's commit
index falls; overlapping requests and any number of servers and terms are covered
by `IndexTheorem`, `LogsFollowTheorem` and `AppliedStaysTheorem`. Radix 3 and width 2 make the third sequence number the first with two
digits, where unpadded names would sort wrongly. `Contender`, `MaxTerm`, `MaxLog`
and `MaxAppends` bound candidacies, log and calls in flight; a call beyond
`MaxAppends` behaves as one that failed before it was sent. Deadlock is not
checked where these bounds, or requests that have all returned, end a behaviour.

**Fairness.** Go runs every goroutine: weak fairness for steps of calls in flight,
for callbacks once started and for a call that holds a mutex. `TimerFires` of the
lock manager is strongly fair: an expired timer stays ready, and `select` picks at
random. Session time passes and the ticker fires. Heartbeat goroutines and a Close
that was called go on; requests may all be lost. In Raft timers that are armed
and waited for fire, and calls end with a reply or their context; nothing is
assumed of delivery. Clients are never assumed to act.

## Proofs

All for arbitrary constants that satisfy the named assumptions
(`StoreAssumption`, `LockAssumption`, `SessionsAssumption`, `WatchesAssumption`,
`KeepaliveAssumption`, `RaftAssumption`; `NumeralsAssumption` and
`LockNamesAssumption` for the names: the radix is at least two, and the numeral of
`MaxSeq` is no longer than the padding, as with the code's ten digits it is not
before the counter reaches 10^10).

- `StoreIsATree`: `StoreInv` is inductive as it stands. The argument is two
  lemmas, one for removing a set of leaves and one for adding a node below an
  existing parent that is not ephemeral; each operation is an instance.
  `ParentsExistTheorem`, `ChildrenMirrorTheorem`, `EphemeralLeavesTheorem` and
  `StoreTypeTheorem` are its parts. `WatchedStoreIsATree` carries them over to the
  store among watches, as the run `watches` has it.
- `FIFOTheorem`, `MutualExclusionTheorem`, `NoNodeLeftBehindTheorem`,
  `QueueTheorem`: from `LockInv`, which adds `QueueInv` to the store's invariant.
  It is needed because a grant rests on a listing: the holder's node stays the
  first child only since directories hold nothing but lock nodes, nodes are not
  shared between requests, and new ones draw higher numbers than all before.
- `WaitersTheorem`, `LockTypeTheorem`: from `WaitersInv`. A slice of waiters
  without repetitions loses exactly one element when `waitForLock` cuts out the
  first that equals its own channel, and `append` adds a channel that was not
  there.
- `RefinementTheorem`: every step is `Arrive`, `Grant`, `Leave` or a stutter of
  `FairLock`, under `LockInv`.
- `NamesTheorem`, `ReadBackTheorem`: `itoa` and the digit loop are recursive
  functions. Each is first shown to satisfy its own equation at every argument;
  that a lower number has no longer numeral, that of two numerals of one length the
  one with the lower digit where they first differ is the lower number, and that
  reading returns what was written, then follow by taking the least number for
  which it fails. `CounterInv` bounds the store's counter by `MaxSeq`, so all names in a
  queue have the same length, and the string comparison of `checkLockAcquired` is
  a comparison of age.
- `LeaksTheorem`: from `SessionsInv`; `StoreIsATree`'s lemmas give what a
  removal or an insertion does to the owners of other nodes.
  `LiveSessionsTheorem` is an action property: a step that removes nodes removes
  those of one session that has ended, or the one that `deleteNode` names.
- `ChannelsTheorem`, `OneTimeTheorem`, `CacheConvergesTheorem`,
  `WatchesTypeTheorem`: from `WatchesInv`. Its core, `CurrentOrTold`, says that a
  consumer is up to date, or a callback of its path is under way, or an event is
  in its channel. A full channel may drop an event because it holds another one.
- `ServiceRefinesLockManager`: every step of the composition is a step of
  `LockManager` or a stutter; exclusion and FIFO order carry over.
  `BeliefsTheorem`, `ClientExclusionTheorem` and `ServiceLeaksTheorem` need
  `ServiceInv` as well: lock nodes belong to their request's session, a node
  stays while its session lives and nobody gave it up, and clients know nothing
  that the server has not done. `ServiceTypeTheorem` takes the lock manager's
  part from the refinement. `ServiceRefinesFairLock` chains the two refinements:
  the whole service implements the fair lock. `ClientOrderTheorem` is FIFO order
  as a client sees it.
- `KeepaliveTheorem`: `KeepaliveInv` bounds the time since the last heartbeat that
  was served by the losses since then (`LongestIdle`): with one loss at most two
  intervals, which is less than the TTL.
- `KeepaliveRefinesSessions`: every step of the SDK is a step of `Sessions` or a
  stutter, when `Sessions` lets clients ask for any TTL (`AnyTTLSpec`; the SDK's
  TTL need not be one of those that `Sessions` enumerates for TLC).
  `KeepaliveLeaksTheorem` and `KeepaliveNodesTheorem` follow from what is proved
  of `Sessions`. `KeepaliveTypeTheorem` also needs `GoroutinesInv`, what each
  goroutine holds at each of its points.
- `MajorityTheorem`: from `ElectionInv`. A candidate has at most one open vote
  call per peer, and a vote is counted when its call is over, so the votes are at
  most as many as the grants of servers it no longer waits for. Without this a
  vote could be counted twice. `OneWinnerTheorem` adds that two majorities share a
  server: while no server has voted twice in a term (`OneVotePerTerm`, which
  `raft_votes` refutes), the term has one winner; nothing else in the way votes
  are counted can make a second. `KnownLeadersTheorem` adds `LeaderInv`: who sends
  append requests has won. `AppliedInOrderTheorem` only needs that `applyLoop`'s
  index is past everything applied.
- `RaftTypeTheorem`: from `TypesInv`, `ElectionInv` and `ApplyInv`. A reply moves
  `nextIndex` and `matchIndex` to values computed from the request, so a request
  in flight has to be in range too (`CallLogOK`); that no candidate counts more
  votes than there are servers comes from `ElectionInv` and counting.
- `IndexTheorem`: from `IndexInv`. Every entry of a log, and every entry that a
  request carries at the place its `PrevLogIndex` gives it, has the index of that
  place. It is needed for requests because a goroutine reads `PrevLogIndex` first
  and the entries later; `EntriesTravel` is the step, for any set of placed
  entries that contains what `Propose` adds. There is no premise on leaders.
- `LogsFollowTheorem`: from `FollowInv`, the same step for the entries of one log.
  As long as only one server has won elections, only it sends append requests
  (`LeaderInv`) and proposes (`ProposersWon`, which covers a `Propose` that ends
  after the leader was deposed), and never to itself (`CallsToPeers`), so its log
  only grows while those of others are cut and refilled from it. Any server may be
  a candidate, in any number of terms.
- `AppliedStaysTheorem`: under the same premise, what anybody applied is in that
  server's log (`AppliedInLog`), and nobody's commit index, nor one in a request,
  nor the range `applyLoop` works on, is past its commit index (`CommitInv`), which
  never falls, while those of others may.

The premise `OnlyWinner` is part of both properties and cannot be dropped:
`raft_log_matching` is a behaviour with two winners. It restricts the states that
the properties speak of, and not who may contend in the run or in the theorems.

Only model-checked: the refutations, and all liveness properties (fairness is out
of the prover's reach): `LockCallsReturn`, `SilentHoldersLoseTheirLocks`,
`SilentClientsAreCleanedUp`, `CloseStopsHeartbeats`, `OnlyTheLastSessionIsKept`,
`CandidaciesEnd`, `DeposedLeadersStop`.

## Not modelled

- JSON, status codes, logging, configuration files, the command line client, gRPC
  connections and marshalling: no state that a property could be about.
- Shutdown and restart. Nothing is persisted: a crash loses all of a server's
  state, sessions and Raft's included, and what remains is `Init`.
- What the node handlers make of a version in a request, and the read-only
  queries `GetLockHolder`, `IsLocked`, `GetQueueLength` and `GetByPrefix`.
  `UnregisterEphemeral`, `HeartbeatClient` and `TriggerChildrenChange` have no
  caller. The SDK's node operations are single requests that leave the client as
  it was.
- What becomes of committed entries once a second server has won an election: the
  logs can then diverge (`raft_log_matching`), and no property of applied entries is
  claimed but their index and order. With three servers and entries in the logs the
  state space is out of TLC's reach as well.
