-------------------------------- MODULE Raft --------------------------------
(***************************************************************************)
(* The consensus package, internal/raft: per server the goroutine of run() *)
(* and of applyLoop(), the goroutines that make RPCs to the peers, and the *)
(* RPC handlers.  The transport (internal/transport) carries each request  *)
(* at most once and may lose or delay it, or the reply, without bound.     *)
(*                                                                         *)
(* State's methods are atomic, and each is a step of its own where it is   *)
(* called by run().  Handlers exclude one another through Node.mu, which   *)
(* run() does not take, so a handler is two steps: the one that settles    *)
(* term and role, and the one that reads what run() may have changed in    *)
(* between (the vote, or the log).  A goroutine that sends AppendEntries   *)
(* holds no mutex from one read to the next, and neither does Propose:     *)
(* each read is a step.  A timer that has fired and whose channel has not  *)
(* been read is pc = "timedOut": the goroutine will go on with it whatever *)
(* happens to Node.electionTimer.                                          *)
(***************************************************************************)
EXTENDS Integers, Sequences, FiniteSets

CONSTANTS
    Server,
    NoServer,      \* the empty node ID
    Contender,     \* bound: the servers whose election timer may run out
    MaxTerm,       \* bound: no candidacy beyond this term
    MaxLog,        \* bound: no proposal beyond this index
    MaxAppends     \* bound: AppendEntries calls in flight at once; further ones
                   \* fail before anything is sent

ASSUME RaftAssumption ==
    /\ IsFiniteSet(Server) /\ NoServer \notin Server /\ Contender \subseteq Server
    /\ MaxTerm \in Nat /\ MaxLog \in Nat /\ MaxAppends \in Nat

VARIABLES
    currentTerm, votedFor, state, leaderID,   \* State
    log, commitIndex, lastApplied,
    proposing,    \* Propose calls: 0 for one that has seen the role Leader, the
                  \* term for one that has read it
    nextIndex, matchIndex,
    pc,           \* where run() is
    term,         \* runCandidate's term
    votes,        \* runCandidate's votes
    newCommit,    \* updateCommitIndex's newCommitIndex
    commitCh,     \* whether commitCh, of capacity 1, is full
    armed,        \* whether electionTimer will fire: it has not been received from
    stale,        \* whether run() waits for a timer that electionTimer no longer is
    applyNext, applyTo,   \* applyLoop's i and commitIndex
    calls,        \* the RPCs in flight
    grants,       \* history: <<voter, candidate, term>> for every vote given
    winners,      \* history: <<server, term>> for every election won
    applied       \* history: <<index, entry>> for every entry handed to applyFunc

termVars == <<currentTerm, votedFor, state, leaderID>>
leaderVars == <<nextIndex, matchIndex, newCommit, commitCh>>
candidateVars == <<term, votes>>
timerVars == <<armed, stale>>
logVars == <<log, proposing, commitIndex>>
applyVars == <<lastApplied, applyNext, applyTo>>
history == <<grants, winners, applied>>
raftVars == <<termVars, leaderVars, candidateVars, timerVars, logVars, applyVars,
              pc, calls, history>>

\* Commands are told apart by the server that proposed them and by Index.
Entry == [Term : Nat, Index : Nat, Command : Server]

Peers(i) == Server \ {i}

\* Mutant: half of the servers is enough.
HalfTheVotes == Cardinality(Server) \div 2

VotesNeeded == Cardinality(Server) \div 2 + 1

\* An RPC as its caller, the network and the handler see it.  index and logTerm
\* describe the caller's last entry (vote) or the entry before entries (append).
Status == {"new",
           "indexRead", "termRead", "entriesRead",  \* how far an append call has got
           "sent", "handling", "replied",         \* the caller waits for the reply
           "orphan", "handledOrphan",             \* it has given up
           "stray"}                               \* higher term for a candidacy that is over
Call == [kind : {"vote", "append"}, from : Server, to : Server, term : Nat,
         status : Status, index : Nat, logTerm : Nat, entries : Seq(Entry),
         commit : Nat, replyTerm : Nat, ok : BOOLEAN]

PC == {"run", "follower", "timedOut", "candidate", "voteSelf", "request", "gather",
       "count", "leader", "lead", "commit", "leadCheck"}

RaftTypeOK ==
    /\ currentTerm \in [Server -> 0..MaxTerm]
    /\ votedFor \in [Server -> Server \cup {NoServer}]
    /\ leaderID \in [Server -> Server \cup {NoServer}]
    /\ state \in [Server -> {"Follower", "Candidate", "Leader"}]
    /\ log \in [Server -> Seq(Entry)]
    /\ proposing \in [Server -> SUBSET (0..MaxTerm)]
    /\ \A x \in {commitIndex, lastApplied, newCommit} : x \in [Server -> 0..MaxLog]
    /\ nextIndex \in [Server -> [Server -> 1..(MaxLog + 1)]]
    /\ matchIndex \in [Server -> [Server -> 0..MaxLog]]
    /\ pc \in [Server -> PC]
    /\ term \in [Server -> 0..MaxTerm]
    /\ votes \in [Server -> 0..Cardinality(Server)]
    /\ \A x \in {commitCh, armed, stale} : x \in [Server -> BOOLEAN]
    /\ calls \subseteq Call

RaftInit ==
    /\ currentTerm = [i \in Server |-> 0] /\ votedFor = [i \in Server |-> NoServer]
    /\ state = [i \in Server |-> "Follower"] /\ leaderID = [i \in Server |-> NoServer]
    /\ log = [i \in Server |-> << >>] /\ proposing = [i \in Server |-> {}]
    /\ commitIndex = [i \in Server |-> 0] /\ lastApplied = [i \in Server |-> 0]
    /\ nextIndex = [i \in Server |-> [j \in Server |-> 1]]
    /\ matchIndex = [i \in Server |-> [j \in Server |-> 0]]
    /\ newCommit = [i \in Server |-> 0] /\ commitCh = [i \in Server |-> FALSE]
    /\ pc = [i \in Server |-> "run"]
    /\ term = [i \in Server |-> 0] /\ votes = [i \in Server |-> 0]
    /\ armed = [i \in Server |-> TRUE] /\ stale = [i \in Server |-> FALSE]
    /\ applyNext = [i \in Server |-> 1] /\ applyTo = [i \in Server |-> 0]
    /\ calls = {} /\ grants = {} /\ winners = {} /\ applied = {}

-----------------------------------------------------------------------------
(* log.go *)

LastIndex(l) == Len(l)
TermAt(l, index) == IF index \in 1..Len(l) THEN l[index].Term ELSE 0
LastTerm(l) == TermAt(l, Len(l))
\* Mutant: the entry at index is sent again.
EntriesFrom(l, index) == SubSeq(l, IF index = 0 THEN 1 ELSE index, Len(l))

EntriesAfter(l, index) == SubSeq(l, index + 1, Len(l))

\* Mutant: the entries are appended without truncating the log first.
AppendWithoutTruncating(l, prev, entries) == IF prev > Len(l) THEN l ELSE l \o entries

\* Truncates whatever the entries are.  HandleAppendEntries ignores the result.
AppendEntries(l, prev, entries) ==
    IF prev > Len(l) THEN l ELSE SubSeq(l, 1, prev) \o entries

-----------------------------------------------------------------------------
(* state.go and the election timer *)

BecomeFollower(i, t, leader) ==
    /\ state' = [state EXCEPT ![i] = "Follower"]
    /\ currentTerm' = [currentTerm EXCEPT ![i] = t]
    /\ leaderID' = [leaderID EXCEPT ![i] = leader]
    /\ votedFor' = [votedFor EXCEPT ![i] = NoServer]

Goto(i, from, to) == pc[i] = from /\ pc' = [pc EXCEPT ![i] = to]

\* run() is blocked in a select on the timer that was electionTimer when it got there.
Waiting(i) == pc[i] \in {"follower", "gather"}

\* resetElectionTimer stops the timer and replaces it; a goroutine that is
\* waiting for the stopped one is not told.
ResetElectionTimer(i) ==
    /\ armed' = [armed EXCEPT ![i] = TRUE]
    /\ stale' = [stale EXCEPT ![i] = Waiting(i)]

-----------------------------------------------------------------------------
(* RPCs *)

Replace(c, d) == calls' = (calls \ {c}) \cup {d}
Lose(c) == calls' = calls \ {c}

NewCall(kind, i, j, t) ==
    [kind |-> kind, from |-> i, to |-> j, term |-> t, status |-> "new", index |-> 0,
     logTerm |-> 0, entries |-> << >>, commit |-> 0, replyTerm |-> 0, ok |-> FALSE]

\* Node.mu: no handler is between its two steps.
MutexFree(i) ==
    \A c \in calls : c.to = i => c.status \notin {"handling", "handledOrphan"}

\* The handler returns: the reply goes to a caller that still waits for it.
Answer(c, t, ok) ==
    IF c.status \in {"sent", "handling"}
    THEN Replace(c, [c EXCEPT !.status = "replied", !.replyTerm = t, !.ok = ok])
    ELSE Lose(c)

\* The handler goes on to its second step.
Enter(c) ==
    Replace(c, [c EXCEPT !.status = IF c.status = "sent" THEN "handling" ELSE "handledOrphan"])

Arrives(c, kind) == c.kind = kind /\ c.status \in {"sent", "orphan"} /\ MutexFree(c.to)
InHandler(c, kind) == c.kind = kind /\ c.status \in {"handling", "handledOrphan"}

\* The vote calls whose goroutines runCandidate waits for.
Outstanding(i) ==
    {c \in calls : c.kind = "vote" /\ c.from = i
                   /\ c.status \in {"new", "sent", "handling", "replied"}}

\* The deferred cancel() of runCandidate.  A reply that has come and is not yet
\* looked at still matters if its term is higher: votes is not read any more.
Cancelled(c) ==
    [c EXCEPT !.status = CASE @ = "sent" -> "orphan"
                           [] @ = "handling" -> "handledOrphan"
                           [] @ = "replied" -> "stray"]
Cancel(i) ==
    calls' = (calls \ Outstanding(i))
                \cup {Cancelled(c) : c \in {d \in Outstanding(i) :
                         d.status # "new" /\ (d.status = "replied" => d.replyTerm > d.term)}}

-----------------------------------------------------------------------------
(* run(), runFollower *)

Run(i) ==
    /\ pc[i] = "run"
    /\ pc' = [pc EXCEPT ![i] = CASE state[i] = "Follower" -> "follower"
                                 [] state[i] = "Candidate" -> "candidate"
                                 [] state[i] = "Leader" -> "leader"]
    /\ stale' = [stale EXCEPT ![i] = FALSE]
    /\ UNCHANGED <<termVars, leaderVars, candidateVars, armed, logVars, applyVars, calls, history>>

ElectionTimeout(i) ==
    /\ i \in Contender
    /\ armed[i] /\ ~stale[i]
    /\ Goto(i, "follower", "timedOut")
    /\ armed' = [armed EXCEPT ![i] = FALSE]
    /\ UNCHANGED <<termVars, leaderVars, candidateVars, stale, logVars, applyVars, calls, history>>

SetCandidate(i) ==
    /\ Goto(i, "timedOut", "run")
    /\ state' = [state EXCEPT ![i] = "Candidate"]
    /\ UNCHANGED <<currentTerm, votedFor, leaderID, leaderVars, candidateVars, timerVars,
                   logVars, applyVars, calls, history>>

-----------------------------------------------------------------------------
(* runCandidate *)

\* BecomeCandidate leaves votedFor alone.
BecomeCandidate(i) ==
    /\ currentTerm[i] < MaxTerm
    /\ Goto(i, "candidate", "voteSelf")
    /\ state' = [state EXCEPT ![i] = "Candidate"]
    /\ currentTerm' = [currentTerm EXCEPT ![i] = @ + 1]
    /\ leaderID' = [leaderID EXCEPT ![i] = NoServer]
    /\ term' = [term EXCEPT ![i] = currentTerm[i] + 1]
    /\ UNCHANGED <<votedFor, votes, leaderVars, timerVars, logVars, applyVars, calls, history>>

VoteForSelf(i) ==
    /\ Goto(i, "voteSelf", "request")
    /\ votedFor' = [votedFor EXCEPT ![i] = i]
    /\ grants' = grants \cup {<<i, i, term[i]>>}
    /\ ResetElectionTimer(i)
    /\ UNCHANGED <<currentTerm, state, leaderID, leaderVars, candidateVars, logVars,
                   applyVars, calls, winners, applied>>

RequestVotes(i) ==
    /\ Goto(i, "request", "gather")
    /\ votes' = [votes EXCEPT ![i] = 1]
    /\ calls' = calls \cup {NewCall("vote", i, j, term[i]) : j \in Peers(i)}
    /\ UNCHANGED <<termVars, term, leaderVars, timerVars, logVars, applyVars, history>>

SendVoteRequest(c) ==
    /\ c.kind = "vote" /\ c.status = "new"
    /\ Replace(c, [c EXCEPT !.status = "sent", !.index = LastIndex(log[c.from]),
                            !.logTerm = LastTerm(log[c.from])])
    /\ UNCHANGED <<termVars, leaderVars, candidateVars, timerVars, logVars, applyVars, pc, history>>

\* The goroutine of a vote call gets the reply.
VoteReply(c) ==
    /\ c.kind = "vote" /\ c.status \in {"replied", "stray"}
    /\ Lose(c)
    /\ IF c.replyTerm > c.term
       THEN BecomeFollower(c.from, c.replyTerm, NoServer) /\ UNCHANGED votes
       ELSE /\ votes' = IF c.ok /\ c.status = "replied"
                        THEN [votes EXCEPT ![c.from] = @ + 1] ELSE votes
            /\ UNCHANGED termVars
    /\ UNCHANGED <<term, leaderVars, timerVars, logVars, applyVars, pc, history>>

CandidateTimeout(i) ==
    /\ armed[i] /\ ~stale[i]
    /\ Goto(i, "gather", "run")
    /\ armed' = [armed EXCEPT ![i] = FALSE]
    /\ Cancel(i)
    /\ UNCHANGED <<termVars, leaderVars, candidateVars, stale, logVars, applyVars, history>>

\* Mutant: done is closed by the vote that makes the majority.
VotesSuffice(i) ==
    /\ Outstanding(i) = {} /\ votes[i] >= VotesNeeded
    /\ Goto(i, "gather", "count")
    /\ stale' = [stale EXCEPT ![i] = FALSE]
    /\ UNCHANGED <<termVars, leaderVars, candidateVars, armed, logVars, applyVars, calls, history>>

\* wg.Wait has returned: every vote call was answered or failed.
VotesAreIn(i) ==
    /\ Outstanding(i) = {}
    /\ Goto(i, "gather", "count")
    /\ stale' = [stale EXCEPT ![i] = FALSE]
    /\ UNCHANGED <<termVars, leaderVars, candidateVars, armed, logVars, applyVars, calls, history>>

\* Mutant: nextIndex starts at the last entry.
BecomeLeaderAtLast(i) ==
    /\ votes[i] >= VotesNeeded
    /\ Goto(i, "count", "run")
    /\ state' = [state EXCEPT ![i] = "Leader"]
    /\ leaderID' = [leaderID EXCEPT ![i] = i]
    /\ nextIndex' = [nextIndex EXCEPT ![i] = [j \in Server |-> LastIndex(log[i])]]
    /\ matchIndex' = [matchIndex EXCEPT ![i] = [j \in Server |-> 0]]
    /\ winners' = winners \cup {<<i, term[i]>>}
    /\ UNCHANGED <<currentTerm, votedFor, newCommit, commitCh, candidateVars, timerVars,
                   logVars, applyVars, calls, grants, applied>>

\* BecomeLeader checks neither the role nor the term again.
BecomeLeader(i) ==
    /\ votes[i] >= VotesNeeded
    /\ Goto(i, "count", "run")
    /\ state' = [state EXCEPT ![i] = "Leader"]
    /\ leaderID' = [leaderID EXCEPT ![i] = i]
    /\ nextIndex' = [nextIndex EXCEPT ![i] = [j \in Server |-> LastIndex(log[i]) + 1]]
    /\ matchIndex' = [matchIndex EXCEPT ![i] = [j \in Server |-> 0]]
    /\ winners' = winners \cup {<<i, term[i]>>}
    /\ UNCHANGED <<currentTerm, votedFor, newCommit, commitCh, candidateVars, timerVars,
                   logVars, applyVars, calls, grants, applied>>

LoseElection(i) ==
    /\ votes[i] < VotesNeeded
    /\ Goto(i, "count", "run")
    /\ state' = [state EXCEPT ![i] = "Follower"]
    /\ ResetElectionTimer(i)
    /\ UNCHANGED <<currentTerm, votedFor, leaderID, leaderVars, candidateVars, logVars,
                   applyVars, calls, history>>

-----------------------------------------------------------------------------
(* runLeader, sendHeartbeats, updateCommitIndex *)

AppendsInFlight == {c \in calls : c.kind = "append"}

SendHeartbeats(i) ==
    \E P \in SUBSET Peers(i) :
        /\ Cardinality(AppendsInFlight) + Cardinality(P) <= MaxAppends
        /\ calls' = calls \cup {NewCall("append", i, j, currentTerm[i]) : j \in P}

RunLeader(i) ==
    /\ Goto(i, "leader", "lead")
    /\ SendHeartbeats(i)
    /\ UNCHANGED <<termVars, leaderVars, candidateVars, timerVars, logVars, applyVars, history>>

HeartbeatTick(i) ==
    /\ Goto(i, "lead", "leadCheck")
    /\ SendHeartbeats(i)
    /\ UNCHANGED <<termVars, leaderVars, candidateVars, timerVars, logVars, applyVars, history>>

AppendCall(c, status) == c.kind = "append" /\ c.status = status

\* The goroutine of an append call: nextIndex under Node.mu, the log twice under
\* its own mutex, the commit index under State's; all may change in between.
ReadNextIndex(c) ==
    /\ AppendCall(c, "new") /\ MutexFree(c.from)
    /\ Replace(c, [c EXCEPT !.status = "indexRead", !.index = nextIndex[c.from][c.to] - 1])
    /\ UNCHANGED <<termVars, leaderVars, candidateVars, timerVars, logVars, applyVars, pc, history>>

ReadPrevLogTerm(c) ==
    /\ AppendCall(c, "indexRead")
    /\ Replace(c, [c EXCEPT !.status = "termRead", !.logTerm = TermAt(log[c.from], c.index)])
    /\ UNCHANGED <<termVars, leaderVars, candidateVars, timerVars, logVars, applyVars, pc, history>>

ReadEntries(c) ==
    /\ AppendCall(c, "termRead")
    /\ Replace(c, [c EXCEPT !.status = "entriesRead",
                            !.entries = EntriesAfter(log[c.from], c.index)])
    /\ UNCHANGED <<termVars, leaderVars, candidateVars, timerVars, logVars, applyVars, pc, history>>

SendAppendRequest(c) ==
    /\ AppendCall(c, "entriesRead")
    /\ Replace(c, [c EXCEPT !.status = "sent", !.commit = commitIndex[c.from]])
    /\ UNCHANGED <<termVars, leaderVars, candidateVars, timerVars, logVars, applyVars, pc, history>>

SendAppend(c) ==
    ReadNextIndex(c) \/ ReadPrevLogTerm(c) \/ ReadEntries(c) \/ SendAppendRequest(c)

AppendReplyStepDown(c) ==
    /\ c.kind = "append" /\ c.status = "replied" /\ c.replyTerm > c.term
    /\ Lose(c)
    /\ BecomeFollower(c.from, c.replyTerm, NoServer)
    /\ UNCHANGED <<leaderVars, candidateVars, timerVars, logVars, applyVars, pc, history>>

AppendReply(c) ==
    LET last == c.index + Len(c.entries) IN
    /\ c.kind = "append" /\ c.status = "replied" /\ c.replyTerm <= c.term
    /\ MutexFree(c.from)
    /\ Lose(c)
    /\ IF c.ok
       THEN /\ commitCh' = [commitCh EXCEPT ![c.from] = TRUE]
            /\ nextIndex' = IF c.entries = << >> THEN nextIndex
                            ELSE [nextIndex EXCEPT ![c.from][c.to] = last + 1]
            /\ matchIndex' = IF c.entries = << >> THEN matchIndex
                             ELSE [matchIndex EXCEPT ![c.from][c.to] = last]
       ELSE /\ nextIndex' = [nextIndex EXCEPT ![c.from][c.to] = IF @ > 1 THEN @ - 1 ELSE @]
            /\ UNCHANGED <<matchIndex, commitCh>>
    /\ UNCHANGED <<termVars, newCommit, candidateVars, timerVars, logVars, applyVars, pc, history>>

\* matchIndexes[len/2] of the sorted indexes: the largest index that at least
\* half of the servers (rounded up) have reached.
CommitCandidate(i) ==
    LET reached(x) == {j \in Peers(i) : matchIndex[i][j] >= x}
                          \cup {j \in {i} : LastIndex(log[i]) >= x}
        enough == {x \in 0..MaxLog :
                     2 * Cardinality(reached(x)) >= Cardinality(Server)}
    IN  CHOOSE x \in enough : \A y \in enough : y <= x

UpdateCommitIndexRead(i) ==
    /\ commitCh[i] /\ MutexFree(i)
    /\ Goto(i, "lead", "commit")
    /\ commitCh' = [commitCh EXCEPT ![i] = FALSE]
    /\ newCommit' = [newCommit EXCEPT ![i] = CommitCandidate(i)]
    /\ UNCHANGED <<termVars, nextIndex, matchIndex, candidateVars, timerVars, logVars,
                   applyVars, calls, history>>

UpdateCommitIndexSet(i) ==
    /\ Goto(i, "commit", "leadCheck")
    /\ commitIndex' = [commitIndex EXCEPT ![i] =
          IF newCommit[i] > @ /\ TermAt(log[i], newCommit[i]) = currentTerm[i]
          THEN newCommit[i] ELSE @]
    /\ newCommit' = [newCommit EXCEPT ![i] = 0]
    /\ UNCHANGED <<termVars, nextIndex, matchIndex, commitCh, candidateVars, timerVars, log,
                   proposing, applyVars, calls, history>>

\* Mutant: the loop does not look at the state.
LeaderForEver(i) ==
    /\ Goto(i, "leadCheck", "lead")
    /\ UNCHANGED <<termVars, leaderVars, candidateVars, timerVars, logVars, applyVars, calls, history>>

LeaderCheck(i) ==
    /\ Goto(i, "leadCheck", IF state[i] = "Leader" THEN "lead" ELSE "run")
    /\ UNCHANGED <<termVars, leaderVars, candidateVars, timerVars, logVars, applyVars, calls, history>>

\* Propose holds no mutex: the role is looked at once, and the term and the log
\* are those of later moments.
ProposeRole(i) ==
    /\ state[i] = "Leader"
    /\ 0 \notin proposing[i] /\ Len(log[i]) + Cardinality(proposing[i]) < MaxLog
    /\ proposing' = [proposing EXCEPT ![i] = @ \cup {0}]
    /\ UNCHANGED <<termVars, leaderVars, candidateVars, timerVars, log, commitIndex, applyVars,
                   pc, calls, history>>

ProposeTerm(i) ==
    /\ 0 \in proposing[i]
    /\ proposing' = [proposing EXCEPT ![i] = (@ \ {0}) \cup {currentTerm[i]}]
    /\ UNCHANGED <<termVars, leaderVars, candidateVars, timerVars, log, commitIndex, applyVars,
                   pc, calls, history>>

ProposeAppend(i) ==
    \E t \in proposing[i] \ {0} :
        /\ Len(log[i]) < MaxLog
        /\ proposing' = [proposing EXCEPT ![i] = @ \ {t}]
        /\ log' = [log EXCEPT ![i] = Append(@, [Term |-> t, Index |-> Len(@) + 1, Command |-> i])]
        /\ UNCHANGED <<termVars, leaderVars, candidateVars, timerVars, commitIndex, applyVars,
                       pc, calls, history>>

Propose(i) == ProposeRole(i) \/ ProposeTerm(i) \/ ProposeAppend(i)

-----------------------------------------------------------------------------
(* HandleRequestVote *)

\* Mutant: the candidate is taken for the leader of its term.
RequestVoteNamesLeader(c) ==
    LET j == c.to IN
    /\ Arrives(c, "vote")
    /\ IF c.term < currentTerm[j]
       THEN Answer(c, currentTerm[j], FALSE) /\ UNCHANGED termVars
       ELSE /\ Enter(c)
            /\ IF c.term > currentTerm[j] THEN BecomeFollower(j, c.term, c.from)
                                          ELSE UNCHANGED termVars
    /\ UNCHANGED <<leaderVars, candidateVars, timerVars, logVars, applyVars, pc, history>>

RequestVoteTerm(c) ==
    LET j == c.to IN
    /\ Arrives(c, "vote")
    /\ IF c.term < currentTerm[j]
       THEN Answer(c, currentTerm[j], FALSE) /\ UNCHANGED termVars
       ELSE /\ Enter(c)
            /\ IF c.term > currentTerm[j] THEN BecomeFollower(j, c.term, NoServer)
                                          ELSE UNCHANGED termVars
    /\ UNCHANGED <<leaderVars, candidateVars, timerVars, logVars, applyVars, pc, history>>

UpToDate(c) ==
    LET l == log[c.to] IN
    \/ c.logTerm > LastTerm(l)
    \/ c.logTerm = LastTerm(l) /\ c.index >= LastIndex(l)

RequestVoteDecide(c) ==
    LET j == c.to
        granted == votedFor[j] \in {NoServer, c.from} /\ UpToDate(c) IN
    /\ InHandler(c, "vote")
    /\ Answer(c, c.term, granted)
    /\ IF granted
       THEN /\ votedFor' = [votedFor EXCEPT ![j] = c.from]
            /\ grants' = grants \cup {<<j, c.from, c.term>>}
            /\ ResetElectionTimer(j)
       ELSE UNCHANGED <<votedFor, grants, timerVars>>
    /\ UNCHANGED <<currentTerm, state, leaderID, leaderVars, candidateVars, logVars,
                   applyVars, pc, winners, applied>>

-----------------------------------------------------------------------------
(* HandleAppendEntries *)

AppendEntriesTerm(c) ==
    LET j == c.to IN
    /\ Arrives(c, "append")
    /\ IF c.term < currentTerm[j]
       THEN Answer(c, currentTerm[j], FALSE) /\ UNCHANGED <<termVars, timerVars>>
       ELSE /\ Enter(c)
            /\ ResetElectionTimer(j)
            /\ BecomeFollower(j, c.term, c.from)
    /\ UNCHANGED <<leaderVars, candidateVars, logVars, applyVars, pc, history>>

\* Mutant: LeaderCommit does not limit the commit index.
CommitLastEntry(c, commit) ==
    IF c.commit <= commit THEN commit ELSE c.index + Len(c.entries)

\* The commit index after the request, which may be lower than the one before.
CommitUpTo(c, commit) ==
    LET last == c.index + Len(c.entries) IN
    IF c.commit <= commit THEN commit ELSE IF last < c.commit THEN last ELSE c.commit

AppendEntriesLog(c) ==
    LET j == c.to IN
    /\ InHandler(c, "append")
    /\ IF c.index > 0 /\ TermAt(log[j], c.index) # c.logTerm
       THEN Answer(c, c.term, FALSE) /\ UNCHANGED logVars
       ELSE /\ Answer(c, c.term, TRUE)
            /\ log' = IF c.entries = << >> THEN log
                      ELSE [log EXCEPT ![j] = AppendEntries(@, c.index, c.entries)]
            /\ commitIndex' = [commitIndex EXCEPT ![j] = CommitUpTo(c, @)]
            /\ UNCHANGED proposing
    /\ UNCHANGED <<termVars, leaderVars, candidateVars, timerVars, applyVars, pc, history>>

-----------------------------------------------------------------------------
(* applyLoop; the network *)

\* Mutant: every round starts again at the first entry.
ApplyFromStart(i) ==
    /\ applyNext[i] > applyTo[i]
    /\ commitIndex[i] > lastApplied[i]
    /\ applyNext' = [applyNext EXCEPT ![i] = 1]
    /\ applyTo' = [applyTo EXCEPT ![i] = commitIndex[i]]
    /\ UNCHANGED <<termVars, leaderVars, candidateVars, timerVars, logVars, lastApplied,
                   pc, calls, history>>

ApplyBegin(i) ==
    /\ applyNext[i] > applyTo[i]
    /\ commitIndex[i] > lastApplied[i]
    /\ applyNext' = [applyNext EXCEPT ![i] = lastApplied[i] + 1]
    /\ applyTo' = [applyTo EXCEPT ![i] = commitIndex[i]]
    /\ UNCHANGED <<termVars, leaderVars, candidateVars, timerVars, logVars, lastApplied,
                   pc, calls, history>>

\* An index that Get does not find is skipped.
ApplyOne(i) ==
    LET index == applyNext[i]
        found == index <= Len(log[i]) IN
    /\ index <= applyTo[i]
    /\ applyNext' = [applyNext EXCEPT ![i] = @ + 1]
    /\ lastApplied' = [lastApplied EXCEPT ![i] = IF found THEN index ELSE @]
    /\ applied' = applied \cup (IF found THEN {<<index, log[i][index]>>} ELSE {})
    /\ UNCHANGED <<termVars, leaderVars, candidateVars, timerVars, logVars, applyTo,
                   pc, calls, grants, winners>>

\* The caller's context expires while the request is on its way or being handled.
ContextExpires(c) ==
    /\ c.status \in {"sent", "handling"}
    /\ Replace(c, Cancelled(c))
    /\ UNCHANGED <<termVars, leaderVars, candidateVars, timerVars, logVars, applyVars, pc, history>>

\* The request or the reply is lost, and a caller that waits for it gets an error.
CallFails(c) ==
    /\ c.status \notin {"handling", "handledOrphan"}
    /\ Lose(c)
    /\ UNCHANGED <<termVars, leaderVars, candidateVars, timerVars, logVars, applyVars, pc, history>>

RunStep(i) ==
    \/ Run(i) \/ SetCandidate(i)
    \/ BecomeCandidate(i) \/ VoteForSelf(i) \/ RequestVotes(i) \/ VotesAreIn(i)
    \/ BecomeLeader(i) \/ LoseElection(i)
    \/ RunLeader(i) \/ HeartbeatTick(i) \/ UpdateCommitIndexRead(i)
    \/ UpdateCommitIndexSet(i) \/ LeaderCheck(i)

HandlerStep(c) ==
    \/ RequestVoteTerm(c) \/ RequestVoteDecide(c)
    \/ AppendEntriesTerm(c) \/ AppendEntriesLog(c)

RaftNext ==
    \/ \E i \in Server :
          \/ RunStep(i) \/ ElectionTimeout(i) \/ CandidateTimeout(i)
          \/ ApplyBegin(i) \/ ApplyOne(i) \/ Propose(i)
    \/ \E c \in calls :
          \/ SendVoteRequest(c) \/ VoteReply(c)
          \/ SendAppend(c) \/ AppendReply(c) \/ AppendReplyStepDown(c)
          \/ HandlerStep(c)
          \/ ContextExpires(c) \/ CallFails(c)

RaftSpec == RaftInit /\ [][RaftNext]_raftVars

\* The goroutines run; a timer that is armed and waited for fires; a call ends
\* with a reply or with its context.  Nothing is assumed about delivery.
CallOfEnds(i, kind) ==
    \E c \in calls :
        /\ c.from = i /\ c.kind = kind
        /\ VoteReply(c) \/ AppendReply(c) \/ AppendReplyStepDown(c)
               \/ ContextExpires(c) \/ (c.status \notin {"orphan", "stray"} /\ CallFails(c))

RaftFairness ==
    \A i \in Server :
        /\ WF_raftVars(RunStep(i))
        /\ WF_raftVars(ElectionTimeout(i) \/ CandidateTimeout(i))
        /\ \A kind \in {"vote", "append"} : WF_raftVars(CallOfEnds(i, kind))
        /\ WF_raftVars(\E c \in calls : c.to = i
               /\ (RequestVoteDecide(c) \/ AppendEntriesLog(c)))

RaftFairSpec == RaftSpec /\ RaftFairness

-----------------------------------------------------------------------------
(***************************************************************************)
(* ElectedByMajority: "Majority quorum required for leader election"       *)
(* (README.md).  Whoever becomes leader for a candidacy was given the      *)
(* votes of a majority in that candidacy's term, however late the replies  *)
(* and whatever happened to the server meanwhile.                          *)
(***************************************************************************)
ElectedByMajority ==
    \A w \in winners :
        2 * Cardinality({v \in Server : <<v, w[1], w[2]>> \in grants}) > Cardinality(Server)

(***************************************************************************)
(* KnownLeadersWereElected: a leader ID that a server reports (GetLeaderID *)
(* and the API's getLeader) is that of a server that did win an election.  *)
(***************************************************************************)
KnownLeadersWereElected ==
    \A i \in Server : leaderID[i] # NoServer => \E t \in 1..MaxTerm : <<leaderID[i], t>> \in winners

(***************************************************************************)
(* LogMatching: "Log replication with term-based consistency" (README.md): *)
(* two logs that have an entry of the same term at the same index are      *)
(* equal up to it, in whatever order requests that overlap are handled.    *)
(***************************************************************************)
LogMatching ==
    \A i, j \in Server :
        \A k \in 1..Len(log[i]) \cap 1..Len(log[j]) :
            log[i][k].Term = log[j][k].Term => SubSeq(log[i], 1, k) = SubSeq(log[j], 1, k)

(***************************************************************************)
(* AppliedInOrder: applyLoop hands an entry to applyFunc only if its index *)
(* is higher than that of every entry applied before, whatever becomes of  *)
(* commitIndex and of the log meanwhile: no command is applied twice.      *)
(***************************************************************************)
AppliedInOrder ==
    [][\A i \in Server :
          ApplyOne(i) /\ applyNext[i] <= Len(log[i]) => lastApplied'[i] > lastApplied[i]]_raftVars

(***************************************************************************)
(* EntriesKeepIndex: an entry sits in every log, and is handed to          *)
(* applyFunc, at the index that Propose returned for it, although a        *)
(* request's PrevLogIndex, PrevLogTerm and Entries are read from a log     *)
(* that may be truncated and grow again in between.  Get, TermAt and       *)
(* EntriesAfter take entries[index-1] for the entry of that index, and     *)
(* nextIndex and matchIndex are computed from the Index of the last entry. *)
(***************************************************************************)
EntriesKeepIndex ==
    /\ \A i \in Server : \A k \in 1..Len(log[i]) : log[i][k].Index = k
    /\ \A a \in applied : a[2].Index = a[1]

\* No other server has ever won an election, in whatever term.
OnlyWinner(l) == \A w \in winners : w[1] = l

(***************************************************************************)
(* LogsFollowTheLeader: as long as only one server has won elections,      *)
(* every log agrees with that server's entry by entry: calls that overlap, *)
(* fail, arrive late or out of order, candidates that lose, a leader that  *)
(* is deposed and wins again, and Propose calls that end after it was      *)
(* deposed change nothing of that.                                         *)
(***************************************************************************)
LogsFollowTheLeader ==
    \A l \in Server : OnlyWinner(l) =>
        \A i \in Server : \A k \in 1..Len(log[i]) :
            k \in 1..Len(log[l]) /\ log[i][k] = log[l][k]

(***************************************************************************)
(* AppliedStaysCommitted: as long as only one server has won elections,    *)
(* what any server has handed to applyFunc is, and stays, in that server's *)
(* log at or below its commit index; so no two servers apply different     *)
(* entries of one index.  A follower's commit index may fall: LeaderCommit *)
(* is read after the entries and may lie beyond the last of them.          *)
(***************************************************************************)
AppliedStaysCommitted ==
    \A l \in Server : OnlyWinner(l) =>
        \A a \in applied :
            a[1] <= commitIndex[l] /\ a[1] <= Len(log[l]) /\ a[2] = log[l][a[1]]

(***************************************************************************)
(* CandidaciesEnd: a candidate does not wait for votes for ever, even when *)
(* a handler has replaced the timer it waits for.                          *)
(***************************************************************************)
CandidaciesEnd ==
    \A i \in Server : []<>(pc[i] # "gather")

(***************************************************************************)
(* DeposedLeadersStop: a leader that a reply or a request turned into a    *)
(* follower does not stay in the loop of runLeader.                        *)
(***************************************************************************)
DeposedLeadersStop ==
    \A i \in Server :
        []<>(pc[i] \notin {"lead", "commit", "leadCheck"} \/ state[i] = "Leader")

(***************************************************************************)
(* OneVotePerTerm: votedFor is "the node this node voted for in current    *)
(* term" (state.go): no server gives votes to two candidates in one term.  *)
(***************************************************************************)
OneVotePerTerm ==
    \A g, h \in grants : g[1] = h[1] /\ g[3] = h[3] => g[2] = h[2]

(***************************************************************************)
(* FollowersStartElections: "Nodes start as followers and trigger          *)
(* elections when heartbeats timeout" (README.md): a follower whose timer  *)
(* is not reset any more by a handler does not stay in runFollower.        *)
(***************************************************************************)
HandlerResetsTimer(i) ==
    \E c \in calls : c.to = i /\ (AppendEntriesTerm(c) \/ RequestVoteDecide(c))

FollowersStartElections ==
    \A i \in Server :
        <>[][~HandlerResetsTimer(i)]_raftVars => []<>(pc[i] # "follower")

=============================================================================
