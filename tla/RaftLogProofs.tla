--------------------------- MODULE RaftLogProofs ----------------------------
(***************************************************************************)
(* The replication of the log for any number of servers, terms, entries    *)
(* and calls in flight: every variable keeps its type, entries keep their  *)
(* index, and as long as only one server has won elections every log       *)
(* agrees with its log and every entry applied stays committed there.      *)
(***************************************************************************)
EXTENDS RaftProofs, WellFoundedInduction

(* The calls after a step *)

\* The same request, whatever became of it.
SameRequest(d, c) ==
    /\ d.kind = c.kind /\ d.from = c.from /\ d.to = c.to /\ d.term = c.term
    /\ d.index = c.index /\ d.logTerm = c.logTerm /\ d.entries = c.entries /\ d.commit = c.commit

\* d is the call c after one more read of its goroutine.
ReadFor(d, c) ==
    /\ d.kind = c.kind /\ d.from = c.from /\ d.to = c.to /\ d.term = c.term
    /\ d.replyTerm = c.replyTerm /\ d.ok = c.ok /\ d.status # "new"
    /\ \/ /\ c.kind = "vote" /\ d.entries = c.entries /\ d.commit = c.commit
          /\ d.index = LastIndex(log[c.from]) /\ d.logTerm = LastTerm(log[c.from])
       \/ /\ c.kind = "append" /\ c.status = "new" /\ d.index = nextIndex[c.from][c.to] - 1
          /\ d.logTerm = c.logTerm /\ d.entries = c.entries /\ d.commit = c.commit
       \/ /\ c.kind = "append" /\ d.logTerm = TermAt(log[c.from], c.index)
          /\ d.index = c.index /\ d.entries = c.entries /\ d.commit = c.commit
       \/ /\ c.kind = "append" /\ d.entries = EntriesAfter(log[c.from], c.index)
          /\ d.index = c.index /\ d.logTerm = c.logTerm /\ d.commit = c.commit
       \/ /\ c.kind = "append" /\ d.commit = commitIndex[c.from]
          /\ d.index = c.index /\ d.logTerm = c.logTerm /\ d.entries = c.entries

\* Where the calls after a step come from.
Origin(d) ==
    \/ d \in calls
    \/ \E i \in Server : /\ pc[i] \in {"request", "leader", "lead"}
                         /\ \E j \in Peers(i), kind \in {"vote", "append"},
                               t \in {term[i], currentTerm[i]} : d = NewCall(kind, i, j, t)
    \/ \E c \in calls : /\ SameRequest(d, c) /\ d.status # "new"
                        /\ d.replyTerm \in {c.replyTerm, c.term, currentTerm[c.to]}
                        /\ d.ok = c.ok \/ d.ok \in BOOLEAN
    \/ \E c \in calls : ReadFor(d, c)

LEMMA StatusKeepsRequest ==
    ASSUME NEW c \in calls, Shaped(c), NEW s, s # "new"
    PROVE  Origin([c EXCEPT !.status = s])
<1> DEFINE d == [c EXCEPT !.status = s]
<1>1. SameRequest(d, c) /\ d.replyTerm = c.replyTerm /\ d.ok = c.ok /\ d.status # "new"
  BY Zenon DEF SameRequest, Shaped, Fields
<1> HIDE DEF d
<1>2. Origin(d)
  BY <1>1, Zenon DEF Origin
<1> QED
  BY <1>2 DEF d

LEMMA AnswerOrigin ==
    ASSUME NEW c \in calls, CallOK(c), NEW t \in {c.term, currentTerm[c.to]}, NEW ok \in BOOLEAN,
           Answer(c, t, ok), NEW d \in calls'
    PROVE  Origin(d)
<1> DEFINE e == [c EXCEPT !.status = "replied", !.replyTerm = t, !.ok = ok]
<1>1. d \in calls \/ d = e
  BY Zenon DEF Answer, Replace, Lose
<1>2. SameRequest(e, c) /\ e.replyTerm = t /\ e.ok = ok /\ e.status # "new"
  BY Zenon DEF SameRequest, CallOK, Shaped, Fields
<1> HIDE DEF e
<1> QED
  BY <1>1, <1>2, Zenon DEF Origin

LEMMA SendOrigin ==
    ASSUME NEW c \in calls, CallOK(c), SendVoteRequest(c) \/ SendAppend(c), NEW d \in calls'
    PROVE  Origin(d)
<1> SUFFICES ASSUME d \notin calls PROVE ReadFor(d, c)
  BY Zenon DEF Origin
<1>1. CASE SendVoteRequest(c)
  <2>1. /\ c.kind = "vote"
        /\ d = [c EXCEPT !.status = "sent", !.index = LastIndex(log[c.from]),
                         !.logTerm = LastTerm(log[c.from])]
    BY <1>1, Zenon DEF SendVoteRequest, Replace
  <2> QED
    BY <2>1, Zenon DEF ReadFor, CallOK, Shaped, Fields
<1>2. CASE SendAppend(c)
  <2>1. CASE ReadNextIndex(c)
    <3>1. /\ c.kind = "append" /\ c.status = "new"
          /\ d = [c EXCEPT !.status = "indexRead", !.index = nextIndex[c.from][c.to] - 1]
      BY <2>1, Zenon DEF ReadNextIndex, Replace, AppendCall
    <3> QED
      BY <3>1, Zenon DEF ReadFor, CallOK, Shaped, Fields
  <2>2. CASE ReadPrevLogTerm(c)
    <3>1. /\ c.kind = "append"
          /\ d = [c EXCEPT !.status = "termRead", !.logTerm = TermAt(log[c.from], c.index)]
      BY <2>2, Zenon DEF ReadPrevLogTerm, Replace, AppendCall
    <3> QED
      BY <3>1, Zenon DEF ReadFor, CallOK, Shaped, Fields
  <2>3. CASE ReadEntries(c)
    <3>1. /\ c.kind = "append"
          /\ d = [c EXCEPT !.status = "entriesRead",
                           !.entries = EntriesAfter(log[c.from], c.index)]
      BY <2>3, Zenon DEF ReadEntries, Replace, AppendCall
    <3> QED
      BY <3>1, Zenon DEF ReadFor, CallOK, Shaped, Fields
  <2>4. CASE SendAppendRequest(c)
    <3>1. /\ c.kind = "append"
          /\ d = [c EXCEPT !.status = "sent", !.commit = commitIndex[c.from]]
      BY <2>4, Zenon DEF SendAppendRequest, Replace, AppendCall
    <3> QED
      BY <3>1, Zenon DEF ReadFor, CallOK, Shaped, Fields
  <2> QED
    BY <1>2, <2>1, <2>2, <2>3, <2>4 DEF SendAppend
<1> QED
  BY <1>1, <1>2

\* Every call after a step was there before, is new, or is a call that went on.
LEMMA CallOrigins ==
    ASSUME ElectionInv, [RaftNext]_raftVars, NEW d \in calls'
    PROVE  Origin(d)
<1>0. CallsOK
  BY DEF ElectionInv
<1>old. d \in calls => Origin(d)
  BY DEF Origin
<1>1. ASSUME calls' \subseteq calls PROVE Origin(d)
  BY <1>old, <1>1
<1>2. ASSUME NEW i \in Server,
             \/ RunStep(i) \/ ElectionTimeout(i) \/ CandidateTimeout(i)
             \/ ApplyBegin(i) \/ ApplyOne(i) \/ Propose(i)
      PROVE  Origin(d)
  <2>1. CASE RequestVotes(i)
    <3>1. d \in calls \/ \E j \in Peers(i) : d = NewCall("vote", i, j, term[i])
      BY <2>1, Zenon DEF RequestVotes
    <3>2. pc[i] = "request"
      BY <2>1 DEF RequestVotes, Goto
    <3> QED
      BY <3>1, <3>2, Zenon DEF Origin
  <2>2. CASE RunLeader(i) \/ HeartbeatTick(i)
    <3>1. d \in calls \/ \E j \in Peers(i) : d = NewCall("append", i, j, currentTerm[i])
      BY <2>2, Zenon DEF RunLeader, HeartbeatTick, SendHeartbeats
    <3>2. pc[i] \in {"leader", "lead"}
      BY <2>2 DEF RunLeader, HeartbeatTick, Goto
    <3> QED
      BY <3>1, <3>2, Zenon DEF Origin
  <2>3. CASE CandidateTimeout(i)
    <3> SUFFICES ASSUME d \notin calls PROVE Origin(d)
      BY DEF Origin
    <3>1. PICK c \in calls : /\ d = Cancelled(c)
                            /\ c.status \in {"sent", "handling", "replied"}
      BY <2>3, Zenon DEF CandidateTimeout, Cancel, Outstanding
    <3>2. \E x \in {"orphan", "handledOrphan", "stray"} : d = [c EXCEPT !.status = x]
      BY <3>1 DEF Cancelled
    <3>3. Shaped(c)
      BY <1>0 DEF CallsOK, CallOK
    <3> QED
      BY <3>2, <3>3, StatusKeepsRequest
  <2>4. CASE ~(RequestVotes(i) \/ RunLeader(i) \/ HeartbeatTick(i) \/ CandidateTimeout(i))
    <3>1. calls' = calls
      BY <1>2, <2>4, Zenon DEF RunStep, Run, SetCandidate, BecomeCandidate, VoteForSelf, VotesAreIn,
           BecomeLeader, LoseElection, UpdateCommitIndexRead, UpdateCommitIndexSet, LeaderCheck,
           ElectionTimeout, ApplyBegin, ApplyOne,
         Propose, ProposeRole, ProposeTerm, ProposeAppend
    <3> QED
      BY <1>1, <3>1
  <2> QED
    BY <2>1, <2>2, <2>3, <2>4
<1>3. ASSUME NEW c \in calls,
             \/ SendVoteRequest(c) \/ VoteReply(c)
             \/ SendAppend(c) \/ AppendReply(c) \/ AppendReplyStepDown(c)
             \/ HandlerStep(c) \/ ContextExpires(c) \/ CallFails(c)
      PROVE  Origin(d)
  <2>0. CallOK(c) /\ Shaped(c)
    BY <1>0 DEF CallsOK, CallOK
  <2>1. CASE SendVoteRequest(c) \/ SendAppend(c)
    BY <2>0, <2>1, SendOrigin
  <2>2. CASE VoteReply(c) \/ AppendReply(c) \/ AppendReplyStepDown(c) \/ CallFails(c)
    <3>1. calls' = calls \ {c}
      BY <2>2, Zenon DEF VoteReply, AppendReply, AppendReplyStepDown, CallFails, Lose
    <3> QED
      BY <1>1, <3>1
  <2>3. CASE HandlerStep(c)
    <3>1. \/ \E t \in {c.term, currentTerm[c.to]}, ok \in BOOLEAN : Answer(c, t, ok)
          \/ Enter(c)
      BY <2>3, Zenon DEF HandlerStep, RequestVoteTerm, RequestVoteDecide, AppendEntriesTerm,
                         AppendEntriesLog
    <3>2. CASE Enter(c)
      <4>1. d \in calls \/ \E s \in {"handling", "handledOrphan"} : d = [c EXCEPT !.status = s]
        BY <3>2, Zenon DEF Enter, Replace
      <4> QED
        BY <1>old, <2>0, <4>1, StatusKeepsRequest
    <3> QED
      BY <2>0, <3>1, <3>2, AnswerOrigin
  <2>4. CASE ContextExpires(c)
    <3>1. d \in calls \/ \E s \in {"orphan", "handledOrphan"} : d = [c EXCEPT !.status = s]
      BY <2>4 DEF ContextExpires, Cancelled, Replace
    <3> QED
      BY <1>old, <2>0, <3>1, StatusKeepsRequest
  <2> QED
    BY <1>3, <2>1, <2>2, <2>3, <2>4
<1>4. CASE UNCHANGED raftVars
  BY <1>1, <1>4 DEF raftVars
<1> QED
  BY <1>2, <1>3, <1>4 DEF RaftNext

-----------------------------------------------------------------------------
(* Types *)

LEMMA LeastNatural ==
    ASSUME NEW T \in SUBSET Nat, T # {}
    PROVE  \E x \in T : \A y \in T : x <= y
<1> DEFINE R == {ss \in Nat \X Nat : ss[1] < ss[2]}
<1>1. IsWellFoundedOn(R, Nat)
  BY NatLessThanWellFounded, Zenon DEF OpToRel
<1> HIDE DEF R
<1>2. PICK x \in T : \A y \in T : ~(<<y, x>> \in R)
  BY <1>1, WFMin, Zenon
<1>3. ASSUME NEW y \in T PROVE x <= y
  <2>1. ~(y < x)
    BY <1>2, Zenon DEF R
  <2>2. x \in Nat /\ y \in Nat
    BY Zenon
  <2> QED
    BY <2>1, <2>2
<1> QED
  BY <1>3

LEMMA GreatestUpTo ==
    ASSUME NEW N \in Nat, NEW T \in SUBSET (0..N), T # {}
    PROVE  \E x \in T : \A y \in T : y <= x
<1> DEFINE U == {N - x : x \in T}
<1>1. U \in SUBSET Nat /\ U # {}
  <2>1. \A x \in T : N - x \in Nat
    OBVIOUS
  <2> QED
    BY <2>1, Zenon
<1> HIDE DEF U
<1>2. PICK u \in U : \A v \in U : u <= v
  BY <1>1, LeastNatural
<1> USE DEF U
<1>3. PICK x \in T : u = N - x
  OBVIOUS
<1>4. ASSUME NEW y \in T PROVE y <= x
  <2>1. N - x <= N - y
    BY <1>2, <1>3, Zenon
  <2>2. x \in 0..N /\ y \in 0..N
    BY Zenon
  <2> HIDE DEF U
  <2> QED
    BY <2>1, <2>2
<1> QED
  BY <1>4

\* Terms stay within the bound, and whom a server votes for is a server.
TermTypes ==
    /\ currentTerm \in [Server -> 0..MaxTerm] /\ term \in [Server -> 0..MaxTerm]
    /\ votedFor \in [Server -> Server \cup {NoServer}]
    /\ \A c \in calls : c.term \in 0..MaxTerm /\ c.replyTerm \in 0..MaxTerm

LEMMA CallTerms ==
    ASSUME ElectionInv, TermTypes, [RaftNext]_raftVars, NEW d \in calls'
    PROVE  d.term \in 0..MaxTerm /\ d.replyTerm \in 0..MaxTerm
<1>1. \A c \in calls : /\ c.term \in 0..MaxTerm /\ c.replyTerm \in 0..MaxTerm
                       /\ currentTerm[c.to] \in 0..MaxTerm
  BY DEF TermTypes, ElectionInv, CallsOK, CallOK
<1>2. ASSUME NEW i \in Server, NEW j, NEW kind, NEW t \in {term[i], currentTerm[i]},
             d = NewCall(kind, i, j, t)
      PROVE  d.term \in 0..MaxTerm /\ d.replyTerm \in 0..MaxTerm
  <2>1. d.term = t /\ d.replyTerm = 0
    BY <1>2, NewCallFields
  <2> QED
    BY <1>2, <2>1, RaftAssumption DEF TermTypes
<1>3. Origin(d)
  BY CallOrigins
<1> QED
  BY <1>1, <1>2, <1>3, Zenon DEF Origin, SameRequest, ReadFor

LEMMA NextTermTypes ==
    ASSUME ElectionInv, TermTypes, [RaftNext]_raftVars
    PROVE  TermTypes'
<1> USE DEF termVars, candidateVars
<1>0. \A d \in calls' : d.term \in 0..MaxTerm /\ d.replyTerm \in 0..MaxTerm
  BY CallTerms
<1>1. SUFFICES /\ currentTerm' \in [Server -> 0..MaxTerm] /\ term' \in [Server -> 0..MaxTerm]
               /\ votedFor' \in [Server -> Server \cup {NoServer}]
  BY <1>0 DEF TermTypes
<1>2. /\ currentTerm \in [Server -> 0..MaxTerm] /\ term \in [Server -> 0..MaxTerm]
      /\ votedFor \in [Server -> Server \cup {NoServer}]
  BY DEF TermTypes
<1>3. ASSUME NEW j \in Server, NEW t \in 0..MaxTerm, NEW l, BecomeFollower(j, t, l), term' = term
      PROVE  /\ currentTerm' \in [Server -> 0..MaxTerm] /\ term' \in [Server -> 0..MaxTerm]
             /\ votedFor' \in [Server -> Server \cup {NoServer}]
  BY <1>2, <1>3 DEF BecomeFollower
<1>4. ASSUME NEW i \in Server,
             \/ RunStep(i) \/ ElectionTimeout(i) \/ CandidateTimeout(i)
             \/ ApplyBegin(i) \/ ApplyOne(i) \/ Propose(i)
      PROVE  /\ currentTerm' \in [Server -> 0..MaxTerm] /\ term' \in [Server -> 0..MaxTerm]
             /\ votedFor' \in [Server -> Server \cup {NoServer}]
  <2>1. CASE BecomeCandidate(i)
    <3>1. currentTerm[i] + 1 \in 0..MaxTerm
      BY <1>2, <2>1, RaftAssumption DEF BecomeCandidate
    <3> QED
      BY <1>2, <2>1, <3>1 DEF BecomeCandidate
  <2>2. CASE VoteForSelf(i)
    BY <1>2, <2>2 DEF VoteForSelf
  <2>3. CASE ~(BecomeCandidate(i) \/ VoteForSelf(i))
    <3>1. UNCHANGED <<currentTerm, votedFor, term>>
      BY <1>4, <2>3, Zenon DEF RunStep, Run, SetCandidate, RequestVotes, VotesAreIn, BecomeLeader,
           LoseElection, RunLeader, HeartbeatTick, UpdateCommitIndexRead, UpdateCommitIndexSet,
           LeaderCheck, ElectionTimeout, CandidateTimeout, ApplyBegin, ApplyOne,
         Propose, ProposeRole, ProposeTerm, ProposeAppend
    <3> QED
      BY <1>2, <3>1
  <2> QED
    BY <2>1, <2>2, <2>3
<1>5. ASSUME NEW c \in calls,
             \/ SendVoteRequest(c) \/ VoteReply(c)
             \/ SendAppend(c) \/ AppendReply(c) \/ AppendReplyStepDown(c)
             \/ HandlerStep(c) \/ ContextExpires(c) \/ CallFails(c)
      PROVE  /\ currentTerm' \in [Server -> 0..MaxTerm] /\ term' \in [Server -> 0..MaxTerm]
             /\ votedFor' \in [Server -> Server \cup {NoServer}]
  <2>0. /\ c.from \in Server /\ c.to \in Server
        /\ c.term \in 0..MaxTerm /\ c.replyTerm \in 0..MaxTerm
    BY DEF TermTypes, ElectionInv, CallsOK, CallOK
  <2>1. term' = term
    BY <1>5, Zenon DEF SendVoteRequest, VoteReply, SendAppend, ReadNextIndex,
         ReadPrevLogTerm, ReadEntries, SendAppendRequest, AppendReply,
         AppendReplyStepDown, HandlerStep, RequestVoteTerm, RequestVoteDecide, AppendEntriesTerm,
         AppendEntriesLog, ContextExpires, CallFails
  <2>2. \/ UNCHANGED <<currentTerm, votedFor>>
        \/ UNCHANGED currentTerm /\ votedFor' = [votedFor EXCEPT ![c.to] = c.from]
        \/ \E j \in {c.from, c.to}, t \in {c.term, c.replyTerm}, l \in {NoServer, c.from} :
              BecomeFollower(j, t, l)
    BY <1>5, Zenon DEF SendVoteRequest, VoteReply, SendAppend, ReadNextIndex,
         ReadPrevLogTerm, ReadEntries, SendAppendRequest, AppendReply,
         AppendReplyStepDown, HandlerStep, RequestVoteTerm, RequestVoteDecide, AppendEntriesTerm,
         AppendEntriesLog, ContextExpires, CallFails
  <2>3. CASE UNCHANGED currentTerm /\ votedFor' = [votedFor EXCEPT ![c.to] = c.from]
    BY <1>2, <2>0, <2>1, <2>3
  <2> QED
    BY <1>2, <1>3, <2>0, <2>1, <2>2, <2>3, Zenon
<1>6. CASE UNCHANGED raftVars
  BY <1>2, <1>6 DEF raftVars
<1> QED
  BY <1>4, <1>5, <1>6 DEF RaftNext

TimerTypes ==
    armed \in [Server -> BOOLEAN] /\ stale \in [Server -> BOOLEAN] /\ commitCh \in [Server -> BOOLEAN]

LEMMA NextTimerTypes ==
    ASSUME ElectionInv, TimerTypes, [RaftNext]_raftVars
    PROVE  TimerTypes'
<1> USE DEF timerVars, leaderVars
<1>0. \A c \in calls : c.from \in Server /\ c.to \in Server
  BY DEF ElectionInv, CallsOK, CallOK
<1>1. ASSUME UNCHANGED <<armed, stale, commitCh>> PROVE TimerTypes'
  BY <1>1 DEF TimerTypes
<1>2. ASSUME NEW j \in Server, ResetElectionTimer(j), UNCHANGED commitCh PROVE TimerTypes'
  <2>1. Waiting(j) \in BOOLEAN
    BY DEF Waiting
  <2> QED
    BY <1>2, <2>1, Zenon DEF TimerTypes, ResetElectionTimer
<1>3. ASSUME NEW j \in Server, NEW b \in BOOLEAN,
             \/ armed' = [armed EXCEPT ![j] = b] /\ UNCHANGED <<stale, commitCh>>
             \/ stale' = [stale EXCEPT ![j] = b] /\ UNCHANGED <<armed, commitCh>>
             \/ commitCh' = [commitCh EXCEPT ![j] = b] /\ UNCHANGED <<armed, stale>>
      PROVE  TimerTypes'
  BY <1>3, Zenon DEF TimerTypes
<1>4. ASSUME NEW i \in Server,
             \/ RunStep(i) \/ ElectionTimeout(i) \/ CandidateTimeout(i)
             \/ ApplyBegin(i) \/ ApplyOne(i) \/ Propose(i)
      PROVE  TimerTypes'
  <2>1. CASE VoteForSelf(i) \/ LoseElection(i)
    BY <1>2, <2>1, Zenon DEF VoteForSelf, LoseElection
  <2>2. CASE Run(i) \/ VotesAreIn(i) \/ UpdateCommitIndexRead(i) \/ ElectionTimeout(i) \/ CandidateTimeout(i)
    BY <1>3, <2>2, Zenon DEF Run, VotesAreIn, UpdateCommitIndexRead, ElectionTimeout, CandidateTimeout
  <2>3. CASE ~(\/ VoteForSelf(i) \/ LoseElection(i) \/ Run(i) \/ VotesAreIn(i)
               \/ UpdateCommitIndexRead(i) \/ ElectionTimeout(i) \/ CandidateTimeout(i))
    BY <1>1, <1>4, <2>3, Zenon DEF RunStep, SetCandidate, BecomeCandidate, RequestVotes, BecomeLeader,
         RunLeader, HeartbeatTick, UpdateCommitIndexSet, LeaderCheck, ApplyBegin, ApplyOne,
         Propose, ProposeRole, ProposeTerm, ProposeAppend
  <2> QED
    BY <2>1, <2>2, <2>3
<1>5. ASSUME NEW c \in calls,
             \/ SendVoteRequest(c) \/ VoteReply(c)
             \/ SendAppend(c) \/ AppendReply(c) \/ AppendReplyStepDown(c)
             \/ HandlerStep(c) \/ ContextExpires(c) \/ CallFails(c)
      PROVE  TimerTypes'
  <2>1. CASE RequestVoteDecide(c) \/ AppendEntriesTerm(c)
    BY <1>0, <1>1, <1>2, <2>1, Zenon DEF RequestVoteDecide, AppendEntriesTerm
  <2>2. CASE AppendReply(c)
    BY <1>0, <1>1, <1>3, <2>2, Zenon DEF AppendReply
  <2>3. CASE ~(RequestVoteDecide(c) \/ AppendEntriesTerm(c) \/ AppendReply(c))
    BY <1>1, <1>5, <2>3, Zenon DEF SendVoteRequest, VoteReply, SendAppend, ReadNextIndex,
         ReadPrevLogTerm, ReadEntries, SendAppendRequest,
         AppendReplyStepDown, HandlerStep, RequestVoteTerm, AppendEntriesLog, ContextExpires, CallFails
  <2> QED
    BY <2>1, <2>2, <2>3
<1>6. CASE UNCHANGED raftVars
  BY <1>1, <1>6 DEF raftVars
<1> QED
  BY <1>4, <1>5, <1>6 DEF RaftNext

\* No server counts more votes than there are servers.
VotesBounded == \A i \in Server : votes[i] <= Cardinality(Server)

LEMMA NextVotesBounded ==
    ASSUME ElectionInv, VotesBounded, [RaftNext]_raftVars, ElectionInv'
    PROVE  VotesBounded'
<1> SUFFICES ASSUME NEW i \in Server PROVE votes'[i] <= Cardinality(Server)
  BY DEF VotesBounded
<1> USE DEF candidateVars
<1>0. votes \in [Server -> Nat] /\ pc \in [Server -> PC] /\ votes[i] <= Cardinality(Server)
  BY DEF ElectionInv, ControlOK, VotesBounded
<1>1. CASE votes'[i] = votes[i]
  BY <1>0, <1>1
<1>2. CASE votes'[i] # votes[i]
  <2>1. pc'[i] = "gather"
    <3>1. CASE RequestVotes(i)
      BY <1>0, <3>1 DEF RequestVotes, Goto
    <3>2. ASSUME NEW c \in calls, VoteReply(c) PROVE pc'[i] = "gather"
      <4>1. c.ok /\ c.status = "replied" /\ c.from = i /\ Open(c) /\ pc' = pc
        BY <1>0, <1>2, <3>2 DEF VoteReply, Open
      <4> QED
        BY <4>1 DEF ElectionInv, OneOpenCall
    <3>3. ASSUME NEW j \in Server, RequestVotes(j) PROVE j = i
      BY <1>0, <1>2, <3>3 DEF RequestVotes
    <3>4. \/ \E j \in Server : RequestVotes(j)
          \/ \E c \in calls : VoteReply(c)
          \/ votes' = votes
      <4>1. ASSUME NEW j \in Server,
                   \/ RunStep(j) \/ ElectionTimeout(j) \/ CandidateTimeout(j)
                   \/ ApplyBegin(j) \/ ApplyOne(j) \/ Propose(j)
            PROVE  RequestVotes(j) \/ votes' = votes
        BY <4>1, Zenon DEF RunStep, Run, SetCandidate, BecomeCandidate, VoteForSelf, VotesAreIn,
             BecomeLeader, LoseElection, RunLeader, HeartbeatTick, UpdateCommitIndexRead,
             UpdateCommitIndexSet, LeaderCheck, ElectionTimeout, CandidateTimeout, ApplyBegin,
             ApplyOne,
         Propose, ProposeRole, ProposeTerm, ProposeAppend
      <4>2. ASSUME NEW c \in calls,
                   \/ SendVoteRequest(c) \/ VoteReply(c)
                   \/ SendAppend(c) \/ AppendReply(c) \/ AppendReplyStepDown(c)
                   \/ HandlerStep(c) \/ ContextExpires(c) \/ CallFails(c)
            PROVE  VoteReply(c) \/ votes' = votes
        BY <4>2, Zenon DEF SendVoteRequest, SendAppend, ReadNextIndex,
         ReadPrevLogTerm, ReadEntries, SendAppendRequest, AppendReply, AppendReplyStepDown,
             HandlerStep, RequestVoteTerm, RequestVoteDecide, AppendEntriesTerm, AppendEntriesLog,
             ContextExpires, CallFails
      <4> QED
        BY <4>1, <4>2, Zenon DEF RaftNext, raftVars
    <3> QED
      BY <1>2, <3>1, <3>2, <3>3, <3>4
  <2> DEFINE B == Voters(i, term[i])' \ Asked(i)'
  <2>2. votes'[i] <= Cardinality(B) /\ votes'[i] \in Nat
    BY <2>1, Zenon DEF ElectionInv, VotesAreGrants, ControlOK, Voters
  <2>3. B \subseteq Server
    BY DEF Voters
  <2> HIDE DEF B
  <2>4. Cardinality(B) <= Cardinality(Server) /\ Cardinality(B) \in Nat /\ Cardinality(Server) \in Nat
    BY <2>3, RaftAssumption, FS_Subset, FS_CardinalityType
  <2> QED
    BY <2>2, <2>4
<1> QED
  BY <1>1, <1>2

\* What a call carries of its sender's log, within the bound.
CallLogOK(c) ==
    /\ c.index \in Nat /\ c.logTerm \in Nat /\ c.entries \in Seq(Entry)
    /\ c.commit \in 0..MaxLog /\ c.ok \in BOOLEAN
    /\ c.kind = "append" => c.index + Len(c.entries) <= MaxLog
    /\ c.status = "new" => c.entries = << >>

\* The logs and the indexes into them.
LogTypes ==
    /\ log \in [Server -> Seq(Entry)] /\ \A i \in Server : Len(log[i]) <= MaxLog
    /\ commitIndex \in [Server -> 0..MaxLog] /\ newCommit \in [Server -> 0..MaxLog]
    /\ nextIndex \in [Server -> [Server -> 1..(MaxLog + 1)]]
    /\ matchIndex \in [Server -> [Server -> 0..MaxLog]]
    /\ \A c \in calls : CallLogOK(c)

LEMMA TermAtType ==
    ASSUME NEW l \in Seq(Entry), NEW k \in Int
    PROVE  TermAt(l, k) \in Nat
<1>1. ASSUME k \in 1..Len(l) PROVE l[k].Term \in Nat
  <2>1. l[k] \in Entry
    BY <1>1
  <2> QED
    BY <2>1 DEF Entry
<1> QED
  BY <1>1 DEF TermAt

LEMMA EntriesAfterType ==
    ASSUME NEW l \in Seq(Entry), NEW k \in Nat
    PROVE  /\ EntriesAfter(l, k) \in Seq(Entry)
           /\ k < Len(l) => Len(EntriesAfter(l, k)) = Len(l) - k
           /\ k >= Len(l) => Len(EntriesAfter(l, k)) = 0
<1>1. k + 1 \in 1..(Len(l) + 1) \/ k + 1 > Len(l)
  OBVIOUS
<1> QED
  BY <1>1 DEF EntriesAfter

LEMMA ReadLogOK ==
    ASSUME ElectionInv, LogTypes, NEW c \in calls, NEW d, ReadFor(d, c)
    PROVE  CallLogOK(d)
<1> DEFINE i == c.from
           l == log[i]
           prev == nextIndex[i][c.to] - 1
<1>0. /\ c.from \in Server /\ c.to \in Server /\ CallLogOK(c)
      /\ c.index \in Nat /\ c.logTerm \in Nat /\ c.entries \in Seq(Entry)
      /\ c.commit \in 0..MaxLog /\ c.ok \in BOOLEAN
      /\ c.kind = "append" => c.index + Len(c.entries) <= MaxLog
      /\ c.status = "new" => c.entries = << >>
  BY DEF ElectionInv, CallsOK, CallOK, LogTypes, CallLogOK
<1>1. l \in Seq(Entry) /\ Len(l) \in Nat /\ Len(l) <= MaxLog /\ commitIndex[i] \in 0..MaxLog
  BY <1>0 DEF LogTypes
<1>2. prev \in 0..MaxLog
  <2>1. nextIndex[i][c.to] \in 1..(MaxLog + 1)
    BY <1>0, Zenon DEF LogTypes
  <2> QED
    BY <2>1, RaftAssumption
<1> HIDE DEF i, l, prev
<1> DEFINE x == c.index
           e == EntriesAfter(l, x)
<1>a. x \in Nat /\ x \in Int
  BY <1>0
<1> HIDE DEF x
<1>b. TermAt(l, x) \in Nat /\ LastIndex(l) \in Nat /\ LastTerm(l) \in Nat
  BY <1>1, <1>a, TermAtType DEF LastIndex, LastTerm
<1>c. /\ e \in Seq(Entry)
      /\ x < Len(l) => Len(e) = Len(l) - x
      /\ x >= Len(l) => Len(e) = 0
  BY <1>1, <1>a, EntriesAfterType, Zenon
<1> HIDE DEF e
<1>3. d.kind = c.kind /\ d.ok \in BOOLEAN /\ d.status # "new"
  BY <1>0 DEF ReadFor
<1>4. CASE /\ c.kind = "vote" /\ d.entries = c.entries /\ d.commit = c.commit
           /\ d.index = LastIndex(l) /\ d.logTerm = LastTerm(l)
  BY <1>0, <1>3, <1>4, <1>b DEF CallLogOK
<1>5. CASE /\ c.kind = "append" /\ c.status = "new" /\ d.index = prev
           /\ d.logTerm = c.logTerm /\ d.entries = c.entries /\ d.commit = c.commit
  BY <1>0, <1>2, <1>3, <1>5, RaftAssumption DEF CallLogOK
<1>6. CASE /\ c.kind = "append" /\ d.logTerm = TermAt(l, c.index)
           /\ d.index = c.index /\ d.entries = c.entries /\ d.commit = c.commit
  BY <1>0, <1>3, <1>6, <1>b DEF CallLogOK, x
<1>7. CASE /\ c.kind = "append" /\ d.entries = EntriesAfter(l, c.index)
           /\ d.index = c.index /\ d.logTerm = c.logTerm /\ d.commit = c.commit
  <2>1. d.entries = e /\ d.index = x /\ x <= MaxLog
    BY <1>0, <1>7, RaftAssumption DEF e, x
  <2>2. x + Len(e) <= MaxLog
    BY <1>1, <1>a, <1>c, <2>1, RaftAssumption
  <2> QED
    BY <1>0, <1>3, <1>7, <1>c, <2>1, <2>2 DEF CallLogOK
<1>8. CASE /\ c.kind = "append" /\ d.commit = commitIndex[i]
           /\ d.index = c.index /\ d.logTerm = c.logTerm /\ d.entries = c.entries
  BY <1>0, <1>1, <1>3, <1>8 DEF CallLogOK
<1> QED
  BY <1>4, <1>5, <1>6, <1>7, <1>8, Zenon DEF ReadFor, i, l, prev

LEMMA CallLogs ==
    ASSUME ElectionInv, LogTypes, [RaftNext]_raftVars, NEW d \in calls'
    PROVE  CallLogOK(d)
<1>1. ASSUME NEW i, NEW j, NEW kind, NEW t, d = NewCall(kind, i, j, t)
      PROVE  CallLogOK(d)
  <2>1. /\ d.index = 0 /\ d.logTerm = 0 /\ d.entries = << >> /\ d.commit = 0 /\ d.ok = FALSE
    BY <1>1, Zenon DEF NewCall
  <2>2. << >> \in Seq(Entry) /\ Len(<< >>) = 0 /\ 0 <= MaxLog /\ 0 \in 0..MaxLog /\ 0 \in Nat
    BY RaftAssumption
  <2>3. d.index + Len(d.entries) <= MaxLog
    BY <2>1, <2>2
  <2> QED
    BY <2>1, <2>2, <2>3, Zenon DEF CallLogOK
<1>2. ASSUME NEW c \in calls, SameRequest(d, c), d.status # "new",
             d.ok = c.ok \/ d.ok \in BOOLEAN
      PROVE  CallLogOK(d)
  BY <1>2, Zenon DEF LogTypes, CallLogOK, SameRequest
<1>3. Origin(d)
  BY CallOrigins
<1>4. d \in calls => CallLogOK(d)
  BY DEF LogTypes
<1> QED
  BY <1>1, <1>2, <1>3, <1>4, ReadLogOK, Zenon DEF Origin

\* updateCommitIndex finds an index: at least half of the servers have reached 0.
LEMMA CommitCandidateType ==
    ASSUME LogTypes, NEW i \in Server
    PROVE  CommitCandidate(i) \in 0..MaxLog
<1> DEFINE reached(x) == {j \in Peers(i) : matchIndex[i][j] >= x}
                            \cup {j \in {i} : LastIndex(log[i]) >= x}
           enough == {x \in 0..MaxLog : 2 * Cardinality(reached(x)) >= Cardinality(Server)}
<1>1. 0 \in enough
  <2>1. \A j \in Server : matchIndex[i][j] >= 0
    BY DEF LogTypes
  <2>2. LastIndex(log[i]) >= 0
    BY DEF LogTypes, LastIndex
  <2>3. reached(0) = Server
    BY <2>1, <2>2 DEF Peers
  <2>4. Cardinality(Server) \in Nat
    BY RaftAssumption, FS_CardinalityType
  <2>5. 2 * Cardinality(reached(0)) >= Cardinality(Server)
    BY <2>3, <2>4
  <2> QED
    BY <2>5, RaftAssumption
<1>2. enough \in SUBSET (0..MaxLog)
  OBVIOUS
<1>3. CommitCandidate(i) = CHOOSE x \in enough : \A y \in enough : y <= x
  BY Zenon DEF CommitCandidate
<1> HIDE DEF enough
<1>4. \E x \in enough : \A y \in enough : y <= x
  BY <1>1, <1>2, GreatestUpTo, RaftAssumption, Zenon
<1>5. (CHOOSE x \in enough : \A y \in enough : y <= x) \in enough
  BY <1>4, Zenon
<1> QED
  BY <1>2, <1>3, <1>5, Zenon

\* The entries up to index k.
Upto(l, k) == SubSeq(l, 1, k)

LEMMA UptoFacts ==
    ASSUME NEW l \in Seq(Entry), NEW k \in 0..Len(l)
    PROVE  /\ Upto(l, k) \in Seq(Entry) /\ Len(Upto(l, k)) = k
           /\ \A n \in 1..k : Upto(l, k)[n] = l[n]
BY DEF Upto

LEMMA AppendEntriesType ==
    ASSUME NEW l \in Seq(Entry), NEW prev \in Nat, NEW e \in Seq(Entry), Len(l) <= MaxLog,
           prev + Len(e) <= MaxLog
    PROVE  AppendEntries(l, prev, e) \in Seq(Entry) /\ Len(AppendEntries(l, prev, e)) <= MaxLog
<1>1. CASE prev > Len(l)
  BY <1>1 DEF AppendEntries
<1>2. CASE ~(prev > Len(l))
  <2>1. Upto(l, prev) \in Seq(Entry) /\ Len(Upto(l, prev)) = prev
    BY <1>2, UptoFacts
  <2>2. Upto(l, prev) \o e \in Seq(Entry) /\ Len(Upto(l, prev) \o e) = prev + Len(e)
    BY <2>1
  <2> QED
    BY <1>2, <2>2 DEF AppendEntries, Upto
<1> QED
  BY <1>1, <1>2

\* What Propose calls have read is a term.
ProposeTypes == proposing \in [Server -> SUBSET (0..MaxTerm)]

LEMMA ProposingChanges ==
    ASSUME [RaftNext]_raftVars
    PROVE  proposing' = proposing \/ \E i \in Server : Propose(i)
<1> USE DEF logVars
<1>1. ASSUME NEW i \in Server,
             \/ RunStep(i) \/ ElectionTimeout(i) \/ CandidateTimeout(i)
             \/ ApplyBegin(i) \/ ApplyOne(i)
      PROVE  proposing' = proposing
  BY <1>1, Zenon DEF RunStep, Run, SetCandidate, BecomeCandidate, VoteForSelf, RequestVotes,
       VotesAreIn, BecomeLeader, LoseElection, RunLeader, HeartbeatTick, UpdateCommitIndexRead,
       UpdateCommitIndexSet, LeaderCheck, ElectionTimeout, CandidateTimeout, ApplyBegin, ApplyOne
<1>2. ASSUME NEW c \in calls,
             \/ SendVoteRequest(c) \/ VoteReply(c)
             \/ SendAppend(c) \/ AppendReply(c) \/ AppendReplyStepDown(c)
             \/ HandlerStep(c) \/ ContextExpires(c) \/ CallFails(c)
      PROVE  proposing' = proposing
  BY <1>2, Zenon DEF SendVoteRequest, VoteReply, SendAppend, ReadNextIndex, ReadPrevLogTerm,
       ReadEntries, SendAppendRequest, AppendReply, AppendReplyStepDown, HandlerStep,
       RequestVoteTerm, RequestVoteDecide, AppendEntriesTerm, AppendEntriesLog, ContextExpires,
       CallFails
<1>3. CASE UNCHANGED raftVars
  BY <1>3 DEF raftVars
<1> QED
  BY <1>1, <1>2, <1>3, Zenon DEF RaftNext

LEMMA NextProposeTypes ==
    ASSUME TermTypes, ProposeTypes, [RaftNext]_raftVars
    PROVE  ProposeTypes'
<1>1. ASSUME NEW i \in Server, Propose(i) PROVE ProposeTypes'
  <2>1. PICK P \in SUBSET (0..MaxTerm) : proposing' = [proposing EXCEPT ![i] = P]
    <3>1. currentTerm[i] \in 0..MaxTerm /\ 0 \in 0..MaxTerm /\ proposing[i] \in SUBSET (0..MaxTerm)
      BY RaftAssumption DEF TermTypes, ProposeTypes
    <3>2. \/ proposing' = [proposing EXCEPT ![i] = proposing[i] \cup {0}]
          \/ proposing' = [proposing EXCEPT ![i] = (proposing[i] \ {0}) \cup {currentTerm[i]}]
          \/ \E t : proposing' = [proposing EXCEPT ![i] = proposing[i] \ {t}]
      BY <1>1, Zenon DEF Propose, ProposeRole, ProposeTerm, ProposeAppend
    <3>3. /\ proposing[i] \cup {0} \in SUBSET (0..MaxTerm)
          /\ (proposing[i] \ {0}) \cup {currentTerm[i]} \in SUBSET (0..MaxTerm)
          /\ \A t : proposing[i] \ {t} \in SUBSET (0..MaxTerm)
      BY <3>1, Zenon
    <3> QED
      BY <3>2, <3>3, Zenon
  <2> QED
    BY <2>1, Zenon DEF ProposeTypes
<1> QED
  BY <1>1, ProposingChanges, Zenon DEF ProposeTypes

\* The entry that a Propose call appends.
LEMMA ProposeAppends ==
    ASSUME ProposeTypes, LogTypes, NEW i \in Server, ProposeAppend(i)
    PROVE  \E e \in Entry : /\ e.Index = Len(log[i]) + 1 /\ Len(log[i]) < MaxLog
                            /\ log' = [log EXCEPT ![i] = Append(log[i], e)]
                            /\ proposing[i] # {}
<1>1. PICK t \in proposing[i] \ {0} :
         /\ log' = [log EXCEPT ![i] =
                       Append(log[i], [Term |-> t, Index |-> Len(log[i]) + 1, Command |-> i])]
         /\ Len(log[i]) < MaxLog
  BY Zenon DEF ProposeAppend
<1> DEFINE e == [Term |-> t, Index |-> Len(log[i]) + 1, Command |-> i]
<1>2. t \in Nat /\ Len(log[i]) + 1 \in Nat
  BY RaftAssumption DEF ProposeTypes, LogTypes
<1>3. e \in Entry /\ e.Index = Len(log[i]) + 1
  BY <1>2 DEF Entry
<1> HIDE DEF e
<1> QED
  BY <1>1, <1>3 DEF e

LEMMA NextLogTypes ==
    ASSUME ElectionInv, ProposeTypes, LogTypes, [RaftNext]_raftVars
    PROVE  LogTypes'
<1> DEFINE Goal == /\ log' \in [Server -> Seq(Entry)] /\ \A i \in Server : Len(log'[i]) <= MaxLog
                   /\ commitIndex' \in [Server -> 0..MaxLog] /\ newCommit' \in [Server -> 0..MaxLog]
                   /\ nextIndex' \in [Server -> [Server -> 1..(MaxLog + 1)]]
                   /\ matchIndex' \in [Server -> [Server -> 0..MaxLog]]
<1> USE DEF leaderVars, logVars
<1>0. \A d \in calls' : CallLogOK(d)
  BY CallLogs
<1>1. SUFFICES Goal
  BY <1>0 DEF LogTypes
<1>2. /\ log \in [Server -> Seq(Entry)] /\ \A i \in Server : Len(log[i]) <= MaxLog
      /\ commitIndex \in [Server -> 0..MaxLog] /\ newCommit \in [Server -> 0..MaxLog]
      /\ nextIndex \in [Server -> [Server -> 1..(MaxLog + 1)]]
      /\ matchIndex \in [Server -> [Server -> 0..MaxLog]]
  BY DEF LogTypes
<1>3. ASSUME UNCHANGED <<log, commitIndex, newCommit, nextIndex, matchIndex>> PROVE Goal
  BY <1>2, <1>3
<1>4. ASSUME NEW i \in Server,
             \/ RunStep(i) \/ ElectionTimeout(i) \/ CandidateTimeout(i)
             \/ ApplyBegin(i) \/ ApplyOne(i) \/ Propose(i)
      PROVE  Goal
  <2>1. CASE BecomeLeader(i)
    <3> DEFINE n == LastIndex(log[i]) + 1
    <3>1. n \in 1..(MaxLog + 1) /\ 0 \in 0..MaxLog
      BY <1>2, RaftAssumption DEF LastIndex
    <3> HIDE DEF n
    <3>2. /\ nextIndex' = [nextIndex EXCEPT ![i] = [j \in Server |-> n]]
          /\ matchIndex' = [matchIndex EXCEPT ![i] = [j \in Server |-> 0]]
          /\ UNCHANGED <<log, commitIndex, newCommit>>
      BY <2>1 DEF BecomeLeader, n
    <3> QED
      BY <1>2, <3>1, <3>2
  <2>2. CASE UpdateCommitIndexRead(i)
    <3>1. /\ newCommit' = [newCommit EXCEPT ![i] = CommitCandidate(i)]
          /\ UNCHANGED <<log, commitIndex, nextIndex, matchIndex>>
      BY <2>2 DEF UpdateCommitIndexRead
    <3> QED
      BY <1>2, <3>1, CommitCandidateType
  <2>3. CASE UpdateCommitIndexSet(i)
    <3>1. /\ newCommit' = [newCommit EXCEPT ![i] = 0]
          /\ UNCHANGED <<log, nextIndex, matchIndex>>
          /\ \/ commitIndex' = [commitIndex EXCEPT ![i] = newCommit[i]]
             \/ commitIndex' = [commitIndex EXCEPT ![i] = @]
      BY <2>3, Zenon DEF UpdateCommitIndexSet
    <3>2. 0 \in 0..MaxLog
      BY RaftAssumption
    <3> QED
      BY <1>2, <3>1, <3>2, Zenon
  <2>4. CASE ProposeAppend(i)
    <3>1. PICK e \in Entry : /\ log' = [log EXCEPT ![i] = Append(log[i], e)]
                            /\ Len(log[i]) < MaxLog
      BY <2>4, ProposeAppends
    <3>2. UNCHANGED <<commitIndex, newCommit, nextIndex, matchIndex>>
      BY <2>4, Zenon DEF ProposeAppend
    <3>3. Append(log[i], e) \in Seq(Entry) /\ Len(Append(log[i], e)) <= MaxLog
      BY <1>2, <3>1, RaftAssumption
    <3> QED
      BY <1>2, <3>1, <3>2, <3>3
  <2>5. CASE ~(\/ BecomeLeader(i) \/ UpdateCommitIndexRead(i) \/ UpdateCommitIndexSet(i)
               \/ ProposeAppend(i))
    <3>1. UNCHANGED <<log, commitIndex, newCommit, nextIndex, matchIndex>>
      BY <1>4, <2>5, Zenon DEF RunStep, Run, SetCandidate, BecomeCandidate, VoteForSelf, RequestVotes,
           VotesAreIn, LoseElection, RunLeader, HeartbeatTick, LeaderCheck, ElectionTimeout,
           CandidateTimeout, ApplyBegin, ApplyOne, Propose, ProposeRole, ProposeTerm
    <3> QED
      BY <1>3, <3>1
  <2> QED
    BY <2>1, <2>2, <2>3, <2>4, <2>5
<1>5. ASSUME NEW c \in calls,
             \/ SendVoteRequest(c) \/ VoteReply(c)
             \/ SendAppend(c) \/ AppendReply(c) \/ AppendReplyStepDown(c)
             \/ HandlerStep(c) \/ ContextExpires(c) \/ CallFails(c)
      PROVE  Goal
  <2>0. /\ c.from \in Server /\ c.to \in Server /\ CallLogOK(c)
        /\ c.index \in Nat /\ c.entries \in Seq(Entry) /\ c.commit \in 0..MaxLog
        /\ Len(c.entries) \in Nat
    BY DEF ElectionInv, CallsOK, CallOK, LogTypes, CallLogOK
  <2> DEFINE last == c.index + Len(c.entries)
  <2>1. CASE AppendReply(c)
    <3>1. last \in 0..MaxLog /\ last + 1 \in 1..(MaxLog + 1)
      BY <2>0, <2>1, RaftAssumption DEF AppendReply, CallLogOK
    <3> HIDE DEF last
    <3> DEFINE now == nextIndex[c.from][c.to]
    <3>2. now \in 1..(MaxLog + 1)
      BY <1>2, <2>0, Zenon
    <3>3. now > 1 => now - 1 \in 1..(MaxLog + 1)
      BY <3>2, RaftAssumption
    <3>4. /\ UNCHANGED <<log, commitIndex, newCommit>>
          /\ \/ nextIndex' = nextIndex
             \/ nextIndex' = [nextIndex EXCEPT ![c.from][c.to] = last + 1]
             \/ nextIndex' = [nextIndex EXCEPT ![c.from][c.to] = @]
             \/ now > 1 /\ nextIndex' = [nextIndex EXCEPT ![c.from][c.to] = @ - 1]
          /\ \/ matchIndex' = matchIndex
             \/ matchIndex' = [matchIndex EXCEPT ![c.from][c.to] = last]
      BY <2>1 DEF AppendReply, last
    <3>5. nextIndex' \in [Server -> [Server -> 1..(MaxLog + 1)]]
      <4>1. CASE nextIndex' = nextIndex
        BY <1>2, <4>1
      <4>2. CASE nextIndex' = [nextIndex EXCEPT ![c.from][c.to] = last + 1]
        BY <1>2, <2>0, <3>1, <4>2, Zenon
      <4>3. CASE nextIndex' = [nextIndex EXCEPT ![c.from][c.to] = @]
        BY <1>2, <2>0, <4>3, Zenon
      <4>4. CASE now > 1 /\ nextIndex' = [nextIndex EXCEPT ![c.from][c.to] = @ - 1]
        BY <1>2, <2>0, <3>3, <4>4, Zenon
      <4> QED
        BY <3>4, <4>1, <4>2, <4>3, <4>4
    <3>6. matchIndex' \in [Server -> [Server -> 0..MaxLog]]
      <4>1. CASE matchIndex' = matchIndex
        BY <1>2, <4>1
      <4>2. CASE matchIndex' = [matchIndex EXCEPT ![c.from][c.to] = last]
        BY <1>2, <2>0, <3>1, <4>2, Zenon
      <4> QED
        BY <3>4, <4>1, <4>2
    <3> QED
      BY <1>2, <3>4, <3>5, <3>6, Zenon
  <2>2. CASE AppendEntriesLog(c)
    <3>1. last \in 0..MaxLog
      BY <2>0, <2>2, RaftAssumption DEF AppendEntriesLog, InHandler, CallLogOK
    <3>2. /\ UNCHANGED <<newCommit, nextIndex, matchIndex>>
          /\ \/ log' = log
             \/ log' = [log EXCEPT ![c.to] = AppendEntries(log[c.to], c.index, c.entries)]
          /\ \/ commitIndex' = commitIndex
             \/ \E x \in {commitIndex[c.to], last, c.commit} :
                   commitIndex' = [commitIndex EXCEPT ![c.to] = x]
      BY <2>2, Zenon DEF AppendEntriesLog, CommitUpTo
    <3>3. /\ AppendEntries(log[c.to], c.index, c.entries) \in Seq(Entry)
          /\ Len(AppendEntries(log[c.to], c.index, c.entries)) <= MaxLog
      <4>1. log[c.to] \in Seq(Entry) /\ Len(log[c.to]) <= MaxLog /\ last <= MaxLog
        BY <1>2, <2>0, <3>1
      <4> QED
        BY <2>0, <4>1, AppendEntriesType
    <3> HIDE DEF last
    <3>4. log' \in [Server -> Seq(Entry)] /\ \A i \in Server : Len(log'[i]) <= MaxLog
      BY <1>2, <2>0, <3>2, <3>3, Zenon
    <3>5. commitIndex' \in [Server -> 0..MaxLog]
      <4>1. \A x \in {commitIndex[c.to], last, c.commit} : x \in 0..MaxLog
        BY <1>2, <2>0, <3>1, Zenon
      <4>2. ASSUME NEW x \in 0..MaxLog, commitIndex' = [commitIndex EXCEPT ![c.to] = x]
            PROVE  commitIndex' \in [Server -> 0..MaxLog]
        BY <1>2, <4>2, Zenon
      <4>3. CASE commitIndex' = commitIndex
        BY <1>2, <4>3
      <4> QED
        BY <3>2, <4>1, <4>2, <4>3, Zenon
    <3> QED
      BY <1>2, <3>2, <3>4, <3>5
  <2>3. CASE ~(AppendReply(c) \/ AppendEntriesLog(c))
    <3>1. UNCHANGED <<log, commitIndex, newCommit, nextIndex, matchIndex>>
      BY <1>5, <2>3, Zenon DEF SendVoteRequest, VoteReply, SendAppend, ReadNextIndex,
         ReadPrevLogTerm, ReadEntries, SendAppendRequest, AppendReplyStepDown,
           HandlerStep, RequestVoteTerm, RequestVoteDecide, AppendEntriesTerm, ContextExpires, CallFails
    <3> QED
      BY <1>3, <3>1
  <2> QED
    BY <2>1, <2>2, <2>3
<1>6. CASE UNCHANGED raftVars
  BY <1>3, <1>6 DEF raftVars
<1> HIDE DEF Goal
<1> QED
  BY <1>4, <1>5, <1>6 DEF RaftNext

AppliedBounded == \A i \in Server : lastApplied[i] <= MaxLog

LEMMA NextAppliedBounded ==
    ASSUME ApplyInv, AppliedBounded, LogTypes, [RaftNext]_raftVars
    PROVE  AppliedBounded'
<1> USE DEF applyVars
<1>1. ASSUME lastApplied' = lastApplied PROVE AppliedBounded'
  BY <1>1 DEF AppliedBounded
<1>2. ASSUME NEW i \in Server, ApplyOne(i) PROVE AppliedBounded'
  <2>1. /\ lastApplied \in [Server -> Nat] /\ applyNext[i] \in Nat
        /\ Len(log[i]) \in Nat /\ Len(log[i]) <= MaxLog
    BY DEF ApplyInv, LogTypes
  <2>2. \/ lastApplied' = lastApplied
        \/ applyNext[i] <= Len(log[i]) /\ lastApplied' = [lastApplied EXCEPT ![i] = applyNext[i]]
    BY <1>2, <2>1, Zenon DEF ApplyOne
  <2> QED
    BY <2>1, <2>2, RaftAssumption DEF AppliedBounded
<1>3. ASSUME NEW i \in Server,
             \/ RunStep(i) \/ ElectionTimeout(i) \/ CandidateTimeout(i)
             \/ ApplyBegin(i) \/ Propose(i)
      PROVE  lastApplied' = lastApplied
  BY <1>3, Zenon DEF RunStep, Run, SetCandidate, BecomeCandidate, VoteForSelf, RequestVotes,
       VotesAreIn, BecomeLeader, LoseElection, RunLeader, HeartbeatTick, UpdateCommitIndexRead,
       UpdateCommitIndexSet, LeaderCheck, ElectionTimeout, CandidateTimeout, ApplyBegin,
         Propose, ProposeRole, ProposeTerm, ProposeAppend
<1>4. ASSUME NEW c \in calls,
             \/ SendVoteRequest(c) \/ VoteReply(c)
             \/ SendAppend(c) \/ AppendReply(c) \/ AppendReplyStepDown(c)
             \/ HandlerStep(c) \/ ContextExpires(c) \/ CallFails(c)
      PROVE  lastApplied' = lastApplied
  BY <1>4, Zenon DEF SendVoteRequest, VoteReply, SendAppend, ReadNextIndex,
         ReadPrevLogTerm, ReadEntries, SendAppendRequest, AppendReply,
       AppendReplyStepDown, HandlerStep, RequestVoteTerm, RequestVoteDecide, AppendEntriesTerm,
       AppendEntriesLog, ContextExpires, CallFails
<1>5. CASE UNCHANGED raftVars
  BY <1>1, <1>5 DEF raftVars
<1> QED
  BY <1>1, <1>2, <1>3, <1>4, <1>5 DEF RaftNext

TypesInv == TermTypes /\ ProposeTypes /\ TimerTypes /\ VotesBounded /\ LogTypes /\ AppliedBounded

LEMMA TypesInvHolds == RaftSpec => []TypesInv
<1>1. RaftInit => TypesInv
  <2> SUFFICES ASSUME RaftInit PROVE TypesInv
    OBVIOUS
  <2>0. /\ 0 \in 0..MaxTerm /\ 0 \in 0..MaxLog /\ 1 \in 1..(MaxLog + 1)
        /\ Cardinality(Server) \in Nat /\ calls = {}
    BY RaftAssumption, FS_CardinalityType DEF RaftInit
  <2>1. TermTypes
    BY <2>0, Zenon DEF RaftInit, TermTypes
  <2>2. TimerTypes /\ ProposeTypes
    BY Zenon DEF RaftInit, TimerTypes, ProposeTypes
  <2>3. VotesBounded /\ AppliedBounded
    BY <2>0 DEF RaftInit, VotesBounded, AppliedBounded
  <2>4. LogTypes
    <3>1. << >> \in Seq(Entry) /\ Len(<< >>) <= MaxLog
      BY <2>0
    <3>2. /\ log \in [Server -> Seq(Entry)] /\ \A i \in Server : Len(log[i]) <= MaxLog
      BY <3>1, Zenon DEF RaftInit
    <3> QED
      BY <2>0, <3>2, Zenon DEF RaftInit, LogTypes
  <2> QED
    BY <2>1, <2>2, <2>3, <2>4 DEF TypesInv
<1>2. /\ ElectionInv /\ ApplyInv /\ TypesInv /\ [RaftNext]_raftVars /\ ElectionInv'
      => TypesInv'
  BY NextTermTypes, NextProposeTypes, NextTimerTypes, NextVotesBounded, NextLogTypes, NextAppliedBounded DEF TypesInv
<1> QED
  BY <1>1, <1>2, ElectionInductive, ApplyInvHolds, PTL DEF RaftSpec

\* A call of the right fields, each of its type, is a Call.
LEMMA CallType ==
    ASSUME NEW c, CallOK(c), CallLogOK(c)
    PROVE  c \in Call
<1> DEFINE d == [kind |-> c.kind, from |-> c.from, to |-> c.to, term |-> c.term,
                 status |-> c.status, index |-> c.index, logTerm |-> c.logTerm,
                 entries |-> c.entries, commit |-> c.commit, replyTerm |-> c.replyTerm,
                 ok |-> c.ok]
<1>1. c = d
  BY DEF CallOK, Shaped, Fields
<1>2. c.commit \in Nat
  BY RaftAssumption DEF CallLogOK
<1>3. d \in Call
  BY <1>2, Zenon DEF CallOK, CallLogOK, Call
<1> QED
  BY <1>1, <1>3

(***************************************************************************)
(* RaftTypeTheorem: the types of RaftTypeOK hold for any number of servers *)
(* and any bounds: no reply, however late, moves an index or a term out of *)
(* its range, and no server counts more votes than there are servers.      *)
(***************************************************************************)
THEOREM RaftTypeTheorem == RaftSpec => []RaftTypeOK
<1>1. ElectionInv /\ ApplyInv /\ TypesInv => RaftTypeOK
  <2> SUFFICES ASSUME ElectionInv, ApplyInv, TypesInv PROVE RaftTypeOK
    OBVIOUS
  <2>1. /\ currentTerm \in [Server -> 0..MaxTerm] /\ term \in [Server -> 0..MaxTerm]
        /\ votedFor \in [Server -> Server \cup {NoServer}]
    BY DEF TypesInv, TermTypes
  <2>2. /\ pc \in [Server -> PC] /\ leaderID \in [Server -> Server \cup {NoServer}]
        /\ state \in [Server -> {"Follower", "Candidate", "Leader"}]
    BY DEF ElectionInv, ControlOK
  <2>3. votes \in [Server -> 0..Cardinality(Server)]
    BY RaftAssumption, FS_CardinalityType DEF ElectionInv, ControlOK, TypesInv, VotesBounded
  <2>4. lastApplied \in [Server -> 0..MaxLog]
    BY RaftAssumption DEF ApplyInv, TypesInv, AppliedBounded
  <2>5. calls \subseteq Call
    BY CallType DEF ElectionInv, CallsOK, TypesInv, LogTypes
  <2>6. /\ log \in [Server -> Seq(Entry)] /\ proposing \in [Server -> SUBSET (0..MaxTerm)]
        /\ commitIndex \in [Server -> 0..MaxLog] /\ newCommit \in [Server -> 0..MaxLog]
        /\ nextIndex \in [Server -> [Server -> 1..(MaxLog + 1)]]
        /\ matchIndex \in [Server -> [Server -> 0..MaxLog]]
    BY DEF TypesInv, LogTypes, ProposeTypes
  <2>7. \A x \in {commitCh, armed, stale} : x \in [Server -> BOOLEAN]
    BY Zenon DEF TypesInv, TimerTypes
  <2>8. \A x \in {commitIndex, lastApplied, newCommit} : x \in [Server -> 0..MaxLog]
    BY <2>4, <2>6, Zenon
  <2> QED
    BY <2>1, <2>2, <2>3, <2>5, <2>6, <2>7, <2>8, Zenon DEF RaftTypeOK
<1> QED
  BY <1>1, ElectionInductive, ApplyInvHolds, TypesInvHolds, PTL

-----------------------------------------------------------------------------
(* Where the entries of logs and requests come from *)

\* Only the last step of Propose and the second step of HandleAppendEntries write a log.
LEMMA LogChanges ==
    ASSUME [RaftNext]_raftVars
    PROVE  \/ log' = log
           \/ \E i \in Server : ProposeAppend(i)
           \/ \E c \in calls : AppendEntriesLog(c)
<1> USE DEF logVars
<1>1. ASSUME NEW i \in Server,
             \/ RunStep(i) \/ ElectionTimeout(i) \/ CandidateTimeout(i)
             \/ ApplyBegin(i) \/ ApplyOne(i) \/ Propose(i)
      PROVE  log' = log \/ ProposeAppend(i)
  BY <1>1, Zenon DEF RunStep, Run, SetCandidate, BecomeCandidate, VoteForSelf, RequestVotes,
       VotesAreIn, BecomeLeader, LoseElection, RunLeader, HeartbeatTick, UpdateCommitIndexRead,
       UpdateCommitIndexSet, LeaderCheck, ElectionTimeout, CandidateTimeout, ApplyBegin, ApplyOne,
       Propose, ProposeRole, ProposeTerm
<1>2. ASSUME NEW c \in calls,
             \/ SendVoteRequest(c) \/ VoteReply(c)
             \/ SendAppend(c) \/ AppendReply(c) \/ AppendReplyStepDown(c)
             \/ HandlerStep(c) \/ ContextExpires(c) \/ CallFails(c)
      PROVE  log' = log \/ AppendEntriesLog(c)
  BY <1>2, Zenon DEF SendVoteRequest, VoteReply, SendAppend, ReadNextIndex,
         ReadPrevLogTerm, ReadEntries, SendAppendRequest, AppendReply,
       AppendReplyStepDown, HandlerStep, RequestVoteTerm, RequestVoteDecide, AppendEntriesTerm,
       ContextExpires, CallFails
<1> QED
  BY <1>1, <1>2, Zenon DEF RaftNext, raftVars

LEMMA EntriesAfterAt ==
    ASSUME NEW l \in Seq(Entry), NEW k \in Nat, NEW n \in 1..Len(EntriesAfter(l, k))
    PROVE  k + n \in 1..Len(l) /\ EntriesAfter(l, k)[n] = l[k + n]
<1> DEFINE e == EntriesAfter(l, k)
<1>1. /\ e \in Seq(Entry) /\ Len(l) \in Nat /\ n \in 1..Len(e)
      /\ k < Len(l) => Len(e) = Len(l) - k
      /\ k >= Len(l) => Len(e) = 0
  <2>1. Len(l) \in Nat
    OBVIOUS
  <2> QED
    BY <2>1, EntriesAfterType, Zenon
<1> HIDE DEF e
<1>2. k < Len(l) /\ n \in 1..(Len(l) - k)
  BY <1>1
<1> QED
  BY <1>2 DEF e, EntriesAfter

LEMMA AppendEntriesAt ==
    ASSUME NEW l \in Seq(Entry), NEW prev \in Nat, NEW e \in Seq(Entry),
           NEW k \in 1..Len(AppendEntries(l, prev, e))
    PROVE  \/ k \in 1..Len(l) /\ AppendEntries(l, prev, e)[k] = l[k]
           \/ k - prev \in 1..Len(e) /\ AppendEntries(l, prev, e)[k] = e[k - prev]
<1>1. CASE prev > Len(l)
  BY <1>1 DEF AppendEntries
<1>2. CASE ~(prev > Len(l))
  <2> DEFINE p == Upto(l, prev)
  <2>1. prev \in 0..Len(l)
    BY <1>2
  <2>2. p \in Seq(Entry) /\ Len(p) = prev /\ \A n \in 1..prev : p[n] = l[n]
    BY <2>1, UptoFacts
  <2>3. AppendEntries(l, prev, e) = p \o e
    BY <1>2 DEF AppendEntries, Upto
  <2> HIDE DEF p
  <2>4. k \in 1..(prev + Len(e))
    BY <2>2, <2>3
  <2>5. CASE k <= prev
    BY <2>1, <2>2, <2>3, <2>4, <2>5
  <2>6. CASE k > prev
    BY <2>1, <2>2, <2>3, <2>4, <2>6
  <2> QED
    BY <2>4, <2>5, <2>6
<1> QED
  BY <1>1, <1>2

\* Every entry that is in a log, or in a request for a log, is there at an index for
\* which G has it.
EntriesIn(G, logs, requests) ==
    /\ \A i \in Server : \A k \in 1..Len(logs[i]) : <<k, logs[i][k]>> \in G
    /\ \A c \in requests : c.kind = "append" =>
          \A n \in 1..Len(c.entries) : <<c.index + n, c.entries[n]>> \in G

LEMMA RequestsKeepEntries ==
    ASSUME ElectionInv, LogTypes, NEW G, EntriesIn(G, log, calls), [RaftNext]_raftVars,
           NEW d \in calls', d.kind = "append", NEW n \in 1..Len(d.entries)
    PROVE  <<d.index + n, d.entries[n]>> \in G
<1>1. ASSUME NEW c \in calls, c.kind = "append", d.index = c.index, d.entries = c.entries
      PROVE  <<d.index + n, d.entries[n]>> \in G
  BY <1>1, Zenon DEF EntriesIn
<1>2. ASSUME d.entries = << >> PROVE FALSE
  BY <1>2
<1>3. ASSUME NEW c \in calls, d.index = c.index,
             d.entries = EntriesAfter(log[c.from], c.index)
      PROVE  <<d.index + n, d.entries[n]>> \in G
  <2> DEFINE l == log[c.from]
             x == c.index
  <2>1. c.from \in Server /\ l \in Seq(Entry) /\ x \in Nat
    BY DEF ElectionInv, CallsOK, CallOK, LogTypes, CallLogOK
  <2>2. n \in 1..Len(EntriesAfter(l, x))
    BY <1>3
  <2> HIDE DEF x
  <2>3. x + n \in 1..Len(l) /\ EntriesAfter(l, x)[n] = l[x + n]
    BY <2>1, <2>2, EntriesAfterAt, Zenon
  <2>4. <<x + n, l[x + n]>> \in G
    BY <2>1, <2>3, Zenon DEF EntriesIn
  <2> QED
    BY <1>3, <2>3, <2>4, Zenon DEF x
<1>4. ASSUME NEW i, NEW j, NEW kind, NEW t, d = NewCall(kind, i, j, t) PROVE FALSE
  BY <1>2, <1>4, Zenon DEF NewCall
<1>5. ASSUME NEW c \in calls, SameRequest(d, c) PROVE <<d.index + n, d.entries[n]>> \in G
  BY <1>1, <1>5, Zenon DEF SameRequest
<1>6. ASSUME NEW c \in calls, ReadFor(d, c) PROVE <<d.index + n, d.entries[n]>> \in G
  <2>1. c.kind = "append" /\ (c.status = "new" => c.entries = << >>)
    BY <1>6, Zenon DEF ReadFor, LogTypes, CallLogOK
  <2>2. \/ d.entries = << >>
        \/ d.index = c.index /\ d.entries = c.entries
        \/ d.index = c.index /\ d.entries = EntriesAfter(log[c.from], c.index)
    <3>1. c.kind # "vote"
      BY <2>1
    <3> QED
      BY <1>6, <2>1, <3>1, Zenon DEF ReadFor
  <2> QED
    BY <1>1, <1>2, <1>3, <2>1, <2>2, Zenon
<1>7. CASE d \in calls
  BY <1>1, <1>7
<1> QED
  BY <1>4, <1>5, <1>6, <1>7, CallOrigins, Zenon DEF Origin

LEMMA LogsKeepEntries ==
    ASSUME ElectionInv, LogTypes, ProposeTypes, NEW G, EntriesIn(G, log, calls),
           [RaftNext]_raftVars,
           \A i \in Server : ProposeAppend(i) =>
              <<Len(log[i]) + 1, log'[i][Len(log[i]) + 1]>> \in G,
           NEW j \in Server, NEW k \in 1..Len(log'[j])
    PROVE  <<k, log'[j][k]>> \in G
<1>0. log \in [Server -> Seq(Entry)]
  BY DEF LogTypes
<1>1. ASSUME log'[j] = log[j] PROVE <<k, log'[j][k]>> \in G
  BY <1>1, Zenon DEF EntriesIn
<1>2. ASSUME NEW i \in Server, ProposeAppend(i) PROVE <<k, log'[j][k]>> \in G
  <2>1. PICK e \in Entry : log' = [log EXCEPT ![i] = Append(log[i], e)]
    BY <1>2, ProposeAppends, Zenon
  <2>2. CASE j # i
    <3>1. log'[j] = log[j]
      BY <1>0, <2>1, <2>2
    <3> QED
      BY <1>1, <3>1
  <2>3. CASE j = i
    <3>1. /\ log[i] \in Seq(Entry) /\ log'[i] = Append(log[i], e)
          /\ k \in 1..Len(log[i]) \/ k = Len(log[i]) + 1
          /\ k \in 1..Len(log[i]) => log'[i][k] = log[i][k]
      BY <1>0, <2>1, <2>3
    <3>2. ASSUME k \in 1..Len(log[i]) PROVE <<k, log'[j][k]>> \in G
      <4>1. <<k, log[i][k]>> \in G
        BY <3>2, Zenon DEF EntriesIn
      <4> QED
        BY <2>3, <3>1, <3>2, <4>1, Zenon
    <3>3. ASSUME k = Len(log[i]) + 1 PROVE <<k, log'[j][k]>> \in G
      BY <1>2, <2>3, <3>3, Zenon
    <3> QED
      BY <3>1, <3>2, <3>3, Zenon
  <2> QED
    BY <2>2, <2>3
<1>3. ASSUME NEW c \in calls, AppendEntriesLog(c) PROVE <<k, log'[j][k]>> \in G
  <2> DEFINE l == log[c.to]
             x == c.index
             e == c.entries
             new == AppendEntries(l, x, e)
  <2>0. c.to \in Server /\ l \in Seq(Entry) /\ x \in Nat /\ e \in Seq(Entry)
    BY DEF ElectionInv, CallsOK, CallOK, LogTypes, CallLogOK
  <2>1. c.kind = "append" /\ (log' = log \/ log' = [log EXCEPT ![c.to] = new])
    BY <1>3, Zenon DEF AppendEntriesLog, InHandler, logVars
  <2>2. CASE log'[j] = log[j]
    BY <1>1, <2>2
  <2>3. CASE log'[j] # log[j]
    <3>1. j = c.to /\ log'[j] = new
      BY <1>0, <2>0, <2>1, <2>3
    <3>2. \A n \in 1..Len(e) : <<x + n, e[n]>> \in G
      BY <2>1, Zenon DEF EntriesIn
    <3>3. \A n \in 1..Len(l) : <<n, l[n]>> \in G
      BY <2>0, Zenon DEF EntriesIn
    <3> HIDE DEF l, x, e
    <3>4. \/ k \in 1..Len(l) /\ new[k] = l[k]
          \/ k - x \in 1..Len(e) /\ new[k] = e[k - x]
      BY <2>0, <3>1, AppendEntriesAt, Zenon
    <3> HIDE DEF new
    <3>5. ASSUME k \in 1..Len(l), new[k] = l[k] PROVE <<k, new[k]>> \in G
      BY <3>3, <3>5, Zenon
    <3>6. ASSUME k - x \in 1..Len(e), new[k] = e[k - x] PROVE <<k, new[k]>> \in G
      <4>1. k = x + (k - x)
        BY <2>0, <3>1
      <4>2. <<x + (k - x), e[k - x]>> \in G
        BY <3>2, <3>6, Zenon
      <4> QED
        BY <3>6, <4>1, <4>2, Zenon
    <3> QED
      BY <3>1, <3>4, <3>5, <3>6, Zenon
  <2> QED
    BY <2>2, <2>3
<1>4. CASE log' = log
  BY <1>1, <1>4, Zenon
<1> QED
  BY <1>2, <1>3, <1>4, LogChanges, Zenon

LEMMA EntriesTravel ==
    ASSUME ElectionInv, LogTypes, ProposeTypes, NEW G, EntriesIn(G, log, calls),
           [RaftNext]_raftVars,
           \A i \in Server : ProposeAppend(i) =>
              <<Len(log[i]) + 1, log'[i][Len(log[i]) + 1]>> \in G
    PROVE  EntriesIn(G, log', calls')
<1>1. ASSUME NEW j \in Server, NEW k \in 1..Len(log'[j]) PROVE <<k, log'[j][k]>> \in G
  BY LogsKeepEntries, Zenon
<1>2. ASSUME NEW d \in calls', d.kind = "append", NEW n \in 1..Len(d.entries)
      PROVE  <<d.index + n, d.entries[n]>> \in G
  BY <1>2, RequestsKeepEntries, Zenon
<1> QED
  BY <1>1, <1>2, Zenon DEF EntriesIn

LEMMA AppliedChanges ==
    ASSUME [RaftNext]_raftVars
    PROVE  applied' = applied \/ \E i \in Server : ApplyOne(i)
<1> USE DEF history
<1>1. ASSUME NEW i \in Server,
             \/ RunStep(i) \/ ElectionTimeout(i) \/ CandidateTimeout(i)
             \/ ApplyBegin(i) \/ Propose(i)
      PROVE  applied' = applied
  BY <1>1, Zenon DEF RunStep, Run, SetCandidate, BecomeCandidate, VoteForSelf, RequestVotes,
       VotesAreIn, BecomeLeader, LoseElection, RunLeader, HeartbeatTick, UpdateCommitIndexRead,
       UpdateCommitIndexSet, LeaderCheck, ElectionTimeout, CandidateTimeout, ApplyBegin,
         Propose, ProposeRole, ProposeTerm, ProposeAppend
<1>2. ASSUME NEW c \in calls,
             \/ SendVoteRequest(c) \/ VoteReply(c)
             \/ SendAppend(c) \/ AppendReply(c) \/ AppendReplyStepDown(c)
             \/ HandlerStep(c) \/ ContextExpires(c) \/ CallFails(c)
      PROVE  applied' = applied
  BY <1>2, Zenon DEF SendVoteRequest, VoteReply, SendAppend, ReadNextIndex,
         ReadPrevLogTerm, ReadEntries, SendAppendRequest, AppendReply,
       AppendReplyStepDown, HandlerStep, RequestVoteTerm, RequestVoteDecide, AppendEntriesTerm,
       AppendEntriesLog, ContextExpires, CallFails
<1>3. CASE UNCHANGED raftVars
  BY <1>3 DEF raftVars
<1> QED
  BY <1>1, <1>2, <1>3, Zenon DEF RaftNext

\* The entries that carry the index they are at.
Indexed == {p \in Nat \X Entry : p[2].Index = p[1]}

IndexInv == EntriesIn(Indexed, log, calls) /\ applied \subseteq Indexed

LEMMA NextIndexInv ==
    ASSUME ElectionInv, TypesInv, ApplyInv, IndexInv, [RaftNext]_raftVars
    PROVE  IndexInv'
<1>0. LogTypes /\ ProposeTypes /\ log \in [Server -> Seq(Entry)]
  BY DEF TypesInv, LogTypes
<1>1. ASSUME NEW i \in Server, ProposeAppend(i)
      PROVE  <<Len(log[i]) + 1, log'[i][Len(log[i]) + 1]>> \in Indexed
  <2>1. PICK e \in Entry : /\ e.Index = Len(log[i]) + 1
                          /\ log' = [log EXCEPT ![i] = Append(log[i], e)]
    BY <1>0, <1>1, ProposeAppends, Zenon
  <2>2. log[i] \in Seq(Entry) /\ log'[i] = Append(log[i], e)
    BY <1>0, <2>1
  <2>3. Len(log[i]) + 1 \in Nat /\ log'[i][Len(log[i]) + 1] = e
    BY <2>2
  <2> QED
    BY <2>1, <2>3 DEF Indexed
<1>2. EntriesIn(Indexed, log', calls')
  BY <1>0, <1>1, EntriesTravel DEF IndexInv
<1>3. ASSUME NEW i \in Server, ApplyOne(i) PROVE applied' \subseteq Indexed
  <2> DEFINE x == applyNext[i]
  <2>1. applied' = applied \cup (IF x <= Len(log[i]) THEN {<<x, log[i][x]>>} ELSE {})
    BY <1>3, Zenon DEF ApplyOne
  <2>2. ASSUME x <= Len(log[i]) PROVE <<x, log[i][x]>> \in Indexed
    <3>1. x \in 1..Len(log[i])
      BY <1>0, <2>2 DEF ApplyInv
    <3> QED
      BY <3>1, Zenon DEF IndexInv, EntriesIn
  <2> QED
    BY <2>1, <2>2, Zenon DEF IndexInv
<1>4. applied' \subseteq Indexed
  BY <1>3, AppliedChanges, Zenon DEF IndexInv
<1> QED
  BY <1>2, <1>4, Zenon DEF IndexInv, EntriesIn

(***************************************************************************)
(* IndexTheorem: with any number of leaders at once, and whatever requests *)
(* overlap, fail, arrive late or are built from a log that is truncated    *)
(* and grows again between the reads of a sendHeartbeats goroutine, every  *)
(* entry is in every log, and is applied, at the index that Propose gave   *)
(* it.  HandleAppendEntries needs no check for that.                       *)
(***************************************************************************)
THEOREM IndexTheorem == RaftSpec => []EntriesKeepIndex
<1>1. RaftInit => IndexInv
  <2> SUFFICES ASSUME RaftInit PROVE IndexInv
    OBVIOUS
  <2>1. calls = {} /\ applied = {} /\ \A i \in Server : Len(log[i]) = 0
    BY DEF RaftInit
  <2> QED
    BY <2>1 DEF IndexInv, EntriesIn
<1>2. ElectionInv /\ TypesInv /\ ApplyInv /\ IndexInv /\ [RaftNext]_raftVars => IndexInv'
  BY NextIndexInv
<1>3. IndexInv => EntriesKeepIndex
  BY DEF IndexInv, EntriesIn, Indexed, EntriesKeepIndex
<1> QED
  BY <1>1, <1>2, <1>3, ElectionInductive, TypesInvHolds, ApplyInvHolds, PTL DEF RaftSpec

-----------------------------------------------------------------------------
(* A single server that wins elections *)

LEMMA WinnersGrow ==
    ASSUME [RaftNext]_raftVars
    PROVE  winners \subseteq winners'
<1> USE DEF history
<1>1. ASSUME NEW i \in Server,
             \/ RunStep(i) \/ ElectionTimeout(i) \/ CandidateTimeout(i)
             \/ ApplyBegin(i) \/ ApplyOne(i) \/ Propose(i)
      PROVE  winners \subseteq winners'
  BY <1>1, Zenon DEF RunStep, Run, SetCandidate, BecomeCandidate, VoteForSelf, RequestVotes,
       VotesAreIn, BecomeLeader, LoseElection, RunLeader, HeartbeatTick, UpdateCommitIndexRead,
       UpdateCommitIndexSet, LeaderCheck, ElectionTimeout, CandidateTimeout, ApplyBegin, ApplyOne,
       Propose, ProposeRole, ProposeTerm, ProposeAppend
<1>2. ASSUME NEW c \in calls,
             \/ SendVoteRequest(c) \/ VoteReply(c)
             \/ SendAppend(c) \/ AppendReply(c) \/ AppendReplyStepDown(c)
             \/ HandlerStep(c) \/ ContextExpires(c) \/ CallFails(c)
      PROVE  winners \subseteq winners'
  BY <1>2, Zenon DEF SendVoteRequest, VoteReply, SendAppend, ReadNextIndex, ReadPrevLogTerm,
       ReadEntries, SendAppendRequest, AppendReply, AppendReplyStepDown, HandlerStep,
       RequestVoteTerm, RequestVoteDecide, AppendEntriesTerm, AppendEntriesLog, ContextExpires,
       CallFails
<1>3. CASE UNCHANGED raftVars
  BY <1>3 DEF raftVars
<1> QED
  BY <1>1, <1>2, <1>3, Zenon DEF RaftNext

\* No server calls itself.
CallsToPeers == \A c \in calls : c.from # c.to

LEMMA NextCallsToPeers ==
    ASSUME ElectionInv, CallsToPeers, [RaftNext]_raftVars
    PROVE  CallsToPeers'
<1> SUFFICES ASSUME NEW d \in calls' PROVE d.from # d.to
  BY Zenon DEF CallsToPeers
<1>1. ASSUME NEW i \in Server, NEW j \in Peers(i), NEW kind, NEW t, d = NewCall(kind, i, j, t)
      PROVE  d.from # d.to
  <2>1. d.from = i /\ d.to = j
    BY <1>1, NewCallFields
  <2> QED
    BY <2>1 DEF Peers
<1>2. ASSUME NEW c \in calls, d.from = c.from, d.to = c.to PROVE d.from # d.to
  BY <1>2, Zenon DEF CallsToPeers
<1>3. ASSUME NEW c \in calls, SameRequest(d, c) \/ ReadFor(d, c)
      PROVE  d.from = c.from /\ d.to = c.to
  BY <1>3, Zenon DEF SameRequest, ReadFor
<1>4. Origin(d)
  BY CallOrigins
<1> QED
  BY <1>1, <1>2, <1>3, <1>4, Zenon DEF Origin

\* Whoever goes on with a Propose call has won an election.
ProposersWon == \A i \in Server : proposing[i] # {} => Won(i)

LEMMA NextProposersWon ==
    ASSUME LeaderInv, ProposeTypes, ProposersWon, [RaftNext]_raftVars
    PROVE  ProposersWon'
<1> SUFFICES ASSUME NEW j \in Server, proposing'[j] # {} PROVE Won(j)'
  BY Zenon DEF ProposersWon
<1>1. SUFFICES Won(j)
  BY <1>1, WinnersGrow, Zenon DEF Won
<1>2. CASE proposing[j] # {}
  BY <1>2, Zenon DEF ProposersWon
<1>3. CASE proposing[j] = {}
  <2>1. PICK i \in Server : Propose(i)
    BY <1>3, ProposingChanges, Zenon
  <2>2. i = j
    <3>1. \E x : proposing' = [proposing EXCEPT ![i] = x]
      BY <2>1, Zenon DEF Propose, ProposeRole, ProposeTerm, ProposeAppend
    <3> QED
      BY <1>3, <3>1, Zenon DEF ProposeTypes
  <2>3. ProposeRole(j)
    BY <1>3, <2>1, <2>2, Zenon DEF Propose, ProposeTerm, ProposeAppend
  <2> QED
    BY <2>3, Zenon DEF ProposeRole, LeaderInv
<1> QED
  BY <1>2, <1>3

LEMMA WonAlone ==
    ASSUME NEW s, OnlyWinner(s), NEW i, Won(i)
    PROVE  i = s
<1>1. PICK t : <<i, t>> \in winners
  BY Zenon DEF Won
<1>2. <<i, t>>[1] = s
  BY <1>1, Zenon DEF OnlyWinner
<1> QED
  BY <1>2

LEMMA AppendsOfTheLeader ==
    ASSUME NEW s, OnlyWinner(s), ElectionInv, LeaderInv, CallsToPeers,
           NEW c \in calls, c.kind = "append"
    PROVE  c.from = s /\ c.to # s /\ c.to \in Server
<1>1. Won(c.from) /\ c.from # c.to /\ c.to \in Server
  BY Zenon DEF LeaderInv, CallsToPeers, ElectionInv, CallsOK, CallOK
<1> QED
  BY <1>1, WonAlone, Zenon

\* The log of the only server that has won keeps the entries it has.
LEMMA LeaderLogGrows ==
    ASSUME NEW s \in Server, OnlyWinner(s), ElectionInv, LeaderInv, CallsToPeers, ProposersWon,
           LogTypes, ProposeTypes, [RaftNext]_raftVars
    PROVE  /\ Len(log[s]) <= Len(log'[s]) /\ Len(log[s]) \in Nat /\ Len(log'[s]) \in Nat
           /\ \A n \in 1..Len(log[s]) : log'[s][n] = log[s][n]
<1>0. log \in [Server -> Seq(Entry)] /\ log[s] \in Seq(Entry)
  BY DEF LogTypes
<1>1. ASSUME NEW i \in Server, ProposeAppend(i)
      PROVE  \E e \in Entry : log'[s] = Append(log[s], e)
  <2>1. PICK e \in Entry : log' = [log EXCEPT ![i] = Append(log[i], e)] /\ proposing[i] # {}
    BY <1>1, ProposeAppends, Zenon
  <2>2. i = s
    BY <2>1, WonAlone, Zenon DEF ProposersWon
  <2>3. log'[s] = Append(log[s], e)
    BY <1>0, <2>1, <2>2
  <2> QED
    BY <2>3
<1>2. ASSUME NEW c \in calls, AppendEntriesLog(c) PROVE log'[s] = log[s]
  <2>1. c.kind = "append" /\ (log' = log \/ \E x : log' = [log EXCEPT ![c.to] = x])
    BY <1>2, Zenon DEF AppendEntriesLog, InHandler, logVars
  <2>2. c.to # s /\ c.to \in Server
    BY <2>1, AppendsOfTheLeader, Zenon
  <2> QED
    BY <1>0, <2>1, <2>2
<1>3. log'[s] = log[s] \/ \E e \in Entry : log'[s] = Append(log[s], e)
  BY <1>1, <1>2, LogChanges, Zenon
<1> QED
  BY <1>0, <1>3

\* The entries of a log, with their indexes.
EntriesOf(l) == {<<k, l[k]>> : k \in 1..Len(l)}

\* Logs and requests have only entries of the log of s.
Follows(s) == EntriesIn(EntriesOf(log[s]), log, calls)

LEMMA NextFollows ==
    ASSUME NEW s \in Server, OnlyWinner(s), ElectionInv, LeaderInv, CallsToPeers, ProposersWon,
           LogTypes, ProposeTypes, Follows(s), [RaftNext]_raftVars
    PROVE  Follows(s)'
<1> DEFINE G == EntriesOf(log'[s])
<1>1. \A p : p \in EntriesOf(log[s]) => p \in G
  <2>1. /\ \A k \in 1..Len(log[s]) : k \in 1..Len(log'[s])
        /\ \A k \in 1..Len(log[s]) : log'[s][k] = log[s][k]
    BY LeaderLogGrows
  <2> QED
    BY <2>1, Zenon DEF EntriesOf
<1>2. ASSUME NEW i \in Server, ProposeAppend(i)
      PROVE  <<Len(log[i]) + 1, log'[i][Len(log[i]) + 1]>> \in G
  <2>1. PICK e \in Entry : log' = [log EXCEPT ![i] = Append(log[i], e)] /\ proposing[i] # {}
    BY <1>2, ProposeAppends, Zenon
  <2>2. i = s
    BY <2>1, WonAlone, Zenon DEF ProposersWon
  <2>3. Len(log[i]) + 1 \in 1..Len(log'[i])
    BY <2>1 DEF LogTypes
  <2> QED
    BY <2>2, <2>3, Zenon DEF EntriesOf
<1> HIDE DEF G
<1>3. EntriesIn(G, log, calls)
  BY <1>1, Zenon DEF Follows, EntriesIn
<1>4. EntriesIn(G, log', calls')
  BY <1>2, <1>3, EntriesTravel
<1> QED
  BY <1>4 DEF G, Follows, EntriesIn, EntriesOf

\* The entries of any log are those of the log of s.
LEMMA EntriesOfTheLeader ==
    ASSUME NEW s \in Server, Follows(s), NEW i \in Server, NEW k \in 1..Len(log[i])
    PROVE  k \in 1..Len(log[s]) /\ log[i][k] = log[s][k]
<1>1. <<k, log[i][k]>> \in EntriesOf(log[s])
  BY Zenon DEF Follows, EntriesIn
<1>2. PICK n \in 1..Len(log[s]) : <<k, log[i][k]>> = <<n, log[s][n]>>
  BY <1>1, Zenon DEF EntriesOf
<1> QED
  BY <1>2

\* What any server has applied is in the log of s.
AppliedInLog(s) ==
    \A a \in applied : a[1] \in 1..Len(log[s]) /\ a = <<a[1], log[s][a[1]]>>

LEMMA NextAppliedInLog ==
    ASSUME NEW s \in Server, ElectionInv, LeaderInv, CallsToPeers, ProposersWon, OnlyWinner(s),
           LogTypes, ProposeTypes, ApplyInv, Follows(s), AppliedInLog(s), [RaftNext]_raftVars
    PROVE  AppliedInLog(s)'
<1>1. ASSUME NEW a \in applied PROVE a[1] \in 1..Len(log'[s]) /\ a = <<a[1], log'[s][a[1]]>>
  <2>1. a[1] \in 1..Len(log[s]) /\ a = <<a[1], log[s][a[1]]>>
    BY Zenon DEF AppliedInLog
  <2>2. a[1] \in 1..Len(log'[s])
    BY <2>1, LeaderLogGrows
  <2>3. log'[s][a[1]] = log[s][a[1]]
    BY <2>1, LeaderLogGrows, Zenon
  <2> QED
    BY <2>1, <2>2, <2>3, Zenon
<1>2. ASSUME NEW i \in Server, ApplyOne(i), NEW a \in applied', a \notin applied
      PROVE  a[1] \in 1..Len(log'[s]) /\ a = <<a[1], log'[s][a[1]]>>
  <2>1. log' = log
    BY <1>2, Zenon DEF ApplyOne, logVars
  <2>2. applyNext[i] <= Len(log[i]) /\ a = <<applyNext[i], log[i][applyNext[i]]>>
    BY <1>2, Zenon DEF ApplyOne
  <2>3. applyNext[i] \in 1..Len(log[i])
    BY <2>2 DEF ApplyInv, LogTypes
  <2>4. applyNext[i] \in 1..Len(log[s]) /\ log[i][applyNext[i]] = log[s][applyNext[i]]
    BY <2>3, EntriesOfTheLeader
  <2> QED
    BY <2>1, <2>2, <2>4
<1> QED
  BY <1>1, <1>2, AppliedChanges, Zenon DEF AppliedInLog

\* No server, call or round of applyLoop is ahead of the commit index of s.
CommitInv(s) ==
    /\ applyTo \in [Server -> Nat]
    /\ \A i \in Server : commitIndex[i] <= commitIndex[s] /\ applyTo[i] <= commitIndex[s]
    /\ \A c \in calls : c.commit <= commitIndex[s]
    /\ \A a \in applied : a[1] \in 0..commitIndex[s]

LEMMA CommitChanges ==
    ASSUME [RaftNext]_raftVars
    PROVE  \/ commitIndex' = commitIndex
           \/ \E i \in Server : UpdateCommitIndexSet(i)
           \/ \E c \in calls : AppendEntriesLog(c)
<1> USE DEF logVars
<1>1. ASSUME NEW i \in Server,
             \/ RunStep(i) \/ ElectionTimeout(i) \/ CandidateTimeout(i)
             \/ ApplyBegin(i) \/ ApplyOne(i) \/ Propose(i)
      PROVE  commitIndex' = commitIndex \/ UpdateCommitIndexSet(i)
  BY <1>1, Zenon DEF RunStep, Run, SetCandidate, BecomeCandidate, VoteForSelf, RequestVotes,
       VotesAreIn, BecomeLeader, LoseElection, RunLeader, HeartbeatTick, UpdateCommitIndexRead,
       LeaderCheck, ElectionTimeout, CandidateTimeout, ApplyBegin, ApplyOne,
         Propose, ProposeRole, ProposeTerm, ProposeAppend
<1>2. ASSUME NEW c \in calls,
             \/ SendVoteRequest(c) \/ VoteReply(c)
             \/ SendAppend(c) \/ AppendReply(c) \/ AppendReplyStepDown(c)
             \/ HandlerStep(c) \/ ContextExpires(c) \/ CallFails(c)
      PROVE  commitIndex' = commitIndex \/ AppendEntriesLog(c)
  BY <1>2, Zenon DEF SendVoteRequest, VoteReply, SendAppend, ReadNextIndex,
         ReadPrevLogTerm, ReadEntries, SendAppendRequest, AppendReply,
       AppendReplyStepDown, HandlerStep, RequestVoteTerm, RequestVoteDecide, AppendEntriesTerm,
       ContextExpires, CallFails
<1>3. CASE UNCHANGED raftVars
  BY <1>3 DEF raftVars
<1> QED
  BY <1>1, <1>2, <1>3, Zenon DEF RaftNext

LEMMA ApplyToChanges ==
    ASSUME [RaftNext]_raftVars
    PROVE  applyTo' = applyTo \/ \E i \in Server : ApplyBegin(i)
<1> USE DEF applyVars
<1>1. ASSUME NEW i \in Server,
             \/ RunStep(i) \/ ElectionTimeout(i) \/ CandidateTimeout(i)
             \/ ApplyOne(i) \/ Propose(i)
      PROVE  applyTo' = applyTo
  BY <1>1, Zenon DEF RunStep, Run, SetCandidate, BecomeCandidate, VoteForSelf, RequestVotes,
       VotesAreIn, BecomeLeader, LoseElection, RunLeader, HeartbeatTick, UpdateCommitIndexRead,
       UpdateCommitIndexSet, LeaderCheck, ElectionTimeout, CandidateTimeout, ApplyOne,
         Propose, ProposeRole, ProposeTerm, ProposeAppend
<1>2. ASSUME NEW c \in calls,
             \/ SendVoteRequest(c) \/ VoteReply(c)
             \/ SendAppend(c) \/ AppendReply(c) \/ AppendReplyStepDown(c)
             \/ HandlerStep(c) \/ ContextExpires(c) \/ CallFails(c)
      PROVE  applyTo' = applyTo
  BY <1>2, Zenon DEF SendVoteRequest, VoteReply, SendAppend, ReadNextIndex,
         ReadPrevLogTerm, ReadEntries, SendAppendRequest, AppendReply,
       AppendReplyStepDown, HandlerStep, RequestVoteTerm, RequestVoteDecide, AppendEntriesTerm,
       AppendEntriesLog, ContextExpires, CallFails
<1>3. CASE UNCHANGED raftVars
  BY <1>3 DEF raftVars
<1> QED
  BY <1>1, <1>2, <1>3, Zenon DEF RaftNext

\* The commit index of s only rises, and no other one rises above it.
LEMMA LeaderCommitsFirst ==
    ASSUME NEW s \in Server, ElectionInv, LeaderInv, CallsToPeers, OnlyWinner(s), LogTypes,
           LogTypes', CommitInv(s), [RaftNext]_raftVars
    PROVE  /\ commitIndex[s] <= commitIndex'[s]
           /\ \A i \in Server : commitIndex'[i] <= commitIndex'[s]
<1>0. /\ commitIndex \in [Server -> Nat] /\ newCommit \in [Server -> Nat]
      /\ \A i \in Server : commitIndex[i] <= commitIndex[s]
  BY RaftAssumption DEF LogTypes, CommitInv
<1>1. ASSUME NEW i \in Server, UpdateCommitIndexSet(i)
      PROVE  /\ commitIndex[s] <= commitIndex'[s]
             /\ \A j \in Server : commitIndex'[j] <= commitIndex'[s]
  <2>1. i = s
    <3>1. Won(i)
      BY <1>1, Zenon DEF UpdateCommitIndexSet, Goto, LeaderInv
    <3> QED
      BY <3>1, WonAlone, Zenon
  <2>2. PICK x \in Nat : commitIndex' = [commitIndex EXCEPT ![s] = x] /\ x >= commitIndex[s]
    <3> DEFINE x == IF newCommit[s] > commitIndex[s]
                          /\ TermAt(log[s], newCommit[s]) = currentTerm[s]
                    THEN newCommit[s] ELSE commitIndex[s]
    <3>1. commitIndex' = [commitIndex EXCEPT ![s] = x]
      BY <1>1, <2>1, Zenon DEF UpdateCommitIndexSet
    <3>2. x \in Nat /\ x >= commitIndex[s]
      BY <1>0
    <3> QED
      BY <3>1, <3>2, Zenon
  <2> QED
    BY <1>0, <2>2
<1>2. ASSUME NEW c \in calls, AppendEntriesLog(c)
      PROVE  /\ commitIndex[s] <= commitIndex'[s]
             /\ \A j \in Server : commitIndex'[j] <= commitIndex'[s]
  <2> DEFINE x == CommitUpTo(c, commitIndex[c.to])
  <2>1. c.to # s /\ c.to \in Server
    <3>1. c.kind = "append"
      BY <1>2, Zenon DEF AppendEntriesLog, InHandler
    <3> QED
      BY <3>1, AppendsOfTheLeader, Zenon
  <2>2. /\ c.index \in Nat /\ Len(c.entries) \in Nat /\ c.commit \in Nat
        /\ c.commit <= commitIndex[s]
    BY RaftAssumption DEF LogTypes, CallLogOK, CommitInv
  <2>3. x \in Nat /\ x <= commitIndex[s]
    BY <1>0, <2>1, <2>2 DEF CommitUpTo
  <2>4. commitIndex' = commitIndex \/ commitIndex' = [commitIndex EXCEPT ![c.to] = x]
    BY <1>2, Zenon DEF AppendEntriesLog, logVars
  <2> HIDE DEF x
  <2> QED
    BY <1>0, <2>1, <2>3, <2>4
<1> QED
  BY <1>0, <1>1, <1>2, CommitChanges

LEMMA NextCommitInv ==
    ASSUME NEW s \in Server, ElectionInv, LeaderInv, CallsToPeers, OnlyWinner(s), LogTypes,
           LogTypes', ApplyInv, CommitInv(s), [RaftNext]_raftVars
    PROVE  CommitInv(s)'
<1>0. /\ commitIndex \in [Server -> Nat] /\ commitIndex' \in [Server -> Nat]
      /\ applyTo \in [Server -> Nat]
  BY RaftAssumption DEF LogTypes, CommitInv
<1>1. /\ commitIndex[s] <= commitIndex'[s]
      /\ \A i \in Server : commitIndex'[i] <= commitIndex'[s]
  BY LeaderCommitsFirst
<1>2. /\ applyTo' \in [Server -> Nat]
      /\ \A i \in Server : applyTo'[i] <= commitIndex[s]
  <2>1. ASSUME NEW i \in Server, ApplyBegin(i)
        PROVE  applyTo' = [applyTo EXCEPT ![i] = commitIndex[i]]
    BY <2>1 DEF ApplyBegin
  <2> QED
    BY <1>0, <2>1, ApplyToChanges DEF CommitInv
<1>3. ASSUME NEW d \in calls' PROVE d.commit \in Nat /\ d.commit <= commitIndex[s]
  <2>1. ASSUME NEW c \in calls
        PROVE  /\ c.commit \in Nat /\ c.commit <= commitIndex[s]
               /\ c.kind = "append" => c.from = s
    <3>1. CallLogOK(c)
      BY Zenon DEF LogTypes
    <3>2. c.commit \in Nat
      BY <3>1, RaftAssumption DEF CallLogOK
    <3>3. c.commit <= commitIndex[s]
      BY Zenon DEF CommitInv
    <3>4. c.kind = "append" => c.from = s
      BY AppendsOfTheLeader, Zenon
    <3> QED
      BY <3>2, <3>3, <3>4
  <2>2. ASSUME NEW i, NEW j, NEW kind, NEW t, d = NewCall(kind, i, j, t)
        PROVE  d.commit = 0
    BY <2>2 DEF NewCall
  <2>3. ASSUME NEW c \in calls, ReadFor(d, c)
        PROVE  d.commit = c.commit \/ d.commit = commitIndex[s]
    BY <2>1, <2>3, Zenon DEF ReadFor
  <2>4. d.commit = 0 \/ d.commit = commitIndex[s] \/ \E c \in calls : d.commit = c.commit
    BY <2>2, <2>3, CallOrigins, Zenon DEF Origin, SameRequest
  <2> QED
    BY <1>0, <2>1, <2>4
<1>4. ASSUME NEW a \in applied' PROVE a[1] \in 0..commitIndex[s]
  <2>1. ASSUME NEW i \in Server, ApplyOne(i), a \notin applied PROVE a[1] \in 0..commitIndex[s]
    <3>1. /\ applyNext[i] <= applyTo[i]
          /\ a \in applied \cup (IF applyNext[i] <= Len(log[i])
                                 THEN {<<applyNext[i], log[i][applyNext[i]]>>} ELSE {})
      BY <2>1, Zenon DEF ApplyOne
    <3>2. a[1] = applyNext[i]
      BY <2>1, <3>1
    <3>3. applyTo[i] <= commitIndex[s] /\ applyNext[i] \in Nat
      BY DEF CommitInv, ApplyInv
    <3> QED
      BY <1>0, <3>1, <3>2, <3>3
  <2> QED
    BY <2>1, AppliedChanges DEF CommitInv
<1> QED
  BY <1>0, <1>1, <1>2, <1>3, <1>4 DEF CommitInv

\* What holds of a server as long as no other one has won an election.
FollowInv ==
    \A s \in Server : OnlyWinner(s) => Follows(s) /\ AppliedInLog(s) /\ CommitInv(s)

LEMMA FollowInvHolds == RaftSpec => [](CallsToPeers /\ ProposersWon /\ FollowInv)
<1>1. RaftInit => CallsToPeers /\ ProposersWon /\ FollowInv
  <2> SUFFICES ASSUME RaftInit PROVE CallsToPeers /\ ProposersWon /\ FollowInv
    OBVIOUS
  <2>1. /\ calls = {} /\ applied = {} /\ applyTo = [i \in Server |-> 0]
        /\ commitIndex = [i \in Server |-> 0]
        /\ \A i \in Server : Len(log[i]) = 0 /\ proposing[i] = {}
    BY DEF RaftInit
  <2>2. ASSUME NEW s \in Server PROVE Follows(s) /\ AppliedInLog(s) /\ CommitInv(s)
    BY <2>1 DEF Follows, EntriesIn, AppliedInLog, CommitInv
  <2> QED
    BY <2>1, <2>2, Zenon DEF CallsToPeers, ProposersWon, FollowInv
<1>2. /\ ElectionInv /\ TypesInv /\ TypesInv' /\ LeaderInv /\ ApplyInv
      /\ CallsToPeers /\ ProposersWon /\ FollowInv /\ [RaftNext]_raftVars
      => (CallsToPeers /\ ProposersWon /\ FollowInv)'
  <2> SUFFICES ASSUME ElectionInv, TypesInv, TypesInv', LeaderInv, ApplyInv, CallsToPeers,
                      ProposersWon, FollowInv, [RaftNext]_raftVars
               PROVE  (CallsToPeers /\ ProposersWon /\ FollowInv)'
    OBVIOUS
  <2>0. LogTypes /\ LogTypes' /\ ProposeTypes
    BY Zenon DEF TypesInv
  <2>1. ASSUME NEW s \in Server, OnlyWinner(s)'
        PROVE  Follows(s)' /\ AppliedInLog(s)' /\ CommitInv(s)'
    <3>1. OnlyWinner(s)
      BY <2>1, WinnersGrow, Zenon DEF OnlyWinner
    <3>2. Follows(s) /\ AppliedInLog(s) /\ CommitInv(s)
      BY <3>1, Zenon DEF FollowInv
    <3> QED
      BY <2>0, <3>1, <3>2, NextFollows, NextAppliedInLog, NextCommitInv, Zenon
  <2> QED
    BY <2>0, <2>1, NextCallsToPeers, NextProposersWon, Zenon DEF FollowInv
<1> QED
  BY <1>1, <1>2, ElectionInductive, TypesInvHolds, LeaderInvHolds, ApplyInvHolds, PTL DEF RaftSpec

(***************************************************************************)
(* LogsFollowTheorem: as long as only one server has won elections, in     *)
(* however many terms, every log agrees with that server's entry by entry, *)
(* for any number of servers, candidates, entries and overlapping calls:   *)
(* HandleAppendEntries, which truncates the log whatever the entries are,  *)
(* cannot make a log differ, only shorten it.                              *)
(***************************************************************************)
THEOREM LogsFollowTheorem == RaftSpec => []LogsFollowTheLeader
<1>1. FollowInv => LogsFollowTheLeader
  BY EntriesOfTheLeader, Zenon DEF FollowInv, LogsFollowTheLeader
<1> QED
  BY <1>1, FollowInvHolds, PTL

(***************************************************************************)
(* AppliedStaysTheorem: as long as only one server has won elections, what *)
(* any server hands to applyFunc is committed there and stays so, although *)
(* overlapping requests lower the commit index and shorten the log of a    *)
(* follower, and applyLoop goes on to a commit index that it read before.  *)
(***************************************************************************)
THEOREM AppliedStaysTheorem == RaftSpec => []AppliedStaysCommitted
<1>1. TypesInv /\ FollowInv => AppliedStaysCommitted
  <2> SUFFICES ASSUME TypesInv, FollowInv, NEW s \in Server, OnlyWinner(s), NEW a \in applied
               PROVE  a[1] <= commitIndex[s] /\ a[1] <= Len(log[s]) /\ a[2] = log[s][a[1]]
    BY Zenon DEF AppliedStaysCommitted
  <2>1. a[1] \in 1..Len(log[s]) /\ a = <<a[1], log[s][a[1]]>>
    BY Zenon DEF FollowInv, AppliedInLog
  <2>2. a[1] \in 0..commitIndex[s]
    BY Zenon DEF FollowInv, CommitInv
  <2>3. a[2] = log[s][a[1]]
    BY <2>1
  <2>4. Len(log[s]) \in Nat /\ commitIndex[s] \in Nat
    BY RaftAssumption DEF TypesInv, LogTypes
  <2> QED
    BY <2>1, <2>2, <2>3, <2>4
<1> QED
  BY <1>1, TypesInvHolds, FollowInvHolds, PTL

=============================================================================
