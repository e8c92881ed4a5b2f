----------------------------- MODULE RaftProofs -----------------------------
(***************************************************************************)
(* Elections and the apply loop for any number of servers, terms, entries  *)
(* and calls in flight: whoever becomes leader had a majority, no term has *)
(* two winners unless a server voted twice in it, the leaders that servers *)
(* report were elected, and applyLoop never goes back.                     *)
(***************************************************************************)
EXTENDS Raft, FiniteSetTheorems, TLAPS

Fields == {"kind", "from", "to", "term", "status", "index", "logTerm", "entries",
           "commit", "replyTerm", "ok"}
Shaped(c) == c = [x \in Fields |-> c[x]]

\* What the elections need of the types.
CallOK(c) ==
    /\ Shaped(c)
    /\ c.kind \in {"vote", "append"} /\ c.status \in Status
    /\ c.from \in Server /\ c.to \in Server /\ c.term \in Nat /\ c.replyTerm \in Nat

CallsOK == \A c \in calls : CallOK(c)

ControlOK ==
    /\ pc \in [Server -> PC]
    /\ currentTerm \in [Server -> Nat] /\ term \in [Server -> Nat] /\ votes \in [Server -> Nat]
    /\ state \in [Server -> {"Follower", "Candidate", "Leader"}]
    /\ leaderID \in [Server -> Server \cup {NoServer}]

\* A vote call whose goroutine runCandidate waits for.
Open(c) == c.kind = "vote" /\ c.status \in {"new", "sent", "handling", "replied"}

\* A server can have one open vote call per peer, of its current candidacy, and
\* none after runCandidate has returned.
OneOpenCall ==
    /\ \A c \in calls : Open(c) => c.term = term[c.from] /\ pc[c.from] = "gather"
    /\ \A c, d \in calls : Open(c) /\ Open(d) /\ c.from = d.from /\ c.to = d.to => c = d

\* A reply that carries a vote stands for a vote given.
RepliesAreGrants ==
    \A c \in calls : Open(c) /\ c.status = "replied" /\ c.ok => <<c.to, c.from, c.term>> \in grants

Voters(i, t) == {v \in Server : <<v, i, t>> \in grants}
Asked(i) == {v \in Server : \E c \in calls : Open(c) /\ c.from = i /\ c.to = v}

\* The votes counted were given by servers whose calls are over.
VotesAreGrants ==
    \A i \in Server :
        /\ pc[i] = "request" => <<i, i, term[i]>> \in grants
        /\ pc[i] \in {"gather", "count"} => votes[i] <= Cardinality(Voters(i, term[i]) \ Asked(i))

\* The inductive invariant for ElectedByMajority.
ElectionInv ==
    /\ CallsOK /\ ControlOK
    /\ OneOpenCall /\ RepliesAreGrants /\ VotesAreGrants
    /\ ElectedByMajority

-----------------------------------------------------------------------------
\* What the updates of a call leave alone.
LEMMA NewCallFields ==
    ASSUME NEW kind, NEW i, NEW j, NEW t
    PROVE  LET d == NewCall(kind, i, j, t) IN
           /\ Shaped(d) /\ d.kind = kind /\ d.status = "new" /\ d.from = i /\ d.to = j
           /\ d.term = t /\ d.replyTerm = 0
BY DEF Shaped, Fields, NewCall

LEMMA StatusFields ==
    ASSUME NEW c, Shaped(c), NEW s
    PROVE  LET d == [c EXCEPT !.status = s] IN
           /\ Shaped(d) /\ d.status = s
           /\ d.kind = c.kind /\ d.from = c.from /\ d.to = c.to /\ d.term = c.term
           /\ d.replyTerm = c.replyTerm /\ d.ok = c.ok
BY DEF Shaped, Fields

LEMMA CancelledFields ==
    ASSUME NEW c, CallOK(c), c.status \in {"sent", "handling", "replied"}
    PROVE  LET d == Cancelled(c) IN
           /\ CallOK(d) /\ ~Open(d) /\ d.kind = c.kind /\ d.from = c.from
           /\ d.to = c.to /\ d.term = c.term
<1>1. CASE c.status = "sent"
  <2>1. Cancelled(c) = [c EXCEPT !.status = "orphan"]
    BY <1>1 DEF Cancelled
  <2> QED
    BY <2>1, StatusFields DEF CallOK, Open, Status
<1>2. CASE c.status = "handling"
  <2>1. Cancelled(c) = [c EXCEPT !.status = "handledOrphan"]
    BY <1>2 DEF Cancelled
  <2> QED
    BY <2>1, StatusFields DEF CallOK, Open, Status
<1>3. CASE c.status = "replied"
  <2>1. Cancelled(c) = [c EXCEPT !.status = "stray"]
    BY <1>3 DEF Cancelled
  <2> QED
    BY <2>1, StatusFields DEF CallOK, Open, Status
<1> QED
  BY <1>1, <1>2, <1>3

\* What takes the place of a call, if anything, is the same call a step further.
Onward(c, E) ==
    /\ \A e \in E : /\ CallOK(e) /\ e.kind = c.kind /\ e.from = c.from /\ e.to = c.to
                    /\ e.term = c.term /\ (Open(e) => Open(c))
    /\ \A e, f \in E : e = f

LEMMA CallStep ==
    ASSUME ElectionInv, NEW c \in calls, NEW E, calls' = (calls \ {c}) \cup E,
           Onward(c, E),
           \A e \in E : Open(e) /\ e.status = "replied" /\ e.ok => <<e.to, e.from, e.term>> \in grants',
           grants \subseteq grants', term' = term, pc' = pc
    PROVE  CallsOK' /\ OneOpenCall' /\ RepliesAreGrants' /\ \A i \in Server : Asked(i)' \subseteq Asked(i)
<1>1. CallsOK'
  BY DEF ElectionInv, CallsOK, Onward
<1>2. OneOpenCall'
  BY DEF ElectionInv, OneOpenCall, Onward
<1>3. RepliesAreGrants'
  BY DEF ElectionInv, RepliesAreGrants, Onward
<1>4. \A i \in Server : Asked(i)' \subseteq Asked(i)
  BY DEF Asked, Onward
<1> QED
  BY <1>1, <1>2, <1>3, <1>4

\* Votes counted are still covered when more votes are given and calls end.
LEMMA CountsStay ==
    ASSUME ElectionInv, NEW i \in Server, grants \subseteq grants', term'[i] = term[i],
           Asked(i)' \subseteq Asked(i), votes'[i] = votes[i],
           pc[i] \in {"gather", "count"}
    PROVE  votes'[i] <= Cardinality(Voters(i, term[i])' \ Asked(i)')
<1> DEFINE A == Voters(i, term[i]) \ Asked(i)
           B == Voters(i, term[i])' \ Asked(i)'
<1>1. A \subseteq B
  BY DEF Voters
<1>2. IsFiniteSet(B)
  <2>1. B \subseteq Server
    BY DEF Voters
  <2> QED
    BY <2>1, RaftAssumption, FS_Subset
<1>3. IsFiniteSet(A) /\ Cardinality(A) <= Cardinality(B)
  BY <1>1, <1>2, FS_Subset
<1>4. Cardinality(A) \in Nat /\ Cardinality(B) \in Nat
  BY <1>2, <1>3, FS_CardinalityType
<1>5. votes[i] <= Cardinality(A) /\ votes[i] \in Nat
  BY Zenon DEF ElectionInv, VotesAreGrants, ControlOK
<1> QED
  BY <1>3, <1>4, <1>5

\* A majority stays one.
LEMMA MajoritiesStay ==
    ASSUME ElectionInv, grants \subseteq grants', winners' = winners
    PROVE  ElectedByMajority'
<1> SUFFICES ASSUME NEW w \in winners
             PROVE  2 * Cardinality(Voters(w[1], w[2])') > Cardinality(Server)
  BY DEF ElectedByMajority, Voters
<1>1. /\ Voters(w[1], w[2]) \subseteq Voters(w[1], w[2])'
      /\ Voters(w[1], w[2])' \subseteq Server
  BY DEF Voters
<1>2. /\ IsFiniteSet(Voters(w[1], w[2])') /\ IsFiniteSet(Server)
      /\ Cardinality(Voters(w[1], w[2])) <= Cardinality(Voters(w[1], w[2])')
      /\ Cardinality(Voters(w[1], w[2])) \in Nat /\ Cardinality(Voters(w[1], w[2])') \in Nat
      /\ Cardinality(Server) \in Nat
  BY <1>1, RaftAssumption, FS_Subset, FS_CardinalityType
<1>3. 2 * Cardinality(Voters(w[1], w[2])) > Cardinality(Server)
  BY DEF ElectionInv, ElectedByMajority, Voters
<1> QED
  BY <1>2, <1>3

\* The steps that count no vote and start no candidacy.
LEMMA QuietStep ==
    ASSUME ElectionInv, ControlOK', CallsOK', OneOpenCall', RepliesAreGrants',
           grants \subseteq grants', winners' = winners, term' = term, votes' = votes,
           \A i \in Server :
              /\ Asked(i)' \subseteq Asked(i)
              /\ pc'[i] \in {"gather", "count"} => pc[i] \in {"gather", "count"}
              /\ pc'[i] = "request" => pc[i] = "request" \/ <<i, i, term[i]>> \in grants'
    PROVE  ElectionInv'
<1>1. VotesAreGrants'
  <2> SUFFICES ASSUME NEW i \in Server
               PROVE  /\ pc'[i] = "request" => <<i, i, term'[i]>> \in grants'
                      /\ pc'[i] \in {"gather", "count"} =>
                            votes'[i] <= Cardinality(Voters(i, term[i])' \ Asked(i)')
    BY DEF VotesAreGrants, Voters
  <2>1. pc'[i] = "request" => <<i, i, term'[i]>> \in grants'
    BY Zenon DEF ElectionInv, VotesAreGrants
  <2>2. pc'[i] \in {"gather", "count"} =>
           votes'[i] <= Cardinality(Voters(i, term[i])' \ Asked(i)')
    BY CountsStay, Zenon
  <2> QED
    BY <2>1, <2>2
<1>2. ElectedByMajority'
  BY MajoritiesStay
<1> QED
  BY <1>1, <1>2 DEF ElectionInv

\* The steps of run() and applyLoop that make no call.
LEMMA ControlStep ==
    ASSUME ElectionInv, ControlOK', calls' = calls,
           grants \subseteq grants', winners' = winners, term' = term, votes' = votes,
           \A i \in Server :
              /\ pc[i] = "gather" => pc'[i] = "gather" \/ Outstanding(i) = {}
              /\ pc'[i] \in {"gather", "count"} => pc[i] \in {"gather", "count"}
              /\ pc'[i] = "request" => pc[i] = "request" \/ <<i, i, term[i]>> \in grants'
    PROVE  ElectionInv'
<1>1. CallsOK' /\ RepliesAreGrants'
  BY DEF ElectionInv, CallsOK, RepliesAreGrants
<1>2. OneOpenCall'
  <2>1. ASSUME NEW c \in calls, Open(c) PROVE c.term = term'[c.from] /\ pc'[c.from] = "gather"
    <3>1. c.from \in Server /\ c.term = term[c.from] /\ pc[c.from] = "gather"
      BY <2>1 DEF ElectionInv, OneOpenCall, CallsOK, CallOK
    <3>2. c \in Outstanding(c.from)
      BY <2>1 DEF Open, Outstanding
    <3> QED
      BY <3>1, <3>2, Zenon
  <2> QED
    BY <2>1 DEF ElectionInv, OneOpenCall
<1>3. \A i \in Server : Asked(i)' \subseteq Asked(i)
  BY DEF Asked
<1> QED
  BY <1>1, <1>2, <1>3, QuietStep

\* The steps that move one call on, or end it, without counting a vote.
LEMMA HandlerControl ==
    ASSUME ElectionInv, NEW c \in calls, NEW E, calls' = (calls \ {c}) \cup E,
           Onward(c, E),
           \A e \in E : Open(e) /\ e.status = "replied" /\ e.ok => <<e.to, e.from, e.term>> \in grants',
           grants \subseteq grants', winners' = winners, term' = term, votes' = votes,
           pc' = pc, ControlOK'
    PROVE  ElectionInv'
<1>1. CallsOK' /\ OneOpenCall' /\ RepliesAreGrants' /\ \A i \in Server : Asked(i)' \subseteq Asked(i)
  BY CallStep
<1> QED
  BY <1>1, QuietStep

-----------------------------------------------------------------------------
LEMMA RunSteps ==
    ASSUME ElectionInv, NEW i \in Server,
           \/ Run(i) \/ SetCandidate(i) \/ ElectionTimeout(i) \/ VoteForSelf(i) \/ VotesAreIn(i)
           \/ LoseElection(i) \/ UpdateCommitIndexRead(i) \/ UpdateCommitIndexSet(i)
           \/ LeaderCheck(i) \/ ApplyBegin(i) \/ ApplyOne(i) \/ Propose(i)
    PROVE  ElectionInv'
<1>0. ControlOK
  BY DEF ElectionInv
<1>1. CASE Run(i)
  <2>1. ControlOK'
    BY <1>0, <1>1 DEF ControlOK, Run, PC, termVars, candidateVars
  <2> QED
    BY <1>0, <1>1, <2>1, ControlStep DEF Run, ControlOK, termVars, candidateVars, history
<1>2. CASE SetCandidate(i)
  <2>1. ControlOK'
    BY <1>0, <1>2 DEF ControlOK, SetCandidate, Goto, PC, candidateVars
  <2> QED
    BY <1>0, <1>2, <2>1, ControlStep DEF SetCandidate, Goto, ControlOK, candidateVars, history
<1>3. CASE ElectionTimeout(i)
  <2>1. ControlOK'
    BY <1>0, <1>3 DEF ControlOK, ElectionTimeout, Goto, PC, termVars, candidateVars
  <2> QED
    BY <1>0, <1>3, <2>1, ControlStep DEF ElectionTimeout, Goto, ControlOK, candidateVars, history
<1>4. CASE VoteForSelf(i)
  <2>1. ControlOK'
    BY <1>0, <1>4 DEF ControlOK, VoteForSelf, Goto, PC, candidateVars
  <2> QED
    BY <1>0, <1>4, <2>1, ControlStep DEF VoteForSelf, Goto, ControlOK, candidateVars
<1>5. CASE VotesAreIn(i)
  <2>1. ControlOK'
    BY <1>0, <1>5 DEF ControlOK, VotesAreIn, Goto, PC, termVars, candidateVars
  <2> QED
    BY <1>0, <1>5, <2>1, ControlStep DEF VotesAreIn, Goto, ControlOK, candidateVars, history
<1>6. CASE LoseElection(i)
  <2>1. ControlOK'
    BY <1>0, <1>6 DEF ControlOK, LoseElection, Goto, PC, candidateVars
  <2> QED
    BY <1>0, <1>6, <2>1, ControlStep DEF LoseElection, Goto, ControlOK, candidateVars, history
<1>7. CASE UpdateCommitIndexRead(i)
  <2>1. ControlOK'
    BY <1>0, <1>7 DEF ControlOK, UpdateCommitIndexRead, Goto, PC, termVars, candidateVars
  <2> QED
    BY <1>0, <1>7, <2>1, ControlStep DEF UpdateCommitIndexRead, Goto, ControlOK, candidateVars, history
<1>8. CASE UpdateCommitIndexSet(i)
  <2>1. ControlOK'
    BY <1>0, <1>8 DEF ControlOK, UpdateCommitIndexSet, Goto, PC, termVars, candidateVars
  <2> QED
    BY <1>0, <1>8, <2>1, ControlStep DEF UpdateCommitIndexSet, Goto, ControlOK, candidateVars, history
<1>9. CASE LeaderCheck(i)
  <2>1. ControlOK'
    BY <1>0, <1>9 DEF ControlOK, LeaderCheck, Goto, PC, termVars, candidateVars
  <2> QED
    BY <1>0, <1>9, <2>1, ControlStep DEF LeaderCheck, Goto, ControlOK, candidateVars, history
<1>10. CASE ApplyBegin(i) \/ ApplyOne(i) \/ Propose(i)
  <2>1. UNCHANGED <<termVars, candidateVars, pc, calls, grants, winners>>
    BY <1>10, Zenon DEF ApplyBegin, ApplyOne, Propose, ProposeRole, ProposeTerm,
                        ProposeAppend, history
  <2>2. ControlOK'
    BY <1>0, <2>1 DEF ControlOK, termVars, candidateVars
  <2> QED
    BY <1>0, <2>1, <2>2, ControlStep DEF candidateVars
<1> QED
  BY <1>1, <1>2, <1>3, <1>4, <1>5, <1>6, <1>7, <1>8, <1>9, <1>10

LEMMA BecomeCandidateStep ==
    ASSUME ElectionInv, NEW i \in Server, BecomeCandidate(i)
    PROVE  ElectionInv'
<1> USE DEF BecomeCandidate, Goto, history
<1>0. ControlOK /\ CallsOK /\ OneOpenCall
  BY DEF ElectionInv
<1>1. ControlOK'
  BY <1>0 DEF ControlOK, PC
<1>2. CallsOK' /\ RepliesAreGrants'
  BY DEF ElectionInv, CallsOK, RepliesAreGrants
<1>3. OneOpenCall'
  <2>1. ASSUME NEW c \in calls, Open(c) PROVE c.term = term'[c.from] /\ pc'[c.from] = "gather"
    <3>1. c.from \in Server /\ c.term = term[c.from] /\ pc[c.from] = "gather"
      BY <1>0, <2>1 DEF OneOpenCall, CallsOK, CallOK
    <3>2. c.from # i
      BY <3>1
    <3> QED
      BY <1>0, <3>1, <3>2 DEF ControlOK
  <2> QED
    BY <1>0, <2>1 DEF OneOpenCall
<1>4. VotesAreGrants'
  <2> SUFFICES ASSUME NEW j \in Server
               PROVE  /\ pc'[j] = "request" => <<j, j, term'[j]>> \in grants'
                      /\ pc'[j] \in {"gather", "count"} =>
                            votes'[j] <= Cardinality(Voters(j, term[j])' \ Asked(j)')
    BY DEF VotesAreGrants, Voters
  <2>1. CASE j = i
    BY <1>0, <2>1 DEF ControlOK
  <2>2. CASE j # i
    <3>1. pc'[j] = pc[j] /\ term'[j] = term[j] /\ votes'[j] = votes[j]
      BY <1>0, <2>2 DEF ControlOK
    <3>2. Asked(j)' \subseteq Asked(j) /\ grants \subseteq grants'
      BY DEF Asked
    <3>3. pc[j] \in {"gather", "count"} =>
             votes'[j] <= Cardinality(Voters(j, term[j])' \ Asked(j)')
      BY <3>1, <3>2, CountsStay
    <3> QED
      <4>1. pc[j] = "request" => <<j, j, term[j]>> \in grants
        BY Zenon DEF ElectionInv, VotesAreGrants
      <4> QED
        BY <3>1, <3>2, <3>3, <4>1
  <2> QED
    BY <2>1, <2>2
<1>5. ElectedByMajority'
  BY MajoritiesStay
<1> QED
  BY <1>1, <1>2, <1>3, <1>4, <1>5 DEF ElectionInv

LEMMA RequestVotesStep ==
    ASSUME ElectionInv, NEW i \in Server, RequestVotes(i)
    PROVE  ElectionInv'
<1> USE DEF RequestVotes, Goto, history
<1> DEFINE new == {NewCall("vote", i, j, term[i]) : j \in Peers(i)}
<1>0. ControlOK /\ CallsOK /\ OneOpenCall /\ RepliesAreGrants
  BY DEF ElectionInv
<1>1. ControlOK'
  BY <1>0 DEF ControlOK, PC, termVars
<1>2. \A c \in new : /\ CallOK(c) /\ Open(c) /\ c.from = i /\ c.term = term[i] /\ c.status = "new"
                     /\ c.to \in Peers(i) /\ c = NewCall("vote", i, c.to, term[i])
  <2> SUFFICES ASSUME NEW j \in Peers(i), NEW c, c = NewCall("vote", i, j, term[i])
               PROVE  /\ CallOK(c) /\ Open(c) /\ c.from = i /\ c.term = term[i] /\ c.status = "new"
                      /\ c.to \in Peers(i) /\ c = NewCall("vote", i, c.to, term[i])
    OBVIOUS
  <2>1. /\ Shaped(c) /\ c.kind = "vote" /\ c.status = "new" /\ c.from = i /\ c.to = j
        /\ c.term = term[i] /\ c.replyTerm = 0
    BY NewCallFields
  <2>2. j \in Server /\ term[i] \in Nat
    BY <1>0 DEF Peers, ControlOK
  <2> QED
    BY <2>1, <2>2 DEF CallOK, Open, Status
<1>3. calls' = calls \cup new
  OBVIOUS
<1>4. \A c \in calls : Open(c) => c.from # i
  BY <1>0 DEF OneOpenCall
<1> HIDE DEF new
<1>5. CallsOK'
  BY <1>0, <1>2, <1>3 DEF CallsOK
<1>6. OneOpenCall'
  <2>1. \A c \in calls' : Open(c) => c.term = term'[c.from] /\ pc'[c.from] = "gather"
    BY <1>0, <1>2, <1>3, <1>4 DEF OneOpenCall, CallsOK, CallOK, ControlOK
  <2>2. \A c, d \in calls' : Open(c) /\ Open(d) /\ c.from = d.from /\ c.to = d.to => c = d
    BY <1>0, <1>2, <1>3, <1>4 DEF OneOpenCall
  <2> QED
    BY <2>1, <2>2 DEF OneOpenCall
<1>7. RepliesAreGrants'
  BY <1>0, <1>2, <1>3 DEF RepliesAreGrants
<1>8. VotesAreGrants'
  <2> SUFFICES ASSUME NEW j \in Server
               PROVE  /\ pc'[j] = "request" => <<j, j, term'[j]>> \in grants'
                      /\ pc'[j] \in {"gather", "count"} =>
                            votes'[j] <= Cardinality(Voters(j, term[j])' \ Asked(j)')
    BY DEF VotesAreGrants, Voters
  <2>1. CASE j = i
    <3> DEFINE B == Voters(i, term[i])' \ Asked(i)'
    <3>1. i \notin Asked(i)'
      BY <1>2, <1>3, <1>4 DEF Asked, Peers
    <3>2. i \in Voters(i, term[i])'
      BY Zenon DEF ElectionInv, VotesAreGrants, Voters
    <3>3. {i} \subseteq B /\ B \subseteq Server
      BY <3>1, <3>2 DEF Voters
    <3> HIDE DEF B
    <3>4. IsFiniteSet(B) /\ Cardinality({i}) <= Cardinality(B) /\ Cardinality({i}) = 1
      <4> HIDE DEF RequestVotes, Goto, history
      <4>1. IsFiniteSet(B)
        BY <3>3, RaftAssumption, FS_Subset
      <4> QED
        BY <3>3, <4>1, FS_Subset, FS_Singleton, Zenon
    <3>5. votes'[i] = 1 /\ pc'[i] = "gather"
      BY <1>0 DEF ControlOK
    <3> QED
      BY <2>1, <3>4, <3>5 DEF B
  <2>2. CASE j # i
    <3>1. pc'[j] = pc[j] /\ term'[j] = term[j] /\ votes'[j] = votes[j]
      BY <1>0, <2>2 DEF ControlOK
    <3>2. Asked(j)' \subseteq Asked(j) /\ grants \subseteq grants'
      BY <1>2, <1>3, <2>2 DEF Asked
    <3>3. pc[j] \in {"gather", "count"} =>
             votes'[j] <= Cardinality(Voters(j, term[j])' \ Asked(j)')
      BY <3>1, <3>2, CountsStay
    <3> QED
      BY <3>1, <3>3, Zenon DEF ElectionInv, VotesAreGrants, Voters
  <2> QED
    BY <2>1, <2>2
<1>9. ElectedByMajority'
  BY MajoritiesStay
<1> QED
  BY <1>1, <1>5, <1>6, <1>7, <1>8, <1>9 DEF ElectionInv

LEMMA CandidateTimeoutStep ==
    ASSUME ElectionInv, NEW i \in Server, CandidateTimeout(i)
    PROVE  ElectionInv'
<1> USE DEF CandidateTimeout, Goto, history, candidateVars, termVars
<1>0. ControlOK /\ CallsOK /\ OneOpenCall /\ RepliesAreGrants
  BY DEF ElectionInv
<1>1. ControlOK'
  BY <1>0 DEF ControlOK, PC
<1>2. \A d \in calls' : CallOK(d) /\ (Open(d) => d \in calls /\ d.from # i)
  <2> SUFFICES ASSUME NEW d \in calls'
               PROVE  CallOK(d) /\ (Open(d) => d \in calls /\ d.from # i)
    OBVIOUS
  <2>1. CASE d \in calls \ Outstanding(i)
    BY <1>0, <2>1 DEF Outstanding, Open, CallsOK
  <2>2. CASE d \notin calls \ Outstanding(i)
    <3>1. PICK c \in Outstanding(i) : c.status # "new" /\ d = Cancelled(c)
      BY <2>2 DEF Cancel
    <3>2. CallOK(c) /\ c.status \in {"sent", "handling", "replied"}
      BY <1>0, <3>1 DEF Outstanding, CallsOK
    <3> QED
      BY <3>1, <3>2, CancelledFields
  <2> QED
    BY <2>1, <2>2
<1>3. CallsOK' /\ RepliesAreGrants'
  BY <1>0, <1>2 DEF CallsOK, RepliesAreGrants
<1>4. OneOpenCall'
  <2>1. \A c \in calls' : Open(c) => c.term = term'[c.from] /\ pc'[c.from] = "gather"
    BY <1>0, <1>2 DEF OneOpenCall, CallOK, ControlOK
  <2> QED
    BY <1>0, <1>2, <2>1 DEF OneOpenCall
<1>5. \A j \in Server : Asked(j)' \subseteq Asked(j)
  BY <1>2 DEF Asked
<1>6. \A j \in Server : /\ pc'[j] \in {"gather", "count"} => pc[j] \in {"gather", "count"}
                        /\ pc'[j] = "request" => pc[j] = "request"
  BY <1>0 DEF ControlOK
<1>7. /\ grants \subseteq grants' /\ winners' = winners /\ term' = term /\ votes' = votes
  OBVIOUS
<1> QED
  BY <1>1, <1>3, <1>4, <1>5, <1>6, <1>7, QuietStep

LEMMA BecomeLeaderStep ==
    ASSUME ElectionInv, NEW i \in Server, BecomeLeader(i)
    PROVE  ElectionInv'
<1> USE DEF BecomeLeader, Goto, candidateVars
<1>0. ControlOK /\ CallsOK /\ OneOpenCall
  BY DEF ElectionInv
<1>1. ControlOK'
  BY <1>0 DEF ControlOK, PC
<1>2. CallsOK' /\ RepliesAreGrants'
  BY DEF ElectionInv, CallsOK, RepliesAreGrants
<1>3. OneOpenCall'
  BY <1>0 DEF OneOpenCall, CallsOK, CallOK, ControlOK
<1>4. VotesAreGrants'
  <2> SUFFICES ASSUME NEW j \in Server
               PROVE  /\ pc'[j] = "request" => <<j, j, term'[j]>> \in grants'
                      /\ pc'[j] \in {"gather", "count"} =>
                            votes'[j] <= Cardinality(Voters(j, term[j])' \ Asked(j)')
    BY DEF VotesAreGrants, Voters
  <2>1. /\ pc'[j] = "request" => pc[j] = "request"
        /\ pc'[j] \in {"gather", "count"} => pc[j] \in {"gather", "count"}
    BY <1>0 DEF ControlOK
  <2>2. Asked(j)' \subseteq Asked(j) /\ grants \subseteq grants' /\ term'[j] = term[j]
          /\ votes'[j] = votes[j]
    BY DEF Asked
  <2>3. pc[j] \in {"gather", "count"} =>
           votes'[j] <= Cardinality(Voters(j, term[j])' \ Asked(j)')
    BY <2>2, CountsStay
  <2>4. pc[j] = "request" => <<j, j, term[j]>> \in grants
    BY Zenon DEF ElectionInv, VotesAreGrants
  <2> QED
    BY <2>1, <2>2, <2>3, <2>4
<1>5. ElectedByMajority'
  <2>1. 2 * Cardinality(Voters(i, term[i])) > Cardinality(Server)
    <3> DEFINE A == Voters(i, term[i]) \ Asked(i)
    <3>1. A \subseteq Voters(i, term[i]) /\ Voters(i, term[i]) \subseteq Server
      BY DEF Voters
    <3>2. IsFiniteSet(Voters(i, term[i])) /\ IsFiniteSet(A) /\ IsFiniteSet(Server)
      BY <3>1, RaftAssumption, FS_Subset
    <3>3. Cardinality(A) <= Cardinality(Voters(i, term[i]))
      BY <3>1, <3>2, FS_Subset
    <3>4. /\ Cardinality(A) \in Nat /\ Cardinality(Voters(i, term[i])) \in Nat
          /\ Cardinality(Server) \in Nat
      BY <3>2, FS_CardinalityType
    <3>5. votes[i] <= Cardinality(A) /\ votes[i] \in Nat
      BY <1>0, Zenon DEF ElectionInv, VotesAreGrants, ControlOK
    <3>6. votes[i] >= Cardinality(Server) \div 2 + 1
      BY DEF VotesNeeded
    <3> QED
      BY <3>3, <3>4, <3>5, <3>6
  <2>2. \A w \in winners : 2 * Cardinality(Voters(w[1], w[2])) > Cardinality(Server)
    BY DEF ElectionInv, ElectedByMajority, Voters
  <2>3. \A w \in winners' : w \in winners \/ (w[1] = i /\ w[2] = term[i])
    <3>1. winners' = winners \cup {<<i, term[i]>>}
      OBVIOUS
    <3> HIDE DEF BecomeLeader
    <3> QED
      BY <3>1
  <2>4. \A w \in winners' : 2 * Cardinality(Voters(w[1], w[2])) > Cardinality(Server)
    BY <2>1, <2>2, <2>3
  <2> QED
    BY <2>4 DEF ElectedByMajority, Voters
<1> QED
  BY <1>1, <1>2, <1>3, <1>4, <1>5 DEF ElectionInv

LEMMA HeartbeatSteps ==
    ASSUME ElectionInv, NEW i \in Server, RunLeader(i) \/ HeartbeatTick(i)
    PROVE  ElectionInv'
<1> USE DEF RunLeader, HeartbeatTick, Goto, candidateVars, termVars, history
<1>0. ControlOK /\ CallsOK /\ OneOpenCall /\ RepliesAreGrants
  BY DEF ElectionInv
<1>1. ControlOK'
  BY <1>0 DEF ControlOK, PC
<1>2. PICK P \in SUBSET Peers(i) :
         calls' = calls \cup {NewCall("append", i, j, currentTerm[i]) : j \in P}
  BY DEF SendHeartbeats
<1>3. \A d \in calls' : CallOK(d) /\ (Open(d) => d \in calls)
  <2> SUFFICES ASSUME NEW j \in P, NEW d, d = NewCall("append", i, j, currentTerm[i])
               PROVE  CallOK(d) /\ ~Open(d)
    BY <1>0, <1>2 DEF CallsOK
  <2>1. /\ Shaped(d) /\ d.kind = "append" /\ d.status = "new" /\ d.from = i /\ d.to = j
        /\ d.term = currentTerm[i] /\ d.replyTerm = 0
    BY NewCallFields
  <2>2. j \in Server /\ currentTerm[i] \in Nat
    BY <1>0 DEF Peers, ControlOK
  <2> QED
    BY <2>1, <2>2 DEF CallOK, Open, Status
<1>4. CallsOK' /\ RepliesAreGrants'
  BY <1>0, <1>3 DEF CallsOK, RepliesAreGrants
<1>5. OneOpenCall'
  <2>1. \A c \in calls' : Open(c) => c.term = term'[c.from] /\ pc'[c.from] = "gather"
    BY <1>0, <1>3 DEF OneOpenCall, CallOK, ControlOK
  <2> QED
    BY <1>0, <1>3, <2>1 DEF OneOpenCall
<1>6. \A j \in Server : Asked(j)' \subseteq Asked(j)
  BY <1>3 DEF Asked
<1>7. \A j \in Server : /\ pc'[j] \in {"gather", "count"} => pc[j] \in {"gather", "count"}
                        /\ pc'[j] = "request" => pc[j] = "request"
  BY <1>0 DEF ControlOK
<1>8. grants \subseteq grants' /\ winners' = winners /\ term' = term /\ votes' = votes
  OBVIOUS
<1> QED
  BY <1>1, <1>4, <1>5, <1>6, <1>7, <1>8, QuietStep

-----------------------------------------------------------------------------
LEMMA NothingFollows ==
    ASSUME NEW c
    PROVE  Onward(c, {})
BY DEF Onward

LEMMA AnswerGoesOn ==
    ASSUME NEW c \in calls, CallOK(c), NEW t \in Nat, NEW ok, Answer(c, t, ok)
    PROVE  \E E : /\ calls' = (calls \ {c}) \cup E /\ Onward(c, E)
                  /\ \A e \in E : e.ok = ok
<1>1. CASE c.status \in {"sent", "handling"}
  <2> DEFINE d == [c EXCEPT !.status = "replied", !.replyTerm = t, !.ok = ok]
  <2>1. calls' = (calls \ {c}) \cup {d}
    BY <1>1 DEF Answer, Replace
  <2>2. /\ Shaped(d) /\ d.status = "replied" /\ d.replyTerm = t /\ d.ok = ok
        /\ d.kind = c.kind /\ d.from = c.from /\ d.to = c.to /\ d.term = c.term
    BY Zenon DEF CallOK, Shaped, Fields
  <2> HIDE DEF d
  <2>3. CallOK(d) /\ (Open(d) => Open(c))
    BY <1>1, <2>2 DEF CallOK, Open, Status
  <2>4. Onward(c, {d})
    BY <2>2, <2>3 DEF Onward
  <2> QED
    BY <2>1, <2>2, <2>4
<1>2. CASE c.status \notin {"sent", "handling"}
  <2>1. calls' = (calls \ {c}) \cup {}
    BY <1>2 DEF Answer, Lose
  <2> QED
    BY <2>1, NothingFollows
<1> QED
  BY <1>1, <1>2

LEMMA EnterGoesOn ==
    ASSUME NEW c \in calls, CallOK(c), c.status \in {"sent", "orphan"}, Enter(c)
    PROVE  \E E : /\ calls' = (calls \ {c}) \cup E /\ Onward(c, E)
                  /\ \A e \in E : e.status # "replied"
<1> DEFINE s == IF c.status = "sent" THEN "handling" ELSE "handledOrphan"
           d == [c EXCEPT !.status = s]
<1>1. calls' = (calls \ {c}) \cup {d}
  BY DEF Enter, Replace
<1>2. /\ Shaped(d) /\ d.status = s /\ d.replyTerm = c.replyTerm
      /\ d.kind = c.kind /\ d.from = c.from /\ d.to = c.to /\ d.term = c.term
  BY StatusFields DEF CallOK
<1> HIDE DEF d
<1>3. CallOK(d) /\ (Open(d) => Open(c)) /\ d.status # "replied"
  BY <1>2 DEF CallOK, Open, Status
<1>4. Onward(c, {d})
  BY <1>2, <1>3 DEF Onward
<1> QED
  BY <1>1, <1>3, <1>4

\* A read, or the sending, of an append call changes nothing else of it.
LEMMA ReadFields ==
    ASSUME NEW c \in calls, CallOK(c), SendAppend(c)
    PROVE  \E d : /\ calls' = (calls \ {c}) \cup {d} /\ Shaped(d) /\ c.kind = "append"
                  /\ d.status \in {"indexRead", "termRead", "entriesRead", "sent"}
                  /\ d.kind = c.kind /\ d.from = c.from /\ d.to = c.to /\ d.term = c.term
                  /\ d.replyTerm = c.replyTerm
<1>1. CASE ReadNextIndex(c)
  <2> DEFINE d == [c EXCEPT !.status = "indexRead", !.index = nextIndex[c.from][c.to] - 1]
  <2>1. calls' = (calls \ {c}) \cup {d} /\ c.kind = "append"
    BY <1>1 DEF ReadNextIndex, Replace, AppendCall
  <2>2. /\ Shaped(d) /\ d.status = "indexRead" /\ d.replyTerm = c.replyTerm
        /\ d.kind = c.kind /\ d.from = c.from /\ d.to = c.to /\ d.term = c.term
    BY Zenon DEF CallOK, Shaped, Fields
  <2> HIDE DEF d
  <2> QED
    BY <2>1, <2>2
<1>2. CASE ReadPrevLogTerm(c)
  <2> DEFINE d == [c EXCEPT !.status = "termRead", !.logTerm = TermAt(log[c.from], c.index)]
  <2>1. calls' = (calls \ {c}) \cup {d} /\ c.kind = "append"
    BY <1>2 DEF ReadPrevLogTerm, Replace, AppendCall
  <2>2. /\ Shaped(d) /\ d.status = "termRead" /\ d.replyTerm = c.replyTerm
        /\ d.kind = c.kind /\ d.from = c.from /\ d.to = c.to /\ d.term = c.term
    BY Zenon DEF CallOK, Shaped, Fields
  <2> HIDE DEF d
  <2> QED
    BY <2>1, <2>2
<1>3. CASE ReadEntries(c)
  <2> DEFINE d == [c EXCEPT !.status = "entriesRead",
                            !.entries = EntriesAfter(log[c.from], c.index)]
  <2>1. calls' = (calls \ {c}) \cup {d} /\ c.kind = "append"
    BY <1>3 DEF ReadEntries, Replace, AppendCall
  <2>2. /\ Shaped(d) /\ d.status = "entriesRead" /\ d.replyTerm = c.replyTerm
        /\ d.kind = c.kind /\ d.from = c.from /\ d.to = c.to /\ d.term = c.term
    BY Zenon DEF CallOK, Shaped, Fields
  <2> HIDE DEF d
  <2> QED
    BY <2>1, <2>2
<1>4. CASE SendAppendRequest(c)
  <2> DEFINE d == [c EXCEPT !.status = "sent", !.commit = commitIndex[c.from]]
  <2>1. calls' = (calls \ {c}) \cup {d} /\ c.kind = "append"
    BY <1>4 DEF SendAppendRequest, Replace, AppendCall
  <2>2. /\ Shaped(d) /\ d.status = "sent" /\ d.replyTerm = c.replyTerm
        /\ d.kind = c.kind /\ d.from = c.from /\ d.to = c.to /\ d.term = c.term
    BY Zenon DEF CallOK, Shaped, Fields
  <2> HIDE DEF d
  <2> QED
    BY <2>1, <2>2
<1> QED
  BY <1>1, <1>2, <1>3, <1>4 DEF SendAppend

LEMMA SendGoesOn ==
    ASSUME NEW c \in calls, CallOK(c), SendVoteRequest(c) \/ SendAppend(c)
    PROVE  \E E : /\ calls' = (calls \ {c}) \cup E /\ Onward(c, E)
                  /\ \A e \in E : e.status # "replied"
<1>1. ASSUME NEW d, Shaped(d), c.status = "new" \/ c.kind = "append",
             d.status \in {"indexRead", "termRead", "entriesRead", "sent"},
             d.replyTerm = c.replyTerm,
             d.kind = c.kind, d.from = c.from, d.to = c.to, d.term = c.term
      PROVE  Onward(c, {d}) /\ d.status # "replied"
  <2>1. CallOK(d) /\ (Open(d) => Open(c))
    BY <1>1 DEF CallOK, Open, Status
  <2> QED
    BY <1>1, <2>1 DEF Onward
<1>2. CASE SendVoteRequest(c)
  <2> DEFINE d == [c EXCEPT !.status = "sent", !.index = LastIndex(log[c.from]),
                            !.logTerm = LastTerm(log[c.from])]
  <2>1. calls' = (calls \ {c}) \cup {d} /\ c.status = "new"
    BY <1>2 DEF SendVoteRequest, Replace
  <2>2. /\ Shaped(d) /\ d.status = "sent" /\ d.replyTerm = c.replyTerm
        /\ d.kind = c.kind /\ d.from = c.from /\ d.to = c.to /\ d.term = c.term
    BY Zenon DEF CallOK, Shaped, Fields
  <2> HIDE DEF d
  <2>3. Onward(c, {d}) /\ d.status # "replied"
    BY <1>1, <2>1, <2>2
  <2> QED
    BY <2>1, <2>3
<1>3. CASE SendAppend(c)
  <2>1. PICK d : /\ calls' = (calls \ {c}) \cup {d} /\ Shaped(d) /\ c.kind = "append"
                 /\ d.status \in {"indexRead", "termRead", "entriesRead", "sent"}
                 /\ d.kind = c.kind /\ d.from = c.from /\ d.to = c.to /\ d.term = c.term
                 /\ d.replyTerm = c.replyTerm
    BY <1>3, ReadFields
  <2>2. Onward(c, {d}) /\ d.status # "replied"
    BY <1>1, <2>1
  <2> QED
    BY <2>1, <2>2
<1> QED
  BY <1>2, <1>3

LEMMA CallSteps ==
    ASSUME ElectionInv, NEW c \in calls,
           \/ SendVoteRequest(c) \/ SendAppend(c) \/ RequestVoteTerm(c)
           \/ AppendEntriesTerm(c) \/ AppendEntriesLog(c) \/ AppendReply(c)
           \/ AppendReplyStepDown(c) \/ ContextExpires(c) \/ CallFails(c)
    PROVE  ElectionInv'
<1> USE DEF termVars, candidateVars, history
<1>0. /\ ControlOK /\ CallOK(c) /\ Shaped(c) /\ c.status \in Status
      /\ c.from \in Server /\ c.to \in Server /\ c.term \in Nat /\ c.replyTerm \in Nat
      /\ c.kind \in {"vote", "append"}
  BY DEF ElectionInv, CallsOK, CallOK
<1>1. /\ term' = term /\ votes' = votes /\ pc' = pc /\ grants' = grants /\ winners' = winners
  BY Zenon DEF SendVoteRequest, SendAppend, ReadNextIndex, ReadPrevLogTerm,
         ReadEntries, SendAppendRequest, RequestVoteTerm, AppendEntriesTerm, AppendEntriesLog,
         AppendReply, AppendReplyStepDown, ContextExpires, CallFails
<1>2. ASSUME \E E : /\ calls' = (calls \ {c}) \cup E /\ Onward(c, E)
                    /\ \A e \in E : e.status # "replied" \/ ~e.ok \/ c.kind = "append",
             ControlOK'
      PROVE  ElectionInv'
  <2>1. PICK E : /\ calls' = (calls \ {c}) \cup E /\ Onward(c, E)
                 /\ \A e \in E : e.status # "replied" \/ ~e.ok \/ c.kind = "append"
    BY <1>2
  <2>2. \A e \in E : ~(Open(e) /\ e.status = "replied" /\ e.ok)
    BY <2>1 DEF Onward, Open
  <2> QED
    BY <1>1, <1>2, <2>1, <2>2, HandlerControl
<1>3. ASSUME UNCHANGED termVars
      PROVE  ControlOK'
  BY <1>0, <1>1, <1>3, Zenon DEF ControlOK
<1>4. ASSUME NEW j \in Server, NEW t \in Nat, NEW l \in Server \cup {NoServer},
             BecomeFollower(j, t, l)
      PROVE  ControlOK'
  BY <1>0, <1>1, <1>4, Zenon DEF ControlOK, BecomeFollower
<1>5. \A j \in Server : currentTerm[j] \in Nat
  BY <1>0, Zenon DEF ControlOK
<1>6. CASE SendVoteRequest(c) \/ SendAppend(c)
  <2>1. ControlOK'
    BY <1>3, <1>6, Zenon DEF SendVoteRequest, SendAppend, ReadNextIndex, ReadPrevLogTerm,
           ReadEntries, SendAppendRequest
  <2> QED
    BY <1>0, <1>2, <1>6, <2>1, SendGoesOn, Zenon
<1>7. CASE RequestVoteTerm(c)
  <2>1. ControlOK'
    BY <1>0, <1>3, <1>4, <1>7, Zenon DEF RequestVoteTerm
  <2>2. CASE c.term < currentTerm[c.to]
    <3>1. Answer(c, currentTerm[c.to], FALSE)
      BY <1>7, <2>2, Zenon DEF RequestVoteTerm
    <3>2. \E E : calls' = (calls \ {c}) \cup E /\ Onward(c, E) /\ \A e \in E : e.ok = FALSE
      BY <1>0, <1>5, <3>1, AnswerGoesOn, Zenon
    <3> QED
      BY <1>2, <2>1, <3>2
  <2>3. CASE ~(c.term < currentTerm[c.to])
    <3>1. Enter(c) /\ c.status \in {"sent", "orphan"}
      BY <1>7, <2>3, Zenon DEF RequestVoteTerm, Arrives
    <3> QED
      BY <1>0, <1>2, <2>1, <3>1, EnterGoesOn, Zenon
  <2> QED
    BY <2>2, <2>3
<1>8. CASE AppendEntriesTerm(c)
  <2>1. ControlOK' /\ c.kind = "append"
    BY <1>0, <1>3, <1>4, <1>8, Zenon DEF AppendEntriesTerm, Arrives
  <2>2. CASE c.term < currentTerm[c.to]
    <3>1. Answer(c, currentTerm[c.to], FALSE)
      BY <1>8, <2>2, Zenon DEF AppendEntriesTerm
    <3>2. \E E : calls' = (calls \ {c}) \cup E /\ Onward(c, E) /\ \A e \in E : e.ok = FALSE
      BY <1>0, <1>5, <3>1, AnswerGoesOn, Zenon
    <3> QED
      BY <1>2, <2>1, <3>2
  <2>3. CASE ~(c.term < currentTerm[c.to])
    <3>1. Enter(c) /\ c.status \in {"sent", "orphan"}
      BY <1>8, <2>3, Zenon DEF AppendEntriesTerm, Arrives
    <3> QED
      BY <1>0, <1>2, <2>1, <3>1, EnterGoesOn
  <2> QED
    BY <2>2, <2>3
<1>9. CASE AppendEntriesLog(c)
  <2>1. ControlOK' /\ c.kind = "append"
    BY <1>3, <1>9 DEF AppendEntriesLog, InHandler
  <2>2. PICK ok \in BOOLEAN : Answer(c, c.term, ok)
    BY <1>9, Zenon DEF AppendEntriesLog
  <2>3. \E E : calls' = (calls \ {c}) \cup E /\ Onward(c, E) /\ \A e \in E : e.ok = ok
    BY <1>0, <2>2, AnswerGoesOn, Zenon
  <2> QED
    BY <1>2, <2>1, <2>3
<1>10. CASE AppendReply(c) \/ AppendReplyStepDown(c) \/ CallFails(c)
  <2>1. ControlOK'
    BY <1>0, <1>3, <1>4, <1>10 DEF AppendReply, AppendReplyStepDown, CallFails
  <2>2. calls' = (calls \ {c}) \cup {}
    BY <1>10 DEF AppendReply, AppendReplyStepDown, CallFails, Lose
  <2> QED
    BY <1>2, <2>1, <2>2, NothingFollows
<1>11. CASE ContextExpires(c)
  <2> DEFINE d == Cancelled(c)
  <2>1. ControlOK'
    BY <1>3, <1>11 DEF ContextExpires
  <2>2. /\ CallOK(d) /\ ~Open(d) /\ d.kind = c.kind /\ d.from = c.from
        /\ d.to = c.to /\ d.term = c.term
    BY <1>0, <1>11, CancelledFields DEF ContextExpires
  <2>3. calls' = (calls \ {c}) \cup {d}
    BY <1>11 DEF ContextExpires, Replace
  <2> HIDE DEF d
  <2>4. Onward(c, {d})
    BY <2>2 DEF Onward
  <2> QED
    BY <1>1, <2>1, <2>2, <2>3, <2>4, HandlerControl
<1> QED
  BY <1>6, <1>7, <1>8, <1>9, <1>10, <1>11

LEMMA RequestVoteDecideStep ==
    ASSUME ElectionInv, NEW c \in calls, RequestVoteDecide(c)
    PROVE  ElectionInv'
<1> USE DEF candidateVars
<1> DEFINE granted == votedFor[c.to] \in {NoServer, c.from} /\ UpToDate(c)
<1>0. ControlOK /\ CallOK(c) /\ c.term \in Nat
  BY DEF ElectionInv, CallsOK, CallOK
<1>1. /\ term' = term /\ votes' = votes /\ pc' = pc /\ winners' = winners /\ ControlOK'
  BY <1>0 DEF RequestVoteDecide, ControlOK
<1>2. Answer(c, c.term, granted) /\ grants \subseteq grants'
        /\ (granted => <<c.to, c.from, c.term>> \in grants')
  BY DEF RequestVoteDecide
<1> HIDE DEF granted
<1>3. PICK E : calls' = (calls \ {c}) \cup E /\ Onward(c, E) /\ \A e \in E : e.ok = granted
  BY <1>0, <1>2, AnswerGoesOn
<1>4. \A e \in E : Open(e) /\ e.status = "replied" /\ e.ok => <<e.to, e.from, e.term>> \in grants'
  BY <1>2, <1>3 DEF Onward
<1> QED
  BY <1>1, <1>2, <1>3, <1>4, HandlerControl

\* One vote more, one grant more.
LEMMA OneMore ==
    ASSUME NEW a \in Nat, NEW b \in Nat, NEW v \in Nat, v <= a, a + 1 <= b
    PROVE  v + 1 <= b
OBVIOUS

\* A vote is counted when its call ends, so it is not counted twice.
LEMMA VoteReplyStep ==
    ASSUME ElectionInv, NEW c \in calls, VoteReply(c)
    PROVE  ElectionInv'
<1> USE DEF termVars, history
<1>0. /\ ControlOK /\ OneOpenCall /\ CallOK(c) /\ c.from \in Server /\ c.to \in Server
      /\ c.replyTerm \in Nat
  BY DEF ElectionInv, CallsOK, CallOK
<1>1. term' = term /\ pc' = pc /\ grants' = grants /\ winners' = winners
  BY DEF VoteReply
<1>2. calls' = (calls \ {c}) \cup {}
  BY DEF VoteReply, Lose
<1>3. ControlOK'
  <2>1. /\ currentTerm' \in [Server -> Nat] /\ votes' \in [Server -> Nat]
        /\ state' \in [Server -> {"Follower", "Candidate", "Leader"}]
        /\ leaderID' \in [Server -> Server \cup {NoServer}]
    <3>1. CASE c.replyTerm > c.term
      BY <1>0, <3>1 DEF VoteReply, BecomeFollower, ControlOK
    <3>2. CASE ~(c.replyTerm > c.term)
      <4>1. /\ currentTerm' = currentTerm /\ state' = state /\ leaderID' = leaderID
            /\ votes' = votes \/ votes' = [votes EXCEPT ![c.from] = @ + 1]
        BY <3>2 DEF VoteReply
      <4>2. votes \in [Server -> Nat]
        BY <1>0 DEF ControlOK
      <4>3. votes' \in [Server -> Nat]
        <5>1. CASE votes' = votes
          BY <4>2, <5>1, Zenon
        <5>2. CASE votes' = [votes EXCEPT ![c.from] = @ + 1]
          <6>1. \A i \in Server : votes[i] + 1 \in Nat
            BY <4>2
          <6> QED
            BY <4>2, <5>2, <6>1, Zenon
        <5> QED
          BY <4>1, <5>1, <5>2, Zenon
      <4> QED
        BY <1>0, <4>1, <4>3 DEF ControlOK
    <3> QED
      BY <3>1, <3>2
  <2> QED
    BY <1>0, <1>1, <2>1 DEF ControlOK
<1>4. CASE votes' = votes
  BY <1>1, <1>2, <1>3, <1>4, NothingFollows, HandlerControl
<1>5. CASE votes' # votes
  <2>1. c.ok /\ c.status = "replied" /\ votes' = [votes EXCEPT ![c.from] = @ + 1] /\ Open(c)
    BY <1>5 DEF VoteReply, Open
  <2>2. CallsOK' /\ OneOpenCall' /\ RepliesAreGrants' /\ \A i \in Server : Asked(i)' \subseteq Asked(i)
    BY <1>1, <1>2, NothingFollows, CallStep
  <2>3. VotesAreGrants'
    <3> SUFFICES ASSUME NEW i \in Server
                 PROVE  /\ pc'[i] = "request" => <<i, i, term'[i]>> \in grants'
                        /\ pc'[i] \in {"gather", "count"} =>
                              votes'[i] <= Cardinality(Voters(i, term[i])' \ Asked(i)')
      BY Zenon DEF VotesAreGrants, Voters
    <3>1. pc'[i] = "request" => <<i, i, term'[i]>> \in grants'
      BY <1>1, Zenon DEF ElectionInv, VotesAreGrants
    <3>2. CASE i # c.from
      <4>1. votes'[i] = votes[i] /\ grants \subseteq grants' /\ term'[i] = term[i]
        BY <1>0, <1>1, <2>1, <3>2 DEF ControlOK
      <4> QED
        BY <1>1, <2>2, <3>1, <4>1, CountsStay
    <3>3. CASE i = c.from
      <4> DEFINE A == Voters(i, term[i]) \ Asked(i)
                 B == Voters(i, term[i])' \ Asked(i)'
      <4>1. c.term = term[i] /\ pc[i] = "gather" /\ <<c.to, i, term[i]>> \in grants
        BY <2>1, <3>3 DEF ElectionInv, OneOpenCall, RepliesAreGrants
      <4>2. c.to \in Asked(i) /\ c.to \notin Asked(i)'
        BY <1>0, <1>2, <2>1, <3>3 DEF Asked, OneOpenCall
      <4>3. A \cup {c.to} \subseteq B /\ B \subseteq Server /\ A \subseteq Server /\ c.to \notin A
        BY <1>0, <1>1, <2>2, <4>1, <4>2 DEF Voters
      <4>4. IsFiniteSet(A) /\ IsFiniteSet(B)
        BY <4>3, RaftAssumption, FS_Subset
      <4>5. Cardinality(A \cup {c.to}) = Cardinality(A) + 1
        BY <4>3, <4>4, FS_AddElement, Zenon
      <4>6. Cardinality(A \cup {c.to}) <= Cardinality(B)
        BY <4>3, <4>4, FS_Subset
      <4>7. Cardinality(A) \in Nat /\ Cardinality(B) \in Nat
        BY <4>4, FS_CardinalityType
      <4>8. votes[i] <= Cardinality(A) /\ votes[i] \in Nat /\ votes'[i] = votes[i] + 1
        BY <1>0, <2>1, <3>3, <4>1, Zenon DEF ElectionInv, VotesAreGrants, ControlOK
      <4> HIDE DEF A, B
      <4>9. votes'[i] <= Cardinality(B)
        <5>1. Cardinality(A) + 1 <= Cardinality(B)
          BY <4>5, <4>6
        <5>2. votes[i] + 1 <= Cardinality(B)
          BY <4>7, <4>8, <5>1, OneMore, Zenon
        <5> QED
          BY <4>8, <5>2
      <4> QED
        BY <3>1, <4>9 DEF B
    <3> QED
      BY <3>2, <3>3
  <2>4. ElectedByMajority'
    BY <1>1, MajoritiesStay
  <2> QED
    BY <1>3, <2>2, <2>3, <2>4 DEF ElectionInv
<1> QED
  BY <1>4, <1>5

(***************************************************************************)
(* ElectionInductive: ElectionInv holds of RaftInit and every step of the  *)
(* consensus package keeps it.                                             *)
(***************************************************************************)
THEOREM ElectionInductive == RaftSpec => []ElectionInv
<1>1. RaftInit => ElectionInv
  <2> SUFFICES ASSUME RaftInit PROVE ElectionInv
    OBVIOUS
  <2>1. ControlOK
    BY DEF RaftInit, ControlOK, PC
  <2>2. calls = {} /\ winners = {} /\ \A i \in Server : pc[i] = "run"
    BY DEF RaftInit
  <2>3. CallsOK /\ OneOpenCall /\ RepliesAreGrants /\ ElectedByMajority
    BY <2>2 DEF CallsOK, OneOpenCall, RepliesAreGrants, ElectedByMajority
  <2>4. VotesAreGrants
    BY <2>2 DEF VotesAreGrants
  <2> QED
    BY <2>1, <2>3, <2>4 DEF ElectionInv
<1>2. ElectionInv /\ [RaftNext]_raftVars => ElectionInv'
  <2> SUFFICES ASSUME ElectionInv, [RaftNext]_raftVars PROVE ElectionInv'
    OBVIOUS
  <2>1. ASSUME NEW i \in Server,
               \/ RunStep(i) \/ ElectionTimeout(i) \/ CandidateTimeout(i)
               \/ ApplyBegin(i) \/ ApplyOne(i) \/ Propose(i)
        PROVE  ElectionInv'
    BY <2>1, RunSteps, BecomeCandidateStep, RequestVotesStep, CandidateTimeoutStep,
       BecomeLeaderStep, HeartbeatSteps DEF RunStep
  <2>2. ASSUME NEW c \in calls,
               \/ SendVoteRequest(c) \/ VoteReply(c)
               \/ SendAppend(c) \/ AppendReply(c) \/ AppendReplyStepDown(c)
               \/ HandlerStep(c) \/ ContextExpires(c) \/ CallFails(c)
        PROVE  ElectionInv'
    BY <2>2, CallSteps, RequestVoteDecideStep, VoteReplyStep DEF HandlerStep
  <2>3. CASE UNCHANGED raftVars
    <3>1. ControlOK' /\ calls' = calls /\ grants' = grants /\ winners' = winners
            /\ term' = term /\ votes' = votes /\ pc' = pc
      BY <2>3 DEF ElectionInv, ControlOK, raftVars, termVars, candidateVars, history
    <3> QED
      BY <3>1, ControlStep
  <2> QED
    BY <2>1, <2>2, <2>3 DEF RaftNext
<1> QED
  BY <1>1, <1>2, PTL DEF RaftSpec

(***************************************************************************)
(* MajorityTheorem: whatever the number of servers, and however calls are  *)
(* delayed or lost, runCandidate calls BecomeLeader only with the votes of *)
(* a majority in the term of that candidacy.                               *)
(***************************************************************************)
THEOREM MajorityTheorem == RaftSpec => []ElectedByMajority
<1>1. ElectionInv => ElectedByMajority
  BY DEF ElectionInv
<1> QED
  BY <1>1, ElectionInductive, PTL

\* No two servers win the election of one term.
OneWinnerPerTerm == \A v, w \in winners : v[2] = w[2] => v[1] = w[1]

(***************************************************************************)
(* OneWinnerTheorem: while no server has voted for two candidates in one   *)
(* term, no two servers win the election of one term: counting late        *)
(* replies and calling BecomeLeader without another look at the role       *)
(* cannot make a second winner.  A double vote, for which OneVotePerTerm   *)
(* fails, is the only way to one.  (A winner may have moved to another     *)
(* term by the time it leads; of that term the theorem says nothing.)      *)
(***************************************************************************)
THEOREM OneWinnerTheorem == RaftSpec => [](OneVotePerTerm => OneWinnerPerTerm)
<1>1. ElectedByMajority /\ OneVotePerTerm => OneWinnerPerTerm
  <2> SUFFICES ASSUME ElectedByMajority, OneVotePerTerm,
                      NEW v \in winners, NEW w \in winners, v[2] = w[2]
               PROVE  v[1] = w[1]
    BY DEF OneWinnerPerTerm
  <2> DEFINE V == {x \in Server : <<x, v[1], v[2]>> \in grants}
             W == {x \in Server : <<x, w[1], w[2]>> \in grants}
  <2>1. 2 * Cardinality(V) > Cardinality(Server) /\ 2 * Cardinality(W) > Cardinality(Server)
    BY Zenon DEF ElectedByMajority
  <2>2. V \subseteq Server /\ W \subseteq Server /\ IsFiniteSet(Server)
    BY RaftAssumption
  <2>3. IsFiniteSet(V) /\ IsFiniteSet(W)
    BY <2>2, FS_Subset
  <2>4. Cardinality(V) \in Nat /\ Cardinality(W) \in Nat /\ Cardinality(Server) \in Nat
    BY <2>2, <2>3, FS_CardinalityType
  <2>5. Cardinality(V) + Cardinality(W) > Cardinality(Server)
    BY <2>1, <2>4
  <2>6. PICK x : x \in V /\ x \in W
    <3> HIDE DEF V, W
    <3>1. V \cap W # {}
      BY <2>2, <2>5, FS_MajoritiesIntersect, Zenon
    <3> QED
      BY <3>1
  <2> DEFINE g == <<x, v[1], v[2]>>
             h == <<x, w[1], w[2]>>
  <2>7. g \in grants /\ h \in grants
    BY <2>6
  <2>8. g[1] = h[1] /\ g[3] = h[3] /\ g[2] = v[1] /\ h[2] = w[1]
    OBVIOUS
  <2> HIDE DEF g, h
  <2> QED
    BY <2>7, <2>8, Zenon DEF OneVotePerTerm
<1> QED
  BY <1>1, MajorityTheorem, PTL

-----------------------------------------------------------------------------
(* Known leaders *)

Won(i) == \E t \in 1..MaxTerm : <<i, t>> \in winners

\* Whoever acts as the leader, or speaks as one in a call, has won an election.
LeaderInv ==
    /\ \A i \in Server :
          /\ pc[i] \in {"voteSelf", "request", "gather", "count"} => term[i] \in 1..MaxTerm
          /\ leaderID[i] # NoServer => Won(leaderID[i])
          /\ state[i] = "Leader" \/ pc[i] \in {"leader", "lead", "commit", "leadCheck"} => Won(i)
    /\ \A c \in calls : c.kind = "append" => Won(c.from)

\* A step that starts no candidacy, ends none with success and makes no append call.
LEMMA LeadersStay ==
    ASSUME LeaderInv, winners' = winners, term' = term,
           \A i \in Server :
              /\ pc'[i] \in {"voteSelf", "request", "gather", "count"} =>
                    pc[i] \in {"voteSelf", "request", "gather", "count"}
              /\ leaderID'[i] # NoServer => Won(leaderID'[i])
              /\ state'[i] = "Leader" => Won(i)
              /\ pc'[i] \in {"leader", "lead", "commit", "leadCheck"} => Won(i),
           \A d \in calls' : d.kind = "append" => Won(d.from)
    PROVE  LeaderInv'
BY DEF LeaderInv, Won

LEMMA CallsGoOn ==
    ASSUME ElectionInv, NEW c \in calls,
           \/ SendVoteRequest(c) \/ VoteReply(c) \/ SendAppend(c) \/ AppendReply(c)
           \/ AppendReplyStepDown(c) \/ HandlerStep(c) \/ ContextExpires(c) \/ CallFails(c)
    PROVE  \A d \in calls' : d \in calls \/ (d.kind = c.kind /\ d.from = c.from)
<1>0. CallOK(c) /\ c.term \in Nat /\ \A j \in Server : currentTerm[j] \in Nat
  BY Zenon DEF ElectionInv, CallsOK, CallOK, ControlOK
<1>1. ASSUME \E E : calls' = (calls \ {c}) \cup E /\ Onward(c, E)
      PROVE  \A d \in calls' : d \in calls \/ (d.kind = c.kind /\ d.from = c.from)
  BY <1>1 DEF Onward
<1>2. CASE SendVoteRequest(c) \/ SendAppend(c)
  BY <1>0, <1>1, <1>2, SendGoesOn
<1>3. CASE VoteReply(c) \/ AppendReply(c) \/ AppendReplyStepDown(c) \/ CallFails(c)
  BY <1>3, Zenon DEF VoteReply, AppendReply, AppendReplyStepDown, CallFails, Lose
<1>4. CASE RequestVoteTerm(c) \/ AppendEntriesTerm(c)
  <2>1. c.status \in {"sent", "orphan"} /\ (Answer(c, currentTerm[c.to], FALSE) \/ Enter(c))
    BY <1>4, Zenon DEF RequestVoteTerm, AppendEntriesTerm, Arrives
  <2>2. currentTerm[c.to] \in Nat
    BY <1>0, Zenon DEF CallOK
  <2> QED
    BY <1>0, <1>1, <2>1, <2>2, AnswerGoesOn, EnterGoesOn, Zenon
<1>5. CASE RequestVoteDecide(c) \/ AppendEntriesLog(c)
  <2>1. PICK ok : Answer(c, c.term, ok)
    BY <1>5, Zenon DEF RequestVoteDecide, AppendEntriesLog
  <2> QED
    BY <1>0, <1>1, <2>1, AnswerGoesOn
<1>6. CASE ContextExpires(c)
  BY <1>0, <1>6, CancelledFields DEF ContextExpires, Replace
<1> QED
  BY <1>2, <1>3, <1>4, <1>5, <1>6 DEF HandlerStep

LEMMA LeaderCallSteps ==
    ASSUME ElectionInv, LeaderInv, NEW c \in calls,
           \/ SendVoteRequest(c) \/ VoteReply(c) \/ SendAppend(c) \/ AppendReply(c)
           \/ AppendReplyStepDown(c) \/ HandlerStep(c) \/ ContextExpires(c) \/ CallFails(c)
    PROVE  LeaderInv'
<1> USE DEF termVars, candidateVars, history
<1>0. ControlOK /\ c.from \in Server /\ c.to \in Server
  BY DEF ElectionInv, CallsOK, CallOK
<1>1. \A d \in calls' : d.kind = "append" => Won(d.from)
  BY CallsGoOn, Zenon DEF LeaderInv
<1>2. pc' = pc /\ term' = term /\ winners' = winners
  BY Zenon DEF SendVoteRequest, VoteReply, SendAppend, ReadNextIndex, ReadPrevLogTerm,
         ReadEntries, SendAppendRequest, AppendReply, AppendReplyStepDown,
         HandlerStep, RequestVoteTerm, RequestVoteDecide, AppendEntriesTerm,
         AppendEntriesLog, ContextExpires, CallFails
<1>3. \/ state' = state /\ leaderID' = leaderID
      \/ \E j \in Server : \E t : BecomeFollower(j, t, NoServer)
      \/ \E j \in Server : \E t : c.kind = "append" /\ BecomeFollower(j, t, c.from)
  BY <1>0, Zenon DEF SendVoteRequest, VoteReply, SendAppend, ReadNextIndex, ReadPrevLogTerm,
         ReadEntries, SendAppendRequest, AppendReply, AppendReplyStepDown,
         HandlerStep, RequestVoteTerm, RequestVoteDecide, AppendEntriesTerm,
         AppendEntriesLog, ContextExpires, CallFails, Arrives
<1>4. \A i \in Server : /\ leaderID'[i] # NoServer => Won(leaderID'[i])
                        /\ state'[i] = "Leader" => Won(i)
  BY <1>0, <1>3 DEF LeaderInv, BecomeFollower, ControlOK
<1>5. \A i \in Server : pc[i] \in {"leader", "lead", "commit", "leadCheck"} => Won(i)
  BY DEF LeaderInv
<1> QED
  BY <1>1, <1>2, <1>4, <1>5, LeadersStay, Zenon

LEMMA LeaderRunSteps ==
    ASSUME ElectionInv, LeaderInv, NEW i \in Server,
           \/ RunStep(i) \/ ElectionTimeout(i) \/ CandidateTimeout(i)
           \/ ApplyBegin(i) \/ ApplyOne(i) \/ Propose(i)
    PROVE  LeaderInv'
<1> USE DEF termVars, candidateVars, history, Goto
<1>0. ControlOK
  BY DEF ElectionInv
<1>1. \A j \in Server : /\ leaderID[j] # NoServer => Won(leaderID[j])
                        /\ state[j] = "Leader" => Won(j)
                        /\ pc[j] \in {"leader", "lead", "commit", "leadCheck"} => Won(j)
  BY Zenon DEF LeaderInv
<1>2. \A c \in calls : c.kind = "append" => Won(c.from)
  BY Zenon DEF LeaderInv
<1>3. CASE \/ Run(i) \/ SetCandidate(i) \/ ElectionTimeout(i) \/ VoteForSelf(i) \/ VotesAreIn(i)
           \/ LoseElection(i) \/ UpdateCommitIndexRead(i) \/ UpdateCommitIndexSet(i)
           \/ LeaderCheck(i) \/ ApplyBegin(i) \/ ApplyOne(i) \/ Propose(i)
  <2>1. calls' = calls /\ winners' = winners /\ term' = term /\ leaderID' = leaderID
    BY <1>3 DEF Run, SetCandidate, ElectionTimeout, VoteForSelf, VotesAreIn, LoseElection,
                UpdateCommitIndexRead, UpdateCommitIndexSet, LeaderCheck, ApplyBegin, ApplyOne,
                Propose, ProposeRole, ProposeTerm, ProposeAppend
  <2>2. \A j \in Server : state'[j] = "Leader" => state[j] = "Leader"
    BY <1>0, <1>3 DEF Run, SetCandidate, ElectionTimeout, VoteForSelf, VotesAreIn, LoseElection,
                UpdateCommitIndexRead, UpdateCommitIndexSet, LeaderCheck, ApplyBegin, ApplyOne,
                Propose, ProposeRole, ProposeTerm, ProposeAppend, ControlOK
  <2>3. \A j \in Server :
           /\ pc'[j] \in {"voteSelf", "request", "gather", "count"} =>
                 pc[j] \in {"voteSelf", "request", "gather", "count"}
           /\ pc'[j] \in {"leader", "lead", "commit", "leadCheck"} =>
                 pc[j] \in {"leader", "lead", "commit", "leadCheck"} \/ state[j] = "Leader"
    <3>1. CASE Run(i)
      BY <1>0, <3>1 DEF Run, ControlOK
    <3>2. CASE ~Run(i)
      BY <1>0, <1>3, <3>2, Zenon DEF SetCandidate, ElectionTimeout, VoteForSelf, VotesAreIn,
                LoseElection, UpdateCommitIndexRead, UpdateCommitIndexSet, LeaderCheck,
                ApplyBegin, ApplyOne, Propose, ProposeRole, ProposeTerm, ProposeAppend, ControlOK
    <3> QED
      BY <3>1, <3>2
  <2> QED
    BY <1>1, <1>2, <2>1, <2>2, <2>3, LeadersStay, Zenon
<1>4. CASE BecomeCandidate(i)
  <2>1. term'[i] \in 1..MaxTerm
    BY <1>0, <1>4, RaftAssumption DEF BecomeCandidate, ControlOK
  <2>2. /\ calls' = calls /\ winners' = winners
        /\ pc'[i] = "voteSelf" /\ leaderID'[i] = NoServer /\ state'[i] = "Candidate"
        /\ \A j \in Server \ {i} : /\ pc'[j] = pc[j] /\ leaderID'[j] = leaderID[j]
                                  /\ state'[j] = state[j] /\ term'[j] = term[j]
    BY <1>0, <1>4 DEF BecomeCandidate, ControlOK
  <2> QED
    BY <2>1, <2>2, Zenon DEF LeaderInv, Won
<1>5. CASE RequestVotes(i)
  <2>1. /\ winners' = winners /\ term' = term /\ leaderID' = leaderID /\ state' = state
        /\ pc[i] = "request" /\ pc' = [pc EXCEPT ![i] = "gather"]
    BY <1>5 DEF RequestVotes
  <2>2. \A d \in calls' : d \in calls \/ d.kind = "vote"
    <3> SUFFICES ASSUME NEW d \in calls', d \notin calls PROVE d.kind = "vote"
      OBVIOUS
    <3>1. PICK j \in Peers(i) : d = NewCall("vote", i, j, term[i])
      BY <1>5 DEF RequestVotes
    <3> QED
      BY <3>1 DEF NewCall
  <2> QED
    BY <1>0, <1>1, <1>2, <2>1, <2>2, LeadersStay DEF ControlOK
<1>6. CASE CandidateTimeout(i)
  <2>1. /\ winners' = winners /\ term' = term /\ leaderID' = leaderID /\ state' = state
        /\ pc[i] = "gather" /\ pc' = [pc EXCEPT ![i] = "run"]
    BY <1>6 DEF CandidateTimeout
  <2>2. \A d \in calls' : d \in calls \/ d.kind = "vote"
    <3> SUFFICES ASSUME NEW d \in calls', d \notin calls PROVE d.kind = "vote"
      OBVIOUS
    <3>1. PICK c \in Outstanding(i) : c.status # "new" /\ d = Cancelled(c)
      BY <1>6 DEF CandidateTimeout, Cancel
    <3>2. CallOK(c) /\ c.status \in {"sent", "handling", "replied"} /\ c.kind = "vote"
      BY <3>1 DEF Outstanding, ElectionInv, CallsOK
    <3> QED
      BY <3>1, <3>2, CancelledFields
  <2> QED
    BY <1>0, <1>1, <1>2, <2>1, <2>2, LeadersStay DEF ControlOK
<1>7. CASE BecomeLeader(i)
  <2>1. /\ calls' = calls /\ term' = term /\ winners' = winners \cup {<<i, term[i]>>}
        /\ pc'[i] = "run" /\ pc[i] = "count" /\ leaderID'[i] = i
        /\ \A j \in Server \ {i} : /\ pc'[j] = pc[j] /\ leaderID'[j] = leaderID[j]
                                  /\ state'[j] = state[j]
    BY <1>0, <1>7 DEF BecomeLeader, ControlOK
  <2>2. Won(i)'
    BY <2>1, Zenon DEF LeaderInv, Won
  <2>3. \A x : Won(x) => Won(x)'
    BY <2>1, Zenon DEF Won
  <2>4. \A j \in Server : leaderID'[j] # NoServer => Won(leaderID[j])'
    BY <2>1, <2>2, <1>1, Zenon DEF Won
  <2> QED
    BY <1>1, <1>2, <2>1, <2>2, <2>3, <2>4, Zenon DEF LeaderInv
<1>8. CASE RunLeader(i) \/ HeartbeatTick(i)
  <2>1. /\ winners' = winners /\ term' = term /\ leaderID' = leaderID /\ state' = state
        /\ pc[i] \in {"leader", "lead"}
        /\ \E to \in {"lead", "leadCheck"} : pc' = [pc EXCEPT ![i] = to]
    BY <1>8 DEF RunLeader, HeartbeatTick
  <2>2. \A d \in calls' : d \in calls \/ d.from = i
    <3>1. SendHeartbeats(i)
      BY <1>8 DEF RunLeader, HeartbeatTick
    <3>2. PICK P \in SUBSET Peers(i) :
             calls' = calls \cup {NewCall("append", i, j, currentTerm[i]) : j \in P}
      BY <3>1 DEF SendHeartbeats
    <3> SUFFICES ASSUME NEW d \in calls', d \notin calls PROVE d.from = i
      OBVIOUS
    <3>3. PICK j \in P : d = NewCall("append", i, j, currentTerm[i])
      BY <3>2
    <3> QED
      BY <3>3 DEF NewCall
  <2>3. \A d \in calls' : d.kind = "append" => Won(d.from)
    BY <1>1, <1>2, <2>1, <2>2
  <2>4. \A j \in Server :
           /\ pc'[j] \in {"voteSelf", "request", "gather", "count"} =>
                 pc[j] \in {"voteSelf", "request", "gather", "count"}
           /\ pc'[j] \in {"leader", "lead", "commit", "leadCheck"} => Won(j)
    BY <1>0, <1>1, <2>1 DEF ControlOK
  <2> QED
    BY <1>1, <2>1, <2>3, <2>4, LeadersStay, Zenon
<1> QED
  BY <1>3, <1>4, <1>5, <1>6, <1>7, <1>8 DEF RunStep

LEMMA LeaderInvHolds == RaftSpec => []LeaderInv
<1>1. RaftInit => LeaderInv
  BY DEF RaftInit, LeaderInv
<1>2. ElectionInv /\ LeaderInv /\ [RaftNext]_raftVars => LeaderInv'
  <2> SUFFICES ASSUME ElectionInv, LeaderInv, [RaftNext]_raftVars PROVE LeaderInv'
    OBVIOUS
  <2>1. CASE RaftNext
    BY <2>1, LeaderRunSteps, LeaderCallSteps DEF RaftNext
  <2>2. CASE UNCHANGED raftVars
    BY <2>2 DEF LeaderInv, Won, raftVars, termVars, candidateVars, history
  <2> QED
    BY <2>1, <2>2
<1> QED
  BY <1>1, <1>2, ElectionInductive, PTL DEF RaftSpec

(***************************************************************************)
(* KnownLeadersTheorem: the leader that getLeader reports on any server    *)
(* won an election, whatever calls of past leaders are still on their way. *)
(***************************************************************************)
THEOREM KnownLeadersTheorem == RaftSpec => []KnownLeadersWereElected
<1>1. LeaderInv => KnownLeadersWereElected
  BY DEF LeaderInv, KnownLeadersWereElected, Won
<1> QED
  BY <1>1, LeaderInvHolds, PTL

-----------------------------------------------------------------------------
(* applyLoop *)

\* applyLoop's i is past every entry applied.
ApplyInv ==
    /\ lastApplied \in [Server -> Nat] /\ applyNext \in [Server -> Nat]
    /\ \A i \in Server : applyNext[i] > lastApplied[i]

LEMMA ApplyInvHolds == RaftSpec => []ApplyInv
<1>1. RaftInit => ApplyInv
  BY DEF RaftInit, ApplyInv
<1>2. ApplyInv /\ [RaftNext]_raftVars => ApplyInv'
  <2> SUFFICES ASSUME ApplyInv, [RaftNext]_raftVars PROVE ApplyInv'
    OBVIOUS
  <2>1. ASSUME UNCHANGED applyVars PROVE ApplyInv'
    BY <2>1 DEF ApplyInv, applyVars
  <2>2. ASSUME NEW i \in Server, ApplyBegin(i) PROVE ApplyInv'
    BY <2>2 DEF ApplyInv, ApplyBegin
  <2>3. ASSUME NEW i \in Server, ApplyOne(i) PROVE ApplyInv'
    BY <2>3 DEF ApplyInv, ApplyOne
  <2>4. ASSUME NEW i \in Server,
               RunStep(i) \/ ElectionTimeout(i) \/ CandidateTimeout(i) \/ Propose(i)
        PROVE  UNCHANGED applyVars
    BY <2>4 DEF RunStep, Run, SetCandidate, BecomeCandidate, VoteForSelf, RequestVotes,
                VotesAreIn, BecomeLeader, LoseElection, RunLeader, HeartbeatTick,
                UpdateCommitIndexRead, UpdateCommitIndexSet, LeaderCheck, ElectionTimeout,
                CandidateTimeout, Propose, ProposeRole, ProposeTerm, ProposeAppend
  <2>5. ASSUME NEW c \in calls,
               \/ SendVoteRequest(c) \/ VoteReply(c)
               \/ SendAppend(c) \/ AppendReply(c) \/ AppendReplyStepDown(c)
               \/ HandlerStep(c) \/ ContextExpires(c) \/ CallFails(c)
        PROVE  UNCHANGED applyVars
    BY <2>5, Zenon DEF SendVoteRequest, VoteReply, SendAppend, ReadNextIndex, ReadPrevLogTerm,
                ReadEntries, SendAppendRequest, AppendReply,
                AppendReplyStepDown, HandlerStep, RequestVoteTerm, RequestVoteDecide,
                AppendEntriesTerm, AppendEntriesLog, ContextExpires, CallFails
  <2>6. CASE UNCHANGED raftVars
    BY <2>1, <2>6 DEF raftVars
  <2> QED
    BY <2>1, <2>2, <2>3, <2>4, <2>5, <2>6 DEF RaftNext
<1> QED
  BY <1>1, <1>2, PTL DEF RaftSpec

(***************************************************************************)
(* AppliedInOrderTheorem: applyFunc gets entries in the order of their     *)
(* indexes and none twice, whatever the handlers do to the log and to the  *)
(* commit index between two iterations of applyLoop.                       *)
(***************************************************************************)
THEOREM AppliedInOrderTheorem == RaftSpec => AppliedInOrder
<1>1. ApplyInv =>
         \A i \in Server :
            ApplyOne(i) /\ applyNext[i] <= Len(log[i]) => lastApplied'[i] > lastApplied[i]
  BY DEF ApplyInv, ApplyOne
<1> QED
  BY <1>1, ApplyInvHolds, PTL DEF RaftSpec, AppliedInOrder

=============================================================================
