------------------------------ MODULE FairLock ------------------------------
(***************************************************************************)
(* What the lock manager promises ("Distributed locking with fair FIFO     *)
(* ordering", README.md): requests draw increasing tickets, a lock is      *)
(* granted only to the oldest request that has not left, and a request     *)
(* leaves when it gives up, is released or loses its session.              *)
(***************************************************************************)
EXTENDS Naturals

CONSTANTS
    Request,   \* acquire calls
    NameOf     \* the lock each of them is for

VARIABLES
    ticket,    \* the ticket of a request that is queued or holds the lock, else 0
    last,      \* the last ticket drawn
    owner      \* the requests a lock is granted to

fairVars == <<ticket, last, owner>>

Queued(r) == ticket[r] # 0

Init ==
    /\ ticket = [r \in Request |-> 0]
    /\ last = 0
    /\ owner = {}

Arrive(r) ==
    /\ ~Queued(r)
    /\ last' = last + 1
    /\ ticket' = [ticket EXCEPT ![r] = last + 1]
    /\ UNCHANGED owner

Grant(r) ==
    /\ Queued(r) /\ r \notin owner
    /\ \A q \in Request : NameOf[q] = NameOf[r] /\ Queued(q) => ticket[r] <= ticket[q]
    /\ owner' = owner \cup {r}
    /\ UNCHANGED <<ticket, last>>

\* A session that ends takes all of its requests with it.
Leave(S) ==
    /\ \E r \in S : Queued(r)
    /\ ticket' = [r \in Request |-> IF r \in S THEN 0 ELSE ticket[r]]
    /\ owner' = owner \ S
    /\ UNCHANGED last

Next ==
    \/ \E r \in Request : Arrive(r) \/ Grant(r)
    \/ \E S \in SUBSET Request : Leave(S)

Spec == Init /\ [][Next]_fairVars

=============================================================================
