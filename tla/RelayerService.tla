--------------------------- MODULE RelayerService ---------------------------
(***************************************************************************)
(* The relayer backend (relayer/) in front of the chain: it serves HTTP    *)
(* requests to relay one message each, keeps its own copy of the relayer   *)
(* trees of every poll in RocksDB, proves against that copy, sends the     *)
(* transaction and updates the copy after the transaction succeeded.       *)
(* Chain steps are those of Mootvote; the service adds the requests, the   *)
(* per-poll lock, the transactions in flight, crashes and lost answers.    *)
(***************************************************************************)
EXTENDS Mootvote

CONSTANTS
    Requests,   \* HTTP requests, each sent once; a retry is another request
    SERVICE_KEY \* public key of the relayer's wallet

\* The service is the relayer that the zk-relayer program accepts.
ASSUME ServiceConstants ==
    /\ SERVICE_KEY \in Keys
    /\ \A c \in RelayerConfigs : c.fee_key = SERVICE_KEY

VARIABLES
    request,  \* progress of every request
    message,  \* the message it asks to relay
    db,       \* RocksDB: the quota and uniq trees of every poll
    waiters,  \* lock of every poll, a FIFO mutex: the head holds it
    inflight, \* transactions sent and neither executed nor dropped
    landed,   \* requests whose transaction the chain has executed
    lost      \* history: polls for which an answer of the chain was lost

service_vars == <<request, message, db, waiters, inflight, landed, lost>>
all_vars == <<vars, service_vars>>

Answered == {"relayed", "duplicated", "exceeded", "failed"}
Unfinished == {"queued", "sent"}
RequestStatus == {"new", "cut"} \union Unfinished \union Answered

TransactionType == [request : Requests, root_old : TreesType, msg : Messages]

Nu(m) == RelayerNu(m, SERVICE_KEY)

RelayerInit ==
    /\ Init
    /\ request = [r \in Requests |-> "new"]
    /\ message = [r \in Requests |-> Null]
    /\ db = [p \in PollIds |-> EmptyTrees]
    /\ waiters = [p \in PollIds |-> <<>>]
    /\ inflight = {}
    /\ landed = {}
    /\ lost = {}

-----------------------------------------------------------------------------
(* relay_inner *)

Receive(r, m) ==
    /\ request[r] = "new"
    /\ request' = [request EXCEPT ![r] = "queued"]
    /\ message' = [message EXCEPT ![r] = m]
    /\ waiters' = [waiters EXCEPT ![m.poll] = Append(@, r)]
    /\ UNCHANGED <<db, inflight, landed, lost, vars>>

\* Faulty variants: no lock; a lock that an early return does not release.
UnlockedHolds(r, p) == request[r] = "queued"

FinishKeepingLock(r, status) ==
    /\ request' = [request EXCEPT ![r] = status]
    /\ waiters' = IF status = "relayed"
                  THEN [waiters EXCEPT ![message[r].poll] = Tail(@)]
                  ELSE waiters

\* Returning drops the guard: the lock passes to the next in line.
Finish(r, status) ==
    /\ request' = [request EXCEPT ![r] = status]
    /\ waiters' = [waiters EXCEPT ![message[r].poll] = Tail(@)]

Holds(r, p) == waiters[p] # <<>> /\ Head(waiters[p]) = r

\* The early returns, with nothing sent or written.
RefuseDuplicate(r) ==
    /\ request[r] = "queued"
    /\ Holds(r, message[r].poll)
    /\ message[r] \in db[message[r].poll].uniq
    /\ Finish(r, "duplicated")
    /\ UNCHANGED <<message, db, inflight, landed, lost, vars>>

RefuseExcess(r) ==
    /\ request[r] = "queued"
    /\ Holds(r, message[r].poll)
    /\ LET trees == db[message[r].poll]
       IN  /\ message[r] \notin trees.uniq
           /\ trees.quota[Nu(message[r])] >= MSG_LIMIT
    /\ Finish(r, "exceeded")
    /\ UNCHANGED <<message, db, inflight, landed, lost, vars>>

\* Load the trees, prove, send; the handler then awaits the transactor with
\* the lock held.
Send(r) ==
    /\ request[r] = "queued"
    /\ Holds(r, message[r].poll)
    /\ LET trees == db[message[r].poll]
       IN  /\ RelayCircuit(trees, Nu(message[r]), message[r], MSG_LIMIT)
           /\ inflight' = inflight \union
                {[request |-> r, root_old |-> trees, msg |-> message[r]]}
    /\ request' = [request EXCEPT ![r] = "sent"]
    /\ UNCHANGED <<message, db, waiters, landed, lost, vars>>

\* Faulty variant: only the uniq tree is written.
PersistUniqOnly(p, m) == db' = [db EXCEPT ![p].uniq = @ \union {m}]

\* Both trees in one write batch.
Persist(p, m) == db' = [db EXCEPT ![p] = RelayRootNew(@, Nu(m), m)]

\* Faulty variant: the status of the transaction is not looked at.
AnswerUnchecked(r) ==
    /\ request[r] = "sent"
    /\ Persist(message[r].poll, message[r])
    /\ Finish(r, "relayed")
    /\ UNCHANGED <<message, inflight, landed, lost, vars>>

AnswerRelayed(r) ==
    /\ request[r] = "sent"
    /\ r \in landed
    /\ Persist(message[r].poll, message[r])
    /\ Finish(r, "relayed")
    /\ UNCHANGED <<message, inflight, landed, lost, vars>>

\* The transactor gives up on a transaction that may have been executed or
\* may still be: the handler returns without writing.
AnswerLost(r) ==
    /\ request[r] = "sent"
    /\ Finish(r, "failed")
    /\ lost' = lost \union {message[r].poll}
    /\ UNCHANGED <<message, db, inflight, landed, vars>>

\* The process stops: handlers and locks are gone, RocksDB and the sent
\* transactions stay.  It restarts at once with empty locks.
Crash ==
    /\ lost' = lost \union
          {message[r].poll : r \in {q \in Requests : request[q] = "sent"}}
    /\ request' = [r \in Requests |->
                     IF request[r] \in Unfinished THEN "cut" ELSE request[r]]
    /\ waiters' = [p \in PollIds |-> <<>>]
    /\ UNCHANGED <<message, db, inflight, landed, vars>>

-----------------------------------------------------------------------------
(* The chain and the way to it *)

\* The program verifies the proof against the root it stores now.
Execute(tx) ==
    /\ relayer_state[tx.msg.poll] # Null
    /\ tx.root_old = relayer_state[tx.msg.poll].root_state
    /\ Relay(tx.msg.poll, SERVICE_KEY, tx.msg)
    /\ inflight' = inflight \ {tx}
    /\ landed' = landed \union {tx.request}
    /\ UNCHANGED <<request, message, db, waiters, lost>>

\* The transaction fails, or is dropped before it reaches a block.
Reject(tx) ==
    /\ inflight' = inflight \ {tx}
    /\ IF request[tx.request] = "sent"
       THEN Finish(tx.request, "failed")
       ELSE UNCHANGED <<request, waiters>>
    /\ UNCHANGED <<message, db, landed, lost, vars>>

\* Every transaction but relay, which needs the service's signature and is
\* the one that changes an existing relayer state.
ChainStep ==
    /\ Next
    /\ \A p \in PollIds :
          relayer_state[p] # Null => relayer_state'[p] = relayer_state[p]
    /\ UNCHANGED service_vars

RelayerNext ==
    \/ \E r \in Requests, m \in Messages : Receive(r, m)
    \/ \E r \in Requests : RefuseDuplicate(r)
    \/ \E r \in Requests : RefuseExcess(r)
    \/ \E r \in Requests : Send(r)
    \/ \E r \in Requests : AnswerRelayed(r)
    \/ \E r \in Requests : AnswerLost(r)
    \/ \E tx \in inflight : Execute(tx)
    \/ \E tx \in inflight : Reject(tx)
    \/ Crash
    \/ ChainStep

RelayerSpec == RelayerInit /\ [][RelayerNext]_all_vars

\* The runtime polls every handler that can proceed, and the transactor
\* reports on every transaction it was given.
Progress(r) ==
    \/ RefuseDuplicate(r)
    \/ RefuseExcess(r)
    \/ Send(r)
    \/ AnswerRelayed(r)
    \/ \E tx \in inflight : tx.request = r /\ (Execute(tx) \/ Reject(tx))

FairRelayerSpec == RelayerSpec /\ \A r \in Requests : WF_all_vars(Progress(r))

-----------------------------------------------------------------------------
(* Properties *)

\* Shapes of the service's state; the lock of a poll is queued for by
\* exactly its unfinished requests (relay_inner's guard).
RelayerTypeOK ==
    /\ request \in [Requests -> RequestStatus]
    /\ message \in [Requests -> Messages \union {Null}]
    /\ db \in [PollIds -> TreesType]
    /\ waiters \in [PollIds -> Seq(Requests)]
    /\ inflight \subseteq TransactionType
    /\ landed \subseteq Requests
    /\ lost \subseteq PollIds
    /\ \A p \in PollIds : Range(waiters[p]) =
          {r \in Requests : request[r] \in Unfinished /\ message[r].poll = p}

ChainTrees(p) == IF relayer_state[p] = Null THEN EmptyTrees ELSE relayer_state[p].root_state

\* Whatever answers were lost and wherever the service crashed, its database
\* is a past state of the chain: it never holds a message the chain does not,
\* and its two trees agree with each other (relay_inner writes both trees in
\* one batch, after the transaction's status).
DatabaseIsPast ==
    \A p \in PollIds :
        /\ db[p].uniq \subseteq ChainTrees(p).uniq
        /\ \A v \in Voters :
              db[p].quota[<<p, v, SERVICE_KEY>>] =
                Cardinality({m \in db[p].uniq : m.voter = v})

\* A client that is told its message was relayed, now or before, can rely on
\* it: the message is in the poll's log.
AnswersAreTrue ==
    \A r \in Requests : request[r] \in {"relayed", "duplicated"} =>
        LET p == message[r].poll
        IN  /\ poll[p] # Null
            /\ message[r] \in Range(poll[p].cumulative_msg_hash)

\* While no answer of the chain about a poll was lost, concurrent requests
\* never invalidate each other's proofs (the lock spans load to write), and
\* the database equals the chain whenever nobody holds the poll's lock.
NoConflict ==
    \A p \in PollIds \ lost :
        /\ \A tx \in inflight : tx.msg.poll = p => tx.root_old = ChainTrees(p)
        /\ waiters[p] = <<>> => db[p] = ChainTrees(p)

\* What the TODO after the await asks for: with nothing under way, the
\* database holds every message whose transaction succeeded.
DatabaseMatchesChain ==
    \A p \in PollIds :
        (waiters[p] = <<>> /\ \A tx \in inflight : tx.msg.poll # p)
          => db[p] = ChainTrees(p)

\* A request is never left waiting: it is answered, or cut by a crash
\* (every early return of relay_inner releases the lock).
EveryRequestAnswered ==
    \A r \in Requests :
        request[r] \in Unfinished ~> request[r] \in Answered \union {"cut"}
=============================================================================
