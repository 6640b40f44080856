--------------------------- MODULE RelayerProofs ---------------------------
(***************************************************************************)
(* Machine-checked proofs about RelayerService, for every number of        *)
(* requests, polls, voters and messages, with crashes, lost answers and    *)
(* dropped transactions, and, from "The sparse Merkle tree of the          *)
(* database" on, about SparseMerkleTree, the trees the service takes for   *)
(* maps: for every depth, and every set of keys that differ below it.      *)
(***************************************************************************)
EXTENDS RelayerService, SparseMerkleTree, MootvoteProofs

-----------------------------------------------------------------------------
(* The chain below the service *)

\* Every transaction but relay leaves the trees of all polls as they are,
\* a poll without relayer state counting as one with empty trees.
LEMMA TreesKept ==
    ASSUME TypeOK, [Next]_vars, NEW p \in PollIds,
           relayer_state[p] # Null => relayer_state'[p] = relayer_state[p]
    PROVE  ChainTrees(p)' = ChainTrees(p)
<1>1. CASE relayer_state'[p] = relayer_state[p]
  BY <1>1 DEF ChainTrees
<1>2. CASE relayer_state[p] = Null /\ relayer_state'[p].root_state = EmptyTrees
  BY <1>2 DEF ChainTrees
<1>3. ASSUME NEW k \in Keys, NEW m \in Messages, Relay(p, k, m) PROVE FALSE
  <2>1. /\ relayer_state[p] # Null
        /\ relayer_state'[p].root_state =
             RelayRootNew(relayer_state[p].root_state, RelayerNu(m, k), m)
    BY <1>3, RelayEffect
  <2>2. relayer_state[p].root_state \in TreesType
    BY <2>1 DEF TypeOK, RelayerStateType, TreesType
  <2>3. relayer_state'[p].root_state.uniq = relayer_state[p].root_state.uniq \union {m}
    BY <2>1, <2>2, NuType, RootNewType
  <2>4. m \notin relayer_state[p].root_state.uniq
    BY <1>3 DEF Relay, RelayCircuit
  <2> QED
    BY <2>1, <2>3, <2>4
<1> QED
  BY <1>1, <1>2, <1>3, TreesStep

\* The trees of a poll on the chain are trees, created or not.
LEMMA ChainTreesType ==
    ASSUME TypeOK, NEW p \in PollIds PROVE ChainTrees(p) \in TreesType
<1>1. EmptyTrees \in TreesType
  BY DEF EmptyTrees, TreesType, NoQuotas
<1>2. relayer_state[p] # Null => relayer_state[p].root_state \in TreesType
  BY DEF TypeOK, RelayerStateType, TreesType
<1> QED
  BY <1>1, <1>2 DEF ChainTrees

-----------------------------------------------------------------------------
(* The invariant *)

\* The queues of the locks: nobody is in line twice, and a request that has
\* sent its transaction holds the lock of its poll.
LockInv ==
    /\ \A p \in PollIds : \A i, j \in DOMAIN waiters[p] :
          waiters[p][i] = waiters[p][j] => i = j
    /\ \A r \in Requests : request[r] # "new" => message[r] \in Messages
    /\ \A r \in Requests : request[r] = "sent" => Holds(r, message[r].poll)

\* Transactions carry the message of their request, and what landed is in
\* the trees of the chain.
Past == RequestStatus \ {"new", "queued"}

FlightInv ==
    /\ \A tx \in inflight : tx.msg = message[tx.request] /\ request[tx.request] \in Past
    /\ \A r \in landed : /\ request[r] \in Past
                         /\ message[r] \in ChainTrees(message[r].poll).uniq

\* What the database holds for p.
DbInv ==
    /\ \A p \in PollIds :
          /\ IsFiniteSet(db[p].uniq)
          /\ db[p].uniq \subseteq ChainTrees(p).uniq
          /\ \A v \in Voters : db[p].quota[<<p, v, SERVICE_KEY>>] =
                Cardinality({m \in db[p].uniq : m.voter = v})
    /\ \A r \in Requests : request[r] = "sent" =>
          message[r] \notin db[message[r].poll].uniq
    /\ \A r \in Requests : request[r] \in {"relayed", "duplicated"} =>
          message[r] \in ChainTrees(message[r].poll).uniq

SentOn(r, p) == request[r] = "sent" /\ message[r].poll = p

\* No answer about p was lost: a transaction about p is that of the request
\* that holds the lock, until it lands, and database and chain differ only
\* between its landing and its answer.
InStep(p) ==
    /\ \A tx \in inflight : tx.msg.poll = p =>
          SentOn(tx.request, p) /\ tx.request \notin landed /\ tx.root_old = db[p]
    /\ (\A r \in Requests : ~(SentOn(r, p) /\ r \in landed)) => ChainTrees(p) = db[p]
    /\ \A r \in Requests : SentOn(r, p) /\ r \in landed =>
          ChainTrees(p) = RelayRootNew(db[p], Nu(message[r]), message[r])

RelayerInv ==
    /\ TypeOK /\ RelayedInLog /\ RelayerTypeOK /\ LockInv /\ FlightInv /\ DbInv
    /\ \A p \in PollIds \ lost : InStep(p)

-----------------------------------------------------------------------------
(* The locks *)

\* Whoever waits second comes first, and nobody waits twice.
LEMMA TailOfLine ==
    ASSUME NEW S, NEW s \in Seq(S), s # <<>>,
           \A i, j \in DOMAIN s : s[i] = s[j] => i = j
    PROVE  /\ Tail(s) \in Seq(S)
           /\ Range(Tail(s)) = Range(s) \ {Head(s)}
           /\ \A i, j \in DOMAIN Tail(s) : Tail(s)[i] = Tail(s)[j] => i = j
<1>1. PICK n \in Nat : n = Len(s) /\ DOMAIN s = 1..n /\ n > 0
  OBVIOUS
<1>2. PICK u : u = Tail(s)
  OBVIOUS
<1>3. /\ u \in Seq(S) /\ DOMAIN u = 1..(n - 1)
      /\ \A i \in 1..(n - 1) : u[i] = s[i + 1]
  BY <1>1, <1>2
<1>4. Head(s) = s[1]
  OBVIOUS
<1>5. ASSUME NEW x \in Range(u) PROVE x \in Range(s) \ {Head(s)}
  <2>1. PICK i \in 1..(n - 1) : x = s[i + 1]
    BY <1>3 DEF Range
  <2>2. i + 1 \in 1..n /\ 1 \in 1..n /\ i + 1 # 1
    BY <1>1
  <2> QED
    BY <1>1, <1>4, <2>1, <2>2 DEF Range
<1>6. ASSUME NEW x \in Range(s) \ {Head(s)} PROVE x \in Range(u)
  <2>1. PICK i \in 1..n : x = s[i] /\ i # 1
    BY <1>1, <1>4 DEF Range
  <2>2. i - 1 \in 1..(n - 1) /\ (i - 1) + 1 = i
    BY <2>1
  <2>3. u[i - 1] = x
    BY <1>3, <2>1, <2>2
  <2> QED
    BY <1>3, <2>2, <2>3 DEF Range
<1>7. ASSUME NEW i \in DOMAIN u, NEW j \in DOMAIN u, u[i] = u[j] PROVE i = j
  <2>1. i + 1 \in DOMAIN s /\ j + 1 \in DOMAIN s /\ s[i + 1] = s[j + 1]
    BY <1>1, <1>3, <1>7
  <2>2. i + 1 = j + 1
    BY <2>1
  <2> QED
    BY <1>3, <2>2
<1> QED
  BY <1>2, <1>3, <1>5, <1>6, <1>7

\* Somebody new joins the line at its end.
LEMMA JoinLine ==
    ASSUME NEW S, NEW s \in Seq(S), NEW x \in S, x \notin Range(s),
           \A i, j \in DOMAIN s : s[i] = s[j] => i = j
    PROVE  /\ Append(s, x) \in Seq(S)
           /\ Range(Append(s, x)) = Range(s) \union {x}
           /\ \A i, j \in DOMAIN Append(s, x) : Append(s, x)[i] = Append(s, x)[j] => i = j
           /\ s # <<>> => Head(Append(s, x)) = Head(s)
           /\ Append(s, x) # <<>>
<1>1. PICK n \in Nat : n = Len(s) /\ DOMAIN s = 1..n
  OBVIOUS
<1>2. PICK u : u = Append(s, x)
  OBVIOUS
<1>3. /\ u \in Seq(S) /\ DOMAIN u = 1..(n + 1) /\ u[n + 1] = x
      /\ \A i \in 1..n : u[i] = s[i]
  BY <1>1, <1>2
<1>4. \A i \in 1..n : s[i] # x
  BY <1>1 DEF Range
<1>5. ASSUME NEW i \in 1..(n + 1), NEW j \in 1..(n + 1), u[i] = u[j] PROVE i = j
  <2>1. (i = n + 1 \/ i \in 1..n) /\ (j = n + 1 \/ j \in 1..n)
    OBVIOUS
  <2> QED
    BY <1>1, <1>3, <1>4, <1>5, <2>1
<1>6. Range(u) = Range(s) \union {x}
  <2>1. 1..(n + 1) = (1..n) \union {n + 1}
    OBVIOUS
  <2> QED
    BY <1>1, <1>3, <2>1 DEF Range
<1>7. s # <<>> => Head(u) = Head(s)
  <2>1. s # <<>> => 1 \in 1..n /\ Head(s) = s[1]
    BY <1>1
  <2>2. Head(u) = u[1]
    BY <1>2
  <2> QED
    BY <1>3, <2>1, <2>2
<1> QED
  BY <1>2, <1>3, <1>5, <1>6, <1>7

\* Who is in line for which lock.
LineType ==
    /\ request \in [Requests -> RequestStatus]
    /\ message \in [Requests -> Messages \union {Null}]
    /\ waiters \in [PollIds -> Seq(Requests)]
    /\ \A p \in PollIds : Range(waiters[p]) =
          {r \in Requests : request[r] \in Unfinished /\ message[r].poll = p}

\* An answer frees the lock for the next in line.
LEMMA FinishLines ==
    ASSUME RelayerInv, NEW r \in Requests, NEW status \in Answered,
           request[r] \in Unfinished, Holds(r, message[r].poll),
           Finish(r, status), message' = message
    PROVE  LineType' /\ LockInv'
<1>1. /\ request \in [Requests -> RequestStatus]
      /\ message \in [Requests -> Messages \union {Null}]
      /\ waiters \in [PollIds -> Seq(Requests)]
      /\ \A p \in PollIds : Range(waiters[p]) =
            {q \in Requests : request[q] \in Unfinished /\ message[q].poll = p}
  BY DEF RelayerInv, RelayerTypeOK
<1>2. LockInv
  BY DEF RelayerInv
<1>3. message[r] \in Messages
  BY <1>2 DEF LockInv, Unfinished
<1>4. PICK p \in PollIds : p = message[r].poll
  BY <1>3, CircuitConstants DEF MessageType
<1>5. PICK line \in Seq(Requests) : line = waiters[p]
  BY <1>1
<1>6. line # <<>> /\ Head(line) = r
  BY <1>4, <1>5 DEF Holds
<1>7. \A i, j \in DOMAIN line : line[i] = line[j] => i = j
  BY <1>2, <1>5 DEF LockInv
<1>8. /\ Tail(line) \in Seq(Requests)
      /\ Range(Tail(line)) = Range(line) \ {r}
      /\ \A i, j \in DOMAIN Tail(line) : Tail(line)[i] = Tail(line)[j] => i = j
  BY <1>6, <1>7, TailOfLine
<1>9. /\ request' = [request EXCEPT ![r] = status]
      /\ waiters' = [waiters EXCEPT ![p] = Tail(line)]
  BY <1>4, <1>5 DEF Finish
<1>10. status \in RequestStatus /\ status \notin Unfinished /\ status # "sent" /\ status # "new"
  BY DEF RequestStatus, Answered, Unfinished
<1>11. request' \in [Requests -> RequestStatus] /\ waiters' \in [PollIds -> Seq(Requests)]
  BY <1>1, <1>8, <1>9, <1>10
<1>12. ASSUME NEW q \in PollIds
       PROVE  Range(waiters'[q]) =
                {x \in Requests : request'[x] \in Unfinished /\ message[x].poll = q}
  <2>1. {x \in Requests : request'[x] \in Unfinished /\ message[x].poll = q}
          = {x \in Requests : request[x] \in Unfinished /\ message[x].poll = q} \ {r}
    BY <1>1, <1>9, <1>10
  <2>2. CASE q = p
    BY <1>1, <1>5, <1>8, <1>9, <2>1, <2>2
  <2>3. CASE q # p
    BY <1>1, <1>4, <1>9, <2>1, <2>3
  <2> QED
    BY <2>2, <2>3
<1>13. LineType'
  BY <1>1, <1>11, <1>12 DEF LineType
<1>14. LockInv'
  <2>1. ASSUME NEW q \in PollIds
        PROVE  \A i, j \in DOMAIN waiters'[q] : waiters'[q][i] = waiters'[q][j] => i = j
    BY <1>1, <1>2, <1>8, <1>9 DEF LockInv
  <2>2. ASSUME NEW x \in Requests, request'[x] # "new" PROVE message'[x] \in Messages
    BY <1>1, <1>2, <1>3, <1>9, <2>2 DEF LockInv
  <2>3. ASSUME NEW x \in Requests, request'[x] = "sent"
        PROVE  Holds(x, message[x].poll)'
    <3>1. x # r /\ request[x] = "sent"
      BY <1>1, <1>9, <1>10, <2>3
    <3>2. Holds(x, message[x].poll)
      BY <1>2, <3>1 DEF LockInv
    <3>3. message[x].poll # p
      BY <1>5, <1>6, <3>1, <3>2 DEF Holds
    <3>4. waiters'[message[x].poll] = waiters[message[x].poll]
      <4>1. message[x] \in Messages
        BY <1>2, <3>1 DEF LockInv
      <4>2. message[x].poll \in PollIds
        BY <4>1, NuType, ServiceConstants
      <4> QED
        BY <1>1, <1>9, <3>3, <4>2
    <3> QED
      BY <3>2, <3>4 DEF Holds
  <2> QED
    BY <2>1, <2>2, <2>3 DEF LockInv
<1> QED
  BY <1>13, <1>14

\* Nobody else holds the lock of a poll.
LEMMA OneHolder ==
    ASSUME RelayerInv, NEW r \in Requests, NEW q \in Requests,
           Holds(r, message[r].poll), SentOn(q, message[r].poll)
    PROVE  q = r
BY DEF RelayerInv, LockInv, SentOn, Holds

-----------------------------------------------------------------------------
(* What most steps leave alone *)

ChainSame == \A p \in PollIds : ChainTrees(p)' = ChainTrees(p)
ChainGrows == \A p \in PollIds : ChainTrees(p).uniq \subseteq ChainTrees(p)'.uniq

\* A step of the service alone leaves the chain as it is.
LEMMA ChainStill ==
    ASSUME RelayerInv, UNCHANGED vars
    PROVE  TypeOK' /\ RelayedInLog' /\ ChainSame
<1>1. TypeOK /\ RelayedInLog
  BY DEF RelayerInv
<1> QED
  BY <1>1, TypeStep, RelayedStep DEF vars, ChainTrees, ChainSame

\* Who was received asks for a message of some poll.
LEMMA MessagePoll ==
    ASSUME RelayerInv, NEW r \in Requests, request[r] # "new"
    PROVE  /\ message[r] \in Messages /\ message[r].poll \in PollIds
           /\ Nu(message[r]) \in RelayerNus
<1>1. message[r] \in Messages
  BY DEF RelayerInv, LockInv
<1> QED
  BY <1>1, NuType, ServiceConstants DEF Nu

\* Requests move on, and what they asked for stays.
Forward ==
    \A x \in Requests : request[x] \in Past =>
        request'[x] \in Past /\ message'[x] = message[x]

\* Transactions in flight stay known when none is added.
LEMMA FlightKept ==
    ASSUME RelayerInv, Forward, ChainGrows, inflight' \subseteq inflight, landed' = landed
    PROVE  FlightInv'
<1>1. FlightInv /\ inflight \subseteq TransactionType /\ landed \subseteq Requests
  BY DEF RelayerInv, RelayerTypeOK
<1>2. ASSUME NEW tx \in inflight'
      PROVE  tx.msg = message'[tx.request] /\ request'[tx.request] \in Past
  <2>1. tx \in inflight /\ tx.request \in Requests
    BY <1>1 DEF TransactionType
  <2> QED
    BY <1>1, <2>1 DEF FlightInv, Forward
<1>3. ASSUME NEW r \in landed'
      PROVE  (request[r] \in Past /\ message[r] \in ChainTrees(message[r].poll).uniq)'
  <2>1. /\ r \in Requests /\ request[r] \in Past
        /\ message[r] \in ChainTrees(message[r].poll).uniq
    BY <1>1 DEF FlightInv
  <2>2. message'[r] = message[r] /\ request'[r] \in Past
    BY <2>1 DEF Forward
  <2>3. PICK p \in PollIds : p = message[r].poll /\ p = message'[r].poll
    BY <2>1, <2>2, MessagePoll DEF Past
  <2>4. message'[r] \in ChainTrees(p)'.uniq
    BY <2>1, <2>2, <2>3 DEF ChainGrows
  <2> QED
    BY <2>2, <2>3, <2>4
<1> QED
  BY <1>2, <1>3 DEF FlightInv

\* A database that does not change stays a past of the growing chain.
LEMMA DbKept ==
    ASSUME RelayerInv, Forward, ChainGrows, db' = db,
           \A x \in Requests : request'[x] = "sent" =>
               message'[x] \notin db[message'[x].poll].uniq,
           \A x \in Requests : request'[x] \in {"relayed", "duplicated"} =>
               \/ request[x] \in {"relayed", "duplicated"}
               \/ /\ request[x] # "new" /\ message'[x] = message[x]
                  /\ message[x] \in ChainTrees(message[x].poll).uniq
    PROVE  DbInv'
<1>1. DbInv
  BY DEF RelayerInv
<1>2. ASSUME NEW x \in Requests, request'[x] \in {"relayed", "duplicated"}
      PROVE  (message[x] \in ChainTrees(message[x].poll).uniq)'
  <2>1. /\ message'[x] = message[x] /\ request[x] # "new"
        /\ message[x] \in ChainTrees(message[x].poll).uniq
    BY <1>1, <1>2 DEF DbInv, Forward, Past, RequestStatus, Answered
  <2>2. PICK p \in PollIds : p = message[x].poll /\ p = message'[x].poll
    BY <2>1, MessagePoll
  <2>3. message'[x] \in ChainTrees(p)'.uniq
    BY <2>1, <2>2 DEF ChainGrows
  <2> QED
    BY <2>2, <2>3
<1>3. ASSUME NEW p \in PollIds PROVE db[p].uniq \subseteq ChainTrees(p)'.uniq
  <2>1. db[p].uniq \subseteq ChainTrees(p).uniq
    BY <1>1 DEF DbInv
  <2>2. ChainTrees(p).uniq \subseteq ChainTrees(p)'.uniq
    BY DEF ChainGrows
  <2> QED
    BY <2>1, <2>2
<1> QED
  BY <1>1, <1>2, <1>3 DEF DbInv

\* A poll that a step does not touch stays in step with the chain.
LEMMA InStepKept ==
    ASSUME RelayerInv, NEW p \in PollIds, InStep(p),
           db'[p] = db[p], ChainTrees(p)' = ChainTrees(p),
           \A x \in Requests : SentOn(x, p)' <=> SentOn(x, p),
           \A x \in Requests : SentOn(x, p) =>
               message'[x] = message[x] /\ (x \in landed' <=> x \in landed),
           \A tx \in inflight' : tx.msg.poll = p => tx \in inflight
    PROVE  InStep(p)'
<1>1. inflight \subseteq TransactionType
  BY DEF RelayerInv, RelayerTypeOK
<1>2. \A tx \in inflight' : tx.msg.poll = p =>
          SentOn(tx.request, p)' /\ tx.request \notin landed' /\ tx.root_old = db'[p]
  <2>1. ASSUME NEW tx \in inflight', tx.msg.poll = p
        PROVE  SentOn(tx.request, p)' /\ tx.request \notin landed' /\ tx.root_old = db'[p]
    <3>1. tx \in inflight
      BY <2>1
    <3>2. tx.request \in Requests
      BY <1>1, <3>1 DEF TransactionType
    <3>3. SentOn(tx.request, p) /\ tx.request \notin landed /\ tx.root_old = db[p]
      BY <2>1, <3>1 DEF InStep
    <3> QED
      BY <3>2, <3>3
  <2> QED
    BY <2>1
<1>3. (\A r \in Requests : ~(SentOn(r, p)' /\ r \in landed')) => ChainTrees(p)' = db'[p]
  <2>1. (\A r \in Requests : ~(SentOn(r, p) /\ r \in landed)) => ChainTrees(p) = db[p]
    BY DEF InStep
  <2> QED
    BY <2>1
<1>4. \A r \in Requests : SentOn(r, p)' /\ r \in landed' =>
          ChainTrees(p)' = RelayRootNew(db'[p], Nu(message'[r]), message'[r])
  <2>1. \A r \in Requests : SentOn(r, p) /\ r \in landed =>
          ChainTrees(p) = RelayRootNew(db[p], Nu(message[r]), message[r])
    BY DEF InStep
  <2> QED
    BY <2>1
<1> QED
  BY <1>2, <1>3, <1>4 DEF InStep

RestType ==
    /\ db \in [PollIds -> TreesType]
    /\ inflight \subseteq TransactionType
    /\ landed \subseteq Requests
    /\ lost \subseteq PollIds

\* RelayerTypeOK in the two parts that the proofs cite separately.
LEMMA Types == LineType /\ RestType <=> RelayerTypeOK
BY DEF LineType, RestType, RelayerTypeOK

-----------------------------------------------------------------------------
(* Steps *)

\* The service starts with an empty database before an empty chain.
LEMMA RelayerInvInit == RelayerInit => RelayerInv
<1> SUFFICES ASSUME RelayerInit PROVE RelayerInv
  OBVIOUS
<1>1. Init /\ TypeOK /\ RelayedInLog
  BY TypeInit, RelayedInit DEF RelayerInit
<1>2. \A p \in PollIds : ChainTrees(p) = EmptyTrees
  BY <1>1 DEF Init, ChainTrees
<1>3. EmptyTrees \in TreesType /\ EmptyTrees.uniq = {}
  BY DEF EmptyTrees, TreesType, NoQuotas
<1>4. RelayerTypeOK
  BY <1>3 DEF RelayerInit, RelayerTypeOK, RequestStatus, Unfinished, Range
<1>5. LockInv
  BY DEF RelayerInit, LockInv
<1>6. FlightInv
  BY DEF RelayerInit, FlightInv
<1>7. DbInv
  <2>1. ASSUME NEW p \in PollIds, NEW v \in Voters
        PROVE  EmptyTrees.quota[<<p, v, SERVICE_KEY>>]
                 = Cardinality({m \in {} : m.voter = v})
    <3>1. Cardinality({m \in {} : m.voter = v}) = 0
      BY FS_EmptySet
    <3>2. <<p, v, SERVICE_KEY>> \in RelayerNus
      BY ServiceConstants DEF RelayerNus
    <3> QED
      BY <3>1, <3>2 DEF EmptyTrees, NoQuotas
  <2>2. \A p \in PollIds : db[p] = EmptyTrees
    BY DEF RelayerInit
  <2>3. IsFiniteSet({})
    BY FS_EmptySet
  <2>4. \A r \in Requests : request[r] = "new"
    BY DEF RelayerInit
  <2> QED
    BY <1>3, <2>1, <2>2, <2>3, <2>4 DEF DbInv
<1>8. \A p \in PollIds : InStep(p)
  BY <1>2 DEF RelayerInit, InStep, SentOn
<1> QED
  BY <1>1, <1>4, <1>5, <1>6, <1>7, <1>8 DEF RelayerInv

\* server.rs: a request that takes the last place in line.
LEMMA ReceiveStep ==
    ASSUME RelayerInv, NEW r \in Requests, NEW m \in Messages, Receive(r, m)
    PROVE  RelayerInv'
<1>1. /\ request[r] = "new" /\ request' = [request EXCEPT ![r] = "queued"]
      /\ message' = [message EXCEPT ![r] = m]
      /\ waiters' = [waiters EXCEPT ![m.poll] = Append(@, r)]
      /\ UNCHANGED <<db, inflight, landed, lost, vars>>
  BY DEF Receive
<1>2. TypeOK' /\ RelayedInLog' /\ ChainSame
  BY <1>1, ChainStill
<1>3. LineType /\ RestType /\ LockInv
  BY Types DEF RelayerInv
<1>4. PICK p \in PollIds : p = m.poll
  BY NuType, ServiceConstants
<1>5. PICK line \in Seq(Requests) : line = waiters[p]
  BY <1>3 DEF LineType
<1>6. r \notin Range(line)
  BY <1>1, <1>3, <1>5 DEF LineType, Unfinished
<1>7. \A i, j \in DOMAIN line : line[i] = line[j] => i = j
  BY <1>3, <1>5 DEF LockInv
<1>8. /\ Append(line, r) \in Seq(Requests)
      /\ Range(Append(line, r)) = Range(line) \union {r}
      /\ \A i, j \in DOMAIN Append(line, r) : Append(line, r)[i] = Append(line, r)[j] => i = j
      /\ line # <<>> => Head(Append(line, r)) = Head(line)
      /\ Append(line, r) # <<>>
  BY <1>6, <1>7, JoinLine
<1>9. PICK longer : longer = Append(line, r)
  OBVIOUS
<1>10. waiters' = [waiters EXCEPT ![p] = longer]
  BY <1>1, <1>4, <1>5, <1>9
<1>11. /\ request \in [Requests -> RequestStatus]
       /\ message \in [Requests -> Messages \union {Null}]
       /\ waiters \in [PollIds -> Seq(Requests)]
       /\ \A q \in PollIds : Range(waiters[q]) =
            {x \in Requests : request[x] \in Unfinished /\ message[x].poll = q}
  BY <1>3 DEF LineType
<1>12. LineType'
  <2>1. request' \in [Requests -> RequestStatus]
    BY <1>1, <1>11 DEF RequestStatus, Unfinished
  <2>2. message' \in [Requests -> Messages \union {Null}]
    BY <1>1, <1>11
  <2>3. waiters' \in [PollIds -> Seq(Requests)]
    BY <1>8, <1>9, <1>10, <1>11
  <2>4. ASSUME NEW q \in PollIds
        PROVE  Range(waiters'[q]) =
                 {x \in Requests : request'[x] \in Unfinished /\ message'[x].poll = q}
    <3>1. CASE q = p
      <4>1. {x \in Requests : request'[x] \in Unfinished /\ message'[x].poll = p}
              = {x \in Requests : request[x] \in Unfinished /\ message[x].poll = p} \union {r}
        BY <1>1, <1>4, <1>11 DEF Unfinished
      <4> QED
        BY <1>5, <1>8, <1>9, <1>10, <1>11, <3>1, <4>1
    <3>2. CASE q # p
      <4>1. {x \in Requests : request'[x] \in Unfinished /\ message'[x].poll = q}
              = {x \in Requests : request[x] \in Unfinished /\ message[x].poll = q}
        BY <1>1, <1>4, <1>11, <3>2 DEF Unfinished
      <4> QED
        BY <1>10, <1>11, <3>2, <4>1
    <3> QED
      BY <3>1, <3>2
  <2> QED
    BY <2>1, <2>2, <2>3, <2>4 DEF LineType
<1>13. LockInv'
  <2>1. ASSUME NEW q \in PollIds
        PROVE  \A i, j \in DOMAIN waiters'[q] : waiters'[q][i] = waiters'[q][j] => i = j
    BY <1>3, <1>8, <1>9, <1>10, <1>11 DEF LockInv
  <2>2. ASSUME NEW x \in Requests, request'[x] # "new" PROVE message'[x] \in Messages
    BY <1>1, <1>3, <1>11, <2>2 DEF LockInv
  <2>3. ASSUME NEW x \in Requests, request'[x] = "sent"
        PROVE  Holds(x, message[x].poll)'
    <3>1. x # r /\ request[x] = "sent" /\ message'[x] = message[x]
      BY <1>1, <1>11, <2>3
    <3>2. Holds(x, message[x].poll)
      BY <1>3, <3>1 DEF LockInv
    <3>3. message[x].poll \in PollIds
      BY <3>1, MessagePoll
    <3> QED
      BY <1>5, <1>8, <1>9, <1>10, <1>11, <3>1, <3>2, <3>3 DEF Holds
  <2> QED
    BY <2>1, <2>2, <2>3 DEF LockInv
<1>14. Forward
  BY <1>1, <1>11 DEF Forward, Past
<1>15. ChainGrows
  BY <1>2 DEF ChainSame, ChainGrows
<1>16. FlightInv'
  BY <1>1, <1>14, <1>15, FlightKept
<1>17. DbInv'
  <2>1. \A x \in Requests : request'[x] = "sent" =>
               message'[x] \notin db[message'[x].poll].uniq
    BY <1>1, <1>11 DEF RelayerInv, DbInv
  <2>2. \A x \in Requests : request'[x] \in {"relayed", "duplicated"} =>
               request[x] \in {"relayed", "duplicated"}
    BY <1>1, <1>11
  <2>3. db' = db
    BY <1>1
  <2> QED
    BY <1>14, <1>15, <2>1, <2>2, <2>3, DbKept
<1>18. ASSUME NEW q \in PollIds \ lost' PROVE InStep(q)'
  <2>1. InStep(q) /\ q \in PollIds
    BY <1>1, <1>18 DEF RelayerInv
  <2>2. \A x \in Requests : SentOn(x, q)' <=> SentOn(x, q)
    BY <1>1, <1>11 DEF SentOn
  <2>3. \A x \in Requests : SentOn(x, q) =>
               message'[x] = message[x] /\ (x \in landed' <=> x \in landed)
    BY <1>1, <1>11 DEF SentOn
  <2>4. db'[q] = db[q] /\ ChainTrees(q)' = ChainTrees(q) /\ inflight' = inflight
    BY <1>1, <1>2 DEF ChainSame
  <2> QED
    BY <2>1, <2>2, <2>3, <2>4, InStepKept
<1>19. RestType'
  BY <1>1, <1>3 DEF RestType
<1>20. RelayerTypeOK'
  BY <1>12, <1>19, Types DEF LineType, RestType, RelayerTypeOK
<1> QED
  BY <1>2, <1>13, <1>16, <1>17, <1>18, <1>20 DEF RelayerInv

\* An early return changes nothing but the line.
LEMMA RefuseStep ==
    ASSUME RelayerInv, NEW r \in Requests, NEW status \in {"duplicated", "exceeded"},
           request[r] = "queued", Holds(r, message[r].poll), Finish(r, status),
           status = "duplicated" => message[r] \in db[message[r].poll].uniq,
           UNCHANGED <<message, db, inflight, landed, lost, vars>>
    PROVE  RelayerInv'
<1>1. TypeOK' /\ RelayedInLog' /\ ChainSame
  BY ChainStill
<1>2. status \in Answered /\ request[r] \in Unfinished /\ status # "sent"
  BY DEF Answered, Unfinished
<1>3. LineType' /\ LockInv'
  BY <1>2, FinishLines
<1>4. request' = [request EXCEPT ![r] = status]
  BY DEF Finish
<1>5. LineType /\ RestType /\ DbInv
  BY Types DEF RelayerInv
<1>6. request \in [Requests -> RequestStatus]
  BY <1>5 DEF LineType
<1>7. Forward
  BY <1>2, <1>4, <1>6 DEF Forward, Past, RequestStatus
<1>8. ChainGrows
  BY <1>1 DEF ChainSame, ChainGrows
<1>9. FlightInv'
  BY <1>7, <1>8, FlightKept
<1>10. DbInv'
  <2>1. \A x \in Requests : request'[x] = "sent" =>
               message'[x] \notin db[message'[x].poll].uniq
    BY <1>2, <1>4, <1>5, <1>6 DEF DbInv
  <2>2. ASSUME NEW x \in Requests, request'[x] \in {"relayed", "duplicated"}
        PROVE  \/ request[x] \in {"relayed", "duplicated"}
               \/ /\ request[x] # "new" /\ message'[x] = message[x]
                  /\ message[x] \in ChainTrees(message[x].poll).uniq
    <3>1. CASE x = r
      <4>1. status = "duplicated"
        BY <1>4, <1>6, <2>2, <3>1
      <4>2. message[r].poll \in PollIds
        BY MessagePoll
      <4>3. db[message[r].poll].uniq \subseteq ChainTrees(message[r].poll).uniq
        BY <1>5, <4>2 DEF DbInv
      <4> QED
        BY <3>1, <4>1, <4>3
    <3>2. CASE x # r
      BY <1>4, <1>6, <2>2, <3>2
    <3> QED
      BY <3>1, <3>2
  <2> QED
    BY <1>7, <1>8, <2>1, <2>2, DbKept
<1>11. ASSUME NEW q \in PollIds \ lost' PROVE InStep(q)'
  <2>1. InStep(q) /\ q \in PollIds
    BY <1>11 DEF RelayerInv
  <2>2. \A x \in Requests : SentOn(x, q)' <=> SentOn(x, q)
    BY <1>2, <1>4, <1>6 DEF SentOn
  <2>3. \A x \in Requests : SentOn(x, q) =>
               message'[x] = message[x] /\ (x \in landed' <=> x \in landed)
    OBVIOUS
  <2>4. db'[q] = db[q] /\ ChainTrees(q)' = ChainTrees(q)
    BY <1>1 DEF ChainSame
  <2> QED
    BY <2>1, <2>2, <2>3, <2>4, InStepKept
<1>12. RelayerTypeOK'
  BY <1>3, <1>5, Types DEF LineType, RestType, RelayerTypeOK
<1> QED
  BY <1>1, <1>3, <1>9, <1>10, <1>11, <1>12 DEF RelayerInv

\* A transaction is sent with the trees of the database, by the holder.
LEMMA SendStep == ASSUME RelayerInv, NEW r \in Requests, Send(r) PROVE RelayerInv'
<1>1. /\ request[r] = "queued" /\ Holds(r, message[r].poll)
      /\ message[r] \notin db[message[r].poll].uniq
      /\ request' = [request EXCEPT ![r] = "sent"]
      /\ UNCHANGED <<message, db, waiters, landed, lost, vars>>
  BY DEF Send, RelayCircuit
<1>2. PICK p \in PollIds : p = message[r].poll /\ message[r] \in Messages
  BY <1>1, MessagePoll
<1>3. PICK tx : /\ tx = [request |-> r, root_old |-> db[p], msg |-> message[r]]
                /\ inflight' = inflight \union {tx}
  BY <1>2 DEF Send
<1>4. TypeOK' /\ RelayedInLog' /\ ChainSame
  BY <1>1, ChainStill
<1>5. LineType /\ RestType /\ DbInv /\ LockInv /\ FlightInv
  BY Types DEF RelayerInv
<1>6. request \in [Requests -> RequestStatus]
  BY <1>5 DEF LineType
<1>7. RelayerTypeOK'
  <2>1. request' \in [Requests -> RequestStatus]
    BY <1>1, <1>6 DEF RequestStatus, Unfinished
  <2>2. \A x \in Requests : request'[x] \in Unfinished <=> request[x] \in Unfinished
    BY <1>1, <1>6 DEF Unfinished
  <2>3. LineType'
    BY <1>1, <1>5, <2>1, <2>2 DEF LineType
  <2>4. tx \in TransactionType
    BY <1>2, <1>3, <1>5 DEF RestType, TransactionType
  <2>5. RestType'
    BY <1>1, <1>3, <1>5, <2>4 DEF RestType
  <2> QED
    BY <2>3, <2>5, Types DEF LineType, RestType, RelayerTypeOK
<1>8. LockInv'
  BY <1>1, <1>2, <1>5, <1>6 DEF LockInv, Holds
<1>9. FlightInv'
  <2>1. ASSUME NEW y \in inflight'
        PROVE  y.msg = message'[y.request] /\ request'[y.request] \in Past
    <3>1. CASE y = tx
      BY <1>1, <1>3, <1>6, <3>1 DEF Past, RequestStatus, Unfinished
    <3>2. CASE y \in inflight
      <4>1. /\ y.request \in Requests /\ request[y.request] \in Past
            /\ y.msg = message[y.request]
        BY <1>5, <3>2 DEF FlightInv, RestType, TransactionType
      <4>2. y.request # r
        BY <1>1, <4>1 DEF Past
      <4> QED
        BY <1>1, <1>6, <4>1, <4>2
    <3> QED
      BY <1>3, <3>1, <3>2
  <2>2. ASSUME NEW x \in landed'
        PROVE  (request[x] \in Past /\ message[x] \in ChainTrees(message[x].poll).uniq)'
    <3>1. /\ x \in Requests /\ request[x] \in Past
          /\ message[x] \in ChainTrees(message[x].poll).uniq
      BY <1>1, <1>5 DEF FlightInv, RestType
    <3>2. request'[x] \in Past
      BY <1>1, <1>6, <3>1 DEF Past, RequestStatus, Unfinished
    <3>3. PICK q \in PollIds : q = message[x].poll
      BY <3>1, MessagePoll DEF Past
    <3>4. message'[x] \in ChainTrees(q)'.uniq
      BY <1>1, <1>4, <3>1, <3>3 DEF ChainSame
    <3> QED
      BY <1>1, <3>2, <3>3, <3>4
  <2> QED
    BY <2>1, <2>2 DEF FlightInv
<1>10. Forward /\ ChainGrows
  BY <1>1, <1>4, <1>6 DEF Forward, Past, ChainSame, ChainGrows
<1>11. DbInv'
  <2>1. \A x \in Requests : request'[x] = "sent" =>
               message'[x] \notin db[message'[x].poll].uniq
    BY <1>1, <1>5, <1>6 DEF DbInv
  <2>2. \A x \in Requests : request'[x] \in {"relayed", "duplicated"} =>
               request[x] \in {"relayed", "duplicated"}
    BY <1>1, <1>6
  <2>3. db' = db
    BY <1>1
  <2> QED
    BY <1>10, <2>1, <2>2, <2>3, DbKept
<1>12. ASSUME NEW q \in PollIds \ lost' PROVE InStep(q)'
  <2>1. InStep(q) /\ q \in PollIds /\ inflight \subseteq TransactionType
    BY <1>1, <1>5, <1>12 DEF RelayerInv, RestType
  <2>2. db'[q] = db[q] /\ ChainTrees(q)' = ChainTrees(q)
    BY <1>1, <1>4 DEF ChainSame
  <2>3. CASE q # p
    <3>1. \A x \in Requests : SentOn(x, q)' <=> SentOn(x, q)
      BY <1>1, <1>2, <1>6, <2>3 DEF SentOn
    <3>2. \A y \in inflight' : y.msg.poll = q => y \in inflight
      BY <1>2, <1>3, <2>3
    <3>3. \A x \in Requests : SentOn(x, q) =>
               message'[x] = message[x] /\ (x \in landed' <=> x \in landed)
      BY <1>1
    <3> QED
      BY <2>1, <2>2, <3>1, <3>2, <3>3, InStepKept
  <2>4. CASE q = p
    <3>1. \A x \in Requests : ~SentOn(x, p)
      BY <1>1, <1>2, OneHolder DEF SentOn
    <3>2. ChainTrees(p) = db[p] /\ \A y \in inflight : y.msg.poll # p
      BY <2>1, <2>4, <3>1 DEF InStep, TransactionType
    <3>3. r \notin landed
      BY <1>1, <1>5 DEF FlightInv, Past
    <3>4. \A x \in Requests : SentOn(x, p)' <=> x = r
      BY <1>1, <1>2, <1>6, <3>1 DEF SentOn
    <3>5. \A y \in inflight' : y.msg.poll = p =>
             SentOn(y.request, p)' /\ y.request \notin landed' /\ y.root_old = db'[p]
      BY <1>1, <1>3, <3>2, <3>3, <3>4
    <3> QED
      BY <1>1, <2>2, <2>4, <3>2, <3>3, <3>4, <3>5 DEF InStep
  <2> QED
    BY <2>3, <2>4
<1> QED
  BY <1>4, <1>7, <1>8, <1>9, <1>11, <1>12 DEF RelayerInv

\* Writing a message that landed keeps the database a past state of the
\* chain, and brings it up to date when no answer was lost.
LEMMA AnswerRelayedStep ==
    ASSUME RelayerInv, NEW r \in Requests, AnswerRelayed(r) PROVE RelayerInv'
<1>1. /\ request[r] = "sent" /\ r \in landed
      /\ Finish(r, "relayed")
      /\ UNCHANGED <<message, inflight, landed, lost, vars>>
  BY DEF AnswerRelayed
<1>2. PICK p \in PollIds, m \in Messages : m = message[r] /\ p = m.poll
  BY <1>1, MessagePoll
<1>3. Nu(m) \in RelayerNus /\ Nu(m) = <<p, m.voter, SERVICE_KEY>> /\ m.voter \in Voters
  BY <1>2, NuType, ServiceConstants DEF Nu, RelayerNu
<1>4. db' = [db EXCEPT ![p] = RelayRootNew(db[p], Nu(m), m)]
  BY <1>2 DEF AnswerRelayed, Persist
<1>5. TypeOK' /\ RelayedInLog' /\ ChainSame
  BY <1>1, ChainStill
<1>6. LineType /\ RestType /\ DbInv /\ LockInv /\ FlightInv
  BY Types DEF RelayerInv
<1>7. Holds(r, message[r].poll)
  BY <1>1, <1>6 DEF LockInv
<1>8. LineType' /\ LockInv'
  <2>1. "relayed" \in Answered /\ request[r] \in Unfinished
    BY <1>1 DEF Answered, Unfinished
  <2> QED
    BY <1>1, <1>7, <2>1, FinishLines
<1>9. request' = [request EXCEPT ![r] = "relayed"] /\ request \in [Requests -> RequestStatus]
  BY <1>1, <1>6 DEF Finish, LineType
<1>10. db \in [PollIds -> TreesType] /\ db[p] \in TreesType
  BY <1>6 DEF RestType
<1>11. PICK new : new = RelayRootNew(db[p], Nu(m), m)
  OBVIOUS
<1>12. /\ new \in TreesType
       /\ new.uniq = db[p].uniq \union {m}
       /\ \A x \in RelayerNus : new.quota[x] =
             IF x = Nu(m) THEN db[p].quota[x] + 1 ELSE db[p].quota[x]
  BY <1>3, <1>10, <1>11, RootNewType
<1>13. db' = [db EXCEPT ![p] = new] /\ db'[p] = new
  BY <1>4, <1>10, <1>11
<1>14. RelayerTypeOK'
  <2>1. RestType'
    BY <1>1, <1>6, <1>10, <1>12, <1>13 DEF RestType
  <2> QED
    BY <1>8, <2>1, Types DEF LineType, RestType, RelayerTypeOK
<1>15. Forward /\ ChainGrows
  BY <1>1, <1>5, <1>9 DEF Forward, Past, RequestStatus, Answered, ChainSame, ChainGrows
<1>16. FlightInv'
  BY <1>1, <1>15, FlightKept
<1>17. m \notin db[p].uniq /\ m \in ChainTrees(p).uniq
  BY <1>1, <1>2, <1>6 DEF DbInv, FlightInv
<1>18. DbInv'
  <2>1. ASSUME NEW q \in PollIds
        PROVE  /\ IsFiniteSet(db'[q].uniq)
               /\ db'[q].uniq \subseteq ChainTrees(q).uniq
               /\ \A v \in Voters : db'[q].quota[<<q, v, SERVICE_KEY>>] =
                     Cardinality({y \in db'[q].uniq : y.voter = v})
    <3>1. /\ IsFiniteSet(db[q].uniq)
          /\ db[q].uniq \subseteq ChainTrees(q).uniq
          /\ \A v \in Voters : db[q].quota[<<q, v, SERVICE_KEY>>] =
                Cardinality({y \in db[q].uniq : y.voter = v})
      BY <1>6 DEF DbInv
    <3>2. CASE q # p
      BY <1>10, <1>13, <3>1, <3>2
    <3>3. CASE q = p
      <4>1. PICK old : old = db[p].uniq
        OBVIOUS
      <4>2. IsFiniteSet(new.uniq)
        BY <1>12, <3>1, <3>3, FS_AddElement
      <4>3. ASSUME NEW v \in Voters
            PROVE  new.quota[<<p, v, SERVICE_KEY>>] =
                     Cardinality({y \in new.uniq : y.voter = v})
        <5>1. PICK S : S = {y \in old : y.voter = v}
          OBVIOUS
        <5>2. IsFiniteSet(S)
          <6>1. S \subseteq old /\ IsFiniteSet(old)
            BY <3>1, <3>3, <4>1, <5>1
          <6> QED
            BY <6>1, FS_Subset
        <5>3. db[p].quota[<<p, v, SERVICE_KEY>>] = Cardinality(S)
          BY <3>1, <3>3, <4>1, <5>1
        <5>4. <<p, v, SERVICE_KEY>> \in RelayerNus
          BY ServiceConstants DEF RelayerNus
        <5>5. CASE v = m.voter
          <6>1. {y \in new.uniq : y.voter = v} = S \union {m}
            BY <1>12, <4>1, <5>1, <5>5
          <6>2. m \notin S
            BY <1>17, <4>1, <5>1
          <6>3. Cardinality(S \union {m}) = Cardinality(S) + 1
            BY <5>2, <6>2, FS_AddElement
          <6>4. new.quota[<<p, v, SERVICE_KEY>>] = Cardinality(S) + 1
            BY <1>3, <1>12, <5>3, <5>4, <5>5
          <6> QED
            BY <6>1, <6>3, <6>4
        <5>6. CASE v # m.voter
          <6>1. {y \in new.uniq : y.voter = v} = S
            BY <1>12, <4>1, <5>1, <5>6
          <6>2. new.quota[<<p, v, SERVICE_KEY>>] = Cardinality(S)
            BY <1>3, <1>12, <5>3, <5>4, <5>6
          <6> QED
            BY <6>1, <6>2
        <5> QED
          BY <5>5, <5>6
      <4>4. new.uniq \subseteq ChainTrees(p).uniq
        BY <1>12, <1>17, <3>1, <3>3
      <4> QED
        BY <1>13, <3>3, <4>2, <4>3, <4>4
    <3> QED
      BY <3>2, <3>3
  <2>2. ASSUME NEW x \in Requests, request'[x] = "sent"
        PROVE  (message[x] \notin db[message[x].poll].uniq)'
    <3>1. x # r /\ request[x] = "sent" /\ message'[x] = message[x]
      BY <1>1, <1>9, <2>2
    <3>2. message[x].poll # p
      BY <1>2, <1>7, <3>1, OneHolder DEF SentOn
    <3>3. message[x].poll \in PollIds
      BY <3>1, MessagePoll
    <3>4. db'[message[x].poll] = db[message[x].poll]
      BY <1>10, <1>13, <3>2, <3>3
    <3>5. message[x] \notin db[message[x].poll].uniq
      BY <1>6, <3>1 DEF DbInv
    <3> QED
      BY <3>1, <3>4, <3>5
  <2>3. ASSUME NEW x \in Requests, request'[x] \in {"relayed", "duplicated"}
        PROVE  (message[x] \in ChainTrees(message[x].poll).uniq)'
    <3>1. /\ message[x] \in ChainTrees(message[x].poll).uniq /\ request[x] # "new"
          /\ message'[x] = message[x]
      BY <1>1, <1>2, <1>6, <1>9, <1>17, <2>3 DEF DbInv
    <3>2. PICK q \in PollIds : q = message[x].poll
      BY <3>1, MessagePoll
    <3>3. message'[x] \in ChainTrees(q)'.uniq
      BY <1>5, <3>1, <3>2 DEF ChainSame
    <3> QED
      BY <3>1, <3>2, <3>3
  <2>4. \A q \in PollIds : ChainTrees(q)' = ChainTrees(q)
    BY <1>5 DEF ChainSame
  <2> QED
    BY <2>1, <2>2, <2>3, <2>4 DEF DbInv
<1>19. ASSUME NEW q \in PollIds \ lost' PROVE InStep(q)'
  <2>1. InStep(q) /\ q \in PollIds /\ inflight \subseteq TransactionType
    BY <1>1, <1>6, <1>19 DEF RelayerInv, RestType
  <2>2. CASE q # p
    <3>1. \A x \in Requests : SentOn(x, q)' <=> SentOn(x, q)
      BY <1>1, <1>2, <1>9, <2>2 DEF SentOn
    <3>2. db'[q] = db[q] /\ ChainTrees(q)' = ChainTrees(q)
      BY <1>5, <1>10, <1>13, <2>2 DEF ChainSame
    <3>3. \A x \in Requests : SentOn(x, q) =>
               message'[x] = message[x] /\ (x \in landed' <=> x \in landed)
      BY <1>1
    <3> QED
      BY <1>1, <2>1, <3>1, <3>2, <3>3, InStepKept
  <2>3. CASE q = p
    <3>1. SentOn(r, p) /\ \A x \in Requests : SentOn(x, p) => x = r
      BY <1>1, <1>2, <1>7, OneHolder DEF SentOn
    <3>2. \A x \in Requests : ~SentOn(x, p)'
      BY <1>1, <1>9, <3>1 DEF SentOn
    <3>3. \A y \in inflight : y.msg.poll # p
      BY <1>1, <2>1, <2>3, <3>1 DEF InStep, TransactionType
    <3>4. ChainTrees(p) = new
      BY <1>1, <1>2, <1>11, <2>1, <2>3, <3>1 DEF InStep
    <3>5. ChainTrees(p)' = db'[p]
      BY <1>5, <1>13, <3>4 DEF ChainSame
    <3> QED
      BY <1>1, <2>3, <3>2, <3>3, <3>5 DEF InStep
  <2> QED
    BY <2>2, <2>3
<1> QED
  BY <1>5, <1>8, <1>14, <1>16, <1>18, <1>19 DEF RelayerInv

\* A lost answer changes neither database nor chain.
LEMMA AnswerLostStep ==
    ASSUME RelayerInv, NEW r \in Requests, AnswerLost(r) PROVE RelayerInv'
<1>1. /\ request[r] = "sent" /\ Finish(r, "failed")
      /\ lost' = lost \union {message[r].poll}
      /\ UNCHANGED <<message, db, inflight, landed, vars>>
  BY DEF AnswerLost
<1>2. PICK p \in PollIds : p = message[r].poll
  BY <1>1, MessagePoll
<1>3. TypeOK' /\ RelayedInLog' /\ ChainSame
  BY <1>1, ChainStill
<1>4. LineType /\ RestType /\ DbInv /\ LockInv
  BY Types DEF RelayerInv
<1>5. LineType' /\ LockInv'
  <2>1. "failed" \in Answered /\ request[r] \in Unfinished
    BY <1>1 DEF Answered, Unfinished
  <2>2. Holds(r, message[r].poll)
    BY <1>1, <1>4 DEF LockInv
  <2> QED
    BY <1>1, <2>1, <2>2, FinishLines
<1>6. request' = [request EXCEPT ![r] = "failed"] /\ request \in [Requests -> RequestStatus]
  BY <1>1, <1>4 DEF Finish, LineType
<1>7. RelayerTypeOK'
  <2>1. RestType'
    BY <1>1, <1>2, <1>4 DEF RestType
  <2> QED
    BY <1>5, <2>1, Types DEF LineType, RestType, RelayerTypeOK
<1>8. Forward /\ ChainGrows
  BY <1>1, <1>3, <1>6 DEF Forward, Past, RequestStatus, Answered, ChainSame, ChainGrows
<1>9. FlightInv'
  BY <1>1, <1>8, FlightKept
<1>10. DbInv'
  <2>1. \A x \in Requests : request'[x] = "sent" =>
               message'[x] \notin db[message'[x].poll].uniq
    BY <1>1, <1>4, <1>6 DEF DbInv
  <2>2. \A x \in Requests : request'[x] \in {"relayed", "duplicated"} =>
               request[x] \in {"relayed", "duplicated"}
    BY <1>6
  <2>3. db' = db
    BY <1>1
  <2> QED
    BY <1>8, <2>1, <2>2, <2>3, DbKept
<1>11. ASSUME NEW q \in PollIds \ lost' PROVE InStep(q)'
  <2>1. InStep(q) /\ q \in PollIds /\ q # p
    BY <1>1, <1>2, <1>11 DEF RelayerInv
  <2>2. \A x \in Requests : SentOn(x, q)' <=> SentOn(x, q)
    BY <1>1, <1>2, <1>6, <2>1 DEF SentOn
  <2>3. \A x \in Requests : SentOn(x, q) =>
               message'[x] = message[x] /\ (x \in landed' <=> x \in landed)
    BY <1>1
  <2>4. db'[q] = db[q] /\ ChainTrees(q)' = ChainTrees(q) /\ inflight' = inflight
    BY <1>1, <1>3 DEF ChainSame
  <2> QED
    BY <2>1, <2>2, <2>3, <2>4, InStepKept
<1> QED
  BY <1>3, <1>5, <1>7, <1>9, <1>10, <1>11 DEF RelayerInv

\* Among the transactions about a poll of which no answer was lost, there is
\* one at most.
LEMMA OneFlight ==
    ASSUME RelayerInv, NEW p \in PollIds \ lost,
           NEW x \in inflight, NEW y \in inflight, x.msg.poll = p, y.msg.poll = p
    PROVE  x = y
<1>1. x \in TransactionType /\ y \in TransactionType /\ InStep(p) /\ FlightInv
  BY DEF RelayerInv, RelayerTypeOK
<1>2. /\ x.request \in Requests /\ y.request \in Requests
      /\ SentOn(x.request, p) /\ SentOn(y.request, p)
      /\ x.root_old = y.root_old
  BY <1>1 DEF InStep, TransactionType
<1>3. x.request = y.request
  <2>1. Holds(x.request, message[x.request].poll)
    BY <1>2 DEF RelayerInv, LockInv, SentOn
  <2>2. message[x.request].poll = p
    BY <1>2 DEF SentOn
  <2> QED
    BY <1>2, <2>1, <2>2, OneHolder
<1>4. x.msg = y.msg
  BY <1>1, <1>3 DEF FlightInv
<1> QED
  BY <1>1, <1>2, <1>3, <1>4 DEF TransactionType

\* A transaction that lands adds its message to the trees it was proved
\* against, which are those of the chain.
LEMMA ExecuteStep ==
    ASSUME RelayerInv, NEW tx \in inflight, Execute(tx) PROVE RelayerInv'
<1>1. LineType /\ RestType /\ DbInv /\ LockInv /\ FlightInv /\ TypeOK /\ RelayedInLog
  BY Types DEF RelayerInv
<1>2. tx \in TransactionType
  BY <1>1 DEF RestType
<1>3. PICK r \in Requests, m \in Messages, p \in PollIds :
          r = tx.request /\ m = tx.msg /\ p = m.poll
  BY <1>2, NuType, ServiceConstants DEF TransactionType
<1>4. m = message[r] /\ request[r] \in Past /\ request[r] # "new"
  BY <1>1, <1>3 DEF FlightInv, Past
<1>5. /\ relayer_state[p] # Null /\ tx.root_old = relayer_state[p].root_state
      /\ Relay(p, SERVICE_KEY, m)
      /\ inflight' = inflight \ {tx} /\ landed' = landed \union {r}
      /\ UNCHANGED <<request, message, db, waiters, lost>>
  BY <1>3 DEF Execute
<1>6. Next
  BY <1>5, ServiceConstants DEF Next
<1>7. TypeOK' /\ RelayedInLog'
  BY <1>1, <1>6, TypeStep, RelayedStep
<1>8. /\ relayer_state'[p] # Null
      /\ relayer_state'[p].root_state =
           RelayRootNew(relayer_state[p].root_state, Nu(m), m)
      /\ \A q \in PollIds \ {p} : relayer_state'[q] = relayer_state[q]
  BY <1>1, <1>5, RelayEffect, ServiceConstants DEF Nu
<1>9. /\ ChainTrees(p)' = RelayRootNew(ChainTrees(p), Nu(m), m)
      /\ \A q \in PollIds \ {p} : ChainTrees(q)' = ChainTrees(q)
  BY <1>5, <1>8 DEF ChainTrees
<1>10. ChainTrees(p)'.uniq = ChainTrees(p).uniq \union {m}
  BY <1>1, <1>9, ChainTreesType, RootNewType, NuType, ServiceConstants DEF Nu
<1>11. Forward /\ ChainGrows
  BY <1>5, <1>9, <1>10 DEF Forward, ChainGrows
<1>12. RelayerTypeOK'
  <2>1. LineType'
    BY <1>1, <1>5 DEF LineType
  <2>2. RestType'
    BY <1>1, <1>5 DEF RestType
  <2> QED
    BY <2>1, <2>2, Types DEF LineType, RestType, RelayerTypeOK
<1>13. LockInv'
  BY <1>1, <1>5 DEF LockInv, Holds
<1>14. FlightInv'
  <2>1. \A y \in inflight' : y.msg = message'[y.request] /\ request'[y.request] \in Past
    BY <1>1, <1>5 DEF FlightInv
  <2>2. ASSUME NEW x \in landed'
        PROVE  (request[x] \in Past /\ message[x] \in ChainTrees(message[x].poll).uniq)'
    <3>1. CASE x = r
      BY <1>3, <1>4, <1>5, <1>10, <3>1
    <3>2. CASE x \in landed
      <4>1. /\ x \in Requests /\ request[x] \in Past
            /\ message[x] \in ChainTrees(message[x].poll).uniq
        BY <1>1, <3>2 DEF FlightInv, RestType
      <4>2. PICK q \in PollIds : q = message[x].poll
        BY <4>1, MessagePoll DEF Past
      <4>3. message'[x] \in ChainTrees(q)'.uniq
        BY <1>5, <1>11, <4>1, <4>2 DEF ChainGrows
      <4> QED
        BY <1>5, <4>1, <4>2, <4>3
    <3> QED
      BY <1>5, <3>1, <3>2
  <2> QED
    BY <2>1, <2>2 DEF FlightInv
<1>15. DbInv'
  <2>1. \A x \in Requests : request'[x] = "sent" =>
               message'[x] \notin db[message'[x].poll].uniq
    BY <1>1, <1>5 DEF DbInv
  <2>2. \A x \in Requests : request'[x] \in {"relayed", "duplicated"} =>
               request[x] \in {"relayed", "duplicated"}
    BY <1>5
  <2>3. db' = db
    BY <1>5
  <2> QED
    BY <1>11, <2>1, <2>2, <2>3, DbKept
<1>16. ASSUME NEW q \in PollIds \ lost' PROVE InStep(q)'
  <2>1. InStep(q) /\ q \in PollIds \ lost /\ inflight \subseteq TransactionType
    BY <1>1, <1>5, <1>16 DEF RelayerInv, RestType
  <2>2. \A x \in Requests : SentOn(x, q)' <=> SentOn(x, q)
    BY <1>5 DEF SentOn
  <2>3. CASE q # p
    <3>1. ASSUME NEW x \in Requests, SentOn(x, q)
          PROVE  message'[x] = message[x] /\ (x \in landed' <=> x \in landed)
      <4>1. x # r
        BY <1>3, <1>4, <2>3, <3>1 DEF SentOn
      <4> QED
        BY <1>5, <4>1
    <3>2. db'[q] = db[q] /\ ChainTrees(q)' = ChainTrees(q)
      BY <1>5, <1>9, <2>3
    <3>3. \A y \in inflight' : y.msg.poll = q => y \in inflight
      BY <1>5
    <3> QED
      BY <2>1, <2>2, <3>1, <3>2, <3>3, InStepKept
  <2>4. CASE q = p
    <3>1. SentOn(r, p) /\ tx.root_old = db[p]
      BY <1>3, <2>1, <2>4 DEF InStep
    <3>2. \A y \in inflight' : y.msg.poll # p
      BY <1>3, <1>5, <2>1, <2>4, OneFlight
    <3>3. ChainTrees(p) = db[p]
      BY <1>5, <3>1 DEF ChainTrees
    <3>4. \A x \in Requests : SentOn(x, p) => x = r
      <4>1. Holds(r, message[r].poll)
        BY <1>1, <3>1 DEF LockInv, SentOn
      <4> QED
        BY <1>3, <1>4, <4>1, OneHolder
    <3>5. ChainTrees(p)' = RelayRootNew(db'[p], Nu(message'[r]), message'[r])
      BY <1>4, <1>5, <1>9, <3>3
    <3>6. r \in landed' /\ SentOn(r, p)'
      BY <1>5, <2>2, <2>4, <3>1
    <3>7. \A x \in Requests : SentOn(x, p)' => x = r
      BY <2>2, <2>4, <3>4
    <3> QED
      BY <2>4, <3>2, <3>5, <3>6, <3>7 DEF InStep
  <2> QED
    BY <2>3, <2>4
<1> QED
  BY <1>7, <1>12, <1>13, <1>14, <1>15, <1>16 DEF RelayerInv

\* A transaction that fails or is dropped changes no trees.
LEMMA RejectStep ==
    ASSUME RelayerInv, NEW tx \in inflight, Reject(tx) PROVE RelayerInv'
<1>1. LineType /\ RestType /\ DbInv /\ LockInv /\ FlightInv
  BY Types DEF RelayerInv
<1>2. tx \in TransactionType
  BY <1>1 DEF RestType
<1>3. PICK r \in Requests, p \in PollIds : r = tx.request /\ p = tx.msg.poll
  BY <1>2, NuType, ServiceConstants DEF TransactionType
<1>4. tx.msg = message[r] /\ request[r] \in Past
  BY <1>1, <1>3 DEF FlightInv
<1>5. /\ inflight' = inflight \ {tx}
      /\ UNCHANGED <<message, db, landed, lost, vars>>
      /\ \/ request[r] = "sent" /\ Finish(r, "failed")
         \/ request[r] # "sent" /\ UNCHANGED <<request, waiters>>
  BY <1>3 DEF Reject
<1>6. TypeOK' /\ RelayedInLog' /\ ChainSame
  BY <1>5, ChainStill
<1>7. request \in [Requests -> RequestStatus]
  BY <1>1 DEF LineType
<1>8. \/ request[r] = "sent" /\ request' = [request EXCEPT ![r] = "failed"]
      \/ request[r] # "sent" /\ request' = request
  BY <1>5 DEF Finish
<1>9. LineType' /\ LockInv'
  <2>1. CASE request[r] = "sent" /\ Finish(r, "failed")
    <3>1. "failed" \in Answered /\ request[r] \in Unfinished
      BY <2>1 DEF Answered, Unfinished
    <3>2. Holds(r, message[r].poll)
      BY <1>1, <2>1 DEF LockInv
    <3> QED
      BY <1>5, <2>1, <3>1, <3>2, FinishLines
  <2>2. CASE UNCHANGED <<request, waiters>>
    BY <1>1, <1>5, <2>2 DEF LineType, LockInv, Holds
  <2> QED
    BY <1>5, <2>1, <2>2
<1>10. RelayerTypeOK'
  <2>1. RestType'
    BY <1>1, <1>5 DEF RestType
  <2> QED
    BY <1>9, <2>1, Types DEF LineType, RestType, RelayerTypeOK
<1>11. Forward /\ ChainGrows
  BY <1>5, <1>6, <1>7, <1>8 DEF Forward, Past, RequestStatus, Answered, ChainSame, ChainGrows
<1>12. FlightInv'
  BY <1>5, <1>11, FlightKept
<1>13. DbInv'
  <2>1. \A x \in Requests : request'[x] = "sent" =>
               message'[x] \notin db[message'[x].poll].uniq
    BY <1>1, <1>5, <1>7, <1>8 DEF DbInv
  <2>2. \A x \in Requests : request'[x] \in {"relayed", "duplicated"} =>
               request[x] \in {"relayed", "duplicated"}
    BY <1>7, <1>8
  <2>3. db' = db
    BY <1>5
  <2> QED
    BY <1>11, <2>1, <2>2, <2>3, DbKept
<1>14. ASSUME NEW q \in PollIds \ lost' PROVE InStep(q)'
  <2>1. InStep(q) /\ q \in PollIds \ lost /\ inflight \subseteq TransactionType
    BY <1>1, <1>5, <1>14 DEF RelayerInv, RestType
  <2>2. db'[q] = db[q] /\ ChainTrees(q)' = ChainTrees(q)
    BY <1>5, <1>6 DEF ChainSame
  <2>3. \A y \in inflight' : y.msg.poll = q => y \in inflight
    BY <1>5
  <2>4. \A x \in Requests : SentOn(x, q) =>
               message'[x] = message[x] /\ (x \in landed' <=> x \in landed)
    BY <1>5
  <2>5. CASE q # p
    <3>1. \A x \in Requests : SentOn(x, q)' <=> SentOn(x, q)
      BY <1>3, <1>4, <1>5, <1>7, <1>8, <2>5 DEF SentOn
    <3> QED
      BY <2>1, <2>2, <2>3, <2>4, <3>1, InStepKept
  <2>6. CASE q = p
    <3>1. SentOn(r, p) /\ tx.root_old = db[p] /\ r \notin landed
      BY <1>3, <2>1, <2>6 DEF InStep
    <3>2. \A y \in inflight' : y.msg.poll # p
      BY <1>3, <1>5, <2>1, <2>6, OneFlight
    <3>3. \A x \in Requests : SentOn(x, p) => x = r
      <4>1. Holds(r, message[r].poll)
        BY <1>1, <3>1 DEF LockInv, SentOn
      <4> QED
        BY <1>3, <1>4, <4>1, OneHolder
    <3>4. ChainTrees(p) = db[p]
      BY <2>1, <2>6, <3>1, <3>3 DEF InStep
    <3>5. \A x \in Requests : ~SentOn(x, p)'
      BY <1>5, <1>7, <1>8, <3>1, <3>3 DEF SentOn
    <3> QED
      BY <2>2, <2>6, <3>2, <3>4, <3>5 DEF InStep
  <2> QED
    BY <2>5, <2>6
<1> QED
  BY <1>6, <1>9, <1>10, <1>12, <1>13, <1>14 DEF RelayerInv

\* A crash empties the lines, and loses the answers awaited.
LEMMA CrashStep == ASSUME RelayerInv, Crash PROVE RelayerInv'
<1>1. /\ lost' = lost \union
             {message[r].poll : r \in {q \in Requests : request[q] = "sent"}}
      /\ request' = [r \in Requests |->
                       IF request[r] \in Unfinished THEN "cut" ELSE request[r]]
      /\ waiters' = [p \in PollIds |-> <<>>]
      /\ UNCHANGED <<message, db, inflight, landed, vars>>
  BY DEF Crash
<1>2. LineType /\ RestType /\ DbInv /\ LockInv /\ FlightInv
  BY Types DEF RelayerInv
<1>3. TypeOK' /\ RelayedInLog' /\ ChainSame
  BY <1>1, ChainStill
<1>4. request \in [Requests -> RequestStatus]
  BY <1>2 DEF LineType
<1>5. \A r \in Requests : request'[r] \notin Unfinished /\ request'[r] # "sent"
                          /\ (request'[r] = "new" <=> request[r] = "new")
  BY <1>1, <1>4 DEF Unfinished
<1>6. RelayerTypeOK'
  <2>1. request' \in [Requests -> RequestStatus]
    BY <1>1, <1>4 DEF RequestStatus
  <2>2. LineType'
    BY <1>1, <1>2, <1>5, <2>1 DEF LineType, Range
  <2>3. lost' \subseteq PollIds
    BY <1>1, <1>2, MessagePoll DEF RestType
  <2>4. RestType'
    BY <1>1, <1>2, <2>3 DEF RestType
  <2> QED
    BY <2>2, <2>4, Types DEF LineType, RestType, RelayerTypeOK
<1>7. LockInv'
  <2>1. \A p \in PollIds : \A i \in DOMAIN waiters'[p] : FALSE
    BY <1>1
  <2>2. \A r \in Requests : request'[r] # "new" => message'[r] \in Messages
    BY <1>1, <1>2, <1>5 DEF LockInv
  <2> QED
    BY <1>5, <2>1, <2>2 DEF LockInv
<1>8. Forward /\ ChainGrows
  BY <1>1, <1>3 DEF Forward, Past, RequestStatus, ChainSame, ChainGrows, Unfinished
<1>9. FlightInv'
  BY <1>1, <1>8, FlightKept
<1>10. DbInv'
  <2>1. \A x \in Requests : request'[x] \in {"relayed", "duplicated"} =>
               request[x] \in {"relayed", "duplicated"}
    BY <1>1
  <2>2. \A x \in Requests : request'[x] = "sent" =>
               message'[x] \notin db[message'[x].poll].uniq
    BY <1>5
  <2>3. db' = db
    BY <1>1
  <2> QED
    BY <1>8, <2>1, <2>2, <2>3, DbKept
<1>11. ASSUME NEW q \in PollIds \ lost' PROVE InStep(q)'
  <2>1. InStep(q) /\ q \in PollIds \ lost
    BY <1>1, <1>11 DEF RelayerInv
  <2>2. \A x \in Requests : ~SentOn(x, q)
    BY <1>1, <1>11 DEF SentOn
  <2>3. \A x \in Requests : ~SentOn(x, q)'
    BY <1>5 DEF SentOn
  <2>4. db'[q] = db[q] /\ ChainTrees(q)' = ChainTrees(q) /\ inflight' = inflight
    BY <1>1, <1>3 DEF ChainSame
  <2> QED
    BY <2>1, <2>2, <2>3, <2>4, InStepKept
<1> QED
  BY <1>3, <1>6, <1>7, <1>9, <1>10, <1>11 DEF RelayerInv

\* The other instructions leave the relayer trees alone.
LEMMA ChainStepStep == ASSUME RelayerInv, ChainStep PROVE RelayerInv'
<1>1. /\ Next /\ UNCHANGED <<request, message, db, waiters, inflight, landed, lost>>
      /\ \A p \in PollIds :
            relayer_state[p] # Null => relayer_state'[p] = relayer_state[p]
  BY DEF ChainStep, service_vars
<1>2. LineType /\ RestType /\ DbInv /\ LockInv /\ FlightInv /\ TypeOK /\ RelayedInLog
  BY Types DEF RelayerInv
<1>3. TypeOK' /\ RelayedInLog'
  BY <1>1, <1>2, TypeStep, RelayedStep
<1>4. ChainSame
  <2>1. ASSUME NEW p \in PollIds PROVE ChainTrees(p)' = ChainTrees(p)
    <3>1. TypeOK /\ [Next]_vars
      BY <1>1, <1>2
    <3>2. relayer_state[p] # Null => relayer_state'[p] = relayer_state[p]
      BY <1>1
    <3> QED
      BY <3>1, <3>2, TreesKept
  <2> QED
    BY <2>1 DEF ChainSame
<1>5. RelayerTypeOK'
  <2>1. LineType' /\ RestType'
    BY <1>1, <1>2 DEF LineType, RestType
  <2> QED
    BY <2>1, Types DEF LineType, RestType, RelayerTypeOK
<1>6. LockInv'
  BY <1>1, <1>2 DEF LockInv, Holds
<1>7. Forward /\ ChainGrows
  BY <1>1, <1>4 DEF Forward, ChainSame, ChainGrows
<1>8. FlightInv'
  BY <1>1, <1>7, FlightKept
<1>9. DbInv'
  <2>1. \A x \in Requests : request'[x] = "sent" =>
               message'[x] \notin db[message'[x].poll].uniq
    BY <1>1, <1>2 DEF DbInv
  <2>2. \A x \in Requests : request'[x] \in {"relayed", "duplicated"} =>
               request[x] \in {"relayed", "duplicated"}
    BY <1>1
  <2>3. db' = db
    BY <1>1
  <2> QED
    BY <1>7, <2>1, <2>2, <2>3, DbKept
<1>10. ASSUME NEW q \in PollIds \ lost' PROVE InStep(q)'
  <2>1. InStep(q) /\ q \in PollIds
    BY <1>1, <1>10 DEF RelayerInv
  <2>2. \A x \in Requests : SentOn(x, q)' <=> SentOn(x, q)
    BY <1>1 DEF SentOn
  <2>3. \A x \in Requests : SentOn(x, q) =>
               message'[x] = message[x] /\ (x \in landed' <=> x \in landed)
    BY <1>1
  <2>4. db'[q] = db[q] /\ ChainTrees(q)' = ChainTrees(q) /\ inflight' = inflight
    BY <1>1, <1>4 DEF ChainSame
  <2> QED
    BY <2>1, <2>2, <2>3, <2>4, InStepKept
<1> QED
  BY <1>3, <1>5, <1>6, <1>8, <1>9, <1>10 DEF RelayerInv

\* Every step of service, network and chain keeps the invariant.
LEMMA RelayerInvStep == RelayerInv /\ [RelayerNext]_all_vars => RelayerInv'
<1> SUFFICES ASSUME RelayerInv, [RelayerNext]_all_vars PROVE RelayerInv'
  OBVIOUS
<1>1. ASSUME NEW r \in Requests, NEW m \in Messages, Receive(r, m) PROVE RelayerInv'
  BY <1>1, ReceiveStep
<1>2. ASSUME NEW r \in Requests, RefuseDuplicate(r) PROVE RelayerInv'
  <2>1. /\ request[r] = "queued" /\ Holds(r, message[r].poll) /\ Finish(r, "duplicated")
        /\ message[r] \in db[message[r].poll].uniq
        /\ UNCHANGED <<message, db, inflight, landed, lost, vars>>
    BY <1>2 DEF RefuseDuplicate
  <2> QED
    BY <2>1, RefuseStep
<1>3. ASSUME NEW r \in Requests, RefuseExcess(r) PROVE RelayerInv'
  <2>1. /\ request[r] = "queued" /\ Holds(r, message[r].poll) /\ Finish(r, "exceeded")
        /\ UNCHANGED <<message, db, inflight, landed, lost, vars>>
    BY <1>3 DEF RefuseExcess
  <2> QED
    BY <2>1, RefuseStep
<1>4. ASSUME NEW r \in Requests, Send(r) PROVE RelayerInv'
  BY <1>4, SendStep
<1>5. ASSUME NEW r \in Requests, AnswerRelayed(r) PROVE RelayerInv'
  BY <1>5, AnswerRelayedStep
<1>6. ASSUME NEW r \in Requests, AnswerLost(r) PROVE RelayerInv'
  BY <1>6, AnswerLostStep
<1>7. ASSUME NEW tx \in inflight, Execute(tx) PROVE RelayerInv'
  BY <1>7, ExecuteStep
<1>8. ASSUME NEW tx \in inflight, Reject(tx) PROVE RelayerInv'
  BY <1>8, RejectStep
<1>9. CASE Crash
  BY <1>9, CrashStep
<1>10. CASE ChainStep
  BY <1>10, ChainStepStep
<1>11. CASE UNCHANGED all_vars
  <2>1. UNCHANGED <<request, message, db, waiters, inflight, landed, lost>> /\ UNCHANGED vars
    BY <1>11 DEF all_vars, service_vars
  <2>2. TypeOK' /\ RelayedInLog' /\ ChainSame
    BY <2>1, ChainStill
  <2>3. RelayerTypeOK' /\ LockInv'
    BY <2>1 DEF RelayerInv, RelayerTypeOK, LockInv, Holds
  <2>4. Forward /\ ChainGrows
    BY <2>1, <2>2 DEF Forward, ChainSame, ChainGrows
  <2>5. FlightInv'
    BY <2>1, <2>4, FlightKept
  <2>6. DbInv'
    BY <2>1, <2>4, DbKept DEF RelayerInv, DbInv
  <2>7. ASSUME NEW q \in PollIds \ lost' PROVE InStep(q)'
    <3>1. InStep(q) /\ q \in PollIds
      BY <2>1, <2>7 DEF RelayerInv
    <3>2. \A x \in Requests : SentOn(x, q)' <=> SentOn(x, q)
      BY <2>1 DEF SentOn
    <3> QED
      BY <2>1, <2>2, <3>1, <3>2, InStepKept DEF ChainSame
  <2> QED
    BY <2>2, <2>3, <2>5, <2>6, <2>7 DEF RelayerInv
<1> QED
  BY <1>1, <1>2, <1>3, <1>4, <1>5, <1>6, <1>7, <1>8, <1>9, <1>10, <1>11
     DEF RelayerNext

\* The inductive invariant holds in every reachable state.
LEMMA RelayerInvariant == RelayerSpec => []RelayerInv
BY RelayerInvInit, RelayerInvStep, PTL DEF RelayerSpec

-----------------------------------------------------------------------------
(* Theorems *)

\* The service's state keeps its shape, and the unfinished requests of a poll
\* are exactly those in line for its lock (relay_inner).
THEOREM RelayerTypes == RelayerSpec => []RelayerTypeOK
<1>1. RelayerInv => RelayerTypeOK
  BY DEF RelayerInv
<1> QED
  BY <1>1, RelayerInvariant, PTL

\* Whatever answers are lost and wherever the service crashes, its database
\* holds a past state of the trees of the chain (relay_inner's write batch).
THEOREM DatabaseIsAPast == RelayerSpec => []DatabaseIsPast
<1>1. RelayerInv => DatabaseIsPast
  BY DEF RelayerInv, DbInv, DatabaseIsPast
<1> QED
  BY <1>1, RelayerInvariant, PTL

\* A message that the service says it relayed is in the log of its poll.
THEOREM AnswersCanBeTrusted == RelayerSpec => []AnswersAreTrue
<1>1. RelayerInv => AnswersAreTrue
  <2> SUFFICES ASSUME RelayerInv, NEW r \in Requests,
                      request[r] \in {"relayed", "duplicated"}
               PROVE  /\ poll[message[r].poll] # Null
                      /\ message[r] \in Range(poll[message[r].poll].cumulative_msg_hash)
    BY DEF AnswersAreTrue
  <2>1. PICK p \in PollIds : p = message[r].poll
    BY MessagePoll
  <2>2. message[r] \in ChainTrees(p).uniq
    BY <2>1 DEF RelayerInv, DbInv
  <2>3. relayer_state[p] # Null /\ message[r] \in relayer_state[p].root_state.uniq
    BY <2>2 DEF ChainTrees, EmptyTrees
  <2> QED
    BY <2>1, <2>3 DEF RelayerInv, RelayedInLog
<1> QED
  BY <1>1, RelayerInvariant, PTL

\* As long as no answer about a poll is lost, no two requests about it
\* conflict: transactions under way are proved against the trees of the chain,
\* and a free lock means database and chain agree.
THEOREM RequestsDoNotConflict == RelayerSpec => []NoConflict
<1>1. RelayerInv => NoConflict
  <2> SUFFICES ASSUME RelayerInv, NEW p \in PollIds \ lost
               PROVE  /\ \A tx \in inflight : tx.msg.poll = p => tx.root_old = ChainTrees(p)
                      /\ waiters[p] = <<>> => db[p] = ChainTrees(p)
    BY DEF NoConflict
  <2>1. InStep(p) /\ LockInv /\ inflight \subseteq TransactionType
    BY DEF RelayerInv, RelayerTypeOK
  <2>2. \A x \in Requests : SentOn(x, p) => Holds(x, p)
    BY <2>1 DEF SentOn, LockInv
  <2>3. ASSUME NEW tx \in inflight, tx.msg.poll = p PROVE tx.root_old = ChainTrees(p)
    <3>1. /\ tx.request \in Requests /\ SentOn(tx.request, p)
          /\ tx.request \notin landed /\ tx.root_old = db[p]
      BY <2>1, <2>3 DEF InStep, TransactionType
    <3>2. \A x \in Requests : SentOn(x, p) => x = tx.request
      BY <2>2, <3>1, OneHolder DEF SentOn
    <3> QED
      BY <2>1, <3>1, <3>2 DEF InStep
  <2>4. waiters[p] = <<>> => db[p] = ChainTrees(p)
    BY <2>1, <2>2 DEF Holds, InStep
  <2> QED
    BY <2>3, <2>4
<1> QED
  BY <1>1, RelayerInvariant, PTL

-----------------------------------------------------------------------------
(* The sparse Merkle tree of the database *)

\* Several entries, the tree of some at a level, and what a key sees of them:
\* the entries that share its path up to a level, those on its side of the
\* node there, those on the other side, and all of them with its own.
Two(e) == \E j, k \in DOMAIN e : j # k
TreeAt(lvl, e) == CanonicalTree[lvl][e]
SamePath(j, k, lvl) == \A i \in 0..lvl - 1 : Bit(j, i) <=> Bit(k, i)
Under(e, key, lvl) ==
    [k \in {j \in DOMAIN e : SamePath(j, key, lvl)} |-> e[k]]
Toward(e, key, lvl) == IF Bit(key, lvl) THEN Right(e, lvl) ELSE Left(e, lvl)
Beside(e, key, lvl) == IF Bit(key, lvl) THEN Left(e, lvl) ELSE Right(e, lvl)
With(e, key, val) ==
    [k \in DOMAIN e \union {key} |-> IF k = key THEN val ELSE e[k]]

\* The three kinds of nodes and their fields.
LEMMA NodeKinds ==
    /\ Zero.type = "zero"
    /\ \A k, v : /\ Leaf(k, v).type = "leaf"
                 /\ Leaf(k, v).k = k
                 /\ Leaf(k, v).v = v
    /\ \A l, r : /\ Middle(l, r).type = "middle"
                 /\ Middle(l, r).l = l
                 /\ Middle(l, r).r = r
    /\ "leaf" # "zero" /\ "middle" # "zero" /\ "leaf" # "middle"
BY DEF Zero, Leaf, Middle

\* No node of one kind is of another.
LEMMA NodesDiffer ==
    /\ \A k, v : Leaf(k, v) # Zero
    /\ \A l, r : Middle(l, r) # Zero
    /\ \A k, v, l, r : Leaf(k, v) # Middle(l, r)
<1> USE NodeKinds
<1>1. \A k, v : Leaf(k, v) # Zero
  <2> SUFFICES ASSUME NEW k, NEW v, Leaf(k, v) = Zero PROVE FALSE
    OBVIOUS
  <2> QED OBVIOUS
<1>2. \A l, r : Middle(l, r) # Zero
  <2> SUFFICES ASSUME NEW l, NEW r, Middle(l, r) = Zero PROVE FALSE
    OBVIOUS
  <2> QED OBVIOUS
<1>3. \A k, v, l, r : Leaf(k, v) # Middle(l, r)
  <2> SUFFICES ASSUME NEW k, NEW v, NEW l, NEW r, Leaf(k, v) = Middle(l, r)
               PROVE  FALSE
    OBVIOUS
  <2> QED OBVIOUS
<1> QED BY <1>1, <1>2, <1>3

\* Entries are functions from some keys to values, and all of these.
LEMMA EntriesShape ==
    ASSUME NEW e \in EntriesType
    PROVE  /\ DOMAIN e \subseteq TreeKeys
           /\ e = [k \in DOMAIN e |-> e[k]]
           /\ \A k \in DOMAIN e : e[k] \in Values
BY DEF EntriesType

\* Every function from some keys to values is such entries.
LEMMA EntriesMade ==
    ASSUME NEW S \in SUBSET TreeKeys, NEW f \in [S -> Values]
    PROVE  f \in EntriesType
BY DEF EntriesType

\* The parts of some entries, and these with a new one, are entries.
LEMMA PartsAreEntries ==
    ASSUME NEW e \in EntriesType, NEW lvl, NEW key \in TreeKeys
    PROVE  /\ Left(e, lvl) \in EntriesType
           /\ Right(e, lvl) \in EntriesType
           /\ Toward(e, key, lvl) \in EntriesType
           /\ Beside(e, key, lvl) \in EntriesType
           /\ Under(e, key, lvl) \in EntriesType
           /\ \A val \in Values : With(e, key, val) \in EntriesType
<1>1. DOMAIN e \subseteq TreeKeys /\ \A k \in DOMAIN e : e[k] \in Values
  BY EntriesShape
<1>2. ASSUME NEW S, S \subseteq DOMAIN e
      PROVE  [k \in S |-> e[k]] \in EntriesType
  <2>1. S \in SUBSET TreeKeys /\ [k \in S |-> e[k]] \in [S -> Values]
    BY <1>1, <1>2
  <2> QED BY <2>1, EntriesMade
<1>3. Left(e, lvl) \in EntriesType /\ Right(e, lvl) \in EntriesType
  <2>1. {j \in DOMAIN e : ~Bit(j, lvl)} \subseteq DOMAIN e
    OBVIOUS
  <2>2. {j \in DOMAIN e : Bit(j, lvl)} \subseteq DOMAIN e
    OBVIOUS
  <2> QED BY <1>2, <2>1, <2>2 DEF Left, Right
<1>4. Under(e, key, lvl) \in EntriesType
  <2>1. {j \in DOMAIN e : SamePath(j, key, lvl)} \subseteq DOMAIN e
    OBVIOUS
  <2> QED BY <1>2, <2>1 DEF Under
<1>5. ASSUME NEW val \in Values PROVE With(e, key, val) \in EntriesType
  <2> DEFINE S == DOMAIN e \union {key}
  <2>1. S \in SUBSET TreeKeys
    BY <1>1
  <2>2. With(e, key, val) \in [S -> Values]
    BY <1>1 DEF With
  <2> QED BY <2>1, <2>2, EntriesMade
<1> QED BY <1>3, <1>4, <1>5 DEF Toward, Beside

\* One level down the entries under a path are one side of those above.
LEMMA UnderSteps ==
    ASSUME NEW e \in EntriesType, NEW key \in TreeKeys
    PROVE  /\ Under(e, key, 0) = e
           /\ \A lvl \in Nat : Under(e, key, lvl + 1) = Toward(Under(e, key, lvl), key, lvl)
<1>1. e = [k \in DOMAIN e |-> e[k]]
  BY EntriesShape
<1>2. Under(e, key, 0) = e
  <2>1. {j \in DOMAIN e : SamePath(j, key, 0)} = DOMAIN e
    BY DEF SamePath
  <2> QED BY <1>1, <2>1 DEF Under
<1>3. ASSUME NEW lvl \in Nat
      PROVE  Under(e, key, lvl + 1) = Toward(Under(e, key, lvl), key, lvl)
  <2>1. \A j : SamePath(j, key, lvl + 1) <=>
                 SamePath(j, key, lvl) /\ (Bit(j, lvl) <=> Bit(key, lvl))
    BY DEF SamePath
  <2> DEFINE S == {j \in DOMAIN e : SamePath(j, key, lvl)}
             S1 == {j \in DOMAIN e : SamePath(j, key, lvl + 1)}
  <2>2. CASE Bit(key, lvl)
    <3>1. {j \in S : Bit(j, lvl)} = S1
      BY <2>1, <2>2
    <3> QED BY <2>2, <3>1 DEF Under, Toward, Right
  <2>3. CASE ~Bit(key, lvl)
    <3>1. {j \in S : ~Bit(j, lvl)} = S1
      BY <2>1, <2>3
    <3> QED BY <2>3, <3>1 DEF Under, Toward, Left
  <2> QED BY <2>2, <2>3
<1> QED BY <1>2, <1>3

\* Which entries the parts have.
LEMMA SideDomains ==
    ASSUME NEW e \in EntriesType, NEW key \in TreeKeys, NEW lvl
    PROVE  /\ DOMAIN Toward(e, key, lvl) = {k \in DOMAIN e : Bit(k, lvl) <=> Bit(key, lvl)}
           /\ DOMAIN Beside(e, key, lvl) = {k \in DOMAIN e : ~(Bit(k, lvl) <=> Bit(key, lvl))}
           /\ \A k \in DOMAIN Toward(e, key, lvl) : Toward(e, key, lvl)[k] = e[k]
           /\ \A k \in DOMAIN Beside(e, key, lvl) : Beside(e, key, lvl)[k] = e[k]
<1>1. CASE Bit(key, lvl)
  BY <1>1 DEF Toward, Beside, Left, Right
<1>2. CASE ~Bit(key, lvl)
  BY <1>2 DEF Toward, Beside, Left, Right
<1> QED BY <1>1, <1>2

\* The entries under a path are those of the keys that share it.
LEMMA UnderDomain ==
    ASSUME NEW e \in EntriesType, NEW key \in TreeKeys, NEW lvl
    PROVE  /\ DOMAIN Under(e, key, lvl) = {k \in DOMAIN e : SamePath(k, key, lvl)}
           /\ \A k \in DOMAIN Under(e, key, lvl) : Under(e, key, lvl)[k] = e[k]
BY DEF Under

\* A new entry goes to its own side and leaves the other as it is.
LEMMA WithSides ==
    ASSUME NEW e \in EntriesType, NEW key \in TreeKeys, NEW val \in Values, NEW lvl
    PROVE  /\ Toward(With(e, key, val), key, lvl) = With(Toward(e, key, lvl), key, val)
           /\ Beside(With(e, key, val), key, lvl) = Beside(e, key, lvl)
<1> DEFINE w == With(e, key, val)
<1>1. /\ DOMAIN w = DOMAIN e \union {key}
      /\ w[key] = val
      /\ \A k \in DOMAIN e : k # key => w[k] = e[k]
  BY DEF With
<1>2. CASE Bit(key, lvl)
  <2>1. {j \in DOMAIN w : Bit(j, lvl)} = {j \in DOMAIN e : Bit(j, lvl)} \union {key}
    BY <1>1, <1>2
  <2>2. {j \in DOMAIN w : ~Bit(j, lvl)} = {j \in DOMAIN e : ~Bit(j, lvl)}
    BY <1>1, <1>2
  <2>3. Toward(w, key, lvl) = With(Toward(e, key, lvl), key, val)
    <3> HIDE DEF w
    <3> QED BY <1>1, <1>2, <2>1 DEF Toward, Right, With
  <2>4. Beside(w, key, lvl) = Beside(e, key, lvl)
    <3> HIDE DEF w
    <3> QED BY <1>1, <1>2, <2>2 DEF Beside, Left
  <2> QED BY <2>3, <2>4
<1>3. CASE ~Bit(key, lvl)
  <2>1. {j \in DOMAIN w : ~Bit(j, lvl)} = {j \in DOMAIN e : ~Bit(j, lvl)} \union {key}
    BY <1>1, <1>3
  <2>2. {j \in DOMAIN w : Bit(j, lvl)} = {j \in DOMAIN e : Bit(j, lvl)}
    BY <1>1, <1>3
  <2>3. Toward(w, key, lvl) = With(Toward(e, key, lvl), key, val)
    <3> HIDE DEF w
    <3> QED BY <1>1, <1>3, <2>1 DEF Toward, Left, With
  <2>4. Beside(w, key, lvl) = Beside(e, key, lvl)
    <3> HIDE DEF w
    <3> QED BY <1>1, <1>3, <2>2 DEF Beside, Right
  <2> QED BY <2>3, <2>4
<1> QED BY <1>2, <1>3

-----------------------------------------------------------------------------
(* The recursive functions of the tree satisfy their equations. *)

\* The canonical trees are well defined.
LEMMA CanonicalUnfold ==
    CanonicalTree =
        [lvl \in 0..D |-> [e \in EntriesType |->
            TreeStep(e, lvl, IF lvl = D THEN [x \in EntriesType |-> NoTree]
                             ELSE CanonicalTree[lvl + 1])]]
<1> DEFINE Level(lvl, below) ==
             [e \in EntriesType |->
                TreeStep(e, lvl, IF lvl = D THEN [x \in EntriesType |-> NoTree]
                                 ELSE below)]
           Acc(f, n) == f = [lvl \in (D - n)..D |-> Level(lvl, f[lvl + 1])]
           T == {n \in Nat : \E f : Acc(f, n)}
<1>0. D \in Nat
  BY TreeAssumption
<1>a. \A x, y : Level(D, x) = Level(D, y)
  OBVIOUS
<1>b. CanonicalTree = CHOOSE f : f = [lvl \in 0..D |-> Level(lvl, f[lvl + 1])]
  BY DEF CanonicalTree
<1>c. ASSUME CanonicalTree = [lvl \in 0..D |-> Level(lvl, CanonicalTree[lvl + 1])]
      PROVE  CanonicalTree =
        [lvl \in 0..D |-> [e \in EntriesType |->
            TreeStep(e, lvl, IF lvl = D THEN [x \in EntriesType |-> NoTree]
                             ELSE CanonicalTree[lvl + 1])]]
  BY <1>c
<1> HIDE DEF Level, Acc
<1>1. 0 \in T
  <2> DEFINE f == [lvl \in (D - 0)..D |-> Level(D, 0)]
  <2>1. f = [lvl \in (D - 0)..D |-> Level(lvl, f[lvl + 1])]
    <3>1. ASSUME NEW lvl \in (D - 0)..D PROVE Level(D, 0) = Level(lvl, f[lvl + 1])
      <4>1. lvl = D
        BY <1>0
      <4> HIDE DEF f
      <4> QED BY <4>1, <1>a
    <3> HIDE DEF Level
    <3> QED BY <3>1
  <2> HIDE DEF f
  <2> QED BY <2>1 DEF Acc
<1>2. ASSUME NEW n \in T PROVE n + 1 \in T
  <2>1. PICK f : Acc(f, n)
    OBVIOUS
  <2> DEFINE lo == D - (n + 1)
             g == [lvl \in lo..D |-> IF lvl = lo THEN Level(lo, f[lo + 1]) ELSE f[lvl]]
             rhs == [lvl \in lo..D |-> Level(lvl, g[lvl + 1])]
  <2>2. n \in Nat /\ lo \in Int /\ lo + 1 = D - n /\ lo < D
    BY <1>0
  <2>3. f = [lvl \in (D - n)..D |-> Level(lvl, f[lvl + 1])]
    BY <2>1 DEF Acc
  <2> HIDE DEF lo
  <2>4. ASSUME NEW lvl \in lo..D PROVE g[lvl] = rhs[lvl]
    <3>1. CASE lvl = lo
      <4>1. lo + 1 \in lo..D /\ lo + 1 # lo
        BY <1>0, <2>2
      <4>2. g[lo + 1] = f[lo + 1]
        BY <4>1
      <4> QED BY <3>1, <4>2
    <3>2. CASE lvl = D
      <4>1. lvl \in (D - n)..D /\ lvl # lo
        BY <1>0, <2>2, <3>2
      <4>2. g[lvl] = f[lvl] /\ f[lvl] = Level(lvl, f[lvl + 1])
        BY <2>3, <4>1
      <4>3. rhs[lvl] = Level(lvl, g[lvl + 1])
        OBVIOUS
      <4> HIDE DEF g, rhs
      <4> QED BY <3>2, <4>2, <4>3, <1>a
    <3>3. CASE lvl # lo /\ lvl # D
      <4>1. lvl \in (D - n)..D /\ lvl + 1 \in lo..D /\ lvl + 1 # lo
        BY <1>0, <2>2, <3>3
      <4>2. g[lvl] = f[lvl] /\ f[lvl] = Level(lvl, f[lvl + 1]) /\ g[lvl + 1] = f[lvl + 1]
        BY <2>3, <3>3, <4>1
      <4> QED BY <4>2
    <3> QED BY <3>1, <3>2, <3>3
  <2>5. g = rhs
    BY <2>4
  <2> HIDE DEF g
  <2>6. Acc(g, n + 1)
    BY <2>5 DEF lo, Acc
  <2> QED BY <2>2, <2>6
<1>3. T = Nat
  <2> HIDE DEF T
  <2>1. T \subseteq Nat
    BY DEF T
  <2> QED BY <1>1, <1>2, <2>1, NatSetInduction
<1>4. \E f : f = [lvl \in 0..D |-> Level(lvl, f[lvl + 1])]
  <2>1. D \in T
    BY <1>0, <1>3
  <2>2. D - D = 0
    BY <1>0
  <2> QED BY <2>1, <2>2 DEF Acc
<1>5. CanonicalTree = [lvl \in 0..D |-> Level(lvl, CanonicalTree[lvl + 1])]
  BY <1>4, <1>b
<1> QED BY <1>5, <1>c

\* push_leaf is well defined.
LEMMA PushUnfold ==
    ASSUME NEW new, NEW old
    PROVE  PushLeaf(new, old) =
        [lvl \in 0..D |-> IF lvl = D THEN Failed
                          ELSE PushStep(new, old, lvl, PushLeaf(new, old)[lvl + 1])]
<1> DEFINE Level(lvl, below) ==
             IF lvl = D THEN Failed ELSE PushStep(new, old, lvl, below)
           Acc(f, n) == f = [lvl \in (D - n)..D |-> Level(lvl, f[lvl + 1])]
           T == {n \in Nat : \E f : Acc(f, n)}
<1>0. D \in Nat
  BY TreeAssumption
<1>a. \A x, y : Level(D, x) = Level(D, y)
  OBVIOUS
<1>b. PushLeaf(new, old) = CHOOSE f : f = [lvl \in 0..D |-> Level(lvl, f[lvl + 1])]
  BY DEF PushLeaf
<1>c. ASSUME PushLeaf(new, old) = [lvl \in 0..D |-> Level(lvl, PushLeaf(new, old)[lvl + 1])]
      PROVE  PushLeaf(new, old) =
        [lvl \in 0..D |-> IF lvl = D THEN Failed
                          ELSE PushStep(new, old, lvl, PushLeaf(new, old)[lvl + 1])]
  BY <1>c
<1> HIDE DEF Level, Acc
<1>1. 0 \in T
  <2> DEFINE f == [lvl \in (D - 0)..D |-> Level(D, 0)]
  <2>1. f = [lvl \in (D - 0)..D |-> Level(lvl, f[lvl + 1])]
    <3>1. ASSUME NEW lvl \in (D - 0)..D PROVE Level(D, 0) = Level(lvl, f[lvl + 1])
      <4>1. lvl = D
        BY <1>0
      <4> HIDE DEF f
      <4> QED BY <4>1, <1>a
    <3> HIDE DEF Level
    <3> QED BY <3>1
  <2> HIDE DEF f
  <2> QED BY <2>1 DEF Acc
<1>2. ASSUME NEW n \in T PROVE n + 1 \in T
  <2>1. PICK f : Acc(f, n)
    OBVIOUS
  <2> DEFINE lo == D - (n + 1)
             g == [lvl \in lo..D |-> IF lvl = lo THEN Level(lo, f[lo + 1]) ELSE f[lvl]]
             rhs == [lvl \in lo..D |-> Level(lvl, g[lvl + 1])]
  <2>2. n \in Nat /\ lo \in Int /\ lo + 1 = D - n /\ lo < D
    BY <1>0
  <2>3. f = [lvl \in (D - n)..D |-> Level(lvl, f[lvl + 1])]
    BY <2>1 DEF Acc
  <2> HIDE DEF lo
  <2>4. ASSUME NEW lvl \in lo..D PROVE g[lvl] = rhs[lvl]
    <3>1. CASE lvl = lo
      <4>1. lo + 1 \in lo..D /\ lo + 1 # lo
        BY <1>0, <2>2
      <4>2. g[lo + 1] = f[lo + 1]
        BY <4>1
      <4> QED BY <3>1, <4>2
    <3>2. CASE lvl = D
      <4>1. lvl \in (D - n)..D /\ lvl # lo
        BY <1>0, <2>2, <3>2
      <4>2. g[lvl] = f[lvl] /\ f[lvl] = Level(lvl, f[lvl + 1])
        BY <2>3, <4>1
      <4>3. rhs[lvl] = Level(lvl, g[lvl + 1])
        OBVIOUS
      <4> HIDE DEF g, rhs
      <4> QED BY <3>2, <4>2, <4>3, <1>a
    <3>3. CASE lvl # lo /\ lvl # D
      <4>1. lvl \in (D - n)..D /\ lvl + 1 \in lo..D /\ lvl + 1 # lo
        BY <1>0, <2>2, <3>3
      <4>2. g[lvl] = f[lvl] /\ f[lvl] = Level(lvl, f[lvl + 1]) /\ g[lvl + 1] = f[lvl + 1]
        BY <2>3, <3>3, <4>1
      <4> QED BY <4>2
    <3> QED BY <3>1, <3>2, <3>3
  <2>5. g = rhs
    BY <2>4
  <2> HIDE DEF g
  <2>6. Acc(g, n + 1)
    BY <2>5 DEF lo, Acc
  <2> QED BY <2>2, <2>6
<1>3. T = Nat
  <2> HIDE DEF T
  <2>1. T \subseteq Nat
    BY DEF T
  <2> QED BY <1>1, <1>2, <2>1, NatSetInduction
<1>4. \E f : f = [lvl \in 0..D |-> Level(lvl, f[lvl + 1])]
  <2>1. D \in T
    BY <1>0, <1>3
  <2>2. D - D = 0
    BY <1>0
  <2> QED BY <2>1, <2>2 DEF Acc
<1>5. PushLeaf(new, old) = [lvl \in 0..D |-> Level(lvl, PushLeaf(new, old)[lvl + 1])]
  BY <1>4, <1>b
<1> QED BY <1>5, <1>c

\* add_leaf is well defined.
LEMMA AddUnfold ==
    ASSUME NEW new
    PROVE  AddLeaf(new) =
        [lvl \in 0..D |-> AddStep(new, Walk(new.k)[lvl], lvl,
                                  IF lvl = D THEN Failed ELSE AddLeaf(new)[lvl + 1])]
<1> DEFINE Level(lvl, below) ==
             AddStep(new, Walk(new.k)[lvl], lvl, IF lvl = D THEN Failed ELSE below)
           Acc(f, n) == f = [lvl \in (D - n)..D |-> Level(lvl, f[lvl + 1])]
           T == {n \in Nat : \E f : Acc(f, n)}
<1>0. D \in Nat
  BY TreeAssumption
<1>a. \A x, y : Level(D, x) = Level(D, y)
  OBVIOUS
<1>b. AddLeaf(new) = CHOOSE f : f = [lvl \in 0..D |-> Level(lvl, f[lvl + 1])]
  BY DEF AddLeaf
<1>c. ASSUME AddLeaf(new) = [lvl \in 0..D |-> Level(lvl, AddLeaf(new)[lvl + 1])]
      PROVE  AddLeaf(new) =
        [lvl \in 0..D |-> AddStep(new, Walk(new.k)[lvl], lvl,
                                  IF lvl = D THEN Failed ELSE AddLeaf(new)[lvl + 1])]
  BY <1>c
<1> HIDE DEF Level, Acc
<1>1. 0 \in T
  <2> DEFINE f == [lvl \in (D - 0)..D |-> Level(D, 0)]
  <2>1. f = [lvl \in (D - 0)..D |-> Level(lvl, f[lvl + 1])]
    <3>1. ASSUME NEW lvl \in (D - 0)..D PROVE Level(D, 0) = Level(lvl, f[lvl + 1])
      <4>1. lvl = D
        BY <1>0
      <4> HIDE DEF f
      <4> QED BY <4>1, <1>a
    <3> HIDE DEF Level
    <3> QED BY <3>1
  <2> HIDE DEF f
  <2> QED BY <2>1 DEF Acc
<1>2. ASSUME NEW n \in T PROVE n + 1 \in T
  <2>1. PICK f : Acc(f, n)
    OBVIOUS
  <2> DEFINE lo == D - (n + 1)
             g == [lvl \in lo..D |-> IF lvl = lo THEN Level(lo, f[lo + 1]) ELSE f[lvl]]
             rhs == [lvl \in lo..D |-> Level(lvl, g[lvl + 1])]
  <2>2. n \in Nat /\ lo \in Int /\ lo + 1 = D - n /\ lo < D
    BY <1>0
  <2>3. f = [lvl \in (D - n)..D |-> Level(lvl, f[lvl + 1])]
    BY <2>1 DEF Acc
  <2> HIDE DEF lo
  <2>4. ASSUME NEW lvl \in lo..D PROVE g[lvl] = rhs[lvl]
    <3>1. CASE lvl = lo
      <4>1. lo + 1 \in lo..D /\ lo + 1 # lo
        BY <1>0, <2>2
      <4>2. g[lo + 1] = f[lo + 1]
        BY <4>1
      <4> QED BY <3>1, <4>2
    <3>2. CASE lvl = D
      <4>1. lvl \in (D - n)..D /\ lvl # lo
        BY <1>0, <2>2, <3>2
      <4>2. g[lvl] = f[lvl] /\ f[lvl] = Level(lvl, f[lvl + 1])
        BY <2>3, <4>1
      <4>3. rhs[lvl] = Level(lvl, g[lvl + 1])
        OBVIOUS
      <4> HIDE DEF g, rhs
      <4> QED BY <3>2, <4>2, <4>3, <1>a
    <3>3. CASE lvl # lo /\ lvl # D
      <4>1. lvl \in (D - n)..D /\ lvl + 1 \in lo..D /\ lvl + 1 # lo
        BY <1>0, <2>2, <3>3
      <4>2. g[lvl] = f[lvl] /\ f[lvl] = Level(lvl, f[lvl + 1]) /\ g[lvl + 1] = f[lvl + 1]
        BY <2>3, <3>3, <4>1
      <4> QED BY <4>2
    <3> QED BY <3>1, <3>2, <3>3
  <2>5. g = rhs
    BY <2>4
  <2> HIDE DEF g
  <2>6. Acc(g, n + 1)
    BY <2>5 DEF lo, Acc
  <2> QED BY <2>2, <2>6
<1>3. T = Nat
  <2> HIDE DEF T
  <2>1. T \subseteq Nat
    BY DEF T
  <2> QED BY <1>1, <1>2, <2>1, NatSetInduction
<1>4. \E f : f = [lvl \in 0..D |-> Level(lvl, f[lvl + 1])]
  <2>1. D \in T
    BY <1>0, <1>3
  <2>2. D - D = 0
    BY <1>0
  <2> QED BY <2>1, <2>2 DEF Acc
<1>5. AddLeaf(new) = [lvl \in 0..D |-> Level(lvl, AddLeaf(new)[lvl + 1])]
  BY <1>4, <1>b
<1> QED BY <1>5, <1>c

\* The way down from the root is well defined.
LEMMA WalkUnfold ==
    ASSUME NEW key
    PROVE  Walk(key) = [i \in 0..D |->
                          IF i = 0 THEN cachedRoot ELSE NextOnPath(Walk(key)[i - 1], key, i - 1)]
<1> DEFINE Acc(f, n) == f = [i \in 0..n |-> IF i = 0 THEN cachedRoot
                                            ELSE NextOnPath(f[i - 1], key, i - 1)]
           T == {n \in Nat : \E f : Acc(f, n)}
<1>0. D \in Nat
  BY TreeAssumption
<1> HIDE DEF Acc
<1>1. 0 \in T
  <2> DEFINE f == [i \in 0..0 |-> cachedRoot]
  <2>1. f = [i \in 0..0 |-> IF i = 0 THEN cachedRoot ELSE NextOnPath(f[i - 1], key, i - 1)]
    OBVIOUS
  <2> QED BY <2>1 DEF Acc
<1>2. ASSUME NEW n \in T PROVE n + 1 \in T
  <2>1. PICK f : Acc(f, n)
    OBVIOUS
  <2> DEFINE g == [i \in 0..(n + 1) |->
                     IF i = n + 1 THEN NextOnPath(f[n], key, (n + 1) - 1) ELSE f[i]]
             rhs == [i \in 0..(n + 1) |->
                       IF i = 0 THEN cachedRoot ELSE NextOnPath(g[i - 1], key, i - 1)]
  <2>2. n \in Nat
    OBVIOUS
  <2>3. ASSUME NEW i \in 0..(n + 1) PROVE g[i] = rhs[i]
    <3>1. CASE i = n + 1
      <4>1. g[i - 1] = f[n] /\ g[i] = NextOnPath(f[n], key, (n + 1) - 1)
        BY <2>2, <3>1
      <4> QED BY <2>2, <3>1, <4>1
    <3>2. CASE i = 0
      <4>1. g[i] = f[0] /\ f[0] = cachedRoot
        BY <2>1, <2>2, <3>2 DEF Acc
      <4> QED BY <2>2, <3>2, <4>1
    <3>3. CASE i \in 1..n
      <4>1. g[i] = f[i] /\ g[i - 1] = f[i - 1]
        BY <2>2, <3>3
      <4>2. f[i] = NextOnPath(f[i - 1], key, i - 1)
        BY <2>1, <2>2, <3>3 DEF Acc
      <4> QED BY <2>2, <3>3, <4>1, <4>2
    <3> QED BY <2>2, <3>1, <3>2, <3>3
  <2>4. g = rhs
    BY <2>3
  <2>5. Acc(g, n + 1)
    BY <2>4 DEF Acc
  <2> QED BY <2>2, <2>5
<1>3. T = Nat
  <2> HIDE DEF T
  <2>1. T \subseteq Nat
    BY DEF T
  <2> QED BY <1>1, <1>2, <2>1, NatSetInduction
<1>4. \E f : Acc(f, D)
  BY <1>0, <1>3
<1>5. Walk(key) = CHOOSE f : Acc(f, D)
  BY DEF Walk, Acc
<1>6. Acc(Walk(key), D)
  BY <1>4, <1>5
<1> QED BY <1>6 DEF Acc

\* The nodes written anew over a path are well defined.
LEMMA RebuiltUnfold ==
    ASSUME NEW leaf, NEW key, NEW siblings, NEW top \in Nat
    PROVE  Rebuilt(leaf, key, siblings, top) =
             [i \in 0..top |->
                IF i = 0 THEN leaf
                ELSE Above(key, top - i, Rebuilt(leaf, key, siblings, top)[i - 1],
                           siblings[top - i])]
<1> DEFINE Acc(f, n) == f = [i \in 0..n |-> IF i = 0 THEN leaf
                               ELSE Above(key, top - i, f[i - 1], siblings[top - i])]
           T == {n \in Nat : \E f : Acc(f, n)}
<1>0. top \in Nat
  OBVIOUS
<1> HIDE DEF Acc
<1>1. 0 \in T
  <2> DEFINE f == [i \in 0..0 |-> leaf]
  <2>1. f = [i \in 0..0 |-> IF i = 0 THEN leaf
                            ELSE Above(key, top - i, f[i - 1], siblings[top - i])]
    OBVIOUS
  <2> QED BY <2>1 DEF Acc
<1>2. ASSUME NEW n \in T PROVE n + 1 \in T
  <2>1. PICK f : Acc(f, n)
    OBVIOUS
  <2> DEFINE g == [i \in 0..(n + 1) |->
                     IF i = n + 1
                     THEN Above(key, top - (n + 1), f[n], siblings[top - (n + 1)])
                     ELSE f[i]]
             rhs == [i \in 0..(n + 1) |->
                       IF i = 0 THEN leaf
                       ELSE Above(key, top - i, g[i - 1], siblings[top - i])]
  <2>2. n \in Nat
    OBVIOUS
  <2>3. ASSUME NEW i \in 0..(n + 1) PROVE g[i] = rhs[i]
    <3>1. CASE i = n + 1
      <4>1. g[i - 1] = f[n] /\ g[i] = Above(key, top - (n + 1), f[n], siblings[top - (n + 1)])
        BY <2>2, <3>1
      <4> QED BY <2>2, <3>1, <4>1
    <3>2. CASE i = 0
      <4>1. g[i] = f[0] /\ f[0] = leaf
        BY <2>1, <2>2, <3>2 DEF Acc
      <4> QED BY <2>2, <3>2, <4>1
    <3>3. CASE i \in 1..n
      <4>1. g[i] = f[i] /\ g[i - 1] = f[i - 1]
        BY <2>2, <3>3
      <4>2. f[i] = Above(key, top - i, f[i - 1], siblings[top - i])
        BY <2>1, <2>2, <3>3 DEF Acc
      <4> QED BY <2>2, <3>3, <4>1, <4>2
    <3> QED BY <2>2, <3>1, <3>2, <3>3
  <2>4. g = rhs
    BY <2>3
  <2>5. Acc(g, n + 1)
    BY <2>4 DEF Acc
  <2> QED BY <2>2, <2>5
<1>3. T = Nat
  <2> HIDE DEF T
  <2>1. T \subseteq Nat
    BY DEF T
  <2> QED BY <1>1, <1>2, <2>1, NatSetInduction
<1>4. \E f : Acc(f, top)
  BY <1>0, <1>3
<1>5. Rebuilt(leaf, key, siblings, top) = CHOOSE f : Acc(f, top)
  BY DEF Rebuilt, Acc
<1>6. Acc(Rebuilt(leaf, key, siblings, top), top)
  BY <1>4, <1>5
<1> QED BY <1>6 DEF Acc

-----------------------------------------------------------------------------
(* The tree of some entries *)

\* Some entries are none, one, or more.
LEMMA NoneOneOrTwo ==
    ASSUME NEW e \in EntriesType
    PROVE  \/ DOMAIN e = {}
           \/ \E k \in TreeKeys : DOMAIN e = {k}
           \/ Two(e)
<1>1. SUFFICES ASSUME DOMAIN e # {}, ~Two(e) PROVE \E k \in TreeKeys : DOMAIN e = {k}
  OBVIOUS
<1>2. PICK k \in DOMAIN e : TRUE
  BY <1>1
<1>3. k \in TreeKeys
  BY EntriesShape
<1>4. DOMAIN e = {k}
  BY <1>1 DEF Two
<1> QED BY <1>3, <1>4

\* The tree of no entries, of one and of several.
LEMMA TreeOfNone ==
    ASSUME NEW e \in EntriesType, NEW lvl \in 0..D, DOMAIN e = {}
    PROVE  TreeAt(lvl, e) = NoTree
BY CanonicalUnfold DEF TreeAt, TreeStep

\* One entry is its leaf, at any level.
LEMMA TreeOfOne ==
    ASSUME NEW e \in EntriesType, NEW lvl \in 0..D, NEW k \in TreeKeys, DOMAIN e = {k}
    PROVE  TreeAt(lvl, e) = [root |-> Leaf(k, e[k]), nodes |-> {Leaf(k, e[k])}]
<1> DEFINE below == IF lvl = D THEN [x \in EntriesType |-> NoTree]
                    ELSE CanonicalTree[lvl + 1]
<1>1. TreeAt(lvl, e) = TreeStep(e, lvl, below)
  <2>1. CanonicalTree[lvl] = [x \in EntriesType |-> TreeStep(x, lvl, below)]
    BY CanonicalUnfold
  <2> HIDE DEF below
  <2> QED BY <2>1 DEF TreeAt
<1> HIDE DEF below
<1>2. {Leaf(j, e[j]) : j \in DOMAIN e} = {Leaf(k, e[k])}
  OBVIOUS
<1>3. (CHOOSE n \in {Leaf(j, e[j]) : j \in DOMAIN e} : TRUE) = Leaf(k, e[k])
  BY <1>2
<1> QED BY <1>1, <1>3 DEF TreeStep

\* Several entries are a node over the trees of their two sides.
LEMMA TreeOfTwo ==
    ASSUME NEW e \in EntriesType, NEW lvl \in 0..D - 1, Two(e)
    PROVE  TreeAt(lvl, e) =
             Join(TreeAt(lvl + 1, Left(e, lvl)), TreeAt(lvl + 1, Right(e, lvl)))
<1>1. lvl \in 0..D /\ lvl # D /\ lvl + 1 \in 0..D
  BY TreeAssumption
<1>2. TreeAt(lvl, e) = TreeStep(e, lvl, CanonicalTree[lvl + 1])
  BY <1>1, CanonicalUnfold DEF TreeAt
<1>3. DOMAIN e # {} /\ ~\E k \in TreeKeys : DOMAIN e = {k}
  BY DEF Two
<1> QED BY <1>2, <1>3 DEF TreeStep, TreeAt

\* Seen from a key: the two sides of the node over several entries.
LEMMA TreeOfSides ==
    ASSUME NEW e \in EntriesType, NEW lvl \in 0..D - 1, Two(e), NEW key \in TreeKeys
    PROVE  LET t == TreeAt(lvl + 1, Toward(e, key, lvl))
               b == TreeAt(lvl + 1, Beside(e, key, lvl))
           IN  /\ TreeAt(lvl, e).root = Above(key, lvl, t.root, b.root)
               /\ TreeAt(lvl, e).nodes = {TreeAt(lvl, e).root} \union t.nodes \union b.nodes
               /\ TreeAt(lvl, e).root.type = "middle"
               /\ NextOnPath(TreeAt(lvl, e).root, key, lvl) = t.root
               /\ Sibling(TreeAt(lvl, e).root, key, lvl) = b.root
<1> DEFINE l == TreeAt(lvl + 1, Left(e, lvl))
           r == TreeAt(lvl + 1, Right(e, lvl))
<1>1. TreeAt(lvl, e) = Join(l, r)
  BY TreeOfTwo
<1> HIDE DEF l, r
<1>2. /\ TreeAt(lvl, e).root = Middle(l.root, r.root)
      /\ TreeAt(lvl, e).nodes = {TreeAt(lvl, e).root} \union l.nodes \union r.nodes
  BY <1>1 DEF Join
<1>3. CASE Bit(key, lvl)
  <2>1. /\ TreeAt(lvl + 1, Toward(e, key, lvl)) = r
        /\ TreeAt(lvl + 1, Beside(e, key, lvl)) = l
    BY <1>3 DEF Toward, Beside, l, r
  <2> QED BY <1>2, <1>3, <2>1, NodeKinds DEF Above, NextOnPath, Sibling
<1>4. CASE ~Bit(key, lvl)
  <2>1. /\ TreeAt(lvl + 1, Toward(e, key, lvl)) = l
        /\ TreeAt(lvl + 1, Beside(e, key, lvl)) = r
    BY <1>4 DEF Toward, Beside, l, r
  <2> QED BY <1>2, <1>4, <2>1, NodeKinds DEF Above, NextOnPath, Sibling
<1> QED BY <1>3, <1>4

\* Entries that share all bits below a level are one at most at level D - 1.
LEMMA TwoAbove ==
    ASSUME NEW e \in EntriesType, NEW key \in TreeKeys, NEW lvl \in 0..D,
           Two(Under(e, key, lvl))
    PROVE  lvl \in 0..D - 2
<1>1. D \in Nat
  BY TreeAssumption
<1>2. PICK j \in DOMAIN Under(e, key, lvl), k \in DOMAIN Under(e, key, lvl) : j # k
  BY DEF Two
<1>3. j \in TreeKeys /\ k \in TreeKeys /\ SamePath(j, key, lvl) /\ SamePath(k, key, lvl)
  <2>1. DOMAIN Under(e, key, lvl) = {x \in DOMAIN e : SamePath(x, key, lvl)}
    BY UnderDomain
  <2>2. DOMAIN e \subseteq TreeKeys
    BY EntriesShape
  <2> QED BY <2>1, <2>2
<1>4. PICK i \in 0..D - 2 : ~(Bit(j, i) <=> Bit(k, i))
  BY <1>2, <1>3, TreeAssumption
<1>5. ~(i \in 0..lvl - 1)
  BY <1>3, <1>4 DEF SamePath
<1> QED BY <1>1, <1>4, <1>5

\* A tree has its root among its nodes, and no root only without entries.
LEMMA TreeRoot ==
    ASSUME NEW e \in EntriesType, NEW lvl \in 0..D, lvl < D \/ ~Two(e)
    PROVE  /\ DOMAIN e = {} => TreeAt(lvl, e).root = Zero /\ TreeAt(lvl, e).nodes = {}
           /\ DOMAIN e # {} => /\ TreeAt(lvl, e).root \in TreeAt(lvl, e).nodes
                               /\ TreeAt(lvl, e).root # Zero
<1>1. CASE DOMAIN e = {}
  BY <1>1, TreeOfNone DEF NoTree
<1>2. ASSUME NEW k \in TreeKeys, DOMAIN e = {k}
      PROVE  /\ TreeAt(lvl, e).root \in TreeAt(lvl, e).nodes
             /\ TreeAt(lvl, e).root # Zero
  BY <1>2, TreeOfOne, NodesDiffer
<1>3. CASE Two(e)
  <2>1. lvl \in 0..D - 1
    BY <1>3, TreeAssumption
  <2>2. DOMAIN e # {}
    BY <1>3 DEF Two
  <2>3. PICK key \in TreeKeys : TRUE
    BY <2>2, EntriesShape
  <2>4. /\ TreeAt(lvl, e).root \in TreeAt(lvl, e).nodes
        /\ TreeAt(lvl, e).root.type = "middle"
    BY <1>3, <2>1, TreeOfSides
  <2>5. TreeAt(lvl, e).root # Zero
    BY <2>4, NodeKinds
  <2> QED BY <2>2, <2>4, <2>5
<1> QED BY <1>1, <1>2, <1>3, NoneOneOrTwo

\* The loaded tree is the tree of e, and all of its nodes are stored.
Stored(e) ==
    /\ e \in EntriesType
    /\ cachedRoot = TreeAt(0, e).root
    /\ TreeAt(0, e).nodes \subseteq treeDb
    /\ Zero \notin treeDb

\* On the way down, as long as there are several entries, the nodes met are
\* the trees of the entries under the path, and stored.
LEMMA WalkCanonical ==
    ASSUME NEW e, Stored(e), NEW key \in TreeKeys, NEW lvl \in 0..D,
           \A i \in 0..lvl - 1 : Two(Under(e, key, i))
    PROVE  /\ Walk(key)[lvl] = TreeAt(lvl, Under(e, key, lvl)).root
           /\ TreeAt(lvl, Under(e, key, lvl)).nodes \subseteq treeDb
<1>0. D \in Nat
  BY TreeAssumption
<1> DEFINE Good(n) ==
      /\ Walk(key)[n] = TreeAt(n, Under(e, key, n)).root
      /\ TreeAt(n, Under(e, key, n)).nodes \subseteq treeDb
<1> DEFINE T == {n \in Nat : n <= lvl => Good(n)}
<1> HIDE DEF Good
<1>1. 0 \in T
  <2>1. Under(e, key, 0) = e
    BY UnderSteps DEF Stored
  <2>2. Walk(key)[0] = cachedRoot
    BY <1>0, WalkUnfold
  <2> QED BY <2>1, <2>2 DEF Stored, Good
<1>2. ASSUME NEW n \in T PROVE n + 1 \in T
  <2>1. SUFFICES ASSUME n + 1 <= lvl PROVE Good(n + 1)
    OBVIOUS
  <2>2. n \in Nat /\ n \in 0..lvl - 1 /\ n \in 0..D - 1 /\ n + 1 \in 0..D
    BY <1>0, <2>1
  <2>3. Good(n)
    BY <2>1, <2>2
  <2> DEFINE u == Under(e, key, n)
  <2>4. u \in EntriesType /\ Two(u)
    BY <2>2, PartsAreEntries DEF Stored
  <2>5. Under(e, key, n + 1) = Toward(u, key, n)
    BY <2>2, UnderSteps DEF Stored
  <2>6. Walk(key)[n + 1] = NextOnPath(Walk(key)[n], key, n)
    <3>1. n + 1 # 0 /\ (n + 1) - 1 = n
      BY <2>2
    <3> QED BY <2>2, <3>1, WalkUnfold
  <2>7. /\ NextOnPath(TreeAt(n, u).root, key, n) = TreeAt(n + 1, Toward(u, key, n)).root
        /\ TreeAt(n + 1, Toward(u, key, n)).nodes \subseteq TreeAt(n, u).nodes
    <3> HIDE DEF u
    <3> QED BY <2>2, <2>4, TreeOfSides
  <2> QED BY <2>3, <2>5, <2>6, <2>7 DEF Good
<1>3. T = Nat
  <2> HIDE DEF T
  <2>1. T \subseteq Nat
    BY DEF T
  <2> QED BY <1>1, <1>2, <2>1, NatSetInduction
<1>4. lvl \in T
  BY <1>0, <1>3
<1> QED BY <1>4 DEF Good

-----------------------------------------------------------------------------
(* The way down the path of a key *)

\* A set of levels that is not empty has a least one.
LEMMA LeastLevel ==
    ASSUME NEW S, S \subseteq Nat, S # {}
    PROVE  \E n \in S : \A m \in S : n <= m
<1>1. IsWellFoundedOn(OpToRel(<, Nat), Nat)
  BY NatLessThanWellFounded
<1>2. PICK n \in S : \A m \in S : ~ (<<m, n>> \in OpToRel(<, Nat))
  BY <1>1, WFMin
<1>3. ASSUME NEW m \in S PROVE n <= m
  <2>1. m \in Nat /\ n \in Nat /\ ~(m < n)
    BY <1>2 DEF OpToRel
  <2> QED BY <2>1
<1> QED BY <1>3

\* The path of a key ends above the last level, where at most one entry is
\* left under it; all nodes above hold several.
LEMMA EndOfPath ==
    ASSUME NEW e, Stored(e), NEW key \in TreeKeys
    PROVE  /\ EndLevel(key) \in 0..D - 1
           /\ \A i \in 0..EndLevel(key) - 1 : Two(Under(e, key, i))
           /\ \A i \in 0..EndLevel(key) - 1 : Inner(Walk(key)[i])
           /\ ~Two(Under(e, key, EndLevel(key)))
<1>0. D \in Nat /\ D >= 1 /\ e \in EntriesType
  BY TreeAssumption DEF Stored
<1> DEFINE S == {i \in 0..D : ~Two(Under(e, key, i))}
<1>1. D - 1 \in S
  <2>1. D - 1 \in 0..D /\ ~(D - 1 \in 0..D - 2)
    BY <1>0
  <2> QED BY <1>0, <2>1, TwoAbove
<1>2. S \subseteq Nat
  BY <1>0
<1>3. PICK low \in S : \A m \in S : low <= m
  <2> HIDE DEF S
  <2> QED BY <1>1, <1>2, LeastLevel
<1>4. low \in 0..D - 1 /\ low \in 0..D
  BY <1>0, <1>1, <1>2, <1>3
<1>5. \A i \in 0..low - 1 : Two(Under(e, key, i))
  <2> SUFFICES ASSUME NEW i \in 0..low - 1, ~Two(Under(e, key, i)) PROVE FALSE
    OBVIOUS
  <2>0. i \in 0..D
    <3> HIDE DEF S
    <3> QED BY <1>0, <1>4
  <2>1. i \in S
    BY <2>0
  <2> HIDE DEF S
  <2> QED BY <1>3, <1>4, <2>1
<1>6. ~Two(Under(e, key, low))
  BY <1>3
<1> HIDE DEF S
<1>7. ASSUME NEW i \in 0..low - 1 PROVE Inner(Walk(key)[i])
  <2>1. i \in 0..D /\ i \in 0..D - 1 /\ \A j \in 0..i - 1 : j \in 0..low - 1
    BY <1>0, <1>4
  <2>2. /\ Walk(key)[i] = TreeAt(i, Under(e, key, i)).root
        /\ TreeAt(i, Under(e, key, i)).nodes \subseteq treeDb
    BY <1>5, <2>1, WalkCanonical
  <2>3. Under(e, key, i) \in EntriesType /\ Two(Under(e, key, i))
    BY <1>0, <1>5, PartsAreEntries
  <2>4. /\ TreeAt(i, Under(e, key, i)).root.type = "middle"
        /\ TreeAt(i, Under(e, key, i)).root \in TreeAt(i, Under(e, key, i)).nodes
    BY <2>1, <2>3, TreeOfSides
  <2> QED BY <2>2, <2>4 DEF Inner, Absent
<1>8. ~Inner(Walk(key)[low])
  <2>1. /\ Walk(key)[low] = TreeAt(low, Under(e, key, low)).root
    BY <1>4, <1>5, WalkCanonical
  <2>2. Under(e, key, low) \in EntriesType
    BY <1>0, PartsAreEntries
  <2>3. CASE DOMAIN Under(e, key, low) = {}
    <3>1. Walk(key)[low] = Zero
      BY <1>4, <2>1, <2>2, <2>3, TreeOfNone DEF NoTree
    <3> QED BY <3>1 DEF Inner, Absent, Stored
  <2>4. ASSUME NEW k \in TreeKeys, DOMAIN Under(e, key, low) = {k}
        PROVE  ~Inner(Walk(key)[low])
    <3>1. Walk(key)[low] = Leaf(k, Under(e, key, low)[k])
      BY <1>4, <2>1, <2>2, <2>4, TreeOfOne
    <3> QED BY <3>1, NodeKinds DEF Inner
  <2> QED BY <1>6, <2>2, <2>3, <2>4, NoneOneOrTwo
<1>9. ASSUME NEW x \in 0..D,
             x = D \/ ~Inner(Walk(key)[x]),
             \A i \in 0..x - 1 : Inner(Walk(key)[i])
      PROVE  x = low
  <2>1. CASE x < low
    <3>1. x \in 0..low - 1 /\ x # D
      BY <1>0, <1>4, <2>1
    <3> QED BY <1>7, <1>9, <3>1
  <2>2. CASE x > low
    <3>1. low \in 0..x - 1
      BY <1>0, <1>4, <2>2
    <3> QED BY <1>8, <1>9, <3>1
  <2> QED BY <1>0, <1>4, <2>1, <2>2
<1>10. EndLevel(key) = low
  BY <1>4, <1>7, <1>8, <1>9 DEF EndLevel
<1> QED BY <1>4, <1>5, <1>6, <1>7, <1>10

\* At the end of the path of a key there is nothing, or the leaf of the one
\* entry under it, which is that of the key exactly when it has one.
LEMMA EndCases ==
    ASSUME NEW e, Stored(e), NEW key \in TreeKeys
    PROVE  LET lvl == EndLevel(key)
               end == Walk(key)[lvl]
               u   == Under(e, key, lvl)
           IN  \/ DOMAIN u = {} /\ end = Zero /\ Absent(end) /\ key \notin DOMAIN e
               \/ \E k \in TreeKeys :
                     /\ DOMAIN u = {k}
                     /\ k \in DOMAIN e
                     /\ SamePath(k, key, lvl)
                     /\ u[k] = e[k]
                     /\ end = Leaf(k, e[k]) /\ ~Absent(end) /\ ~Inner(end)
                     /\ key \in DOMAIN e <=> k = key
<1> DEFINE lvl == EndLevel(key)
           end == Walk(key)[lvl]
           u   == Under(e, key, lvl)
<1>1. /\ lvl \in 0..D - 1 /\ lvl \in 0..D
      /\ \A i \in 0..lvl - 1 : Two(Under(e, key, i))
      /\ ~Two(u)
  BY EndOfPath, TreeAssumption
<1>2. u \in EntriesType /\ e \in EntriesType
  BY PartsAreEntries DEF Stored
<1>3. end = TreeAt(lvl, u).root /\ TreeAt(lvl, u).nodes \subseteq treeDb
  <2> HIDE DEF lvl
  <2> QED BY <1>1, WalkCanonical
<1>4. /\ DOMAIN u = {k \in DOMAIN e : SamePath(k, key, lvl)}
      /\ \A k \in DOMAIN u : u[k] = e[k]
  <2> HIDE DEF lvl
  <2> QED BY <1>2, UnderDomain
<1>5. SamePath(key, key, lvl)
  BY DEF SamePath
<1> HIDE DEF u, end, lvl
<1>6. CASE DOMAIN u = {}
  <2>1. end = Zero
    BY <1>1, <1>2, <1>3, <1>6, TreeOfNone DEF NoTree
  <2>2. key \notin DOMAIN e
    BY <1>4, <1>5, <1>6
  <2>3. Absent(end)
    BY <2>1 DEF Absent, Stored
  <2> QED BY <1>6, <2>1, <2>2, <2>3 DEF u, end, lvl
<1>7. ASSUME NEW k \in TreeKeys, DOMAIN u = {k}
      PROVE  /\ k \in DOMAIN e
             /\ SamePath(k, key, lvl)
             /\ u[k] = e[k]
             /\ end = Leaf(k, e[k]) /\ ~Absent(end) /\ ~Inner(end)
             /\ key \in DOMAIN e <=> k = key
  <2>1. k \in DOMAIN e /\ SamePath(k, key, lvl) /\ u[k] = e[k]
    BY <1>4, <1>7
  <2>2. TreeAt(lvl, u) = [root |-> Leaf(k, u[k]), nodes |-> {Leaf(k, u[k])}]
    BY <1>1, <1>2, <1>7, TreeOfOne
  <2>3. end = Leaf(k, e[k]) /\ ~Absent(end)
    BY <1>3, <2>1, <2>2 DEF Absent
  <2>4. ~Inner(end)
    BY <2>3, NodeKinds DEF Inner
  <2>5. key \in DOMAIN e <=> k = key
    BY <1>4, <1>5, <1>7, <2>1
  <2> QED BY <2>1, <2>3, <2>4, <2>5
<1>8. CASE \E k \in TreeKeys : DOMAIN u = {k}
  BY <1>7, <1>8 DEF u, end, lvl
<1> QED BY <1>1, <1>2, <1>6, <1>8, NoneOneOrTwo

\* The path of a key that has an entry ends at its leaf.
LEMMA EndOfPresent ==
    ASSUME NEW e, Stored(e), NEW key \in DOMAIN e
    PROVE  /\ key \in TreeKeys
           /\ DOMAIN Under(e, key, EndLevel(key)) = {key}
           /\ Walk(key)[EndLevel(key)] = Leaf(key, e[key])
           /\ ~Absent(Leaf(key, e[key]))
<1>1. key \in TreeKeys
  BY EntriesShape DEF Stored
<1> QED BY <1>1, EndCases

\* The path of any other key ends at nothing or at the leaf of another.
LEMMA EndOfMissing ==
    ASSUME NEW e, Stored(e), NEW key \in TreeKeys, key \notin DOMAIN e
    PROVE  \/ /\ DOMAIN Under(e, key, EndLevel(key)) = {}
              /\ Walk(key)[EndLevel(key)] = Zero
              /\ Absent(Zero)
           \/ \E k \in TreeKeys \ {key} :
                 /\ DOMAIN Under(e, key, EndLevel(key)) = {k}
                 /\ k \in DOMAIN e
                 /\ SamePath(k, key, EndLevel(key))
                 /\ Walk(key)[EndLevel(key)] = Leaf(k, e[k])
                 /\ ~Absent(Leaf(k, e[k]))
<1> DEFINE L == EndLevel(key)
           end == Walk(key)[L]
           u == Under(e, key, L)
<1>1. \/ DOMAIN u = {} /\ end = Zero /\ Absent(end) /\ key \notin DOMAIN e
      \/ \E k \in TreeKeys :
            /\ DOMAIN u = {k}
            /\ k \in DOMAIN e
            /\ SamePath(k, key, L)
            /\ u[k] = e[k]
            /\ end = Leaf(k, e[k]) /\ ~Absent(end) /\ ~Inner(end)
            /\ key \in DOMAIN e <=> k = key
  BY EndCases
<1> HIDE DEF u, end, L
<1>2. \/ DOMAIN u = {} /\ end = Zero /\ Absent(Zero)
      \/ \E k \in TreeKeys \ {key} :
            /\ DOMAIN u = {k}
            /\ k \in DOMAIN e
            /\ SamePath(k, key, L)
            /\ end = Leaf(k, e[k]) /\ ~Absent(Leaf(k, e[k]))
  BY <1>1
<1> QED BY <1>2 DEF u, end, L

\* The siblings on the path are the trees of the entries that leave it.
LEMMA SiblingsCanonical ==
    ASSUME NEW e, Stored(e), NEW key \in TreeKeys
    PROVE  /\ \A i \in 0..EndLevel(key) - 1 :
                /\ Siblings(key)[i] = TreeAt(i + 1, Beside(Under(e, key, i), key, i)).root
                /\ TreeAt(i + 1, Beside(Under(e, key, i), key, i)).nodes \subseteq treeDb
           /\ \A i \in EndLevel(key)..D - 1 : Siblings(key)[i] = Zero
<1>0. D \in Nat /\ e \in EntriesType
  BY TreeAssumption DEF Stored
<1>1. /\ EndLevel(key) \in 0..D - 1
      /\ \A i \in 0..EndLevel(key) - 1 : Two(Under(e, key, i))
  BY EndOfPath
<1>2. ASSUME NEW i \in 0..EndLevel(key) - 1
      PROVE  /\ Siblings(key)[i] = TreeAt(i + 1, Beside(Under(e, key, i), key, i)).root
             /\ TreeAt(i + 1, Beside(Under(e, key, i), key, i)).nodes \subseteq treeDb
  <2>1. /\ i \in 0..D /\ i \in 0..D - 1 /\ i < EndLevel(key)
        /\ \A j \in 0..i - 1 : j \in 0..EndLevel(key) - 1
    BY <1>0, <1>1
  <2>2. /\ Walk(key)[i] = TreeAt(i, Under(e, key, i)).root
        /\ TreeAt(i, Under(e, key, i)).nodes \subseteq treeDb
    BY <1>1, <2>1, WalkCanonical
  <2>3. Siblings(key)[i] = Sibling(Walk(key)[i], key, i)
    BY <2>1 DEF Siblings
  <2>4. Under(e, key, i) \in EntriesType /\ Two(Under(e, key, i))
    BY <1>0, <1>1, PartsAreEntries
  <2> QED BY <2>1, <2>2, <2>3, <2>4, TreeOfSides
<1>3. ASSUME NEW i \in EndLevel(key)..D - 1 PROVE Siblings(key)[i] = Zero
  <2>1. i \in 0..D - 1 /\ ~(i < EndLevel(key))
    BY <1>0, <1>1
  <2> QED BY <2>1 DEF Siblings
<1> QED BY <1>2, <1>3

-----------------------------------------------------------------------------
(* Adding and updating *)

\* What one call of add_leaf returns on each kind of node.
LEMMA AddStepCases ==
    ASSUME NEW new, NEW cur, NEW lvl, NEW next
    PROVE  /\ Absent(cur) => AddStep(new, cur, lvl, next) = Over({}, new)
           /\ Inner(cur) => AddStep(new, cur, lvl, next) =
                 IF next = Failed THEN Failed
                 ELSE Over(next.puts,
                           Above(new.k, lvl, next.root, Sibling(cur, new.k, lvl)))
           /\ ~Absent(cur) /\ ~Inner(cur) => AddStep(new, cur, lvl, next) =
                 IF cur.k = new.k THEN Failed ELSE PushLeaf(new, cur)[lvl]
<1>1. Inner(cur) => ~Absent(cur)
  BY DEF Inner
<1> QED BY <1>1 DEF AddStep

\* Nodes over others are middle nodes.
LEMMA AboveIsMiddle ==
    ASSUME NEW key, NEW lvl, NEW n, NEW s
    PROVE  Above(key, lvl, n, s).type = "middle" /\ Above(key, lvl, n, s) # Zero
<1>1. CASE Bit(key, lvl)
  BY <1>1, NodeKinds, NodesDiffer DEF Above
<1>2. CASE ~Bit(key, lvl)
  BY <1>2, NodeKinds, NodesDiffer DEF Above
<1> QED BY <1>1, <1>2

\* Two keys part below the last two levels.
LEMMA KeysPart ==
    ASSUME NEW a \in TreeKeys, NEW b \in TreeKeys, a # b,
           NEW lvl \in 0..D, SamePath(a, b, lvl)
    PROVE  lvl \in 0..D - 2
<1>1. D \in Nat
  BY TreeAssumption
<1>2. PICK i \in 0..D - 2 : ~(Bit(a, i) <=> Bit(b, i))
  BY TreeAssumption
<1>3. ~(i \in 0..lvl - 1)
  BY <1>2 DEF SamePath
<1> QED BY <1>1, <1>2, <1>3

\* push_leaf makes the tree of the two leaves.
LEMMA PushCanonical ==
    ASSUME NEW e \in EntriesType, NEW a \in TreeKeys, NEW b \in TreeKeys, a # b,
           DOMAIN e = {a, b}, NEW lvl \in 0..D, SamePath(a, b, lvl)
    PROVE  LET pushed == PushLeaf(Leaf(a, e[a]), Leaf(b, e[b]))[lvl]
           IN  /\ pushed.root = TreeAt(lvl, e).root
               /\ TreeAt(lvl, e).nodes \subseteq pushed.puts \union {Leaf(b, e[b])}
               /\ Zero \notin pushed.puts
<1>0. D \in Nat
  BY TreeAssumption
<1> DEFINE new == Leaf(a, e[a])
           old == Leaf(b, e[b])
           push == PushLeaf(new, old)
           Good(n) == /\ push[n].root = TreeAt(n, e).root
                      /\ TreeAt(n, e).nodes \subseteq push[n].puts \union {old}
                      /\ Zero \notin push[n].puts
           T == {n \in Nat : n <= D /\ SamePath(a, b, D - n) => Good(D - n)}
<1>1. new.k = a /\ old.k = b /\ new # Zero /\ old # Zero
  BY NodeKinds, NodesDiffer
<1>2. push = [l \in 0..D |-> IF l = D THEN Failed ELSE PushStep(new, old, l, push[l + 1])]
  BY PushUnfold
<1>3. Two(e)
  BY DEF Two
<1> HIDE DEF Good, new, old, push
<1>4. 0 \in T
  <2>1. D - 0 \in 0..D /\ ~(D - 0 \in 0..D - 2)
    BY <1>0
  <2>2. ~SamePath(a, b, D - 0)
    BY <2>1, KeysPart
  <2> QED BY <2>2
<1>5. ASSUME NEW n \in T PROVE n + 1 \in T
  <2> DEFINE l == D - (n + 1)
  <2>1. SUFFICES ASSUME n + 1 <= D, SamePath(a, b, l) PROVE Good(l)
    OBVIOUS
  <2>2. n \in Nat /\ l \in 0..D /\ l + 1 = D - n /\ n <= D
    BY <1>0, <2>1
  <2>3. SamePath(a, b, l + 1) => Good(l + 1)
    BY <2>2
  <2> HIDE DEF l
  <2>4. l \in 0..D - 2 /\ l \in 0..D - 1 /\ l \in 0..D /\ l # D /\ l + 1 \in 0..D
    BY <1>0, <2>1, <2>2, KeysPart
  <2>5. push[l] = PushStep(new, old, l, push[l + 1])
    BY <1>2, <2>4
  <2> DEFINE t == Toward(e, a, l)
             b1 == Beside(e, a, l)
  <2>6. t \in EntriesType /\ b1 \in EntriesType
    BY PartsAreEntries
  <2>7. /\ DOMAIN t = {k \in DOMAIN e : Bit(k, l) <=> Bit(a, l)}
        /\ DOMAIN b1 = {k \in DOMAIN e : ~(Bit(k, l) <=> Bit(a, l))}
        /\ \A k \in DOMAIN t : t[k] = e[k]
        /\ \A k \in DOMAIN b1 : b1[k] = e[k]
    BY SideDomains
  <2>8. /\ TreeAt(l, e).root = Above(a, l, TreeAt(l + 1, t).root, TreeAt(l + 1, b1).root)
        /\ TreeAt(l, e).nodes = {TreeAt(l, e).root} \union TreeAt(l + 1, t).nodes
                                   \union TreeAt(l + 1, b1).nodes
    BY <1>3, <2>4, TreeOfSides
  <2>9. TreeAt(l, e).root # Zero
    BY <2>8, AboveIsMiddle
  <2> HIDE DEF t, b1
  <2>10. CASE Bit(a, l) <=> Bit(b, l)
    <3>1. SamePath(a, b, l + 1)
      BY <2>1, <2>4, <2>10 DEF SamePath
    <3>2. DOMAIN t = DOMAIN e /\ DOMAIN b1 = {}
      BY <2>7, <2>10
    <3>3. t = e
      <4>1. t = [k \in DOMAIN t |-> t[k]] /\ e = [k \in DOMAIN e |-> e[k]]
        BY <2>6, EntriesShape
      <4> QED BY <2>7, <3>2, <4>1
    <3>4. TreeAt(l + 1, b1).root = Zero /\ TreeAt(l + 1, b1).nodes = {}
      BY <2>4, <2>6, <3>2, TreeOfNone DEF NoTree
    <3>5. push[l] = Over(push[l + 1].puts, Above(a, l, push[l + 1].root, Zero))
      BY <1>1, <2>5, <2>10 DEF PushStep
    <3>6. /\ push[l].root = Above(a, l, push[l + 1].root, Zero)
          /\ push[l].puts = push[l + 1].puts \union {push[l].root}
      BY <3>5 DEF Over
    <3>7. Good(l + 1)
      BY <2>3, <3>1
    <3>8. push[l].root = TreeAt(l, e).root
      BY <2>8, <3>3, <3>4, <3>6, <3>7 DEF Good
    <3> QED BY <2>8, <2>9, <3>3, <3>4, <3>6, <3>7, <3>8 DEF Good
  <2>11. CASE ~(Bit(a, l) <=> Bit(b, l))
    <3>1. DOMAIN t = {a} /\ DOMAIN b1 = {b}
      BY <2>7, <2>11
    <3>2. t[a] = e[a] /\ b1[b] = e[b]
      BY <2>7, <3>1
    <3>3. /\ TreeAt(l + 1, t) = [root |-> new, nodes |-> {new}]
          /\ TreeAt(l + 1, b1) = [root |-> old, nodes |-> {old}]
      <4>1. TreeAt(l + 1, t) = [root |-> Leaf(a, t[a]), nodes |-> {Leaf(a, t[a])}]
        BY <2>4, <2>6, <3>1, TreeOfOne
      <4>2. TreeAt(l + 1, b1) = [root |-> Leaf(b, b1[b]), nodes |-> {Leaf(b, b1[b])}]
        BY <2>4, <2>6, <3>1, TreeOfOne
      <4> QED BY <3>2, <4>1, <4>2 DEF new, old
    <3>4. push[l] = Over({new}, Above(a, l, new, old))
      BY <1>1, <2>5, <2>11 DEF PushStep
    <3>5. push[l].root = Above(a, l, new, old) /\ push[l].puts = {new, push[l].root}
      BY <3>4 DEF Over
    <3> QED BY <1>1, <2>8, <2>9, <3>3, <3>5 DEF Good
  <2> QED BY <2>10, <2>11
<1>6. T = Nat
  <2> HIDE DEF T
  <2>1. T \subseteq Nat
    BY DEF T
  <2> QED BY <1>4, <1>5, <2>1, NatSetInduction
<1>7. D - lvl \in T /\ D - (D - lvl) = lvl /\ D - lvl <= D
  <2>1. D - lvl \in Nat /\ D - (D - lvl) = lvl /\ D - lvl <= D
    BY <1>0
  <2> QED BY <1>6, <2>1
<1> QED BY <1>7 DEF Good, push, new, old

\* add_leaf makes the tree of the entries with the new one, from any level of
\* the path of its key, and fails when the key has an entry.
LEMMA AddLeafCanonical ==
    ASSUME NEW e, Stored(e), NEW key \in TreeKeys, NEW val \in Values,
           NEW lvl \in 0..EndLevel(key)
    PROVE  LET added == AddLeaf(Leaf(key, val))[lvl]
               w == With(Under(e, key, lvl), key, val)
           IN  IF key \in DOMAIN e THEN added = Failed
               ELSE /\ added.root = TreeAt(lvl, w).root
                    /\ TreeAt(lvl, w).nodes \subseteq treeDb \union added.puts
                    /\ Zero \notin added.puts
<1> DEFINE new == Leaf(key, val)
           L == EndLevel(key)
           add == AddLeaf(new)
           W(n) == With(Under(e, key, n), key, val)
           Good(n) == IF key \in DOMAIN e THEN add[n] = Failed
                      ELSE /\ add[n].root = TreeAt(n, W(n)).root
                           /\ TreeAt(n, W(n)).nodes \subseteq treeDb \union add[n].puts
                           /\ Zero \notin add[n].puts
           T == {n \in Nat : n <= L => Good(L - n)}
<1>0. D \in Nat /\ L \in 0..D - 1 /\ L \in 0..D /\ e \in EntriesType
  BY EndOfPath, TreeAssumption DEF Stored
<1>1. new.k = key /\ new # Zero
  BY NodeKinds, NodesDiffer
<1>2. \A n \in 0..D : add[n] = AddStep(new, Walk(key)[n], n,
                                       IF n = D THEN Failed ELSE add[n + 1])
  BY <1>1, AddUnfold
<1>3. ASSUME NEW n PROVE Under(e, key, n) \in EntriesType /\ W(n) \in EntriesType
  BY <1>0, PartsAreEntries
<1> HIDE DEF new, L, add, Good
<1>4. 0 \in T
  <2>1. SUFFICES Good(L)
    BY <1>0
  <2> DEFINE u == Under(e, key, L)
             end == Walk(key)[L]
  <2>2. L # D /\ add[L] = AddStep(new, end, L, add[L + 1])
    BY <1>0, <1>2
  <2>3. /\ DOMAIN W(L) = DOMAIN u \union {key}
        /\ W(L)[key] = val
        /\ \A k \in DOMAIN u : k # key => W(L)[k] = u[k]
    BY DEF With
  <2>4. CASE DOMAIN u = {} /\ end = Zero /\ Absent(end) /\ key \notin DOMAIN e
    <3>1. add[L] = Over({}, new)
      BY <2>2, <2>4, AddStepCases
    <3>2. DOMAIN W(L) = {key}
      BY <2>3, <2>4
    <3>3. TreeAt(L, W(L)) = [root |-> new, nodes |-> {new}]
      <4> HIDE DEF W
      <4> QED BY <1>0, <1>3, <2>3, <3>2, TreeOfOne DEF new
    <3> QED BY <1>1, <2>4, <3>1, <3>3 DEF Good, Over
  <2>5. ASSUME NEW k \in TreeKeys,
               DOMAIN u = {k},
               k \in DOMAIN e,
               SamePath(k, key, L),
               u[k] = e[k],
               end = Leaf(k, e[k]), ~Absent(end), ~Inner(end),
               key \in DOMAIN e <=> k = key
        PROVE  Good(L)
    <3>1. end.k = k
      BY <2>5, NodeKinds
    <3>2. add[L] = IF k = key THEN Failed ELSE PushLeaf(new, end)[L]
      BY <1>1, <2>2, <2>5, <3>1, AddStepCases
    <3>3. CASE k = key
      BY <2>5, <3>2, <3>3 DEF Good
    <3>4. CASE k # key
      <4>1. DOMAIN W(L) = {key, k} /\ W(L)[k] = e[k] /\ SamePath(key, k, L)
        BY <2>3, <2>5, <3>4 DEF SamePath
      <4> DEFINE w == W(L)
      <4>2. w \in EntriesType /\ DOMAIN w = {key, k} /\ w[key] = val /\ w[k] = e[k]
        BY <1>3, <2>3, <4>1
      <4>3. add[L] = PushLeaf(Leaf(key, w[key]), Leaf(k, w[k]))[L]
        BY <2>5, <3>2, <3>4, <4>2 DEF new
      <4> HIDE DEF w, W
      <4>4. /\ add[L].root = TreeAt(L, w).root
            /\ TreeAt(L, w).nodes \subseteq add[L].puts \union {Leaf(k, w[k])}
            /\ Zero \notin add[L].puts
        BY <1>0, <3>4, <4>1, <4>2, <4>3, PushCanonical
      <4>5. Leaf(k, w[k]) \in treeDb
        BY <2>5, <4>2 DEF Absent
      <4> QED BY <2>5, <3>4, <4>4, <4>5 DEF Good, w
    <3> QED BY <3>3, <3>4
  <2> QED BY <2>4, <2>5, EndCases DEF L
<1>5. ASSUME NEW n \in T PROVE n + 1 \in T
  <2> DEFINE l == L - (n + 1)
  <2>1. SUFFICES ASSUME n + 1 <= L PROVE Good(l)
    OBVIOUS
  <2>2. /\ n \in Nat /\ l \in 0..L - 1 /\ l \in 0..D - 1 /\ l \in 0..D /\ l \in Nat
        /\ l + 1 = L - n /\ n <= L /\ l # D /\ l + 1 \in 0..D
    BY <1>0, <2>1
  <2>3. Good(l + 1)
    BY <2>2
  <2> HIDE DEF l
  <2> DEFINE u == Under(e, key, l)
             cur == Walk(key)[l]
  <2>4. add[l] = AddStep(new, cur, l, add[l + 1])
    BY <1>2, <2>2
  <2>5. Inner(cur) /\ Two(u)
    BY <2>2, EndOfPath DEF L
  <2>6. add[l] = IF add[l + 1] = Failed THEN Failed
                 ELSE Over(add[l + 1].puts,
                           Above(key, l, add[l + 1].root, Sibling(cur, key, l)))
    BY <1>1, <2>4, <2>5, AddStepCases
  <2>7. CASE key \in DOMAIN e
    BY <2>3, <2>6, <2>7 DEF Good
  <2>8. CASE key \notin DOMAIN e
    <3> DEFINE w == W(l)
               b == Beside(u, key, l)
    <3>1. /\ cur = TreeAt(l, u).root
          /\ TreeAt(l, u).nodes \subseteq treeDb
      <4>1. \A i \in 0..l - 1 : i \in 0..L - 1
        BY <1>0, <2>2
      <4>2. \A i \in 0..l - 1 : Two(Under(e, key, i))
        BY <4>1, EndOfPath DEF L
      <4> QED BY <2>2, <4>2, WalkCanonical
    <3>2. u \in EntriesType /\ w \in EntriesType
      BY <1>3
    <3>3. /\ Sibling(cur, key, l) = TreeAt(l + 1, b).root
          /\ TreeAt(l + 1, b).nodes \subseteq treeDb
      <4> HIDE DEF u
      <4> QED BY <2>2, <2>5, <3>1, <3>2, TreeOfSides
    <3>4. Two(w)
      BY <2>5 DEF Two, With
    <3>5. Toward(w, key, l) = W(l + 1) /\ Beside(w, key, l) = b
      BY <1>0, <1>3, <2>2, WithSides, UnderSteps
    <3>6. /\ TreeAt(l, w).root =
               Above(key, l, TreeAt(l + 1, W(l + 1)).root, TreeAt(l + 1, b).root)
          /\ TreeAt(l, w).nodes = {TreeAt(l, w).root} \union TreeAt(l + 1, W(l + 1)).nodes
                                     \union TreeAt(l + 1, b).nodes
      <4> HIDE DEF w, b
      <4> QED BY <2>2, <3>2, <3>4, <3>5, TreeOfSides
    <3>7. TreeAt(l + 1, W(l + 1)).root # Zero
      <4>1. key \in DOMAIN W(l + 1) /\ W(l + 1) \in EntriesType
        BY <1>3 DEF With
      <4>2. l + 1 < D
        BY <1>0, <2>2
      <4> HIDE DEF W
      <4> QED BY <2>2, <4>1, <4>2, TreeRoot
    <3> HIDE DEF w, b, u, cur, W
    <3>8. add[l + 1] # Failed
      BY <2>3, <2>8, <3>7 DEF Good, Failed
    <3>9. /\ add[l].root = Above(key, l, add[l + 1].root, Sibling(cur, key, l))
          /\ add[l].puts = add[l + 1].puts \union {add[l].root}
      BY <2>6, <3>8 DEF Over
    <3>10. add[l].root = TreeAt(l, w).root /\ add[l].root # Zero
      BY <2>3, <2>8, <3>3, <3>6, <3>9, AboveIsMiddle DEF Good
    <3> QED BY <2>3, <2>8, <3>3, <3>6, <3>9, <3>10 DEF Good, w
  <2> QED BY <2>7, <2>8
<1>6. T = Nat
  <2> HIDE DEF T
  <2>1. T \subseteq Nat
    BY DEF T
  <2> QED BY <1>4, <1>5, <2>1, NatSetInduction
<1>7. L - lvl \in T /\ L - (L - lvl) = lvl /\ L - lvl <= L
  BY <1>0, <1>6 DEF L
<1> QED BY <1>7 DEF Good, add, new

\* The entries under a path with a new one of that path.
LEMMA WithUnder ==
    ASSUME NEW e \in EntriesType, NEW key \in TreeKeys, NEW val \in Values, NEW lvl
    PROVE  Under(With(e, key, val), key, lvl) = With(Under(e, key, lvl), key, val)
<1> DEFINE w == With(e, key, val)
           u == Under(e, key, lvl)
<1>1. SamePath(key, key, lvl)
  BY DEF SamePath
<1>2. /\ DOMAIN w = DOMAIN e \union {key}
      /\ \A k \in DOMAIN w : w[k] = IF k = key THEN val ELSE e[k]
  BY DEF With
<1>3. DOMAIN u = {k \in DOMAIN e : SamePath(k, key, lvl)} /\ \A k \in DOMAIN u : u[k] = e[k]
  BY UnderDomain
<1>4. {k \in DOMAIN w : SamePath(k, key, lvl)} = DOMAIN u \union {key}
  BY <1>1, <1>2, <1>3
<1>5. With(u, key, val) = [k \in DOMAIN u \union {key} |-> IF k = key THEN val ELSE u[k]]
  BY DEF With
<1>6. Under(w, key, lvl) = [k \in DOMAIN u \union {key} |-> w[k]]
  BY <1>4 DEF Under
<1> HIDE DEF w, u
<1>7. \A k \in DOMAIN u \union {key} : w[k] = IF k = key THEN val ELSE u[k]
  BY <1>2, <1>3, <1>4
<1>8. Under(w, key, lvl) = With(u, key, val)
  BY <1>5, <1>6, <1>7
<1> QED BY <1>8 DEF w, u

\* The nodes written anew, one by one.
LEMMA RebuiltSteps ==
    ASSUME NEW leaf, NEW key, NEW siblings, NEW top \in Nat
    PROVE  LET up == Rebuilt(leaf, key, siblings, top)
           IN  /\ up[0] = leaf
               /\ \A j \in 1..top : up[j] = Above(key, top - j, up[j - 1], siblings[top - j])
<1> DEFINE up == Rebuilt(leaf, key, siblings, top)
<1>1. up = [i \in 0..top |-> IF i = 0 THEN leaf
                             ELSE Above(key, top - i, up[i - 1], siblings[top - i])]
  BY RebuiltUnfold
<1> HIDE DEF up
<1>2. up[0] = leaf
  BY <1>1
<1>3. \A j \in 1..top : up[j] = Above(key, top - j, up[j - 1], siblings[top - j])
  BY <1>1
<1> QED BY <1>2, <1>3 DEF up

\* Above a level of the path of a key there are several entries at every
\* level, and the siblings are the stored trees of those that leave the path.
PathHolds(e, key, top, siblings, nodes) ==
    \A i \in 0..top - 1 :
        LET b == Beside(Under(e, key, i), key, i)
        IN  /\ Two(Under(e, key, i))
            /\ siblings[i] = TreeAt(i + 1, b).root
            /\ TreeAt(i + 1, b).nodes \subseteq nodes

\* Over the tree of the entries under a path, the nodes written anew over it
\* are the trees of the entries at the levels above.
LEMMA RebuiltCanonical ==
    ASSUME NEW e \in EntriesType, NEW key \in TreeKeys, NEW top \in 0..D - 1,
           NEW siblings, NEW nodes, NEW leaf,
           PathHolds(e, key, top, siblings, nodes),
           leaf = TreeAt(top, Under(e, key, top)).root,
           TreeAt(top, Under(e, key, top)).nodes \subseteq nodes \union {leaf}
    PROVE  LET up == Rebuilt(leaf, key, siblings, top)
           IN  /\ up[top] = TreeAt(0, e).root
               /\ TreeAt(0, e).nodes \subseteq nodes \union {up[j] : j \in 0..top}
<1>0. D \in Nat /\ top \in Nat /\ top <= D - 1
  BY TreeAssumption
<1> DEFINE up == Rebuilt(leaf, key, siblings, top)
           At(n) == TreeAt(n, Under(e, key, n))
           Good(n) == /\ up[n] = At(top - n).root
                      /\ At(top - n).nodes \subseteq nodes \union {up[j] : j \in 0..n}
           T == {n \in Nat : n <= top => Good(n)}
<1>1. /\ up[0] = leaf
      /\ \A j \in 1..top : up[j] = Above(key, top - j, up[j - 1], siblings[top - j])
  BY <1>0, RebuiltSteps
<1> HIDE DEF up, Good
<1>2. 0 \in T
  <2>1. up[0] = leaf /\ top - 0 = top
    BY <1>0, <1>1
  <2>2. up[0] \in {up[j] : j \in 0..0}
    OBVIOUS
  <2> QED BY <2>1, <2>2 DEF Good
<1>3. ASSUME NEW n \in T PROVE n + 1 \in T
  <2> DEFINE l == top - (n + 1)
  <2>1. SUFFICES ASSUME n + 1 <= top PROVE Good(n + 1)
    OBVIOUS
  <2>2. /\ n \in Nat /\ n <= top /\ l \in 0..top - 1 /\ l \in 0..D - 1 /\ l \in Nat
        /\ l + 1 = top - n
        /\ n + 1 \in 1..top /\ n + 1 \in 0..top /\ (n + 1) - 1 = n
    BY <1>0, <2>1
  <2>3. up[n] = At(l + 1).root /\ At(l + 1).nodes \subseteq nodes \union {up[j] : j \in 0..n}
    BY <2>2 DEF Good
  <2>4. up[n + 1] = Above(key, l, up[n], siblings[l])
    BY <1>1, <2>2
  <2> HIDE DEF l
  <2> DEFINE u == Under(e, key, l)
             b == Beside(u, key, l)
  <2>5. /\ Two(u)
        /\ siblings[l] = TreeAt(l + 1, b).root
        /\ TreeAt(l + 1, b).nodes \subseteq nodes
    BY <2>2 DEF PathHolds
  <2>6. u \in EntriesType
    BY PartsAreEntries
  <2>7. Toward(u, key, l) = Under(e, key, l + 1)
    BY <2>2, UnderSteps
  <2>8. /\ At(l).root = Above(key, l, At(l + 1).root, TreeAt(l + 1, b).root)
        /\ At(l).nodes = {At(l).root} \union At(l + 1).nodes \union TreeAt(l + 1, b).nodes
    <3> HIDE DEF b, u
    <3>1. /\ TreeAt(l, u).root = Above(key, l, TreeAt(l + 1, Toward(u, key, l)).root,
                                       TreeAt(l + 1, b).root)
          /\ TreeAt(l, u).nodes = {TreeAt(l, u).root}
                                    \union TreeAt(l + 1, Toward(u, key, l)).nodes
                                    \union TreeAt(l + 1, b).nodes
      BY <2>2, <2>5, <2>6, TreeOfSides DEF b
    <3> QED BY <2>7, <3>1 DEF u
  <2> HIDE DEF b, u, At
  <2>9. up[n + 1] = At(l).root
    BY <2>3, <2>4, <2>5, <2>8
  <2>10. {up[j] : j \in 0..n} \union {up[n + 1]} \subseteq {up[j] : j \in 0..n + 1}
    BY <2>2
  <2>11. At(l).nodes \subseteq nodes \union {up[j] : j \in 0..n + 1}
    BY <2>3, <2>5, <2>8, <2>9, <2>10
  <2> QED BY <2>9, <2>11 DEF Good, l
<1>4. T = Nat
  <2> HIDE DEF T
  <2>1. T \subseteq Nat
    BY DEF T
  <2> QED BY <1>2, <1>3, <2>1, NatSetInduction
<1>5. Good(top)
  BY <1>0, <1>4
<1>6. At(top - top) = TreeAt(0, e)
  BY <1>0, UnderSteps
<1> QED BY <1>5, <1>6 DEF Good, up

\* No node written over a node is the empty one.
LEMMA RebuiltNotZero ==
    ASSUME NEW leaf, leaf # Zero, NEW key, NEW siblings, NEW top \in Nat
    PROVE  \A j \in 0..top : Rebuilt(leaf, key, siblings, top)[j] # Zero
<1> SUFFICES ASSUME NEW j \in 0..top PROVE Rebuilt(leaf, key, siblings, top)[j] # Zero
  OBVIOUS
<1>1. CASE j = 0
  BY <1>1, RebuiltUnfold
<1>2. CASE j # 0
  <2>1. Rebuilt(leaf, key, siblings, top)[j] =
          Above(key, top - j, Rebuilt(leaf, key, siblings, top)[j - 1], siblings[top - j])
    BY <1>2, RebuiltUnfold
  <2> QED BY <2>1, AboveIsMiddle
<1> QED BY <1>1, <1>2

\* The siblings of a path stay those of the entries with one of that path.
LEMMA SiblingsWith ==
    ASSUME NEW e, Stored(e), NEW key \in TreeKeys, NEW val \in Values
    PROVE  PathHolds(With(e, key, val), key, EndLevel(key), Siblings(key), treeDb)
<1> DEFINE w == With(e, key, val)
<1>1. e \in EntriesType
  BY DEF Stored
<1>2. ASSUME NEW i \in 0..EndLevel(key) - 1
      PROVE  LET b == Beside(Under(w, key, i), key, i)
             IN  /\ Two(Under(w, key, i))
                 /\ Siblings(key)[i] = TreeAt(i + 1, b).root
                 /\ TreeAt(i + 1, b).nodes \subseteq treeDb
  <2> DEFINE u == Under(e, key, i)
  <2>1. u \in EntriesType
    BY <1>1, PartsAreEntries
  <2>2. Under(w, key, i) = With(u, key, val)
    BY <1>1, WithUnder
  <2>3. Beside(With(u, key, val), key, i) = Beside(u, key, i)
    <3> HIDE DEF u
    <3> QED BY <2>1, WithSides
  <2>4. Two(u)
    BY EndOfPath
  <2>5. Two(With(u, key, val))
    <3> HIDE DEF u
    <3> QED BY <2>4 DEF Two, With
  <2> QED BY <2>2, <2>3, <2>5, SiblingsCanonical
<1> QED BY <1>2 DEF PathHolds

\* The level that the circuit finds from the siblings of a proof is the end of
\* the path, above the last level.
LEMMA LevInsIsEnd ==
    ASSUME NEW e, Stored(e), NEW key \in TreeKeys
    PROVE  /\ LevIns(Siblings(key)) = EndLevel(key)
           /\ Siblings(key)[D - 1] = Zero
<1> DEFINE L == EndLevel(key)
           used == {i \in 0..D - 1 : Siblings(key)[i] # Zero}
<1>0. D \in Nat /\ D >= 1 /\ e \in EntriesType
  BY TreeAssumption DEF Stored
<1>1. /\ L \in 0..D - 1
      /\ \A i \in 0..L - 1 : Two(Under(e, key, i))
      /\ ~Two(Under(e, key, L))
  BY EndOfPath
<1>2. \A i \in L..D - 1 : Siblings(key)[i] = Zero
  BY SiblingsCanonical
<1>3. used \subseteq 0..L - 1
  BY <1>0, <1>1, <1>2
<1>4. Siblings(key)[D - 1] = Zero
  BY <1>0, <1>1, <1>2
<1>5. LevIns(Siblings(key)) = IF used = {} THEN 0
                              ELSE 1 + CHOOSE i \in used : \A j \in used : j <= i
  BY DEF LevIns
<1>6. CASE L = 0
  BY <1>3, <1>4, <1>5, <1>6
<1>7. CASE L # 0
  <2> DEFINE l == L - 1
             u == Under(e, key, l)
  <2>1. l \in 0..L - 1 /\ l \in Nat /\ l + 1 = L /\ l \in 0..D - 1 /\ L \in 0..D /\ L < D
    BY <1>0, <1>1, <1>7
  <2>2. u \in EntriesType /\ Two(u)
    BY <1>0, <1>1, <2>1, PartsAreEntries
  <2>3. Toward(u, key, l) = Under(e, key, L)
    BY <1>0, <2>1, UnderSteps
  <2> HIDE DEF u, L
  <2>4. /\ DOMAIN Toward(u, key, l) = {k \in DOMAIN u : Bit(k, l) <=> Bit(key, l)}
        /\ DOMAIN Beside(u, key, l) = {k \in DOMAIN u : ~(Bit(k, l) <=> Bit(key, l))}
    BY <2>2, SideDomains
  <2>5. ~Two(Toward(u, key, l))
    BY <1>1, <2>3
  <2>6. DOMAIN Beside(u, key, l) # {}
    BY <2>2, <2>4, <2>5 DEF Two
  <2>7. Beside(u, key, l) \in EntriesType
    BY <2>2, PartsAreEntries
  <2>8. TreeAt(L, Beside(u, key, l)).root # Zero
    BY <2>1, <2>6, <2>7, TreeRoot
  <2>9. Siblings(key)[l] = TreeAt(L, Beside(u, key, l)).root
    <3>1. Siblings(key)[l] = TreeAt(l + 1, Beside(Under(e, key, l), key, l)).root
      BY <2>1, SiblingsCanonical DEF L
    <3> QED BY <2>1, <3>1 DEF u
  <2>10. l \in used
    BY <2>1, <2>8, <2>9
  <2> HIDE DEF used, l
  <2>11. \A j \in used : j <= l
    BY <1>1, <1>3, <2>1
  <2>12. \A i \in used : (\A j \in used : j <= i) => i = l
    <3> SUFFICES ASSUME NEW i \in used, \A j \in used : j <= i PROVE i = l
      OBVIOUS
    <3>1. i <= l /\ l <= i /\ i \in Int /\ l \in Int
      BY <1>1, <1>3, <2>1, <2>10, <2>11
    <3> QED BY <3>1
  <2>13. (CHOOSE i \in used : \A j \in used : j <= i) = l
    BY <2>10, <2>11, <2>12
  <2>14. used # {}
    BY <2>10
  <2>15. LevIns(Siblings(key)) = 1 + l
    BY <1>5, <2>13, <2>14
  <2>16. 1 + l = L
    BY <2>1
  <2> QED BY <1>4, <2>15, <2>16 DEF L
<1> QED BY <1>6, <1>7

\* add makes the tree of the entries with the new one, with all its nodes,
\* and fails when the key has an entry.
LEMMA AddedCanonical ==
    ASSUME NEW e, Stored(e), NEW key \in TreeKeys, NEW val \in Values
    PROVE  LET added == Added(key, val)
               w == With(e, key, val)
           IN  IF key \in DOMAIN e THEN added = Failed
               ELSE /\ added # Failed
                    /\ added.root = TreeAt(0, w).root
                    /\ TreeAt(0, w).nodes \subseteq treeDb \union added.puts
                    /\ Zero \notin added.puts
<1>0. D \in Nat /\ 0 < D /\ 0 \in 0..D /\ e \in EntriesType
  BY TreeAssumption DEF Stored
<1>1. 0 \in 0..EndLevel(key) /\ Under(e, key, 0) = e
  BY <1>0, EndOfPath, UnderSteps
<1> DEFINE w == With(e, key, val)
           added == Added(key, val)
<1>2. IF key \in DOMAIN e THEN added = Failed
      ELSE /\ added.root = TreeAt(0, w).root
           /\ TreeAt(0, w).nodes \subseteq treeDb \union added.puts
           /\ Zero \notin added.puts
  <2>1. added = AddLeaf(Leaf(key, val))[0] /\ w = With(Under(e, key, 0), key, val)
    BY <1>1 DEF Added
  <2> HIDE DEF added, w
  <2> QED BY <1>1, <2>1, AddLeafCanonical
<1>3. w \in EntriesType /\ DOMAIN w # {}
  <2>1. DOMAIN w # {}
    BY DEF With
  <2> QED BY <1>0, <2>1, PartsAreEntries
<1> HIDE DEF w, added
<1>4. TreeAt(0, w).root # Zero
  BY <1>0, <1>3, TreeRoot
<1>5. key \notin DOMAIN e => added # Failed
  BY <1>2, <1>4 DEF Failed
<1> QED BY <1>2, <1>5 DEF w, added

\* Over the end of its path the siblings of a key lead back to the root.
LEMMA EndFoldsToRoot ==
    ASSUME NEW e, Stored(e), NEW key \in TreeKeys
    PROVE  LET lvl == EndLevel(key)
           IN  cachedRoot = Fold(Walk(key)[lvl], key, Siblings(key), lvl)
<1> DEFINE L == EndLevel(key)
           end == Walk(key)[L]
<1>0. e \in EntriesType
  BY DEF Stored
<1>1. L \in 0..D - 1 /\ L \in 0..D /\ \A i \in 0..L - 1 : Two(Under(e, key, i))
  BY EndOfPath, TreeAssumption
<1>2. /\ end = TreeAt(L, Under(e, key, L)).root
      /\ TreeAt(L, Under(e, key, L)).nodes \subseteq treeDb
  <2> HIDE DEF L
  <2> QED BY <1>1, WalkCanonical
<1>3. PathHolds(e, key, L, Siblings(key), treeDb)
  BY <1>1, SiblingsCanonical DEF PathHolds
<1> HIDE DEF L, end
<1>4. Rebuilt(end, key, Siblings(key), L)[L] = TreeAt(0, e).root
  <2>1. TreeAt(L, Under(e, key, L)).nodes \subseteq treeDb \union {end}
    BY <1>2
  <2> QED BY <1>0, <1>1, <1>2, <1>3, <2>1, RebuiltCanonical
<1> QED BY <1>4 DEF Fold, Stored, L, end

\* A leaf of the key at the end of its path, over the siblings of the key, is
\* in the tree of the entries with it.
LEMMA LeafAtEnd ==
    ASSUME NEW e, Stored(e), NEW key \in TreeKeys, NEW val \in Values,
           DOMAIN Under(e, key, EndLevel(key)) \subseteq {key}
    PROVE  LET lvl == EndLevel(key)
               up == Rebuilt(Leaf(key, val), key, Siblings(key), lvl)
               w == With(e, key, val)
           IN  /\ up[lvl] = TreeAt(0, w).root
               /\ TreeAt(0, w).nodes \subseteq treeDb \union {up[j] : j \in 0..lvl}
               /\ \A j \in 0..lvl : up[j] # Zero
<1> DEFINE L == EndLevel(key)
           w == With(e, key, val)
           u == Under(w, key, L)
           new == Leaf(key, val)
<1>0. e \in EntriesType /\ w \in EntriesType /\ u \in EntriesType
  BY PartsAreEntries DEF Stored
<1>1. L \in 0..D - 1 /\ L \in 0..D /\ L \in Nat
  BY EndOfPath, TreeAssumption
<1>2. u = With(Under(e, key, L), key, val)
  BY <1>0, WithUnder
<1>3. DOMAIN u = {key} /\ u[key] = val
  <2> HIDE DEF u
  <2> QED BY <1>2 DEF With
<1>4. PathHolds(w, key, L, Siblings(key), treeDb)
  BY SiblingsWith
<1>5. TreeAt(L, u) = [root |-> new, nodes |-> {new}]
  <2> HIDE DEF u, L
  <2> QED BY <1>0, <1>1, <1>3, TreeOfOne
<1>6. new = TreeAt(L, u).root /\ TreeAt(L, u).nodes \subseteq treeDb \union {new}
  BY <1>5
<1>7. \A j \in 0..L : Rebuilt(new, key, Siblings(key), L)[j] # Zero
  BY <1>1, NodesDiffer, RebuiltNotZero
<1> HIDE DEF L, w, new
<1>8. LET up == Rebuilt(new, key, Siblings(key), L)
      IN  /\ up[L] = TreeAt(0, w).root
          /\ TreeAt(0, w).nodes \subseteq treeDb \union {up[j] : j \in 0..L}
  BY <1>0, <1>1, <1>4, <1>6, RebuiltCanonical
<1> QED BY <1>7, <1>8 DEF L, w, new

\* update makes the tree of the entries with the value changed, with all its
\* nodes, and fails when the key has no entry.
LEMMA UpdatedCanonical ==
    ASSUME NEW e, Stored(e), NEW key \in TreeKeys, NEW val \in Values
    PROVE  LET updated == Updated(key, val)
               w == With(e, key, val)
           IN  IF key \notin DOMAIN e THEN updated = Failed
               ELSE /\ updated # Failed
                    /\ updated.root = TreeAt(0, w).root
                    /\ updated.root =
                         Rebuilt(Leaf(key, val), key, Siblings(key), EndLevel(key))[EndLevel(key)]
                    /\ TreeAt(0, w).nodes \subseteq treeDb \union updated.puts
                    /\ Zero \notin updated.puts
<1> DEFINE L == EndLevel(key)
           end == Walk(key)[L]
           w == With(e, key, val)
           up == Rebuilt(Leaf(key, val), key, Siblings(key), L)
           updated == Updated(key, val)
<1>1. L \in 0..D - 1 /\ L < D /\ L \in 0..L
  BY EndOfPath, TreeAssumption
<1>2. updated = IF L < D /\ ~Absent(end) /\ end.k = key
                THEN [root |-> up[L], puts |-> {up[j] : j \in 0..L}]
                ELSE Failed
  BY DEF Updated
<1>3. CASE key \notin DOMAIN e
  <2>1. Absent(end) \/ end.k # key
    <3>1. Absent(end) \/ \E k \in TreeKeys \ {key} : end = Leaf(k, e[k])
      <4>1. \/ end = Zero /\ Absent(Zero)
            \/ \E k \in TreeKeys \ {key} : end = Leaf(k, e[k])
        BY <1>3, EndOfMissing
      <4> QED BY <4>1
    <3> HIDE DEF end
    <3> QED BY <3>1, NodeKinds
  <2> HIDE DEF end, L, up, updated
  <2> QED BY <1>2, <1>3, <2>1 DEF updated
<1>4. CASE key \in DOMAIN e
  <2>1. ~Absent(end) /\ end.k = key /\ DOMAIN Under(e, key, L) = {key}
    <3>1. DOMAIN Under(e, key, L) = {key} /\ end = Leaf(key, e[key]) /\ ~Absent(end)
      BY <1>4, EndOfPresent
    <3> HIDE DEF end
    <3> QED BY <3>1, NodeKinds
  <2>2. /\ up[L] = TreeAt(0, w).root
        /\ TreeAt(0, w).nodes \subseteq treeDb \union {up[j] : j \in 0..L}
        /\ \A j \in 0..L : up[j] # Zero
    BY <2>1, LeafAtEnd
  <2> HIDE DEF end, L, up, updated, w
  <2>3. updated = [root |-> up[L], puts |-> {up[j] : j \in 0..L}]
    BY <1>1, <1>2, <2>1
  <2>4. updated.root = up[L] /\ updated.puts = {up[j] : j \in 0..L}
    BY <2>3
  <2>5. updated # Failed
    BY <1>1, <2>2, <2>4 DEF Failed
  <2>6. Zero \notin updated.puts
    BY <2>2, <2>4
  <2>7. /\ updated.root = TreeAt(0, w).root
        /\ TreeAt(0, w).nodes \subseteq treeDb \union updated.puts
    BY <2>2, <2>4
  <2> QED BY <1>4, <2>4, <2>5, <2>6, <2>7 DEF updated, w, up, L
<1> QED BY <1>3, <1>4

\* The two operations in one: whichever applies.
LEMMA AddedOrUpdatedCanonical ==
    ASSUME NEW e, Stored(e), NEW key \in TreeKeys, NEW val \in Values
    PROVE  LET r == AddedOrUpdated(key, val)
               w == With(e, key, val)
           IN  /\ r # Failed
               /\ r.root = TreeAt(0, w).root
               /\ TreeAt(0, w).nodes \subseteq treeDb \union r.puts
               /\ Zero \notin r.puts
<1>1. CASE key \in DOMAIN e
  <2>1. AddedOrUpdated(key, val) = Updated(key, val)
    BY <1>1, AddedCanonical DEF AddedOrUpdated
  <2> QED BY <1>1, <2>1, UpdatedCanonical
<1>2. CASE key \notin DOMAIN e
  <2>1. AddedOrUpdated(key, val) = Added(key, val)
    BY <1>2, AddedCanonical DEF AddedOrUpdated
  <2> QED BY <1>2, <2>1, AddedCanonical
<1> QED BY <1>1, <1>2

-----------------------------------------------------------------------------
(* Proofs of the tree and the circuit *)

\* An insertion beside another leaf: the circuit goes down to the first bit in
\* which the keys differ, and arrives at the tree with the new entry.
LEMMA InsertedBeside ==
    ASSUME NEW e, Stored(e), NEW key \in TreeKeys, NEW val \in Values,
           key \notin DOMAIN e, NEW k \in TreeKeys, k # key,
           DOMAIN Under(e, key, EndLevel(key)) = {k}, k \in DOMAIN e,
           SamePath(k, key, EndLevel(key)), Leaf(k, e[k]) \in treeDb,
           NEW d \in EndLevel(key)..D - 1,
           ~(Bit(key, d) <=> Bit(k, d)),
           \A j \in EndLevel(key)..d - 1 : Bit(key, j) <=> Bit(k, j)
    PROVE  Fold(Leaf(key, val), key, [Siblings(key) EXCEPT ![d] = Leaf(k, e[k])], d + 1) =
             TreeAt(0, With(e, key, val)).root
<1> DEFINE L == EndLevel(key)
           w == With(e, key, val)
           siblings == [Siblings(key) EXCEPT ![d] = Leaf(k, e[k])]
<1>0. D \in Nat /\ D >= 1 /\ e \in EntriesType /\ w \in EntriesType
  BY PartsAreEntries, TreeAssumption DEF Stored
<1>1. L \in 0..D - 1 /\ d \in L..D - 1
  BY EndOfPath
<1>2. /\ DOMAIN w = DOMAIN e \union {key}
      /\ w[key] = val
      /\ w[k] = e[k]
  BY DEF With
<1>3. SamePath(k, key, d)
  <2>1. \A j \in 0..d - 1 : j \in 0..L - 1 \/ j \in L..d - 1
    BY <1>0, <1>1
  <2> QED BY <2>1 DEF SamePath
<1>4. d \in 0..D - 2 /\ d + 1 \in 0..D - 1 /\ d + 1 \in 0..D
  <2>1. d \in 0..D
    BY <1>0, <1>1
  <2>2. d \in 0..D - 2
    BY <1>3, <2>1, KeysPart
  <2> QED BY <1>0, <2>2
<1>5. DOMAIN Siblings(key) = 0..D - 1
  BY DEF Siblings
<1>6. /\ siblings[d] = Leaf(k, e[k])
      /\ \A i \in 0..D - 1 : i # d => siblings[i] = Siblings(key)[i]
  BY <1>0, <1>1, <1>5
<1> HIDE DEF w, L, siblings
<1>7. ASSUME NEW i \in L..d
      PROVE  DOMAIN Under(w, key, i) = {key, k}
  <2>1. DOMAIN Under(w, key, i) = {j \in DOMAIN w : SamePath(j, key, i)}
    BY <1>0, UnderDomain
  <2>2. DOMAIN Under(e, key, L) = {j \in DOMAIN e : SamePath(j, key, L)}
    BY <1>0, UnderDomain
  <2>3. \A j : SamePath(j, key, i) => SamePath(j, key, L)
    <3>1. \A b \in 0..L - 1 : b \in 0..i - 1
      BY <1>0, <1>1
    <3> QED BY <3>1 DEF SamePath
  <2>4. SamePath(key, key, i) /\ SamePath(k, key, i)
    <3>1. \A b \in 0..i - 1 : b \in 0..d - 1
      BY <1>0, <1>1
    <3> QED BY <1>3, <3>1 DEF SamePath
  <2>5. DOMAIN Under(e, key, L) = {k}
    BY DEF L
  <2> QED BY <1>2, <2>1, <2>2, <2>3, <2>4, <2>5
<1>8. ASSUME NEW i \in L..d
      PROVE  /\ Under(w, key, i) \in EntriesType
             /\ Two(Under(w, key, i))
             /\ Under(w, key, i)[key] = val
             /\ Under(w, key, i)[k] = e[k]
  <2>1. Under(w, key, i) \in EntriesType
    BY <1>0, PartsAreEntries
  <2>2. Two(Under(w, key, i))
    BY <1>7 DEF Two
  <2>3. Under(w, key, i)[key] = w[key] /\ Under(w, key, i)[k] = w[k]
    <3>1. \A j \in DOMAIN Under(w, key, i) : Under(w, key, i)[j] = w[j]
      BY <1>0, UnderDomain
    <3> QED BY <1>7, <3>1
  <2> QED BY <1>2, <2>1, <2>2, <2>3
<1>9. ASSUME NEW i \in 0..d
      PROVE  LET b == Beside(Under(w, key, i), key, i)
             IN  /\ Two(Under(w, key, i))
                 /\ siblings[i] = TreeAt(i + 1, b).root
                 /\ TreeAt(i + 1, b).nodes \subseteq treeDb
  <2> DEFINE b == Beside(Under(w, key, i), key, i)
  <2>0. i \in 0..D - 1 /\ i + 1 \in 0..D
    BY <1>0, <1>1
  <2>1. CASE i \in 0..L - 1
    <3>1. /\ Two(Under(w, key, i))
          /\ Siblings(key)[i] = TreeAt(i + 1, b).root
          /\ TreeAt(i + 1, b).nodes \subseteq treeDb
      BY <2>1, SiblingsWith DEF PathHolds, w, L
    <3>2. i # d
      BY <1>0, <1>1, <2>1
    <3> QED BY <1>6, <2>0, <3>1, <3>2
  <2>2. CASE i \in L..d
    <3> DEFINE u == Under(w, key, i)
    <3>0. u \in EntriesType
      BY <1>8, <2>2
    <3>1. u \in EntriesType /\ Two(u) /\ u[k] = e[k] /\ DOMAIN u = {key, k}
      BY <1>7, <1>8, <2>2
    <3> HIDE DEF u
    <3>2. /\ Beside(u, key, i) \in EntriesType
          /\ DOMAIN Beside(u, key, i) = {j \in DOMAIN u : ~(Bit(j, i) <=> Bit(key, i))}
          /\ \A j \in DOMAIN Beside(u, key, i) : Beside(u, key, i)[j] = u[j]
      <4>1. Beside(u, key, i) \in EntriesType
        BY <3>1, PartsAreEntries
      <4>2. DOMAIN Beside(u, key, i) = {j \in DOMAIN u : ~(Bit(j, i) <=> Bit(key, i))}
        BY <3>0, SideDomains, Zenon
      <4>3. \A j \in DOMAIN Beside(u, key, i) : Beside(u, key, i)[j] = u[j]
        BY <3>0, SideDomains, Zenon
      <4> QED BY <4>1, <4>2, <4>3
    <3>3. CASE i # d
      <4>1. Bit(key, i) <=> Bit(k, i)
        <5>1. i \in L..d - 1
          BY <1>0, <1>1, <2>2, <3>3
        <5> QED BY <5>1 DEF L
      <4>2. DOMAIN Beside(u, key, i) = {}
        BY <3>1, <3>2, <4>1
      <4>3. /\ TreeAt(i + 1, Beside(u, key, i)).root = Zero
            /\ TreeAt(i + 1, Beside(u, key, i)).nodes = {}
        BY <2>0, <3>2, <4>2, TreeOfNone DEF NoTree
      <4>4. siblings[i] = Zero
        <5>1. i \in L..D - 1
          BY <1>0, <1>1, <2>2
        <5>2. Siblings(key)[i] = Zero
          BY <5>1, SiblingsCanonical DEF L
        <5> QED BY <1>6, <2>0, <3>3, <5>2
      <4> QED BY <3>1, <4>3, <4>4 DEF u
    <3>4. CASE i = d
      <4>1. DOMAIN Beside(u, key, i) = {k}
        BY <3>1, <3>2, <3>4
      <4>2. Beside(u, key, i)[k] = e[k]
        BY <3>1, <3>2, <4>1
      <4>3. TreeAt(i + 1, Beside(u, key, i)) =
              [root |-> Leaf(k, e[k]), nodes |-> {Leaf(k, e[k])}]
        <5> DEFINE b1 == Beside(u, key, i)
        <5>1. b1 \in EntriesType /\ DOMAIN b1 = {k} /\ b1[k] = e[k]
          BY <3>2, <4>1, <4>2
        <5> HIDE DEF b1
        <5>2. TreeAt(i + 1, b1) = [root |-> Leaf(k, b1[k]), nodes |-> {Leaf(k, b1[k])}]
          BY <2>0, <5>1, TreeOfOne
        <5> QED BY <5>1, <5>2 DEF b1
      <4>4. /\ TreeAt(i + 1, Beside(u, key, i)).root = Leaf(k, e[k])
            /\ TreeAt(i + 1, Beside(u, key, i)).nodes \subseteq treeDb
        BY <4>3
      <4> QED BY <1>6, <3>1, <3>4, <4>4 DEF u
    <3> QED BY <3>3, <3>4
  <2> QED BY <1>0, <1>1, <2>1, <2>2
<1>10. PathHolds(w, key, d + 1, siblings, treeDb)
  <2>1. 0..(d + 1) - 1 = 0..d
    BY <1>4
  <2> QED BY <1>9, <2>1 DEF PathHolds
<1> DEFINE last == Under(w, key, d + 1)
<1>11. last \in EntriesType /\ DOMAIN last = {key} /\ last[key] = val
  <2> DEFINE u == Under(w, key, d)
  <2>1. d \in L..d /\ d \in Nat
    BY <1>0, <1>1, <1>4
  <2>2. last = Toward(u, key, d)
    BY <1>0, <2>1, UnderSteps
  <2>0. u \in EntriesType
    BY <1>8, <2>1
  <2>3. u \in EntriesType /\ u[key] = val /\ DOMAIN u = {key, k}
    BY <1>7, <1>8, <2>1
  <2> HIDE DEF u, last
  <2>4. /\ Toward(u, key, d) \in EntriesType
        /\ DOMAIN Toward(u, key, d) = {j \in DOMAIN u : Bit(j, d) <=> Bit(key, d)}
        /\ \A j \in DOMAIN Toward(u, key, d) : Toward(u, key, d)[j] = u[j]
    <3>1. Toward(u, key, d) \in EntriesType
      BY <2>3, PartsAreEntries
    <3>2. DOMAIN Toward(u, key, d) = {j \in DOMAIN u : Bit(j, d) <=> Bit(key, d)}
      BY <2>0, SideDomains, Zenon
    <3>3. \A j \in DOMAIN Toward(u, key, d) : Toward(u, key, d)[j] = u[j]
      BY <2>0, SideDomains, Zenon
    <3> QED BY <3>1, <3>2, <3>3
  <2> QED BY <2>2, <2>3, <2>4
<1> HIDE DEF last
<1>12. TreeAt(d + 1, last) = [root |-> Leaf(key, val), nodes |-> {Leaf(key, val)}]
  BY <1>4, <1>11, TreeOfOne
<1> DEFINE new == Leaf(key, val)
<1>13. new = TreeAt(d + 1, last).root /\ TreeAt(d + 1, last).nodes \subseteq treeDb \union {new}
  BY <1>12
<1> HIDE DEF new
<1>14. Rebuilt(new, key, siblings, d + 1)[d + 1] = TreeAt(0, w).root
  BY <1>0, <1>4, <1>10, <1>13, RebuiltCanonical DEF last
<1> QED BY <1>14 DEF Fold, w, siblings, new

\* Keys that share the bits below a level have a first one in which they
\* differ at or after it.
LEMMA FirstDifference ==
    ASSUME NEW a \in TreeKeys, NEW b \in TreeKeys, a # b,
           NEW lvl \in 0..D - 1, SamePath(b, a, lvl)
    PROVE  \E d \in lvl..D - 1 : /\ ~(Bit(a, d) <=> Bit(b, d))
                                 /\ \A j \in lvl..d - 1 : Bit(a, j) <=> Bit(b, j)
<1> DEFINE S == {i \in 0..D - 2 : ~(Bit(a, i) <=> Bit(b, i))}
<1>0. D \in Nat
  BY TreeAssumption
<1>1. S \subseteq Nat /\ S # {}
  BY TreeAssumption
<1>2. PICK d \in S : \A m \in S : d <= m
  <2> HIDE DEF S
  <2> QED BY <1>1, LeastLevel
<1>3. d \in 0..D - 2 /\ ~(Bit(a, d) <=> Bit(b, d))
  BY <1>2
<1>4. ~(d \in 0..lvl - 1)
  BY <1>3 DEF SamePath
<1>5. d \in lvl..D - 1
  BY <1>0, <1>3, <1>4
<1>6. ASSUME NEW j \in lvl..d - 1 PROVE Bit(a, j) <=> Bit(b, j)
  <2>1. j \in 0..D - 2 /\ ~(d <= j)
    BY <1>0, <1>3
  <2> QED BY <1>2, <2>1
<1> QED BY <1>3, <1>5, <1>6

\* The proof of a key that is there.
LEMMA PresentMeets ==
    ASSUME NEW e, Stored(e), NEW key \in DOMAIN e, NEW val \in Values
    PROVE  LET p == GetProof(key)
           IN  /\ p.membership
               /\ VerifiesPresent(p, key, e[key])
               /\ p.oldValue = e[key]
               /\ ProcessedRoot(p, key, val, FALSE) = Updated(key, val).root
               /\ Added(key, val) = Failed
<1> DEFINE L == EndLevel(key)
           leaf == Leaf(key, e[key])
           s == Siblings(key)
           p == GetProof(key)
<1>1. key \in TreeKeys /\ key # 0
  BY EndOfPresent, TreeAssumption
<1>2. Walk(key)[L] = leaf /\ ~Absent(leaf)
  BY EndOfPresent
<1>3. L \in 0..D - 1 /\ L # D
  BY <1>1, EndOfPath, TreeAssumption
<1>4. LevIns(s) = L /\ s[D - 1] = Zero
  BY <1>1, LevInsIsEnd
<1>5. cachedRoot = Fold(leaf, key, s, L)
  BY <1>1, <1>2, EndFoldsToRoot
<1>6. leaf.k = key /\ leaf.v = e[key]
  BY NodeKinds
<1>7. Updated(key, val).root = Rebuilt(Leaf(key, val), key, s, L)[L]
  BY <1>1, UpdatedCanonical
<1>8. Added(key, val) = Failed
  BY <1>1, AddedCanonical
<1>9. p = IF L = D \/ Absent(leaf) THEN NotThere(s) ELSE AtLeaf(leaf, key, s)
  BY <1>2 DEF GetProof
<1> HIDE DEF L, leaf, s, p
<1>10. p = AtLeaf(leaf, key, s)
  BY <1>2, <1>3, <1>9
<1>11. /\ p.siblings = s /\ ~p.isOld0 /\ p.membership
       /\ p.oldKey = key /\ p.oldValue = e[key]
  BY <1>1, <1>6, <1>10 DEF AtLeaf
<1>12. VerifiesPresent(p, key, e[key])
  BY <1>4, <1>5, <1>11 DEF VerifiesPresent, leaf
<1>13. ProcessedRoot(p, key, val, FALSE) = Fold(Leaf(key, val), key, s, L)
  BY <1>4, <1>11 DEF ProcessedRoot
<1>14. ProcessedRoot(p, key, val, FALSE) = Updated(key, val).root
  BY <1>7, <1>13 DEF Fold
<1> QED BY <1>8, <1>11, <1>12, <1>14 DEF p

\* The proof of a key that is not there.
LEMMA MissingMeets ==
    ASSUME NEW e, Stored(e), NEW key \in TreeKeys, key \notin DOMAIN e, NEW val \in Values
    PROVE  LET p == GetProof(key)
           IN  /\ ~p.membership
               /\ VerifiesAbsent(p, key)
               /\ ProcessedRoot(p, key, val, TRUE) = Added(key, val).root
               /\ Updated(key, val) = Failed
<1> DEFINE L == EndLevel(key)
           end == Walk(key)[L]
           s == Siblings(key)
           p == GetProof(key)
           w == With(e, key, val)
<1>1. L \in 0..D - 1 /\ L # D
  BY EndOfPath, TreeAssumption
<1>2. LevIns(s) = L /\ s[D - 1] = Zero
  BY LevInsIsEnd
<1>3. cachedRoot = Fold(end, key, s, L)
  BY EndFoldsToRoot
<1>4. Added(key, val).root = TreeAt(0, w).root
  BY AddedCanonical
<1>5. Updated(key, val) = Failed
  BY UpdatedCanonical
<1>6. p = IF L = D \/ Absent(end) THEN NotThere(s) ELSE AtLeaf(end, key, s)
  BY DEF GetProof
<1>7. CASE DOMAIN Under(e, key, L) = {} /\ end = Zero /\ Absent(Zero)
  <2>1. Rebuilt(Leaf(key, val), key, s, L)[L] = TreeAt(0, w).root
    BY <1>7, LeafAtEnd
  <2> HIDE DEF L, end, s, p, w
  <2>2. Absent(end)
    BY <1>7
  <2>3. p = NotThere(s)
    BY <1>6, <2>2
  <2>4. p.siblings = s /\ p.isOld0 /\ ~p.membership
    BY <2>3 DEF NotThere
  <2>5. VerifiesAbsent(p, key)
    BY <1>2, <1>3, <1>7, <2>4 DEF VerifiesAbsent, ClaimedEnd
  <2>6. ProcessedRoot(p, key, val, TRUE) = Fold(Leaf(key, val), key, s, L)
    BY <1>2, <2>4 DEF ProcessedRoot
  <2> QED BY <1>4, <1>5, <2>1, <2>4, <2>5, <2>6 DEF Fold, p
<1>8. ASSUME NEW k \in TreeKeys \ {key},
             DOMAIN Under(e, key, L) = {k},
             k \in DOMAIN e,
             SamePath(k, key, L),
             end = Leaf(k, e[k]),
             ~Absent(Leaf(k, e[k]))
      PROVE  /\ ~p.membership
             /\ VerifiesAbsent(p, key)
             /\ ProcessedRoot(p, key, val, TRUE) = Added(key, val).root
  <2>0. k # 0 /\ k # key /\ Leaf(k, e[k]) \in treeDb
    BY <1>8, TreeAssumption DEF Absent
  <2> DEFINE First(d) == /\ ~(Bit(key, d) <=> Bit(k, d))
                         /\ \A j \in L..d - 1 : Bit(key, j) <=> Bit(k, j)
             d1 == CHOOSE d \in L..D - 1 : First(d)
  <2>1. \E d \in L..D - 1 : First(d)
    BY <1>1, <1>8, FirstDifference
  <2>2. d1 \in L..D - 1 /\ First(d1)
    BY <2>1
  <2>3. Fold(Leaf(key, val), key, [s EXCEPT ![d1] = Leaf(k, e[k])], d1 + 1) = TreeAt(0, w).root
    <3> HIDE DEF d1
    <3> QED BY <1>8, <2>0, <2>2, InsertedBeside
  <2>4. end.k = k /\ end.v = e[k]
    <3> HIDE DEF end
    <3> QED BY <1>8, NodeKinds
  <2> HIDE DEF L, end, s, p, w
  <2>5. ~Absent(end)
    BY <1>8
  <2>6. p = AtLeaf(end, key, s)
    BY <1>1, <1>6, <2>5
  <2>7. /\ p.siblings = s /\ ~p.isOld0 /\ ~p.membership
        /\ p.oldKey = k /\ p.oldValue = e[k]
    BY <2>0, <2>4, <2>6 DEF AtLeaf
  <2>8. ClaimedEnd(p) = Leaf(k, e[k])
    BY <2>7 DEF ClaimedEnd
  <2>9. VerifiesAbsent(p, key)
    BY <1>2, <1>3, <1>8, <2>0, <2>7, <2>8 DEF VerifiesAbsent
  <2>10. ProcessedRoot(p, key, val, TRUE) =
           Fold(Leaf(key, val), key, [s EXCEPT ![d1] = Leaf(k, e[k])], d1 + 1)
    BY <1>2, <2>7, <2>8 DEF ProcessedRoot
  <2> QED BY <1>4, <2>3, <2>7, <2>9, <2>10
<1>9. \/ DOMAIN Under(e, key, L) = {} /\ end = Zero /\ Absent(Zero)
      \/ \E k \in TreeKeys \ {key} :
            /\ DOMAIN Under(e, key, L) = {k}
            /\ k \in DOMAIN e
            /\ SamePath(k, key, L)
            /\ end = Leaf(k, e[k])
            /\ ~Absent(Leaf(k, e[k]))
  BY EndOfMissing
<1> QED BY <1>5, <1>7, <1>8, <1>9

-----------------------------------------------------------------------------
(* The specification *)

\* The inductive invariant: what the runs check, and that a tree that was just
\* loaded holds the entries of the database.
TreeInv ==
    /\ TreeTypeOK
    /\ TreeIsCanonical
    /\ phase = "loaded" => staged = content

\* A loaded tree is the stored tree of the entries of the database.
LEMMA LoadedIsStored ==
    ASSUME TreeInv, phase = "loaded"
    PROVE  Stored(content) /\ staged = content /\ writeBatch = {}
BY DEF TreeInv, TreeTypeOK, TreeIsCanonical, Stored, Canonical, TreeAt

\* An empty database holds the tree of no entries.
LEMMA TreeInvInit ==
    TreeInit => TreeInv
<1> SUFFICES ASSUME TreeInit PROVE TreeInv
  OBVIOUS
<1>1. NoEntries \in EntriesType /\ DOMAIN NoEntries = {}
  <2>1. NoEntries \in [{} -> Values] /\ {} \in SUBSET TreeKeys
    BY DEF NoEntries
  <2> QED BY <2>1, EntriesMade DEF NoEntries
<1>2. 0 \in 0..D
  BY TreeAssumption
<1>3. TreeAt(0, NoEntries) = NoTree
  BY <1>1, <1>2, TreeOfNone
<1>4. Canonical(content).root = Zero /\ Canonical(content).nodes = {}
  BY <1>3 DEF TreeInit, Canonical, TreeAt, NoTree
<1>5. TreeTypeOK
  BY <1>1, TreeAssumption DEF TreeInit, TreeTypeOK
<1> QED BY <1>4, <1>5 DEF TreeInv, TreeIsCanonical, TreeInit

\* An operation that either fails or makes the tree of the entries with the
\* new one keeps the invariant.
LEMMA StageKeepsTree ==
    ASSUME TreeInv, NEW key \in TreeKeys, NEW val \in Values, NEW r,
           phase = "loaded",
           Stage(r, key, val),
           r # Failed => LET w == With(content, key, val)
                         IN  /\ r.root = TreeAt(0, w).root
                             /\ TreeAt(0, w).nodes \subseteq treeDb \union r.puts
                             /\ Zero \notin r.puts
    PROVE  TreeInv'
<1>1. Stored(content) /\ staged = content /\ writeBatch = {}
  BY LoadedIsStored
<1>2. /\ content' = content /\ treeDb' = treeDb /\ dbRoot' = dbRoot /\ writes' = writes
      /\ phase' # "loaded" /\ phase' \in {"idle", "staged"}
  BY DEF Stage
<1>3. CASE r = Failed
  <2>1. /\ phase' = "idle" /\ writeBatch' = writeBatch
        /\ cachedRoot' = cachedRoot /\ staged' = staged
    BY <1>3 DEF Stage
  <2>2. TreeTypeOK'
    BY <1>2, <2>1 DEF TreeInv, TreeTypeOK
  <2>3. TreeIsCanonical'
    BY <1>2, <2>1 DEF TreeInv, TreeIsCanonical
  <2> QED BY <1>2, <2>2, <2>3 DEF TreeInv
<1>4. CASE r # Failed
  <2> DEFINE w == With(content, key, val)
  <2>1. writeBatch' = r.puts /\ cachedRoot' = r.root /\ staged' = w
    BY <1>1, <1>4 DEF Stage, With
  <2>2. w \in EntriesType
    BY <1>1, PartsAreEntries DEF Stored
  <2>3. /\ r.root = TreeAt(0, w).root
        /\ TreeAt(0, w).nodes \subseteq treeDb \union r.puts
        /\ Zero \notin r.puts
    BY <1>4
  <2> HIDE DEF w
  <2>4. TreeTypeOK'
    BY <1>1, <1>2, <2>1, <2>2, <2>3 DEF TreeInv, TreeTypeOK
  <2>5. TreeIsCanonical'
    BY <1>1, <1>2, <2>1, <2>3 DEF TreeInv, TreeIsCanonical, Canonical, TreeAt
  <2> QED BY <1>2, <2>4, <2>5 DEF TreeInv
<1> QED BY <1>3, <1>4

\* Loading, the operations, writing and dropping keep the invariant.
LEMMA TreeInvStep ==
    ASSUME TreeInv, [TreeNext]_treeVars
    PROVE  TreeInv'
<1>1. CASE Load
  <2>1. /\ phase' = "loaded" /\ writeBatch' = {}
        /\ cachedRoot' = dbRoot /\ staged' = content
        /\ UNCHANGED <<treeDb, dbRoot, content, writes>>
    BY <1>1 DEF Load, Loaded
  <2>2. TreeTypeOK'
    BY <2>1 DEF TreeInv, TreeTypeOK
  <2>3. TreeIsCanonical'
    BY <2>1 DEF TreeInv, TreeIsCanonical
  <2> QED BY <2>1, <2>2, <2>3 DEF TreeInv
<1>2. ASSUME NEW key \in TreeKeys, NEW val \in Values,
             Add(key, val) \/ Update(key, val) \/ AddOrUpdate(key, val)
      PROVE  TreeInv'
  <2>1. phase = "loaded"
    BY <1>2 DEF Add, Update, AddOrUpdate, Stage
  <2>2. Stored(content)
    BY <2>1, LoadedIsStored
  <2>3. CASE Add(key, val)
    BY <2>1, <2>2, <2>3, AddedCanonical, StageKeepsTree DEF Add
  <2>4. CASE Update(key, val)
    BY <2>1, <2>2, <2>4, UpdatedCanonical, StageKeepsTree DEF Update
  <2>5. CASE AddOrUpdate(key, val)
    BY <2>1, <2>2, <2>5, AddedOrUpdatedCanonical, StageKeepsTree DEF AddOrUpdate
  <2> QED BY <1>2, <2>3, <2>4, <2>5
<1>3. CASE Write
  <2>1. /\ phase = "staged" /\ phase' = "idle"
        /\ treeDb' = treeDb \union writeBatch /\ dbRoot' = cachedRoot /\ content' = staged
        /\ writes < MaxWrites /\ writes' = writes + 1
        /\ UNCHANGED <<writeBatch, cachedRoot, staged>>
    BY <1>3 DEF Write
  <2>2. TreeTypeOK'
    BY <2>1, TreeAssumption DEF TreeInv, TreeTypeOK
  <2>3. TreeIsCanonical'
    BY <2>1 DEF TreeInv, TreeIsCanonical
  <2> QED BY <2>1, <2>2, <2>3 DEF TreeInv
<1>4. CASE Discard
  <2>1. /\ phase' = "idle"
        /\ UNCHANGED <<treeDb, dbRoot, writeBatch, cachedRoot, content, staged, writes>>
    BY <1>4 DEF Discard
  <2>2. TreeTypeOK'
    BY <2>1 DEF TreeInv, TreeTypeOK
  <2>3. TreeIsCanonical'
    BY <2>1 DEF TreeInv, TreeIsCanonical
  <2> QED BY <2>1, <2>2, <2>3 DEF TreeInv
<1>5. CASE UNCHANGED treeVars
  BY <1>5 DEF TreeInv, TreeTypeOK, TreeIsCanonical, treeVars
<1> QED BY <1>1, <1>2, <1>3, <1>4, <1>5 DEF TreeNext

\* The invariant holds in every reachable state.
LEMMA TreeInvAlways ==
    TreeSpec => []TreeInv
<1>1. TreeInit => TreeInv
  BY TreeInvInit
<1>2. TreeInv /\ [TreeNext]_treeVars => TreeInv'
  BY TreeInvStep
<1> QED BY <1>1, <1>2, PTL DEF TreeSpec

\* A store that was just opened shows the database, and a hash of zero is
\* never a node, staged or stored (RocksStore::new, put).
THEOREM TreeTypeCorrect ==
    TreeSpec => []TreeTypeOK
<1>1. TreeInv => TreeTypeOK
  BY DEF TreeInv
<1> QED BY <1>1, TreeInvAlways, PTL

\* Whatever was added, updated, dropped and retried, in whatever order, the
\* stored tree is the one tree of its entries with all its nodes, and so is
\* the staged one (add, push_leaf, update, RocksStore, db.write).
THEOREM TreeAlwaysCanonical ==
    TreeSpec => []TreeIsCanonical
<1>1. TreeInv => TreeIsCanonical
  BY DEF TreeInv
<1> QED BY <1>1, TreeInvAlways, PTL

\* For every key the proof of a loaded tree convinces the circuit of whether
\* it is there, and leads it to the root the tree moves to (get_proof against
\* SMTVerifier and SMTProcessor in Relay.circom).
THEOREM ProofsAlwaysMeetCircuit ==
    TreeSpec => []ProofsMeetCircuit
<1>1. TreeInv => ProofsMeetCircuit
  <2> SUFFICES ASSUME TreeInv, phase = "loaded", NEW key \in TreeKeys, NEW val \in Values
               PROVE  LET p       == GetProof(key)
                          present == key \in DOMAIN content
                      IN  /\ p.membership = present
                          /\ IF present
                             THEN /\ VerifiesPresent(p, key, content[key])
                                  /\ p.oldValue = content[key]
                                  /\ ProcessedRoot(p, key, val, FALSE) = Updated(key, val).root
                                  /\ Added(key, val) = Failed
                             ELSE /\ VerifiesAbsent(p, key)
                                  /\ ProcessedRoot(p, key, val, TRUE) = Added(key, val).root
                                  /\ Updated(key, val) = Failed
    BY DEF ProofsMeetCircuit
  <2>1. Stored(content)
    BY LoadedIsStored
  <2>2. GetProof(key).membership \in BOOLEAN
    BY DEF GetProof, NotThere, AtLeaf
  <2>3. CASE key \in DOMAIN content
    BY <2>1, <2>2, <2>3, PresentMeets
  <2>4. CASE key \notin DOMAIN content
    <3> DEFINE p == GetProof(key)
    <3>1. /\ ~p.membership
          /\ VerifiesAbsent(p, key)
          /\ ProcessedRoot(p, key, val, TRUE) = Added(key, val).root
          /\ Updated(key, val) = Failed
      BY <2>1, <2>4, MissingMeets
    <3> HIDE DEF p
    <3>2. p.membership = (key \in DOMAIN content)
      BY <2>2, <2>4, <3>1 DEF p
    <3> QED BY <2>4, <3>1, <3>2 DEF p
  <2> QED BY <2>3, <2>4
<1> QED BY <1>1, TreeInvAlways, PTL
=============================================================================
