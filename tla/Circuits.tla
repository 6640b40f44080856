------------------------------ MODULE Circuits ------------------------------
(***************************************************************************)
(* The three zk-SNARK circuits of mootvote (circom/) as relations over the *)
(* values their public inputs commit to.  A Poseidon hash is modelled by   *)
(* the value it hashes: hashing is an injective constructor, so a hash     *)
(* chain is a sequence, a sparse Merkle root is the map of its leaves and  *)
(* a census root is a set of voters.  A Groth16 proof verifies exactly     *)
(* when a witness of the relation exists (soundness and completeness).     *)
(***************************************************************************)
EXTENDS Integers, Sequences, FiniteSets

CONSTANTS
    PollIds,     \* ids of the polls
    Voters,      \* voter key pairs; a census is a set of these
    Messages,    \* the encrypted messages that are ever produced
    MAX_CHOICES, \* number of counters of the Tally circuit
    MAX_BATCH    \* number of messages one Tally proof can process

\* Key 0 is the revoting key nobody has to know: Poseidon(0) in the leaf of
\* a voter who has not voted yet.
NoKey == 0

MessageType ==
    [poll : PollIds, voter : Voters, choice : Nat,
     revotingKeyOld : Nat, revotingKeyNew : Nat, nonce : Nat]

ASSUME CircuitConstants ==
    /\ IsFiniteSet(PollIds)
    /\ IsFiniteSet(Voters)
    /\ Messages \subseteq MessageType
    /\ MAX_CHOICES \in Nat \ {0}
    /\ MAX_BATCH \in Nat \ {0}

-----------------------------------------------------------------------------
(* Nullifiers *)

\* nu: the hash of the voter's deterministic signature of the poll's id.
Nullifier(m) == <<m.poll, m.voter>>

Nullifiers == PollIds \X Voters

\* relayerNu: the same signature hashed with the id of the relayer.
RelayerNu(m, relayerId) == <<m.poll, m.voter, relayerId>>

\* nuHash: a relayer nullifier tied to one message; noRelayer, the zero id,
\* zeroes it.
RelayerNuHash(m, relayerId, noRelayer) ==
    IF relayerId = noRelayer THEN noRelayer ELSE <<RelayerNu(m, relayerId), m>>

-----------------------------------------------------------------------------
(* Faulty variants of the Vote circuit: a constraint left out. *)

VoteCircuitAnyKey(m, relayerNuHash, censusRoot, pollId, nChoices, relayerId, noRelayer) ==
    /\ m.voter \in censusRoot
    /\ m.poll = pollId
    /\ m.revotingKeyNew # m.revotingKeyOld
    /\ m.choice <= nChoices
    /\ relayerNuHash = RelayerNuHash(m, relayerId, noRelayer)

VoteCircuitAnyChoice(m, relayerNuHash, censusRoot, pollId, nChoices, relayerId, noRelayer) ==
    /\ m.voter \in censusRoot
    /\ m.poll = pollId
    /\ m.revotingKeyNew \notin {NoKey, m.revotingKeyOld}
    /\ relayerNuHash = RelayerNuHash(m, relayerId, noRelayer)

(* Vote.circom: the message was encrypted by a member of the census, for   *)
(* this poll, with a choice in range (0 is "no choice") and a new revoting *)
(* key.                                                                    *)
VoteCircuit(m, relayerNuHash, censusRoot, pollId, nChoices, relayerId, noRelayer) ==
    /\ m.voter \in censusRoot
    /\ m.poll = pollId
    /\ m.revotingKeyNew # NoKey
    /\ m.revotingKeyNew # m.revotingKeyOld
    /\ m.choice <= nChoices
    /\ relayerNuHash = RelayerNuHash(m, relayerId, noRelayer)

-----------------------------------------------------------------------------
(* Relay.circom: rootState commits to the number of messages relayed per   *)
(* nullifier (quota, an absent leaf is 0) and to the relayed messages.     *)

\* Faulty variants: duplicates pass; the limit is off by one.
RelayCircuitDuplicates(rootState, nu, msgHash, msgLimit) ==
    rootState.quota[nu] < msgLimit

RelayCircuitOneMore(rootState, nu, msgHash, msgLimit) ==
    /\ rootState.quota[nu] <= msgLimit
    /\ msgHash \notin rootState.uniq

RelayCircuit(rootState, nu, msgHash, msgLimit) ==
    /\ rootState.quota[nu] < msgLimit
    /\ msgHash \notin rootState.uniq

RelayRootNew(rootState, nu, msgHash) ==
    [quota |-> [rootState.quota EXCEPT ![nu] = @ + 1],
     uniq  |-> rootState.uniq \union {msgHash}]

-----------------------------------------------------------------------------
(* Tally.circom: a board is the pair of the sparse Merkle tree of ballots  *)
(* and the per-choice counters.                                            *)

Trees == [Nullifiers -> [choice : Nat, key : Nat]]
Tallies == [1..MAX_CHOICES -> Int]

EmptyLeaf == [choice |-> 0, key |-> NoKey]
EmptyTree == [nu \in Nullifiers |-> EmptyLeaf]
ZeroTally == [c \in 1..MAX_CHOICES |-> 0]

\* Faulty variant: the vote for the old choice stays.
TallyChoiceKeepingOld(enabled, choiceOld, choiceNew, choiceNumber, tallyOld) ==
    IF enabled /\ choiceNew = choiceNumber THEN tallyOld + 1 ELSE tallyOld

TallyChoice(enabled, choiceOld, choiceNew, choiceNumber, tallyOld) ==
    IF enabled
    THEN tallyOld + (IF choiceNew = choiceNumber THEN 1 ELSE 0)
                  - (IF choiceOld = choiceNumber THEN 1 ELSE 0)
    ELSE tallyOld

\* A message replaces its voter's ballot when it names the revoting key of
\* that ballot, and is skipped otherwise.
RevotingKeyMatches(root, m) == m.revotingKeyOld = root[Nullifier(m)].key

TallySingle(board, m) ==
    LET valid == RevotingKeyMatches(board.root, m)
        old   == board.root[Nullifier(m)]
    IN  [root  |-> IF valid
                   THEN [board.root EXCEPT ![Nullifier(m)] =
                           [choice |-> m.choice, key |-> m.revotingKeyNew]]
                   ELSE board.root,
         tally |-> [c \in 1..MAX_CHOICES |->
                       TallyChoice(valid, old.choice, m.choice, c, board.tally[c])]]

\* The accumulators rootAcc and tallyAcc along one batch.
BoardAcc(board, batch) ==
    LET acc[i \in 0..Len(batch)] ==
            IF i = 0 THEN board ELSE TallySingle(acc[i - 1], batch[i])
    IN  acc

\* Faulty variant: the first batch starts from any counters.
TallyCircuitAnyStart(cumulativeMsgHashOld, tallyOld, batch) ==
    Len(batch) <= MAX_BATCH

\* The first batch (nothing tallied so far) must start from zero counters.
TallyCircuit(cumulativeMsgHashOld, tallyOld, batch) ==
    /\ Len(batch) <= MAX_BATCH
    /\ cumulativeMsgHashOld = <<>> => tallyOld = ZeroTally

TallyOut(rootOld, tallyOld, batch) ==
    BoardAcc([root |-> rootOld, tally |-> tallyOld], batch)[Len(batch)]

-----------------------------------------------------------------------------
(* The reference meaning of a message log: the ballot of every voter after *)
(* the log was read once, in order and in full, with no batches, counters  *)
(* or accounts.                                                            *)

ApplyMessage(ballots, m) ==
    IF m.revotingKeyOld = ballots[Nullifier(m)].key
    THEN [ballots EXCEPT ![Nullifier(m)] =
             [choice |-> m.choice, key |-> m.revotingKeyNew]]
    ELSE ballots

BallotsAcc(log) ==
    LET acc[i \in 0..Len(log)] ==
            IF i = 0 THEN EmptyTree ELSE ApplyMessage(acc[i - 1], log[i])
    IN  acc

Ballots(log) == BallotsAcc(log)[Len(log)]

\* How many voters hold a ballot for choice c.
Votes(ballots, c) == Cardinality({nu \in Nullifiers : ballots[nu].choice = c})

Histogram(ballots) == [c \in 1..MAX_CHOICES |-> Votes(ballots, c)]

-----------------------------------------------------------------------------
(* What a voter who follows the revoting protocol is owed. *)

\* The positions at which the messages of nu occur for the first time.
FirstSendings(log, nu) ==
    {i \in DOMAIN log : /\ Nullifier(log[i]) = nu
                        /\ \A j \in 1..(i - 1) : log[j] # log[i]}

\* Every message of nu, where it first occurs, names the key its predecessor
\* introduced, and no key is introduced twice.  Retries and replays of
\* earlier messages may occur anywhere in between.
FollowsProtocol(log, nu) ==
    LET sent == FirstSendings(log, nu)
    IN  \A i \in sent :
          LET before == {j \in sent : j < i}
          IN  /\ before = {} => log[i].revotingKeyOld = NoKey
              /\ \A j \in before :
                    /\ (\A k \in before : k <= j) =>
                          log[i].revotingKeyOld = log[j].revotingKeyNew
                    /\ log[i].revotingKeyNew # log[j].revotingKeyNew
=============================================================================
