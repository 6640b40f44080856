--------------------------- MODULE MootvoteProofs ---------------------------
(***************************************************************************)
(* Machine-checked proofs about Mootvote, for every number of polls,       *)
(* voters, messages, choices, batches and accounts.                        *)
(***************************************************************************)
EXTENDS Mootvote, CircuitsProofs

-----------------------------------------------------------------------------
(* Type correctness. *)

\* The batches of Next are sequences of messages.
LEMMA BatchType == Batches \subseteq Seq(Messages)
<1> SUFFICES ASSUME NEW b \in Batches PROVE b \in Seq(Messages)
  OBVIOUS
<1>1. PICK n \in 0..MAX_BATCH : b \in [1..n -> Messages]
  BY DEF Batches
<1>2. n \in Nat
  BY CircuitConstants
<1> QED
  BY <1>1, <1>2

\* The initial accounts are well typed.
LEMMA TypeInit == Init => TypeOK
BY DEF Init, TypeOK

\* The deposit of a poll is a natural number.
LEMMA DepositType ==
    ASSUME relayer_config \in RelayerConfigType,
           platform_config \in PlatformConfigType, NEW voters \in Nat
    PROVE  DepositFor(voters) \in Nat
<1>1. \A x, y \in Nat : x * y \in Nat
  OBVIOUS
<1>2. relayer_config.fee + platform_config.fee \in Nat
  BY DEF RelayerConfigType, PlatformConfigType
<1>3. (relayer_config.fee + platform_config.fee) * MSG_LIMIT \in Nat
  BY <1>1, <1>2, ChainConstants
<1> DEFINE x == (relayer_config.fee + platform_config.fee) * MSG_LIMIT
<1> HIDE DEF x
<1>4. x * 1 * voters \in Nat
  BY <1>1, <1>3 DEF x
<1> QED
  BY <1>4 DEF DepositFor, N_RELAYERS, x

\* Crediting wallets keeps them natural.
LEMMA CreditType ==
    ASSUME NEW w \in [Keys -> Nat], NEW k \in Keys, NEW amount \in Nat
    PROVE  Credit(w, k, amount) \in [Keys -> Nat]
BY DEF Credit

\* Accepting a vote keeps the poll accounts well typed.
LEMMA VoteCommonType ==
    ASSUME TypeOK, NEW p \in PollIds, poll[p] # Null, NEW m \in Messages,
           NEW h, NEW r, VoteCommon(p, m, h, r)
    PROVE  poll' \in [PollIds -> PollType \union {Null}]
<1>1. poll[p] \in PollType /\ poll \in [PollIds -> PollType \union {Null}]
  BY DEF TypeOK
<1> DEFINE log == Append(poll[p].cumulative_msg_hash, m)
<1>4. log \in Seq(Messages)
  BY <1>1 DEF PollType
<1> HIDE DEF log
<1>2. [poll[p] EXCEPT !.cumulative_msg_hash = log] \in PollType
  BY <1>1, <1>4 DEF PollType
<1>3. poll' = [poll EXCEPT ![p] =
                 [poll[p] EXCEPT !.cumulative_msg_hash = log]]
  BY <1>1 DEF VoteCommon, log
<1> QED
  BY <1>1, <1>2, <1>3

\* Every instruction keeps the accounts well typed.
LEMMA TypeStep == TypeOK /\ [Next]_vars => TypeOK'
<1> SUFFICES ASSUME TypeOK, [Next]_vars PROVE TypeOK'
  OBVIOUS
<1> USE ChainConstants, NullIsNoAccount
<1>1. ASSUME Tick PROVE TypeOK'
  BY <1>1 DEF Tick, TypeOK
<1>2. ASSUME NEW args \in PlatformConfigs, Initialize(args) PROVE TypeOK'
  BY <1>2 DEF Initialize, TypeOK
<1>3. ASSUME NEW k \in Keys, NEW args \in PlatformConfigs, UpdateConfig(k, args)
      PROVE  TypeOK'
  BY <1>3 DEF UpdateConfig, TypeOK
<1>4. ASSUME NEW args \in RelayerConfigs, InitializeRelayer(args) PROVE TypeOK'
  <2>1. relayer_config' \in RelayerConfigType
    BY <1>4 DEF InitializeRelayer, RelayerArgType, RelayerConfigType
  <2> QED
    BY <1>4, <2>1 DEF InitializeRelayer, TypeOK
<1>5. ASSUME NEW k \in Keys, NEW args \in RelayerConfigs,
             UpdateRelayerConfig(k, args)
      PROVE  TypeOK'
  <2>1. relayer_config' \in RelayerConfigType
    BY <1>5 DEF UpdateRelayerConfig, TypeOK, RelayerArgType, RelayerConfigType
  <2> QED
    BY <1>5, <2>1 DEF UpdateRelayerConfig, TypeOK
<1>6. ASSUME NEW p \in PollIds, NEW args \in PollArgs, CreatePoll(p, args)
      PROVE  TypeOK'
  <2>1. /\ relayer_config \in RelayerConfigType
        /\ platform_config \in PlatformConfigType
        /\ args \in PollArgType
    BY <1>6 DEF CreatePoll, TypeOK
  <2>2. poll' \in [PollIds -> PollType \union {Null}]
    <3>1. [n_choices |-> args.n_choices,
           census_root |-> args.census_root,
           cumulative_msg_hash |-> <<>>,
           voting_start_time |-> args.voting_start_time,
           voting_end_time |-> args.voting_end_time,
           platform_fee |-> platform_config.fee,
           fee |-> args.fee,
           fee_destination |-> args.fee_destination,
           tally |-> <<>>] \in PollType
      BY <2>1 DEF PollType, PollArgType, PlatformConfigType
    <3> QED
      BY <1>6, <3>1 DEF CreatePoll, TypeOK
  <2>3. DepositFor(args.n_voters) \in Nat
    BY <2>1, DepositType DEF PollArgType
  <2>4. lamports' \in [PollIds -> Nat]
    BY <1>6, <2>3 DEF CreatePoll, TypeOK
  <2>5. relayer_state' \in [PollIds -> RelayerStateType \union {Null}]
    <3>1. [root_state |-> EmptyTrees, fee |-> relayer_config.fee,
           msg_limit |-> MSG_LIMIT, end_time |-> args.voting_end_time] \in RelayerStateType
      BY <2>1 DEF RelayerStateType, TreesType, EmptyTrees, RelayerConfigType,
                          PollArgType, NoQuotas
    <3> QED
      BY <1>6, <3>1 DEF CreatePoll, CreateRelayerState, TypeOK
  <2>6. n_voters' \in [PollIds -> Nat]
    BY <1>6, <2>1 DEF CreatePoll, TypeOK, PollArgType
  <2> QED
    BY <1>6, <2>2, <2>4, <2>5, <2>6 DEF CreatePoll, TypeOK
<1>7. ASSUME NEW p \in PollIds, NEW m \in Messages, Vote(p, m) PROVE TypeOK'
  <2>1. poll' \in [PollIds -> PollType \union {Null}]
    BY <1>7, VoteCommonType DEF Vote
  <2>2. /\ platform_config.fee_destination \in Keys
        /\ poll[p].platform_fee \in Nat
        /\ poll[p].fee_destination \in Keys
        /\ poll[p].fee \in Nat
    BY <1>7 DEF Vote, TypeOK, PollType, PlatformConfigType
  <2>3. wallet' \in [Keys -> Nat]
    BY <1>7, <2>2, CreditType DEF Vote, TypeOK
  <2> QED
    BY <1>7, <2>1, <2>3 DEF Vote, TypeOK
<1>8. ASSUME NEW p \in PollIds, NEW k \in Keys, NEW m \in Messages, Relay(p, k, m)
      PROVE  TypeOK'
  <2> DEFINE nu == RelayerNu(m, k)
             rs == relayer_state[p]
  <2>1. VoteWithRelayer(p, k, m, <<nu, m>>)
    BY <1>8 DEF Relay
  <2>2. poll' \in [PollIds -> PollType \union {Null}]
    BY <2>1, VoteCommonType DEF VoteWithRelayer
  <2>3. rs \in RelayerStateType /\ platform_config \in PlatformConfigType
    BY <1>8, <2>1 DEF Relay, VoteWithRelayer, TypeOK
  <2>4. rs.fee \in Nat /\ platform_config.fee \in Nat
        /\ platform_config.fee_destination \in Keys
    BY <2>3 DEF RelayerStateType, PlatformConfigType
  <2>5. lamports' \in [PollIds -> Nat]
    <3>1. PICK amount \in Nat : amount = rs.fee + platform_config.fee
      BY <2>4
    <3>2. /\ lamports[p] >= amount
          /\ lamports' = [lamports EXCEPT ![p] = lamports[p] - amount]
      BY <2>1, <3>1 DEF VoteWithRelayer, Debit
    <3>3. lamports \in [PollIds -> Nat]
      BY DEF TypeOK
    <3>4. lamports[p] - amount \in Nat
      BY <3>2, <3>3
    <3> QED
      BY <3>2, <3>3, <3>4
  <2>6. wallet' \in [Keys -> Nat]
    BY <2>1, <2>4, CreditType DEF VoteWithRelayer, TypeOK
  <2>7. relayer_state' \in [PollIds -> RelayerStateType \union {Null}]
    <3>1. nu \in RelayerNus
      BY CircuitConstants DEF MessageType, RelayerNu, RelayerNus
    <3> DEFINE root == RelayRootNew(rs.root_state, nu, m)
    <3>2. root \in TreesType
      BY <2>3, <3>1 DEF RelayRootNew, RelayerStateType, TreesType
    <3> HIDE DEF root
    <3>3. [rs EXCEPT !.root_state = root] \in RelayerStateType
      BY <2>3, <3>2 DEF RelayerStateType
    <3>4. relayer_state' =
            [relayer_state EXCEPT ![p] = [rs EXCEPT !.root_state = root]]
      BY <1>8 DEF Relay, TypeOK, root
    <3> QED
      BY <3>3, <3>4 DEF TypeOK
  <2> QED
    BY <1>8, <2>2, <2>5, <2>6, <2>7 DEF Relay, TypeOK
<1>9. ASSUME NEW p \in PollIds, WithdrawPoll(p) PROVE TypeOK'
  <2>1. poll[p].fee_destination \in Keys /\ lamports[p] \in Nat
    BY <1>9 DEF WithdrawPoll, TypeOK, PollType
  <2>2. wallet' \in [Keys -> Nat]
    BY <1>9, <2>1, CreditType DEF WithdrawPoll, TypeOK
  <2>3. lamports' \in [PollIds -> Nat]
    BY <1>9, <2>1 DEF WithdrawPoll, Debit, TypeOK
  <2> QED
    BY <1>9, <2>2, <2>3 DEF WithdrawPoll, TypeOK
<1>10. ASSUME NEW t \in TallyAccounts, NEW initial \in InitialTallies,
              CreateTally(t, initial)
       PROVE  TypeOK'
  <2>1. [tally_hash |-> initial, cumulative_msg_hash |-> <<>>, root |-> EmptyTree]
           \in TallyType
    BY EmptyTreeHistogram DEF TallyType, Tallies
  <2> QED
    BY <1>10, <2>1 DEF CreateTally, TypeOK
<1>11. ASSUME NEW t \in TallyAccounts, NEW batch \in Batches, TallyBatch(t, batch)
       PROVE  TypeOK'
  <2> DEFINE old == tally[t]
             out == TallyOut(old.root, old.tally_hash, batch)
  <2>1. old \in TallyType /\ batch \in Seq(Messages)
    BY <1>11, BatchType DEF TallyBatch, TypeOK
  <2>2. out \in Boards
    BY <2>1, TallyOutType DEF TallyType
  <2>3. old.cumulative_msg_hash \o batch \in Seq(Messages)
    BY <2>1 DEF TallyType
  <2>4. tally' = [tally EXCEPT ![t] =
                    [tally_hash |-> out.tally,
                     cumulative_msg_hash |-> old.cumulative_msg_hash \o batch,
                     root |-> out.root]]
    BY <1>11 DEF TallyBatch
  <2> HIDE DEF out, old
  <2>5. tally' \in [TallyAccounts -> TallyType \union {Null}]
    BY <2>2, <2>3, <2>4 DEF TypeOK, TallyType, Boards
  <2> QED
    BY <1>11, <2>5 DEF TallyBatch, TypeOK
<1>12. ASSUME NEW p \in PollIds, NEW t \in TallyAccounts, FinishTally(p, t)
       PROVE  TypeOK'
  <2> DEFINE n == poll[p].n_choices
             result == [c \in 1..n |-> tally[t].tally_hash[c]]
  <2>1. poll[p] \in PollType /\ tally[t] \in TallyType
    BY <1>12 DEF FinishTally, TypeOK
  <2>2. n \in Nat /\ n <= MAX_CHOICES
    BY <1>12, <2>1 DEF FinishTally, CountersFit, PollType
  <2>3. result \in Seq(Int)
    <3>1. \A c \in 1..n : tally[t].tally_hash[c] \in Int
      BY <2>1, <2>2, CircuitConstants DEF TallyType, Tallies
    <3> QED
      BY <2>2, <3>1
  <2>4. poll' = [poll EXCEPT ![p] = [poll[p] EXCEPT !.tally = result]]
    BY <1>12 DEF FinishTally, TypeOK
  <2> HIDE DEF result
  <2>5. [poll[p] EXCEPT !.tally = result] \in PollType
    BY <2>1, <2>3 DEF PollType
  <2>6. poll' \in [PollIds -> PollType \union {Null}]
    BY <2>4, <2>5 DEF TypeOK
  <2> QED
    BY <1>12, <2>6 DEF FinishTally, TypeOK
<1>13. ASSUME NEW t \in TallyAccounts, CloseTally(t) PROVE TypeOK'
  BY <1>13 DEF CloseTally, TypeOK
<1>14. ASSUME UNCHANGED vars PROVE TypeOK'
  BY <1>14 DEF vars, TypeOK
<1> QED
  BY <1>1, <1>2, <1>3, <1>4, <1>5, <1>6, <1>7, <1>8, <1>9, <1>10, <1>11, <1>12,
     <1>13, <1>14 DEF Next

\* Every reachable state of the two programs is well typed; in particular no
\* poll account is ever overdrawn.
THEOREM TypeCorrect == Spec => []TypeOK
<1>1. Init => TypeOK
  BY TypeInit
<1>2. TypeOK /\ [Next]_vars => TypeOK'
  BY TypeStep
<1> QED
  BY <1>1, <1>2, PTL DEF Spec

-----------------------------------------------------------------------------
(* The published result.  A result can only be overtaken by another vote   *)
(* if it is published while votes are accepted, so the inductive invariant *)
(* adds that a result is published after the voting only.                  *)

PublishedAfterVoting ==
    \A p \in PollIds :
        poll[p] # Null /\ poll[p].tally # <<>> => VotingOver(p)

ResultInv ==
    /\ TypeOK
    /\ TallyAccountFaithful
    /\ PublishedAfterVoting
    /\ PublishedTallyCorrect

\* TallyAccountFaithful, for the contents of one account.
AccountFaithful(acc) ==
    /\ acc.root = Ballots(acc.cumulative_msg_hash)
    /\ acc.cumulative_msg_hash # <<>> => acc.tally_hash = Histogram(acc.root)

\* A batch that the Tally circuit accepts keeps a faithful account faithful.
LEMMA BatchFaithful ==
    ASSUME NEW acc \in TallyType, NEW batch \in Seq(Messages), AccountFaithful(acc),
           TallyCircuit(acc.cumulative_msg_hash, acc.tally_hash, batch)
    PROVE  LET out == TallyOut(acc.root, acc.tally_hash, batch)
           IN  /\ out.root = Ballots(acc.cumulative_msg_hash \o batch)
               /\ out.tally = Histogram(out.root)
<1> DEFINE log == acc.cumulative_msg_hash
<1>1. log \in Seq(Messages) /\ acc.root \in Trees /\ acc.tally_hash \in Tallies
  BY DEF TallyType
<1>2. acc.root = Ballots(log)
  BY DEF AccountFaithful
<1>3. acc.tally_hash = Histogram(acc.root)
  <2>1. CASE log # <<>>
    BY <2>1 DEF AccountFaithful
  <2>2. CASE log = <<>>
    <3>1. acc.root = EmptyTree
      BY <1>2, <2>2, BallotsEmpty
    <3>2. acc.tally_hash = ZeroTally
      BY <2>2 DEF TallyCircuit
    <3> QED
      BY <3>1, <3>2, EmptyTreeHistogram
  <2> QED
    BY <2>1, <2>2
<1> QED
  BY <1>1, <1>2, <1>3, TallyOutFaithful

\* Tally accounts stay faithful.
LEMMA FaithfulStep == TypeOK /\ TallyAccountFaithful /\ [Next]_vars => TallyAccountFaithful'
<1> SUFFICES ASSUME TypeOK, TallyAccountFaithful, [Next]_vars
             PROVE  TallyAccountFaithful'
  OBVIOUS
<1>1. SUFFICES ASSUME NEW t \in TallyAccounts, tally'[t] # Null
               PROVE  AccountFaithful(tally'[t])
  BY DEF TallyAccountFaithful, AccountFaithful
<1>2. tally[t] # Null => AccountFaithful(tally[t])
  BY DEF TallyAccountFaithful, AccountFaithful
<1>3. CASE tally'[t] = tally[t]
  BY <1>1, <1>2, <1>3
<1>4. ASSUME NEW u \in TallyAccounts, NEW initial \in InitialTallies,
             CreateTally(u, initial), tally'[t] # tally[t]
      PROVE  AccountFaithful(tally'[t])
  <2>1. tally'[t] = [tally_hash |-> initial, cumulative_msg_hash |-> <<>>,
                     root |-> EmptyTree]
    BY <1>4 DEF CreateTally, TypeOK
  <2> QED
    BY <2>1, BallotsEmpty DEF AccountFaithful
<1>5. ASSUME NEW u \in TallyAccounts, NEW batch \in Batches,
             TallyBatch(u, batch), tally'[t] # tally[t]
      PROVE  AccountFaithful(tally'[t])
  <2> DEFINE out == TallyOut(tally[t].root, tally[t].tally_hash, batch)
             log == tally[t].cumulative_msg_hash \o batch
  <2>1. u = t
    BY <1>5 DEF TallyBatch, TypeOK
  <2>2. /\ tally[t] # Null
        /\ tally[t] \in TallyType
        /\ batch \in Seq(Messages)
        /\ TallyCircuit(tally[t].cumulative_msg_hash, tally[t].tally_hash, batch)
    BY <1>5, <2>1, BatchType DEF TallyBatch, TypeOK
  <2>3. out.root = Ballots(log) /\ out.tally = Histogram(out.root)
    BY <1>2, <2>2, BatchFaithful
  <2>4. tally'[t] = [tally_hash |-> out.tally, cumulative_msg_hash |-> log,
                     root |-> out.root]
    BY <1>5, <2>1 DEF TallyBatch, TypeOK
  <2> HIDE DEF out, log
  <2> QED
    BY <2>3, <2>4 DEF AccountFaithful
<1>6. ASSUME NEW p \in PollIds, NEW u \in TallyAccounts, FinishTally(p, u)
      PROVE  tally'[t] = tally[t]
  BY <1>1, <1>6 DEF FinishTally, TypeOK
<1>7. ASSUME NEW u \in TallyAccounts, CloseTally(u) PROVE tally'[t] = tally[t]
  BY <1>1, <1>7 DEF CloseTally, TypeOK
<1>8. ASSUME UNCHANGED tally PROVE tally'[t] = tally[t]
  BY <1>8
<1>9. \/ UNCHANGED tally
      \/ \E u \in TallyAccounts, initial \in InitialTallies : CreateTally(u, initial)
      \/ \E u \in TallyAccounts, batch \in Batches : TallyBatch(u, batch)
      \/ \E p \in PollIds, u \in TallyAccounts : FinishTally(p, u)
      \/ \E u \in TallyAccounts : CloseTally(u)
  BY DEF Next, vars, Tick, Initialize, UpdateConfig, InitializeRelayer,
         UpdateRelayerConfig, CreatePoll, Vote, Relay, WithdrawPoll
<1> QED
  BY <1>3, <1>4, <1>5, <1>6, <1>7, <1>8, <1>9

\* What a step can do to the account of a poll.
PollUntouched(p) == poll'[p] = poll[p]

PollCreated(p) ==
    /\ poll[p] = Null
    /\ \E args \in PollArgs : poll'[p].n_choices = args.n_choices
    /\ poll'[p].tally = <<>>
    /\ poll'[p].cumulative_msg_hash = <<>>

PollVoted(p) ==
    /\ poll[p] # Null
    /\ VotingOpen(p)
    /\ \E m \in Messages :
          /\ m.poll = p /\ m.voter \in poll[p].census_root
          /\ m.choice <= poll[p].n_choices
          /\ m.revotingKeyNew # NoKey
          /\ m.revotingKeyNew # m.revotingKeyOld
          /\ poll'[p] = [poll[p] EXCEPT !.cumulative_msg_hash = Append(@, m)]

PollFinished(p) ==
    /\ poll[p] # Null
    /\ VotingOver(p)
    /\ \E t \in TallyAccounts :
          /\ tally[t] # Null
          /\ TallyComplete(p, t)
          /\ poll[p].n_choices <= MAX_CHOICES
          /\ poll'[p] = [poll[p] EXCEPT
               !.tally = [c \in 1..poll[p].n_choices |-> tally[t].tally_hash[c]]]

\* Time never decreases, and every step leaves a poll alone, creates it, adds
\* one vote while voting is open, or publishes a complete tally afterwards.
LEMMA PollStep ==
    ASSUME TypeOK, [Next]_vars, NEW p \in PollIds
    PROVE  /\ now' \in Nat /\ now' >= now
           /\ PollUntouched(p) \/ PollCreated(p) \/ PollVoted(p) \/ PollFinished(p)
<1>1. now' \in Nat /\ now' >= now
  <2>1. Tick \/ UNCHANGED now
    BY DEF Next, vars, Initialize, UpdateConfig, InitializeRelayer,
           UpdateRelayerConfig, CreatePoll, Vote, Relay, WithdrawPoll,
           CreateTally, TallyBatch, FinishTally, CloseTally
  <2>2. now \in Nat
    BY DEF TypeOK
  <2> QED
    BY <2>1, <2>2 DEF Tick
<1>2. ASSUME NEW q \in PollIds, NEW args \in PollArgs, CreatePoll(q, args)
      PROVE  PollUntouched(p) \/ PollCreated(p)
  BY <1>2 DEF CreatePoll, TypeOK, PollUntouched, PollCreated
<1>3. ASSUME NEW q \in PollIds, NEW m \in Messages, NEW h, NEW r,
             poll[q] # Null, VoteCommon(q, m, h, r)
      PROVE  PollUntouched(p) \/ PollVoted(p)
  BY <1>3 DEF VoteCommon, VoteCircuit, TypeOK, PollUntouched, PollVoted
<1>4. ASSUME NEW q \in PollIds, NEW m \in Messages, Vote(q, m)
      PROVE  PollUntouched(p) \/ PollVoted(p)
  BY <1>3, <1>4 DEF Vote
<1>5. ASSUME NEW q \in PollIds, NEW k \in Keys, NEW m \in Messages, Relay(q, k, m)
      PROVE  PollUntouched(p) \/ PollVoted(p)
  BY <1>3, <1>5 DEF Relay, VoteWithRelayer
<1>6. ASSUME NEW q \in PollIds, NEW t \in TallyAccounts, FinishTally(q, t)
      PROVE  PollUntouched(p) \/ PollFinished(p)
  BY <1>6 DEF FinishTally, CountersFit, TypeOK, PollUntouched, PollFinished
<1>7. ASSUME UNCHANGED poll PROVE PollUntouched(p)
  BY <1>7 DEF PollUntouched
<1>8. \/ UNCHANGED poll
      \/ \E q \in PollIds, args \in PollArgs : CreatePoll(q, args)
      \/ \E q \in PollIds, m \in Messages : Vote(q, m)
      \/ \E q \in PollIds, k \in Keys, m \in Messages : Relay(q, k, m)
      \/ \E q \in PollIds, t \in TallyAccounts : FinishTally(q, t)
  BY DEF Next, vars, Tick, Initialize, UpdateConfig, InitializeRelayer,
         UpdateRelayerConfig, WithdrawPoll, CreateTally, TallyBatch, CloseTally
<1> QED
  BY <1>1, <1>2, <1>4, <1>5, <1>6, <1>7, <1>8

\* Results stay correct, and stay results of a voting that is over.
LEMMA PublishedStep ==
    ResultInv /\ [Next]_vars => PublishedAfterVoting' /\ PublishedTallyCorrect'
<1> SUFFICES ASSUME ResultInv, [Next]_vars, NEW p \in PollIds,
                    poll'[p] # Null, poll'[p].tally # <<>>
             PROVE  /\ VotingOver(p)'
                    /\ poll'[p].cumulative_msg_hash # <<>> =>
                         poll'[p].tally =
                           [c \in 1..poll'[p].n_choices |->
                              Votes(Ballots(poll'[p].cumulative_msg_hash), c)]
  BY DEF PublishedAfterVoting, PublishedTallyCorrect, Tallied
<1>1. TypeOK /\ TallyAccountFaithful /\ PublishedAfterVoting /\ PublishedTallyCorrect
  BY DEF ResultInv
<1>2. now \in Nat /\ now' \in Nat /\ now' >= now
  BY <1>1, PollStep DEF TypeOK
<1>3. poll[p] # Null => poll[p] \in PollType
  BY <1>1 DEF TypeOK
<1>4. CASE PollUntouched(p)
  <2>1. poll'[p] = poll[p]
    BY <1>4 DEF PollUntouched
  <2>2. now > poll[p].voting_end_time /\ poll[p].voting_end_time \in Nat
    BY <1>1, <1>3, <2>1 DEF PublishedAfterVoting, VotingOver, PollType
  <2>3. VotingOver(p)'
    BY <1>2, <2>1, <2>2 DEF VotingOver
  <2>4. poll[p].cumulative_msg_hash # <<>> =>
          poll[p].tally = [c \in 1..poll[p].n_choices |->
                             Votes(Ballots(poll[p].cumulative_msg_hash), c)]
    BY <1>1, <2>1 DEF PublishedTallyCorrect, Tallied
  <2> QED
    BY <2>1, <2>3, <2>4
<1>5. CASE PollCreated(p)
  BY <1>5 DEF PollCreated
<1>6. CASE PollVoted(p)
  <2>1. poll[p] # Null /\ poll[p] \in PollType /\ VotingOpen(p)
    BY <1>3, <1>6 DEF PollVoted
  <2>2. poll'[p].tally = poll[p].tally
    BY <1>6, <2>1 DEF PollVoted, PollType
  <2>3. VotingOver(p)
    BY <1>1, <2>1, <2>2 DEF PublishedAfterVoting
  <2>4. poll[p].voting_end_time \in Nat
    BY <2>1 DEF PollType
  <2> QED
    BY <1>2, <2>1, <2>3, <2>4 DEF VotingOver, VotingOpen
<1>7. CASE PollFinished(p)
  <2> DEFINE n == poll[p].n_choices
             log == poll[p].cumulative_msg_hash
  <2>1. poll[p] \in PollType /\ VotingOver(p) /\ n \in Nat /\ n <= MAX_CHOICES
    BY <1>3, <1>7 DEF PollFinished, PollType
  <2>2. PICK t \in TallyAccounts :
          /\ tally[t] # Null
          /\ tally[t].cumulative_msg_hash = log
          /\ poll'[p] = [poll[p] EXCEPT
               !.tally = [c \in 1..n |-> tally[t].tally_hash[c]]]
    BY <1>7 DEF PollFinished, TallyComplete
  <2>3. /\ poll'[p].tally = [c \in 1..n |-> tally[t].tally_hash[c]]
        /\ poll'[p].n_choices = n
        /\ poll'[p].cumulative_msg_hash = log
        /\ poll'[p].voting_end_time = poll[p].voting_end_time
    BY <2>1, <2>2 DEF PollType
  <2>4. VotingOver(p)'
    <3>1. poll[p].voting_end_time \in Nat
      BY <2>1 DEF PollType
    <3> QED
      BY <1>2, <2>1, <2>3, <3>1 DEF VotingOver
  <2>5. ASSUME log # <<>>
        PROVE  poll'[p].tally = [c \in 1..n |-> Votes(Ballots(log), c)]
    <3>1. tally[t].root = Ballots(log) /\ tally[t].tally_hash = Histogram(tally[t].root)
      BY <1>1, <2>2, <2>5 DEF TallyAccountFaithful
    <3>2. \A c \in 1..n : c \in 1..MAX_CHOICES
      BY <2>1, CircuitConstants
    <3>3. \A c \in 1..n : tally[t].tally_hash[c] = Votes(Ballots(log), c)
      BY <3>1, <3>2 DEF Histogram
    <3> QED
      BY <2>3, <3>3
  <2> QED
    BY <2>3, <2>4, <2>5
<1> QED
  BY <1>1, <1>4, <1>5, <1>6, <1>7, PollStep

\* The inductive invariant holds in every reachable state.
THEOREM ResultInvariant == Spec => []ResultInv
<1>1. Init => ResultInv
  <2> SUFFICES ASSUME Init PROVE ResultInv
    OBVIOUS
  <2>1. TallyAccountFaithful
    BY DEF Init, TallyAccountFaithful
  <2>2. PublishedAfterVoting /\ PublishedTallyCorrect
    BY DEF Init, PublishedAfterVoting, PublishedTallyCorrect, Tallied
  <2> QED
    BY <2>1, <2>2, TypeInit DEF ResultInv
<1>2. ResultInv /\ [Next]_vars => ResultInv'
  <2>1. ResultInv => TypeOK /\ TallyAccountFaithful
    BY DEF ResultInv
  <2> QED
    BY <2>1, TypeStep, FaithfulStep, PublishedStep DEF ResultInv
<1> QED
  BY <1>1, <1>2, PTL DEF Spec

\* A tally account that has read some messages commits to the ballots these
\* messages produce and to their exact histogram, for every way of batching,
\* restarting and interleaving (tally_batch, create_tally, Tally circuit).
THEOREM TallyAccountsFaithful == Spec => []TallyAccountFaithful
<1>1. ResultInv => TallyAccountFaithful
  BY DEF ResultInv
<1> QED
  BY <1>1, ResultInvariant, PTL

\* The result that finish_tally publishes for a poll with messages is the
\* count of the ballots of all accepted messages.
THEOREM PublishedTallyIsCorrect == Spec => []PublishedTallyCorrect
<1>1. ResultInv => PublishedTallyCorrect
  BY DEF ResultInv
<1> QED
  BY <1>1, ResultInvariant, PTL

\* A published result, and the messages it was computed from, never change.
THEOREM ResultIsFinal == Spec => ResultFinal
<1>1. ResultInv /\ ResultInv' /\ [Next]_vars =>
        [\A p \in PollIds : Tallied(p) => poll'[p] = poll[p]]_vars
  <2> SUFFICES ASSUME ResultInv, ResultInv', [Next]_vars,
                      NEW p \in PollIds, Tallied(p)
               PROVE  poll'[p] = poll[p]
    OBVIOUS
  <2>1. TypeOK /\ PublishedAfterVoting /\ PublishedTallyCorrect
    BY DEF ResultInv
  <2>2. /\ poll[p] # Null
        /\ poll[p] \in PollType
        /\ VotingOver(p)
        /\ poll[p].cumulative_msg_hash # <<>>
        /\ poll[p].tally # <<>>
    BY <2>1 DEF Tallied, TypeOK, PublishedAfterVoting
  <2>3. ~ PollCreated(p)
    BY <2>2 DEF PollCreated
  <2>4. ~ PollVoted(p)
    <3>1. now \in Nat /\ poll[p].voting_end_time \in Nat
      BY <2>1, <2>2 DEF TypeOK, PollType
    <3> QED
      BY <2>2, <3>1 DEF PollVoted, VotingOpen, VotingOver
  <2>5. ASSUME PollFinished(p) PROVE poll'[p] = poll[p]
    <3> DEFINE n == poll[p].n_choices
               log == poll[p].cumulative_msg_hash
    <3>1. PICK t \in TallyAccounts :
            /\ tally[t] # Null
            /\ tally[t].cumulative_msg_hash = log
            /\ n <= MAX_CHOICES
            /\ poll'[p] = [poll[p] EXCEPT
                 !.tally = [c \in 1..n |-> tally[t].tally_hash[c]]]
      BY <2>5 DEF PollFinished, TallyComplete
    <3>2. tally[t].tally_hash = Histogram(Ballots(log))
      BY <2>2, <3>1 DEF ResultInv, TallyAccountFaithful
    <3>3. \A c \in 1..n : tally[t].tally_hash[c] = Votes(Ballots(log), c)
      <4>1. \A c \in 1..n : c \in 1..MAX_CHOICES
        BY <2>2, <3>1, CircuitConstants DEF PollType
      <4> QED
        BY <3>2, <4>1 DEF Histogram
    <3>4. poll[p].tally = [c \in 1..n |-> Votes(Ballots(log), c)]
      BY <2>1 DEF PublishedTallyCorrect
    <3>5. [c \in 1..n |-> tally[t].tally_hash[c]] = poll[p].tally
      BY <3>3, <3>4
    <3> QED
      BY <2>2, <3>1, <3>5 DEF PollType
  <2> QED
    BY <2>1, <2>3, <2>4, <2>5, PollStep DEF PollUntouched
<1> QED
  BY <1>1, ResultInvariant, PTL DEF Spec, ResultFinal

-----------------------------------------------------------------------------
(* The ballot of a voter who follows the protocol.  A repeated message is  *)
(* skipped because it names an older key, which takes that the circuit     *)
(* refuses messages without a new key, so this is part of the invariant.   *)

BallotInv ==
    \A p \in PollIds : poll[p] # Null =>
        LET log == poll[p].cumulative_msg_hash
        IN  /\ NewKeysOnly(log)
            /\ \A v \in Voters : SentBefore(log, <<p, v>>) /\ LatestCounts(log, <<p, v>>)

\* BallotInv, for one log of poll p.
GoodLog(p, log) ==
    /\ NewKeysOnly(log)
    /\ \A v \in Voters : SentBefore(log, <<p, v>>) /\ LatestCounts(log, <<p, v>>)

\* Accepting a message keeps a log good.
LEMMA GoodLogAppend ==
    ASSUME NEW p \in PollIds, NEW log \in Seq(Messages), NEW m \in Messages,
           GoodLog(p, log), m.revotingKeyNew # NoKey,
           m.revotingKeyNew # m.revotingKeyOld
    PROVE  GoodLog(p, Append(log, m))
<1>1. NewKeysOnly(Append(log, m))
  BY DEF GoodLog, NewKeysOnly
<1>2. ASSUME NEW v \in Voters
      PROVE  SentBefore(Append(log, m), <<p, v>>) /\ LatestCounts(Append(log, m), <<p, v>>)
  <2>1. PICK nu \in Nullifiers : nu = <<p, v>>
    BY DEF Nullifiers
  <2>2. SentBefore(log, nu) /\ LatestCounts(log, nu)
    BY <2>1 DEF GoodLog
  <2>3. SentBefore(Append(log, m), nu) /\ LatestCounts(Append(log, m), nu)
    BY <1>1, <2>2, LatestCountsAppend
  <2> QED
    BY <2>1, <2>3
<1> QED
  BY <1>1, <1>2 DEF GoodLog

\* The logs of all polls stay good.
LEMMA BallotStep == TypeOK /\ BallotInv /\ [Next]_vars => BallotInv'
<1>1. SUFFICES ASSUME TypeOK, BallotInv, [Next]_vars, NEW p \in PollIds,
                      poll'[p] # Null
               PROVE  GoodLog(p, poll'[p].cumulative_msg_hash)
  BY DEF BallotInv, GoodLog
<1>2. poll[p] # Null =>
        /\ poll[p] \in PollType
        /\ poll[p].cumulative_msg_hash \in Seq(Messages)
        /\ GoodLog(p, poll[p].cumulative_msg_hash)
  BY <1>1 DEF TypeOK, PollType, BallotInv, GoodLog
<1>3. CASE PollUntouched(p)
  BY <1>1, <1>2, <1>3 DEF PollUntouched
<1>4. CASE PollCreated(p)
  <2>1. NewKeysOnly(<<>>)
    BY DEF NewKeysOnly
  <2>2. ASSUME NEW v \in Voters
        PROVE  SentBefore(<<>>, <<p, v>>) /\ LatestCounts(<<>>, <<p, v>>)
    <3>1. PICK nu \in Nullifiers : nu = <<p, v>>
      BY DEF Nullifiers
    <3> QED
      BY <3>1, LatestCountsEmpty
  <2> QED
    BY <1>4, <2>1, <2>2 DEF PollCreated, GoodLog
<1>5. CASE PollVoted(p)
  <2>1. PICK m \in Messages :
          /\ m.revotingKeyNew # NoKey
          /\ m.revotingKeyNew # m.revotingKeyOld
          /\ poll'[p] = [poll[p] EXCEPT !.cumulative_msg_hash = Append(@, m)]
    BY <1>5 DEF PollVoted
  <2>2. poll[p] # Null
    BY <1>5 DEF PollVoted
  <2>3. poll'[p].cumulative_msg_hash = Append(poll[p].cumulative_msg_hash, m)
    BY <1>2, <2>1, <2>2 DEF PollType
  <2>4. PICK log \in Seq(Messages) : log = poll[p].cumulative_msg_hash
    BY <1>2, <2>2
  <2>5. GoodLog(p, Append(log, m))
    BY <1>2, <2>1, <2>2, <2>4, GoodLogAppend
  <2> QED
    BY <2>3, <2>4, <2>5
<1>6. CASE PollFinished(p)
  <2>1. poll'[p].cumulative_msg_hash = poll[p].cumulative_msg_hash
    BY <1>2, <1>6 DEF PollFinished, PollType
  <2> QED
    BY <1>2, <1>6, <2>1 DEF PollFinished
<1> QED
  BY <1>1, <1>3, <1>4, <1>5, <1>6, PollStep

\* The ballot of a voter who follows the revoting protocol is her latest
\* message, for every number of repetitions and of other voters' messages
\* (revoting keys in the Vote and Tally circuits).
THEOREM LatestMessageAlwaysCounts == Spec => []LatestMessageCounts
<1>1. Init => BallotInv
  BY DEF Init, BallotInv
<1>2. TypeOK /\ BallotInv /\ [Next]_vars => BallotInv'
  BY BallotStep
<1>3. BallotInv => LatestMessageCounts
  BY DEF BallotInv, LatestCounts, LatestMessageCounts
<1> QED
  BY <1>1, <1>2, <1>3, TypeCorrect, PTL DEF Spec

-----------------------------------------------------------------------------
(* The relayer trees on the chain. *)

\* Every relayed message is in the log of its poll.
RelayedInLog ==
    \A p \in PollIds : relayer_state[p] # Null =>
        /\ poll[p] # Null
        /\ relayer_state[p].root_state.uniq \subseteq Range(poll[p].cumulative_msg_hash)

\* A relayed message joins one tree and raises one quota by one.
LEMMA RootNewType ==
    ASSUME NEW trees \in TreesType, NEW nu \in RelayerNus, NEW m \in Messages
    PROVE  /\ RelayRootNew(trees, nu, m) \in TreesType
           /\ RelayRootNew(trees, nu, m).uniq = trees.uniq \union {m}
           /\ \A x \in RelayerNus : RelayRootNew(trees, nu, m).quota[x] =
                 IF x = nu THEN trees.quota[x] + 1 ELSE trees.quota[x]
<1>1. PICK quota \in [RelayerNus -> Nat] : quota = trees.quota
  BY DEF TreesType
<1>2. PICK uniq \in SUBSET Messages : uniq = trees.uniq
  BY DEF TreesType
<1>3. RelayRootNew(trees, nu, m) =
        [quota |-> [quota EXCEPT ![nu] = quota[nu] + 1], uniq |-> uniq \union {m}]
  BY <1>1, <1>2 DEF RelayRootNew
<1>4. [quota EXCEPT ![nu] = quota[nu] + 1] \in [RelayerNus -> Nat]
  BY <1>1
<1> QED
  BY <1>1, <1>2, <1>3, <1>4 DEF TreesType

\* A message has a quota and a poll of its own.
LEMMA NuType ==
    ASSUME NEW m \in Messages, NEW k \in Keys
    PROVE  /\ RelayerNu(m, k) \in RelayerNus
           /\ m.poll \in PollIds /\ m.voter \in Voters
<1>1. m \in MessageType
  BY CircuitConstants
<1>2. m.poll \in PollIds /\ m.voter \in Voters
  BY <1>1 DEF MessageType
<1> QED
  BY <1>2 DEF RelayerNu, RelayerNus

\* Relaying adds one message to the trees and to the log of one poll.
LEMMA RelayEffect ==
    ASSUME TypeOK, NEW p \in PollIds, NEW k \in Keys, NEW m \in Messages, Relay(p, k, m)
    PROVE  /\ m.poll = p
           /\ poll[p] # Null /\ poll'[p] # Null
           /\ poll'[p].cumulative_msg_hash = Append(poll[p].cumulative_msg_hash, m)
           /\ \A q \in PollIds \ {p} : poll'[q] = poll[q]
           /\ relayer_state[p] # Null /\ relayer_state'[p] # Null
           /\ relayer_state'[p].root_state =
                RelayRootNew(relayer_state[p].root_state, RelayerNu(m, k), m)
           /\ \A q \in PollIds \ {p} : relayer_state'[q] = relayer_state[q]
<1>1. /\ relayer_state[p] # Null
      /\ relayer_state' = [relayer_state EXCEPT ![p].root_state =
                             RelayRootNew(@, RelayerNu(m, k), m)]
      /\ VoteWithRelayer(p, k, m, <<RelayerNu(m, k), m>>)
  BY DEF Relay
<1>2. relayer_state \in [PollIds -> RelayerStateType \union {Null}]
      /\ poll \in [PollIds -> PollType \union {Null}]
  BY DEF TypeOK
<1>3. relayer_state[p] \in RelayerStateType
  BY <1>1, <1>2
<1>4. PICK new : new = RelayRootNew(relayer_state[p].root_state, RelayerNu(m, k), m)
  OBVIOUS
<1>5. relayer_state' = [relayer_state EXCEPT ![p] = [relayer_state[p] EXCEPT !.root_state = new]]
  BY <1>1, <1>2, <1>4
<1>6. [relayer_state[p] EXCEPT !.root_state = new]
        = [root_state |-> new, fee |-> relayer_state[p].fee,
           msg_limit |-> relayer_state[p].msg_limit,
           end_time |-> relayer_state[p].end_time]
  BY <1>3 DEF RelayerStateType
<1>7. relayer_state'[p] # Null
  <2>1. relayer_state' \in [PollIds -> RelayerStateType \union {Null}]
    BY TypeStep DEF Next, TypeOK
  <2>2. relayer_state'[p].root_state = new
    BY <1>2, <1>5, <1>6
  <2>3. new \in TreesType
    <3>1. relayer_state[p].root_state \in TreesType
      BY <1>3 DEF RelayerStateType, TreesType
    <3> QED
      BY <1>4, <3>1, NuType, RootNewType
  <2>4. relayer_state'[p] \in RelayerStateType
    BY <1>2, <1>3, <1>5, <1>6, <2>3 DEF RelayerStateType, TreesType
  <2> QED
    BY <2>4, NullIsNoAccount
<1>8. poll[p] # Null /\ VoteCommon(p, m, <<RelayerNu(m, k), m>>, k)
  BY <1>1 DEF VoteWithRelayer
<1>9. m.poll = p
  BY <1>8 DEF VoteCommon, VoteCircuit
<1>10. poll' = [poll EXCEPT ![p].cumulative_msg_hash = Append(poll[p].cumulative_msg_hash, m)]
  BY <1>8 DEF VoteCommon
<1>11. poll[p] \in PollType
  BY <1>2, <1>8
<1>12. poll'[p] = [poll[p] EXCEPT !.cumulative_msg_hash = Append(poll[p].cumulative_msg_hash, m)]
  BY <1>2, <1>10
<1>13. poll'[p].cumulative_msg_hash = Append(poll[p].cumulative_msg_hash, m)
  BY <1>11, <1>12 DEF PollType
<1>14. poll'[p] # Null
  <2>1. poll' \in [PollIds -> PollType \union {Null}]
    BY <1>8, VoteCommonType
  <2>2. Append(poll[p].cumulative_msg_hash, m) \in Seq(Messages)
    BY <1>11 DEF PollType
  <2>3. poll'[p] \in PollType
    BY <1>11, <1>12, <2>2 DEF PollType
  <2> QED
    BY <2>3, NullIsNoAccount
<1> QED
  BY <1>1, <1>2, <1>4, <1>5, <1>6, <1>7, <1>8, <1>9, <1>10, <1>13, <1>14

\* No other instruction changes trees that exist, and new ones are empty.
LEMMA TreesStep ==
    ASSUME TypeOK, [Next]_vars, NEW p \in PollIds
    PROVE  \/ relayer_state'[p] = relayer_state[p]
           \/ /\ relayer_state[p] = Null
              /\ poll'[p] # Null
              /\ relayer_state'[p].root_state = EmptyTrees
           \/ \E k \in Keys, m \in Messages : Relay(p, k, m)
<1>1. ASSUME NEW q \in PollIds, NEW args \in PollArgs, CreatePoll(q, args)
      PROVE  \/ relayer_state'[p] = relayer_state[p]
             \/ /\ relayer_state[p] = Null
                /\ poll'[p] # Null
                /\ relayer_state'[p].root_state = EmptyTrees
  <2>1. relayer_state \in [PollIds -> RelayerStateType \union {Null}]
        /\ poll' \in [PollIds -> PollType \union {Null}]
    BY TypeStep DEF TypeOK
  <2>2. CASE p # q
    BY <1>1, <2>1, <2>2 DEF CreatePoll, CreateRelayerState
  <2>3. CASE p = q
    <3>1. relayer_state[p] = Null /\ relayer_state'[p].root_state = EmptyTrees
      BY <1>1, <2>1, <2>3 DEF CreatePoll, CreateRelayerState, EmptyTrees
    <3>2. poll'[p] # Null
      <4>1. platform_config.fee \in Nat
        BY <1>1 DEF CreatePoll, TypeOK, PlatformConfigType
      <4>2. args \in PollArgType
        BY ChainConstants
      <4>3. poll'[p] =
              [n_choices |-> args.n_choices, census_root |-> args.census_root,
               cumulative_msg_hash |-> <<>>,
               voting_start_time |-> args.voting_start_time,
               voting_end_time |-> args.voting_end_time,
               platform_fee |-> platform_config.fee, fee |-> args.fee,
               fee_destination |-> args.fee_destination, tally |-> <<>>]
        BY <1>1, <2>3 DEF TypeOK, CreatePoll
      <4>4. poll'[p] \in PollType
        BY <4>1, <4>2, <4>3 DEF PollArgType, PollType
      <4> QED
        BY <4>4, NullIsNoAccount
    <3> QED
      BY <3>1, <3>2
  <2> QED
    BY <2>2, <2>3
<1>2. ASSUME NEW q \in PollIds, NEW k \in Keys, NEW m \in Messages, Relay(q, k, m)
      PROVE  relayer_state'[p] = relayer_state[p] \/ Relay(p, k, m)
  <2>1. p # q => relayer_state'[p] = relayer_state[p]
    BY <1>2, RelayEffect
  <2> QED
    BY <1>2, <2>1
<1>3. \/ UNCHANGED relayer_state
      \/ \E q \in PollIds, args \in PollArgs : CreatePoll(q, args)
      \/ \E q \in PollIds, k \in Keys, m \in Messages : Relay(q, k, m)
  BY DEF Next, vars, Tick, Initialize, UpdateConfig, InitializeRelayer,
         UpdateRelayerConfig, Vote, WithdrawPoll, CreateTally, TallyBatch,
         FinishTally, CloseTally
<1> QED
  BY <1>1, <1>2, <1>3

\* No message leaves a log.
LEMMA LogGrows ==
    ASSUME TypeOK, [Next]_vars, NEW p \in PollIds, poll[p] # Null
    PROVE  /\ poll'[p] # Null
           /\ Range(poll[p].cumulative_msg_hash) \subseteq Range(poll'[p].cumulative_msg_hash)
<1>1. TypeOK'
  BY TypeStep
<1>2. poll[p] \in PollType
  BY DEF TypeOK
<1>3. PICK log \in Seq(Messages) : log = poll[p].cumulative_msg_hash
  BY <1>2 DEF PollType
<1>4. CASE PollUntouched(p)
  BY <1>4 DEF PollUntouched
<1>5. CASE PollFinished(p)
  <2>1. PICK u \in TallyAccounts :
          /\ tally[u] # Null
          /\ poll[p].n_choices <= MAX_CHOICES
          /\ poll'[p] = [poll[p] EXCEPT
               !.tally = [c \in 1..poll[p].n_choices |-> tally[u].tally_hash[c]]]
    BY <1>5 DEF PollFinished
  <2>2. PICK x : x = [c \in 1..poll[p].n_choices |-> tally[u].tally_hash[c]]
    OBVIOUS
  <2>3. x \in Seq(Int)
    <3>1. tally[u].tally_hash \in [1..MAX_CHOICES -> Int]
      BY <2>1 DEF TypeOK, TallyType, Tallies
    <3>2. poll[p].n_choices \in Nat /\ MAX_CHOICES \in Nat
      BY <1>2, CircuitConstants DEF PollType
    <3>3. \A c \in 1..poll[p].n_choices : c \in 1..MAX_CHOICES
      BY <2>1, <3>2
    <3>4. PICK n, f : n = poll[p].n_choices /\ f = tally[u].tally_hash
      BY <3>2
    <3>5. \A c \in 1..n : f[c] \in Int
      BY <3>1, <3>3, <3>4
    <3>6. x = [c \in 1..n |-> f[c]]
      BY <2>2, <3>4
    <3>7. [c \in 1..n |-> f[c]] \in [1..n -> Int]
      BY <3>5
    <3>8. n \in Nat
      BY <3>2, <3>4
    <3> QED
      BY <3>6, <3>7, <3>8
  <2>4. poll'[p] = [poll[p] EXCEPT !.tally = x]
    BY <2>1, <2>2
  <2>5. poll'[p].cumulative_msg_hash = log /\ poll'[p] \in PollType
    BY <1>2, <1>3, <2>3, <2>4 DEF PollType
  <2> QED
    BY <1>3, <2>5, NullIsNoAccount
<1>6. CASE PollVoted(p)
  <2>1. PICK m \in Messages :
          poll'[p] = [poll[p] EXCEPT !.cumulative_msg_hash = Append(@, m)]
    BY <1>6 DEF PollVoted
  <2>2. Append(log, m) \in Seq(Messages)
    BY <1>3
  <2>3. poll'[p] = [poll[p] EXCEPT !.cumulative_msg_hash = Append(log, m)]
    BY <1>2, <1>3, <2>1
  <2>4. poll'[p].cumulative_msg_hash = Append(log, m) /\ poll'[p] \in PollType
    BY <1>2, <2>2, <2>3 DEF PollType
  <2>5. Range(log) \subseteq Range(Append(log, m))
    <3>1. \A i \in DOMAIN log : i \in DOMAIN Append(log, m) /\ Append(log, m)[i] = log[i]
      BY <1>3
    <3> QED
      BY <3>1 DEF Range
  <2> QED
    BY <1>3, <2>4, <2>5, NullIsNoAccount
<1>7. CASE PollCreated(p)
  BY <1>7 DEF PollCreated
<1> QED
  BY <1>4, <1>5, <1>6, <1>7, PollStep

\* No poll, no relayed message.
LEMMA RelayedInit == Init => RelayedInLog
BY DEF Init, RelayedInLog

\* relay puts a message into the tree and into the log at once, and logs
\* only grow.
LEMMA RelayedStep == TypeOK /\ RelayedInLog /\ [Next]_vars => RelayedInLog'
<1> SUFFICES ASSUME TypeOK, RelayedInLog, [Next]_vars,
                    NEW p \in PollIds, relayer_state'[p] # Null
             PROVE  /\ poll'[p] # Null
                    /\ relayer_state'[p].root_state.uniq
                         \subseteq Range(poll'[p].cumulative_msg_hash)
  BY DEF RelayedInLog
<1>1. CASE relayer_state'[p] = relayer_state[p]
  <2>1. poll[p] # Null
        /\ relayer_state[p].root_state.uniq \subseteq Range(poll[p].cumulative_msg_hash)
    BY <1>1 DEF RelayedInLog
  <2> QED
    BY <1>1, <2>1, LogGrows
<1>2. CASE /\ relayer_state[p] = Null
           /\ poll'[p] # Null
           /\ relayer_state'[p].root_state = EmptyTrees
  BY <1>2 DEF EmptyTrees
<1>3. ASSUME NEW k \in Keys, NEW m \in Messages, Relay(p, k, m)
      PROVE  /\ poll'[p] # Null
             /\ relayer_state'[p].root_state.uniq
                  \subseteq Range(poll'[p].cumulative_msg_hash)
  <2>1. /\ poll[p] # Null /\ poll'[p] # Null
        /\ poll'[p].cumulative_msg_hash = Append(poll[p].cumulative_msg_hash, m)
        /\ relayer_state[p] # Null
        /\ relayer_state'[p].root_state =
             RelayRootNew(relayer_state[p].root_state, RelayerNu(m, k), m)
    BY <1>3, RelayEffect
  <2>2. PICK log \in Seq(Messages) : log = poll[p].cumulative_msg_hash
    BY <2>1 DEF TypeOK, PollType
  <2>3. relayer_state[p].root_state \in TreesType
    BY <2>1 DEF TypeOK, RelayerStateType, TreesType
  <2>4. relayer_state'[p].root_state.uniq = relayer_state[p].root_state.uniq \union {m}
    BY <2>1, <2>3, NuType, RootNewType
  <2>5. relayer_state[p].root_state.uniq \subseteq Range(log)
    BY <2>1, <2>2 DEF RelayedInLog
  <2>6. Range(log) \union {m} \subseteq Range(Append(log, m))
    <3>1. \A i \in DOMAIN log : i \in DOMAIN Append(log, m) /\ Append(log, m)[i] = log[i]
      BY <2>2
    <3>2. Len(log) + 1 \in DOMAIN Append(log, m) /\ Append(log, m)[Len(log) + 1] = m
      BY <2>2
    <3> QED
      BY <3>1, <3>2 DEF Range
  <2> QED
    BY <2>1, <2>2, <2>4, <2>5, <2>6
<1> QED
  BY <1>1, <1>2, <1>3, TreesStep

-----------------------------------------------------------------------------
(* Ballots are ballots of members.  Tallied alone says nothing about them, *)
(* so the invariant speaks of the ballots of every log.                    *)

\* Only members of the census of p, voting in p, hold a ballot with a choice,
\* and no ballot has a choice the poll does not offer.
MembersHold(p, census, n, ballots) ==
    \A nu \in Nullifiers : ballots[nu].choice # 0 =>
        nu[1] = p /\ nu[2] \in census /\ ballots[nu].choice <= n

MemberInv ==
    \A p \in PollIds : poll[p] # Null =>
        MembersHold(p, poll[p].census_root, poll[p].n_choices,
                    Ballots(poll[p].cumulative_msg_hash))

\* A message of a member leaves all ballots with members.
LEMMA MembersHoldAppend ==
    ASSUME NEW p, NEW census, NEW n \in Nat, NEW log \in Seq(Messages), NEW m \in Messages,
           MembersHold(p, census, n, Ballots(log)),
           m.poll = p, m.voter \in census, m.choice <= n
    PROVE  MembersHold(p, census, n, Ballots(Append(log, m)))
<1>1. PICK tree \in Trees : tree = Ballots(log)
  BY BallotsType
<1>2. m \in MessageType
  BY CircuitConstants
<1>3. Nullifier(m) = <<m.poll, m.voter>> /\ Nullifier(m) \in Nullifiers
  BY <1>2 DEF Nullifier, Nullifiers, MessageType
<1>4. Ballots(Append(log, m)) = ApplyMessage(tree, m)
  BY <1>1, BallotsAppend
<1>5. PICK leaf : leaf = [choice |-> m.choice, key |-> m.revotingKeyNew]
  OBVIOUS
<1>6. CASE m.revotingKeyOld = tree[Nullifier(m)].key
  <2>1. Ballots(Append(log, m)) = [tree EXCEPT ![Nullifier(m)] = leaf]
    BY <1>4, <1>5, <1>6 DEF ApplyMessage
  <2>2. SUFFICES ASSUME NEW nu \in Nullifiers,
                        [tree EXCEPT ![Nullifier(m)] = leaf][nu].choice # 0
                 PROVE  /\ nu[1] = p /\ nu[2] \in census
                        /\ [tree EXCEPT ![Nullifier(m)] = leaf][nu].choice <= n
    BY <2>1 DEF MembersHold
  <2>3. CASE nu = Nullifier(m)
    <3>1. [tree EXCEPT ![Nullifier(m)] = leaf][nu] = leaf
      BY <2>3 DEF Trees
    <3> QED
      BY <1>3, <1>5, <2>3, <3>1
  <2>4. CASE nu # Nullifier(m)
    <3>1. [tree EXCEPT ![Nullifier(m)] = leaf][nu] = tree[nu]
      BY <2>4 DEF Trees
    <3> QED
      BY <1>1, <2>2, <3>1 DEF MembersHold
  <2> QED
    BY <2>3, <2>4
<1>7. CASE m.revotingKeyOld # tree[Nullifier(m)].key
  BY <1>1, <1>4, <1>7 DEF ApplyMessage
<1> QED
  BY <1>6, <1>7

\* The ballots of all polls stay with members.
LEMMA MemberStep == TypeOK /\ MemberInv /\ [Next]_vars => MemberInv'
<1>1. SUFFICES ASSUME TypeOK, MemberInv, [Next]_vars, NEW p \in PollIds,
                      poll'[p] # Null
               PROVE  MembersHold(p, poll'[p].census_root, poll'[p].n_choices,
                                  Ballots(poll'[p].cumulative_msg_hash))
  BY DEF MemberInv
<1>2. poll[p] # Null =>
        /\ poll[p] \in PollType
        /\ poll[p].cumulative_msg_hash \in Seq(Messages) /\ poll[p].n_choices \in Nat
        /\ MembersHold(p, poll[p].census_root, poll[p].n_choices,
                       Ballots(poll[p].cumulative_msg_hash))
  BY <1>1 DEF TypeOK, PollType, MemberInv
<1>3. CASE PollUntouched(p)
  BY <1>1, <1>2, <1>3 DEF PollUntouched
<1>4. CASE PollCreated(p)
  <2>1. poll'[p].cumulative_msg_hash = <<>>
    BY <1>4 DEF PollCreated
  <2>2. \A nu \in Nullifiers : EmptyTree[nu].choice = 0
    BY DEF EmptyTree, EmptyLeaf
  <2> QED
    BY <2>1, <2>2, BallotsEmpty DEF MembersHold
<1>5. CASE PollVoted(p)
  <2>1. PICK m \in Messages :
          /\ m.poll = p /\ m.voter \in poll[p].census_root
          /\ m.choice <= poll[p].n_choices
          /\ poll'[p] = [poll[p] EXCEPT !.cumulative_msg_hash = Append(@, m)]
    BY <1>5 DEF PollVoted
  <2>2. poll[p] # Null
    BY <1>5 DEF PollVoted
  <2>3. /\ poll'[p].cumulative_msg_hash = Append(poll[p].cumulative_msg_hash, m)
        /\ poll'[p].census_root = poll[p].census_root
        /\ poll'[p].n_choices = poll[p].n_choices
    BY <1>2, <2>1, <2>2 DEF PollType
  <2> QED
    BY <1>2, <2>1, <2>2, <2>3, MembersHoldAppend
<1>6. CASE PollFinished(p)
  <2>1. /\ poll'[p].cumulative_msg_hash = poll[p].cumulative_msg_hash
        /\ poll'[p].census_root = poll[p].census_root
        /\ poll'[p].n_choices = poll[p].n_choices
    BY <1>2, <1>6 DEF PollFinished, PollType
  <2> QED
    BY <1>2, <1>6, <2>1 DEF PollFinished
<1> QED
  BY <1>1, <1>3, <1>4, <1>5, <1>6, PollStep

\* MemberInv in every reachable state.
LEMMA MemberInvariant == Spec => []MemberInv
<1>1. Init => MemberInv
  BY DEF Init, MemberInv
<1> QED
  BY <1>1, MemberStep, TypeCorrect, PTL DEF Spec

\* Ballots of members are no more than the members.
LEMMA BallotsOfMembers ==
    ASSUME NEW p \in PollIds, NEW census \in SUBSET Voters, NEW n \in Nat,
           NEW ballots \in Trees, MembersHold(p, census, n, ballots)
    PROVE  /\ SumFunction([c \in 1..n |-> Votes(ballots, c)]) <= Cardinality(census)
           /\ \A c \in Nat : c # 0 => Votes(ballots, c) <= Cardinality(census)
           /\ \A c \in Nat : c > n => Votes(ballots, c) = 0
<1> DEFINE G == [nu \in Nullifiers |-> ballots[nu].choice]
           held(s) == Fibre(Nullifiers, G, s)
<1>1. IsFiniteSet(census) /\ Cardinality(census) \in Nat
  BY CircuitConstants, FS_Subset, FS_CardinalityType
<1>2. IsFiniteSet({p} \X census) /\ Cardinality({p} \X census) = Cardinality(census)
  <2>1. IsFiniteSet({p}) /\ Cardinality({p}) = 1
    BY FS_Singleton
  <2>2. Cardinality({p} \X census) = 1 * Cardinality(census)
    BY <1>1, <2>1, FS_Product
  <2> QED
    BY <1>1, <2>1, <2>2, FS_Product
<1>3. \A c : Votes(ballots, c) = Cardinality(held({c}))
  <2>1. \A c : held({c}) = {nu \in Nullifiers : ballots[nu].choice = c}
    BY DEF Fibre
  <2> QED
    BY <2>1 DEF Votes
<1>4. ASSUME NEW s, 0 \notin s
      PROVE  Cardinality(held(s)) <= Cardinality(census)
  <2>1. held(s) \in SUBSET ({p} \X census)
    <3>1. SUFFICES ASSUME NEW nu \in Nullifiers, ballots[nu].choice \in s
                   PROVE  nu \in {p} \X census
      BY DEF Fibre
    <3>2. nu[1] = p /\ nu[2] \in census
      BY <1>4, <3>1 DEF MembersHold
    <3> QED
      BY <3>2 DEF Nullifiers
  <2> QED
    BY <1>2, <2>1, FS_Subset
<1>5. SumFunction([c \in 1..n |-> Votes(ballots, c)]) <= Cardinality(census)
  <2>1. PICK f : f = [c \in 1..n |-> Votes(ballots, c)]
    OBVIOUS
  <2>2. IsFiniteSet(1..n)
    BY FS_Interval
  <2>3. \A c \in 1..n : f[c] = Cardinality(Fibre(Nullifiers, G, {c}))
    BY <1>3, <2>1
  <2> HIDE DEF G
  <2>4. SumFunctionOnSet(f, 1..n) = Cardinality(Fibre(Nullifiers, G, 1..n))
    BY <2>2, <2>3, NullifiersFinite, SumOfFibres
  <2>5. Cardinality(held(1..n)) <= Cardinality(census)
    BY <1>4
  <2>6. SumFunction(f) = SumFunctionOnSet(f, 1..n)
    BY <2>1 DEF SumFunction
  <2> QED
    BY <2>1, <2>4, <2>5, <2>6
<1>6. ASSUME NEW c \in Nat, c # 0 PROVE Votes(ballots, c) <= Cardinality(census)
  <2>1. 0 \notin {c}
    BY <1>6
  <2> QED
    BY <1>3, <1>4, <2>1
<1>7. ASSUME NEW c \in Nat, c > n PROVE Votes(ballots, c) = 0
  <2>1. {nu \in Nullifiers : ballots[nu].choice = c} = {}
    <3>1. \A nu \in Nullifiers : ballots[nu].choice = c => c <= n
      BY <1>7 DEF MembersHold
    <3> QED
      BY <1>7, <3>1
  <2> QED
    BY <2>1, FS_EmptySet DEF Votes
<1> QED
  BY <1>5, <1>6, <1>7

\* The published counts add up to at most the size of the census: nobody is
\* counted twice, for a foreign census, or carried over from another poll
\* (census and poll id in the Vote circuit, TallyComplete in finish_tally).
THEOREM NoMoreBallotsThanMembers == Spec => []OneBallotPerMember
<1>1. TypeOK /\ PublishedTallyCorrect /\ MemberInv => OneBallotPerMember
  <2> SUFFICES ASSUME TypeOK, PublishedTallyCorrect, MemberInv,
                      NEW p \in PollIds, Tallied(p)
               PROVE  SumFunction(poll[p].tally) <= Cardinality(poll[p].census_root)
    BY DEF OneBallotPerMember
  <2>1. poll[p] # Null /\ poll[p] \in PollType
    BY DEF Tallied, TypeOK
  <2>2. PICK ballots \in Trees : ballots = Ballots(poll[p].cumulative_msg_hash)
    BY <2>1, BallotsType DEF PollType
  <2>3. poll[p].tally = [c \in 1..poll[p].n_choices |-> Votes(ballots, c)]
    BY <2>2 DEF PublishedTallyCorrect
  <2>4. MembersHold(p, poll[p].census_root, poll[p].n_choices, ballots)
    BY <2>1, <2>2 DEF MemberInv
  <2>5. poll[p].census_root \in SUBSET Voters /\ poll[p].n_choices \in Nat
    BY <2>1 DEF PollType
  <2> QED
    BY <2>3, <2>4, <2>5, BallotsOfMembers
<1> QED
  BY <1>1, TypeCorrect, PublishedTallyIsCorrect, MemberInvariant, PTL

\* When no poll has more choices than the circuit has counters and voters can
\* be counted in a u64, a tally account that has read all messages of a poll
\* whose voting is over passes the checks of finish_tally.
THEOREM CompleteTalliesAccepted ==
    ASSUME \A args \in PollArgs : args.n_choices <= MAX_CHOICES,
           Cardinality(Voters) <= U64_MAX
    PROVE  Spec => []CompleteTallyAccepted
<1> DEFINE Narrow == \A p \in PollIds : poll[p] # Null => poll[p].n_choices <= MAX_CHOICES
<1>1. Init => Narrow
  BY DEF Init
<1>2. TypeOK /\ Narrow /\ [Next]_vars => Narrow'
  <2> SUFFICES ASSUME TypeOK, Narrow, [Next]_vars, NEW p \in PollIds, poll'[p] # Null
               PROVE  poll'[p].n_choices <= MAX_CHOICES
    OBVIOUS
  <2>1. CASE PollUntouched(p)
    BY <2>1 DEF PollUntouched
  <2>2. CASE PollCreated(p)
    BY <2>2 DEF PollCreated
  <2>3. CASE PollVoted(p) \/ PollFinished(p)
    <3>1. poll[p] # Null /\ poll[p] \in PollType
      BY <2>3 DEF PollVoted, PollFinished, TypeOK
    <3>2. poll'[p].n_choices = poll[p].n_choices
      BY <2>3, <3>1 DEF PollVoted, PollFinished, PollType
    <3> QED
      BY <3>1, <3>2
  <2> QED
    BY <2>1, <2>2, <2>3, PollStep
<1>3. TypeOK /\ TallyAccountFaithful /\ MemberInv /\ Narrow => CompleteTallyAccepted
  <2> SUFFICES ASSUME TypeOK, TallyAccountFaithful, MemberInv, Narrow,
                      NEW p \in PollIds, NEW t \in TallyAccounts,
                      poll[p] # Null, tally[t] # Null, TallyComplete(p, t),
                      poll[p].cumulative_msg_hash # <<>>
               PROVE  CountersFit(p, t)
    BY DEF CompleteTallyAccepted
  <2>1. poll[p] \in PollType
    BY DEF TypeOK
  <2>2. PICK n \in Nat, census \in SUBSET Voters :
          n = poll[p].n_choices /\ census = poll[p].census_root
    BY <2>1 DEF PollType
  <2>3. PICK ballots \in Trees : ballots = Ballots(poll[p].cumulative_msg_hash)
    BY <2>1, BallotsType DEF PollType
  <2>4. tally[t].tally_hash = Histogram(ballots)
    BY <2>3 DEF TallyAccountFaithful, TallyComplete
  <2>5. MembersHold(p, census, n, ballots)
    BY <2>2, <2>3 DEF MemberInv
  <2>6. /\ \A c \in Nat : c # 0 => Votes(ballots, c) <= Cardinality(census)
        /\ \A c \in Nat : c > n => Votes(ballots, c) = 0
    BY <2>2, <2>3, <2>5, BallotsOfMembers
  <2>7. Cardinality(census) <= U64_MAX /\ Cardinality(census) \in Nat /\ U64_MAX \in Nat
    <3>1. Cardinality(census) <= Cardinality(Voters) /\ Cardinality(census) \in Nat
          /\ Cardinality(Voters) \in Nat
      BY <2>2, CircuitConstants, FS_Subset, FS_CardinalityType
    <3> QED
      BY <3>1, ChainConstants
  <2>8. n <= MAX_CHOICES /\ MAX_CHOICES \in Nat
    BY <2>2, CircuitConstants
  <2>9. \A c \in 1..MAX_CHOICES : tally[t].tally_hash[c] = Votes(ballots, c)
    BY <2>4 DEF Histogram
  <2>10. ASSUME NEW c \in 1..n PROVE tally[t].tally_hash[c] \in 0..U64_MAX
    <3>1. c \in Nat /\ c # 0 /\ c \in 1..MAX_CHOICES
      BY <2>8
    <3>2. Votes(ballots, c) \in Nat /\ Votes(ballots, c) <= U64_MAX
      BY <2>6, <2>7, <3>1, NullifiersFinite
    <3> QED
      BY <2>7, <2>9, <3>1, <3>2
  <2>11. ASSUME NEW c \in (n + 1)..MAX_CHOICES PROVE tally[t].tally_hash[c] = 0
    <3>1. c \in Nat /\ c > n /\ c \in 1..MAX_CHOICES
      BY <2>8
    <3> QED
      BY <2>6, <2>9, <3>1
  <2> QED
    BY <2>2, <2>8, <2>10, <2>11 DEF CountersFit
<1> QED
  BY <1>1, <1>2, <1>3, TypeCorrect, TallyAccountsFaithful, MemberInvariant, PTL DEF Spec

-----------------------------------------------------------------------------
(* Relayed messages, quotas and the deposit. *)

\* The relayed messages of a voter, and her quotas by relayer key.
RelayedBy(trees, v) == {m \in trees.uniq : m.voter = v}
QuotasOf(trees, p, v) == [k \in Keys |-> trees.quota[<<p, v, k>>]]

\* What the trees of p mean: members' messages for p, each counted in one
\* quota of its author, none beyond the limit.
TreesMeaning(p, census, trees) ==
    /\ IsFiniteSet(trees.uniq)
    /\ \A m \in trees.uniq : m.poll = p /\ m.voter \in census
    /\ \A v \in Voters :
         /\ Cardinality(RelayedBy(trees, v)) = SumFunction(QuotasOf(trees, p, v))
         /\ \A k \in Keys : trees.quota[<<p, v, k>>] <= MSG_LIMIT

TreesInv ==
    \A p \in PollIds : relayer_state[p] # Null =>
        /\ poll[p] # Null
        /\ relayer_state[p].msg_limit = MSG_LIMIT
        /\ TreesMeaning(p, poll[p].census_root, relayer_state[p].root_state)

\* New trees mean that nothing was relayed.
LEMMA EmptyTreesMeaning ==
    ASSUME NEW p \in PollIds, NEW census \in SUBSET Voters
    PROVE  TreesMeaning(p, census, EmptyTrees)
<1>1. EmptyTrees.uniq = {} /\ IsFiniteSet({}) /\ Cardinality({}) = 0
  BY FS_EmptySet DEF EmptyTrees
<1>2. ASSUME NEW v \in Voters
      PROVE  /\ Cardinality(RelayedBy(EmptyTrees, v)) = SumFunction(QuotasOf(EmptyTrees, p, v))
             /\ \A k \in Keys : EmptyTrees.quota[<<p, v, k>>] <= MSG_LIMIT
  <2>1. RelayedBy(EmptyTrees, v) = {}
    BY <1>1 DEF RelayedBy
  <2>2. \A k \in Keys : EmptyTrees.quota[<<p, v, k>>] = 0
    BY DEF EmptyTrees, NoQuotas, RelayerNus
  <2>3. SumFunction(QuotasOf(EmptyTrees, p, v)) = 0
    <3>1. PICK f : f = QuotasOf(EmptyTrees, p, v)
      OBVIOUS
    <3>2. DOMAIN f = Keys /\ \A k \in Keys : f[k] = 0
      BY <2>2, <3>1 DEF QuotasOf
    <3> QED
      BY <3>1, <3>2, ChainConstants, SumZero
  <2> QED
    BY <1>1, <2>1, <2>2, <2>3, ChainConstants
<1> QED
  BY <1>1, <1>2 DEF TreesMeaning

\* relay counts a new message of a member once, in the quota of the relayer.
LEMMA TreesMeaningRelay ==
    ASSUME NEW p \in PollIds, NEW census \in SUBSET Voters, NEW trees \in TreesType,
           TreesMeaning(p, census, trees), NEW m \in Messages, NEW k \in Keys,
           m.poll = p, m.voter \in census, m \notin trees.uniq,
           trees.quota[RelayerNu(m, k)] < MSG_LIMIT
    PROVE  TreesMeaning(p, census, RelayRootNew(trees, RelayerNu(m, k), m))
<1>1. PICK new \in TreesType : new = RelayRootNew(trees, RelayerNu(m, k), m)
  BY NuType, RootNewType
<1>2. RelayerNu(m, k) \in RelayerNus /\ RelayerNu(m, k) = <<p, m.voter, k>>
  BY NuType DEF RelayerNu
<1>3. /\ new.uniq = trees.uniq \union {m}
      /\ \A x \in RelayerNus : new.quota[x] =
            IF x = <<p, m.voter, k>> THEN trees.quota[x] + 1 ELSE trees.quota[x]
  BY <1>1, <1>2, RootNewType
<1>4. IsFiniteSet(trees.uniq) /\ IsFiniteSet(new.uniq)
  BY <1>3, FS_AddElement DEF TreesMeaning
<1>5. \A x \in new.uniq : x.poll = p /\ x.voter \in census
  BY <1>3 DEF TreesMeaning
<1>6. \A v \in Voters, j \in Keys : <<p, v, j>> \in RelayerNus
  BY DEF RelayerNus
<1>7. \A x \in RelayerNus : trees.quota[x] \in Nat /\ new.quota[x] \in Nat
  BY <1>1 DEF TreesType
<1>8. ASSUME NEW v \in Voters, NEW j \in Keys PROVE new.quota[<<p, v, j>>] <= MSG_LIMIT
  <2>1. trees.quota[<<p, v, j>>] <= MSG_LIMIT /\ MSG_LIMIT \in Nat
    BY ChainConstants DEF TreesMeaning
  <2> QED
    BY <1>2, <1>3, <1>6, <1>7, <2>1
<1>9. ASSUME NEW v \in Voters
      PROVE  Cardinality(RelayedBy(new, v)) = SumFunction(QuotasOf(new, p, v))
  <2>1. Cardinality(RelayedBy(trees, v)) = SumFunction(QuotasOf(trees, p, v))
    BY DEF TreesMeaning
  <2>2. PICK f \in [Keys -> Int] : f = QuotasOf(trees, p, v)
    <3>1. \A j \in Keys : trees.quota[<<p, v, j>>] \in Int
      BY <1>6, <1>7
    <3>2. QuotasOf(trees, p, v) \in [Keys -> Int]
      BY <3>1 DEF QuotasOf
    <3> QED
      BY <3>2
  <2>3. PICK g : g = QuotasOf(new, p, v)
    OBVIOUS
  <2>4. CASE v # m.voter
    <3>1. RelayedBy(new, v) = RelayedBy(trees, v)
      BY <1>3, <2>4 DEF RelayedBy
    <3>2. \A j \in Keys : new.quota[<<p, v, j>>] = trees.quota[<<p, v, j>>]
      BY <1>3, <1>6, <2>4
    <3>3. g = f
      BY <2>2, <2>3, <3>2 DEF QuotasOf
    <3> QED
      BY <2>1, <2>2, <2>3, <3>1, <3>3
  <2>5. CASE v = m.voter
    <3>1. RelayedBy(new, v) = RelayedBy(trees, v) \union {m} /\ m \notin RelayedBy(trees, v)
      BY <1>3, <2>5 DEF RelayedBy
    <3>2. IsFiniteSet(RelayedBy(trees, v))
      <4>1. RelayedBy(trees, v) \in SUBSET trees.uniq
        BY DEF RelayedBy
      <4> QED
        BY <1>4, <4>1, FS_Subset
    <3>3. Cardinality(RelayedBy(new, v)) = Cardinality(RelayedBy(trees, v)) + 1
      BY <3>1, <3>2, FS_AddElement
    <3>4. PICK y \in Int : y = f[k] + 1
      OBVIOUS
    <3>5. g = [f EXCEPT ![k] = y]
      <4>1. \A j \in Keys : g[j] = IF j = k THEN f[j] + 1 ELSE f[j]
        BY <1>3, <1>6, <2>2, <2>3, <2>5 DEF QuotasOf
      <4>2. g = [j \in Keys |-> g[j]]
        BY <2>3 DEF QuotasOf
      <4> QED
        BY <3>4, <4>1, <4>2
    <3>6. /\ SumFunction(f) \in Int
          /\ SumFunction([f EXCEPT ![k] = y]) = (SumFunction(f) - f[k]) + y
      BY ChainConstants, SumExcept
    <3>7. SumFunction(g) = SumFunction(f) + 1
      <4>1. f[k] \in Int
        OBVIOUS
      <4> QED
        BY <3>4, <3>5, <3>6, <4>1
    <3> QED
      BY <2>1, <2>2, <2>3, <3>3, <3>7
  <2> QED
    BY <2>4, <2>5
<1> QED
  BY <1>1, <1>4, <1>5, <1>8, <1>9 DEF TreesMeaning

\* What relay has checked, and what it leaves alone.
LEMMA RelayChecks ==
    ASSUME TypeOK, NEW p \in PollIds, NEW k \in Keys, NEW m \in Messages, Relay(p, k, m)
    PROVE  /\ m.voter \in poll[p].census_root
           /\ m \notin relayer_state[p].root_state.uniq
           /\ relayer_state[p].root_state.quota[RelayerNu(m, k)] < relayer_state[p].msg_limit
           /\ relayer_state'[p].msg_limit = relayer_state[p].msg_limit
           /\ relayer_state'[p].fee = relayer_state[p].fee
           /\ platform_config # Null /\ now' = now
           /\ lamports' = [lamports EXCEPT ![p] =
                             @ - (relayer_state[p].fee + platform_config.fee)]
<1>1. /\ relayer_state[p] # Null
      /\ RelayCircuit(relayer_state[p].root_state, RelayerNu(m, k), m, relayer_state[p].msg_limit)
      /\ relayer_state' = [relayer_state EXCEPT ![p].root_state =
                             RelayRootNew(@, RelayerNu(m, k), m)]
      /\ VoteWithRelayer(p, k, m, <<RelayerNu(m, k), m>>)
      /\ UNCHANGED now
  BY DEF Relay
<1>2. relayer_state[p] \in RelayerStateType
      /\ relayer_state \in [PollIds -> RelayerStateType \union {Null}]
  BY <1>1 DEF TypeOK
<1>3. PICK new : new = RelayRootNew(relayer_state[p].root_state, RelayerNu(m, k), m)
  OBVIOUS
<1>4. relayer_state'[p] = [relayer_state[p] EXCEPT !.root_state = new]
  BY <1>1, <1>2, <1>3
<1>5. relayer_state'[p].msg_limit = relayer_state[p].msg_limit
      /\ relayer_state'[p].fee = relayer_state[p].fee
  BY <1>2, <1>4 DEF RelayerStateType
<1>6. m.voter \in poll[p].census_root
  BY <1>1 DEF VoteWithRelayer, VoteCommon, VoteCircuit
<1>7. platform_config # Null
      /\ lamports' = [lamports EXCEPT ![p] =
                        @ - (relayer_state[p].fee + platform_config.fee)]
  BY <1>1 DEF VoteWithRelayer, Debit
<1> QED
  BY <1>1, <1>5, <1>6, <1>7 DEF RelayCircuit

\* A poll, once created, keeps what create_poll wrote about it.
LEMMA PollKeeps ==
    ASSUME TypeOK, [Next]_vars, NEW p \in PollIds, poll[p] # Null
    PROVE  /\ poll'[p] # Null
           /\ poll'[p].census_root = poll[p].census_root
           /\ poll'[p].voting_end_time = poll[p].voting_end_time
           /\ poll'[p].platform_fee = poll[p].platform_fee
<1>1. poll[p] \in PollType
  BY DEF TypeOK
<1>2. CASE PollUntouched(p)
  BY <1>2 DEF PollUntouched
<1>3. CASE PollVoted(p) \/ PollFinished(p)
  BY <1>1, <1>3, LogGrows DEF PollVoted, PollFinished, PollType
<1>4. CASE PollCreated(p)
  BY <1>4 DEF PollCreated
<1> QED
  BY <1>2, <1>3, <1>4, PollStep

\* The relayer trees keep their meaning.
LEMMA TreesInvStep == TypeOK /\ TreesInv /\ [Next]_vars => TreesInv'
<1> SUFFICES ASSUME TypeOK, TreesInv, [Next]_vars,
                    NEW p \in PollIds, relayer_state'[p] # Null
             PROVE  /\ poll'[p] # Null
                    /\ relayer_state'[p].msg_limit = MSG_LIMIT
                    /\ TreesMeaning(p, poll'[p].census_root, relayer_state'[p].root_state)
  BY DEF TreesInv
<1>0. TypeOK'
  BY TypeStep
<1>1. CASE relayer_state'[p] = relayer_state[p]
  <2>1. /\ poll[p] # Null
        /\ relayer_state[p].msg_limit = MSG_LIMIT
        /\ TreesMeaning(p, poll[p].census_root, relayer_state[p].root_state)
    BY <1>1 DEF TreesInv
  <2> QED
    BY <1>1, <2>1, PollKeeps
<1>2. ASSUME NEW q \in PollIds, NEW args \in PollArgs, CreatePoll(q, args),
             relayer_state'[p] # relayer_state[p]
      PROVE  /\ poll'[p] # Null
             /\ relayer_state'[p].msg_limit = MSG_LIMIT
             /\ relayer_state'[p].root_state = EmptyTrees
             /\ poll'[p].census_root \in SUBSET Voters
  <2>1. relayer_state \in [PollIds -> RelayerStateType \union {Null}]
    BY DEF TypeOK
  <2>2. p = q
    BY <1>2, <2>1 DEF CreatePoll, CreateRelayerState
  <2>3. relayer_state[p] = Null
    BY <1>2, <2>2 DEF CreatePoll, CreateRelayerState
  <2>4. poll'[p] # Null
    BY <1>2, <2>3, TreesStep DEF Relay
  <2>5. poll'[p] \in PollType
    BY <1>0, <2>4 DEF TypeOK
  <2> QED
    BY <1>2, <2>1, <2>2, <2>4, <2>5 DEF CreatePoll, CreateRelayerState, PollType
<1>3. ASSUME NEW k \in Keys, NEW m \in Messages, Relay(p, k, m)
      PROVE  /\ poll'[p] # Null
             /\ relayer_state'[p].msg_limit = MSG_LIMIT
             /\ TreesMeaning(p, poll'[p].census_root, relayer_state'[p].root_state)
  <2>1. /\ m.poll = p /\ poll[p] # Null /\ relayer_state[p] # Null
        /\ relayer_state'[p].root_state =
             RelayRootNew(relayer_state[p].root_state, RelayerNu(m, k), m)
    BY <1>3, RelayEffect
  <2>2. /\ relayer_state[p].msg_limit = MSG_LIMIT
        /\ TreesMeaning(p, poll[p].census_root, relayer_state[p].root_state)
    BY <2>1 DEF TreesInv
  <2>3. relayer_state[p].root_state \in TreesType /\ poll[p].census_root \in SUBSET Voters
    BY <2>1 DEF TypeOK, RelayerStateType, PollType
  <2>4. TreesMeaning(p, poll[p].census_root, relayer_state'[p].root_state)
    BY <1>3, <2>1, <2>2, <2>3, RelayChecks, TreesMeaningRelay
  <2> QED
    BY <1>3, <2>1, <2>2, <2>4, RelayChecks, PollKeeps
<1>4. \/ UNCHANGED relayer_state
      \/ \E q \in PollIds, args \in PollArgs : CreatePoll(q, args)
      \/ \E q \in PollIds, k \in Keys, m \in Messages : Relay(q, k, m)
  BY DEF Next, vars, Tick, Initialize, UpdateConfig, InitializeRelayer,
         UpdateRelayerConfig, Vote, WithdrawPoll, CreateTally, TallyBatch,
         FinishTally, CloseTally
<1>5. ASSUME NEW q \in PollIds, NEW k \in Keys, NEW m \in Messages, Relay(q, k, m), p # q
      PROVE  relayer_state'[p] = relayer_state[p]
  BY <1>5, RelayEffect
<1> QED
  BY <1>1, <1>2, <1>3, <1>4, <1>5, EmptyTreesMeaning

\* TreesInv in every reachable state.
LEMMA TreesInvariant == Spec => []TreesInv
<1>1. Init => TreesInv
  BY DEF Init, TreesInv
<1> QED
  BY <1>1, TreesInvStep, TypeCorrect, PTL DEF Spec

\* Every relayed message is in the log, and each voter's quotas add up to her
\* relayed messages, at most MSG_LIMIT per relayer key (relay, Relay circuit).
THEOREM RelayTreesAlwaysAgree == Spec => []RelayTreesAgree
<1>1. TypeOK /\ RelayedInLog /\ TreesInv => RelayTreesAgree
  <2> SUFFICES ASSUME TypeOK, RelayedInLog, TreesInv,
                      NEW p \in PollIds, relayer_state[p] # Null
               PROVE  LET state == relayer_state[p].root_state
                          log   == poll[p].cumulative_msg_hash
                      IN  /\ \A m \in state.uniq : \E i \in DOMAIN log : log[i] = m
                          /\ \A v \in Voters :
                               /\ Cardinality({m \in state.uniq : m.voter = v}) =
                                     SumFunction([k \in Keys |-> state.quota[<<p, v, k>>]])
                               /\ \A k \in Keys : state.quota[<<p, v, k>>] <= MSG_LIMIT
    BY DEF RelayTreesAgree
  <2>1. TreesMeaning(p, poll[p].census_root, relayer_state[p].root_state)
    BY DEF TreesInv
  <2>2. relayer_state[p].root_state.uniq \subseteq Range(poll[p].cumulative_msg_hash)
    BY DEF RelayedInLog
  <2> QED
    BY <2>1, <2>2 DEF TreesMeaning, RelayedBy, QuotasOf, Range
<1> QED
  BY <1>1, RelayedInit, RelayedStep, TypeCorrect, TreesInvariant, PTL DEF Spec

\* All configurations that the administrator writes have one platform fee.
OneFee == \A a, b \in PlatformConfigs : a.fee = b.fee

DepositInv ==
    /\ platform_config # Null => platform_config \in PlatformConfigs
    /\ \A p \in PollIds :
         /\ poll[p] = Null => lamports[p] = 0
         /\ poll[p] # Null =>
              /\ relayer_state[p] # Null
              /\ \A a \in PlatformConfigs : poll[p].platform_fee = a.fee
    /\ DepositAccounting

\* Polls whose deposit a step does not touch.
DepositUntouched(p) ==
    /\ lamports'[p] = lamports[p] /\ n_voters'[p] = n_voters[p]
    /\ relayer_state'[p] = relayer_state[p]
    /\ poll[p] = Null => poll'[p] = Null

\* Only create_poll, relay and withdraw_poll touch a deposit.
LEMMA DepositStep ==
    ASSUME TypeOK, [Next]_vars, NEW p \in PollIds
    PROVE  \/ DepositUntouched(p)
           \/ \E args \in PollArgs : CreatePoll(p, args)
           \/ \E k \in Keys, m \in Messages : Relay(p, k, m)
           \/ WithdrawPoll(p)
<1>0. /\ lamports \in [PollIds -> Nat] /\ n_voters \in [PollIds -> Nat]
      /\ relayer_state \in [PollIds -> RelayerStateType \union {Null}]
      /\ poll \in [PollIds -> PollType \union {Null}]
  BY DEF TypeOK
<1>1. ASSUME NEW q \in PollIds, NEW args \in PollArgs, CreatePoll(q, args), p # q
      PROVE  DepositUntouched(p)
  BY <1>0, <1>1 DEF CreatePoll, CreateRelayerState, DepositUntouched
<1>2. ASSUME NEW q \in PollIds, NEW k \in Keys, NEW m \in Messages, Relay(q, k, m), p # q
      PROVE  DepositUntouched(p)
  <2>1. relayer_state'[p] = relayer_state[p] /\ poll'[p] = poll[p]
    BY <1>2, RelayEffect
  <2>2. lamports'[p] = lamports[p] /\ n_voters'[p] = n_voters[p]
    BY <1>0, <1>2, RelayChecks DEF Relay
  <2> QED
    BY <2>1, <2>2 DEF DepositUntouched
<1>3. ASSUME NEW q \in PollIds, WithdrawPoll(q), p # q PROVE DepositUntouched(p)
  BY <1>0, <1>3 DEF WithdrawPoll, Debit, DepositUntouched
<1>4. ASSUME NEW q \in PollIds, NEW m \in Messages, Vote(q, m) PROVE DepositUntouched(p)
  BY <1>0, <1>4 DEF Vote, VoteCommon, DepositUntouched
<1>5. ASSUME NEW q \in PollIds, NEW t \in TallyAccounts, FinishTally(q, t)
      PROVE  DepositUntouched(p)
  BY <1>0, <1>5 DEF FinishTally, DepositUntouched
<1>6. ASSUME UNCHANGED <<lamports, n_voters, relayer_state, poll>>
      PROVE  DepositUntouched(p)
  BY <1>6 DEF DepositUntouched
<1>7. \/ UNCHANGED <<lamports, n_voters, relayer_state, poll>>
      \/ \E q \in PollIds, args \in PollArgs : CreatePoll(q, args)
      \/ \E q \in PollIds, k \in Keys, m \in Messages : Relay(q, k, m)
      \/ \E q \in PollIds : WithdrawPoll(q)
      \/ \E q \in PollIds, m \in Messages : Vote(q, m)
      \/ \E q \in PollIds, t \in TallyAccounts : FinishTally(q, t)
  BY DEF Next, vars, Tick, Initialize, UpdateConfig, InitializeRelayer,
         UpdateRelayerConfig, CreateTally, TallyBatch, CloseTally
<1> QED
  BY <1>1, <1>2, <1>3, <1>4, <1>5, <1>6, <1>7

\* create_poll writes accounts.
LEMMA CreatedAccounts ==
    ASSUME TypeOK, NEW p \in PollIds, NEW args \in PollArgs, CreatePoll(p, args)
    PROVE  poll'[p] # Null /\ relayer_state'[p] # Null
<1>1. /\ relayer_state \in [PollIds -> RelayerStateType \union {Null}]
      /\ poll \in [PollIds -> PollType \union {Null}]
      /\ platform_config \in PlatformConfigType
      /\ relayer_config \in RelayerConfigType /\ args \in PollArgType
  BY ChainConstants DEF TypeOK, CreatePoll
<1>2. poll'[p] =
        [n_choices |-> args.n_choices, census_root |-> args.census_root,
         cumulative_msg_hash |-> <<>>,
         voting_start_time |-> args.voting_start_time,
         voting_end_time |-> args.voting_end_time,
         platform_fee |-> platform_config.fee, fee |-> args.fee,
         fee_destination |-> args.fee_destination, tally |-> <<>>]
  BY <1>1 DEF CreatePoll
<1>3. poll'[p] \in PollType
  BY <1>1, <1>2 DEF PollType, PollArgType, PlatformConfigType
<1>4. relayer_state'[p] =
        [root_state |-> EmptyTrees, fee |-> relayer_config.fee,
         msg_limit |-> MSG_LIMIT, end_time |-> args.voting_end_time]
  BY <1>1 DEF CreatePoll, CreateRelayerState
<1>5. EmptyTrees \in TreesType
  BY DEF EmptyTrees, TreesType, NoQuotas
<1>6. relayer_state'[p] \in RelayerStateType
  BY <1>1, <1>4, <1>5, ChainConstants DEF RelayerStateType, RelayerConfigType, PollArgType
<1> QED
  BY <1>3, <1>6, NullIsNoAccount

\* The deposit of a new poll.
LEMMA DepositCreated ==
    ASSUME TypeOK, OneFee, platform_config \in PlatformConfigs,
           NEW p \in PollIds, NEW args \in PollArgs, CreatePoll(p, args),
           lamports[p] = 0
    PROVE  /\ poll'[p].platform_fee = platform_config.fee
           /\ relayer_state'[p].root_state = EmptyTrees
           /\ relayer_state'[p].fee = relayer_config.fee
           /\ n_voters'[p] = args.n_voters
           /\ lamports'[p] = (relayer_config.fee + platform_config.fee)
                             * (MSG_LIMIT * args.n_voters)
<1>1. /\ lamports \in [PollIds -> Nat] /\ n_voters \in [PollIds -> Nat]
      /\ relayer_state \in [PollIds -> RelayerStateType \union {Null}]
      /\ poll \in [PollIds -> PollType \union {Null}]
      /\ platform_config \in PlatformConfigType
      /\ relayer_config \in RelayerConfigType
  BY ChainConstants DEF TypeOK, CreatePoll
<1>2. /\ poll'[p].platform_fee = platform_config.fee
      /\ relayer_state'[p].root_state = EmptyTrees
      /\ relayer_state'[p].fee = relayer_config.fee
      /\ n_voters'[p] = args.n_voters
  BY <1>1 DEF CreatePoll, CreateRelayerState
<1>3. lamports'[p] = lamports[p] + DepositFor(args.n_voters)
  BY <1>1 DEF CreatePoll
<1>4. /\ relayer_config.fee \in Nat /\ platform_config.fee \in Nat
      /\ MSG_LIMIT \in Nat /\ args \in PollArgType /\ args.n_voters \in Nat
  BY <1>1, ChainConstants DEF RelayerConfigType, PlatformConfigType, PollArgType
<1>x. PICK x \in Nat : x = relayer_config.fee + platform_config.fee
  BY <1>4
<1>y. PICK y \in Nat : y = MSG_LIMIT
  BY <1>4
<1>z. PICK z \in Nat : z = args.n_voters
  BY <1>4
<1>5. DepositFor(args.n_voters) = x * y * 1 * z
  BY <1>x, <1>y, <1>z DEF DepositFor, N_RELAYERS
<1>6. x * y * 1 * z = x * (y * z) /\ x * (y * z) \in Nat
  OBVIOUS
<1> QED
  <2>1. lamports'[p] = x * (y * z)
    BY <1>3, <1>5, <1>6
  <2> QED
    BY <1>2, <1>x, <1>y, <1>z, <2>1

\* What a relay takes from the deposit is what one message less is owed.
LEMMA OneMessageLess ==
    ASSUME NEW fee \in Nat, NEW owed \in Int
    PROVE  fee * owed - fee = fee * (owed - 1)
OBVIOUS

\* While platform fees do not change, deposits are accounted for.
LEMMA DepositInvStep ==
    OneFee /\ TypeOK /\ TreesInv /\ DepositInv /\ [Next]_vars => DepositInv'
<1> SUFFICES ASSUME OneFee, TypeOK, TreesInv, DepositInv, [Next]_vars PROVE DepositInv'
  OBVIOUS
<1>1. platform_config' # Null => platform_config' \in PlatformConfigs
  BY DEF Next, vars, Tick, Initialize, UpdateConfig, InitializeRelayer,
         UpdateRelayerConfig, CreatePoll, Vote, Relay, WithdrawPoll, CreateTally,
         TallyBatch, FinishTally, CloseTally, DepositInv
<1> DEFINE Owed(p) == MSG_LIMIT * n_voters[p]
                        - Cardinality(relayer_state[p].root_state.uniq)
           Exact(p) == poll[p] # Null /\ now < poll[p].voting_end_time =>
                 lamports[p] = (relayer_state[p].fee + poll[p].platform_fee) * Owed(p)
           Sound(p) == /\ poll[p] = Null => lamports[p] = 0
                       /\ poll[p] # Null =>
                            /\ relayer_state[p] # Null
                            /\ \A a \in PlatformConfigs : poll[p].platform_fee = a.fee
                       /\ Exact(p)
<1>2. ASSUME NEW p \in PollIds PROVE Sound(p)'
  <2>1. Sound(p)
    BY DEF DepositInv, DepositAccounting
  <2>2. TypeOK' /\ now' >= now /\ now \in Nat /\ now' \in Nat
    BY TypeStep, PollStep DEF TypeOK
  <2>3. poll[p] # Null =>
          /\ poll'[p] # Null
          /\ poll'[p].voting_end_time = poll[p].voting_end_time
          /\ poll'[p].platform_fee = poll[p].platform_fee
          /\ poll[p].voting_end_time \in Nat
    BY PollKeeps DEF TypeOK, PollType
  <2>4. poll[p] # Null /\ now' < poll'[p].voting_end_time => now < poll[p].voting_end_time
    BY <2>2, <2>3
  <2>5. CASE DepositUntouched(p)
    BY <2>1, <2>3, <2>4, <2>5 DEF DepositUntouched
  <2>6. ASSUME NEW args \in PollArgs, CreatePoll(p, args) PROVE Sound(p)'
    <3>1. poll[p] = Null /\ platform_config # Null /\ platform_config \in PlatformConfigs
      BY <2>6 DEF CreatePoll, DepositInv
    <3>2. /\ poll'[p].platform_fee = platform_config.fee
          /\ relayer_state'[p].root_state = EmptyTrees
          /\ relayer_state'[p].fee = relayer_config.fee
          /\ n_voters'[p] = args.n_voters
          /\ lamports'[p] = (relayer_config.fee + platform_config.fee)
                            * (MSG_LIMIT * args.n_voters)
      BY <2>1, <2>6, <3>1, DepositCreated
    <3>3. poll'[p] # Null /\ relayer_state'[p] # Null
      BY <2>6, CreatedAccounts
    <3>4. Cardinality(relayer_state'[p].root_state.uniq) = 0
      BY <3>2, FS_EmptySet DEF EmptyTrees
    <3>5. MSG_LIMIT * args.n_voters \in Nat
      BY ChainConstants DEF PollArgType
    <3>6. lamports'[p] = (relayer_state'[p].fee + poll'[p].platform_fee) * Owed(p)'
      <4>1. PICK x : x = MSG_LIMIT * args.n_voters /\ x \in Nat
        BY <3>5
      <4>2. Owed(p)' = x
        BY <3>2, <3>4, <4>1
      <4> QED
        BY <3>2, <4>1, <4>2
    <3>7. \A a \in PlatformConfigs : poll'[p].platform_fee = a.fee
      BY <3>1, <3>2 DEF OneFee
    <3> QED
      BY <3>3, <3>6, <3>7
  <2>7. ASSUME NEW k \in Keys, NEW m \in Messages, Relay(p, k, m) PROVE Sound(p)'
    <3>1. /\ poll[p] # Null /\ poll'[p] # Null
          /\ relayer_state[p] # Null /\ relayer_state'[p] # Null
          /\ relayer_state'[p].root_state =
               RelayRootNew(relayer_state[p].root_state, RelayerNu(m, k), m)
      BY <2>7, RelayEffect
    <3>2. /\ m \notin relayer_state[p].root_state.uniq
          /\ relayer_state'[p].fee = relayer_state[p].fee
          /\ platform_config # Null
          /\ lamports' = [lamports EXCEPT ![p] =
                            @ - (relayer_state[p].fee + platform_config.fee)]
      BY <2>7, RelayChecks
    <3>3. n_voters' = n_voters
      BY <2>7 DEF Relay
    <3>4. poll[p].platform_fee = platform_config.fee
      BY <2>1, <3>1, <3>2 DEF DepositInv
    <3>5. /\ relayer_state[p] \in RelayerStateType /\ poll[p] \in PollType
          /\ relayer_state[p].root_state \in TreesType
          /\ lamports \in [PollIds -> Nat] /\ n_voters[p] \in Nat
      BY <3>1 DEF TypeOK, RelayerStateType
    <3>6. IsFiniteSet(relayer_state[p].root_state.uniq)
      BY <3>1 DEF TreesInv, TreesMeaning
    <3>7. relayer_state'[p].root_state.uniq = relayer_state[p].root_state.uniq \union {m}
      BY <3>1, <3>5, NuType, RootNewType
    <3>8. PICK c \in Nat : /\ c = Cardinality(relayer_state[p].root_state.uniq)
                           /\ c + 1 = Cardinality(relayer_state'[p].root_state.uniq)
      <4>1. Cardinality(relayer_state[p].root_state.uniq) \in Nat
        BY <3>6, FS_CardinalityType
      <4>2. Cardinality(relayer_state[p].root_state.uniq \union {m})
              = Cardinality(relayer_state[p].root_state.uniq) + 1
        BY <3>2, <3>6, FS_AddElement
      <4> QED
        BY <3>7, <4>1, <4>2
    <3>9. PICK fee \in Nat : fee = relayer_state[p].fee + poll[p].platform_fee
      BY <3>5 DEF RelayerStateType, PollType
    <3>10. PICK x \in Int : x = MSG_LIMIT * n_voters[p]
      BY <3>5, ChainConstants
    <3>11. Owed(p) = x - c /\ Owed(p)' = (x - c) - 1
      BY <3>3, <3>8, <3>10
    <3>12. lamports'[p] = lamports[p] - fee
      BY <3>2, <3>4, <3>5, <3>9
    <3>13. (fee * (x - c)) - fee = fee * ((x - c) - 1)
      BY <3>8, <3>9, <3>10, OneMessageLess
    <3>14. relayer_state'[p].fee + poll'[p].platform_fee = fee
      BY <2>3, <3>1, <3>2, <3>9
    <3>15. Exact(p)'
      <4>1. SUFFICES ASSUME now' < poll'[p].voting_end_time
                     PROVE  lamports'[p] = fee * ((x - c) - 1)
        BY <3>11, <3>14
      <4>2. lamports[p] = fee * (x - c)
        BY <2>1, <2>4, <3>1, <3>9, <3>11, <4>1
      <4> QED
        BY <3>12, <3>13, <4>2
    <3> QED
      BY <2>1, <2>3, <3>1, <3>15
  <2>8. CASE WithdrawPoll(p)
    <3>1. /\ poll[p] # Null /\ now' = now /\ now >= poll[p].voting_end_time
          /\ UNCHANGED <<poll, relayer_state>>
      BY <2>8 DEF WithdrawPoll
    <3>2. ~ (now' < poll'[p].voting_end_time)
      BY <2>2, <2>3, <3>1
    <3> QED
      BY <2>1, <3>1, <3>2
  <2> QED
    BY <2>5, <2>6, <2>7, <2>8, DepositStep
<1> QED
  BY <1>1, <1>2 DEF DepositInv, DepositAccounting

\* In every reachable state before the vote ends, a poll's deposit is exactly
\* what the messages not yet relayed will be charged (create_poll,
\* vote_with_relayer, withdraw_poll), if the platform fee does not change.
THEOREM DepositIsAccounted == ASSUME OneFee PROVE Spec => []DepositAccounting
<1>1. OneFee
  OBVIOUS
<1>2. Init => DepositInv
  BY DEF Init, DepositInv, DepositAccounting
<1>3. TypeOK /\ TreesInv /\ DepositInv /\ [Next]_vars => DepositInv'
  BY <1>1, DepositInvStep
<1>4. DepositInv => DepositAccounting
  BY DEF DepositInv
<1> QED
  BY <1>2, <1>3, <1>4, TypeCorrect, TreesInvariant, PTL DEF Spec

\* With one relayer key, a member who may have one more message relayed leaves
\* room for it under the limit of the whole census.
LEMMA RoomForOneMore ==
    ASSUME NEW p \in PollIds, NEW census \in SUBSET Voters, NEW trees \in TreesType,
           TreesMeaning(p, census, trees), NEW key \in Keys, NEW v \in census,
           trees.quota[<<p, v, key>>] < MSG_LIMIT,
           \A nu \in RelayerNus : trees.quota[nu] > 0 => nu[3] = key
    PROVE  /\ Cardinality(census) \in Nat /\ Cardinality(trees.uniq) \in Nat
           /\ Cardinality(trees.uniq) + 1 <= MSG_LIMIT * Cardinality(census)
<1> DEFINE G == [m \in Messages |-> m.voter]
           F(s) == Fibre(trees.uniq, G, s)
<1>0. /\ MSG_LIMIT \in Nat /\ IsFiniteSet(trees.uniq) /\ IsFiniteSet(census)
      /\ trees.uniq \in SUBSET Messages /\ IsFiniteSet(Keys)
  BY ChainConstants, CircuitConstants, FS_Subset DEF TreesMeaning, TreesType
<1>1. ASSUME NEW w \in census
      PROVE  /\ F({w}) = RelayedBy(trees, w)
             /\ Cardinality(F({w})) = trees.quota[<<p, w, key>>]
             /\ trees.quota[<<p, w, key>>] \in Nat
             /\ trees.quota[<<p, w, key>>] <= MSG_LIMIT
  <2>1. F({w}) = RelayedBy(trees, w)
    BY <1>0 DEF Fibre, RelayedBy
  <2>2. \A k \in Keys : trees.quota[<<p, w, k>>] \in Nat
    BY DEF TreesType, RelayerNus
  <2>3. PICK f \in [Keys -> Int] : f = QuotasOf(trees, p, w)
    <3>1. QuotasOf(trees, p, w) \in [Keys -> Int]
      BY <2>2 DEF QuotasOf
    <3> QED
      BY <3>1
  <2>4. \A k \in Keys \ {key} : f[k] = 0
    <3>1. ASSUME NEW k \in Keys \ {key} PROVE trees.quota[<<p, w, k>>] = 0
      <4>1. <<p, w, k>> \in RelayerNus /\ <<p, w, k>>[3] = k
        BY DEF RelayerNus
      <4>2. ~ (trees.quota[<<p, w, k>>] > 0)
        BY <4>1
      <4> QED
        BY <2>2, <4>2
    <3> QED
      BY <2>3, <3>1 DEF QuotasOf
  <2>5. SumFunction(f) = f[key]
    BY <1>0, <2>4, SumOne
  <2>6. Cardinality(RelayedBy(trees, w)) = SumFunction(f) /\ f[key] = trees.quota[<<p, w, key>>]
    BY <2>3 DEF TreesMeaning, QuotasOf
  <2>7. trees.quota[<<p, w, key>>] <= MSG_LIMIT
    BY DEF TreesMeaning
  <2> QED
    BY <2>1, <2>2, <2>5, <2>6, <2>7
<1>2. trees.uniq = F(census)
  BY <1>0 DEF Fibre, TreesMeaning
<1> HIDE DEF F, G
<1>3. /\ Cardinality(F(census)) = Cardinality(F({v})) + Cardinality(F(census \ {v}))
      /\ Cardinality(F({v})) \in Nat /\ Cardinality(F(census \ {v})) \in Nat
  <2>1. \A s : Cardinality(F(s)) \in Nat
    <3>1. \A s : F(s) \in SUBSET trees.uniq
      BY DEF F, Fibre
    <3> QED
      BY <1>0, <3>1, FS_Subset, FS_CardinalityType
  <2>2. PICK X, s : X = trees.uniq /\ s = census /\ IsFiniteSet(X) /\ v \in s
    BY <1>0
  <2>3. Cardinality(Fibre(X, G, s))
          = Cardinality(Fibre(X, G, {v})) + Cardinality(Fibre(X, G, s \ {v}))
    BY <2>2, FibreRemove
  <2> QED
    BY <2>1, <2>2, <2>3 DEF F
<1>4. Cardinality(F(census \ {v})) <= MSG_LIMIT * Cardinality(census \ {v})
  <2>1. IsFiniteSet(census \ {v})
    BY <1>0, FS_RemoveElement
  <2>2. \A w \in census \ {v} : Cardinality(F({w})) <= MSG_LIMIT
    BY <1>1
  <2> QED
    BY <1>0, <2>1, <2>2, FibreBound DEF F
<1>5. /\ Cardinality(census) \in Nat
      /\ Cardinality(census \ {v}) = Cardinality(census) - 1
  BY <1>0, FS_RemoveElement, FS_CardinalityType
<1>6. Cardinality(F({v})) + 1 <= MSG_LIMIT
  BY <1>0, <1>1
<1>7. PICK l \in Nat : l = MSG_LIMIT
  BY <1>0
<1>8. PICK n \in Nat : n = Cardinality(census)
  BY <1>5
<1>9. l * (n - 1) = l * n - l
  OBVIOUS
<1>10. l * n \in Nat
  OBVIOUS
<1> QED
  BY <1>2, <1>3, <1>4, <1>5, <1>6, <1>7, <1>8, <1>9, <1>10

\* A fee is paid for as long as one message is owed.
LEMMA OneMessageOwed ==
    ASSUME NEW fee \in Nat, NEW owed \in Int, owed >= 1
    PROVE  fee * owed >= fee
<1>1. PICK x \in Nat : owed = x + 1
  BY owed - 1 \in Nat
<1>2. fee * owed = fee * x + fee /\ fee * x \in Nat
  BY <1>1
<1> QED
  BY <1>2

\* A larger census is owed at least as many messages.
LEMMA MoreMembers ==
    ASSUME NEW l \in Nat, NEW a \in Nat, NEW b \in Nat, a <= b
    PROVE  l * a <= l * b
<1>1. PICK d \in Nat : b = a + d
  BY b - a \in Nat
<1>2. l * b = l * a + l * d /\ l * d \in Nat /\ l * a \in Nat
  BY <1>1
<1> QED
  BY <1>2

\* Before the voting ends, the deposit of a poll pays for every message that
\* relay accepts, if its creator announced the whole census, one relayer key
\* was used and the platform fee does not change (create_poll,
\* vote_with_relayer, relay).
THEOREM RelaysAreFunded == ASSUME OneFee PROVE Spec => []RelayFunded
<1>1. OneFee
  OBVIOUS
<1>2. Init => DepositInv
  BY DEF Init, DepositInv, DepositAccounting
<1>3. TypeOK /\ TreesInv /\ DepositInv /\ [Next]_vars => DepositInv'
  BY <1>1, DepositInvStep
<1>4. TypeOK /\ TreesInv /\ DepositInv => RelayFunded
  <2> SUFFICES ASSUME TypeOK, TreesInv, DepositInv,
                      NEW p \in PollIds, NEW m \in Messages,
                      Relayable(p, m), now < poll[p].voting_end_time,
                      n_voters[p] >= Cardinality(poll[p].census_root),
                      \A nu \in RelayerNus : relayer_state[p].root_state.quota[nu] > 0
                                             => nu[3] = relayer_config.fee_key
               PROVE  lamports[p] >= relayer_state[p].fee + platform_config.fee
    BY DEF RelayFunded, Funded
  <2>1. /\ platform_config # Null /\ relayer_config # Null
        /\ poll[p] # Null /\ relayer_state[p] # Null
        /\ relayer_state[p].root_state.quota[RelayerNu(m, relayer_config.fee_key)]
              < relayer_state[p].msg_limit
        /\ m.voter \in poll[p].census_root /\ m.poll = p
    BY DEF Relayable, RelayCircuit, VoteCircuit
  <2>2. /\ poll[p] \in PollType /\ relayer_state[p] \in RelayerStateType
        /\ relayer_config \in RelayerConfigType /\ n_voters[p] \in Nat
        /\ lamports[p] \in Nat
    BY <2>1 DEF TypeOK
  <2>3. /\ relayer_state[p].root_state \in TreesType
        /\ poll[p].census_root \in SUBSET Voters
        /\ relayer_config.fee_key \in Keys
    BY <2>2 DEF RelayerStateType, PollType, RelayerConfigType
  <2>4. /\ TreesMeaning(p, poll[p].census_root, relayer_state[p].root_state)
        /\ relayer_state[p].msg_limit = MSG_LIMIT
    BY <2>1 DEF TreesInv
  <2>5. relayer_state[p].root_state.quota[<<p, m.voter, relayer_config.fee_key>>] < MSG_LIMIT
    BY <2>1, <2>4 DEF RelayerNu
  <2> DEFINE c == Cardinality(relayer_state[p].root_state.uniq)
             n == Cardinality(poll[p].census_root)
  <2>6. c \in Nat /\ n \in Nat /\ c + 1 <= MSG_LIMIT * n
    BY <2>1, <2>3, <2>4, <2>5, RoomForOneMore
  <2>7. MSG_LIMIT \in Nat /\ MSG_LIMIT * n <= MSG_LIMIT * n_voters[p]
    BY <2>2, <2>6, ChainConstants, MoreMembers
  <2>8. PICK fee \in Nat : fee = relayer_state[p].fee + platform_config.fee
    BY <2>1, <2>2, ChainConstants DEF RelayerStateType, DepositInv, PlatformConfigType
  <2>9. poll[p].platform_fee = platform_config.fee
    BY <2>1 DEF DepositInv
  <2>10. lamports[p] = fee * (MSG_LIMIT * n_voters[p] - c)
    BY <2>1, <2>8, <2>9 DEF DepositInv, DepositAccounting
  <2>11. PICK owed \in Int : owed = MSG_LIMIT * n_voters[p] - c
    BY <2>2, <2>6, <2>7
  <2>12. owed >= 1
    <3>1. PICK x \in Nat : x = MSG_LIMIT * n_voters[p]
      BY <2>2, <2>7
    <3>2. PICK y \in Nat : y = MSG_LIMIT * n
      BY <2>6, <2>7
    <3> QED
      BY <2>6, <2>7, <2>11, <3>1, <3>2
  <2> QED
    BY <2>8, <2>10, <2>11, <2>12, OneMessageOwed
<1> QED
  BY <1>2, <1>3, <1>4, TypeCorrect, TreesInvariant, PTL DEF Spec
=============================================================================
