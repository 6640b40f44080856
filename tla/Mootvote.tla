------------------------------ MODULE Mootvote ------------------------------
(***************************************************************************)
(* The two on-chain programs, mootvote and zk-relayer, which call each     *)
(* other synchronously (create_poll calls create_relayer_state, relay      *)
(* calls vote_with_relayer).  An action is one successful transaction; a   *)
(* transaction that fails any check is rolled back by the runtime and is   *)
(* no step.                                                                *)
(***************************************************************************)
EXTENDS Circuits, Functions

CONSTANTS
    Keys,              \* public keys of relayers, fee destinations, talliers
    Null,              \* an account that does not exist; also the zero key
    MSG_LIMIT,         \* messages per voter per relayer
    MAX_POLL_DURATION,
    U64_MAX,           \* largest u64; arithmetic beyond it aborts
    ENDPOINT_SLACK,    \* spare bytes of the relayer config account
    PlatformConfigs,   \* arguments of mootvote's initialize, update_config
    RelayerConfigs,    \* arguments of zk-relayer's initialize, update_config
    PollArgs,          \* arguments of create_poll
    InitialTallies,    \* openings of the initial_tally_hash of create_tally
    MaxTime,           \* bound: the last value of the clock
    MaxMsgs            \* bound: messages per poll and per tally account

N_RELAYERS == 1

TallyAccounts == PollIds \X Keys
RelayerNus == PollIds \X Voters \X Keys
NoQuotas == [nu \in RelayerNus |-> 0]

PlatformConfigType == [admin : Keys, fee_destination : Keys, fee : Nat]
RelayerArgType == [admin : Keys, fee : Nat, fee_key : Keys, endpoint : Nat]
PollArgType ==
    [n_choices : Nat, census_root : SUBSET Voters, voting_start_time : Nat,
     voting_end_time : Nat, fee : Nat, fee_destination : Keys, n_voters : Nat]

ASSUME ChainConstants ==
    /\ IsFiniteSet(Keys)
    /\ MSG_LIMIT \in Nat /\ MAX_POLL_DURATION \in Nat /\ U64_MAX \in Nat
    /\ ENDPOINT_SLACK \in Nat /\ MaxTime \in Nat /\ MaxMsgs \in Nat
    /\ PlatformConfigs \subseteq PlatformConfigType
    /\ RelayerConfigs \subseteq RelayerArgType
    /\ PollArgs \subseteq PollArgType
    /\ InitialTallies \subseteq [1..MAX_CHOICES -> Nat]

PollType ==
    [n_choices : Nat, census_root : SUBSET Voters,
     cumulative_msg_hash : Seq(Messages),
     voting_start_time : Nat, voting_end_time : Nat,
     platform_fee : Nat, fee : Nat, fee_destination : Keys, tally : Seq(Int)]

\* What the root_state of a relayer state commits to.
TreesType == [quota : [RelayerNus -> Nat], uniq : SUBSET Messages]
EmptyTrees == [quota |-> NoQuotas, uniq |-> {}]

RelayerStateType ==
    [root_state : TreesType, fee : Nat, msg_limit : Nat, end_time : Nat]

TallyType ==
    [tally_hash : Tallies, cumulative_msg_hash : Seq(Messages), root : Trees]

RelayerConfigType ==
    [admin : Keys, fee : Nat, fee_key : Keys, endpoint : Nat,
     space : Nat, rent : Nat]

ASSUME NullIsNoAccount ==
    /\ Null \notin Keys
    /\ Null \notin PlatformConfigType
    /\ Null \notin RelayerConfigType
    /\ Null \notin PollType
    /\ Null \notin RelayerStateType
    /\ Null \notin TallyType

VARIABLES
    now,             \* unix_timestamp of the Clock sysvar
    platform_config, \* PlatformConfig account
    relayer_config,  \* ZkRelayerConfig account
    poll,            \* Poll account of every poll id
    relayer_state,   \* RelayerState account of every poll id
    tally,           \* Tally account of every (poll id, owner)
    lamports,        \* balance of every Poll account above its rent minimum
    wallet,          \* lamports every key received from the two programs
    n_voters         \* history: n_voters announced by every CreatePollEvent

vars == <<now, platform_config, relayer_config, poll, relayer_state, tally,
          lamports, wallet, n_voters>>

Init ==
    /\ now = 0
    /\ platform_config = Null
    /\ relayer_config = Null
    /\ poll = [p \in PollIds |-> Null]
    /\ relayer_state = [p \in PollIds |-> Null]
    /\ tally = [t \in TallyAccounts |-> Null]
    /\ lamports = [p \in PollIds |-> 0]
    /\ wallet = [k \in Keys |-> 0]
    /\ n_voters = [p \in PollIds |-> 0]

Tick ==
    /\ now < MaxTime
    /\ now' = now + 1
    /\ UNCHANGED <<platform_config, relayer_config, poll, relayer_state,
                   tally, lamports, wallet, n_voters>>

-----------------------------------------------------------------------------
(* Configuration accounts *)

Initialize(args) ==
    /\ platform_config = Null
    /\ platform_config' = args
    /\ UNCHANGED <<now, relayer_config, poll, relayer_state, tally, lamports,
                   wallet, n_voters>>

UpdateConfig(signer, args) ==
    /\ platform_config # Null
    /\ signer = platform_config.admin
    /\ platform_config' = args
    /\ UNCHANGED <<now, relayer_config, poll, relayer_state, tally, lamports,
                   wallet, n_voters>>

InitializeRelayer(args) ==
    /\ relayer_config = Null
    /\ relayer_config' =
         [admin |-> args.admin, fee |-> args.fee, fee_key |-> args.fee_key,
          endpoint |-> args.endpoint,
          space |-> args.endpoint + ENDPOINT_SLACK,
          rent  |-> args.endpoint + ENDPOINT_SLACK]
    /\ UNCHANGED <<now, platform_config, poll, relayer_state, tally, lamports,
                   wallet, n_voters>>

\* The rent of the difference in length is paid in or out, but the account
\* keeps its size: a longer endpoint must fit, and the runtime refuses to
\* leave the account below its rent minimum.
UpdateRelayerConfig(signer, args) ==
    /\ relayer_config # Null
    /\ signer = relayer_config.admin
    /\ LET rent == relayer_config.rent + args.endpoint - relayer_config.endpoint
       IN  /\ args.endpoint <= relayer_config.space
           /\ rent >= relayer_config.space
           /\ relayer_config' =
                [admin |-> args.admin, fee |-> args.fee,
                 fee_key |-> args.fee_key, endpoint |-> args.endpoint,
                 space |-> relayer_config.space, rent |-> rent]
    /\ UNCHANGED <<now, platform_config, poll, relayer_state, tally, lamports,
                   wallet, n_voters>>

-----------------------------------------------------------------------------
(* Polls *)

\* The CPI of create_poll into zk-relayer.
CreateRelayerState(id, msg_limit, end_time) ==
    /\ relayer_state[id] = Null
    /\ relayer_state' = [relayer_state EXCEPT ![id] =
         [root_state |-> EmptyTrees,
          fee |-> relayer_config.fee,
          msg_limit |-> msg_limit,
          end_time |-> end_time]]

\* Faulty variant: the product wraps around instead of aborting.
DepositForWrapping(voters) ==
    ((relayer_config.fee + platform_config.fee) * MSG_LIMIT * N_RELAYERS * voters)
      % (U64_MAX + 1)

DepositFor(voters) ==
    (relayer_config.fee + platform_config.fee) * MSG_LIMIT * N_RELAYERS * voters

CreatePoll(id, args) ==
    /\ platform_config # Null
    /\ relayer_config # Null
    /\ poll[id] = Null
    /\ args.n_choices > 0
    /\ args.voting_end_time > args.voting_start_time
    /\ args.voting_end_time - args.voting_start_time <= MAX_POLL_DURATION
    /\ DepositFor(args.n_voters) <= U64_MAX
    /\ poll' = [poll EXCEPT ![id] =
         [n_choices |-> args.n_choices,
          census_root |-> args.census_root,
          cumulative_msg_hash |-> <<>>,
          voting_start_time |-> args.voting_start_time,
          voting_end_time |-> args.voting_end_time,
          platform_fee |-> platform_config.fee,
          fee |-> args.fee,
          fee_destination |-> args.fee_destination,
          tally |-> <<>>]]
    /\ lamports' = [lamports EXCEPT ![id] = @ + DepositFor(args.n_voters)]
    /\ CreateRelayerState(id, MSG_LIMIT, args.voting_end_time)
    /\ n_voters' = [n_voters EXCEPT ![id] = args.n_voters]
    /\ UNCHANGED <<now, platform_config, relayer_config, tally, wallet>>

Credit(w, key, amount) == [w EXCEPT ![key] = @ + amount]

VotingOpen(p) ==
    /\ poll[p].voting_start_time <= now
    /\ now <= poll[p].voting_end_time

\* Shared by vote and vote_with_relayer.
VoteCommon(p, m, relayer_nu_hash, relayer_id) ==
    /\ VotingOpen(p)
    /\ VoteCircuit(m, relayer_nu_hash, poll[p].census_root, p,
                   poll[p].n_choices, relayer_id, Null)
    /\ Len(poll[p].cumulative_msg_hash) < MaxMsgs
    /\ poll' = [poll EXCEPT ![p].cumulative_msg_hash = Append(@, m)]

\* A voter, or anyone who holds the message and its proof, pays both fees.
Vote(p, m) ==
    /\ platform_config # Null
    /\ poll[p] # Null
    /\ wallet' = Credit(Credit(wallet, poll[p].fee_destination, poll[p].fee),
                        platform_config.fee_destination, poll[p].platform_fee)
    /\ VoteCommon(p, m, Null, Null)
    /\ UNCHANGED <<now, platform_config, relayer_config, relayer_state, tally,
                   lamports, n_voters>>

\* Faulty variant: the balance is not checked before it is debited.
DebitUnchecked(p, amount) ==
    lamports' = [lamports EXCEPT ![p] = @ - amount]

\* transfer out of a Poll account; it must keep its rent minimum.
Debit(p, amount) ==
    /\ lamports[p] >= amount
    /\ lamports' = [lamports EXCEPT ![p] = @ - amount]

\* The CPI of relay into mootvote: the poll's deposit pays both fees.
VoteWithRelayer(p, relayer, m, relayer_nu_hash) ==
    /\ platform_config # Null
    /\ poll[p] # Null
    /\ Debit(p, relayer_state[p].fee + platform_config.fee)
    /\ wallet' = Credit(Credit(wallet, relayer, relayer_state[p].fee),
                        platform_config.fee_destination, platform_config.fee)
    /\ VoteCommon(p, m, relayer_nu_hash, relayer)

Relay(p, relayer, m) ==
    /\ relayer_config # Null
    /\ relayer = relayer_config.fee_key
    /\ relayer_state[p] # Null
    /\ LET nu    == RelayerNu(m, relayer)
           state == relayer_state[p]
       IN  /\ RelayCircuit(state.root_state, nu, m, state.msg_limit)
           /\ relayer_state' = [relayer_state EXCEPT ![p].root_state =
                                  RelayRootNew(@, nu, m)]
           /\ VoteWithRelayer(p, relayer, m, <<nu, m>>)
           /\ wallet'[relayer] > wallet[relayer]
           /\ wallet'[relayer] - wallet[relayer] >= state.fee
    /\ UNCHANGED <<now, platform_config, relayer_config, tally, n_voters>>

WithdrawPoll(p) ==
    /\ poll[p] # Null
    /\ now >= poll[p].voting_end_time
    /\ wallet' = Credit(wallet, poll[p].fee_destination, lamports[p])
    /\ Debit(p, lamports[p])
    /\ UNCHANGED <<now, platform_config, relayer_config, poll, relayer_state,
                   tally, n_voters>>

-----------------------------------------------------------------------------
(* Tallies.  tally_hash is modelled by the counters it hashes; the salt    *)
(* hashed with them only hides them.                                       *)

CreateTally(t, initial_tally) ==
    /\ tally' = [tally EXCEPT ![t] =
         [tally_hash |-> initial_tally,
          cumulative_msg_hash |-> <<>>,
          root |-> EmptyTree]]
    /\ UNCHANGED <<now, platform_config, relayer_config, poll, relayer_state,
                   lamports, wallet, n_voters>>

TallyBatch(t, batch) ==
    /\ tally[t] # Null
    /\ LET old == tally[t]
           out == TallyOut(old.root, old.tally_hash, batch)
       IN  /\ Len(old.cumulative_msg_hash) + Len(batch) <= MaxMsgs
           /\ TallyCircuit(old.cumulative_msg_hash, old.tally_hash, batch)
           /\ tally' = [tally EXCEPT ![t] =
                [tally_hash |-> out.tally,
                 cumulative_msg_hash |-> old.cumulative_msg_hash \o batch,
                 root |-> out.root]]
    /\ UNCHANGED <<now, platform_config, relayer_config, poll, relayer_state,
                   lamports, wallet, n_voters>>

\* Faulty variants: only the number of messages is compared; results are
\* accepted in the last second of the voting.
SameLength(p, t) ==
    Len(tally[t].cumulative_msg_hash) = Len(poll[p].cumulative_msg_hash)

VotingEnding(p) == now >= poll[p].voting_end_time

\* Every message of the poll was tallied, in order.
TallyComplete(p, t) ==
    tally[t].cumulative_msg_hash = poll[p].cumulative_msg_hash

VotingOver(p) == now > poll[p].voting_end_time

\* The counters that finish_tally opens are u64, those beyond n_choices are
\* zero, since zeroes pad the hashed tally, and MAX_CHOICES - n_choices must
\* not underflow.
CountersFit(p, t) ==
    /\ poll[p].n_choices <= MAX_CHOICES
    /\ \A c \in 1..poll[p].n_choices : tally[t].tally_hash[c] \in 0..U64_MAX
    /\ \A c \in (poll[p].n_choices + 1)..MAX_CHOICES : tally[t].tally_hash[c] = 0

\* Any Tally account may be offered for any poll.
FinishTally(p, t) ==
    /\ poll[p] # Null
    /\ tally[t] # Null
    /\ VotingOver(p)
    /\ TallyComplete(p, t)
    /\ CountersFit(p, t)
    /\ poll' = [poll EXCEPT ![p].tally =
                  [c \in 1..poll[p].n_choices |-> tally[t].tally_hash[c]]]
    /\ tally' = [tally EXCEPT ![t] = Null]
    /\ UNCHANGED <<now, platform_config, relayer_config, relayer_state,
                   lamports, wallet, n_voters>>

CloseTally(t) ==
    /\ tally[t] # Null
    /\ tally' = [tally EXCEPT ![t] = Null]
    /\ UNCHANGED <<now, platform_config, relayer_config, poll, relayer_state,
                   lamports, wallet, n_voters>>

-----------------------------------------------------------------------------

Batches == UNION {[1..n -> Messages] : n \in 0..MAX_BATCH}

Next ==
    \/ Tick
    \/ \E args \in PlatformConfigs : Initialize(args)
    \/ \E signer \in Keys, args \in PlatformConfigs : UpdateConfig(signer, args)
    \/ \E args \in RelayerConfigs : InitializeRelayer(args)
    \/ \E signer \in Keys, args \in RelayerConfigs :
          UpdateRelayerConfig(signer, args)
    \/ \E p \in PollIds, args \in PollArgs : CreatePoll(p, args)
    \/ \E p \in PollIds, m \in Messages : Vote(p, m)
    \/ \E p \in PollIds, k \in Keys, m \in Messages : Relay(p, k, m)
    \/ \E p \in PollIds : WithdrawPoll(p)
    \/ \E t \in TallyAccounts, initial \in InitialTallies :
          CreateTally(t, initial)
    \/ \E t \in TallyAccounts, batch \in Batches : TallyBatch(t, batch)
    \/ \E p \in PollIds, t \in TallyAccounts : FinishTally(p, t)
    \/ \E t \in TallyAccounts : CloseTally(t)

Spec == Init /\ [][Next]_vars
-----------------------------------------------------------------------------
(* Properties *)

\* Every account has the shape its Anchor type declares.
TypeOK ==
    /\ now \in Nat
    /\ platform_config \in PlatformConfigType \union {Null}
    /\ relayer_config \in RelayerConfigType \union {Null}
    /\ poll \in [PollIds -> PollType \union {Null}]
    /\ relayer_state \in [PollIds -> RelayerStateType \union {Null}]
    /\ tally \in [TallyAccounts -> TallyType \union {Null}]
    /\ lamports \in [PollIds -> Nat]
    /\ wallet \in [Keys -> Nat]
    /\ n_voters \in [PollIds -> Nat]

\* However a tally was batched, restarted or mixed with messages of other
\* polls, a Tally account that has read some messages commits to the ballots
\* those messages produce and to their exact histogram (tally_batch,
\* create_tally and the Tally circuit).
TallyAccountFaithful ==
    \A t \in TallyAccounts : tally[t] # Null =>
        LET acc == tally[t]
        IN  /\ acc.root = Ballots(acc.cumulative_msg_hash)
            /\ acc.cumulative_msg_hash # <<>> =>
                  acc.tally_hash = Histogram(acc.root)

Tallied(p) ==
    /\ poll[p] # Null
    /\ poll[p].tally # <<>>
    /\ poll[p].cumulative_msg_hash # <<>>

\* A result that finish_tally published for a poll that received messages is
\* the count of the ballots of ALL accepted messages, whoever tallied it.
PublishedTallyCorrect ==
    \A p \in PollIds : Tallied(p) =>
        LET ballots == Ballots(poll[p].cumulative_msg_hash)
        IN  poll[p].tally = [c \in 1..poll[p].n_choices |-> Votes(ballots, c)]

\* Once a poll that received messages has a result, no later vote, tally or
\* second finish_tally changes the result or the messages it was computed from.
ResultFinal ==
    [][\A p \in PollIds : Tallied(p) => poll'[p] = poll[p]]_vars

\* The ballot of a voter who follows the revoting protocol is her latest
\* message, whatever repetitions of her own earlier messages (client retries,
\* replays of a direct vote by its holder) the chain accepted in between
\* (revoting keys in the Vote and Tally circuits).
LatestMessageCounts ==
    \A p \in PollIds : poll[p] # Null =>
        LET log == poll[p].cumulative_msg_hash
        IN  \A v \in Voters :
              LET sent == FirstSendings(log, <<p, v>>)
              IN  FollowsProtocol(log, <<p, v>>) =>
                    \A i \in sent : (\A j \in sent : j <= i) =>
                        Ballots(log)[<<p, v>>] =
                          [choice |-> log[i].choice, key |-> log[i].revotingKeyNew]

\* The published counts add up to at most the size of the census: nobody is
\* counted twice, counted in a poll of another census, or carried over from
\* another poll (census and poll id in the Vote circuit).
OneBallotPerMember ==
    \A p \in PollIds : Tallied(p) =>
        SumFunction(poll[p].tally) <= Cardinality(poll[p].census_root)

\* A tally account that has read all messages of a poll whose voting is over
\* passes the checks of finish_tally: no counter is negative, too large, or
\* beyond n_choices (finish_tally's checks against what the circuits guarantee).
CompleteTallyAccepted ==
    \A p \in PollIds, t \in TallyAccounts :
        /\ poll[p] # Null /\ tally[t] # Null
        /\ VotingOver(p) /\ TallyComplete(p, t)
        /\ poll[p].cumulative_msg_hash # <<>>
        => CountersFit(p, t)

-----------------------------------------------------------------------------
(* The relayers' deposit *)

\* A message the zk-relayer program would accept for p, its funding aside.
Relayable(p, m) ==
    /\ platform_config # Null /\ relayer_config # Null
    /\ poll[p] # Null /\ relayer_state[p] # Null
    /\ LET key == relayer_config.fee_key
           nu  == RelayerNu(m, key)
       IN  /\ RelayCircuit(relayer_state[p].root_state, nu, m,
                           relayer_state[p].msg_limit)
           /\ VotingOpen(p)
           /\ VoteCircuit(m, <<nu, m>>, poll[p].census_root, p,
                          poll[p].n_choices, key, Null)

Funded(p) == lamports[p] >= relayer_state[p].fee + platform_config.fee

\* Before the voting ends, the deposit taken by create_poll pays for every
\* message that relay accepts, provided the creator announced the whole
\* census and the relayer's key is the one that relayed before (N_RELAYERS):
\* a new key starts new quotas.
RelayFunded ==
    \A p \in PollIds, m \in Messages :
        /\ Relayable(p, m)
        /\ now < poll[p].voting_end_time
        /\ n_voters[p] >= Cardinality(poll[p].census_root)
        /\ \A nu \in RelayerNus : relayer_state[p].root_state.quota[nu] > 0
                                  => nu[3] = relayer_config.fee_key
        => Funded(p)

\* While platform fees do not change, what the deposit has lost before the
\* end of the voting is the two fees of each message relayed, once each.
DepositAccounting ==
    \A p \in PollIds : poll[p] # Null /\ now < poll[p].voting_end_time =>
        lamports[p] = (relayer_state[p].fee + poll[p].platform_fee)
                      * (MSG_LIMIT * n_voters[p]
                         - Cardinality(relayer_state[p].root_state.uniq))

\* The two relayer trees and the message log agree: every relayed message is
\* in the log, and each voter's quotas add up to her relayed messages, at
\* most MSG_LIMIT per relayer key (relay, Relay circuit).
RelayTreesAgree ==
    \A p \in PollIds : relayer_state[p] # Null =>
        LET state == relayer_state[p].root_state
            log   == poll[p].cumulative_msg_hash
        IN  /\ \A m \in state.uniq : \E i \in DOMAIN log : log[i] = m
            /\ \A v \in Voters :
                 /\ Cardinality({m \in state.uniq : m.voter = v}) =
                       SumFunction([k \in Keys |-> state.quota[<<p, v, k>>]])
                 /\ \A k \in Keys : state.quota[<<p, v, k>>] <= MSG_LIMIT
=============================================================================
