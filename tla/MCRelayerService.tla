-------------------------- MODULE MCRelayerService --------------------------
(* Small instances of RelayerService for TLC. *)
EXTENDS RelayerService

CONSTANTS alice, bob, relayer, treasury

Msg(v, n) ==
    [poll |-> 1, voter |-> v, choice |-> 1,
     revotingKeyOld |-> 0, revotingKeyNew |-> 1, nonce |-> n]

\* alice has one message more than her quota; requests outnumber messages,
\* so that some are retries.  bob does not vote.
ServiceMessages == {Msg(alice, 1), Msg(alice, 2)}

OnePlatform == {[admin |-> treasury, fee_destination |-> treasury, fee |-> 1]}
OneRelayer ==
    {[admin |-> treasury, fee |-> 1, fee_key |-> relayer, endpoint |-> 2]}
OnePoll ==
    {[n_choices |-> 1, census_root |-> {alice, bob}, voting_start_time |-> 0,
      voting_end_time |-> 1, fee |-> 1, fee_destination |-> treasury,
      n_voters |-> 2]}
NoTallies == {}
=============================================================================
