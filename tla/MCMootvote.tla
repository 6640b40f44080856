----------------------------- MODULE MCMootvote -----------------------------
(* Small instances of Mootvote for TLC. *)
EXTENDS Mootvote

CONSTANTS alice, bob, relayer, treasury

Msg(p, v, c, old, new, n) ==
    [poll |-> p, voter |-> v, choice |-> c,
     revotingKeyOld |-> old, revotingKeyNew |-> new, nonce |-> n]

Platform(fee) == [admin |-> treasury, fee_destination |-> treasury, fee |-> fee]
Relayer(key, fee, endpoint) ==
    [admin |-> treasury, fee |-> fee, fee_key |-> key, endpoint |-> endpoint]

PollFor(census, choices, start, end, announced) ==
    [n_choices |-> choices, census_root |-> census, voting_start_time |-> start,
     voting_end_time |-> end, fee |-> 1, fee_destination |-> treasury,
     n_voters |-> announced]

-----------------------------------------------------------------------------
(* One platform, one relayer; the fee configurations of the runs. *)

FreePlatform == {Platform(0)}
PaidPlatform == {Platform(1)}
RaisedPlatform == {Platform(1), Platform(2)}

OneRelayer == {Relayer(relayer, 1, 2)}
\* The key and the endpoint change; length 5 does not fit, 1 is below rent.
Relayers == {Relayer(k, 1, e) : k \in {relayer, treasury}, e \in {1, 3}}
             \union {Relayer(relayer, 1, 2), Relayer(relayer, 1, 5)}

-----------------------------------------------------------------------------
(* Tallying: alice revotes with 0 -> 1 -> 2; one of her messages would     *)
(* introduce the null key, and one names a choice the poll does not have.  *)
(* The initial tallies include a wrong one.                                *)

RevotingMessages ==
    {Msg(1, alice, 1, 0, 1, 0), Msg(1, alice, 2, 1, 2, 0),
     Msg(1, alice, 2, 1, 0, 0), Msg(1, alice, 3, 0, 1, 0)}

TallyInitials == {[c \in 1..MAX_CHOICES |-> 0],
                  [c \in 1..MAX_CHOICES |-> IF c = 1 THEN 1 ELSE 0]}

\* n_voters = 0: no deposit, so that only direct votes are sent.
DirectPoll == {PollFor({alice}, 2, 0, 1, 0)}

-----------------------------------------------------------------------------
(* Relaying: alice has more messages than her quota. *)

RelayMessages ==
    {Msg(1, alice, 1, 0, 1, n) : n \in 1..3}
      \union {Msg(1, bob, 1, 0, 1, n) : n \in 1..2}

\* The deposit of the second poll exceeds U64_MAX.
FundedPoll == {PollFor({alice, bob}, 1, 1, 2, 2),
               PollFor({alice, bob}, 1, 1, 2, 26)}
NoTallies == {}
=============================================================================
