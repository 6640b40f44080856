----------------------------- MODULE TallyClient -----------------------------
(***************************************************************************)
(* The tallier's browser (Tally.tsx) for one poll, with the instructions   *)
(* it sends to the mootvote program and the votes it reads from the        *)
(* indexer.  The tally store lives in IndexedDB and, copied, in every tab; *)
(* it is written after a transaction was sent, and nobody waits for the    *)
(* transaction.                                                            *)
(***************************************************************************)
EXTENDS Circuits

CONSTANTS
    Tabs,      \* browser tabs of the tallier
    Owners,    \* wallets; each has a Tally account of its own
    Poll,      \* the poll
    Census,    \* its census
    N_CHOICES, \* its number of choices
    None,      \* no store, no account, no result, no page, unknown
    Logs,      \* bound: what the log of the poll may become
    MaxFlight, \* bound: transactions in flight
    MaxFetches, \* bound: requests to the indexer under way
    MaxOrphans \* bound: handlers left behind by their component

\* TallyStore: processedAfterId and processedCount are the position of the
\* last processed message; the leaves are the tree.
TallyStores ==
    [processed : Nat, hash : Seq(Messages), salt : Nat, counts : Tallies,
     leaves : Trees]

ASSUME TallyClientConstants ==
    /\ IsFiniteSet(Tabs) /\ IsFiniteSet(Owners)
    /\ Poll \in PollIds
    /\ N_CHOICES \in 1..MAX_CHOICES
    /\ None \notin TallyStores /\ None \notin [1..N_CHOICES -> Nat]
    /\ {MaxFlight, MaxFetches, MaxOrphans} \subseteq Nat

VARIABLES
    log,       \* messages the chain accepted for the poll
    over,      \* voting_end_time has passed
    account,   \* Tally account of every owner
    result,    \* the published tally, None before
    network,   \* transactions sent and not settled
    indexed,   \* number of messages in the indexer's votes table
    idb,       \* the TallyStore in IndexedDB
    store,     \* the TallyStore in the state of every tab
    none_left, \* tabs whose `remaining` is 0
    fetches,   \* running refreshRemaining functions
    task,      \* the store the running handler of a tab will save
    orphans,   \* stores that handlers of unmounted components will save
    left,      \* number of handlers left behind so far
    open,      \* tabs that show the tally of the poll
    loaded,    \* tabs whose loadTallyStore has completed
    disturbed  \* history: the store may no longer match the account

remaining == <<none_left, fetches>>
vars == <<log, over, account, result, network, indexed, idb, store, remaining,
          task, orphans, left, open, loaded, disturbed>>

browser ==
    <<idb, store, remaining, task, orphans, left, open, loaded, disturbed>>
chain == <<log, over, account, result>>

\* Random salts are told apart by numbers; salt 0 opens a new account.
TallyHash(salt, counts) == [salt |-> salt, counts |-> counts]

\* A store nothing was processed into.
NoProgress ==
    [processed |-> 0, hash |-> <<>>, salt |-> 0, counts |-> ZeroTally,
     leaves |-> EmptyTree]

\* What the handlers work on: `store ?` with its alternatives.
Progress(s) == IF s = None THEN NoProgress ELSE s

TallyInit ==
    /\ log = <<>>
    /\ over = FALSE
    /\ account = [o \in Owners |-> None]
    /\ result = None
    /\ network = {}
    /\ indexed = 0
    /\ idb = None
    /\ store = [t \in Tabs |-> None]
    /\ none_left = {} /\ fetches = {}
    /\ task = [t \in Tabs |-> None]
    /\ orphans = {} /\ left = 0
    /\ open = {}
    /\ loaded = {}
    /\ disturbed = FALSE

-----------------------------------------------------------------------------
(* The chain and the indexer *)

\* vote
Vote(m) ==
    /\ ~over
    /\ Append(log, m) \in Logs
    /\ VoteCircuit(m, RelayerNuHash(m, None, None), Census, Poll, N_CHOICES,
                   None, None)
    /\ log' = Append(log, m)
    /\ UNCHANGED <<over, account, result, network, indexed, browser>>

EndVoting ==
    /\ ~over
    /\ over' = TRUE
    /\ UNCHANGED <<log, account, result, network, indexed, browser>>

IndexVote ==
    /\ indexed < Len(log)
    /\ indexed' = indexed + 1
    /\ UNCHANGED <<chain, network, browser>>

\* Faulty variant: the last processed row is listed again.
RowsFrom(after) ==
    SubSeq(log, IF after = 0 THEN 1 ELSE after,
           IF indexed < after + MAX_BATCH THEN indexed ELSE after + MAX_BATCH)

\* list_votes: at most MAX_BATCH rows after a position; the number of all rows.
Rows(after) ==
    SubSeq(log, after + 1,
           IF indexed < after + MAX_BATCH THEN indexed ELSE after + MAX_BATCH)

Total == indexed

\* create_tally, alone or as the first instruction of a transaction.
Created(counts) ==
    [tally_hash |-> TallyHash(0, counts), cumulative_msg_hash |-> <<>>,
     root |-> EmptyTree]

\* Faulty variant: an existing account cannot be created anew.
AccountOnce(tx) ==
    IF tx.create /\ account[tx.owner] = None THEN Created(tx.counts)
    ELSE account[tx.owner]

Account(tx) == IF tx.create THEN Created(tx.counts) ELSE account[tx.owner]

\* A batch transaction carries the public inputs of its proof; the program
\* takes the old values from the account.
BatchFits(tx) ==
    /\ tx.kind = "batch"
    /\ Account(tx) = tx.old

\* Faulty variant: a tally of fewer messages is accepted.
FinishFitsEarly(tx) ==
    /\ tx.kind = "finish"
    /\ over
    /\ Account(tx) # None
    /\ Account(tx).tally_hash = TallyHash(tx.salt, tx.counts)

\* finish_tally: the counts and the salt open the account's hash.
FinishFits(tx) ==
    /\ tx.kind = "finish"
    /\ over
    /\ Account(tx) # None
    /\ Account(tx).cumulative_msg_hash = log
    /\ Account(tx).tally_hash = TallyHash(tx.salt, tx.counts)

ExecuteBatch(tx) ==
    /\ BatchFits(tx)
    /\ account' = [account EXCEPT ![tx.owner] = tx.new]
    /\ UNCHANGED result

ExecuteFinish(tx) ==
    /\ FinishFits(tx)
    /\ account' = [account EXCEPT ![tx.owner] = None]
    /\ result' = [c \in 1..N_CHOICES |-> tx.counts[c]]

\* Transactions in flight execute in any order.
Execute(tx) ==
    /\ ExecuteBatch(tx) \/ ExecuteFinish(tx)
    /\ network' = network \ {tx}
    /\ UNCHANGED <<log, over, indexed, browser>>

Fits(tx) == BatchFits(tx) \/ FinishFits(tx)

\* The program refuses it.
Refuse(tx) ==
    /\ ~Fits(tx)
    /\ network' = network \ {tx}
    /\ UNCHANGED <<chain, indexed, browser>>

\* The transaction is never executed (its blockhash expires).
Drop(tx) ==
    /\ Fits(tx)
    /\ disturbed' = TRUE
    /\ network' = network \ {tx}
    /\ UNCHANGED <<chain, indexed, idb, store, remaining, task, orphans, left, open,
                   loaded>>

-----------------------------------------------------------------------------
(* Pages *)

\* refreshRemaining with a store: the indexer counts the votes at some time
\* from now on.
Request(t, s) == [tab |-> t, processed |-> Progress(s).processed, since |-> indexed]

\* The tally of a published poll is not offered.
Open(t) ==
    /\ t \notin open
    /\ result = None
    /\ open' = open \union {t}
    /\ fetches' = fetches \union {Request(t, None)}
    /\ UNCHANGED <<chain, network, indexed, idb, store, none_left,
                   task, orphans, left, loaded, disturbed>>

\* The store arrives after the page is shown; the effect of refreshRemaining
\* runs again if it is another one.
Load(t) ==
    /\ t \in open \ loaded
    /\ loaded' = loaded \union {t}
    /\ store' = [store EXCEPT ![t] = idb]
    /\ fetches' = fetches \union
         (IF idb = None /\ store[t] = None THEN {} ELSE {Request(t, idb)})
    /\ Cardinality(fetches') <= MaxFetches
    /\ UNCHANGED <<chain, network, indexed, idb, none_left, task,
                   orphans, left, open, disturbed>>

\* The icon beside the bar: nothing else asks the indexer again while the store
\* stays the same.  Bound: it is pressed while no request of its page is under
\* way.
Refresh(t) ==
    /\ t \in open
    /\ task[t] = None
    /\ \A f \in fetches : f.tab # t
    /\ fetches' = fetches \union {Request(t, store[t])}
    /\ UNCHANGED <<chain, network, indexed, idb, store, none_left, task, orphans, left,
                   open, loaded, disturbed>>

\* The number of votes, less those of the store of the request, which need not
\* be the store of the page any more.
Answered(f) ==
    /\ \E total \in f.since..Total :
         none_left' = IF total = f.processed
                      THEN none_left \union {f.tab} ELSE none_left \ {f.tab}
    /\ fetches' = fetches \ {f}
    /\ UNCHANGED <<chain, network, indexed, idb, store, task, orphans, left, open,
                   loaded, disturbed>>

\* The request fails: `remaining` is null.
Unanswered(f) ==
    /\ none_left' = none_left \ {f.tab}
    /\ fetches' = fetches \ {f}
    /\ UNCHANGED <<chain, network, indexed, idb, store, task, orphans, left, open,
                   loaded, disturbed>>

Unmounted(t) ==
    /\ t \in open
    /\ open' = open \ {t}
    /\ loaded' = loaded \ {t}
    /\ store' = [store EXCEPT ![t] = None]
    /\ none_left' = none_left \ {t}
    /\ fetches' = {f \in fetches : f.tab # t}
    /\ task' = [task EXCEPT ![t] = None]
    /\ UNCHANGED <<chain, network, indexed, idb>>

\* The user looks at something else; a running handler goes on.
Leave(t) ==
    /\ Unmounted(t)
    /\ IF task[t] = None THEN UNCHANGED <<orphans, left>>
       ELSE /\ left < MaxOrphans
            /\ orphans' = orphans \union {task[t]} /\ left' = left + 1
    /\ UNCHANGED disturbed

\* The tab is closed or reloaded and its handlers are cut off; they are this
\* tab's own or that of any component it showed before.
Close(t) ==
    /\ Unmounted(t)
    /\ orphans' \in SUBSET orphans /\ UNCHANGED left
    /\ disturbed' = (disturbed \/ task[t] # None \/ orphans' # orphans)

-----------------------------------------------------------------------------
(* onTallyNext *)

\* One turn of the loop over the batch: the message is decrypted and, if it
\* names the key of the leaf, replaces it.
CountVote(s, m) ==
    LET old   == s.leaves[Nullifier(m)]
        valid == old.key = m.revotingKeyOld
        one(c, choice) == IF valid /\ choice = c THEN 1 ELSE 0
    IN  [processed |-> s.processed + 1,
         hash      |-> Append(s.hash, m),
         salt      |-> s.salt,
         counts    |-> [c \in 1..MAX_CHOICES |->
                          s.counts[c] - one(c, old.choice) + one(c, m.choice)],
         leaves    |-> IF valid
                       THEN [s.leaves EXCEPT ![Nullifier(m)] =
                               [choice |-> m.choice, key |-> m.revotingKeyNew]]
                       ELSE s.leaves]

Counted(s, batch) ==
    LET acc[i \in 0..Len(batch)] ==
            IF i = 0 THEN s ELSE CountVote(acc[i - 1], batch[i])
    IN  acc[Len(batch)]

\* A salt nothing in the system carries: 64 random bits.
SaltsInUse ==
    {0} \union {account[o].tally_hash.salt : o \in {o \in Owners : account[o] # None}}
        \union {tx.salt : tx \in network}
        \union {Progress(s).salt : s \in {idb} \union {store[t] : t \in Tabs}}
        \union {s.salt : s \in orphans}
        \union {task[t].salt : t \in {t \in Tabs : task[t] # None}}

FreshSalt == CHOOSE n \in 1..(Cardinality(SaltsInUse) + 1) : n \notin SaltsInUse

AsAccount(s) ==
    [tally_hash |-> TallyHash(s.salt, s.counts), cumulative_msg_hash |-> s.hash,
     root |-> s.leaves]

\* The account the store is about belongs to another wallet than o.
OtherWallet(s, o) ==
    /\ s # None
    /\ account[o] # AsAccount(s)
    /\ \E p \in Owners : account[p] = AsAccount(s)

\* Another transaction or handler is under way, or this tab's store is not the
\* stored one.
Concurrent(t) ==
    \/ network # {}
    \/ orphans # {}
    \/ \E u \in Tabs \ {t} : task[u] # None
    \/ store[t] # idb

\* The proof exists and agrees with what the handler computed.
Provable(base, batch, new) ==
    /\ TallyCircuit(base.hash, base.counts, batch)
    /\ LET out == TallyOut(base.leaves, base.counts, batch)
       IN  out.root = new.leaves /\ out.tally = new.counts

\* The button is shown while votes remain, or may, and works unless busy.
NextOffered(t) == t \in open /\ t \notin none_left /\ task[t] = None

\* The handler fetches a page of votes, computes from the store of its click
\* the store it will save, proves, and sends.  A transaction that leaves later
\* is one that is longer in flight; a handler that throws before is no step.
TallyNext(t, o) ==
    /\ NextOffered(t)
    /\ Cardinality(network) < MaxFlight
    /\ disturbed' = (disturbed \/ Concurrent(t) \/ OtherWallet(store[t], o))
    /\ LET base  == Progress(store[t])
           batch == Rows(base.processed)
           new   == [Counted(base, batch) EXCEPT !.salt = FreshSalt]
       IN  /\ batch # <<>>
           /\ Provable(base, batch, new)
           /\ network' = network \union {
                [kind |-> "batch", owner |-> o, create |-> store[t] = None,
                 counts |-> ZeroTally, salt |-> new.salt,
                 old |-> AsAccount(base), new |-> AsAccount(new)]}
           /\ task' = [task EXCEPT ![t] = new]
    /\ UNCHANGED <<chain, indexed, idb, store, remaining, orphans, left, open, loaded>>

\* Faulty variant: the new salt is not saved.
SaveStoreOldSalt(t) ==
    /\ task[t] # None
    /\ LET s == [task[t] EXCEPT !.salt = Progress(store[t]).salt]
       IN  /\ idb' = s /\ store' = [store EXCEPT ![t] = s]
           /\ fetches' = fetches \union {Request(t, s)}
           /\ Cardinality(fetches') <= MaxFetches
    /\ none_left' \in {none_left, none_left \union {t}}
    /\ task' = [task EXCEPT ![t] = None]
    /\ UNCHANGED <<chain, network, indexed, orphans, left, open, loaded,
                   disturbed>>

\* saveTallyStore and setStore.  How many votes the tab then shows depends on
\* the number it showed before, until the effect is answered.
SaveStore(t) ==
    /\ task[t] # None
    /\ idb' = task[t]
    /\ store' = [store EXCEPT ![t] = task[t]]
    /\ fetches' = fetches \union {Request(t, task[t])}
    /\ Cardinality(fetches') <= MaxFetches
    /\ none_left' \in {none_left, none_left \union {t}}
    /\ task' = [task EXCEPT ![t] = None]
    /\ UNCHANGED <<chain, network, indexed, orphans, left, open, loaded,
                   disturbed>>

SaveOrphan(s) ==
    /\ idb' = s
    /\ orphans' = orphans \ {s}
    /\ UNCHANGED <<chain, network, indexed, store, remaining, task, left, open,
                   loaded, disturbed>>

\* An exception although the transaction has left.
Throw(t) ==
    /\ task[t] # None
    /\ disturbed' = (disturbed \/ task[t] # None)
    /\ task' = [task EXCEPT ![t] = None]
    /\ UNCHANGED <<chain, network, indexed, idb, store, remaining,
                   orphans, left, open, loaded>>

-----------------------------------------------------------------------------
(* onFinishTally, onResetTally *)

\* Shown when the voting is over and no vote remains.
FinishOffered(t) == t \in open /\ over /\ t \in none_left /\ task[t] = None

\* Without a store a new account is created and finished at once: the poll is
\* taken to have no votes.
FinishTally(t, o) ==
    /\ FinishOffered(t)
    /\ Cardinality(network) < MaxFlight
    /\ disturbed' = (disturbed \/ Concurrent(t))
    /\ LET s == Progress(store[t])
       IN  network' = network \union {
             [kind |-> "finish", owner |-> o, create |-> store[t] = None,
              counts |-> s.counts, salt |-> s.salt, old |-> None, new |-> None]}
    /\ UNCHANGED <<chain, indexed, idb, store, remaining, task,
                   orphans, left, open, loaded>>

\* After the reset the effect asks for the votes of an empty store, and the
\* handler for those of the store it was clicked with.
ResetTally(t) ==
    /\ t \in open
    /\ task[t] = None
    /\ store[t] # None
    /\ disturbed' = (disturbed \/ Concurrent(t))
    /\ idb' = None
    /\ store' = [store EXCEPT ![t] = None]
    /\ fetches' = fetches \union {Request(t, None), Request(t, store[t])}
    /\ Cardinality(fetches') <= MaxFetches
    /\ UNCHANGED <<chain, network, indexed, none_left, task, orphans, left, open,
                   loaded>>

-----------------------------------------------------------------------------

Settle(tx) == Execute(tx) \/ Refuse(tx) \/ Drop(tx)

TallyNextState ==
    \/ \E m \in Messages : Vote(m)
    \/ EndVoting \/ IndexVote
    \/ \E tx \in network : Settle(tx)
    \/ \E s \in orphans : SaveOrphan(s)
    \/ \E f \in fetches : Answered(f) \/ Unanswered(f)
    \/ \E t \in Tabs :
          \/ Open(t) \/ Load(t) \/ Refresh(t) \/ Leave(t) \/ Close(t)
          \/ SaveStore(t) \/ Throw(t) \/ ResetTally(t)
          \/ \E o \in Owners : TallyNext(t, o) \/ FinishTally(t, o)

TallySpec == TallyInit /\ [][TallyNextState]_vars

\* The store is of no use: every transaction made from it will be refused.
Stuck(t) ==
    /\ store[t] # None
    /\ \A o \in Owners : account[o] # AsAccount(store[t])
    /\ network = {}

\* The voting ends, the indexer answers and makes progress as the transactions
\* do, and handlers run.  The tallier presses the button that is enabled, now
\* and then the refresh icon, without which a page opened before the last vote
\* was indexed shows that none remains for ever, and the reset button when
\* nothing else helps.
TallyFairness ==
    /\ WF_vars(EndVoting \/ IndexVote)
    /\ WF_vars(\E tx \in network : Settle(tx))
    /\ WF_vars(\/ \E s \in orphans : SaveOrphan(s)
               \/ \E t \in Tabs : Load(t) \/ SaveStore(t))
    /\ WF_vars(\E f \in fetches : Answered(f))
    /\ WF_vars(\E t \in Tabs, o \in Owners : TallyNext(t, o) \/ FinishTally(t, o))
    /\ WF_vars(\E t \in Tabs : Refresh(t))
    /\ SF_vars(\E t \in Tabs : Stuck(t) /\ ResetTally(t))

FairTallySpec == TallySpec /\ TallyFairness

-----------------------------------------------------------------------------
(* Properties *)

AccountType ==
    [tally_hash : [salt : Nat, counts : [1..MAX_CHOICES -> Nat]],
     cumulative_msg_hash : Seq(Messages),
     root : [Nullifiers -> [choice : Nat, key : Nat]]]

StoreType ==
    [processed : 0..indexed, hash : Seq(Messages), salt : Nat,
     counts : [1..MAX_CHOICES -> Nat],
     leaves : [Nullifiers -> [choice : Nat, key : Nat]]]

\* Accounts and stores have their shapes, the indexer is never ahead of the
\* chain, no store is ahead of the indexer, and no counter is below zero
\* (Tally account, TallyStore).
TallyTypeOK ==
    /\ log \in Seq(Messages) /\ indexed \in 0..Len(log)
    /\ account \in [Owners -> AccountType \union {None}]
    /\ idb \in StoreType \union {None}
    /\ store \in [Tabs -> StoreType \union {None}]
    /\ loaded \subseteq open /\ open \subseteq Tabs
    /\ none_left \subseteq open
    /\ fetches \subseteq [tab : open, processed : 0..indexed, since : 0..indexed]

\* Every store a handler works on.
Stores ==
    ({idb} \union {store[t] : t \in Tabs}
       \union {task[t] : t \in {t \in Tabs : task[t] # None}}
       \union orphans) \ {None}

\* Whatever is lost, refused, reset or overwritten by another tab, a tally
\* store is the exact count of the messages it claims to have processed, so it
\* is never wrong, at worst out of date (onTallyNext).
StoreExact ==
    \A s \in Stores :
        /\ s.processed = Len(s.hash) /\ s.processed <= Len(log)
        /\ s.hash = SubSeq(log, 1, s.processed)
        /\ s.leaves = Ballots(s.hash)
        /\ s.counts = Histogram(s.leaves)

\* With one handler at a time, started from the loaded store, with its wallet
\* and after the last transaction was settled, and no transaction lost, the
\* stored progress is that of a Tally account: the next batch will be accepted
\* (onTallyNext).
StoreMatchesAccount ==
    /\ ~disturbed /\ idb # None /\ network = {} /\ result = None
    /\ orphans = {} /\ \A t \in Tabs : task[t] = None
    => \E o \in Owners : account[o] = AsAccount(idb)

\* What is published is the count of all messages, also when there are none:
\* this client creates accounts with zero counters only (onFinishTally).
ResultCorrect ==
    result # None =>
        result = [c \in 1..N_CHOICES |-> Votes(Ballots(log), c)]

\* From some time on no page comes or goes, no handler throws, no transaction
\* is lost, no request fails where an answer would have shown something else,
\* and the tallier waits for her transactions and discards only what she cannot
\* use.
Calm ==
    [][/\ open' = open
       /\ network' \subseteq network \/ network = {}
       /\ \A tx \in network : ~Drop(tx)
       /\ \A f \in fetches : Unanswered(f) => Answered(f)
       /\ \A t \in Tabs : ~Throw(t) /\ (ResetTally(t) => Stuck(t))]_vars

\* However many transactions were lost, stores overwritten and answers late
\* before, a tallier who keeps one page open, waits, refreshes it, and resets a
\* useless store publishes the result (onTallyNext, onFinishTally,
\* onResetTally, refreshRemaining).
EventuallyPublished ==
    <>[](Cardinality(open) = 1) /\ <>Calm => <>(result # None)
=============================================================================
