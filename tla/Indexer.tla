------------------------------ MODULE Indexer -------------------------------
(***************************************************************************)
(* The indexer (indexer/): the Solana reader pages backwards through the   *)
(* signatures of the program's transactions and delivers the transactions  *)
(* in order; the event processor drops those without events; the database  *)
(* manager applies each in one database transaction with the cursor, then  *)
(* commands the ingestion of new polls' files.  The channels between them  *)
(* and the reader's memory are lost when the process stops.                *)
(***************************************************************************)
EXTENDS Integers, Sequences, FiniteSetsExt

CONSTANTS
    PollIds, TxEvents, MaxTxs,
    PAGE_LIMIT,  \* signatures per page
    Managers,    \* the census and the description manager
    MaxRestarts  \* bound: number of restarts

\* Transactions are named by their position; 0 is no transaction.
None == 0

VARIABLES
    chain,         \* events of the program's transactions, in order
    finalized,     \* number of finalized transactions; the rest is confirmed
    rows,          \* Postgres: polls and votes
    cursor,        \* Postgres: last_sig of the stream "confirmed"
    ingested,      \* Postgres: per manager, polls whose file was accepted
    stage,         \* the reader: "listing", "sorting" or "fetching"
    tx_read_from, until, next_until, before, \* the reader's signatures
    listed,        \* signatures of this round: whether reported finalized
    confirmed_txs, \* transactions delivered before they were finalized
    to_fetch,      \* transactions of this round, oldest first
    queue,         \* channels from the reader to the database manager
    unsent,        \* polls whose commands follow the commit
    commands,      \* channel of each manager
    attempted,     \* per manager, polls tried since the last start
    stopped,       \* the database manager has ended with an error
    restarts

reader_vars == <<stage, tx_read_from, until, next_until, before, listed,
                 confirmed_txs, to_fetch>>
db_vars == <<rows, cursor, ingested>>
manager_vars == <<unsent, commands, attempted, stopped>>
indexer_vars == <<chain, finalized, restarts, queue, reader_vars, db_vars,
                  manager_vars>>

Log == INSTANCE EventLog WITH applied <- cursor

ASSUME IndexerConstants ==
    /\ PAGE_LIMIT \in Nat \ {0}
    /\ MaxTxs \in Nat /\ MaxRestarts \in Nat
    /\ TxEvents \subseteq Seq(Log!EventType)

NoSignatures == [i \in {} |-> FALSE]

\* A fresh process: unfinished polls are enqueued, the cursor is read.
Start(last_sig, unfinished) ==
    /\ stage' = "fetching"
    /\ tx_read_from' = last_sig
    /\ until' = None
    /\ next_until' = None
    /\ before' = None
    /\ listed' = NoSignatures
    /\ confirmed_txs' = {}
    /\ to_fetch' = <<>>
    /\ queue' = <<>>
    /\ unsent' = {}
    /\ commands' = unfinished
    /\ attempted' = [m \in Managers |-> {}]
    /\ stopped' = FALSE

IndexerInit ==
    /\ chain = <<>> /\ finalized = 0
    /\ rows = Log!NoRows /\ cursor = None
    /\ ingested = [m \in Managers |-> {}]
    /\ stage = "fetching"
    /\ tx_read_from = None /\ until = None /\ next_until = None /\ before = None
    /\ listed = NoSignatures /\ confirmed_txs = {} /\ to_fetch = <<>>
    /\ queue = <<>> /\ unsent = {}
    /\ commands = [m \in Managers |-> {}]
    /\ attempted = [m \in Managers |-> {}]
    /\ stopped = FALSE
    /\ restarts = 0

-----------------------------------------------------------------------------
(* The chain *)

Transact(events) ==
    /\ Log!NewTransaction(events)
    /\ UNCHANGED <<finalized, restarts, queue, reader_vars, db_vars, manager_vars>>

Finalize ==
    /\ finalized < Len(chain)
    /\ finalized' = finalized + 1
    /\ UNCHANGED <<chain, restarts, queue, reader_vars, db_vars, manager_vars>>

-----------------------------------------------------------------------------
(* SolanaReader *)

BeginRound ==
    /\ stage = "fetching"
    /\ to_fetch = <<>>
    /\ until' = CASE tx_read_from # None -> tx_read_from
                  [] tx_read_from = None /\ next_until # None -> next_until
                  [] OTHER -> until
    /\ tx_read_from' = None
    /\ next_until' = None
    /\ before' = None
    /\ listed' = NoSignatures
    /\ stage' = "listing"
    /\ UNCHANGED <<chain, finalized, restarts, queue, confirmed_txs, to_fetch,
                   db_vars, manager_vars>>

\* Faulty variant: only the first page is read.
FirstPageOnly(tip, fin) ==
    LET newest == IF before = None THEN tip ELSE before - 1
        page   == {i \in (until + 1)..newest : i > newest - PAGE_LIMIT}
        final  == {i \in page : i <= fin}
    IN  /\ next_until' = IF next_until = None /\ final # {}
                         THEN Max(final) ELSE next_until
        /\ before' = IF page # {} THEN Min(page) ELSE before
        /\ listed' = [i \in page \union DOMAIN listed |->
                        IF i \in page THEN i \in final ELSE listed[i]]
        /\ stage' = "sorting"

\* A page, newest first, from an RPC node that may lag behind the chain
\* (tip) and behind its finalization (fin), but knows until and before.
NextPage(tip, fin) ==
    LET newest == IF before = None THEN tip ELSE before - 1
        page   == {i \in (until + 1)..newest : i > newest - PAGE_LIMIT}
        final  == {i \in page : i <= fin}
    IN  /\ next_until' = IF next_until = None /\ final # {}
                         THEN Max(final) ELSE next_until
        /\ before' = IF page # {} THEN Min(page) ELSE before
        /\ listed' = [i \in page \union DOMAIN listed |->
                        IF i \in page THEN i \in final ELSE listed[i]]
        /\ stage' = IF Cardinality(page) < PAGE_LIMIT THEN "sorting" ELSE stage

FetchPage(tip, fin) ==
    /\ stage = "listing"
    /\ until <= tip
    /\ before <= tip
    /\ NextPage(tip, fin)
    /\ UNCHANGED <<chain, finalized, restarts, queue, tx_read_from, until,
                   confirmed_txs, to_fetch, db_vars, manager_vars>>

Ascending(S) == [k \in 1..Cardinality(S) |->
                    CHOOSE i \in S : Cardinality({j \in S : j < i}) = k - 1]

\* Faulty variant: transactions seen before are fetched again.
AllListed(signatures) == signatures

Unseen(signatures) == signatures \ confirmed_txs

SortSignatures ==
    /\ stage = "sorting"
    /\ to_fetch' = Ascending(Unseen(DOMAIN listed))
    /\ confirmed_txs' = {i \in confirmed_txs : i \notin DOMAIN listed \/ ~listed[i]}
    /\ stage' = "fetching"
    /\ UNCHANGED <<chain, finalized, restarts, queue, tx_read_from, until,
                   next_until, before, listed, db_vars, manager_vars>>

\* Faulty variant: a transaction that is finalized when it is first seen is
\* not sent to the stream of confirmed ones.
SendUnlessFinal(n) ==
    queue' = IF chain[n] = <<>> \/ listed[n] THEN queue ELSE Append(queue, n)

\* To the event processor, which drops transactions without events.
SendConfirmed(n) ==
    queue' = IF chain[n] = <<>> THEN queue ELSE Append(queue, n)

FetchTransaction ==
    /\ stage = "fetching"
    /\ to_fetch # <<>>
    /\ LET n == Head(to_fetch)
       IN  /\ SendConfirmed(n)
           /\ confirmed_txs' = IF listed[n] THEN confirmed_txs
                                            ELSE confirmed_txs \union {n}
    /\ to_fetch' = Tail(to_fetch)
    /\ UNCHANGED <<chain, finalized, restarts, stage, tx_read_from, until,
                   next_until, before, listed, db_vars, manager_vars>>

-----------------------------------------------------------------------------
(* DbManager, CensusManager, DescriptionManager *)

\* One database transaction: the rows of all events, and the cursor.
CommitEvents ==
    /\ ~stopped
    /\ queue # <<>>
    /\ unsent = {}
    /\ LET n == Head(queue)
       IN  /\ rows' = Log!OnEvents(rows, chain[n], n)
           /\ cursor' = n
           /\ unsent' = Log!CreatedBy(chain[n])
    /\ queue' = Tail(queue)
    /\ UNCHANGED <<chain, finalized, restarts, reader_vars, ingested, commands,
                   attempted, stopped>>

SendCommands ==
    /\ unsent # {}
    /\ commands' = [m \in Managers |-> commands[m] \union unsent]
    /\ unsent' = {}
    /\ UNCHANGED <<chain, finalized, restarts, queue, reader_vars, db_vars,
                   attempted, stopped>>

\* A failed database transaction is rolled back and ends the manager.
DbError ==
    /\ ~stopped
    /\ queue # <<>>
    /\ unsent = {}
    /\ stopped' = TRUE
    /\ UNCHANGED <<chain, finalized, restarts, queue, reader_vars, db_vars,
                   unsent, commands, attempted>>

\* The file of a poll is fetched and accepted, or not; nothing tries again.
Ingest(m, p, accepted) ==
    /\ p \in commands[m]
    /\ commands' = [commands EXCEPT ![m] = @ \ {p}]
    /\ attempted' = [attempted EXCEPT ![m] = @ \union {p}]
    /\ ingested' = IF accepted THEN [ingested EXCEPT ![m] = @ \union {p}]
                               ELSE ingested
    /\ UNCHANGED <<chain, finalized, restarts, queue, reader_vars, rows, cursor,
                   unsent, stopped>>

\* Faulty variant: nothing is enqueued at startup.
NothingUnfinished == [m \in Managers |-> {}]

Unfinished == [m \in Managers |-> rows.polls \ ingested[m]]

Restart ==
    /\ restarts < MaxRestarts
    /\ restarts' = restarts + 1
    /\ Start(cursor, Unfinished)
    /\ UNCHANGED <<chain, finalized, db_vars>>

IndexerNext ==
    \/ \E events \in TxEvents : Transact(events)
    \/ Finalize
    \/ BeginRound
    \/ \E tip \in 0..Len(chain), fin \in 0..finalized : FetchPage(tip, fin)
    \/ SortSignatures
    \/ FetchTransaction
    \/ CommitEvents
    \/ SendCommands
    \/ DbError
    \/ \E m \in Managers, p \in PollIds, accepted \in BOOLEAN :
          Ingest(m, p, accepted)
    \/ Restart

\* Tasks that can proceed do, and nodes of the RPC pool catch up with the
\* chain: a round that begins again and again begins with an up-to-date page.
IndexerFairness ==
    /\ WF_indexer_vars(BeginRound)
    /\ WF_indexer_vars(\E tip \in 0..Len(chain), fin \in 0..finalized :
                          FetchPage(tip, fin))
    /\ SF_indexer_vars(before = None /\ FetchPage(Len(chain), finalized))
    /\ WF_indexer_vars(SortSignatures)
    /\ WF_indexer_vars(FetchTransaction)
    /\ WF_indexer_vars(CommitEvents)
    /\ WF_indexer_vars(SendCommands)

IndexerSpec == IndexerInit /\ [][IndexerNext]_indexer_vars /\ IndexerFairness

-----------------------------------------------------------------------------
(* Properties *)

\* The reader never holds back or repeats a transaction: what is queued is
\* ascending, above the cursor, and leaves out no transaction with events
\* between them (solana_reader, across pages, rounds and restarts).
QueueIsNext ==
    /\ \A i, j \in DOMAIN queue : i < j => queue[i] < queue[j]
    /\ \A i \in DOMAIN queue :
          /\ queue[i] > cursor
          /\ \A n \in (cursor + 1)..queue[i] :
                chain[n] # <<>> => \E j \in DOMAIN queue : queue[j] = n

\* The tables are those of the abstract log: each transaction's events are
\* applied once, in order and as a whole, whenever the process restarts.
IndexesLog == Log!LogSpec

\* No poll is forgotten: its files were accepted, or tried by this process,
\* or a command for them exists (db.rs sends commands after the commit, and
\* enqueue_unfinished finds those a crash has cut off).
NoPollForgotten ==
    \A m \in Managers :
        rows.polls \subseteq ingested[m] \union attempted[m] \union commands[m] \union unsent

\* Every transaction with events gets into the tables, unless an error has
\* ended the database manager.
EventuallyIndexed ==
    \A n \in 1..MaxTxs :
        (n <= Len(chain) /\ chain[n] # <<>>) ~> (cursor >= n \/ stopped)
=============================================================================
