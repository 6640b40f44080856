# Mootvote: a TLA+ development

Mootvote is anonymous, bribery-resistant voting on Solana.  A poll names a
census (the root of a Merkle tree of voter keys) and a tallier.  Voters send
encrypted messages, each with a zero-knowledge proof that its author is in the
census; the chain keeps only a running hash of the messages.  A voter who wants
to escape pressure votes again with her current *revoting key*; messages that
name an outdated key are skipped.  After the voting the tallier proves, batch by
batch, that a Tally account holds the count of the messages, and publishes it.
Votes can be paid for by the voter or by a relayer, who is refunded from a
deposit of the poll and limited to a few messages per voter.

Every module models the code under `src/`; the definitions of each module and
the lines they translate are listed in `PROJECT.json` ("map").

## The system

| Component | State | Operations | Talks to | Modelled in |
|---|---|---|---|---|
| mootvote program (`programs/mootvote`) | PlatformConfig, Poll and Tally accounts | initialize, update_config, create_poll, vote, vote_with_relayer, create_tally, tally_batch, finish_tally, close_tally, withdraw_poll | zk-relayer (create_relayer_state); emits events | `Mootvote` |
| zk-relayer program (`programs/zk-relayer`) | ZkRelayerConfig, RelayerState accounts | initialize, update_config, create_relayer_state, relay | mootvote (vote_with_relayer) | `Mootvote` |
| circuits (`circom`) | none | Vote, Relay, Tally relations | verified by both programs | `Circuits` |
| relayer backend (`relayer`) | RocksDB copy of the relayer trees, a lock per poll | POST /relay | Solana RPC | `RelayerService` |
| sparse Merkle tree (`smt-circom`) | nodes in memory or RocksDB, a write batch | add, update, add_or_update, get_proof | relayer backend, Relay circuit | `SparseMerkleTree` |
| indexer: reader and database (`indexer`) | cursor, polls, votes; signatures seen | read signatures, store events, send commands | Solana RPC | `EventLog`, `Indexer` |
| indexer: ingest of censuses and descriptions | voter_polls, census_valid, title | download, check, insert, re-enqueue at startup | file servers | `Ingest` |
| indexer: query API | none | get_poll, list_votes, list_polls; is_voter | frontend | `Ingest` (what is listed), `TallyClient` (pages of votes), `ListPages` (pages of polls) |
| census service (`census-service`) | censuses, members, invite tokens | create, add, remove, claim, export | frontend, indexer | `Census` |
| page that creates polls (`PollCreatePage.tsx`) | the form | pick a census, upload one, submit | census service, chain | `Census` |
| tally client (`Tally.tsx`) | tally store in IndexedDB and in each tab | next batch, finish, reset | indexer, chain | `TallyClient` |
| voter client: votes (`Vote.tsx`, `keyring.tsx`) | revoting keys in IndexedDB and in each tab | vote directly or through the relayer, forget a key | relayer backend, chain | `VoterClient` |
| voter client: accounts (`keyring.tsx`, `AccountDrawer.tsx`) | the encrypted list of accounts in IndexedDB, the active index in localStorage, both also in each tab | unlock, add, import, remove, use | votes, tally, signed requests | `Keyring` |
| pages with lists (`PollListPage`, `CensusesListPage`, `ChooseCensusModal`, `CensusDetailPage`) | page, cursors, filter | next, previous, filter, add and remove a member | indexer, census service | `ListPages` |
| other pages, SDKs, helpers, scripts, keys, deployment | none of the protocol's | builders, forms, configuration | all of the above | - |

What makes each part correct, and what makes that hard:

- **Programs and circuits.**  A published result is the count of the latest
  valid ballots of census members, whoever tallied, however the tally was
  batched, restarted or mixed with messages of other polls.  Anybody may send
  any transaction between any two others.  The deposit must last for the
  messages the quotas let through while configurations change.
- **Relayer backend.**  Its trees must follow the chain's root across
  concurrent requests, retries, crashes and transactions whose outcome it never
  learns.
- **Sparse Merkle tree.**  One root for one set of entries, and for each key a
  proof that convinces the circuit, although reads do not see what is staged.
- **Indexer.**  Each event exactly once and in order, across restarts, lagging
  nodes and transactions that go from confirmed to finalized.  A poll is listed
  only with exactly the voters of its file, whatever broke during downloads.
- **Census service.**  An invitation is used once, a key is in a census once,
  and a poll made of a census counts invited keys only, however late.
- **Clients.**  Local stores must not run ahead of, or behind, transactions that
  were lost or accepted without an answer; handlers are asynchronous, outlive
  the component that started them, and write back what they read long before.
- **Lists.**  Walking a list with "next" and "previous" must show each row that
  was there all the time, although answers carry nothing that tells them apart
  and rows, filter and account change.

`PROJECT.json` lists these hazards at their lines, each with the properties that
cover it or the reason why none does.

## Modules

| Module | Content |
|---|---|
| `Circuits` | the three circuits as relations; the meaning of a message log (`Ballots`, `Histogram`, `FollowsProtocol`) |
| `Mootvote` | both programs, all accounts, one action per instruction; properties |
| `RelayerService` | the relayer backend composed with `Mootvote` as its environment |
| `EventLog` | what the indexer promises: the tables are the effect of a prefix of the chain |
| `Indexer` | the Solana reader, the event processor, the database manager and the commands of new polls; refines `EventLog` |
| `Census` | the census service and the page that turns a census into a poll |
| `Ingest` | the indexer's census and description managers composed with `Census`, which it refines |
| `VoterClient` | votes and revoting keys in the tabs of one browser |
| `TallyClient` | the tally of one poll in the tabs of one browser, with its transactions |
| `Keyring` | the list of accounts of one browser, its passphrase and its active index in several tabs |
| `ListPages` | the paging of the four lists, with the queries that answer it |
| `SparseMerkleTree` | tree operations over the database and its batch, against the canonical tree and the circuit |
| `MCMootvote`, `MCRelayerService`, `MCIndexer`, `MCIngest`, `MCVoterClient`, `MCTallyClient`, `MCKeyring`, `MCListPages`, `MCSparseMerkleTree` | small instances |
| `CircuitsProofs`, `MootvoteProofs`, `RelayerProofs` (with `SparseMerkleTree`), `IndexerProofs`, `IngestProofs` (with `Census`), `VoterProofs`, `TallyProofs`, `FrontendProofs` (`Keyring` and `ListPages`) | lemmas and theorems |

Definitions whose comment says "faulty variant" are not part of the models: they
state plausible mistakes and are used to confirm that the properties notice
them.

### Circuits

A Poseidon hash is modelled by the value it hashes, so a hash chain is a
sequence, a sparse Merkle root is a map from nullifiers to leaves and a census
root is a set of voters.  A proof verifies exactly when a witness exists.
Encryption, signatures and inclusion paths disappear into that: a message *is*
its plaintext together with its voter, and a nonce keeps two encryptions of one
plaintext apart.  The nullifier of a voter in a poll hashes her deterministic
signature of the poll's id and is modelled as the pair (poll, voter).  That two
nullifiers agree in the low bits that index the trees is excluded; what the
trees do with keys that nearly agree is the subject of `SparseMerkleTree`.

`TallySingle` is the constraint system for one message, `TallyOut` a batch.
`Ballots` is the reference: the log read once, in order, with no batches, no
counters and no accounts.

### Mootvote

The two programs call each other synchronously, and a Solana transaction is
atomic, so an action is one successful transaction and a failing transaction is
no step.  `CreatePoll` contains the call to `CreateRelayerState`, `Relay`
contains `VoteWithRelayer`.  State variables are the accounts, the clock, the
balance of each Poll account above its rent minimum, and what keys received.
`n_voters` is a history variable (the number announced in CreatePollEvent).

Abstractions, all about data:

- `tally_hash` is the counters it hashes; the salt only hides them (it matters
  to the client, and `TallyClient` has it).
- Rent enters where the code computes with it: the relayer configuration, whose
  endpoint changes length without the account being resized, has `space` and
  `rent`.  A Poll account is never emptied below its rent minimum.
- Balances of payers are outside: they can pay or the transaction fails.
- The one target instruction of `relay` that the allowed program offers for a
  relayer state as signer is `vote_with_relayer`.
- `end_time` of a relayer state is stored and, as in the code, read by nothing.
- Encryption is authenticated by its key: the Tally circuit opens a message
  only for the tallier's key, so a Tally account of "some key" is enough.

### RelayerService

`RelayerService` extends `Mootvote`: chain transactions are the actions of
`Mootvote`, and `Relay` happens only as the execution of a transaction that the
service sent.  A request is queued at its poll's lock (a tokio mutex is FIFO, so
the lock is a sequence whose head holds it), is refused early, or is proved
against the database and sent.  Then the handler awaits the transactor.  The
three outcomes are the three ways out of the await: `AnswerRelayed` (executed;
both trees are written in one batch), `Reject` (failed or dropped) and
`AnswerLost` (an error although the transaction was, or may still be,
executed).  `Crash` empties locks and handlers and keeps RocksDB and the
transactions in flight.  A transaction is verified against the root stored when
it executes.  A client's retry is another request with the same message.  The
service's key is the key in every relayer configuration (`ServiceConstants`).
`lost` records the polls for which an answer of the chain did not reach the
database.

### EventLog and Indexer

`EventLog` is abstract: a chain of transactions with their events, the position
up to which they were applied, and the rows.  Its step applies the next
transaction that has events, as a whole.  `Legal` is the order in which the
programs emit events.

`Indexer` is the process.  A transaction's signature is its position on the
chain.  The reader is in one of three stages: *listing* pages of signatures
backwards (`FetchPage`, from a node that may lag behind the chain and its
finalization, a different one for every page), *sorting* them (`SortSignatures`)
and *fetching* the transactions oldest first.  `confirmed_txs`, `until`,
`next_until` and `before` are its variables of the same names.  `CommitEvents` is
one database transaction; the commands follow it (`SendCommands`), so a stop may
fall between.  `Restart` keeps Postgres and loses channels and memory.  `Log`
instantiates `EventLog` with the cursor as the position; `IndexesLog` is the
refinement.  An attempt to ingest a file is one step here that succeeds or
fails; its inside is `Ingest`.

Assumptions: nodes know the signatures passed to them as `until` and `before`; a
confirmed transaction is not rolled back; logs parse; the buffered stream of
fetches yields in order (`buffered`), so fetch and delivery are one step.  The
stream of finalized transactions has no subscriber and is left out.

### Census and Ingest

Each handler of the census service checks the creator and then makes one
statement or one database transaction, so it is one step.  An invitation token
is random and is told apart by the id of its member.  `claims` is a history
variable.  The handlers of PollCreatePage are cut at their awaits: a file is
read (`PickExisting`, `ReadFile`), its root is computed, and the form is filled
(`FillForm`) when that ends, in any order; `Submit` copies the form and
`CreatePoll` is the transaction.  `CreateForeignPoll` is a poll made without the
page: the chain believes any root, count and address.

`Ingest` adds rows, commands and attempts.  A census file arrives in chunks of
any length and is inserted in batches of `INSERT_BATCH`, before it is judged; a
download can break off after any chunk while servers are not `healthy`; a
`Restart` drops attempts and queues and enqueues what is not finished.  A
Content-Length that does not fit marks the census and, as in the code, lets the
attempt go on.  The root of the file is not compared with the chain's by the
code, and therefore not here.  `Ingest` leaves the variables of `Census` alone,
so with its own hidden it refines it (`IngestImplementsCensus`).

### VoterClient

`onVoteClick` is an asynchronous function: it reads the keys of its tab at the
click, proves, submits, waits for the relayer or the wallet, and only then
writes the whole map of keys back.  A `task` is one running call with the map it
read (`base`); `busy` is the call that a mounted component waits for.  Pages are
left and tabs closed at any moment; a left page's call runs on, a closed tab's
does not.  `Accept` and `Lose` settle messages in any order.  The chain is the
log of accepted messages; a poll is open throughout, so a vote that comes too
late is one of the lost ones.

The other two functions that hold a map of keys across an await are cut there as
well.  `reload` reads the blob (`ReadStored`) and later shows what it decrypted
(`Reloaded`), or no keys at all if the passphrase does not fit, whatever was
stored in between.  `removeForPoll` takes the map of its click (`ClickRemove`)
and writes it without the key when the encryption is done (`Removed`), or never:
of two deletions clicked one after the other the second may write the key of the
first back, and a tab that is still decrypting may show it again.

`disturbed` records the accounts and polls to which a fault happened: an answer or
transaction lost, two votes at a time, a map written from an outdated copy or
while another vote or deletion was running, a key removed.  `KeyForgotten`, from
which `ForgottenIsFinal` starts, asks for a key that is in no tab and not stored,
and also in none of the maps under way: what a reload has read, what a deletion
or a vote will write.

### TallyClient

A tally store holds position, running hash, salt, counters and leaves.  It is
kept in IndexedDB (`idb`) and copied into every tab (`store`).  `TallyNext` is
`onTallyNext` up to its transaction: it fetches the next page of votes, counts
them from the store of its click, proves, and sends create_tally, if there is no
store, and tally_batch in one transaction; `SaveStore` is the rest of it, and
does not wait for the transaction.  A handler whose component is unmounted
becomes an orphan and saves all the same.

The number of votes that remain decides which button works.  It is asked for by
the effect of a changed store (when the page is opened or loaded, a batch is
saved, the tally reset), once more by the reset handler, and by the refresh icon
(`Refresh`); by nothing else, however many votes are indexed.  `fetches` are the
requests under way.  Each belongs to the store of its closure, is answered with
the number of votes of some moment since (`Answered`), or fails (`Unanswered`,
the number is unknown), and they end in any order: a late answer shows what
remained of a store that is not the page's any more.  `none_left` are the tabs
that show zero.  A page opened before the last vote was indexed shows zero until
its icon is pressed, and its finish is refused.

A transaction is executed, refused or
dropped.  The store is one per poll and account, whichever wallet pays: a
tallier who switches wallets has a store that no account of the new wallet
matches, and `OtherWallet` counts that as a disturbance.  `disturbed` records
that something was lost, refused or ran concurrently.

### Keyring

The list is encrypted as a whole under a passphrase.  `unlock`, `addNew`,
`importPrv` and `removeAt` are asynchronous: a running call is a record of what
it took with it (`opening`: passphrase and blob; `writing`: passphrase and the
list it will store), and ends in a step of its own (`Opened`, `Refused`,
`Created`, `Persisted`) at any later moment, unless its tab was closed.  A blob
opens with the passphrase it was made with and no other.  An account is its
key, a number that is never given twice; names are left out.  The active index
is written to localStorage, where the next unlock of any tab finds it.

Tabs do not notice each other's writes, and the code lets calls overlap, so
accounts can be lost, and the properties say exactly where.  `exposed` are the
keys for which a call started in a tab that did not know of them, or that were
being added while another call was under way.  `muddled` is set when the
passphrase field no longer has the value an ending `unlock` used, or when a
keyring is created over another one.  `hurried` are the tabs in which a call or
a click came before the previous write had ended: `removeAt` checks the index
of its call, so such a tab may be left with an index behind its list (the header
then names the first account while signing finds none).  `kept` is a history
variable: the keys that were stored once and not deleted by the user.

### ListPages

One module for the four pages (`at`), which share their structure and differ in
details that matter: which cursor is pushed (`Next`), whether an unchanged
cursor loads again (`LoadIfMoved` for the effects that depend on it), what a
change of the account resets, and whether a button works while loading.  A row
is its place in the order of the list.  A request is answered from the rows of
the moment it is sent, and the answer arrives (`Deliver`) or fails in any order;
the page takes whatever arrives last.  `onAddMember` and `onRemoveMember` go on
with the page and stack they saw, and the load after a removal is for the account
that clicked, the creator, whoever is used by then.  One removal is under way at a
time (the code disables the button of that member only).  The members of a census
are listed for its creator and those who joined; a refusal is a `Fail`.  `Sees` says which rows the server gives to
which account under which filter.  After the last request (`MaxLoads`) rows no
longer change, since nobody would see it.

`strayed` records where the pages of the code do show something else than was
asked for: an answer that is not the last one's, a change of the account that
keeps the cursor (`polls`, `modal`) or the stack (`members`), "next" on a page of
another account or filter, a member that was added or removed on a page the
user has left, and one removed by an account that is not used any more.  `NothingSkipped` and, in part, `ButtonsFitPage` speak of walks
without that.

### SparseMerkleTree

A node is its own hash; the database is a set of nodes with a root, the batch a
set of nodes that reads do not see.  Every operation returns the new root and the
nodes it puts, or fails.  `add_leaf` and `push_leaf` are recursive functions of
the level (`AddStep` and `PushStep` are one call of each); the loops of `update`
and `get_proof` are the walk from the root along the path (`Walk`, which stops at
`EndLevel` with `Siblings` collected), and the nodes that `update` writes anew
over the leaf are `Rebuilt`.  `TreeKeys` are numbers whose bits are the path.
The reference is `Canonical`, the one tree of a set of entries, and for proofs the
circomlib templates that Relay.circom instantiates (external code).  The in-memory store
is the same store with a write after every operation, because no operation
reads a node it has put itself.

## What is checked

Bounds are constants: `MaxTime` ends the clock, `MaxMsgs` bounds each message log
and each Tally account, `U64_MAX` stands for 2^64 - 1 (arithmetic beyond it
aborts, as the workspace builds with overflow checks).  `MAX_CHOICES`,
`MAX_BATCH` and `MSG_LIMIT` (11, 6 and 3 in production), `PAGE_LIMIT` and
`INSERT_BATCH` are made small so that they are reached.

| Run | Instance | Question |
|---|---|---|
| two_talliers | 1 poll, 2 tally owners, 3 messages among revotes, replays and ill-formed ones, 3 counters for 2 choices | do all accounts stay exact, does the latest message count and nobody twice, can a complete tally be published, is what is published right and final? |
| deposit | 1 poll, quota 2, 5 messages, relayer key and endpoint change, one deposit that overflows | does the deposit pay for each relayable message, do quotas, relayed messages and log agree? |
| relay_service | 3 requests, 2 messages, quota 1, crashes, lost answers, direct votes | is the database a past state of the chain, are answers true, do proofs not conflict, is every request answered? |
| indexer | 1 poll, 3 transactions (two votes in one, or no event), pages of 2, one restart | are the tables a prefix of the chain, is every poll's file tried, is everything indexed? |
| voter_client | 1 voter, 2 polls, 2 tabs (interchangeable), 2 votes, 2 deletions | does the last vote shown count, is a stored key one that was sent, is a lost key lost for good? |
| tally_client | 1 tab, a vote and a revote in batches of one, one transaction and two requests at a time, one orphan in all | is every store an exact count that fits its account, is the result right, and is it published in the end? |
| poll_listing | 1 census of up to 2 members, 2 keys, files that repeat a key, have a leaf too many or a remainder, batches of 2, one restart | do invitations admit one key each, has a listed poll its voters for good, is a good poll listed in the end? |
| keyring | 2 tabs, 2 passphrases, 2 keys, 5 calls | which overlaps of unlocks and writes can lose an account, store an unknown passphrase, or sign with another account than is named, and are these all? |
| list_pages | 3 rows in pages of 2, 2 accounts, 2 filters, 3 requests, each of the four pages | is every row shown, and do the buttons fit the page? |
| merkle_tree | depth 4, 5 keys, 2 values, 5 batches | is the tree canonical, does every proof lead the circuit where the tree goes? |
| raised_fee, lost_answer | | see *Disagreements* |

Why these bounds contain the interesting cases.  Two tally owners are what it
takes for accounts to race, and a third would only repeat one of them; three
messages allow a vote, a revote and a replay in each order; three times are before, at and after the last
second of the voting; three requests let two wait while one is sent, and allow a
duplicate and a message beyond the quota next to it; three transactions in pages
of two need a second page, which may be read after the chain has grown, and one
restart can fall before, between and after the commits.  Two tabs and two votes
are what it takes for one vote to overwrite the key of another, of the same or
of the other poll, and two deletions for one to bring back the key of the other.
In `tally_client` an orphan is a second handler of the same
store, and two batches let one of them be lost before the other; two requests to
the indexer let the earlier one be answered last (when the page is loaded, a
batch saved or the tally reset), and the icon is pressed while none of its page
is under way.  `Logs` says which logs are looked at: that of a vote and then a
revote; the reverse order, in which the revote is skipped, replays, more
transactions, orphans, requests and wallets are left to the proofs, which cover
all of them.  `poll_listing` reads one file at a
time, which `PollOfOneFile` does not need: it is proved for any number.  Its
files reach each verdict, and a batch of two makes a complete and an incomplete
batch of every file length; nothing happens to censuses after the last poll was
indexed, since the indexer looks at polls and files only.  Two
tabs suffice in `keyring` for one to write over the other, five calls for each
tab to unlock and three changes of the list to overlap; the properties are
proved for any number.  Three rows in pages of two make a full page, a last
page and a page that empties, and three requests let two answers arrive in the
wrong order after the first; these properties, too, are proved for any number.  Of the five keys of
`merkle_tree` two part at the last level a proof reaches, and others at each
level above it; the properties are proved for any depth and any such keys.

Deadlock is checked where the system never stops: in the runs of `Mootvote` (the
administrator can always write the configuration again), in `indexer` (the
reader polls forever), `voter_client`, `keyring`, `list_pages` and `merkle_tree`
(the user can always click, type or reload).  In the others it may
stop: requests are answered, a tally is published, a poll is listed.

**Fairness.**

- `relay_service`: weak fairness of what a request can do next (`Progress`).
  tokio polls a handler that can proceed, its mutex grants the lock in FIFO
  order, and the transactor reports on each transaction it was given.  Nothing
  is assumed about crashes, lost answers or other transactions.
- `indexer`: weak fairness of each task's next step (spawned tasks never block
  each other), and strong fairness of a round that begins with an up-to-date
  page (the pool retries its nodes until one answers).  Nothing is assumed about
  restarts, database errors or files.
- `poll_listing`: weak fairness of the tasks of the process (`Progress`); an
  HTTP request ends after the 30 seconds of reqwest's timeout.  Neither a
  restart nor the recovery of a server is assumed: `EventuallyListed` speaks of
  polls the process learns of, or starts with, after the recovery.
- `tally_client`: the voting ends and the indexer follows, transactions settle,
  handlers run and requests are answered.  The rest is assumed of the tallier,
  since the code retries and refreshes nothing by itself: she presses the enabled
  button, and now and then the refresh icon (`Refresh` is weakly fair while no
  request is under way), without which a page opened too early would show for ever
  that no vote remains.  The reset button is strongly fair when the store is of no
  use (`Stuck`), for the refusals that make it useless may come and go.
  `EventuallyPublished` assumes that from some time on one page stays open, nothing
  is lost and no request fails (`Calm`); late answers may still come then.

The programs themselves promise nothing eventually: somebody has to send the
transactions.

### Disagreements between the code and its own words

Two runs end with a counterexample; `PROJECT.json` quotes the lines.

- `raised_fee`: a platform fee raised after create_poll is paid out of a deposit
  that was computed without it; relayed votes stop before the quotas do.
- `lost_answer`: a relayed message whose success the service did not see is never
  entered into its database; later proofs for that poll are refused.

Modelled as the code has them, and left out of the properties:

- create_poll accepts more choices than the circuit has counters, and finish_tally
  then underflows: such a poll can never be finished.  Only the page bounds the
  number; `CompleteTallyAccepted` speaks of polls within it;
- withdraw_poll opens at `voting_end_time`, a second before votes close, so
  `RelayFunded` is stated for the time before that second;
- relay requires the relayer's balance to grow, so with a relayer fee of zero
  nothing is relayed;
- the endpoint's rent is paid in or out by update_config, but the account keeps
  its size;
- a poll without messages is finished without a batch, and only batches check
  the initial counters, so `PublishedTallyCorrect` and `ResultFinal` speak of
  polls with messages (`Tallied`); the browser's tally client only creates
  accounts with zero counters, and its `ResultCorrect` needs no such exception;
- a new relayer key starts new quotas while the deposit was computed for one
  relayer, so `RelayFunded` is stated while one key relays;
- a database error ends the indexer's manager for good, while the reader goes on
  (`DbError`);
- the page accepts titles longer than the indexer's limit: such a poll is paid
  for and never listed (`Acceptable` excludes it);
- a voter whose key is lost after the chain accepted her vote cannot vote again
  (`ForgottenIsFinal`).

## What is proved

All theorems hold for all values of the constants; the named assumptions on
constants are the only ones, and the bounds are arbitrary numbers.

| Module | Theorems |
|---|---|
| `MootvoteProofs` | `TypeCorrect`, `ResultInvariant`, `TallyAccountsFaithful`, `PublishedTallyIsCorrect`, `ResultIsFinal`, `LatestMessageAlwaysCounts`, `NoMoreBallotsThanMembers`, `CompleteTalliesAccepted`, `RelayTreesAlwaysAgree`, `DepositIsAccounted`, `RelaysAreFunded` |
| `RelayerProofs` | of `RelayerService`: `RelayerTypes`, `DatabaseIsAPast`, `AnswersCanBeTrusted`, `RequestsDoNotConflict`; of `SparseMerkleTree`: `TreeTypeCorrect`, `TreeAlwaysCanonical`, `ProofsAlwaysMeetCircuit` |
| `IndexerProofs` | `QueueIsComplete`, `TablesFollowLog` (the refinement of `EventLog`), `NoPollIsForgotten` |
| `IngestProofs` | of `Census`: `CensusTypes`, `OneKeyPerInvitation`, `CensusesCountVoters`, `PollsAreOfOneFile`; of `Ingest`: `IngestImplementsCensus` (the refinement of `Census`), `IngestTypes`, `ListedPollsHaveTheirVoters`, `ListingsAreFinal` |
| `VoterProofs` | `VoterTypes`, `StoredKeysWereSent`, `ForgottenStaysForgotten`, `LastSentVoteCounts` |
| `TallyProofs` | `TallyTypes`, `StoresAreExact`, `BatchesAreProvable`, `PublishedIsCorrect`, `StoreFitsAccount` |
| `FrontendProofs` | of `Keyring`: `KeyringTypes`, `AccountsAreKept`, `StoredListOpens`, `NamedAccountActs`, `KeysAreListedOnce`; of `ListPages`: `ListInvHolds`, `ButtonsAlwaysFit`, `NothingIsSkipped` |

Induction over data is done with sets of natural numbers (`NatSetInduction`) and
sets of subsets of a finite set (`SubsetInduction`), because the provers cannot
instantiate induction theorems that take an operator; recursion is by recursive
functions (`BoardAcc`, `BallotsAcc`, `OnEvents`, the walks and operations of
`SparseMerkleTree`), each with an unfolding lemma.
Sums are the folds of the community modules: `SumIterUnfold` shows that the
recursion behind `SumFunctionOnSet` is well defined on a finite set,
`SumOnRemove` that any element may be taken out first, and `SumExcept`,
`SumZero`, `SumOne` and `SumOfFibres` (the sizes of the classes of a set add up
to the set) follow from it.

**Mootvote, results.**  `ResultInv` is `TypeOK`, `TallyAccountFaithful`,
`PublishedAfterVoting` and `PublishedTallyCorrect`.  *TallyAccountFaithful* says
that the root of a Tally account is `Ballots` of what it read and its counters
are the histogram of that root; it speaks only of the account's own messages, so
votes that arrive meanwhile cannot disturb it.  It is preserved by a batch
because one message is (`TallySingleFaithful`: replacing one ballot moves one
counter down and one up, by `VotesUpdate` on cardinalities), and along a batch by
induction (`TallyOutFaithful`).  With nothing read the counters are arbitrary,
which is why the claim about them excludes the empty log, and the circuit's
condition on first batches starts the induction.  `FinishTally` then compares
the logs, so what it publishes is the histogram of the poll's log.
*PublishedTallyCorrect* alone is not inductive: a vote after the publication
would extend the log under the result.  *PublishedAfterVoting* (a result exists
only when the clock has passed the end of the voting) excludes it, and with it
gives `ResultFinal`: a second publication writes the same value.

**Mootvote, the latest message.**  `BallotInv` says of every log that each
message of a voter has a first sending, that every message introduces a new key
(the Vote circuit), and that a voter who follows the protocol has the ballot of
her latest sending.  A new message names the key of that ballot and replaces it;
a repeated one names an older key, and the circuit's inequality of old and new
key is what keeps a repetition of the latest message from applying again
(`LatestCountsAppend`).

**Mootvote, members.**  `OneBallotPerMember` speaks of published results only,
so the invariant (`MemberInv`) speaks of every log: each of its messages is for
this poll, by a member, with a choice in range (what the Vote circuit checks).
The ballots of a log are then ballots of members (`BallotsOfMembers`), and a
histogram of ballots adds up to at most their number (`SumOfFibres`).  The same
fact bounds each counter, which gives `CompleteTalliesAccepted`: what finish_tally
checks of the counters always holds.  Its two hypotheses are what the code does
not check: that no poll has more choices than the circuit has counters and that the electorate fits a u64.

**Mootvote, the deposit.**  `TreesInv` is the meaning of the relayer trees on the
chain: members' messages for this poll, each counted in one quota of its author,
no quota beyond `MSG_LIMIT`.  A relay adds one message and one to one quota of the
same voter (`TreesMeaningRelay`, by `SumExcept`).  `DepositInv` adds that the
platform fee of every poll is that of every configuration, which is the
hypothesis `OneFee`; the run `raised_fee` shows that it is needed.  Deposits then
shrink by what one message less is owed (`OneMessageLess`).  For
`RelaysAreFunded` the messages relayed are counted by author: under one relayer
key nobody has more than `MSG_LIMIT`, and the author of a message that relay would
accept has fewer (`RoomForOneMore`), so at least one message is still owed.

**RelayerService.**  `RelayerInv` has one part per mechanism: `LockInv` (nobody
is in line twice, and a request that sent its transaction holds the lock),
`FlightInv` (what is in flight belongs to a request that was received), `DbInv`
(the database is a subset of the chain's tree with matching quotas) and, for
polls of which no answer was lost, `InStep`: database and chain differ only
between the landing of the holder's transaction and its answer.  `RelayedInLog`
is an invariant of `Mootvote` that `AnswersCanBeTrusted` needs.

**Indexer.**  The invariant speaks of a *frontier*: the last transaction the
reader has dealt with.  The queue has everything between cursor and frontier;
above the end of the round exactly the delivered transactions are in
`confirmed_txs`; what is still to be fetched continues the frontier; and the
pages read so far are an interval that ends at the newest listed signature, with
`next_until` the newest final one.  A step of the database manager is then a step
of `EventLog`, every other one a stutter.

**Census and Ingest.**  Ids are given once, so a claim identifies its member and
an export is injective; an exported file stays good because claims only grow.
`IngestInv` adds what an attempt has inserted: complete batches in `voters`, a
position within the file, at most one attempt per poll, and no queued command
for a poll that has an attempt.  That each step of the composition is a step of
`Census` or leaves it alone is a case distinction.

**VoterClient.**  `KeyInv`: every key in IndexedDB, in a tab, in a running call
or in a ballot was introduced by a message that was submitted.  The maps of keys
anywhere in the browser, also those that a reload has read and a deletion will
write, are `Held`; every step makes new ones only by taking over one of them, by
clearing a key or by storing that of a vote that ends (`HeldStep`), from which both
`KeyInv` and `ForgottenIsFinal` follow.  `LastSentInv`
gives for an undisturbed voter the phase her votes are in: idle, running
(proving, pending, accepted), or settled and stored.

**TallyClient.**  `TallyInv`: every store, account and transaction is the exact
count of a prefix of the log, built on `TallySingleFaithful`; fresh salts exist
because finitely many are in use, and requests are for stores no further than the
indexer.  `MatchInv`: without a disturbance the stored
progress is that of an account, either at rest or between a batch and its
saving.

**Keyring.**  `KeptInv`: each call under way would store every account that is
kept and not exposed, and the keys a call adds are exposed unless it is alone;
hence whichever call ends next stores what must stay.  `PassInv`: while nothing
is muddled, the passphrase of every unlocked tab, running call and blob being
opened is the stored one; a keyring can only be created before any tab is
unlocked, and the field cannot be edited afterwards.  `ActingInv`: in a tab that
waits, the one call under way either lengthens the list or carries the index the
tab still has, so that its end leaves the index within the list.  `OnceInv`: all
lists are repetition-free lists of keys generated so far, and a blob being opened
is one of them.

**ListPages.**  Neither property is inductive, for both depend on what answers
still under way will show.  `ListInv` therefore speaks of every answer a page may
come from: under way, on display, or held by a handler of the members' forms
(`AnswersInv`).  Each is *whole*: it has every row that was there all the time
between its cursor and its last row, or all behind its cursor when there are no
more.  That rests on `FirstRows` (the servers return the front of the rows, and a
full page when some are left), and a member added to a page keeps it whole because
a page has room only where nothing follows (`MemberWhole`).  Each is *fresh*:
numbered at most `loads`, and for the cursor, account and filter of the page if it
is the last one asked for and nothing has strayed (a removal may end with a load
for an account that is not used any more).  `StackInv` says which cursor the stack stands for,
which differs from page to page, and `WalkInv` that the rows up to every cursor
walked have been shown; "next" extends it by the page on display (`NextSeen`),
which may be a late one, since its own cursor has been walked as well.  The
invariant was checked on the instance of `list_pages` before it was proved.

**SparseMerkleTree.**  `TreeInv` is the type invariant, `TreeIsCanonical`, and that
a tree just loaded stands for the entries of the database; the assumption on keys
(`TreeAssumption`: any two part below the last level a proof reaches, and none is
zero) is the only one.  The argument follows one path through a stored tree.  As
long as two entries share the bits of the path, the node met is the tree of the
entries under it (`WalkCanonical`), and by the assumption one entry at most is left
above the last level (`TwoAbove`), so the path ends there, at nothing or at the leaf
of that entry (`EndOfPath`, `EndCases`).  Downward induction over the levels then
shows that `push_leaf` makes the tree of its two leaves (`PushCanonical`) and
`add_leaf`, from any level, that of the entries with the new one
(`AddLeafCanonical`).  One lemma serves the other direction: over the tree of the
entries under a path, the nodes built from the siblings are the trees of the levels
above (`RebuiltCanonical`).  `update`, the circuit's verifier and its processor are
instances of it (`UpdatedCanonical`, `EndFoldsToRoot`, `PresentMeets`,
`MissingMeets`).  Two facts join library and circuit: the level the circuit finds
from the siblings is the end of the path (`LevInsIsEnd`: the node over it holds two
entries, of which the other side must have one where the end has none), and the
processor's insertion beside an old leaf, down to the first differing bit, is the
chain of nodes of `push_leaf` (`InsertedBeside`).  That an operation reads the
database only is harmless because the batch is empty when it starts; a second
operation on one batch would not be covered.

**Types.**  The type invariants are proved and not run, but for that of `Mootvote`
and `SparseMerkleTree`: each proof above starts from one.  `OneBallotPerMember`
is run with one poll; that a message counts in its own poll only is part of
`MemberInv` for any number of polls.

**Only model-checked.**  Liveness (`EveryRequestAnswered`, `EventuallyIndexed`,
`EventuallyListed`, `EventuallyPublished`) stays with TLC: it rests
on `ENABLED`, which the prover does not reason about.  Every safety invariant and
action property of the passing runs is a theorem.

## Not modelled

- `is_voter` and the single-row queries: they only read, and no component acts on
  them.  The status filters of `list_polls` compare with the clock; `ListPages`
  takes what an account sees under a filter as given.
- Names of accounts, and the files that accounts and revoting keys are exported to
  and imported from: an import is the key it brings.
- The remaining pages, the instruction builders and decoders of the TypeScript
  SDKs, helpers and scripts: they present or serialize data and keep no protocol
  state.
- Verification keys (generated) and deployment.
- Rollbacks of confirmed transactions, and nodes that answer a request for
  signatures without knowing `until`: the indexer's code has no step that would
  undo what it stored, so the models assume that neither happens.
- A second relayer service, or a service whose key was changed: it would start
  with an empty database in front of polls whose root is not empty, and the code
  offers no way to fill it.
