--------------------------- MODULE IndexerProofs ---------------------------
(***************************************************************************)
(* Machine-checked proofs about Indexer, for every number of transactions, *)
(* events, polls and restarts and every page size.                         *)
(***************************************************************************)
EXTENDS Indexer, FiniteSetTheorems, WellFoundedInduction, TLAPS

-----------------------------------------------------------------------------
(* Intervals *)

\* How many transactions lie between two slots of the history.
LEMMA IntervalSize ==
    ASSUME NEW a \in Int, NEW b \in Int, a <= b + 1
    PROVE  Cardinality(a..b) = b - a + 1
<1>1. Cardinality(a..b) = IF a > b THEN 0 ELSE b - a + 1
  BY FS_Interval
<1> QED
  BY <1>1

\* Sorted, an interval counts upwards.
LEMMA AscendingInterval ==
    ASSUME NEW a \in Int, NEW b \in Int, a <= b + 1
    PROVE  Ascending(a..b) = [k \in 1..(b - a + 1) |-> a + k - 1]
<1>1. Cardinality(a..b) = b - a + 1
  BY IntervalSize
<1>2. ASSUME NEW i \in a..b
      PROVE  Cardinality({j \in a..b : j < i}) = i - a
  <2>1. {j \in a..b : j < i} = a..(i - 1)
    OBVIOUS
  <2>2. PICK h \in Int : h = i - 1
    OBVIOUS
  <2>3. a <= h + 1
    BY <2>2
  <2>4. Cardinality(a..h) = h - a + 1
    BY <2>3, IntervalSize
  <2>5. Cardinality({j \in a..b : j < i}) = h - a + 1
    BY <2>1, <2>2, <2>4
  <2> QED
    BY <2>2, <2>5
<1>3. ASSUME NEW k \in 1..(b - a + 1)
      PROVE  (CHOOSE i \in a..b : Cardinality({j \in a..b : j < i}) = k - 1)
               = a + k - 1
  <2>1. \A i \in a..b : Cardinality({j \in a..b : j < i}) = k - 1 <=> i = a + k - 1
    BY <1>2
  <2>2. a + k - 1 \in a..b
    OBVIOUS
  <2> QED
    BY <2>1, <2>2
<1> QED
  BY <1>1, <1>3 DEF Ascending

\* The signatures of a page: at most PAGE_LIMIT up to newest, all above u.
PageOf(u, newest) == {i \in (u + 1)..newest : i > newest - PAGE_LIMIT}

\* A page that is not full reaches down to its lower end.
LEMMA PageIsInterval ==
    ASSUME NEW u \in Nat, NEW newest \in Int, u <= newest
    PROVE  \E low \in (u + 1)..(newest + 1) :
              /\ PageOf(u, newest) = low..newest
              /\ Cardinality(PageOf(u, newest)) < PAGE_LIMIT => low = u + 1
<1> PICK page : page = PageOf(u, newest)
  OBVIOUS
<1> USE DEF PageOf
<1>0. PICK limit : limit = PAGE_LIMIT
  OBVIOUS
<1>1. limit \in Nat \ {0}
  BY <1>0, IndexerConstants
<1>2. CASE u < newest - limit
  <2>1. PICK low \in Int : low = newest - limit + 1
    BY <1>1
  <2>2. page = low..newest
    BY <1>0, <1>1, <1>2, <2>1
  <2>3. low <= newest + 1
    BY <1>1, <2>1
  <2>4. Cardinality(low..newest) = newest - low + 1
    BY <2>3, IntervalSize
  <2>5. newest - low + 1 = limit
    BY <1>1, <2>1
  <2>6. Cardinality(page) = limit
    BY <2>2, <2>4, <2>5
  <2>7. low \in (u + 1)..(newest + 1)
    BY <1>1, <1>2, <2>1
  <2>8. ~(Cardinality(page) < limit)
    BY <1>1, <2>6
  <2> QED
    BY <1>0, <2>2, <2>7, <2>8
<1>3. CASE ~(u < newest - limit)
  <2>1. page = (u + 1)..newest
    BY <1>0, <1>1, <1>3
  <2>2. u + 1 \in (u + 1)..(newest + 1)
    OBVIOUS
  <2> QED
    BY <2>1, <2>2
<1> QED
  BY <1>2, <1>3

\* The ends of an interval.
LEMMA IntervalEnds ==
    ASSUME NEW a \in Int, NEW b \in Int, a <= b
    PROVE  Min(a..b) = a /\ Max(a..b) = b
<1>1. a \in a..b /\ \A y \in a..b : a <= y
  OBVIOUS
<1>2. b \in a..b /\ \A y \in a..b : b >= y
  OBVIOUS
<1>3. \A x \in a..b : (\A y \in a..b : x <= y) => x = a
  BY <1>1
<1>4. \A x \in a..b : (\A y \in a..b : x >= y) => x = b
  BY <1>2
<1>5. (CHOOSE x \in a..b : \A y \in a..b : x <= y) = a
  BY <1>1, <1>3
<1>6. (CHOOSE x \in a..b : \A y \in a..b : x >= y) = b
  BY <1>2, <1>4
<1> QED
  BY <1>5, <1>6 DEF Min, Max

-----------------------------------------------------------------------------
(* The tables *)

\* A set of naturals that holds 0 and is closed under successor is Nat.
LEMMA NatSetInduction ==
    ASSUME NEW T, T \subseteq Nat, 0 \in T, \A n \in T : n + 1 \in T
    PROVE  T = Nat
<1> DEFINE S == Nat \ T
<1>1. SUFFICES ASSUME S # {} PROVE FALSE
  OBVIOUS
<1>2. IsWellFoundedOn(OpToRel(<, Nat), Nat)
  BY NatLessThanWellFounded
<1>3. PICK x \in S : \A y \in S : ~ (<<y, x>> \in OpToRel(<, Nat))
  BY <1>1, <1>2, WFMin
<1>4. x \in Nat /\ x \notin T /\ x # 0
  BY <1>3
<1>5. x - 1 \in Nat /\ x - 1 < x
  BY <1>4
<1>6. <<x - 1, x>> \in OpToRel(<, Nat)
  BY <1>4, <1>5 DEF OpToRel
<1>7. x - 1 \in T
  BY <1>3, <1>5, <1>6
<1>8. (x - 1) + 1 = x
  BY <1>4
<1> QED
  BY <1>4, <1>7, <1>8

IsRows(r) == r = [polls |-> r.polls, tallied |-> r.tallied, votes |-> r.votes]

\* The polls created by the first i events.
CreatedBefore(events, i) ==
    {events[j].poll : j \in {k \in 1..i : events[k].kind = "CreatePoll"}}

\* An event adds at most its own row and takes none away.
LEMMA EventKeepsRows ==
    ASSUME NEW r, IsRows(r), NEW e \in Log!EventType, NEW id
    PROVE  /\ IsRows(Log!OnEvent(r, e, id))
           /\ Log!OnEvent(r, e, id).polls =
                r.polls \union (IF e.kind = "CreatePoll" THEN {e.poll} ELSE {})
<1>1. e.kind \in {"CreatePoll", "Vote", "FinishTally"}
  BY DEF Log!EventType
<1>2. CASE e.kind = "CreatePoll"
  BY <1>2 DEF Log!OnEvent, IsRows
<1>3. CASE e.kind = "Vote"
  BY <1>3 DEF Log!OnEvent, IsRows
<1>4. CASE e.kind = "FinishTally"
  BY <1>4 DEF Log!OnEvent, IsRows
<1> QED
  BY <1>1, <1>2, <1>3, <1>4

\* The rows after each event of a transaction.
EventsAcc(r, events, n, f, m) ==
    f = [i \in 0..m |-> IF i = 0 THEN r
                        ELSE Log!OnEvent(f[i - 1], events[i], <<n, i>>)]

\* The rows along the events of a transaction are well defined.
LEMMA EventsAccExists ==
    ASSUME NEW r, NEW events, NEW n, NEW m \in Nat
    PROVE  \E f : EventsAcc(r, events, n, f, m)
<1> DEFINE Step(x, i) == Log!OnEvent(x, events[i], <<n, i>>)
           Acc(f, k) == f = [i \in 0..k |-> IF i = 0 THEN r ELSE Step(f[i - 1], i)]
           T == {k \in Nat : \E f : Acc(f, k)}
<1>0. \A f : EventsAcc(r, events, n, f, m) <=> Acc(f, m)
  BY DEF EventsAcc
<1> HIDE DEF Acc, Step
<1>1. 0 \in T
  <2> DEFINE f == [i \in 0..0 |-> r]
  <2>1. f = [i \in 0..0 |-> IF i = 0 THEN r ELSE Step(f[i - 1], i)]
    OBVIOUS
  <2> QED
    BY <2>1 DEF Acc
<1>2. ASSUME NEW k \in T PROVE k + 1 \in T
  <2>1. PICK f : Acc(f, k)
    OBVIOUS
  <2> DEFINE g == [i \in 0..(k + 1) |-> IF i = k + 1 THEN Step(f[k], k + 1) ELSE f[i]]
             rhs == [i \in 0..(k + 1) |-> IF i = 0 THEN r ELSE Step(g[i - 1], i)]
  <2>2. k \in Nat
    OBVIOUS
  <2>3. ASSUME NEW i \in 0..(k + 1) PROVE g[i] = rhs[i]
    <3>1. CASE i = k + 1
      <4>1. g[i - 1] = f[k] /\ g[i] = Step(f[k], k + 1)
        BY <2>2, <3>1
      <4> QED BY <2>2, <3>1, <4>1
    <3>2. CASE i = 0
      <4>1. g[i] = f[0] /\ f[0] = r
        BY <2>1, <2>2, <3>2 DEF Acc
      <4> QED BY <2>2, <3>2, <4>1
    <3>3. CASE i \in 1..k
      <4>1. g[i] = f[i] /\ g[i - 1] = f[i - 1]
        BY <2>2, <3>3
      <4>2. f[i] = Step(f[i - 1], i)
        BY <2>1, <2>2, <3>3 DEF Acc
      <4> QED BY <2>2, <3>3, <4>1, <4>2
    <3> QED
      BY <2>2, <3>1, <3>2, <3>3
  <2>4. g = rhs
    BY <2>3
  <2>5. Acc(g, k + 1)
    BY <2>4 DEF Acc
  <2> QED
    BY <2>2, <2>5
<1>3. T = Nat
  <2> HIDE DEF T
  <2>1. T \subseteq Nat
    BY DEF T
  <2> QED BY <1>1, <1>2, <2>1, NatSetInduction
<1> QED
  BY <1>0, <1>3

\* The events of a transaction add the polls that they create, nothing else.
LEMMA EventsAddPolls ==
    ASSUME NEW r, IsRows(r), NEW events \in Seq(Log!EventType), NEW n
    PROVE  /\ IsRows(Log!OnEvents(r, events, n))
           /\ Log!OnEvents(r, events, n).polls = r.polls \union Log!CreatedBy(events)
<1>1. PICK len \in Nat : len = Len(events) /\ DOMAIN events = 1..len
  OBVIOUS
<1> DEFINE acc == CHOOSE f : EventsAcc(r, events, n, f, len)
<1>2. Log!OnEvents(r, events, n) = acc[len]
  BY <1>1 DEF Log!OnEvents, EventsAcc
<1>3. EventsAcc(r, events, n, acc, len)
  BY EventsAccExists
<1>4. PICK f : f = acc
  OBVIOUS
<1>5. f = [i \in 0..len |-> IF i = 0 THEN r
                            ELSE Log!OnEvent(f[i - 1], events[i], <<n, i>>)]
  BY <1>3, <1>4 DEF EventsAcc
<1> DEFINE T == {i \in Nat : i <= len =>
                    /\ IsRows(f[i])
                    /\ f[i].polls = r.polls \union CreatedBefore(events, i)}
<1> HIDE DEF acc
<1>6. 0 \in T
  <2>1. f[0] = r
    BY <1>5
  <2>2. CreatedBefore(events, 0) = {}
    BY DEF CreatedBefore
  <2> QED
    BY <2>1, <2>2
<1>7. ASSUME NEW i \in T PROVE i + 1 \in T
  <2>1. SUFFICES ASSUME i + 1 <= len
                 PROVE  /\ IsRows(f[i + 1])
                        /\ f[i + 1].polls =
                             r.polls \union CreatedBefore(events, i + 1)
    OBVIOUS
  <2>2. i \in 0..len /\ i + 1 \in 1..len /\ i \in Nat
    BY <2>1
  <2>3. IsRows(f[i]) /\ f[i].polls = r.polls \union CreatedBefore(events, i)
    BY <2>2
  <2>4. PICK e : e = events[i + 1]
    OBVIOUS
  <2>5. e \in Log!EventType
    BY <1>1, <2>2, <2>4
  <2>6. f[i + 1] = Log!OnEvent(f[i], e, <<n, i + 1>>)
    BY <1>5, <2>2, <2>4
  <2>7. /\ IsRows(f[i + 1])
        /\ f[i + 1].polls = f[i].polls \union
             (IF e.kind = "CreatePoll" THEN {e.poll} ELSE {})
    BY <2>3, <2>5, <2>6, EventKeepsRows
  <2>8. CreatedBefore(events, i + 1) = CreatedBefore(events, i) \union
             (IF e.kind = "CreatePoll" THEN {e.poll} ELSE {})
    <3>1. 1..(i + 1) = (1..i) \union {i + 1}
      BY <2>2
    <3> QED
      BY <2>4, <3>1 DEF CreatedBefore
  <2> QED
    BY <2>3, <2>7, <2>8
<1>8. T = Nat
  <2> HIDE DEF T
  <2>1. T \subseteq Nat
    BY DEF T
  <2> QED BY <1>6, <1>7, <2>1, NatSetInduction
<1>9. IsRows(f[len]) /\ f[len].polls = r.polls \union CreatedBefore(events, len)
  BY <1>8
<1>10. CreatedBefore(events, len) = Log!CreatedBy(events)
  BY <1>1 DEF CreatedBefore, Log!CreatedBy
<1> QED
  BY <1>2, <1>4, <1>9, <1>10

-----------------------------------------------------------------------------
(* The invariant.  frontier is the last transaction that the reader has    *)
(* dealt with: it was queued, or has no events, or is indexed.             *)

IndexerTypes ==
    /\ chain \in Seq(TxEvents)
    /\ finalized \in Nat /\ finalized <= Len(chain)
    /\ cursor \in Nat /\ cursor <= Len(chain)
    /\ IsRows(rows) /\ rows.polls \subseteq PollIds
    /\ ingested \in [Managers -> SUBSET PollIds]
    /\ commands \in [Managers -> SUBSET PollIds]
    /\ attempted \in [Managers -> SUBSET PollIds]
    /\ unsent \subseteq PollIds

\* The queue has what lies between the cursor and the frontier.
QueuedUpTo(frontier) ==
    /\ queue \in Seq(Nat)
    /\ \A i, j \in DOMAIN queue : i < j => queue[i] < queue[j]
    /\ \A i \in DOMAIN queue :
          cursor < queue[i] /\ queue[i] <= frontier /\ chain[queue[i]] # <<>>
    /\ \A n \in Nat : cursor < n /\ n <= frontier /\ chain[n] # <<>>
                        => \E j \in DOMAIN queue : queue[j] = n

\* Where the round under way, or else the next one, ends.
RoundEnd ==
    IF stage # "fetching" THEN until
    ELSE IF tx_read_from # None THEN tx_read_from
    ELSE IF next_until # None THEN next_until ELSE until

\* Above the end of the round, exactly the transactions that were delivered
\* are marked as such; what is still to be fetched follows the frontier.
ReadUpTo(frontier) ==
    /\ tx_read_from \in Nat /\ until \in Nat
    /\ next_until \in Nat /\ before \in Nat
    /\ to_fetch \in Seq(Nat)
    /\ frontier + Len(to_fetch) <= Len(chain)
    /\ RoundEnd <= frontier + Len(to_fetch)
    /\ \A k \in 1..Len(to_fetch) :
          /\ to_fetch[k] = frontier + k
          /\ listed[frontier + k] => frontier + k <= RoundEnd
    /\ \A n \in Nat : n > RoundEnd => (n \in confirmed_txs <=> n <= frontier)

\* The signatures of a round, as far as its pages were read.
ListedDownTo(low, tip) ==
    /\ until < low /\ low <= tip + 1 /\ tip <= Len(chain)
    /\ DOMAIN listed = low..tip
    /\ next_until # None => low <= next_until /\ next_until <= tip
    /\ \A n \in low..tip : listed[n] => next_until # None /\ n <= next_until

Reading ==
    /\ stage \in {"listing", "sorting", "fetching"}
    /\ stage # "fetching" => tx_read_from = None /\ to_fetch = <<>>
    /\ stage = "listing" =>
          /\ before = None => listed = NoSignatures /\ next_until = None
          /\ before # None => \E tip \in Nat : before <= tip /\ ListedDownTo(before, tip)
    /\ stage = "sorting" => \E tip \in Nat : ListedDownTo(until + 1, tip)

IndexerInv ==
    /\ IndexerTypes
    /\ Reading
    /\ \E frontier \in Nat :
          /\ cursor <= frontier
          /\ QueuedUpTo(frontier)
          /\ ReadUpTo(frontier)

-----------------------------------------------------------------------------
(* Steps of the chain *)

\* The indexer starts with an empty queue on an empty chain.
LEMMA InvInit == IndexerInit => IndexerInv
<1> SUFFICES ASSUME IndexerInit PROVE IndexerInv
  OBVIOUS
<1> USE DEF IndexerInit, None
<1>1. IndexerTypes
  BY DEF IndexerTypes, IsRows, Log!NoRows
<1>2. Reading
  BY DEF Reading
<1>3. QueuedUpTo(0)
  BY DEF QueuedUpTo
<1>4. ReadUpTo(0)
  BY DEF ReadUpTo, RoundEnd
<1> QED
  BY <1>1, <1>2, <1>3, <1>4 DEF IndexerInv

\* New transactions come after everything that was read.
LEMMA TransactStep ==
    ASSUME IndexerInv, NEW events \in TxEvents, Transact(events)
    PROVE  IndexerInv'
<1> USE DEF Transact, reader_vars, db_vars, manager_vars
<1>1. /\ chain' = Append(chain, events)
      /\ UNCHANGED <<finalized, restarts, queue, reader_vars, db_vars, manager_vars>>
  BY DEF Log!NewTransaction
<1>2. /\ chain' \in Seq(TxEvents)
      /\ Len(chain') = Len(chain) + 1
      /\ \A n \in Nat : n <= Len(chain) /\ n > 0 => chain'[n] = chain[n]
  BY <1>1 DEF IndexerInv, IndexerTypes
<1>3. IndexerTypes'
  BY <1>1, <1>2 DEF IndexerInv, IndexerTypes, IsRows
<1>4. Len(chain) \in Nat
  BY DEF IndexerInv, IndexerTypes
<1>5. Reading'
  <2>1. ASSUME NEW low \in Nat, NEW tip \in Nat, ListedDownTo(low, tip)
        PROVE  ListedDownTo(low, tip)'
    BY <1>1, <1>2, <1>4, <2>1 DEF ListedDownTo
  <2>2. PICK u \in Nat, b \in Nat : u = until /\ u = until' /\ b = before /\ b = before'
    BY <1>1 DEF IndexerInv, ReadUpTo
  <2>3. (\E tip \in Nat : ListedDownTo(until + 1, tip))
          => (\E tip \in Nat : ListedDownTo(until + 1, tip))'
    <3>1. \A tip \in Nat : ListedDownTo(u + 1, tip) => ListedDownTo(u + 1, tip)'
      BY <2>1, <2>2
    <3> QED
      BY <2>2, <3>1
  <2>4. (\E tip \in Nat : before <= tip /\ ListedDownTo(before, tip))
          => (\E tip \in Nat : before <= tip /\ ListedDownTo(before, tip))'
    <3>1. \A tip \in Nat : ListedDownTo(b, tip) => ListedDownTo(b, tip)'
      BY <2>1, <2>2
    <3> QED
      BY <2>2, <3>1
  <2> QED
    BY <1>1, <2>3, <2>4 DEF IndexerInv, Reading
<1>6. PICK frontier \in Nat :
          cursor <= frontier /\ QueuedUpTo(frontier) /\ ReadUpTo(frontier)
  BY DEF IndexerInv
<1>7. ReadUpTo(frontier)'
  BY <1>1, <1>2, <1>4, <1>6 DEF ReadUpTo, RoundEnd
<1>8. frontier <= Len(chain)
  BY <1>4, <1>6 DEF ReadUpTo
<1>9. QueuedUpTo(frontier)'
  <2>1. cursor \in Nat
    BY DEF IndexerInv, IndexerTypes
  <2>2. \A n \in Nat : cursor < n /\ n <= frontier => chain'[n] = chain[n]
    BY <1>2, <1>4, <1>6, <1>8, <2>1
  <2>3. queue' = queue /\ cursor' = cursor
    BY <1>1
  <2>4. queue \in Seq(Nat) /\ \A i \in DOMAIN queue : queue[i] \in Nat
    BY <1>6 DEF QueuedUpTo
  <2>5. \A i \in DOMAIN queue : chain'[queue[i]] = chain[queue[i]]
    BY <1>6, <2>2, <2>4 DEF QueuedUpTo
  <2> QED
    BY <1>6, <2>2, <2>3, <2>4, <2>5 DEF QueuedUpTo
<1> QED
  BY <1>1, <1>3, <1>5, <1>6, <1>7, <1>9 DEF IndexerInv

\* What the reader and the database see does not depend on finality.
LEMMA FinalizeStep == ASSUME IndexerInv, Finalize PROVE IndexerInv'
<1> USE DEF Finalize, reader_vars, db_vars, manager_vars
<1>1. IndexerTypes'
  BY DEF IndexerInv, IndexerTypes, IsRows
<1>2. Reading'
  BY DEF IndexerInv, Reading, ListedDownTo
<1>3. PICK frontier \in Nat :
          cursor <= frontier /\ QueuedUpTo(frontier) /\ ReadUpTo(frontier)
  BY DEF IndexerInv
<1>4. (cursor <= frontier /\ QueuedUpTo(frontier) /\ ReadUpTo(frontier))'
  BY <1>3 DEF QueuedUpTo, ReadUpTo, RoundEnd
<1> QED
  BY <1>1, <1>2, <1>4 DEF IndexerInv

-----------------------------------------------------------------------------
(* Steps of the reader *)

\* Types, queue and tables are not the reader's, but for what it delivers.
LEMMA ReaderTypes ==
    ASSUME IndexerInv, UNCHANGED <<chain, finalized, db_vars, manager_vars>>
    PROVE  IndexerTypes'
BY DEF IndexerInv, IndexerTypes, IsRows, db_vars, manager_vars

\* solana_reader.rs: a round begins with nothing listed.
LEMMA BeginRoundStep == ASSUME IndexerInv, BeginRound PROVE IndexerInv'
<1>1. /\ stage = "fetching" /\ to_fetch = <<>>
      /\ tx_read_from' = None /\ next_until' = None /\ before' = None
      /\ listed' = NoSignatures /\ stage' = "listing"
      /\ UNCHANGED <<chain, queue, cursor, confirmed_txs, to_fetch>>
  BY DEF BeginRound, db_vars
<1>2. until' = RoundEnd
  BY DEF BeginRound, RoundEnd
<1>3. IndexerTypes'
  BY ReaderTypes DEF BeginRound
<1>4. Reading'
  BY <1>1 DEF Reading
<1>5. PICK frontier \in Nat :
          cursor <= frontier /\ QueuedUpTo(frontier) /\ ReadUpTo(frontier)
  BY DEF IndexerInv
<1>6. QueuedUpTo(frontier)'
  BY <1>1, <1>5 DEF QueuedUpTo
<1>7. ReadUpTo(frontier)'
  <2>1. RoundEnd' = RoundEnd
    BY <1>1, <1>2 DEF RoundEnd
  <2>2. RoundEnd \in Nat /\ until' \in Nat
    BY <1>2, <1>5 DEF ReadUpTo, RoundEnd
  <2>3. Len(to_fetch) = 0 /\ to_fetch' = to_fetch
    BY <1>1
  <2> QED
    BY <1>1, <1>5, <2>1, <2>2, <2>3 DEF ReadUpTo, None
<1> QED
  BY <1>1, <1>3, <1>4, <1>5, <1>6, <1>7 DEF IndexerInv

\* A page extends the listed signatures downwards without a gap, whatever
\* node answers, and the newest final one of all pages is remembered.
LEMMA FetchPageStep ==
    ASSUME IndexerInv, NEW tip \in 0..Len(chain), NEW fin \in 0..finalized,
           FetchPage(tip, fin)
    PROVE  IndexerInv'
<1>1. /\ stage = "listing" /\ until <= tip /\ before <= tip
      /\ NextPage(tip, fin)
      /\ UNCHANGED <<chain, finalized, restarts, queue, tx_read_from, until,
                     confirmed_txs, to_fetch, db_vars, manager_vars>>
  BY DEF FetchPage
<1>2. IndexerTypes'
  BY <1>1, ReaderTypes
<1>3. PICK frontier \in Nat :
          cursor <= frontier /\ QueuedUpTo(frontier) /\ ReadUpTo(frontier)
  BY DEF IndexerInv
<1>4. /\ until \in Nat /\ before \in Nat /\ next_until \in Nat
      /\ Len(chain) \in Nat /\ tip \in Nat /\ tip <= Len(chain) /\ fin \in Nat
  BY <1>3 DEF IndexerInv, IndexerTypes, ReadUpTo
<1>5. PICK newest : newest = IF before = None THEN tip ELSE before - 1
  OBVIOUS
<1>6. PICK page : page = PageOf(until, newest)
  OBVIOUS
<1>7. PICK final : final = {i \in page : i <= fin}
  OBVIOUS
<1>8. /\ next_until' = IF next_until = None /\ final # {} THEN Max(final) ELSE next_until
      /\ before' = IF page # {} THEN Min(page) ELSE before
      /\ listed' = [i \in page \union DOMAIN listed |->
                      IF i \in page THEN i \in final ELSE listed[i]]
      /\ stage' = IF Cardinality(page) < PAGE_LIMIT THEN "sorting" ELSE stage
  BY <1>1, <1>5, <1>6, <1>7 DEF NextPage, PageOf
\* the pages so far reach from top down to the newest of this page
<1>9. PICK top \in Nat :
          /\ newest <= top /\ top <= Len(chain) /\ until <= newest /\ newest \in Int
          /\ DOMAIN listed = (newest + 1)..top
          /\ before # None => newest < top
          /\ next_until # None => newest + 1 <= next_until /\ next_until <= top
          /\ \A n \in (newest + 1)..top :
                listed[n] => next_until # None /\ n <= next_until
          /\ before = None => newest = top
          /\ before # None => newest + 1 = before
  <2>1. CASE before = None
    <3>1. DOMAIN listed = {} /\ next_until = None /\ newest = tip
      BY <1>1, <1>5, <2>1 DEF IndexerInv, Reading, NoSignatures
    <3>2. (newest + 1)..tip = {}
      BY <1>4, <3>1
    <3> QED
      BY <1>1, <1>4, <2>1, <3>1, <3>2
  <2>2. CASE before # None
    <3>1. PICK top \in Nat : before <= top /\ ListedDownTo(before, top)
      BY <1>1, <2>2 DEF IndexerInv, Reading
    <3>2. newest = before - 1
      BY <1>5, <2>2
    <3> QED
      BY <1>4, <2>2, <3>1, <3>2 DEF ListedDownTo
  <2> QED
    BY <2>1, <2>2
<1>10. PICK low \in (until + 1)..(newest + 1) :
          /\ page = low..newest
          /\ Cardinality(page) < PAGE_LIMIT => low = until + 1
  <2>1. until \in Nat
    BY <1>4
  <2>2. newest \in Int
    BY <1>9
  <2>3. until <= newest
    BY <1>9
  <2> QED
    BY <1>6, <2>1, <2>2, <2>3, PageIsInterval
<1>11. low \in Nat /\ until < low /\ low <= newest + 1
  BY <1>4, <1>9
<1>12. DOMAIN listed' = low..top
  <2>1. DOMAIN listed' = page \union DOMAIN listed
    BY <1>8
  <2>2. (low..newest) \union ((newest + 1)..top) = low..top
    BY <1>9, <1>11
  <2> QED
    BY <1>9, <1>10, <2>1, <2>2
<1>13. next_until' \in Nat
       /\ (next_until' # None => low <= next_until' /\ next_until' <= top)
       /\ \A n \in low..top : listed'[n] => next_until' # None /\ n <= next_until'
  <2>1. \A n \in low..newest : n \notin final => ~listed'[n]
    BY <1>8, <1>10
  <2>2. \A n \in (newest + 1)..top : listed'[n] = listed[n]
    <3>1. \A n \in (newest + 1)..top : n \notin page /\ n \in DOMAIN listed
      BY <1>9, <1>10, <1>11
    <3> QED
      BY <1>8, <3>1
  <2>3. CASE final = {}
    <3>1. next_until' = next_until
      BY <1>8, <2>3
    <3>2. \A n \in low..newest : ~listed'[n]
      BY <2>1, <2>3
    <3> QED
      BY <1>4, <1>9, <1>11, <2>2, <3>1, <3>2
  <2>4. CASE final # {} /\ next_until # None
    <3>1. next_until' = next_until
      BY <1>8, <2>4
    <3>2. newest + 1 <= next_until /\ next_until <= top
      BY <1>9, <2>4
    <3> QED
      BY <1>4, <1>9, <1>11, <2>2, <2>4, <3>1, <3>2
  <2>5. CASE final # {} /\ next_until = None
    <3>1. PICK last \in Int : last = IF fin <= newest THEN fin ELSE newest
      BY <1>4, <1>9
    <3>2. final = low..last
      BY <1>4, <1>7, <1>9, <1>10, <1>11, <3>1
    <3>3. low <= last /\ last <= newest
      BY <1>4, <1>9, <1>11, <2>5, <3>1, <3>2
    <3>4. Max(final) = last
      BY <1>11, <3>2, <3>3, IntervalEnds
    <3>5. next_until' = last
      BY <1>8, <2>5, <3>4
    <3>6. \A n \in (newest + 1)..top : ~listed'[n]
      BY <1>9, <2>2, <2>5
    <3>7. \A n \in low..newest : listed'[n] => n <= last
      BY <2>1, <3>2
    <3> QED
      BY <1>4, <1>9, <1>11, <3>3, <3>5, <3>6, <3>7 DEF None
  <2> QED
    BY <2>3, <2>4, <2>5
<1>14. ListedDownTo(low, top)'
  BY <1>1, <1>4, <1>9, <1>11, <1>12, <1>13 DEF ListedDownTo
<1>15. before' \in Nat /\ (page # {} => before' = low /\ low <= top)
       /\ (page = {} => before' = before)
  <2>1. CASE page = {}
    BY <1>4, <1>8, <2>1
  <2>2. CASE page # {}
    <3>1. low <= newest
      BY <1>9, <1>10, <1>11, <2>2
    <3>2. Min(page) = low
      BY <1>9, <1>10, <1>11, <3>1, IntervalEnds
    <3> QED
      BY <1>8, <1>9, <1>11, <2>2, <3>1, <3>2
  <2> QED
    BY <2>1, <2>2
<1>16. Reading'
  <2>1. CASE Cardinality(page) < PAGE_LIMIT
    <3>1. low = until' + 1 /\ stage' = "sorting"
      BY <1>1, <1>8, <1>10, <2>1
    <3>2. \E tp \in Nat : ListedDownTo(until + 1, tp)'
      BY <1>1, <1>14, <3>1
    <3> QED
      BY <1>1, <3>1, <3>2 DEF IndexerInv, Reading
  <2>2. CASE ~(Cardinality(page) < PAGE_LIMIT)
    <3>1. page # {}
      BY <2>2, IndexerConstants, FS_EmptySet
    <3>2. before' = low /\ low <= top /\ before' # None
      BY <1>4, <1>11, <1>15, <3>1 DEF None
    <3>3. stage' = "listing"
      BY <1>1, <1>8, <2>2
    <3>4. \E tp \in Nat : (before <= tp /\ ListedDownTo(before, tp))'
      BY <1>14, <3>2
    <3> QED
      BY <1>1, <3>2, <3>3, <3>4 DEF IndexerInv, Reading
  <2> QED
    BY <2>1, <2>2
<1>17. QueuedUpTo(frontier)'
  BY <1>1, <1>3 DEF QueuedUpTo, db_vars
<1>18. ReadUpTo(frontier)'
  <2>1. stage' # "fetching"
    BY <1>1, <1>8
  <2>2. RoundEnd' = RoundEnd
    BY <1>1, <2>1 DEF RoundEnd
  <2>3. to_fetch = <<>> /\ Len(to_fetch) = 0 /\ to_fetch' = to_fetch
    BY <1>1 DEF IndexerInv, Reading
  <2>4. tx_read_from' \in Nat /\ until' \in Nat /\ confirmed_txs' = confirmed_txs
        /\ chain' = chain
    BY <1>1, <1>3 DEF ReadUpTo
  <2> QED
    BY <1>3, <1>13, <1>15, <2>2, <2>3, <2>4 DEF ReadUpTo
<1>19. cursor' = cursor
  BY <1>1 DEF db_vars
<1> QED
  BY <1>2, <1>3, <1>16, <1>17, <1>18, <1>19 DEF IndexerInv

\* What is left after Unseen follows the frontier, although the listing may
\* have begun at a node that lagged behind an earlier one.
LEMMA SortStep == ASSUME IndexerInv, SortSignatures PROVE IndexerInv'
<1>1. /\ stage = "sorting" /\ stage' = "fetching"
      /\ to_fetch' = Ascending(Unseen(DOMAIN listed))
      /\ confirmed_txs' = {i \in confirmed_txs : i \notin DOMAIN listed \/ ~listed[i]}
      /\ UNCHANGED <<chain, finalized, restarts, queue, tx_read_from, until,
                     next_until, before, listed, db_vars, manager_vars>>
  BY DEF SortSignatures
<1>2. IndexerTypes'
  BY <1>1, ReaderTypes
<1>3. Reading'
  BY <1>1 DEF Reading
<1>4. PICK frontier \in Nat :
          cursor <= frontier /\ QueuedUpTo(frontier) /\ ReadUpTo(frontier)
  BY DEF IndexerInv
<1>5. QueuedUpTo(frontier)'
  BY <1>1, <1>4 DEF QueuedUpTo, db_vars
<1>6. PICK tip \in Nat : ListedDownTo(until + 1, tip)
  BY <1>1 DEF IndexerInv, Reading
<1>7. /\ tx_read_from = None /\ to_fetch = <<>> /\ RoundEnd = until
      /\ until \in Nat /\ next_until \in Nat /\ before \in Nat
      /\ Len(chain) \in Nat /\ tip <= Len(chain)
      /\ until <= frontier /\ frontier <= Len(chain)
      /\ \A n \in Nat : n > until => (n \in confirmed_txs <=> n <= frontier)
      /\ DOMAIN listed = (until + 1)..tip
      /\ next_until # None => until + 1 <= next_until /\ next_until <= tip
      /\ \A n \in (until + 1)..tip : listed[n] => next_until # None /\ n <= next_until
  BY <1>1, <1>4, <1>6
     DEF IndexerInv, IndexerTypes, Reading, RoundEnd, ReadUpTo, ListedDownTo
<1>8. PICK last \in Nat : last = IF frontier <= tip THEN tip ELSE frontier
  OBVIOUS
<1>9. Unseen(DOMAIN listed) = (frontier + 1)..last
  BY <1>7, <1>8 DEF Unseen
<1>10. PICK first \in Nat : first = frontier + 1
  OBVIOUS
<1>11. to_fetch' = [k \in 1..(last - first + 1) |-> first + k - 1]
  <2>1. first <= last + 1
    BY <1>7, <1>8, <1>10
  <2>2. Ascending(first..last) = [k \in 1..(last - first + 1) |-> first + k - 1]
    BY <2>1, AscendingInterval
  <2> QED
    BY <1>1, <1>9, <1>10, <2>2
<1>12. PICK len \in Nat : len = last - frontier
  BY <1>7, <1>8
<1>13. to_fetch' = [k \in 1..len |-> frontier + k]
  <2>1. last - first + 1 = len
    BY <1>10, <1>12
  <2>2. \A k \in 1..len : first + k - 1 = frontier + k
    BY <1>10
  <2> QED
    BY <1>11, <2>1, <2>2
<1>14. /\ to_fetch' \in Seq(Nat) /\ Len(to_fetch') = len
       /\ \A k \in 1..len : to_fetch'[k] = frontier + k
  BY <1>13
<1>15. PICK end \in Nat : end = IF next_until # None THEN next_until ELSE until
  BY <1>7
<1>16. RoundEnd' = end
  BY <1>1, <1>7, <1>15 DEF RoundEnd
<1>17. end <= frontier + len /\ frontier + len <= Len(chain) /\ until <= end
  BY <1>7, <1>8, <1>12, <1>15
<1>18. \A k \in 1..len : listed[frontier + k] => frontier + k <= end
  <2>1. ASSUME NEW k \in 1..len, listed[frontier + k] PROVE frontier + k <= end
    <3>1. PICK n \in Nat : n = frontier + k
      OBVIOUS
    <3>2. n \in (until + 1)..tip
      BY <1>7, <1>8, <1>12, <3>1
    <3> QED
      BY <1>7, <1>15, <2>1, <3>1, <3>2
  <2> QED
    BY <2>1
<1>19. \A n \in Nat : n > end => (n \in confirmed_txs' <=> n <= frontier)
  <2>1. \A n \in Nat : n > end => n > until
    BY <1>7, <1>17
  <2>2. \A n \in Nat : n > end /\ n \in DOMAIN listed => ~listed[n]
    BY <1>7, <1>15
  <2> QED
    BY <1>1, <1>7, <2>1, <2>2
<1>20. ReadUpTo(frontier)'
  <2>1. /\ tx_read_from' \in Nat /\ until' \in Nat /\ next_until' \in Nat
        /\ before' \in Nat /\ chain' = chain /\ listed' = listed
    BY <1>1, <1>7 DEF None
  <2> QED
    BY <1>14, <1>16, <1>17, <1>18, <1>19, <2>1 DEF ReadUpTo
<1>21. cursor' = cursor
  BY <1>1 DEF db_vars
<1> QED
  BY <1>2, <1>3, <1>4, <1>5, <1>20, <1>21 DEF IndexerInv

\* The next transaction is the one after the frontier.
LEMMA FetchTransactionStep ==
    ASSUME IndexerInv, FetchTransaction PROVE IndexerInv'
<1>1. PICK n : n = Head(to_fetch)
  OBVIOUS
<1>2. /\ stage = "fetching" /\ to_fetch # <<>>
      /\ queue' = IF chain[n] = <<>> THEN queue ELSE Append(queue, n)
      /\ confirmed_txs' = IF listed[n] THEN confirmed_txs ELSE confirmed_txs \union {n}
      /\ to_fetch' = Tail(to_fetch)
      /\ UNCHANGED <<chain, finalized, restarts, stage, tx_read_from, until,
                     next_until, before, listed, db_vars, manager_vars>>
  BY <1>1 DEF FetchTransaction, SendConfirmed
<1>3. IndexerTypes'
  BY <1>2, ReaderTypes
<1>4. Reading'
  BY <1>2 DEF IndexerInv, Reading
<1>5. PICK frontier \in Nat :
          cursor <= frontier /\ QueuedUpTo(frontier) /\ ReadUpTo(frontier)
  BY DEF IndexerInv
<1>6. PICK len \in Nat : len = Len(to_fetch)
  BY <1>5 DEF ReadUpTo
<1>7. len > 0 /\ Len(to_fetch') = len - 1 /\ to_fetch' \in Seq(Nat)
      /\ \A k \in 1..(len - 1) : to_fetch'[k] = to_fetch[k + 1]
  BY <1>2, <1>5, <1>6 DEF ReadUpTo
<1>8. \A k \in 1..len : to_fetch[k] = frontier + k
  BY <1>5, <1>6 DEF ReadUpTo
<1>9. n = frontier + 1 /\ n \in Nat
  <2>1. n = to_fetch[1]
    BY <1>1, <1>2, <1>5 DEF ReadUpTo
  <2> QED
    BY <1>7, <1>8, <2>1
<1>10. cursor \in Nat /\ cursor' = cursor
  BY <1>2 DEF IndexerInv, IndexerTypes, db_vars
<1>11. QueuedUpTo(n)'
  <2>1. /\ queue \in Seq(Nat)
        /\ \A i, j \in DOMAIN queue : i < j => queue[i] < queue[j]
        /\ \A i \in DOMAIN queue :
              cursor < queue[i] /\ queue[i] <= frontier /\ chain[queue[i]] # <<>>
        /\ \A k \in Nat : cursor < k /\ k <= frontier /\ chain[k] # <<>>
                            => \E j \in DOMAIN queue : queue[j] = k
    BY <1>5 DEF QueuedUpTo
  <2>2. chain' = chain
    BY <1>2
  <2>3. CASE chain[n] = <<>>
    <3>1. queue' = queue
      BY <1>2, <2>3
    <3>2. \A i \in DOMAIN queue : queue[i] <= n
      BY <1>9, <2>1
    <3>3. \A k \in Nat : k <= n => k <= frontier \/ k = n
      BY <1>9
    <3> QED
      BY <1>10, <2>1, <2>2, <2>3, <3>1, <3>2, <3>3 DEF QueuedUpTo
  <2>4. CASE chain[n] # <<>>
    <3>1. queue' = Append(queue, n)
      BY <1>2, <2>4
    <3>2. PICK m \in Nat : m = Len(queue)
      BY <2>1
    <3>3. /\ queue' \in Seq(Nat) /\ DOMAIN queue = 1..m /\ DOMAIN queue' = 1..(m + 1)
          /\ queue'[m + 1] = n
          /\ \A i \in 1..m : queue'[i] = queue[i]
      BY <1>9, <2>1, <3>1, <3>2
    <3>4. \A i, j \in DOMAIN queue' : i < j => queue'[i] < queue'[j]
      <4>1. ASSUME NEW i \in 1..(m + 1), NEW j \in 1..(m + 1), i < j
            PROVE  queue'[i] < queue'[j]
        <5>1. i \in 1..m /\ queue'[i] = queue[i] /\ queue[i] \in Nat /\ queue[i] <= frontier
          <6>1. i \in 1..m
            BY <4>1
          <6>2. queue'[i] = queue[i] /\ i \in DOMAIN queue
            BY <3>3, <6>1
          <6> QED
            BY <2>1, <6>1, <6>2
        <5>2. CASE j = m + 1
          BY <1>9, <3>3, <5>1, <5>2
        <5>3. CASE j \in 1..m
          BY <2>1, <3>3, <4>1, <5>1, <5>3
        <5> QED
          BY <5>2, <5>3
      <4> QED
        BY <3>3, <4>1
    <3>5. \A i \in DOMAIN queue' :
              cursor < queue'[i] /\ queue'[i] <= n /\ chain[queue'[i]] # <<>>
      <4>1. ASSUME NEW i \in 1..(m + 1)
            PROVE  cursor < queue'[i] /\ queue'[i] <= n /\ chain[queue'[i]] # <<>>
        <5>1. CASE i = m + 1
          BY <1>5, <1>9, <1>10, <2>4, <3>3, <5>1
        <5>2. CASE i \in 1..m
          <6>1. queue'[i] = queue[i] /\ queue[i] \in Nat /\ queue[i] <= frontier
                /\ cursor < queue[i] /\ chain[queue[i]] # <<>>
            BY <2>1, <3>3, <5>2
          <6> QED
            BY <1>9, <6>1
        <5> QED
          BY <5>1, <5>2
      <4> QED
        BY <3>3, <4>1
    <3>6. \A k \in Nat : cursor < k /\ k <= n /\ chain[k] # <<>>
                           => \E j \in DOMAIN queue' : queue'[j] = k
      <4>1. ASSUME NEW k \in Nat, cursor < k, k <= n, chain[k] # <<>>
            PROVE  \E j \in DOMAIN queue' : queue'[j] = k
        <5>1. CASE k = n
          BY <3>2, <3>3, <5>1
        <5>2. CASE k <= frontier
          <6>1. PICK j \in DOMAIN queue : queue[j] = k
            BY <2>1, <4>1, <5>2
          <6> QED
            BY <3>2, <3>3, <6>1
        <5> QED
          BY <1>9, <4>1, <5>1, <5>2
      <4> QED
        BY <4>1
    <3> QED
      BY <1>10, <2>2, <3>3, <3>4, <3>5, <3>6 DEF QueuedUpTo
  <2> QED
    BY <2>3, <2>4
<1>12. PICK end \in Nat : end = RoundEnd /\ RoundEnd' = end
  BY <1>2, <1>5 DEF ReadUpTo, RoundEnd
<1>13. ReadUpTo(n)'
  <2>1. /\ frontier + len <= Len(chain) /\ end <= frontier + len
        /\ \A k \in 1..len : listed[frontier + k] => frontier + k <= end
        /\ \A k \in Nat : k > end => (k \in confirmed_txs <=> k <= frontier)
    BY <1>5, <1>6, <1>12 DEF ReadUpTo
  <2>2. n + (len - 1) = frontier + len
    BY <1>9
  <2>3. ASSUME NEW k \in 1..(len - 1)
        PROVE  to_fetch'[k] = n + k /\ (listed[n + k] => n + k <= end)
    <3>1. k + 1 \in 1..len /\ n + k = frontier + (k + 1)
      BY <1>9
    <3> QED
      BY <1>7, <1>8, <2>1, <3>1
  <2>4. ASSUME NEW k \in Nat, k > end
        PROVE  k \in confirmed_txs' <=> k <= n
    <3>1. CASE k = n
      <4>1. ~listed[n]
        BY <1>7, <1>9, <2>1, <2>4, <3>1
      <4> QED
        BY <1>2, <1>9, <3>1, <4>1
    <3>2. CASE k # n
      <4>1. k \in confirmed_txs' <=> k \in confirmed_txs
        BY <1>2, <3>2
      <4>2. k <= n <=> k <= frontier
        BY <1>9, <3>2
      <4> QED
        BY <2>1, <2>4, <4>1, <4>2
    <3> QED
      BY <3>1, <3>2
  <2>5. /\ tx_read_from' \in Nat /\ until' \in Nat /\ next_until' \in Nat
        /\ before' \in Nat /\ chain' = chain /\ listed' = listed
    BY <1>2, <1>5 DEF ReadUpTo
  <2>6. Len(to_fetch') = len - 1 /\ to_fetch' \in Seq(Nat)
    BY <1>7
  <2>7. n + Len(to_fetch') <= Len(chain) /\ end <= n + Len(to_fetch')
    BY <2>1, <2>2, <2>6
  <2> QED
    BY <1>12, <2>3, <2>4, <2>5, <2>6, <2>7 DEF ReadUpTo
<1>14. cursor <= n
  BY <1>5, <1>9, <1>10
<1> QED
  BY <1>3, <1>4, <1>9, <1>10, <1>11, <1>13, <1>14 DEF IndexerInv

-----------------------------------------------------------------------------
(* Steps of the managers *)

\* The head of the queue is the next transaction with events.
LEMMA HeadIsNext ==
    ASSUME IndexerInv, queue # <<>>, NEW n, n = Head(queue)
    PROVE  /\ n \in Nat /\ cursor < n /\ n <= Len(chain) /\ chain[n] # <<>>
           /\ \A k \in Nat : cursor < k /\ k < n => chain[k] = <<>>
<1>1. PICK frontier \in Nat :
          cursor <= frontier /\ QueuedUpTo(frontier) /\ ReadUpTo(frontier)
  BY DEF IndexerInv
<1>2. queue \in Seq(Nat) /\ n = queue[1] /\ 1 \in DOMAIN queue
  BY <1>1 DEF QueuedUpTo
<1>3. n \in Nat /\ cursor < n /\ n <= frontier /\ chain[n] # <<>>
  BY <1>1, <1>2 DEF QueuedUpTo
<1>4. frontier <= Len(chain) /\ Len(chain) \in Nat
  BY <1>1 DEF ReadUpTo, IndexerInv, IndexerTypes
<1>5. ASSUME NEW k \in Nat, cursor < k, k < n, chain[k] # <<>> PROVE FALSE
  <2>1. k <= frontier
    BY <1>3, <1>5
  <2>2. PICK j \in DOMAIN queue : queue[j] = k
    BY <1>1, <1>5, <2>1 DEF QueuedUpTo
  <2>3. j = 1 \/ (1 < j /\ queue[1] < queue[j])
    BY <1>1, <1>2 DEF QueuedUpTo
  <2> QED
    BY <1>2, <1>3, <1>5, <2>2, <2>3
<1> QED
  BY <1>3, <1>4, <1>5

\* The events of a transaction create polls.
LEMMA CreatedArePolls ==
    ASSUME IndexerTypes, NEW n \in Nat, 0 < n, n <= Len(chain)
    PROVE  chain[n] \in Seq(Log!EventType) /\ Log!CreatedBy(chain[n]) \subseteq PollIds
<1>1. chain[n] \in Seq(Log!EventType)
  BY IndexerConstants DEF IndexerTypes
<1>2. PICK events : events = chain[n]
  OBVIOUS
<1>3. \A i \in DOMAIN events : events[i] \in Log!EventType
  BY <1>1, <1>2
<1>4. \A e \in Log!EventType : e.poll \in PollIds
  BY DEF Log!EventType
<1>5. Log!CreatedBy(events) \subseteq PollIds
  BY <1>3, <1>4 DEF Log!CreatedBy
<1> QED
  BY <1>1, <1>2, <1>5

\* The rows of a transaction and the cursor are committed at once.
LEMMA CommitStep == ASSUME IndexerInv, CommitEvents PROVE IndexerInv'
<1>1. PICK n : n = Head(queue)
  OBVIOUS
<1>2. /\ queue # <<>> /\ queue' = Tail(queue) /\ cursor' = n
      /\ rows' = Log!OnEvents(rows, chain[n], n)
      /\ unsent' = Log!CreatedBy(chain[n])
      /\ UNCHANGED <<chain, finalized, restarts, reader_vars, ingested, commands,
                     attempted, stopped>>
  BY <1>1 DEF CommitEvents
<1>3. /\ n \in Nat /\ cursor < n /\ n <= Len(chain) /\ chain[n] # <<>>
      /\ \A k \in Nat : cursor < k /\ k < n => chain[k] = <<>>
  BY <1>1, <1>2, HeadIsNext
<1>4. IndexerTypes
  BY DEF IndexerInv
<1>5. cursor \in Nat /\ 0 < n
  BY <1>3, <1>4 DEF IndexerTypes
<1>6. chain[n] \in Seq(Log!EventType) /\ Log!CreatedBy(chain[n]) \subseteq PollIds
  BY <1>3, <1>4, <1>5, CreatedArePolls
<1>7. IsRows(rows') /\ rows'.polls \subseteq PollIds
  <2>1. IsRows(rows) /\ rows.polls \subseteq PollIds
    BY <1>4 DEF IndexerTypes
  <2> QED
    BY <1>2, <1>6, <2>1, EventsAddPolls
<1>8. IndexerTypes'
  BY <1>2, <1>3, <1>4, <1>6, <1>7 DEF IndexerTypes, IsRows
<1>9. Reading'
  BY <1>2 DEF IndexerInv, Reading, ListedDownTo, reader_vars
<1>10. PICK frontier \in Nat :
          cursor <= frontier /\ QueuedUpTo(frontier) /\ ReadUpTo(frontier)
  BY DEF IndexerInv
<1>11. ReadUpTo(frontier)'
  BY <1>2, <1>10 DEF ReadUpTo, RoundEnd, reader_vars
<1>12. queue \in Seq(Nat)
  BY <1>10 DEF QueuedUpTo
<1>13. PICK m \in Nat : /\ m = Len(queue) /\ m > 0 /\ DOMAIN queue = 1..m
                        /\ DOMAIN queue' = 1..(m - 1) /\ queue' \in Seq(Nat)
                        /\ \A i \in 1..(m - 1) : queue'[i] = queue[i + 1]
                        /\ n = queue[1]
  BY <1>1, <1>2, <1>12
<1>14. n <= frontier
  <2>1. 1 \in DOMAIN queue
    BY <1>13
  <2> QED
    BY <1>10, <1>13, <2>1 DEF QueuedUpTo
<1>15. \A i, j \in 1..m : i < j => queue[i] < queue[j]
  BY <1>10, <1>13 DEF QueuedUpTo
<1>16. QueuedUpTo(frontier)'
  <2>1. \A i, j \in 1..(m - 1) : i < j => queue'[i] < queue'[j]
    BY <1>13, <1>15
  <2>2. ASSUME NEW i \in 1..(m - 1)
        PROVE  n < queue'[i] /\ queue'[i] <= frontier /\ chain[queue'[i]] # <<>>
    <3>1. i + 1 \in 1..m /\ queue'[i] = queue[i + 1] /\ 1 < i + 1 /\ 1 \in 1..m
      BY <1>13
    <3>2. n < queue[i + 1]
      BY <1>13, <1>15, <3>1
    <3> QED
      BY <1>10, <1>13, <3>1, <3>2 DEF QueuedUpTo
  <2>3. ASSUME NEW k \in Nat, n < k, k <= frontier, chain[k] # <<>>
        PROVE  \E j \in 1..(m - 1) : queue'[j] = k
    <3>1. cursor < k
      BY <1>3, <1>5, <2>3
    <3>2. PICK j \in 1..m : queue[j] = k
      BY <1>10, <1>13, <2>3, <3>1 DEF QueuedUpTo
    <3>3. j # 1
      BY <1>3, <1>13, <2>3, <3>2
    <3>4. j - 1 \in 1..(m - 1) /\ (j - 1) + 1 = j
      BY <3>3
    <3> QED
      BY <1>13, <3>2, <3>4
  <2>4. chain' = chain
    BY <1>2
  <2> QED
    BY <1>2, <1>13, <2>1, <2>2, <2>3, <2>4 DEF QueuedUpTo
<1> QED
  BY <1>2, <1>8, <1>9, <1>11, <1>14, <1>16 DEF IndexerInv

\* Steps that leave the reader, the queue and the cursor alone.
LEMMA ReaderUnmoved ==
    ASSUME IndexerInv, UNCHANGED <<chain, queue, cursor, reader_vars>>, IndexerTypes'
    PROVE  IndexerInv'
<1>1. Reading'
  BY DEF IndexerInv, Reading, ListedDownTo, reader_vars
<1>2. PICK frontier \in Nat :
          cursor <= frontier /\ QueuedUpTo(frontier) /\ ReadUpTo(frontier)
  BY DEF IndexerInv
<1>3. (cursor <= frontier /\ QueuedUpTo(frontier) /\ ReadUpTo(frontier))'
  BY <1>2 DEF QueuedUpTo, ReadUpTo, RoundEnd, reader_vars
<1> QED
  BY <1>1, <1>3 DEF IndexerInv

\* The ingest commands of a committed transaction are sent.
LEMMA SendCommandsStep == ASSUME IndexerInv, SendCommands PROVE IndexerInv'
<1>1. commands' \in [Managers -> SUBSET PollIds]
  BY DEF SendCommands, IndexerInv, IndexerTypes
<1>2. IndexerTypes'
  BY <1>1 DEF SendCommands, IndexerInv, IndexerTypes, IsRows, db_vars
<1> QED
  BY <1>2, ReaderUnmoved DEF SendCommands, db_vars

\* A database error ends the manager before it commits.
LEMMA DbErrorStep == ASSUME IndexerInv, DbError PROVE IndexerInv'
<1>1. IndexerTypes'
  BY DEF DbError, IndexerInv, IndexerTypes, IsRows, db_vars
<1> QED
  BY <1>1, ReaderUnmoved DEF DbError, db_vars

\* What an ingest manager does with a poll it was sent.
LEMMA IngestStep ==
    ASSUME IndexerInv, NEW m \in Managers, NEW p \in PollIds, NEW accepted \in BOOLEAN,
           Ingest(m, p, accepted)
    PROVE  IndexerInv'
<1>1. /\ ingested' \in [Managers -> SUBSET PollIds]
      /\ commands' \in [Managers -> SUBSET PollIds]
      /\ attempted' \in [Managers -> SUBSET PollIds]
  BY DEF Ingest, IndexerInv, IndexerTypes
<1>2. IndexerTypes'
  BY <1>1 DEF Ingest, IndexerInv, IndexerTypes, IsRows
<1> QED
  BY <1>2, ReaderUnmoved DEF Ingest

\* A restart takes the frontier back to the cursor.
LEMMA RestartStep == ASSUME IndexerInv, Restart PROVE IndexerInv'
<1>1. /\ stage' = "fetching" /\ tx_read_from' = cursor /\ until' = None
      /\ next_until' = None /\ before' = None /\ listed' = NoSignatures
      /\ confirmed_txs' = {} /\ to_fetch' = <<>> /\ queue' = <<>>
      /\ unsent' = {} /\ commands' = Unfinished
      /\ attempted' = [m \in Managers |-> {}]
      /\ UNCHANGED <<chain, finalized, rows, cursor, ingested>>
  BY DEF Restart, Start, db_vars
<1>2. cursor \in Nat /\ cursor <= Len(chain) /\ Len(chain) \in Nat
  BY DEF IndexerInv, IndexerTypes
<1>3. IndexerTypes'
  BY <1>1 DEF IndexerInv, IndexerTypes, IsRows, Unfinished
<1>4. Reading'
  BY <1>1 DEF Reading
<1>5. QueuedUpTo(cursor)'
  BY <1>1, <1>2 DEF QueuedUpTo
<1>6. ReadUpTo(cursor)'
  <2>1. RoundEnd' = cursor
    BY <1>1 DEF RoundEnd, None
  <2> QED
    BY <1>1, <1>2, <2>1 DEF ReadUpTo, None
<1> QED
  BY <1>1, <1>2, <1>3, <1>4, <1>5, <1>6 DEF IndexerInv

\* Every step of reader, managers, nodes and chain keeps the invariant.
LEMMA InvStep == IndexerInv /\ [IndexerNext]_indexer_vars => IndexerInv'
<1> SUFFICES ASSUME IndexerInv, [IndexerNext]_indexer_vars PROVE IndexerInv'
  OBVIOUS
<1>1. ASSUME NEW events \in TxEvents, Transact(events) PROVE IndexerInv'
  BY <1>1, TransactStep
<1>2. CASE Finalize
  BY <1>2, FinalizeStep
<1>3. CASE BeginRound
  BY <1>3, BeginRoundStep
<1>4. ASSUME NEW tip \in 0..Len(chain), NEW fin \in 0..finalized, FetchPage(tip, fin)
      PROVE  IndexerInv'
  BY <1>4, FetchPageStep
<1>5. CASE SortSignatures
  BY <1>5, SortStep
<1>6. CASE FetchTransaction
  BY <1>6, FetchTransactionStep
<1>7. CASE CommitEvents
  BY <1>7, CommitStep
<1>8. CASE SendCommands
  BY <1>8, SendCommandsStep
<1>9. CASE DbError
  BY <1>9, DbErrorStep
<1>10. ASSUME NEW m \in Managers, NEW p \in PollIds, NEW accepted \in BOOLEAN,
              Ingest(m, p, accepted)
       PROVE  IndexerInv'
  BY <1>10, IngestStep
<1>11. CASE Restart
  BY <1>11, RestartStep
<1>12. CASE UNCHANGED indexer_vars
  <2>1. IndexerTypes'
    BY <1>12 DEF IndexerInv, IndexerTypes, IsRows, indexer_vars, db_vars, manager_vars
  <2> QED
    BY <1>12, <2>1, ReaderUnmoved DEF indexer_vars, db_vars
<1> QED
  BY <1>1, <1>2, <1>3, <1>4, <1>5, <1>6, <1>7, <1>8, <1>9, <1>10, <1>11, <1>12
     DEF IndexerNext

-----------------------------------------------------------------------------
(* Theorems *)

\* The reader never holds back or repeats a transaction: what it has queued
\* is ascending, above the cursor and complete, across pages of any size,
\* lagging nodes, rounds and restarts (solana_reader).
THEOREM QueueIsComplete == IndexerSpec => []QueueIsNext
<1>1. IndexerInv => QueueIsNext
  <2> SUFFICES ASSUME IndexerInv PROVE QueueIsNext
    OBVIOUS
  <2>1. PICK frontier \in Nat : QueuedUpTo(frontier)
    BY DEF IndexerInv
  <2>2. cursor \in Nat /\ queue \in Seq(Nat)
    BY <2>1 DEF IndexerInv, IndexerTypes, QueuedUpTo
  <2>3. ASSUME NEW i \in DOMAIN queue, NEW n \in (cursor + 1)..queue[i], chain[n] # <<>>
        PROVE  \E j \in DOMAIN queue : queue[j] = n
    <3>1. queue[i] \in Nat /\ queue[i] <= frontier
      BY <2>1, <2>2 DEF QueuedUpTo
    <3>2. n \in Nat /\ cursor < n /\ n <= frontier
      BY <2>2, <3>1
    <3> QED
      BY <2>1, <2>3, <3>2 DEF QueuedUpTo
  <2> QED
    BY <2>1, <2>2, <2>3 DEF QueueIsNext, QueuedUpTo
<1> QED
  BY <1>1, InvInit, InvStep, PTL DEF IndexerSpec

\* The tables are those of the abstract log: every transaction's events are
\* applied once, in order and as a whole (IndexesLog is Log!LogSpec).
THEOREM TablesFollowLog == IndexerSpec => IndexesLog
<1>1. IndexerInit => Log!LogInit
  BY DEF IndexerInit, Log!LogInit, None
<1>2. IndexerInv /\ [IndexerNext]_indexer_vars => [Log!LogNext]_(Log!log_vars)
  <2> SUFFICES ASSUME IndexerInv, [IndexerNext]_indexer_vars
               PROVE  [Log!LogNext]_(Log!log_vars)
    OBVIOUS
  <2> USE DEF Log!log_vars
  <2>1. ASSUME NEW events \in TxEvents, Transact(events) PROVE Log!LogNext
    BY <2>1 DEF Transact, Log!LogNext, db_vars
  <2>2. CASE CommitEvents
    <3>1. PICK n : n = Head(queue)
      OBVIOUS
    <3>2. /\ n \in Nat /\ cursor < n /\ n <= Len(chain) /\ chain[n] # <<>>
          /\ \A k \in Nat : cursor < k /\ k < n => chain[k] = <<>>
      BY <2>2, <3>1, HeadIsNext DEF CommitEvents
    <3>3. cursor \in Nat /\ Len(chain) \in Nat
      BY DEF IndexerInv, IndexerTypes
    <3>4. n \in (cursor + 1)..Len(chain)
      BY <3>2, <3>3
    <3>5. \A k \in (cursor + 1)..(n - 1) : chain[k] = <<>>
      BY <3>2, <3>3
    <3>6. rows' = Log!OnEvents(rows, chain[n], n) /\ cursor' = n /\ chain' = chain
      BY <2>2, <3>1 DEF CommitEvents
    <3>7. Log!ApplyNext(n)
      BY <3>2, <3>5, <3>6 DEF Log!ApplyNext
    <3> QED
      BY <3>4, <3>6, <3>7 DEF Log!LogNext
  <2>3. CASE Finalize
    BY <2>3 DEF Finalize, db_vars
  <2>4. CASE BeginRound
    BY <2>4 DEF BeginRound, db_vars
  <2>5. ASSUME NEW tip, NEW fin, FetchPage(tip, fin)
        PROVE  UNCHANGED Log!log_vars
    BY <2>5 DEF FetchPage, db_vars
  <2>6. CASE SortSignatures
    BY <2>6 DEF SortSignatures, db_vars
  <2>7. CASE FetchTransaction
    BY <2>7 DEF FetchTransaction, db_vars
  <2>8. CASE SendCommands
    BY <2>8 DEF SendCommands, db_vars
  <2>9. CASE DbError
    BY <2>9 DEF DbError, db_vars
  <2>10. ASSUME NEW m, NEW p, NEW accepted, Ingest(m, p, accepted)
         PROVE  UNCHANGED Log!log_vars
    BY <2>10 DEF Ingest
  <2>11. CASE Restart
    BY <2>11 DEF Restart, db_vars
  <2>12. CASE UNCHANGED indexer_vars
    BY <2>12 DEF indexer_vars, db_vars
  <2> QED
    BY <2>1, <2>2, <2>3, <2>4, <2>5, <2>6, <2>7, <2>8, <2>9, <2>10, <2>11, <2>12
       DEF IndexerNext
<1> QED
  BY <1>1, <1>2, InvInit, InvStep, PTL DEF IndexerSpec, IndexesLog, Log!LogSpec

\* Every poll in the tables is ingested, was tried by this process, or has a
\* command or is about to get one, wherever the process was cut off.
THEOREM NoPollIsForgotten == IndexerSpec => []NoPollForgotten
<1>1. IndexerInit => NoPollForgotten
  BY DEF IndexerInit, NoPollForgotten, Log!NoRows
<1>2. IndexerInv /\ NoPollForgotten /\ [IndexerNext]_indexer_vars => NoPollForgotten'
  <2> SUFFICES ASSUME IndexerInv, NoPollForgotten, [IndexerNext]_indexer_vars
               PROVE  NoPollForgotten'
    OBVIOUS
  <2> USE DEF NoPollForgotten
  <2>1. ASSUME UNCHANGED <<db_vars, manager_vars>> PROVE NoPollForgotten'
    BY <2>1 DEF db_vars, manager_vars
  <2>2. CASE CommitEvents
    <3>1. PICK n : n = Head(queue)
      OBVIOUS
    <3>2. /\ n \in Nat /\ cursor < n /\ n <= Len(chain)
      BY <2>2, <3>1, HeadIsNext DEF CommitEvents
    <3>3. IndexerTypes /\ IsRows(rows) /\ 0 < n
      BY <3>2 DEF IndexerInv, IndexerTypes
    <3>4. chain[n] \in Seq(Log!EventType)
      BY <3>2, <3>3, CreatedArePolls
    <3>5. /\ rows' = Log!OnEvents(rows, chain[n], n)
          /\ unsent' = Log!CreatedBy(chain[n]) /\ unsent = {}
          /\ UNCHANGED <<ingested, attempted, commands>>
      BY <2>2, <3>1 DEF CommitEvents
    <3>6. rows'.polls = rows.polls \union unsent'
      BY <3>3, <3>4, <3>5, EventsAddPolls
    <3> QED
      BY <3>5, <3>6
  <2>3. CASE SendCommands
    BY <2>3 DEF SendCommands, db_vars, IndexerInv, IndexerTypes
  <2>4. CASE DbError
    BY <2>4 DEF DbError, db_vars
  <2>5. ASSUME NEW m \in Managers, NEW p \in PollIds, NEW accepted \in BOOLEAN,
               Ingest(m, p, accepted)
        PROVE  NoPollForgotten'
    BY <2>5 DEF Ingest, IndexerInv, IndexerTypes
  <2>6. CASE Restart
    BY <2>6 DEF Restart, Start, Unfinished, db_vars
  <2>7. ASSUME NEW events, Transact(events) PROVE NoPollForgotten'
    BY <2>1, <2>7 DEF Transact
  <2>8. ASSUME NEW tip, NEW fin, FetchPage(tip, fin) PROVE NoPollForgotten'
    BY <2>1, <2>8 DEF FetchPage
  <2>9. CASE Finalize \/ BeginRound \/ SortSignatures \/ FetchTransaction
    BY <2>1, <2>9 DEF Finalize, BeginRound, SortSignatures, FetchTransaction
  <2>10. CASE UNCHANGED indexer_vars
    BY <2>1, <2>10 DEF indexer_vars
  <2> QED
    BY <2>2, <2>3, <2>4, <2>5, <2>6, <2>7, <2>8, <2>9, <2>10 DEF IndexerNext
<1> QED
  BY <1>1, <1>2, InvInit, InvStep, PTL DEF IndexerSpec
=============================================================================
