---------------------------- MODULE TallyProofs ----------------------------
(***************************************************************************)
(* Machine-checked proofs about TallyClient, for every number of tabs,     *)
(* wallets, voters, choices and messages, every batch size, and any number *)
(* of transactions in flight.                                              *)
(***************************************************************************)
EXTENDS TallyClient, CircuitsProofs

USE DEF remaining

-----------------------------------------------------------------------------
(* The client's count *)

BoardOf(s) == [root |-> s.leaves, tally |-> s.counts]

\* One turn of the loop does to leaves and counts what the circuit does.
LEMMA CountVoteFaithful ==
    ASSUME NEW s \in TallyStores, NEW m \in Messages
    PROVE  /\ CountVote(s, m) \in TallyStores
           /\ CountVote(s, m).processed = s.processed + 1
           /\ CountVote(s, m).hash = Append(s.hash, m)
           /\ CountVote(s, m).salt = s.salt
           /\ BoardOf(CountVote(s, m)) = TallySingle(BoardOf(s), m)
<1> DEFINE old == s.leaves[Nullifier(m)]
           valid == old.key = m.revotingKeyOld
           out == TallySingle(BoardOf(s), m)
           c == CountVote(s, m)
<1>1. /\ s.processed \in Nat /\ s.hash \in Seq(Messages) /\ s.salt \in Nat
      /\ s.counts \in Tallies /\ s.leaves \in Trees
      /\ Nullifier(m) \in Nullifiers /\ m.choice \in Nat /\ old.choice \in Nat
  BY CircuitConstants DEF TallyStores, MessageType, Nullifier, Nullifiers, Trees
<1>2. /\ c.processed = s.processed + 1
      /\ c.hash = Append(s.hash, m)
      /\ c.salt = s.salt
      /\ c.leaves = IF valid
                    THEN [s.leaves EXCEPT ![Nullifier(m)] =
                            [choice |-> m.choice, key |-> m.revotingKeyNew]]
                    ELSE s.leaves
      /\ c.counts = [k \in 1..MAX_CHOICES |->
            s.counts[k] - (IF valid /\ old.choice = k THEN 1 ELSE 0)
                        + (IF valid /\ m.choice = k THEN 1 ELSE 0)]
      /\ c = [processed |-> c.processed, hash |-> c.hash, salt |-> c.salt,
              counts |-> c.counts, leaves |-> c.leaves]
  BY DEF CountVote
<1>3. /\ out.root = IF valid
                    THEN [s.leaves EXCEPT ![Nullifier(m)] =
                            [choice |-> m.choice, key |-> m.revotingKeyNew]]
                    ELSE s.leaves
      /\ out.tally = [k \in 1..MAX_CHOICES |->
            TallyChoice(valid, old.choice, m.choice, k, s.counts[k])]
      /\ out = [root |-> out.root, tally |-> out.tally]
  BY DEF TallySingle, RevotingKeyMatches, BoardOf
<1>4. BoardOf(s) \in Boards
  BY <1>1 DEF BoardOf, Boards
<1>5. out \in Boards
  BY <1>4, TallySingleFaithful
<1> HIDE DEF old, valid, out, c
<1>6. ASSUME NEW k \in 1..MAX_CHOICES PROVE c.counts[k] = out.tally[k]
  <2>1. s.counts[k] \in Int
    BY <1>1 DEF Tallies
  <2>2. CASE valid
    BY <1>2, <1>3, <2>1, <2>2 DEF TallyChoice
  <2>3. CASE ~valid
    BY <1>2, <1>3, <2>1, <2>3 DEF TallyChoice
  <2> QED
    BY <2>2, <2>3
<1>7. c.counts = out.tally
  BY <1>2, <1>3, <1>6
<1>8. c.leaves = out.root
  BY <1>2, <1>3
<1>9. BoardOf(c) = out
  BY <1>3, <1>7, <1>8 DEF BoardOf
<1>10. c.counts \in Tallies /\ c.leaves \in Trees
  BY <1>5, <1>7, <1>8 DEF Boards
<1>11. c \in TallyStores
  <2>1. c.processed \in Nat /\ c.hash \in Seq(Messages) /\ c.salt \in Nat
    BY <1>1, <1>2
  <2>2. c = [processed |-> c.processed, hash |-> c.hash, salt |-> c.salt,
             counts |-> c.counts, leaves |-> c.leaves]
    BY <1>2
  <2> QED
    BY <1>10, <2>1, <2>2 DEF TallyStores
<1> QED
  BY <1>2, <1>9, <1>11 DEF c, out

\* The loop over a batch is well defined, and its result agrees with what the
\* circuit computes: the client can always prove what it counted.
LEMMA CountedFaithful ==
    ASSUME NEW s \in TallyStores, NEW batch \in Seq(Messages)
    PROVE  /\ Counted(s, batch) \in TallyStores
           /\ Counted(s, batch).processed = s.processed + Len(batch)
           /\ Counted(s, batch).hash = s.hash \o batch
           /\ BoardOf(Counted(s, batch)) = TallyOut(s.leaves, s.counts, batch)
<1> DEFINE Acc(f, n) == f = [i \in 0..n |-> IF i = 0 THEN s
                                            ELSE CountVote(f[i - 1], batch[i])]
           T == {n \in Nat : \E f : Acc(f, n)}
<1> HIDE DEF Acc
<1>1. 0 \in T
  <2> DEFINE f == [i \in 0..0 |-> s]
  <2>1. f = [i \in 0..0 |-> IF i = 0 THEN s ELSE CountVote(f[i - 1], batch[i])]
    OBVIOUS
  <2> QED
    BY <2>1 DEF Acc
<1>2. ASSUME NEW n \in T PROVE n + 1 \in T
  <2>1. PICK f : Acc(f, n)
    OBVIOUS
  <2> DEFINE g == [i \in 0..(n + 1) |->
                     IF i = n + 1 THEN CountVote(f[n], batch[n + 1]) ELSE f[i]]
             rhs == [i \in 0..(n + 1) |->
                       IF i = 0 THEN s ELSE CountVote(g[i - 1], batch[i])]
  <2>2. n \in Nat
    OBVIOUS
  <2>3. ASSUME NEW i \in 0..(n + 1) PROVE g[i] = rhs[i]
    <3>1. CASE i = n + 1
      <4>1. g[i - 1] = f[n] /\ g[i] = CountVote(f[n], batch[n + 1])
        BY <2>2, <3>1
      <4> QED BY <2>2, <3>1, <4>1
    <3>2. CASE i = 0
      <4>1. g[i] = f[0] /\ f[0] = s
        BY <2>1, <2>2, <3>2 DEF Acc
      <4> QED BY <2>2, <3>2, <4>1
    <3>3. CASE i \in 1..n
      <4>1. g[i] = f[i] /\ g[i - 1] = f[i - 1]
        BY <2>2, <3>3
      <4>2. f[i] = CountVote(f[i - 1], batch[i])
        BY <2>1, <2>2, <3>3 DEF Acc
      <4> QED BY <2>2, <3>3, <4>1, <4>2
    <3> QED
      BY <2>2, <3>1, <3>2, <3>3
  <2>4. g = rhs
    BY <2>3
  <2>5. Acc(g, n + 1)
    BY <2>4 DEF Acc
  <2> QED
    BY <2>2, <2>5
<1>3. T = Nat
  <2> HIDE DEF T
  <2>1. T \subseteq Nat
    BY DEF T
  <2> QED BY <1>1, <1>2, <2>1, NatSetInduction
<1>4. Len(batch) \in Nat
  OBVIOUS
<1>5. \E f : Acc(f, Len(batch))
  <2>1. Len(batch) \in T
    BY <1>3, <1>4
  <2> QED BY <2>1
<1> HIDE DEF T
<1> DEFINE acc == CHOOSE f : Acc(f, Len(batch))
           board == BoardAcc(BoardOf(s), batch)
<1>6. Counted(s, batch) = acc[Len(batch)]
  BY DEF Counted, Acc
<1>7. Acc(acc, Len(batch))
  BY <1>5
<1> HIDE DEF acc
<1>8. acc = [i \in 0..Len(batch) |-> IF i = 0 THEN s ELSE CountVote(acc[i - 1], batch[i])]
  BY <1>7 DEF Acc
<1>9. board = [i \in 0..Len(batch) |->
                 IF i = 0 THEN BoardOf(s) ELSE TallySingle(board[i - 1], batch[i])]
  BY BoardAccUnfold
<1> HIDE DEF board
<1> DEFINE Good(i) == /\ acc[i] \in TallyStores
                      /\ acc[i].processed = s.processed + i
                      /\ acc[i].hash = s.hash \o SubSeq(batch, 1, i)
                      /\ BoardOf(acc[i]) = board[i]
           G == {i \in Nat : i <= Len(batch) => Good(i)}
<1> HIDE DEF Good
<1>10. s.processed \in Nat /\ s.hash \in Seq(Messages)
  BY DEF TallyStores
<1>11. 0 \in G
  <2>1. acc[0] = s /\ board[0] = BoardOf(s)
    BY <1>4, <1>8, <1>9
  <2>2. s.hash \o SubSeq(batch, 1, 0) = s.hash
    BY <1>10
  <2>3. s.processed = s.processed + 0
    BY <1>10
  <2>4. Good(0)
    BY <2>1, <2>2, <2>3 DEF Good
  <2> QED
    BY <2>4
<1>12. ASSUME NEW i \in G PROVE i + 1 \in G
  <2>1. SUFFICES ASSUME i + 1 <= Len(batch) PROVE Good(i + 1)
    OBVIOUS
  <2>2. i \in Nat /\ i \in 0..(Len(batch) - 1) /\ i + 1 \in 1..Len(batch)
    BY <1>4, <2>1
  <2>3. Good(i)
    BY <1>4, <2>1, <2>2
  <2>4. acc[i + 1] = CountVote(acc[i], batch[i + 1])
    BY <1>4, <1>8, <2>2
  <2>5. board[i + 1] = TallySingle(board[i], batch[i + 1])
    BY <1>4, <1>9, <2>2
  <2>6. /\ batch[i + 1] \in Messages
        /\ s.hash \o SubSeq(batch, 1, i + 1) =
             Append(s.hash \o SubSeq(batch, 1, i), batch[i + 1])
    BY <1>10, <2>2, PrefixStep
  <2>7. /\ acc[i + 1] \in TallyStores
        /\ acc[i + 1].processed = acc[i].processed + 1
        /\ acc[i + 1].hash = Append(acc[i].hash, batch[i + 1])
        /\ BoardOf(acc[i + 1]) = TallySingle(BoardOf(acc[i]), batch[i + 1])
    <3>1. PICK a \in TallyStores : a = acc[i]
      BY <2>3 DEF Good
    <3>2. PICK m \in Messages : m = batch[i + 1]
      BY <2>6
    <3>3. acc[i + 1] = CountVote(a, m)
      BY <2>4, <3>1, <3>2
    <3>4. /\ CountVote(a, m) \in TallyStores
          /\ CountVote(a, m).processed = a.processed + 1
          /\ CountVote(a, m).hash = Append(a.hash, m)
          /\ BoardOf(CountVote(a, m)) = TallySingle(BoardOf(a), m)
      BY CountVoteFaithful
    <3> QED
      BY <3>1, <3>2, <3>3, <3>4
  <2>8. acc[i + 1].processed = s.processed + (i + 1)
    <3>1. acc[i].processed = s.processed + i
      BY <2>3 DEF Good
    <3>2. acc[i + 1].processed = (s.processed + i) + 1
      BY <2>7, <3>1
    <3> HIDE DEF Good, G
    <3> QED
      BY <1>10, <2>2, <3>2
  <2> QED
    BY <2>3, <2>5, <2>6, <2>7, <2>8 DEF Good
<1>13. G = Nat
  <2> HIDE DEF G
  <2>1. G \subseteq Nat
    BY DEF G
  <2> QED
    BY <1>11, <1>12, <2>1, NatSetInduction
<1>14. Good(Len(batch))
  <2>1. Len(batch) \in G
    BY <1>4, <1>13
  <2> QED BY <1>4, <2>1
<1>15. SubSeq(batch, 1, Len(batch)) = batch
  OBVIOUS
<1>16. TallyOut(s.leaves, s.counts, batch) = board[Len(batch)]
  BY DEF TallyOut, board, BoardOf
<1> QED
  BY <1>6, <1>14, <1>15, <1>16 DEF Good

-----------------------------------------------------------------------------
(* Salts *)

\* A function maps a finite set to a finite set.
LEMMA ImageFinite ==
    ASSUME NEW S, IsFiniteSet(S), NEW f, DOMAIN f = S, f = [x \in S |-> f[x]]
    PROVE  IsFiniteSet({f[x] : x \in S})
<1> DEFINE T == {f[x] : x \in S}
<1>1. f \in [S -> T]
  OBVIOUS
<1>2. \A y \in T : \E x \in S : f[x] = y
  OBVIOUS
<1> HIDE DEF T
<1>3. f \in Surjection(S, T)
  BY <1>1, <1>2 DEF Surjection
<1>4. IsFiniteSet(T)
  BY <1>3, FS_Surjection
<1> QED
  BY <1>4 DEF T

\* With finitely many salts in use there is a fresh one.
LEMMA FreshSaltExists ==
    ASSUME IsFiniteSet(SaltsInUse)
    PROVE  FreshSalt \in Nat \ SaltsInUse
<1> DEFINE S == SaltsInUse
           n == Cardinality(S)
<1>1. n \in Nat
  BY FS_CardinalityType
<1> HIDE DEF S
<1>2. \E x \in 1..(n + 1) : x \notin S
  <2>1. SUFFICES ASSUME 1..(n + 1) \subseteq S PROVE FALSE
    OBVIOUS
  <2>2. Cardinality(1..(n + 1)) <= n
    BY <2>1, FS_Subset DEF S
  <2>3. Cardinality(1..(n + 1)) = n + 1
    <3>1. 1 \in Int /\ n + 1 \in Int /\ ~(1 > n + 1) /\ (n + 1) - 1 + 1 = n + 1
      BY <1>1
    <3> HIDE DEF n
    <3> QED
      BY <3>1, FS_Interval
  <2> QED
    BY <1>1, <2>2, <2>3
<1>3. FreshSalt \in 1..(n + 1) /\ FreshSalt \notin S
  BY <1>2 DEF FreshSalt, S
<1> QED
  BY <1>1, <1>3 DEF S

-----------------------------------------------------------------------------
(* Exact stores *)

\* A store that is the count of the messages it claims to have processed.
ExactStores ==
    {s \in TallyStores :
        /\ s.processed <= indexed
        /\ s.hash = SubSeq(log, 1, s.processed)
        /\ s.leaves = Ballots(s.hash)
        /\ s.counts = Histogram(s.leaves)}

ExactAccounts == {AsAccount(s) : s \in ExactStores}

\* Transactions are made from exact stores; accounts are created empty.
TxOK(tx) ==
    /\ tx.owner \in Owners
    /\ tx.salt \in Nat
    /\ tx.create => tx.counts = ZeroTally
    /\ tx.kind = "batch" => tx.new \in ExactAccounts

\* Requests of the pages, for no more votes than are indexed.
RequestsOf(pages) == [tab : pages, processed : 0..indexed, since : 0..indexed]

\* Every store and account is exact, at any time and whatever was lost.
TallyInv ==
    /\ log \in Seq(Messages) /\ indexed \in 0..Len(log)
    /\ account \in [Owners -> ExactAccounts \union {None}]
    /\ idb \in ExactStores \union {None}
    /\ store \in [Tabs -> ExactStores \union {None}]
    /\ task \in [Tabs -> ExactStores \union {None}]
    /\ orphans \subseteq ExactStores /\ IsFiniteSet(orphans)
    /\ IsFiniteSet(network) /\ \A tx \in network : TxOK(tx)
    /\ loaded \subseteq open /\ open \subseteq Tabs
    /\ none_left \subseteq open /\ fetches \subseteq RequestsOf(open)
    /\ \A t \in Tabs \ open : task[t] = None
    /\ result # None =>
          over /\ result = [c \in 1..N_CHOICES |-> Votes(Ballots(log), c)]

\* Before the first batch nothing was counted.
LEMMA NoProgressExact ==
    ASSUME log \in Seq(Messages), indexed \in Nat
    PROVE  /\ NoProgress \in ExactStores
           /\ Created(ZeroTally) = AsAccount(NoProgress)
<1>1. SubSeq(log, 1, 0) = <<>> /\ <<>> \in Seq(Messages)
  OBVIOUS
<1>2. ZeroTally \in Tallies /\ EmptyTree \in Trees
  BY EmptyTreeHistogram, CircuitConstants DEF ZeroTally, Tallies
<1>3. NoProgress \in TallyStores
  BY <1>1, <1>2 DEF NoProgress, TallyStores
<1>4. /\ NoProgress.processed = 0 /\ NoProgress.hash = <<>> /\ NoProgress.salt = 0
      /\ NoProgress.counts = ZeroTally /\ NoProgress.leaves = EmptyTree
  BY DEF NoProgress
<1>5. Ballots(<<>>) = EmptyTree /\ Histogram(EmptyTree) = ZeroTally
  BY BallotsEmpty, EmptyTreeHistogram
<1>6. NoProgress \in ExactStores
  <2>1. PICK s \in TallyStores : s = NoProgress
    BY <1>3
  <2>2. /\ s.processed <= indexed /\ s.hash = SubSeq(log, 1, s.processed)
        /\ s.leaves = Ballots(s.hash) /\ s.counts = Histogram(s.leaves)
    <3>1. /\ s.processed = 0 /\ s.hash = <<>>
          /\ s.counts = ZeroTally /\ s.leaves = EmptyTree
      BY <1>4, <2>1
    <3>2. s.processed <= indexed
      BY <3>1
    <3>3. s.hash = SubSeq(log, 1, s.processed)
      BY <1>1, <3>1
    <3>4. s.leaves = Ballots(s.hash) /\ s.counts = Histogram(s.leaves)
      BY <1>5, <3>1
    <3> QED
      BY <3>2, <3>3, <3>4
  <2> QED
    BY <2>1, <2>2 DEF ExactStores
<1> QED
  BY <1>4, <1>6 DEF Created, AsAccount, TallyHash

\* One more batch keeps a store exact for a longer prefix of the log.
LEMMA ProgressExact ==
    ASSUME TallyInv, NEW s \in ExactStores \union {None}
    PROVE  Progress(s) \in ExactStores
<1>1. NoProgress \in ExactStores
  BY NoProgressExact DEF TallyInv
<1> QED
  BY <1>1 DEF Progress

\* A request is for a store that is no further than the indexer.
LEMMA RequestFits ==
    ASSUME TallyInv, NEW pages, NEW t \in pages, NEW s \in ExactStores \union {None}
    PROVE  Request(t, s) \in RequestsOf(pages)
<1>1. Progress(s).processed \in Nat /\ Progress(s).processed <= indexed
  BY ProgressExact DEF ExactStores, TallyStores
<1>2. indexed \in Nat
  BY DEF TallyInv
<1> QED
  BY <1>1, <1>2 DEF Request, RequestsOf

\* Finitely many salts are in use, so there is always a fresh one.
LEMMA SaltsFinite == ASSUME TallyInv PROVE IsFiniteSet(SaltsInUse)
<1>1. IsFiniteSet(Tabs) /\ IsFiniteSet(Owners) /\ IsFiniteSet(network) /\ IsFiniteSet(orphans)
  BY TallyClientConstants DEF TallyInv
<1>2. IsFiniteSet({account[o].tally_hash.salt : o \in {o \in Owners : account[o] # None}})
  <2> DEFINE S == {o \in Owners : account[o] # None}
             f == [o \in S |-> account[o].tally_hash.salt]
  <2>1. IsFiniteSet(S)
    BY <1>1, FS_Subset
  <2> HIDE DEF S
  <2>2. IsFiniteSet({f[x] : x \in S})
    BY <2>1, ImageFinite
  <2>3. {f[x] : x \in S} = {account[o].tally_hash.salt : o \in S}
    OBVIOUS
  <2> QED
    BY <2>2, <2>3 DEF S
<1>3. IsFiniteSet({tx.salt : tx \in network})
  <2> DEFINE f == [tx \in network |-> tx.salt]
  <2>1. IsFiniteSet({f[x] : x \in network})
    BY <1>1, ImageFinite
  <2>2. {f[x] : x \in network} = {tx.salt : tx \in network}
    OBVIOUS
  <2> QED
    BY <2>1, <2>2
<1>4. IsFiniteSet({Progress(s).salt : s \in {idb} \union {store[t] : t \in Tabs}})
  <2> DEFINE g == [t \in Tabs |-> store[t]]
             S == {idb} \union {store[t] : t \in Tabs}
             f == [s \in S |-> Progress(s).salt]
  <2>1. IsFiniteSet({g[x] : x \in Tabs})
    BY <1>1, ImageFinite
  <2>2. {g[x] : x \in Tabs} = {store[t] : t \in Tabs}
    OBVIOUS
  <2>3. IsFiniteSet(S)
    BY <2>1, <2>2, FS_Singleton, FS_Union
  <2> HIDE DEF S
  <2>4. IsFiniteSet({f[x] : x \in S})
    BY <2>3, ImageFinite
  <2>5. {f[x] : x \in S} = {Progress(s).salt : s \in S}
    OBVIOUS
  <2> QED
    BY <2>4, <2>5 DEF S
<1>5. IsFiniteSet({s.salt : s \in orphans})
  <2> DEFINE f == [s \in orphans |-> s.salt]
  <2>1. IsFiniteSet({f[x] : x \in orphans})
    BY <1>1, ImageFinite
  <2>2. {f[x] : x \in orphans} = {s.salt : s \in orphans}
    OBVIOUS
  <2> QED
    BY <2>1, <2>2
<1>6. IsFiniteSet({task[t].salt : t \in {t \in Tabs : task[t] # None}})
  <2> DEFINE S == {t \in Tabs : task[t] # None}
             f == [t \in S |-> task[t].salt]
  <2>1. IsFiniteSet(S)
    BY <1>1, FS_Subset
  <2> HIDE DEF S
  <2>2. IsFiniteSet({f[x] : x \in S})
    BY <2>1, ImageFinite
  <2>3. {f[x] : x \in S} = {task[t].salt : t \in S}
    OBVIOUS
  <2> QED
    BY <2>2, <2>3 DEF S
<1>7. IsFiniteSet({0})
  BY FS_Singleton
<1> QED
  BY <1>2, <1>3, <1>4, <1>5, <1>6, <1>7, FS_Union DEF SaltsInUse

-----------------------------------------------------------------------------
(* The chain, the indexer and the handlers *)

\* A longer log keeps every exact store exact.
LEMMA ExactStays ==
    ASSUME log \in Seq(Messages), indexed \in 0..Len(log), indexed <= indexed',
           NEW tail \in Seq(Messages), log' = log \o tail, indexed' \in Nat
    PROVE  ExactStores \subseteq ExactStores' /\ ExactAccounts \subseteq ExactAccounts'
<1>1. ASSUME NEW s \in ExactStores PROVE s \in ExactStores'
  <2>1. s.processed \in Nat /\ s.processed <= indexed
    BY DEF ExactStores, TallyStores
  <2>2. SubSeq(log', 1, s.processed) = SubSeq(log, 1, s.processed)
    <3>1. PICK p \in Nat : p = s.processed /\ p <= Len(log)
      BY <2>1
    <3>2. \A i \in 1..p : (log \o tail)[i] = log[i]
      BY <3>1
    <3>3. Len(log \o tail) = Len(log) + Len(tail)
      OBVIOUS
    <3>4. SubSeq(log \o tail, 1, p) = SubSeq(log, 1, p)
      BY <3>1, <3>2, <3>3
    <3> QED
      BY <3>1, <3>4
  <2>3. s.processed <= indexed'
    BY <2>1
  <2> QED
    BY <2>2, <2>3 DEF ExactStores
<1> QED
  BY <1>1 DEF ExactAccounts

\* A page of rows continues what was processed.
LEMMA RowsContinue ==
    ASSUME log \in Seq(Messages), indexed \in 0..Len(log), NEW p \in 0..indexed
    PROVE  /\ Rows(p) \in Seq(Messages)
           /\ p + Len(Rows(p)) \in p..indexed
           /\ SubSeq(log, 1, p) \o Rows(p) = SubSeq(log, 1, p + Len(Rows(p)))
<1> DEFINE q == IF indexed < p + MAX_BATCH THEN indexed ELSE p + MAX_BATCH
<1>1. q \in p..indexed /\ q \in Nat /\ p \in Nat /\ q <= Len(log) /\ p <= q
  BY CircuitConstants
<1>2. Rows(p) = SubSeq(log, p + 1, q)
  BY DEF Rows
<1> HIDE DEF q
<1>3. SubSeq(log, p + 1, q) \in Seq(Messages) /\ Len(SubSeq(log, p + 1, q)) = q - p
  BY <1>1
<1>4. SubSeq(log, 1, p) \o SubSeq(log, p + 1, q) = SubSeq(log, 1, q)
  BY <1>1
<1>5. p + (q - p) = q
  BY <1>1
<1> QED
  BY <1>1, <1>2, <1>3, <1>4, <1>5

\* The store a handler computes: the counted page with a fresh salt.
NextStore(base) ==
    [Counted(base, Rows(base.processed)) EXCEPT !.salt = FreshSalt]

\* What onTallyNext computes is exact, and the circuit accepts it.
LEMMA NextStoreExact ==
    ASSUME TallyInv, NEW base \in ExactStores
    PROVE  /\ NextStore(base) \in ExactStores
           /\ NextStore(base).salt = FreshSalt
           /\ Provable(base, Rows(base.processed), NextStore(base))
<1>1. log \in Seq(Messages) /\ indexed \in 0..Len(log)
  BY DEF TallyInv
<1>2. /\ base \in TallyStores
      /\ base.processed \in 0..indexed
      /\ base.hash = SubSeq(log, 1, base.processed)
      /\ base.leaves = Ballots(base.hash)
      /\ base.counts = Histogram(base.leaves)
  <2>1. /\ base \in TallyStores
        /\ base.processed <= indexed
        /\ base.hash = SubSeq(log, 1, base.processed)
        /\ base.leaves = Ballots(base.hash)
        /\ base.counts = Histogram(base.leaves)
    BY DEF ExactStores
  <2>2. base.processed \in Nat
    BY <2>1 DEF TallyStores
  <2> QED
    BY <1>1, <2>1, <2>2
<1>3. PICK batch : batch = Rows(base.processed)
  OBVIOUS
<1>4. /\ batch \in Seq(Messages)
      /\ base.processed + Len(batch) \in 0..indexed
      /\ base.hash \o batch = SubSeq(log, 1, base.processed + Len(batch))
  <2>1. PICK p \in 0..indexed : p = base.processed
    BY <1>2
  <2>2. /\ Rows(p) \in Seq(Messages)
        /\ p + Len(Rows(p)) \in p..indexed
        /\ SubSeq(log, 1, p) \o Rows(p) = SubSeq(log, 1, p + Len(Rows(p)))
    BY <1>1, RowsContinue
  <2>3. p + Len(Rows(p)) \in 0..indexed
    BY <2>2
  <2> QED
    BY <1>2, <1>3, <2>1, <2>2, <2>3
<1>5. PICK counted : counted = Counted(base, batch)
  OBVIOUS
<1>6. /\ counted \in TallyStores
      /\ counted.processed = base.processed + Len(batch)
      /\ counted.hash = base.hash \o batch
      /\ BoardOf(counted) = TallyOut(base.leaves, base.counts, batch)
  BY <1>2, <1>4, <1>5, CountedFaithful
<1>7. /\ base.hash \in Seq(Messages) /\ base.leaves \in Trees /\ base.counts \in Tallies
  BY <1>2 DEF TallyStores
<1>8. PICK out : out = TallyOut(base.leaves, base.counts, batch)
  OBVIOUS
<1>9. /\ out.root = Ballots(base.hash \o batch)
      /\ out.tally = Histogram(out.root)
  BY <1>2, <1>4, <1>7, <1>8, TallyOutFaithful
<1>10. counted.leaves = out.root /\ counted.counts = out.tally
  BY <1>6, <1>8 DEF BoardOf
<1>11. FreshSalt \in Nat
  BY SaltsFinite, FreshSaltExists
<1>12. PICK new : new = [counted EXCEPT !.salt = FreshSalt]
  OBVIOUS
<1>13. /\ new \in TallyStores
       /\ new.processed = counted.processed /\ new.hash = counted.hash
       /\ new.leaves = counted.leaves /\ new.counts = counted.counts
       /\ new.salt = FreshSalt
  BY <1>6, <1>11, <1>12 DEF TallyStores
<1>14. new.processed <= indexed
  BY <1>4, <1>6, <1>13
<1>15. new.hash = SubSeq(log, 1, new.processed)
  BY <1>4, <1>6, <1>13
<1>16. new.leaves = Ballots(new.hash) /\ new.counts = Histogram(new.leaves)
  BY <1>6, <1>9, <1>10, <1>13
<1>17. new \in ExactStores
  BY <1>13, <1>14, <1>15, <1>16 DEF ExactStores
<1>18. TallyCircuit(base.hash, base.counts, batch)
  <2>1. Len(batch) <= MAX_BATCH
    <3>1. PICK p \in 0..indexed : p = base.processed
      BY <1>2
    <3>2. PICK q \in p..indexed : q <= p + MAX_BATCH /\ batch = SubSeq(log, p + 1, q)
      <4>1. MAX_BATCH \in Nat
        BY CircuitConstants
      <4>2. CASE indexed < p + MAX_BATCH
        <5>1. batch = SubSeq(log, p + 1, indexed)
          BY <1>3, <3>1, <4>2 DEF Rows
        <5>2. indexed \in p..indexed /\ indexed <= p + MAX_BATCH
          BY <1>1, <4>1, <4>2
        <5> QED BY <5>1, <5>2
      <4>3. CASE ~(indexed < p + MAX_BATCH)
        <5>1. batch = SubSeq(log, p + 1, p + MAX_BATCH)
          BY <1>3, <3>1, <4>3 DEF Rows
        <5>2. p + MAX_BATCH \in p..indexed /\ p + MAX_BATCH <= p + MAX_BATCH
          BY <1>1, <4>1, <4>3
        <5> QED BY <5>1, <5>2
      <4> QED BY <4>2, <4>3
    <3>3. Len(batch) = q - p /\ MAX_BATCH \in Nat
      BY <1>1, <3>2, CircuitConstants
    <3> QED
      BY <3>2, <3>3
  <2>2. base.hash = <<>> => base.counts = ZeroTally
    BY <1>2, BallotsEmpty, EmptyTreeHistogram
  <2> QED
    BY <2>1, <2>2 DEF TallyCircuit
<1>19. Provable(base, batch, new)
  BY <1>8, <1>10, <1>13, <1>18 DEF Provable
<1> QED
  BY <1>3, <1>5, <1>12, <1>13, <1>17, <1>19 DEF NextStore

\* No store, no account, no transaction: nothing to be exact about.
LEMMA TallyInvInit == TallyInit => TallyInv
<1> SUFFICES ASSUME TallyInit PROVE TallyInv
  OBVIOUS
<1>1. IsFiniteSet({})
  BY FS_EmptySet
<1>2. <<>> \in Seq(Messages) /\ 0 \in 0..Len(<<>>)
  OBVIOUS
<1> QED
  BY <1>1, <1>2 DEF TallyInit, TallyInv

\* The account a transaction of this client works on is exact.
LEMMA AccountExact ==
    ASSUME TallyInv, NEW tx \in network
    PROVE  Account(tx) \in ExactAccounts \union {None}
<1>1. TxOK(tx) /\ account[tx.owner] \in ExactAccounts \union {None}
  BY DEF TallyInv, TxOK
<1>2. NoProgress \in ExactStores /\ Created(ZeroTally) = AsAccount(NoProgress)
  BY NoProgressExact DEF TallyInv
<1>3. Created(ZeroTally) \in ExactAccounts
  BY <1>2 DEF ExactAccounts
<1> QED
  BY <1>1, <1>3 DEF Account, TxOK

\* A finished tally is the count of the whole log.
LEMMA FinishExact ==
    ASSUME TallyInv, NEW tx \in network, FinishFits(tx)
    PROVE  [c \in 1..N_CHOICES |-> tx.counts[c]] =
             [c \in 1..N_CHOICES |-> Votes(Ballots(log), c)]
<1>1. PICK s \in ExactStores : Account(tx) = AsAccount(s)
  BY AccountExact DEF FinishFits, ExactAccounts
<1>2. s.hash = log /\ s.counts = tx.counts
  BY <1>1 DEF FinishFits, AsAccount, TallyHash
<1>3. s.leaves = Ballots(s.hash) /\ s.counts = Histogram(s.leaves)
  BY DEF ExactStores
<1>4. tx.counts = Histogram(Ballots(log))
  BY <1>2, <1>3
<1>5. \A c \in 1..N_CHOICES : c \in 1..MAX_CHOICES
  BY TallyClientConstants, CircuitConstants
<1> QED
  BY <1>4, <1>5 DEF Histogram

-----------------------------------------------------------------------------
(* The invariant *)

\* What is exact, without the log growing, is exact after the step.
LEMMA SameExact ==
    ASSUME log' = log, indexed' = indexed
    PROVE  ExactStores' = ExactStores /\ ExactAccounts' = ExactAccounts
BY DEF ExactStores, ExactAccounts

\* A set that gains one member stays finite.
LEMMA FiniteSteps ==
    ASSUME NEW S, IsFiniteSet(S), NEW x, NEW T, T \subseteq S \union {x}
    PROVE  IsFiniteSet(T)
BY FS_AddElement, FS_Subset

\* A step of the browser or of one transaction keeps the invariant when it
\* writes exact stores and accounts.
LEMMA TallyInvKept ==
    ASSUME TallyInv, log' = log, indexed' = indexed,
           account' \in [Owners -> ExactAccounts \union {None}],
           idb' \in ExactStores \union {None},
           store' \in [Tabs -> ExactStores \union {None}],
           task' \in [Tabs -> ExactStores \union {None}],
           orphans' \subseteq ExactStores, IsFiniteSet(orphans'),
           IsFiniteSet(network'), \A tx \in network' : TxOK(tx),
           loaded' \subseteq open', open' \subseteq Tabs, none_left' \subseteq open',
           fetches' \subseteq RequestsOf(open'),
           \A t \in Tabs \ open' : task'[t] = None,
           result' # None =>
             over' /\ result' = [c \in 1..N_CHOICES |-> Votes(Ballots(log), c)]
    PROVE  TallyInv'
<1>1. ExactStores' = ExactStores /\ ExactAccounts' = ExactAccounts
  BY SameExact
<1>2. \A tx \in network' : TxOK(tx)'
  BY <1>1 DEF TxOK
<1> QED
  BY <1>1, <1>2 DEF TallyInv, RequestsOf

\* Every step keeps all stores, accounts and transactions exact.
LEMMA TallyInvStep ==
    ASSUME TallyInv, [TallyNextState]_vars
    PROVE  TallyInv'
<1>1. ASSUME NEW m \in Messages, Vote(m) PROVE TallyInv'
  <2>1. /\ ~over /\ log' = Append(log, m)
        /\ UNCHANGED <<over, account, result, network, indexed, browser>>
    BY <1>1 DEF Vote
  <2>2. log \in Seq(Messages) /\ indexed \in 0..Len(log)
    BY DEF TallyInv
  <2>3. /\ log' = log \o <<m>> /\ <<m>> \in Seq(Messages)
        /\ log' \in Seq(Messages) /\ indexed' \in 0..Len(log') /\ indexed' \in Nat
        /\ indexed <= indexed'
    BY <2>1, <2>2
  <2>4. ExactStores \subseteq ExactStores' /\ ExactAccounts \subseteq ExactAccounts'
    BY <2>2, <2>3, ExactStays
  <2>5. result' = None
    BY <2>1 DEF TallyInv
  <2>6. \A tx \in network' : TxOK(tx)'
    BY <2>1, <2>4 DEF TallyInv, TxOK
  <2>7. /\ account' \in [Owners -> (ExactAccounts \union {None})']
        /\ idb' \in (ExactStores \union {None})'
        /\ store' \in [Tabs -> (ExactStores \union {None})']
        /\ task' \in [Tabs -> (ExactStores \union {None})']
        /\ orphans' \subseteq ExactStores'
    BY <2>1, <2>4 DEF TallyInv, browser
  <2>8. (fetches \subseteq RequestsOf(open))'
    BY <2>1 DEF TallyInv, RequestsOf, browser
  <2> QED
    BY <2>1, <2>3, <2>5, <2>6, <2>7, <2>8 DEF TallyInv, browser
<1>2. CASE EndVoting
  BY <1>2, SameExact DEF EndVoting, browser, TallyInv, TxOK, RequestsOf
<1>3. CASE IndexVote
  <2>1. /\ indexed < Len(log) /\ indexed' = indexed + 1
        /\ UNCHANGED <<log, over, account, result, network, browser>>
    BY <1>3 DEF IndexVote, chain
  <2>2. log \in Seq(Messages) /\ indexed \in 0..Len(log)
    BY DEF TallyInv
  <2>3. /\ log' = log \o <<>> /\ <<>> \in Seq(Messages)
        /\ log' \in Seq(Messages) /\ indexed' \in 0..Len(log') /\ indexed' \in Nat
        /\ indexed <= indexed'
    BY <2>1, <2>2
  <2>4. ExactStores \subseteq ExactStores' /\ ExactAccounts \subseteq ExactAccounts'
    BY <2>2, <2>3, ExactStays
  <2>5. \A tx \in network' : TxOK(tx)'
    BY <2>1, <2>4 DEF TallyInv, TxOK
  <2>6. /\ account' \in [Owners -> (ExactAccounts \union {None})']
        /\ idb' \in (ExactStores \union {None})'
        /\ store' \in [Tabs -> (ExactStores \union {None})']
        /\ task' \in [Tabs -> (ExactStores \union {None})']
        /\ orphans' \subseteq ExactStores'
    BY <2>1, <2>4 DEF TallyInv, browser
  <2>7. 0..indexed \subseteq 0..indexed'
    BY <2>1, <2>2
  <2>8. (fetches \subseteq RequestsOf(open))'
    BY <2>1, <2>7 DEF TallyInv, RequestsOf, browser
  <2> QED
    BY <2>1, <2>3, <2>5, <2>6, <2>8 DEF TallyInv, browser
<1>4. ASSUME NEW tx \in network, Settle(tx) PROVE TallyInv'
  <2>1. /\ network' = network \ {tx}
        /\ UNCHANGED <<log, over, indexed, idb, store, none_left, fetches, task,
                       orphans, open, loaded>>
    BY <1>4 DEF Settle, Execute, Refuse, Drop, chain, browser
  <2>2. IsFiniteSet(network') /\ \A x \in network' : TxOK(x)
    BY <2>1, FS_Subset DEF TallyInv
  <2>3. account' \in [Owners -> ExactAccounts \union {None}]
    BY <1>4 DEF Settle, Execute, Refuse, Drop, chain, ExecuteBatch, BatchFits,
                ExecuteFinish, TallyInv, TxOK
  <2>4. result' # None =>
           over' /\ result' = [c \in 1..N_CHOICES |-> Votes(Ballots(log), c)]
    <3>1. CASE ExecuteFinish(tx)
      BY <2>1, <3>1, FinishExact DEF ExecuteFinish, FinishFits
    <3>2. CASE UNCHANGED result
      BY <2>1, <3>2 DEF TallyInv
    <3> QED
      BY <1>4, <3>1, <3>2 DEF Settle, Execute, Refuse, Drop, chain, ExecuteBatch
  <2> QED
    BY <2>1, <2>2, <2>3, <2>4, TallyInvKept DEF TallyInv
<1>5. ASSUME NEW s \in orphans, SaveOrphan(s) PROVE TallyInv'
  <2>1. /\ idb' = s /\ orphans' = orphans \ {s}
        /\ UNCHANGED <<log, over, account, result, network, indexed, store,
                       none_left, fetches, task, open, loaded>>
    BY <1>5 DEF SaveOrphan, chain
  <2>2. IsFiniteSet(orphans')
    BY <2>1, FS_Subset DEF TallyInv
  <2> QED
    BY <2>1, <2>2, TallyInvKept DEF TallyInv
<1>6. ASSUME NEW t \in Tabs, Open(t) PROVE TallyInv'
  <2>1. /\ open' = open \union {t}
        /\ fetches' = fetches \union {Request(t, None)}
        /\ UNCHANGED <<log, over, account, result, network, indexed, idb, store,
                       none_left, task, orphans, loaded>>
    BY <1>6 DEF Open, chain
  <2>2. fetches' \subseteq RequestsOf(open')
    <3>1. Request(t, None) \in RequestsOf(open')
      BY <2>1, RequestFits
    <3>2. RequestsOf(open) \subseteq RequestsOf(open')
      BY <2>1 DEF RequestsOf
    <3> QED
      BY <2>1, <3>1, <3>2 DEF TallyInv
  <2> QED
    BY <2>1, <2>2, TallyInvKept DEF TallyInv
<1>7. ASSUME NEW t \in Tabs, Load(t) PROVE TallyInv'
  <2>1. /\ t \in open /\ loaded' = loaded \union {t}
        /\ store' = [store EXCEPT ![t] = idb]
        /\ fetches' \subseteq fetches \union {Request(t, idb)}
        /\ UNCHANGED <<log, over, account, result, network, indexed, idb,
                       none_left, task, orphans, open>>
    BY <1>7 DEF Load, chain
  <2>2. store' \in [Tabs -> ExactStores \union {None}]
    BY <2>1 DEF TallyInv
  <2>3. fetches' \subseteq RequestsOf(open')
    BY <2>1, RequestFits DEF TallyInv
  <2> QED
    BY <2>1, <2>2, <2>3, TallyInvKept DEF TallyInv
<1>8. ASSUME NEW t \in Tabs, Refresh(t) PROVE TallyInv'
  <2>1. /\ t \in open /\ fetches' = fetches \union {Request(t, store[t])}
        /\ UNCHANGED <<log, over, account, result, network, indexed, idb, store,
                       none_left, task, orphans, open, loaded>>
    BY <1>8 DEF Refresh, chain
  <2>2. fetches' \subseteq RequestsOf(open')
    <3>1. store[t] \in ExactStores \union {None}
      BY DEF TallyInv
    <3> QED
      BY <2>1, <3>1, RequestFits DEF TallyInv
  <2> QED
    BY <2>1, <2>2, TallyInvKept DEF TallyInv
<1>9. ASSUME NEW t \in Tabs, Leave(t) \/ Close(t) PROVE TallyInv'
  <2>1. /\ open' = open \ {t} /\ loaded' = loaded \ {t} /\ none_left' = none_left \ {t}
        /\ fetches' = {f \in fetches : f.tab # t}
        /\ store' = [store EXCEPT ![t] = None]
        /\ task' = [task EXCEPT ![t] = None]
        /\ UNCHANGED <<log, over, account, result, network, indexed, idb>>
    BY <1>9 DEF Leave, Close, Unmounted, chain
  <2>2. /\ store' \in [Tabs -> ExactStores \union {None}]
        /\ task' \in [Tabs -> ExactStores \union {None}]
    BY <2>1 DEF TallyInv
  <2>3. orphans' \subseteq ExactStores /\ orphans' \subseteq orphans \union {task[t]}
    BY <1>9 DEF Leave, Close, TallyInv
  <2>4. IsFiniteSet(orphans')
    BY <2>3, FiniteSteps DEF TallyInv
  <2>5. \A u \in Tabs \ open' : task'[u] = None
    BY <2>1 DEF TallyInv
  <2>6. fetches' \subseteq RequestsOf(open')
    BY <2>1 DEF TallyInv, RequestsOf
  <2> QED
    BY <2>1, <2>2, <2>3, <2>4, <2>5, <2>6, TallyInvKept DEF TallyInv
<1>10. ASSUME NEW t \in Tabs, SaveStore(t) PROVE TallyInv'
  <2>1. /\ task[t] # None /\ idb' = task[t]
        /\ store' = [store EXCEPT ![t] = task[t]]
        /\ task' = [task EXCEPT ![t] = None]
        /\ none_left' \in {none_left, none_left \union {t}}
        /\ fetches' = fetches \union {Request(t, task[t])}
        /\ UNCHANGED <<log, over, account, result, network, indexed, orphans,
                       open, loaded>>
    BY <1>10 DEF SaveStore, chain
  <2>2. /\ idb' \in ExactStores \union {None}
        /\ store' \in [Tabs -> ExactStores \union {None}]
        /\ task' \in [Tabs -> ExactStores \union {None}]
        /\ t \in open /\ none_left' \subseteq open
        /\ \A u \in Tabs \ open : task'[u] = None
    BY <2>1 DEF TallyInv
  <2>3. fetches' \subseteq RequestsOf(open')
    <3>1. task[t] \in ExactStores \union {None}
      BY DEF TallyInv
    <3> QED
      BY <2>1, <2>2, <3>1, RequestFits DEF TallyInv
  <2> QED
    BY <2>1, <2>2, <2>3, TallyInvKept DEF TallyInv
<1>11. ASSUME NEW t \in Tabs, Throw(t) PROVE TallyInv'
  <2>1. /\ task' = [task EXCEPT ![t] = None]
        /\ UNCHANGED <<log, over, account, result, network, indexed, idb, store,
                       none_left, fetches, orphans, open, loaded>>
    BY <1>11 DEF Throw, chain
  <2>2. /\ task' \in [Tabs -> ExactStores \union {None}]
        /\ \A u \in Tabs \ open : task'[u] = None
    BY <2>1 DEF TallyInv
  <2> QED
    BY <2>1, <2>2, TallyInvKept DEF TallyInv
<1>12. ASSUME NEW t \in Tabs, ResetTally(t) PROVE TallyInv'
  <2>1. /\ t \in open /\ idb' = None /\ store' = [store EXCEPT ![t] = None]
        /\ fetches' = fetches \union {Request(t, None), Request(t, store[t])}
        /\ UNCHANGED <<log, over, account, result, network, indexed, none_left,
                       task, orphans, open, loaded>>
    BY <1>12 DEF ResetTally, chain
  <2>2. store' \in [Tabs -> ExactStores \union {None}]
    BY <2>1 DEF TallyInv
  <2>3. fetches' \subseteq RequestsOf(open')
    <3>1. store[t] \in ExactStores \union {None}
      BY DEF TallyInv
    <3> QED
      BY <2>1, <3>1, RequestFits DEF TallyInv
  <2> QED
    BY <2>1, <2>2, <2>3, TallyInvKept DEF TallyInv
<1>13. ASSUME NEW t \in Tabs, NEW o \in Owners, TallyNext(t, o) PROVE TallyInv'
  <2>1. PICK base : base = Progress(store[t])
    OBVIOUS
  <2>2. PICK new : new = NextStore(base)
    OBVIOUS
  <2>3. PICK tx : tx = [kind |-> "batch", owner |-> o, create |-> store[t] = None,
                        counts |-> ZeroTally, salt |-> new.salt,
                        old |-> AsAccount(base), new |-> AsAccount(new)]
    OBVIOUS
  <2>4. /\ network' = network \union {tx}
        /\ task' = [task EXCEPT ![t] = new]
        /\ UNCHANGED <<log, over, account, result, indexed, idb, store,
                       none_left, fetches, orphans, open, loaded>>
    BY <1>13, <2>1, <2>2, <2>3 DEF TallyNext, NextOffered, NextStore, chain
  <2>5. base \in ExactStores
    BY <2>1, ProgressExact DEF TallyInv
  <2>6. new \in ExactStores /\ new.salt \in Nat
    BY <2>2, <2>5, NextStoreExact DEF ExactStores, TallyStores
  <2>7. AsAccount(new) \in ExactAccounts
    BY <2>6 DEF ExactAccounts
  <2>8. TxOK(tx)
    <3>1. tx.owner = o /\ tx.counts = ZeroTally /\ tx.salt = new.salt
          /\ tx.new = AsAccount(new)
      BY <2>3
    <3> QED
      BY <2>6, <2>7, <3>1 DEF TxOK
  <2>9. /\ task' \in [Tabs -> ExactStores \union {None}]
        /\ \A u \in Tabs \ open : task'[u] = None
    BY <1>13, <2>4, <2>6 DEF TallyInv, TallyNext, NextOffered
  <2>10. IsFiniteSet(network') /\ \A x \in network' : TxOK(x)
    BY <2>4, <2>8, FS_AddElement DEF TallyInv
  <2> QED
    BY <2>4, <2>9, <2>10, TallyInvKept DEF TallyInv
<1>14. ASSUME NEW t \in Tabs, NEW o \in Owners, FinishTally(t, o) PROVE TallyInv'
  <2>1. PICK s : s = Progress(store[t])
    OBVIOUS
  <2>2. PICK tx : tx = [kind |-> "finish", owner |-> o, create |-> store[t] = None,
                        counts |-> s.counts, salt |-> s.salt, old |-> None,
                        new |-> None]
    OBVIOUS
  <2>3. /\ network' = network \union {tx}
        /\ UNCHANGED <<log, over, account, result, indexed, idb, store,
                       none_left, fetches, task, orphans, open, loaded>>
    BY <1>14, <2>1, <2>2 DEF FinishTally, FinishOffered, chain
  <2>4. s \in ExactStores
    BY <2>1, ProgressExact DEF TallyInv
  <2>5. s.salt \in Nat
    BY <2>4 DEF ExactStores, TallyStores
  <2>6. store[t] = None => s.counts = ZeroTally
    BY <2>1 DEF Progress, NoProgress
  <2>7. TxOK(tx)
    <3>1. tx.kind = "finish" /\ tx.owner = o /\ tx.counts = s.counts /\ tx.salt = s.salt
      BY <2>2
    <3>2. tx.create => store[t] = None
      BY <2>2
    <3> QED
      BY <2>5, <2>6, <3>1, <3>2 DEF TxOK
  <2>8. IsFiniteSet(network') /\ \A x \in network' : TxOK(x)
    BY <2>3, <2>7, FS_AddElement DEF TallyInv
  <2> QED
    BY <2>3, <2>8, TallyInvKept DEF TallyInv
<1>15. CASE UNCHANGED vars
  BY <1>15, SameExact DEF vars, TallyInv, TxOK, RequestsOf
<1>16. ASSUME NEW f \in fetches, Answered(f) \/ Unanswered(f) PROVE TallyInv'
  <2>1. /\ none_left' \subseteq none_left \union {f.tab}
        /\ fetches' = fetches \ {f}
        /\ UNCHANGED <<log, over, account, result, network, indexed, idb, store,
                       task, orphans, open, loaded>>
    BY <1>16 DEF Answered, Unanswered, chain
  <2>2. f.tab \in open
    BY DEF TallyInv, RequestsOf
  <2> QED
    BY <2>1, <2>2, TallyInvKept DEF TallyInv
<1> QED
  BY <1>1, <1>2, <1>3, <1>4, <1>5, <1>6, <1>7, <1>8, <1>9, <1>10, <1>11, <1>12,
     <1>13, <1>14, <1>15, <1>16 DEF TallyNextState

\* The inductive invariant holds in every reachable state.
LEMMA TallyInvariant == TallySpec => []TallyInv
<1>1. TallyInv /\ [TallyNextState]_vars => TallyInv'
  BY TallyInvStep
<1> QED
  BY <1>1, TallyInvInit, PTL DEF TallySpec

\* Tally stores and accounts keep their shapes, and no counter goes below zero
\* (TallyTypeOK; TallyStore and the Tally account).
THEOREM TallyTypes == TallySpec => []TallyTypeOK
<1>1. TallyInv => TallyTypeOK
  <2> SUFFICES ASSUME TallyInv PROVE TallyTypeOK
    OBVIOUS
  <2>1. ASSUME NEW s \in ExactStores
        PROVE  s \in StoreType /\ AsAccount(s) \in AccountType
    <3>1. /\ s \in TallyStores /\ s.processed <= indexed
          /\ s.counts = Histogram(s.leaves)
      BY DEF ExactStores
    <3>2. s.counts \in [1..MAX_CHOICES -> Nat]
      BY <3>1, NullifiersFinite DEF Histogram
    <3>3. s.processed \in 0..indexed
      BY <3>1 DEF TallyStores, TallyInv
    <3>4. /\ s.hash \in Seq(Messages) /\ s.salt \in Nat /\ s.leaves \in Trees
          /\ s = [processed |-> s.processed, hash |-> s.hash, salt |-> s.salt,
                  counts |-> s.counts, leaves |-> s.leaves]
      BY <3>1 DEF TallyStores
    <3>5. s \in StoreType
      BY <3>2, <3>3, <3>4 DEF StoreType, Trees
    <3>6. AsAccount(s) \in AccountType
      BY <3>2, <3>4 DEF AsAccount, TallyHash, AccountType, Trees
    <3> QED
      BY <3>5, <3>6
  <2>2. ExactAccounts \subseteq AccountType /\ ExactStores \subseteq StoreType
    BY <2>1 DEF ExactAccounts
  <2> QED
    BY <2>2 DEF TallyInv, TallyTypeOK, RequestsOf
<1> QED
  BY <1>1, TallyInvariant, PTL

\* A tally store is never wrong, at worst out of date, whatever is lost,
\* refused, reset or overwritten (StoreExact; onTallyNext).
THEOREM StoresAreExact == TallySpec => []StoreExact
<1>1. TallyInv => StoreExact
  <2> SUFFICES ASSUME TallyInv, NEW s \in Stores
               PROVE  /\ s.processed = Len(s.hash) /\ s.processed <= Len(log)
                      /\ s.hash = SubSeq(log, 1, s.processed)
                      /\ s.leaves = Ballots(s.hash)
                      /\ s.counts = Histogram(s.leaves)
    BY DEF StoreExact
  <2>1. s \in ExactStores
    BY DEF Stores, TallyInv
  <2>2. /\ s.hash = SubSeq(log, 1, s.processed) /\ s.processed <= indexed
        /\ s.leaves = Ballots(s.hash) /\ s.counts = Histogram(s.leaves)
    BY <2>1 DEF ExactStores
  <2>3. s.processed = Len(s.hash) /\ s.processed <= Len(log)
    <3>1. PICK p \in Nat : p = s.processed
      BY <2>1 DEF ExactStores, TallyStores
    <3>2. p <= Len(log) /\ log \in Seq(Messages)
      BY <2>2, <3>1 DEF TallyInv
    <3>3. Len(SubSeq(log, 1, p)) = p
      BY <3>1, <3>2
    <3> QED
      BY <2>2, <3>1, <3>2, <3>3
  <2> QED
    BY <2>2, <2>3
<1> QED
  BY <1>1, TallyInvariant, PTL

\* What this client publishes is the count of all messages (ResultCorrect;
\* onFinishTally).
THEOREM PublishedIsCorrect == TallySpec => []ResultCorrect
<1>1. TallyInv => ResultCorrect
  BY DEF TallyInv, ResultCorrect
<1> QED
  BY <1>1, TallyInvariant, PTL

\* For whatever store the button is pressed, a proof of the batch exists, for
\* client and circuit count alike (onTallyNext with Tally.circom).
THEOREM BatchesAreProvable ==
    TallySpec => [](\A t \in Tabs :
        LET base == Progress(store[t])
        IN  Provable(base, Rows(base.processed), NextStore(base)))
<1>1. TallyInv => \A t \in Tabs :
        LET base == Progress(store[t])
        IN  Provable(base, Rows(base.processed), NextStore(base))
  BY ProgressExact, NextStoreExact DEF TallyInv
<1> QED
  BY <1>1, TallyInvariant, PTL

-----------------------------------------------------------------------------
(* Store and account *)

Matches(s) == \E o \in Owners : account[o] = AsAccount(s)

NoHandler == orphans = {} /\ \A t \in Tabs : task[t] = None

\* The one store that is being saved, or was, by the last batch: with its page,
\* after the page was left, and in the database.
Held(s) ==
    /\ s # None
    /\ \/ NoHandler /\ idb = s
       \/ orphans = {s} /\ \A t \in Tabs : task[t] = None
       \/ orphans = {} /\ \E t \in Tabs :
             task[t] = s /\ \A u \in Tabs \ {t} : task[u] = None

\* The last batch of store s has arrived, or will fit its account.
Batched(s) ==
    \/ network = {} /\ Matches(s)
    \/ \E tx : network = {tx} /\ BatchFits(tx) /\ tx.new = AsAccount(s)

\* Nothing but a request to finish is under way, and the stored progress is
\* that of an account.
AtRest ==
    /\ NoHandler
    /\ network = {} \/ \E tx : network = {tx} /\ tx.kind = "finish"
    /\ idb = None \/ Matches(idb)

MatchInv ==
    /\ TallyInv
    /\ ~disturbed /\ result = None => AtRest \/ \E s : Held(s) /\ Batched(s)

\* At first there is neither store nor account.
LEMMA MatchInvInit == TallyInit => MatchInv
BY TallyInvInit DEF TallyInit, MatchInv, AtRest, NoHandler

\* A handler that disturbs nothing starts from rest, with nothing under way.
LEMMA StartsAtRest ==
    ASSUME MatchInv, ~disturbed, result = None, NEW t \in Tabs, task[t] = None,
           ~Concurrent(t)
    PROVE  NoHandler /\ network = {} /\ store[t] = idb /\ (idb = None \/ Matches(idb))
<1>1. NoHandler /\ network = {} /\ store[t] = idb
  BY DEF Concurrent, NoHandler
<1>2. ASSUME NEW s, Held(s), Batched(s) PROVE Matches(idb)
  <2>1. s # None /\ NoHandler /\ idb = s
    BY <1>1, <1>2 DEF Held, NoHandler
  <2>2. Matches(s)
    BY <1>1, <1>2 DEF Batched
  <2> QED
    BY <2>1, <2>2
<1> QED
  BY <1>1, <1>2 DEF MatchInv, AtRest

\* Every step keeps the undisturbed stores in line with their accounts.
LEMMA MatchInvStep ==
    ASSUME MatchInv, [TallyNextState]_vars
    PROVE  MatchInv'
<1>1. TallyInv /\ TallyInv'
  BY TallyInvStep DEF MatchInv
<1> DEFINE Phase == AtRest \/ \E s : Held(s) /\ Batched(s)
<1>2. SUFFICES ASSUME ~disturbed', result' = None PROVE Phase'
  BY <1>1 DEF MatchInv
<1>3. ~disturbed
  BY <1>2 DEF TallyNextState, vars, Vote, EndVoting, IndexVote, Settle, Execute,
     Refuse, Drop, SaveOrphan, Open, Load, Refresh, Answered, Unanswered, Leave, Close,
     SaveStore, Throw, ResetTally, TallyNext, NextOffered, FinishTally, FinishOffered, browser
\* No result is ever taken back, and none is published in this step.
<1>4. \A tx \in network : ~ExecuteFinish(tx)
  <2>1. SUFFICES ASSUME NEW tx \in network, ExecuteFinish(tx) PROVE FALSE
    OBVIOUS
  <2>2. result' = [c \in 1..N_CHOICES |-> Votes(Ballots(log), c)]
    BY <1>1, <2>1, FinishExact DEF ExecuteFinish
  <2>3. result' \in [1..N_CHOICES -> Nat]
    BY <2>2, NullifiersFinite
  <2> QED
    BY <1>2, <2>3, TallyClientConstants
<1>5. result = None
  BY <1>2, <1>4 DEF TallyNextState, vars, Vote, EndVoting, IndexVote, Settle, Execute,
     ExecuteBatch, Refuse, Drop, SaveOrphan, Open, Load, Refresh, Answered, Unanswered,
     Leave, Close, Unmounted, SaveStore, Throw, ResetTally, TallyNext, NextOffered, FinishTally, FinishOffered, chain
<1>6. Phase
  BY <1>3, <1>5 DEF MatchInv
<1>7. CASE UNCHANGED <<account, network, idb, task, orphans>>
  BY <1>6, <1>7 DEF AtRest, Held, Batched, NoHandler, Matches, BatchFits, Account
<1>8. CASE \/ \E m \in Messages : Vote(m)
           \/ EndVoting \/ IndexVote
           \/ \E t \in Tabs : Open(t) \/ Load(t) \/ Refresh(t)
           \/ \E f \in fetches : Answered(f) \/ Unanswered(f)
           \/ UNCHANGED vars
  BY <1>7, <1>8 DEF Vote, EndVoting, IndexVote, Open, Load, Refresh, Answered,
     Unanswered, vars, browser, chain
<1>9. ASSUME NEW tx \in network, Settle(tx) PROVE Phase'
  <2>1. /\ network' = network \ {tx}
        /\ UNCHANGED <<idb, task, orphans>>
    BY <1>9 DEF Settle, Execute, Refuse, Drop, browser
  <2>2. NoHandler' = NoHandler /\ \A s : Held(s)' = Held(s)
    BY <2>1 DEF NoHandler, Held
  <2>3. CASE AtRest
    <3>1. tx.kind = "finish" /\ network' = {}
      BY <2>1, <2>3 DEF AtRest
    <3>2. account' = account
      BY <1>2, <1>3, <1>4, <1>9, <3>1
         DEF Settle, Execute, ExecuteBatch, BatchFits, Refuse, Drop, chain
    <3>3. AtRest'
      BY <2>1, <2>2, <2>3, <3>1, <3>2 DEF AtRest, Matches
    <3> QED
      BY <3>3
  <2>4. ASSUME NEW s, Held(s), Batched(s) PROVE Phase'
    <3>1. network = {tx} /\ BatchFits(tx) /\ tx.new = AsAccount(s)
      BY <2>4 DEF Batched
    <3>2. ExecuteBatch(tx)
      BY <1>2, <1>4, <1>9, <3>1 DEF Settle, Execute, Refuse, Drop, Fits
    <3>3. account'[tx.owner] = tx.new /\ tx.owner \in Owners /\ network' = {}
      BY <1>1, <2>1, <3>1, <3>2 DEF ExecuteBatch, TallyInv, TxOK
    <3>4. Batched(s)'
      BY <3>1, <3>3 DEF Batched, Matches
    <3> QED
      BY <2>2, <2>4, <3>4
  <2> QED
    BY <1>6, <2>3, <2>4
<1>10. ASSUME NEW old \in orphans, SaveOrphan(old) PROVE Phase'
  <2>1. PICK s : Held(s) /\ Batched(s)
    BY <1>6, <1>10 DEF AtRest, NoHandler
  <2>2. orphans = {s} /\ old = s /\ \A t \in Tabs : task[t] = None
    BY <1>10, <2>1 DEF Held, NoHandler
  <2>3. idb' = s /\ orphans' = {} /\ UNCHANGED <<account, network, task>>
    BY <1>10, <2>2 DEF SaveOrphan, chain
  <2>4. Held(s)'
    BY <2>1, <2>2, <2>3 DEF Held, NoHandler
  <2>5. Batched(s)'
    BY <2>1, <2>3 DEF Batched, Matches, BatchFits, Account
  <2> QED
    BY <2>4, <2>5
<1>11. ASSUME NEW t \in Tabs, Leave(t) \/ Close(t) PROVE Phase'
  <2>1. /\ task' = [task EXCEPT ![t] = None]
        /\ UNCHANGED <<account, network, idb>>
    BY <1>11 DEF Leave, Close, Unmounted, chain
  <2>2. \A u \in Tabs : task'[u] = IF u = t THEN None ELSE task[u]
    BY <1>1, <2>1 DEF TallyInv
  <2>3. \A s : Batched(s)' = Batched(s)
    BY <2>1 DEF Batched, Matches, BatchFits, Account
  <2>4. CASE task[t] = None
    <3>1. orphans' = orphans
      BY <1>2, <1>11, <2>4 DEF Leave, Close
    <3>2. \A u \in Tabs : task'[u] = task[u]
      BY <2>2, <2>4
    <3>3. NoHandler' = NoHandler /\ \A s : Held(s) => Held(s)'
      BY <2>1, <3>1, <3>2 DEF NoHandler, Held
    <3>4. AtRest => AtRest'
      BY <2>1, <3>3 DEF AtRest, Matches
    <3> QED
      BY <1>6, <2>3, <3>3, <3>4
  <2>5. CASE task[t] # None
    <3>1. PICK s : Held(s) /\ Batched(s)
      BY <1>6, <2>5 DEF AtRest, NoHandler
    <3>2. orphans = {} /\ task[t] = s /\ \A u \in Tabs \ {t} : task[u] = None
      BY <2>5, <3>1 DEF Held, NoHandler
    <3>3. orphans' = {s}
      BY <1>2, <1>11, <2>5, <3>2 DEF Leave, Close
    <3>4. Held(s)'
      BY <2>2, <3>1, <3>2, <3>3 DEF Held
    <3> QED
      BY <2>3, <3>1, <3>4
  <2> QED
    BY <2>4, <2>5
<1>12. ASSUME NEW t \in Tabs, SaveStore(t) PROVE Phase'
  <2>1. /\ task[t] # None /\ idb' = task[t]
        /\ task' = [task EXCEPT ![t] = None]
        /\ UNCHANGED <<account, network, orphans>>
    BY <1>12 DEF SaveStore, chain
  <2>2. PICK s : Held(s) /\ Batched(s)
    BY <1>6, <2>1 DEF AtRest, NoHandler
  <2>3. orphans = {} /\ task[t] = s /\ \A u \in Tabs \ {t} : task[u] = None
    BY <2>1, <2>2 DEF Held, NoHandler
  <2>4. \A u \in Tabs : task'[u] = None
    BY <1>1, <2>1, <2>3 DEF TallyInv
  <2>5. Held(s)'
    BY <2>1, <2>2, <2>3, <2>4 DEF Held, NoHandler
  <2>6. Batched(s)'
    BY <2>1, <2>2 DEF Batched, Matches, BatchFits, Account
  <2> QED
    BY <2>5, <2>6
<1>13. ASSUME NEW t \in Tabs, Throw(t) PROVE Phase'
  BY <1>2, <1>13 DEF Throw
<1>14. ASSUME NEW t \in Tabs, ResetTally(t) PROVE Phase'
  <2>1. ~Concurrent(t) /\ task[t] = None
    BY <1>2, <1>14 DEF ResetTally
  <2>2. NoHandler /\ network = {}
    BY <1>3, <1>5, <2>1, StartsAtRest
  <2>3. AtRest'
    BY <1>14, <2>2 DEF ResetTally, AtRest, NoHandler
  <2> QED
    BY <2>3
<1>15. ASSUME NEW t \in Tabs, NEW o \in Owners, FinishTally(t, o) PROVE Phase'
  <2>1. ~Concurrent(t) /\ task[t] = None
    BY <1>2, <1>15 DEF FinishTally, FinishOffered
  <2>2. NoHandler /\ network = {} /\ (idb = None \/ Matches(idb))
    BY <1>3, <1>5, <2>1, StartsAtRest
  <2>3. PICK tx : tx.kind = "finish" /\ network' = network \union {tx}
    <3>1. PICK s : s = Progress(store[t])
      OBVIOUS
    <3>2. PICK tx : tx = [kind |-> "finish", owner |-> o, create |-> store[t] = None,
                          counts |-> s.counts, salt |-> s.salt, old |-> None,
                          new |-> None]
      OBVIOUS
    <3>3. tx.kind = "finish"
      BY <3>2
    <3>4. network' = network \union {tx}
      BY <1>15, <3>1, <3>2 DEF FinishTally, FinishOffered
    <3> QED
      BY <3>3, <3>4
  <2>4. UNCHANGED <<account, idb, task, orphans>>
    BY <1>15 DEF FinishTally, FinishOffered, chain
  <2>5. AtRest'
    BY <2>2, <2>3, <2>4 DEF AtRest, NoHandler, Matches
  <2> QED
    BY <2>5
<1>16. ASSUME NEW t \in Tabs, NEW o \in Owners, TallyNext(t, o) PROVE Phase'
  <2>1. ~Concurrent(t) /\ task[t] = None /\ ~OtherWallet(store[t], o)
    BY <1>2, <1>16 DEF TallyNext, NextOffered
  <2>2. NoHandler /\ network = {} /\ store[t] = idb /\ (idb = None \/ Matches(idb))
    BY <1>3, <1>5, <2>1, StartsAtRest
  <2>3. PICK base : base = Progress(store[t])
    OBVIOUS
  <2>4. PICK new : new = NextStore(base)
    OBVIOUS
  <2>5. PICK tx : tx = [kind |-> "batch", owner |-> o, create |-> store[t] = None,
                        counts |-> ZeroTally, salt |-> new.salt,
                        old |-> AsAccount(base), new |-> AsAccount(new)]
    OBVIOUS
  <2>6. /\ network' = {tx}
        /\ task' = [task EXCEPT ![t] = new]
        /\ UNCHANGED <<account, idb, orphans>>
    BY <1>16, <2>2, <2>3, <2>4, <2>5 DEF TallyNext, NextOffered, NextStore, chain
  <2>7. new # None
    <3>1. base \in ExactStores
      BY <1>1, <2>3, ProgressExact DEF TallyInv
    <3>2. new \in TallyStores
      BY <1>1, <2>4, <3>1, NextStoreExact DEF ExactStores
    <3> QED
      BY <3>2, TallyClientConstants
  <2>8. /\ tx.kind = "batch" /\ tx.owner = o /\ tx.counts = ZeroTally
        /\ tx.old = AsAccount(base) /\ tx.new = AsAccount(new)
        /\ tx.create <=> store[t] = None
    BY <2>5
  <2>9. BatchFits(tx)
    <3>1. CASE store[t] = None
      <4>1. base = NoProgress
        BY <2>3, <3>1 DEF Progress
      <4>2. Created(ZeroTally) = AsAccount(NoProgress)
        BY <1>1, NoProgressExact DEF TallyInv
      <4> QED
        BY <2>8, <3>1, <4>1, <4>2 DEF BatchFits, Account
    <3>2. CASE store[t] # None
      <4>1. base = store[t]
        BY <2>3, <3>2 DEF Progress
      <4>2. account[o] = AsAccount(store[t])
        BY <2>1, <2>2, <3>2 DEF OtherWallet, Matches
      <4> QED
        BY <2>8, <3>2, <4>1, <4>2 DEF BatchFits, Account
    <3> QED
      BY <3>1, <3>2
  <2>10. BatchFits(tx)'
    BY <2>6, <2>9 DEF BatchFits, Account
  <2>11. Batched(new)'
    BY <2>6, <2>8, <2>10 DEF Batched
  <2>12. task'[t] = new /\ \A u \in Tabs \ {t} : task'[u] = None
    BY <1>1, <2>2, <2>6 DEF TallyInv, NoHandler
  <2>13. Held(new)'
    BY <2>2, <2>6, <2>7, <2>12 DEF Held, NoHandler
  <2> QED
    BY <2>11, <2>13
<1> QED
  BY <1>8, <1>9, <1>10, <1>11, <1>12, <1>13, <1>14, <1>15, <1>16 DEF TallyNextState

\* With one handler at a time, of one wallet, nothing lost and every
\* transaction awaited, the stored progress is that of an account
\* (StoreMatchesAccount; onTallyNext).
THEOREM StoreFitsAccount == TallySpec => []StoreMatchesAccount
<1>1. MatchInv => StoreMatchesAccount
  BY DEF MatchInv, AtRest, Held, Batched, NoHandler, Matches, StoreMatchesAccount
<1>2. MatchInv /\ [TallyNextState]_vars => MatchInv'
  BY MatchInvStep
<1> QED
  BY <1>1, <1>2, MatchInvInit, PTL DEF TallySpec
=============================================================================
