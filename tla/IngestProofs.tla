---------------------------- MODULE IngestProofs ----------------------------
(***************************************************************************)
(* Machine-checked proofs about Census and Ingest: for every number of     *)
(* censuses, members, keys, files and polls, and any interleaving of the   *)
(* service's requests with the handlers of the page; and for every number  *)
(* of restarts, parallel downloads and rows of an INSERT, and every        *)
(* division of the files into chunks.                                      *)
(***************************************************************************)
EXTENDS Ingest, FiniteSetTheorems, TLAPS

-----------------------------------------------------------------------------
(* The enumeration of a finite set *)

\* SetToSeq lists every finite set without repetition.
LEMMA SetToSeqEnumerates ==
    ASSUME NEW S, IsFiniteSet(S)
    PROVE  /\ Cardinality(S) \in Nat
           /\ SetToSeq(S) \in [1..Cardinality(S) -> S]
           /\ IsInjective(SetToSeq(S))
<1>1. Cardinality(S) \in Nat /\ ExistsBijection(1..Cardinality(S), S)
  BY FS_CardinalityType
<1>2. PICK g \in [1..Cardinality(S) -> S] : IsInjective(g)
  BY <1>1 DEF ExistsBijection, Bijection, Injection
<1> QED
  BY <1>1, <1>2 DEF SetToSeq

-----------------------------------------------------------------------------
(* The census service *)

\* Ids are given once, a key sits in a census once, and a seat that nobody
\* has taken was never claimed.
ServiceInv ==
    /\ creators \in [Censuses -> Keys \union {Null}]
    /\ members \subseteq MemberType
    /\ last_id \in Nat
    /\ claims \subseteq [id : Nat, census : Censuses, pub : Keys]
    /\ \A m \in members \union claims : 1 <= m.id /\ m.id <= last_id
    /\ \A a, b \in members : a.id = b.id => a = b
    /\ \A a, b \in members :
          a.census = b.census /\ a.pub = b.pub /\ a.pub # Null => a = b
    /\ \A m \in members, claim \in claims : m.pub = Null => claim.id # m.id
    /\ \A a, b \in claims : a.id = b.id => a = b
    /\ \A m \in members : m.pub # Null =>
          [id |-> m.id, census |-> m.census, pub |-> m.pub] \in claims

\* No census, no member, no claim.
LEMMA ServiceInit == CensusInit => ServiceInv
BY DEF CensusInit, ServiceInv

\* A new census gets invitations that nobody claimed.
LEMMA CreateCensusKeeps ==
    ASSUME ServiceInv, CensusConstants,
           NEW actor \in Organizers, NEW c \in Censuses, NEW n \in 0..MaxMembers,
           CreateCensus(actor, c, n)
    PROVE  ServiceInv'
<1> DEFINE New == {Invited(last_id + i, c) : i \in 1..n}
<1>1. /\ members' = members \union New
      /\ creators' = [creators EXCEPT ![c] = actor]
      /\ last_id' = last_id + n
      /\ claims' = claims
  BY DEF CreateCensus
<1>2. n \in Nat /\ actor \in Keys
  BY DEF CensusConstants
<1>3. \A m \in New : /\ m \in MemberType
                     /\ m.pub = Null
                     /\ m.id > last_id /\ m.id <= last_id + n
                     /\ m = Invited(m.id, c)
  <2> TAKE m \in New
  <2>1. PICK i \in 1..n : m = Invited(last_id + i, c)
    OBVIOUS
  <2> QED
    BY <2>1, <1>2 DEF Invited, MemberType, ServiceInv
<1>4. \A m \in members \union claims :
          m.id <= last_id /\ m.id \in Nat /\ 1 <= m.id
  BY DEF ServiceInv, MemberType
<1> HIDE DEF New
<1>5. creators' \in [Censuses -> Keys \union {Null}] /\ last_id' \in Nat
  BY <1>1, <1>2 DEF ServiceInv
<1>6. members' \subseteq MemberType
  BY <1>1, <1>3 DEF ServiceInv
<1>7. \A m \in (members \union claims)' : 1 <= m.id /\ m.id <= last_id'
  <2> SUFFICES ASSUME NEW m \in members \union New \union claims
               PROVE  1 <= m.id /\ m.id <= last_id + n
    BY <1>1
  <2>1. CASE m \in New
    <3>1. m.id \in Nat /\ last_id \in Nat
      BY <2>1, <1>3 DEF MemberType, ServiceInv
    <3> QED
      BY <2>1, <1>3, <3>1
  <2>2. CASE m \in members \union claims
    BY <2>2, <1>4, <1>2 DEF ServiceInv
  <2> QED
    BY <2>1, <2>2
<1>8. \A a, b \in members' : a.id = b.id => a = b
  <2> SUFFICES ASSUME NEW a \in members \union New, NEW b \in members \union New, a.id = b.id
               PROVE  a = b
    BY <1>1
  <2>1. CASE a \in members /\ b \in members
    BY <2>1 DEF ServiceInv
  <2>2. CASE a \in New /\ b \in New
    BY <2>2, <1>3
  <2>3. CASE (a \in members /\ b \in New) \/ (a \in New /\ b \in members)
    <3>1. \A x \in members, y \in New : x.id # y.id
      <4> SUFFICES ASSUME NEW x \in members, NEW y \in New PROVE x.id # y.id
        OBVIOUS
      <4>1. last_id \in Nat /\ x.id \in Nat /\ x.id <= last_id
        BY <1>4 DEF ServiceInv
      <4>2. y.id \in Nat /\ y.id > last_id
        BY <1>3 DEF MemberType
      <4> QED
        BY <4>1, <4>2
    <3> QED
      BY <2>3, <3>1
  <2> QED
    BY <2>1, <2>2, <2>3
<1>9. \A a, b \in members' :
          a.census = b.census /\ a.pub = b.pub /\ a.pub # Null => a = b
  BY <1>1, <1>3 DEF ServiceInv
<1>10. \A m \in members', claim \in claims' : m.pub = Null => claim.id # m.id
  <2> SUFFICES ASSUME NEW m \in members \union New, NEW claim \in claims, m.pub = Null
               PROVE  claim.id # m.id
    BY <1>1
  <2>1. CASE m \in members
    BY <2>1 DEF ServiceInv
  <2>2. CASE m \in New
    <3>1. claim.id <= last_id /\ m.id > last_id /\ last_id \in Nat /\ claim.id \in Nat /\ m.id \in Nat
      BY <2>2, <1>3, <1>4 DEF ServiceInv, MemberType
    <3> QED
      BY <3>1
  <2> QED
    BY <2>1, <2>2
<1>11. \A m \in members' : m.pub # Null =>
          [id |-> m.id, census |-> m.census, pub |-> m.pub] \in claims'
  BY <1>1, <1>3 DEF ServiceInv
<1> QED
  BY <1>1, <1>5, <1>6, <1>7, <1>8, <1>9, <1>10, <1>11 DEF ServiceInv

\* An added member gets an id that was never given.
LEMMA AddMemberKeeps ==
    ASSUME ServiceInv, CensusConstants,
           NEW actor \in Organizers, NEW c \in Censuses, AddMember(actor, c)
    PROVE  ServiceInv'
<1> DEFINE new == Invited(last_id + 1, c)
<1>1. /\ members' = members \union {new}
      /\ creators' = creators
      /\ last_id' = last_id + 1
      /\ claims' = claims
  BY DEF AddMember
<1>2. new \in MemberType /\ new.pub = Null /\ new.id = last_id + 1
  BY DEF Invited, MemberType, ServiceInv
<1>3. \A m \in members \union claims :
          m.id <= last_id /\ m.id \in Nat /\ 1 <= m.id
  BY DEF ServiceInv, MemberType
<1>4. last_id \in Nat
  BY DEF ServiceInv
<1> HIDE DEF new
<1>5. members' \subseteq MemberType /\ last_id' \in Nat
  BY <1>1, <1>2, <1>4 DEF ServiceInv
<1>6. \A m \in (members \union claims)' : 1 <= m.id /\ m.id <= last_id'
  <2> SUFFICES ASSUME NEW m \in members \union {new} \union claims
               PROVE  1 <= m.id /\ m.id <= last_id + 1
    BY <1>1
  <2> QED
    BY <1>2, <1>3, <1>4
<1>7. \A a, b \in members' : a.id = b.id => a = b
  <2> SUFFICES ASSUME NEW a \in members \union {new}, NEW b \in members \union {new}, a.id = b.id
               PROVE  a = b
    BY <1>1
  <2>1. CASE a \in members /\ b \in members
    BY <2>1 DEF ServiceInv
  <2>2. CASE a = new \/ b = new
    BY <2>2, <1>2, <1>3, <1>4
  <2> QED
    BY <2>1, <2>2
<1>8. \A a, b \in members' :
          a.census = b.census /\ a.pub = b.pub /\ a.pub # Null => a = b
  BY <1>1, <1>2 DEF ServiceInv
<1>9. \A m \in members', claim \in claims' : m.pub = Null => claim.id # m.id
  <2> SUFFICES ASSUME NEW m \in members \union {new}, NEW claim \in claims, m.pub = Null
               PROVE  claim.id # m.id
    BY <1>1
  <2>1. CASE m \in members
    BY <2>1 DEF ServiceInv
  <2>2. CASE m = new
    <3>1. claim.id <= last_id /\ claim.id \in Nat
      BY <1>3
    <3> QED
      BY <2>2, <1>2, <1>4, <3>1
  <2> QED
    BY <2>1, <2>2
<1>10. \A m \in members' : m.pub # Null =>
          [id |-> m.id, census |-> m.census, pub |-> m.pub] \in claims'
  BY <1>1, <1>2 DEF ServiceInv
<1> QED
  BY <1>1, <1>5, <1>6, <1>7, <1>8, <1>9, <1>10 DEF ServiceInv

\* A removed member takes no key of another along.
LEMMA RemoveMemberKeeps ==
    ASSUME ServiceInv, NEW actor \in Organizers, NEW m \in members,
           RemoveMember(actor, m)
    PROVE  ServiceInv'
<1>1. /\ members' = members \ {m}
      /\ creators' = creators /\ last_id' = last_id /\ claims' = claims
  BY DEF RemoveMember
<1> QED
  BY <1>1 DEF ServiceInv

\* A claim goes to an open invitation and to a key that is not in the
\* census.
LEMMA ClaimMemberKeeps ==
    ASSUME ServiceInv, CensusConstants, NEW key \in Keys, NEW m \in members,
           ClaimMember(key, m)
    PROVE  ServiceInv'
<1> DEFINE joined == Bound(m, key)
           claim == [id |-> m.id, census |-> m.census, pub |-> key]
<1>1. /\ m.pub = Null
      /\ \A other \in members : ~(other.census = m.census /\ other.pub = key)
      /\ members' = (members \ {m}) \union {joined}
      /\ claims' = claims \union {claim}
      /\ creators' = creators /\ last_id' = last_id
  BY DEF ClaimMember
<1>2. m \in MemberType /\ key # Null
  BY DEF ServiceInv, CensusConstants
<1>3. /\ joined \in MemberType
      /\ joined.id = m.id /\ joined.census = m.census /\ joined.pub = key
  BY <1>2 DEF Bound, MemberType
<1>4. /\ claim \in [id : Nat, census : Censuses, pub : Keys]
      /\ claim.id = m.id /\ claim.census = m.census /\ claim.pub = key
      /\ claim = [id |-> joined.id, census |-> joined.census, pub |-> joined.pub]
  BY <1>2, <1>3 DEF MemberType
<1> HIDE DEF joined, claim
<1>5. /\ members' \subseteq MemberType
      /\ claims' \subseteq [id : Nat, census : Censuses, pub : Keys]
  BY <1>1, <1>3, <1>4 DEF ServiceInv
<1>6. \A n \in (members \union claims)' : 1 <= n.id /\ n.id <= last_id'
  BY <1>1, <1>3, <1>4 DEF ServiceInv
<1>7. \A a, b \in members' : a.id = b.id => a = b
  BY <1>1, <1>3 DEF ServiceInv
<1>8. \A a, b \in members' :
          a.census = b.census /\ a.pub = b.pub /\ a.pub # Null => a = b
  BY <1>1, <1>3 DEF ServiceInv
<1>9. \A n \in members', cl \in claims' : n.pub = Null => cl.id # n.id
  <2> SUFFICES ASSUME NEW n \in members', NEW cl \in claims', n.pub = Null
               PROVE  cl.id # n.id
    OBVIOUS
  <2>1. n \in members /\ n # m
    BY <1>1, <1>2, <1>3
  <2>2. CASE cl \in claims
    BY <2>1, <2>2 DEF ServiceInv
  <2>3. CASE cl = claim
    BY <2>1, <2>3, <1>4 DEF ServiceInv
  <2> QED
    BY <1>1, <2>2, <2>3
<1>10. \A a, b \in claims' : a.id = b.id => a = b
  <2>1. \A a \in claims : a.id # claim.id
    BY <1>1, <1>4 DEF ServiceInv
  <2> QED
    BY <1>1, <2>1 DEF ServiceInv
<1>11. \A n \in members' : n.pub # Null =>
          [id |-> n.id, census |-> n.census, pub |-> n.pub] \in claims'
  BY <1>1, <1>3, <1>4 DEF ServiceInv
<1> QED
  BY <1>1, <1>5, <1>6, <1>7, <1>8, <1>9, <1>10, <1>11 DEF ServiceInv

\* Everything else leaves the tables alone.
LEMMA ServiceStep ==
    ASSUME ServiceInv, CensusConstants, [CensusNext]_censusVars
    PROVE  ServiceInv' /\ claims \subseteq claims'
<1>1. CASE UNCHANGED serviceVars
  BY <1>1 DEF ServiceInv, serviceVars
<1>2. ASSUME NEW actor \in Organizers, NEW c \in Censuses, NEW n \in 0..MaxMembers,
             CreateCensus(actor, c, n)
      PROVE  ServiceInv' /\ claims \subseteq claims'
  BY <1>2, CreateCensusKeeps DEF CreateCensus
<1>3. ASSUME NEW actor \in Organizers, NEW c \in Censuses, AddMember(actor, c)
      PROVE  ServiceInv' /\ claims \subseteq claims'
  BY <1>3, AddMemberKeeps DEF AddMember
<1>4. ASSUME NEW actor \in Organizers, NEW m \in members, RemoveMember(actor, m)
      PROVE  ServiceInv' /\ claims \subseteq claims'
  BY <1>4, RemoveMemberKeeps DEF RemoveMember
<1>5. ASSUME NEW key \in Keys, NEW m \in members, ClaimMember(key, m)
      PROVE  ServiceInv' /\ claims \subseteq claims'
  BY <1>5, ClaimMemberKeeps DEF ClaimMember
<1>6. ASSUME \/ \E actor \in Organizers, c \in Censuses : PickExisting(actor, c)
             \/ \E file \in UploadFiles : ReadFile(file)
             \/ \E source \in reading : FillForm(source)
             \/ \E description \in Descriptions \ {"malformed"} : Submit(description)
             \/ CreatePoll \/ Abandon
             \/ \E p \in ForeignPolls : CreateForeignPoll(p)
             \/ UNCHANGED censusVars
      PROVE  UNCHANGED serviceVars
  BY <1>6 DEF PickExisting, ReadFile, FillForm, Submit, CreatePoll, Abandon,
              CreateForeignPoll, censusVars, serviceVars
<1> QED
  BY <1>1, <1>2, <1>3, <1>4, <1>5, <1>6 DEF CensusNext

-----------------------------------------------------------------------------
(* What the service exports *)

\* Ids are bounded and given once, so the table is finite.
LEMMA MembersFinite ==
    ASSUME ServiceInv
    PROVE  IsFiniteSet(members)
<1> DEFINE ids == [m \in members |-> m.id]
<1>1. \A m \in members : m.id \in 0..last_id
  BY DEF ServiceInv, MemberType
<1>2. ids \in [members -> 0..last_id]
  BY <1>1
<1>3. IsInjective(ids)
  BY DEF IsInjective, ServiceInv
<1>4. ids \in Injection(members, 0..last_id)
  BY <1>2, <1>3 DEF Injection
<1>5. IsFiniteSet(0..last_id)
  BY FS_Interval DEF ServiceInv
<1> HIDE DEF ids
<1> QED
  BY <1>4, <1>5, FS_Injection

\* The keys of a file are different, and each was brought by an invitation to
\* the census; says nothing of a file that does not come from the service.
Good(from, file) ==
    from \in Censuses =>
        /\ IsInjective(file)
        /\ \A i \in DOMAIN file : \E claim \in claims :
              claim.census = from /\ claim.pub = file[i]

\* The file of a census lists each key once, each with a claim.
LEMMA ExportIsGood ==
    ASSUME ServiceInv, NEW c \in Censuses
    PROVE  /\ Export(c) \in Seq(Keys)
           /\ Good(c, Export(c))
<1> DEFINE rows == SetToSeq(Joined(c))
           n == Cardinality(Joined(c))
<1>1. IsFiniteSet(Joined(c))
  BY MembersFinite, FS_Subset DEF Joined
<1>2. n \in Nat /\ rows \in [1..n -> Joined(c)] /\ IsInjective(rows)
  BY <1>1, SetToSeqEnumerates
<1>3. Len(rows) = n
  BY <1>2
<1> HIDE DEF rows, n
<1>4. Export(c) = [i \in 1..n |-> rows[i].pub]
  BY <1>3 DEF Export, rows
<1>5. \A i \in 1..n : /\ rows[i] \in members
                      /\ rows[i].census = c
                      /\ rows[i].pub # Null
  BY <1>2 DEF Joined
<1>6. \A i \in 1..n : rows[i].pub \in Keys
  BY <1>5 DEF ServiceInv, MemberType
<1>7. Export(c) \in Seq(Keys) /\ DOMAIN Export(c) = 1..n
  BY <1>2, <1>4, <1>6
<1>8. IsInjective(Export(c))
  <2> SUFFICES ASSUME NEW i \in 1..n, NEW j \in 1..n, rows[i].pub = rows[j].pub
               PROVE  i = j
    BY <1>4, <1>7 DEF IsInjective
  <2>1. rows[i] = rows[j]
    BY <1>5 DEF ServiceInv
  <2> QED
    BY <2>1, <1>2 DEF IsInjective
<1>9. ASSUME NEW i \in 1..n
      PROVE  \E claim \in claims : claim.census = c /\ claim.pub = Export(c)[i]
  <2> DEFINE claim == [id |-> rows[i].id, census |-> rows[i].census, pub |-> rows[i].pub]
  <2>1. claim \in claims
    BY <1>5 DEF ServiceInv
  <2>2. claim.census = c /\ claim.pub = Export(c)[i]
    BY <1>4, <1>5
  <2> QED
    BY <2>1, <2>2
<1> QED
  BY <1>7, <1>8, <1>9 DEF Good

-----------------------------------------------------------------------------
(* The page *)

\* The form and what is being submitted are each of one file, and every file
\* that came from a census is a good one.
PageInv ==
    /\ reading \subseteq SourceType
    /\ form \in FormType \union {Null}
    /\ submitting \in PollType \union {Null}
    /\ polls \in Seq(PollType)
    /\ form # Null => form.root = form.bytes /\ form.count = Len(form.bytes)
    /\ submitting # Null =>
          submitting.root = submitting.file /\ submitting.n_voters = Len(submitting.file)
    /\ PollOfOneFile
    /\ \A s \in reading : Good(s.from, s.file)
    /\ form # Null => Good(form.from, form.bytes)
    /\ submitting # Null => Good(submitting.from, submitting.file)
    /\ \A i \in DOMAIN polls : Good(polls[i].from, polls[i].file)

\* The form starts empty.
LEMMA PageInit == CensusConstants /\ CensusInit => PageInv
BY DEF CensusInit, PageInv, PollOfOneFile

\* The history of claims only grows, so a good file stays good.
LEMMA GoodStays ==
    ASSUME claims \subseteq claims', NEW from, NEW file, Good(from, file)
    PROVE  Good(from, file)'
BY DEF Good

\* Appending a poll.
LEMMA AppendPoll ==
    ASSUME PageInv, claims' = claims, NEW p \in PollType, polls' = Append(polls, p),
           Good(p.from, p.file),
           p.from # 0 => p.root = p.file /\ p.n_voters = Len(p.file)
    PROVE  /\ polls' \in Seq(PollType)
           /\ PollOfOneFile'
           /\ \A i \in DOMAIN polls' : Good(polls[i].from, polls[i].file)'
<1>1. polls \in Seq(PollType)
  BY DEF PageInv
<1>2. /\ polls' \in Seq(PollType)
      /\ DOMAIN polls' = 1..(Len(polls) + 1)
      /\ polls'[Len(polls) + 1] = p
      /\ \A i \in 1..Len(polls) : polls'[i] = polls[i]
      /\ Len(polls) \in Nat /\ DOMAIN polls = 1..Len(polls)
  BY <1>1
<1>3. \A i \in DOMAIN polls' : i \in DOMAIN polls \/ i = Len(polls) + 1
  BY <1>2
<1>4. PollOfOneFile'
  BY <1>2, <1>3 DEF PageInv, PollOfOneFile
<1>5. \A i \in DOMAIN polls' : Good(polls[i].from, polls[i].file)'
  BY <1>2, <1>3 DEF PageInv, Good
<1> QED
  BY <1>2, <1>4, <1>5

\* What the page has read stays good, since claims only grow.
LEMMA ServiceKeepsPage ==
    ASSUME PageInv, claims \subseteq claims', UNCHANGED <<pageVars, polls>>
    PROVE  PageInv'
BY DEF PageInv, PollOfOneFile, Good, pageVars

\* The page starts to read an export of the service.
LEMMA PickExistingKeepsPage ==
    ASSUME PageInv, ServiceInv, NEW actor \in Organizers, NEW c \in Censuses,
           PickExisting(actor, c)
    PROVE  PageInv'
<1>1. /\ reading' = reading \union {Source(c, Export(c))}
      /\ UNCHANGED <<claims, form, submitting, polls>>
  BY DEF PickExisting, serviceVars
<1> DEFINE s == Source(c, Export(c))
<1>2. s \in SourceType /\ Good(s.from, s.file)
  BY ExportIsGood DEF Source, SourceType
<1> HIDE DEF s
<1>3. reading' = reading \union {s}
  BY <1>1 DEF s
<1> QED
  BY <1>1, <1>2, <1>3 DEF PageInv, PollOfOneFile, Good

\* The page starts to read an uploaded file.
LEMMA ReadFileKeepsPage ==
    ASSUME PageInv, CensusConstants, NEW file \in UploadFiles, ReadFile(file)
    PROVE  PageInv'
<1>1. /\ reading' = reading \union {Source(Null, file)}
      /\ UNCHANGED <<claims, form, submitting, polls>>
  BY DEF ReadFile, serviceVars
<1> DEFINE s == Source(Null, file)
<1>2. s \in SourceType /\ Good(s.from, s.file)
  BY DEF Source, SourceType, Good, CensusConstants
<1> HIDE DEF s
<1>3. reading' = reading \union {s}
  BY <1>1 DEF s
<1> QED
  BY <1>1, <1>2, <1>3 DEF PageInv, PollOfOneFile, Good

\* One read that finished fills the form as a whole.
LEMMA FillFormKeepsPage ==
    ASSUME PageInv, NEW source \in reading, FillForm(source)
    PROVE  PageInv'
<1>1. /\ reading' = reading \ {source}
      /\ form' = Filled(source)
      /\ UNCHANGED <<claims, submitting, polls>>
  BY DEF FillForm, serviceVars
<1>2. source \in SourceType /\ Good(source.from, source.file)
  BY DEF PageInv
<1>3. /\ form' \in FormType
      /\ form'.from = source.from /\ form'.bytes = source.file
      /\ form'.root = form'.bytes /\ form'.count = Len(form'.bytes)
  BY <1>1, <1>2 DEF Filled, FormType, SourceType
<1> QED
  BY <1>1, <1>2, <1>3 DEF PageInv, PollOfOneFile, Good

\* A submission copies the form.
LEMMA SubmitKeepsPage ==
    ASSUME PageInv, CensusConstants, NEW description \in Descriptions, Submit(description)
    PROVE  PageInv'
<1>1. /\ form # Null
      /\ submitting' = PollFrom(form.from, form.root, form.count, form.bytes,
                                FALSE, description)
      /\ UNCHANGED <<claims, reading, form, polls>>
  BY DEF Submit, serviceVars
<1>2. form \in FormType /\ Good(form.from, form.bytes)
  BY <1>1 DEF PageInv
<1>3. /\ submitting' \in PollType
      /\ submitting'.from = form.from /\ submitting'.file = form.bytes
      /\ submitting'.root = form.root /\ submitting'.n_voters = form.count
  BY <1>1, <1>2 DEF PollFrom, PollType, FormType
<1>4. Good(submitting.from, submitting.file)'
  BY <1>1, <1>2, <1>3 DEF Good
<1>5. submitting'.root = submitting'.file /\ submitting'.n_voters = Len(submitting'.file)
  BY <1>1, <1>3 DEF PageInv
<1>6. \A s \in reading' : Good(s.from, s.file)'
  BY <1>1 DEF PageInv, Good
<1>7. Good(form.from, form.bytes)' /\ \A i \in DOMAIN polls' : Good(polls[i].from, polls[i].file)'
  BY <1>1, <1>2 DEF PageInv, Good
<1>8. PollOfOneFile'
  BY <1>1 DEF PageInv, PollOfOneFile
<1> QED
  BY <1>1, <1>3, <1>4, <1>5, <1>6, <1>7, <1>8 DEF PageInv

\* A poll is created from the submission.
LEMMA CreatePollKeepsPage ==
    ASSUME PageInv, CreatePoll
    PROVE  PageInv'
<1>1. /\ submitting # Null /\ submitting' = Null
      /\ polls' = Append(polls, submitting)
      /\ UNCHANGED <<claims, reading, form>>
  BY DEF CreatePoll, serviceVars
<1>2. /\ submitting \in PollType
      /\ submitting.root = submitting.file
      /\ submitting.n_voters = Len(submitting.file)
      /\ Good(submitting.from, submitting.file)
  BY <1>1 DEF PageInv
<1>3. /\ polls' \in Seq(PollType)
      /\ PollOfOneFile'
      /\ \A i \in DOMAIN polls' : Good(polls[i].from, polls[i].file)'
  BY <1>1, <1>2, AppendPoll
<1> QED
  BY <1>1, <1>3 DEF PageInv, Good

\* A submission can be given up.
LEMMA AbandonKeepsPage ==
    ASSUME PageInv, Abandon
    PROVE  PageInv'
<1>1. submitting' = Null /\ UNCHANGED <<claims, reading, form, polls>>
  BY DEF Abandon, serviceVars
<1> QED
  BY <1>1 DEF PageInv, PollOfOneFile, Good

\* Polls made with other tools do not count as the page's.
LEMMA CreateForeignPollKeepsPage ==
    ASSUME PageInv, CensusConstants, NEW p \in ForeignPolls, CreateForeignPoll(p)
    PROVE  PageInv'
<1>1. polls' = Append(polls, p) /\ UNCHANGED <<claims, reading, form, submitting>>
  BY DEF CreateForeignPoll, serviceVars, pageVars
<1>2. p \in PollType /\ p.from = 0 /\ Good(p.from, p.file)
  BY DEF CensusConstants, Good
<1>3. /\ polls' \in Seq(PollType)
      /\ PollOfOneFile'
      /\ \A i \in DOMAIN polls' : Good(polls[i].from, polls[i].file)'
  BY <1>1, <1>2, AppendPoll
<1> QED
  BY <1>1, <1>3 DEF PageInv, Good

\* Every step keeps the page's invariant.
LEMMA PageStep ==
    ASSUME PageInv, ServiceInv, CensusConstants, [CensusNext]_censusVars
    PROVE  PageInv'
<1>1. claims \subseteq claims'
  BY ServiceStep
<1>2. CASE \/ \E actor \in Organizers, c \in Censuses :
                 \/ \E n \in 0..MaxMembers : CreateCensus(actor, c, n)
                 \/ AddMember(actor, c)
           \/ \E actor \in Organizers, m \in members : RemoveMember(actor, m)
           \/ \E key \in Keys, m \in members : ClaimMember(key, m)
           \/ UNCHANGED censusVars
  <2>1. UNCHANGED <<pageVars, polls>>
    BY <1>2 DEF CreateCensus, AddMember, RemoveMember, ClaimMember, censusVars, pageVars
  <2> QED
    BY <2>1, <1>1, ServiceKeepsPage
<1>3. ASSUME NEW actor \in Organizers, NEW c \in Censuses, PickExisting(actor, c)
      PROVE  PageInv'
  BY <1>3, PickExistingKeepsPage
<1>4. ASSUME NEW file \in UploadFiles, ReadFile(file) PROVE PageInv'
  BY <1>4, ReadFileKeepsPage
<1>5. ASSUME NEW source \in reading, FillForm(source) PROVE PageInv'
  BY <1>5, FillFormKeepsPage
<1>6. ASSUME NEW description \in Descriptions, Submit(description) PROVE PageInv'
  BY <1>6, SubmitKeepsPage
<1>7. ASSUME CreatePoll PROVE PageInv'
  BY <1>7, CreatePollKeepsPage
<1>8. ASSUME Abandon PROVE PageInv'
  BY <1>8, AbandonKeepsPage
<1>9. ASSUME NEW p \in ForeignPolls, CreateForeignPoll(p) PROVE PageInv'
  BY <1>9, CreateForeignPollKeepsPage
<1> QED
  BY <1>2, <1>3, <1>4, <1>5, <1>6, <1>7, <1>8, <1>9 DEF CensusNext

-----------------------------------------------------------------------------
(* Theorems about Census *)

\* The inductive invariant of the service and the page together.
CensusInv == ServiceInv /\ PageInv

\* CensusInv holds in every state of every behaviour of the service and the page.
THEOREM CensusInvariant == CensusSpec => []CensusInv
<1>1. CensusInit => CensusInv
  BY ServiceInit, PageInit, CensusConstants DEF CensusInv
<1>2. CensusInv /\ [CensusNext]_censusVars => CensusInv'
  BY ServiceStep, PageStep, CensusConstants DEF CensusInv
<1> QED
  BY <1>1, <1>2, PTL DEF CensusSpec

\* The tables, the form and the polls keep their shapes, and the ids of members
\* stay unique (001_init.sql, schema of PollCreatePage).
THEOREM CensusTypes == CensusSpec => []CensusTypeOK
<1>1. CensusInv => CensusTypeOK
  BY DEF CensusInv, ServiceInv, PageInv, CensusTypeOK
<1> QED
  BY <1>1, CensusInvariant, PTL

\* One invitation admits at most one key, and nobody sits in a census without
\* one, whatever is claimed, removed and invited in between (claim_member,
\* remove_member, add_member).
THEOREM OneKeyPerInvitation == CensusSpec => []InvitationAdmitsOne
<1>1. CensusInv => InvitationAdmitsOne
  BY DEF CensusInv, ServiceInv, InvitationAdmitsOne
<1> QED
  BY <1>1, CensusInvariant, PTL

\* A census of the service reaches the form and the chain without a key twice
\* and with invited keys only (export_census, handlePickExisting, onSubmit).
THEOREM CensusesCountVoters == CensusSpec => []CensusCountsVoters
<1>1. CensusInv => CensusCountsVoters
  <2> SUFFICES ASSUME CensusInv, NEW s \in CensusFiles PROVE Good(s.from, s.file)
    BY DEF CensusCountsVoters, Good
  <2>1. CASE s \in reading
    BY <2>1 DEF CensusInv, PageInv
  <2>2. CASE form # Null /\ s = Source(form.from, form.bytes)
    BY <2>2 DEF CensusInv, PageInv, Source
  <2>3. CASE submitting # Null /\ s = Source(submitting.from, submitting.file)
    BY <2>3 DEF CensusInv, PageInv, Source
  <2>4. CASE \E i \in DOMAIN polls : s = Source(polls[i].from, polls[i].file)
    BY <2>4 DEF CensusInv, PageInv, Source
  <2> QED
    BY <2>1, <2>2, <2>3, <2>4 DEF CensusFiles
<1> QED
  BY <1>1, CensusInvariant, PTL

\* Root, count and file of a poll made with the page are of one file, however
\* its handlers overlap (onCensusFile, handlePickExisting, onSubmit).
THEOREM PollsAreOfOneFile == CensusSpec => []PollOfOneFile
<1>1. CensusInv => PollOfOneFile
  BY DEF CensusInv, PageInv
<1> QED
  BY <1>1, CensusInvariant, PTL

-----------------------------------------------------------------------------
(* The polls below the ingest *)

\* Every step of the composition is a step of Census or leaves its variables
\* alone.
LEMMA StepOfCensus ==
    ASSUME [IngestNext]_vars
    PROVE  [CensusNext]_censusVars
<1>1. CASE known < MaxPolls /\ CensusNext /\ UNCHANGED ingestVars
  BY <1>1
<1>2. CASE UNCHANGED vars
  BY <1>2 DEF vars
<1>3. CASE IndexPoll \/ Restart \/ Recover
  BY <1>3 DEF IndexPoll, Restart, Recover
<1>4. CASE BeginIngest \/ BeginDescription \/ \E p \in desc_jobs : EndDescription(p)
  BY <1>4 DEF BeginIngest, BeginDescription, EndDescription
<1>5. CASE \E job \in jobs : CheckLength(job) \/ JobStep(job)
  BY <1>5 DEF CheckLength, JobStep, ReceiveChunk, EndOfFile, Judge, BreakOff
<1> QED
  BY <1>1, <1>2, <1>3, <1>4, <1>5 DEF IngestNext

\* The indexer only watches: with its variables hidden, the system is the
\* service, the page and the chain of Census.
THEOREM IngestImplementsCensus == IngestSpec => CensusSpec
<1>1. IngestInit => CensusInit
  BY DEF IngestInit
<1>2. [IngestNext]_vars => [CensusNext]_censusVars
  BY StepOfCensus
<1> QED
  BY <1>1, <1>2, PTL DEF IngestSpec, CensusSpec

-----------------------------------------------------------------------------
(* The inductive invariant *)

\* polls as the census invariant leaves them, within the bound.
PollsOK == polls \in Seq(PollType) /\ Len(polls) <= MaxPolls

\* An attempt works on a poll that is not queued and not valid, within its
\* file; what it has flushed is in the table, and before the verdict all of it.
JobOK(job) ==
    /\ job.flushed <= job.pos /\ job.pos <= Len(File(job))
    /\ valid[job.poll] # TRUE
    /\ \A i \in DOMAIN census_cmds : census_cmds[i] # job.poll
    /\ \A i \in 1..job.flushed : File(job)[i] \in voters[job.poll]
    /\ job.closing =>
          /\ job.pos = Len(File(job))
          /\ \A i \in 1..job.pos : File(job)[i] \in voters[job.poll]

\* The table holds leaves of the file only, and all of them once the poll is valid.
VotersOK(p) ==
    /\ voters[p] \subseteq ToSet(polls[p].file)
    /\ valid[p] = TRUE =>
          /\ voters[p] = ToSet(polls[p].file)
          /\ Len(polls[p].file) = polls[p].n_voters

TablesOK ==
    /\ known \in Nat /\ known <= Len(polls)
    /\ valid \in [Polls -> BOOLEAN \union {Null}]
    /\ voters \in [Polls -> SUBSET Keys]
    /\ titled \subseteq 1..known
    /\ desc_jobs \subseteq 1..known
    /\ desc_cmds \in Seq(1..known)
    /\ \A p \in 1..known : VotersOK(p)
    /\ \A p \in Polls : p > known => voters[p] = {} /\ valid[p] = Null

QueueOK ==
    /\ census_cmds \in Seq(1..known)
    /\ \A i, j \in DOMAIN census_cmds : census_cmds[i] = census_cmds[j] => i = j

JobsOK ==
    /\ jobs \subseteq JobType
    /\ \A a, b \in jobs : a.poll = b.poll => a = b
    /\ \A job \in jobs : JobOK(job)

IngestInv == PollsOK /\ TablesOK /\ QueueOK /\ JobsOK

\* No poll is listed at first.
LEMMA IngestInitInv == CensusConstants /\ IngestConstants /\ IngestInit => IngestInv
<1> SUFFICES ASSUME CensusConstants, IngestConstants, IngestInit PROVE IngestInv
  OBVIOUS
<1>1. PollsOK
  BY DEF IngestInit, CensusInit, PollsOK, CensusConstants
<1>2. TablesOK
  BY DEF IngestInit, CensusInit, TablesOK
<1>3. QueueOK /\ JobsOK
  BY DEF IngestInit, QueueOK, JobsOK
<1> QED
  BY <1>1, <1>2, <1>3 DEF IngestInv

-----------------------------------------------------------------------------
(* Every action keeps it *)

\* Steps of the service, the page and the chain leave the ingest its
\* invariant.
LEMMA CensusKeeps ==
    ASSUME IngestInv, CensusConstants, polls' \in Seq(PollType),
           [CensusNext]_censusVars, UNCHANGED ingestVars
    PROVE  IngestInv'
<1>1. polls' = polls \/ \E p : polls' = Append(polls, p) /\ Len(polls) < MaxPolls
  BY DEF CensusNext, CreateCensus, AddMember, RemoveMember, ClaimMember, PickExisting,
         ReadFile, FillForm, Submit, CreatePoll, Abandon, CreateForeignPoll, censusVars
<1>2. polls \in Seq(PollType) /\ Len(polls) <= MaxPolls /\ known \in Nat /\ known <= Len(polls)
  BY DEF IngestInv, PollsOK, TablesOK
<1>3. /\ Len(polls') <= MaxPolls
      /\ Len(polls) <= Len(polls')
      /\ \A i \in 1..Len(polls) : polls'[i] = polls[i]
  <2>1. CASE polls' = polls
    BY <2>1, <1>2
  <2>2. ASSUME NEW p, polls' = Append(polls, p), Len(polls) < MaxPolls
        PROVE  <1>3!:
    BY <2>2, <1>2 DEF CensusConstants
  <2> QED
    BY <1>1, <2>1, <2>2
<1>4. \A p \in 1..known : polls'[p] = polls[p]
  BY <1>2, <1>3
<1>5. PollsOK'
  BY <1>3 DEF PollsOK
<1>6. UNCHANGED <<known, valid, voters, titled, census_cmds, desc_cmds, jobs, desc_jobs>>
  BY DEF ingestVars
<1>7. TablesOK'
  <2>1. known' \in Nat /\ known' <= Len(polls')
    BY <1>2, <1>3, <1>6
  <2>2. \A p \in 1..known' : VotersOK(p)'
    BY <1>4, <1>6 DEF IngestInv, TablesOK, VotersOK
  <2> QED
    BY <2>1, <2>2, <1>6 DEF IngestInv, TablesOK
<1>8. QueueOK'
  BY <1>6 DEF IngestInv, QueueOK
<1>9. JobsOK'
  <2>1. \A job \in jobs : job.poll \in 1..known
    BY DEF IngestInv, JobsOK, JobType
  <2>2. \A job \in jobs : File(job)' = File(job)
    BY <2>1, <1>4 DEF File
  <2>3. \A job \in jobs' : JobOK(job)'
    BY <2>2, <1>6 DEF IngestInv, JobsOK, JobOK
  <2> QED
    BY <2>3, <1>6 DEF IngestInv, JobsOK, JobType
<1> QED
  BY <1>5, <1>7, <1>8, <1>9 DEF IngestInv

\* A sequence over a set is one over every larger set.
LEMMA SeqOfSuperset ==
    ASSUME NEW S, NEW T, S \subseteq T, NEW s \in Seq(S)
    PROVE  s \in Seq(T)
<1>1. Len(s) \in Nat /\ s \in [1..Len(s) -> T]
  OBVIOUS
<1> QED
  BY <1>1

\* A poll is queued when it is indexed, at most once.
LEMMA IndexPollKeeps ==
    ASSUME IngestInv, CensusConstants, IngestConstants, IndexPoll
    PROVE  IngestInv'
<1>1. /\ known < Len(polls) /\ known' = known + 1
      /\ census_cmds' = Append(census_cmds, known + 1)
      /\ desc_cmds' = Append(desc_cmds, known + 1)
      /\ UNCHANGED <<polls, valid, voters, titled, jobs, desc_jobs>>
  BY DEF IndexPoll, censusVars
<1>2. /\ polls \in Seq(PollType) /\ Len(polls) <= MaxPolls
      /\ known \in Nat /\ Len(polls) \in Nat /\ MaxPolls \in Nat
      /\ known + 1 \in Polls
  BY <1>1 DEF IngestInv, PollsOK, TablesOK, CensusConstants, Polls
<1>3. 1..(known + 1) = (1..known) \union {known + 1} /\ known + 1 \notin 1..known
  BY <1>2
<1>4. voters[known + 1] = {} /\ valid[known + 1] # TRUE
  <2>1. known + 1 > known
    BY <1>2
  <2>2. voters[known + 1] = {} /\ valid[known + 1] = Null
    BY <2>1, <1>2 DEF IngestInv, TablesOK
  <2>3. Null # TRUE
    BY DEF IngestConstants
  <2> QED
    BY <2>2, <2>3
<1>5. PollsOK'
  BY <1>1 DEF IngestInv, PollsOK
<1>6. TablesOK'
  <2>1. known' \in Nat /\ known' <= Len(polls')
    BY <1>1, <1>2
  <2>2. \A p \in 1..known' : VotersOK(p)'
    BY <1>1, <1>3, <1>4 DEF IngestInv, TablesOK, VotersOK
  <2>3. desc_cmds' \in Seq(1..known') /\ titled' \subseteq 1..known' /\ desc_jobs' \subseteq 1..known'
    <3>1. desc_cmds \in Seq(1..(known + 1))
      BY <1>3 DEF IngestInv, TablesOK
    <3> QED
      BY <1>1, <1>3, <3>1 DEF IngestInv, TablesOK
  <2>4. \A p \in Polls : p > known' => voters'[p] = {} /\ valid'[p] = Null
    BY <1>1, <1>2 DEF IngestInv, TablesOK, Polls
  <2> QED
    BY <2>1, <2>2, <2>3, <2>4, <1>1 DEF IngestInv, TablesOK
<1>7. /\ census_cmds \in Seq(1..known)
      /\ census_cmds' \in Seq(1..known')
      /\ \A i \in DOMAIN census_cmds' :
            \/ i \in DOMAIN census_cmds /\ census_cmds'[i] = census_cmds[i]
            \/ i = Len(census_cmds) + 1 /\ census_cmds'[i] = known + 1
  <2>1. census_cmds \in Seq(1..known)
    BY DEF IngestInv, QueueOK
  <2>2. census_cmds \in Seq(1..(known + 1))
    <3>1. 1..known \subseteq 1..(known + 1)
      BY <1>3
    <3> QED
      BY <2>1, <3>1, SeqOfSuperset
  <2> QED
    BY <2>1, <2>2, <1>1, <1>3
<1>8. \A i \in DOMAIN census_cmds : census_cmds[i] \in 1..known
  <2>1. census_cmds \in Seq(1..known)
    BY <1>7
  <2> DEFINE Q == 1..known
  <2>2. census_cmds \in Seq(Q)
    BY <2>1
  <2> HIDE DEF Q
  <2>3. \A i \in DOMAIN census_cmds : census_cmds[i] \in Q
    BY <2>2
  <2> QED
    BY <2>3 DEF Q
<1>9. QueueOK'
  BY <1>1, <1>3, <1>7, <1>8 DEF IngestInv, QueueOK
<1>10. \A job \in jobs : job.poll \in 1..known
  BY DEF IngestInv, JobsOK, JobType
<1>11. JobsOK'
  <2>1. \A job \in jobs' : JobOK(job)'
    BY <1>1, <1>3, <1>7, <1>10 DEF IngestInv, JobsOK, JobOK, File
  <2>2. jobs' \subseteq JobType'
    BY <1>1, <1>3 DEF IngestInv, JobsOK, JobType
  <2> QED
    BY <2>1, <2>2, <1>1 DEF IngestInv, JobsOK
<1> QED
  BY <1>5, <1>6, <1>9, <1>11 DEF IngestInv

\* A finite set of polls as a queue.
LEMMA QueueOfSet ==
    ASSUME NEW n \in Nat, NEW S \in SUBSET (1..n)
    PROVE  /\ SetToSeq(S) \in Seq(1..n)
           /\ \A i, j \in DOMAIN SetToSeq(S) : SetToSeq(S)[i] = SetToSeq(S)[j] => i = j
<1>1. IsFiniteSet(S)
  <2>1. IsFiniteSet(1..n)
    BY FS_Interval
  <2> QED
    BY <2>1, FS_Subset
<1> DEFINE s == SetToSeq(S)
           k == Cardinality(S)
<1>2. k \in Nat /\ s \in [1..k -> S] /\ IsInjective(s)
  BY <1>1, SetToSeqEnumerates
<1> HIDE DEF s, k
<1>3. s \in Seq(1..n)
  <2>1. s \in [1..k -> 1..n]
    BY <1>2
  <2> QED
    BY <2>1, <1>2
<1>4. \A i, j \in DOMAIN s : s[i] = s[j] => i = j
  BY <1>2 DEF IsInjective
<1> QED
  BY <1>3, <1>4 DEF s

\* A restart queues what is not listed and drops the attempts.
LEMMA RestartKeeps ==
    ASSUME IngestInv, Restart
    PROVE  IngestInv'
<1>1. /\ census_cmds' = SetToSeq(Unfinished) /\ desc_cmds' = SetToSeq(1..known \ titled)
      /\ jobs' = {} /\ desc_jobs' = {}
      /\ UNCHANGED <<polls, known, valid, voters, titled>>
  BY DEF Restart, censusVars
<1>2. known \in Nat /\ Unfinished \in SUBSET (1..known) /\ 1..known \ titled \in SUBSET (1..known)
  BY DEF IngestInv, TablesOK, Unfinished
<1>3. /\ census_cmds' \in Seq(1..known) /\ desc_cmds' \in Seq(1..known)
      /\ \A i, j \in DOMAIN census_cmds' : census_cmds'[i] = census_cmds'[j] => i = j
  BY <1>1, <1>2, QueueOfSet
<1>4. TablesOK'
  BY <1>1, <1>3 DEF IngestInv, TablesOK, VotersOK
<1>5. QueueOK' /\ JobsOK'
  BY <1>1, <1>3 DEF QueueOK, JobsOK
<1> QED
  BY <1>1, <1>4, <1>5 DEF IngestInv, PollsOK

\* Connections that work again change nothing by themselves.
LEMMA RecoverKeeps ==
    ASSUME IngestInv, Recover \/ UNCHANGED vars
    PROVE  IngestInv'
<1>1. UNCHANGED <<polls, known, valid, voters, titled, census_cmds, desc_cmds, jobs, desc_jobs>>
  BY DEF Recover, vars, censusVars, ingestVars
<1> QED
  BY <1>1 DEF IngestInv, PollsOK, TablesOK, VotersOK, QueueOK, JobsOK, JobOK, JobType, File

\* The head of the queue becomes an attempt and leaves the queue.
LEMMA BeginIngestKeeps ==
    ASSUME IngestInv, BeginIngest
    PROVE  IngestInv'
<1>0. PICK p : p = Head(census_cmds)
  OBVIOUS
<1>1. /\ census_cmds # <<>>
      /\ census_cmds' = Tail(census_cmds)
      /\ jobs' = jobs \/ (valid[p] # TRUE /\ jobs' = jobs \union {Job(p)})
      /\ UNCHANGED <<polls, known, valid, voters, titled, desc_cmds, desc_jobs>>
  BY <1>0 DEF BeginIngest, censusVars
<1>2. census_cmds \in Seq(1..known)
  BY DEF IngestInv, QueueOK
<1>3. /\ p = census_cmds[1] /\ p \in 1..known /\ 1 \in DOMAIN census_cmds
      /\ census_cmds' \in Seq(1..known)
      /\ \A i \in DOMAIN census_cmds' :
            /\ i + 1 \in DOMAIN census_cmds
            /\ census_cmds'[i] = census_cmds[i + 1]
            /\ i \in Nat /\ i + 1 # 1
  <2>1. Len(census_cmds) \in Nat /\ Len(census_cmds) > 0
    BY <1>1, <1>2
  <2>2. p = census_cmds[1] /\ 1 \in DOMAIN census_cmds
    BY <2>1, <1>0, <1>2
  <2>5. p \in 1..known
    <3> DEFINE Q == 1..known
    <3>1. census_cmds \in Seq(Q)
      BY <1>2
    <3> HIDE DEF Q
    <3>2. census_cmds[1] \in Q
      BY <3>1, <2>2
    <3> QED
      BY <3>2, <2>2 DEF Q
  <2>3. census_cmds' \in Seq(1..known) /\ Len(census_cmds') = Len(census_cmds) - 1
    BY <2>1, <1>1, <1>2
  <2>4. ASSUME NEW i \in DOMAIN census_cmds'
        PROVE  /\ i + 1 \in DOMAIN census_cmds
               /\ census_cmds'[i] = census_cmds[i + 1]
               /\ i \in Nat /\ i + 1 # 1
    <3>1. i \in 1..(Len(census_cmds) - 1)
      BY <2>3
    <3> QED
      BY <3>1, <2>1, <1>1, <1>2
  <2> QED
    BY <2>2, <2>3, <2>4, <2>5
<1>4. QueueOK'
  <2>1. \A i, j \in DOMAIN census_cmds' : census_cmds'[i] = census_cmds'[j] => i + 1 = j + 1
    BY <1>3 DEF IngestInv, QueueOK
  <2>2. \A i, j \in DOMAIN census_cmds' : i + 1 = j + 1 => i = j
    BY <1>3
  <2> QED
    BY <2>1, <2>2, <1>1, <1>3 DEF QueueOK
<1>5. \A i \in DOMAIN census_cmds' : census_cmds'[i] # p
  BY <1>3 DEF IngestInv, QueueOK
<1>6. /\ Job(p) \in JobType
      /\ Job(p).poll = p /\ Job(p).pos = 0 /\ Job(p).flushed = 0 /\ ~Job(p).closing
  BY <1>3 DEF Job, JobType
<1>7. \A job \in jobs : job.poll # p
  BY <1>3 DEF IngestInv, JobsOK, JobOK
<1>8. \A job \in jobs : JobOK(job)'
  BY <1>1, <1>3 DEF IngestInv, JobsOK, JobOK, File
<1>9. valid[p] # TRUE => JobOK(Job(p))'
  <2>1. Len(File(Job(p))) \in Nat
    <3>1. p \in 1..Len(polls) /\ polls \in Seq(PollType)
      BY <1>3 DEF IngestInv, PollsOK, TablesOK
    <3>2. polls[p] \in PollType
      BY <3>1
    <3> QED
      BY <3>2, <1>6 DEF PollType, File
  <2> SUFFICES ASSUME valid[p] # TRUE PROVE JobOK(Job(p))'
    OBVIOUS
  <2>0. PICK job : job = Job(p)
    OBVIOUS
  <2>2. /\ job.poll = p /\ job.pos = 0 /\ job.flushed = 0 /\ ~job.closing
        /\ Len(File(job)) \in Nat
    BY <2>0, <2>1, <1>6
  <2>3. File(job)' = File(job)
    BY <1>1 DEF File
  <2>4. /\ job.flushed <= job.pos /\ job.pos <= Len(File(job)')
        /\ 1..job.flushed = {}
    BY <2>2, <2>3
  <2>5. /\ valid'[job.poll] # TRUE
        /\ \A i \in DOMAIN census_cmds' : census_cmds'[i] # job.poll
    BY <2>2, <1>1, <1>5
  <2>6. JobOK(job)'
    BY <2>2, <2>4, <2>5 DEF JobOK
  <2> QED
    BY <2>0, <2>6
<1>10. JobsOK'
  <2> DEFINE new == Job(p)
  <2>1. /\ new \in JobType /\ new.poll = p
        /\ valid[p] # TRUE => JobOK(new)'
        /\ jobs' = jobs \/ (valid[p] # TRUE /\ jobs' = jobs \union {new})
    BY <1>1, <1>6, <1>9
  <2> HIDE DEF new
  <2>2. JobType' = JobType
    BY <1>1 DEF JobType
  <2>3. \A job \in jobs' : JobOK(job)'
    BY <2>1, <1>8
  <2>4. \A a, b \in jobs' : a.poll = b.poll => a = b
    BY <2>1, <1>7 DEF IngestInv, JobsOK
  <2> QED
    BY <2>1, <2>2, <2>3, <2>4 DEF IngestInv, JobsOK
<1>11. TablesOK'
  BY <1>1 DEF IngestInv, TablesOK, VotersOK
<1> QED
  BY <1>1, <1>4, <1>10, <1>11 DEF IngestInv, PollsOK

\* What a step of an attempt may rely on.
LEMMA JobFacts ==
    ASSUME IngestInv, CensusConstants, NEW job \in jobs
    PROVE  /\ job \in JobType /\ JobOK(job)
           /\ job.poll \in 1..known /\ job.poll \in Polls
           /\ File(job) = polls[job.poll].file
           /\ Len(File(job)) \in Nat
           /\ ToSet(File(job)) = {File(job)[i] : i \in 1..Len(File(job))}
           /\ voters[job.poll] \subseteq ToSet(File(job))
<1>1. job \in JobType /\ JobOK(job) /\ job.poll \in 1..known
  BY DEF IngestInv, JobsOK, JobType
<1>2. polls \in Seq(PollType) /\ job.poll \in 1..Len(polls) /\ job.poll \in Polls
  BY <1>1 DEF IngestInv, PollsOK, TablesOK, CensusConstants, Polls
<1>3. polls[job.poll] \in PollType
  BY <1>2
<1>4. File(job) \in Seq(Keys) /\ File(job) = polls[job.poll].file
  BY <1>3 DEF PollType, File
<1>5. Len(File(job)) \in Nat /\ ToSet(File(job)) = {File(job)[i] : i \in 1..Len(File(job))}
  BY <1>4 DEF ToSet
<1>6. voters[job.poll] \subseteq ToSet(File(job))
  BY <1>1, <1>4 DEF IngestInv, TablesOK, VotersOK
<1> QED
  BY <1>1, <1>2, <1>4, <1>5, <1>6

\* The file of an attempt holds keys.
LEMMA JobFilesOfKeys ==
    ASSUME IngestInv, CensusConstants, NEW job \in jobs
    PROVE  ToSet(File(job)) \subseteq Keys
<1>1. job.poll \in 1..Len(polls) /\ polls \in Seq(PollType)
  BY DEF IngestInv, JobsOK, JobType, TablesOK, PollsOK
<1>2. polls[job.poll] \in PollType
  BY <1>1
<1>3. File(job) \in Seq(Keys)
  BY <1>2 DEF PollType, File
<1> QED
  BY <1>3 DEF ToSet

\* Only the row, the voters and the attempt of one poll change.
LEMMA JobStepKeeps ==
    ASSUME IngestInv, CensusConstants, NEW job \in jobs,
           UNCHANGED <<polls, known, titled, census_cmds, desc_cmds, desc_jobs>>,
           valid' \in [Polls -> BOOLEAN \union {Null}],
           voters' \in [Polls -> SUBSET Keys],
           \A p \in Polls : p # job.poll => valid'[p] = valid[p] /\ voters'[p] = voters[p],
           voters[job.poll] \subseteq voters'[job.poll],
           voters'[job.poll] \subseteq ToSet(File(job)),
           valid'[job.poll] = TRUE =>
               voters'[job.poll] = ToSet(File(job)) /\ Len(File(job)) = Expected(job),
           jobs' \subseteq JobType,
           \A a \in jobs' : \/ a \in jobs /\ a # job
                            \/ a.poll = job.poll /\ JobOK(a)',
           \A a, b \in jobs' : a.poll = job.poll /\ b.poll = job.poll => a = b
    PROVE  IngestInv'
<1>1. /\ job \in JobType /\ JobOK(job) /\ job.poll \in 1..known /\ job.poll \in Polls
      /\ File(job) = polls[job.poll].file
  BY JobFacts
<1>2. /\ known \in Nat /\ known <= Len(polls)
      /\ 1..known \subseteq Polls
      /\ polls \in Seq(PollType)
  BY DEF IngestInv, TablesOK, PollsOK, CensusConstants, Polls
<1>3. \A p \in 1..known : VotersOK(p)'
  <2> SUFFICES ASSUME NEW p \in 1..known PROVE VotersOK(p)'
    OBVIOUS
  <2>1. CASE p = job.poll
    BY <2>1, <1>1 DEF VotersOK, Expected
  <2>2. CASE p # job.poll
    BY <2>2, <1>2 DEF IngestInv, TablesOK, VotersOK
  <2> QED
    BY <2>1, <2>2
<1>4. \A p \in Polls : p > known => voters'[p] = {} /\ valid'[p] = Null
  BY <1>1, <1>2 DEF IngestInv, TablesOK
<1>5. TablesOK'
  BY <1>3, <1>4 DEF IngestInv, TablesOK
<1>6. \A other \in jobs : other # job => other.poll \in 1..known /\ other.poll # job.poll
  BY DEF IngestInv, JobsOK, JobType
<1>7. \A other \in jobs : other # job => JobOK(other)'
  <2> SUFFICES ASSUME NEW other \in jobs, other # job PROVE JobOK(other)'
    OBVIOUS
  <2>1. other.poll \in Polls /\ other.poll # job.poll /\ JobOK(other)
    BY <1>2, <1>6 DEF IngestInv, JobsOK
  <2>2. valid'[other.poll] = valid[other.poll] /\ voters'[other.poll] = voters[other.poll]
    BY <2>1
  <2> QED
    BY <2>1, <2>2 DEF JobOK, File
<1>8. JobsOK'
  <2>1. JobType' = JobType
    BY DEF JobType
  <2>2. \A a \in jobs' : JobOK(a)'
    BY <1>7
  <2>3. \A a, b \in jobs' : a.poll = b.poll => a = b
    BY <1>6 DEF IngestInv, JobsOK
  <2> QED
    BY <2>1, <2>2, <2>3 DEF JobsOK
<1> QED
  BY <1>5, <1>8 DEF IngestInv, PollsOK, QueueOK

\* The rows of complete batches end within what was received.
LEMMA CompleteBatches ==
    ASSUME IngestConstants, NEW n \in Nat
    PROVE  n - (n % INSERT_BATCH) \in Nat /\ n - (n % INSERT_BATCH) <= n
<1>1. INSERT_BATCH \in Nat /\ INSERT_BATCH > 0
  BY DEF IngestConstants
<1>2. n % INSERT_BATCH \in Nat /\ n % INSERT_BATCH < INSERT_BATCH
  BY <1>1
<1>3. n % INSERT_BATCH <= n
  BY <1>1, <1>2
<1> QED
  BY <1>2, <1>3

\* An attempt compares the length of its file with the announced count.
LEMMA CheckLengthKeeps ==
    ASSUME IngestInv, CensusConstants, NEW job \in jobs, CheckLength(job)
    PROVE  IngestInv'
<1>1. /\ valid' = [valid EXCEPT ![job.poll] = FALSE]
      /\ UNCHANGED <<polls, known, voters, titled, census_cmds, desc_cmds, jobs, desc_jobs>>
  BY DEF CheckLength, censusVars
<1>2. /\ job \in JobType /\ JobOK(job) /\ job.poll \in 1..known /\ job.poll \in Polls
      /\ voters[job.poll] \subseteq ToSet(File(job))
  BY JobFacts
<1>3. /\ valid \in [Polls -> BOOLEAN \union {Null}] /\ voters \in [Polls -> SUBSET Keys]
      /\ jobs \subseteq JobType /\ \A a, b \in jobs : a.poll = b.poll => a = b
  BY DEF IngestInv, TablesOK, JobsOK
<1>4. /\ valid' \in [Polls -> BOOLEAN \union {Null}] /\ valid'[job.poll] = FALSE
      /\ \A p \in Polls : p # job.poll => valid'[p] = valid[p]
  BY <1>1, <1>2, <1>3
<1>5. JobOK(job)'
  BY <1>1, <1>2, <1>4 DEF JobOK, File
<1>6. /\ voters' \in [Polls -> SUBSET Keys]
      /\ \A p \in Polls : p # job.poll => valid'[p] = valid[p] /\ voters'[p] = voters[p]
      /\ voters[job.poll] \subseteq voters'[job.poll]
      /\ voters'[job.poll] \subseteq ToSet(File(job))
      /\ valid'[job.poll] # TRUE
  BY <1>1, <1>2, <1>3, <1>4
<1>7. /\ jobs' \subseteq JobType
      /\ \A a \in jobs' : \/ a \in jobs /\ a # job
                          \/ a.poll = job.poll /\ JobOK(a)'
      /\ \A a, b \in jobs' : a.poll = job.poll /\ b.poll = job.poll => a = b
  BY <1>1, <1>3, <1>5
<1> QED
  BY <1>1, <1>4, <1>6, <1>7, JobStepKeeps

\* Ending the attempt with the table as it is.
LEMMA EndJobKeeps ==
    ASSUME IngestInv, CensusConstants, NEW job \in jobs,
           UNCHANGED <<polls, known, voters, titled, census_cmds, desc_cmds, desc_jobs>>,
           valid' \in [Polls -> BOOLEAN \union {Null}],
           \A p \in Polls : p # job.poll => valid'[p] = valid[p],
           valid'[job.poll] = TRUE =>
               voters[job.poll] = ToSet(File(job)) /\ Len(File(job)) = Expected(job),
           EndJob(job)
    PROVE  IngestInv'
<1>1. job.poll \in Polls /\ voters[job.poll] \subseteq ToSet(File(job))
  BY JobFacts
<1>2. /\ voters' \in [Polls -> SUBSET Keys]
      /\ jobs \subseteq JobType /\ \A a, b \in jobs : a.poll = b.poll => a = b
  BY DEF IngestInv, TablesOK, JobsOK
<1>3. jobs' = jobs \ {job}
  BY DEF EndJob
<1>4. /\ \A p \in Polls : p # job.poll => valid'[p] = valid[p] /\ voters'[p] = voters[p]
      /\ voters[job.poll] \subseteq voters'[job.poll]
      /\ voters'[job.poll] \subseteq ToSet(File(job))
      /\ valid'[job.poll] = TRUE =>
             voters'[job.poll] = ToSet(File(job)) /\ Len(File(job)) = Expected(job)
  BY <1>1
<1>5. /\ jobs' \subseteq JobType
      /\ \A a \in jobs' : \/ a \in jobs /\ a # job
                          \/ a.poll = job.poll /\ JobOK(a)'
      /\ \A a, b \in jobs' : a.poll = job.poll /\ b.poll = job.poll => a = b
  BY <1>2, <1>3
<1> QED
  BY <1>2, <1>4, <1>5, JobStepKeeps

\* An attempt ends with a verdict on what it inserted.
LEMMA JudgeKeeps ==
    ASSUME IngestInv, CensusConstants, NEW job \in jobs, Judge(job)
    PROVE  IngestInv'
<1>1. /\ job.closing
      /\ valid' = [valid EXCEPT ![job.poll] = (job.pos = Expected(job))]
      /\ EndJob(job)
      /\ UNCHANGED <<polls, known, voters, titled, census_cmds, desc_cmds, desc_jobs>>
  BY DEF Judge, censusVars
<1>2. /\ job.pos = Len(File(job))
      /\ voters[job.poll] = ToSet(File(job))
  <2>1. /\ job.pos = Len(File(job))
        /\ \A i \in 1..job.pos : File(job)[i] \in voters[job.poll]
    BY <1>1, JobFacts DEF JobOK
  <2>2. /\ ToSet(File(job)) = {File(job)[i] : i \in 1..Len(File(job))}
        /\ voters[job.poll] \subseteq ToSet(File(job))
    BY JobFacts
  <2> QED
    BY <2>1, <2>2
<1>3. valid \in [Polls -> BOOLEAN \union {Null}] /\ job.poll \in Polls
  BY JobFacts DEF IngestInv, TablesOK
<1>4. /\ valid' \in [Polls -> BOOLEAN \union {Null}]
      /\ \A p \in Polls : p # job.poll => valid'[p] = valid[p]
      /\ valid'[job.poll] = (job.pos = Expected(job))
  BY <1>1, <1>3
<1>5. valid'[job.poll] = TRUE => Len(File(job)) = Expected(job)
  BY <1>2, <1>4
<1> QED
  BY <1>1, <1>2, <1>4, <1>5, EndJobKeeps

\* A download can break off after any chunk.
LEMMA BreakOffKeeps ==
    ASSUME IngestInv, CensusConstants, NEW job \in jobs, BreakOff(job)
    PROVE  IngestInv'
<1>1. /\ EndJob(job)
      /\ UNCHANGED <<polls, known, valid, voters, titled, census_cmds, desc_cmds, desc_jobs>>
  BY DEF BreakOff, censusVars
<1>2. valid[job.poll] # TRUE
  BY JobFacts DEF JobOK
<1>3. valid \in [Polls -> BOOLEAN \union {Null}]
  BY DEF IngestInv, TablesOK
<1> QED
  BY <1>1, <1>2, <1>3, EndJobKeeps

\* An attempt at the end of its file inserts its last batch.
LEMMA EndOfFileKeeps ==
    ASSUME IngestInv, CensusConstants, NEW job \in jobs, EndOfFile(job)
    PROVE  IngestInv'
<1>1. /\ ~job.closing /\ job.pos = Len(File(job))
      /\ UNCHANGED <<polls, known, titled, census_cmds, desc_cmds, desc_jobs>>
  BY DEF EndOfFile, censusVars
<1>2. /\ valid \in [Polls -> BOOLEAN \union {Null}] /\ voters \in [Polls -> SUBSET Keys]
      /\ jobs \subseteq JobType /\ \A a, b \in jobs : a.poll = b.poll => a = b
  BY DEF IngestInv, TablesOK, JobsOK
<1>3. /\ job \in JobType /\ JobOK(job) /\ job.poll \in Polls
      /\ File(job) = polls[job.poll].file
      /\ Len(File(job)) \in Nat
      /\ ToSet(File(job)) = {File(job)[i] : i \in 1..Len(File(job))}
      /\ voters[job.poll] \subseteq ToSet(File(job))
  BY JobFacts
<1>4. CASE Odd(job)
  <2>1. /\ valid' = [valid EXCEPT ![job.poll] = FALSE]
        /\ EndJob(job)
        /\ UNCHANGED voters
    BY <1>4 DEF EndOfFile
  <2>2. /\ valid' \in [Polls -> BOOLEAN \union {Null}] /\ valid'[job.poll] = FALSE
        /\ \A p \in Polls : p # job.poll => valid'[p] = valid[p]
    BY <2>1, <1>2, <1>3
  <2> QED
    BY <1>1, <2>1, <2>2, EndJobKeeps
<1>5. CASE ~Odd(job)
  <2>1. PICK new : new = [job EXCEPT !.closing = TRUE]
    OBVIOUS
  <2>2. /\ voters' = [voters EXCEPT ![job.poll] =
                        voters[job.poll] \union Leaves(job, job.flushed + 1, job.pos)]
        /\ jobs' = (jobs \ {job}) \union {new}
        /\ UNCHANGED valid
    BY <1>5, <2>1 DEF EndOfFile
  <2>3. /\ job.flushed \in Nat /\ job.pos \in Nat /\ job.flushed <= job.pos
        /\ \A i \in 1..job.flushed : File(job)[i] \in voters[job.poll]
    BY <1>3 DEF JobType, JobOK
  <2>4. /\ Leaves(job, job.flushed + 1, job.pos) \subseteq ToSet(File(job))
        /\ \A i \in 1..job.pos :
              \/ i \in 1..job.flushed
              \/ File(job)[i] \in Leaves(job, job.flushed + 1, job.pos)
    BY <1>1, <1>3, <2>3 DEF Leaves
  <2>5. voters'[job.poll] = voters[job.poll] \union Leaves(job, job.flushed + 1, job.pos)
    BY <2>2, <1>2, <1>3
  <2>6. /\ voters' \in [Polls -> SUBSET Keys]
        /\ \A p \in Polls : p # job.poll => voters'[p] = voters[p]
    <3>1. ToSet(File(job)) \subseteq Keys
      BY JobFilesOfKeys
    <3> QED
      BY <3>1, <2>2, <2>4, <1>2, <1>3
  <2>7. \A i \in 1..job.pos : File(job)[i] \in voters'[job.poll]
    BY <2>3, <2>4, <2>5
  <2>8. /\ new \in JobType /\ new.poll = job.poll /\ new.pos = job.pos
        /\ new.flushed = job.flushed /\ File(new) = File(job)
    BY <2>1, <1>3 DEF JobType, File
  <2>9. JobOK(new)'
    <3>1. File(new)' = File(job)
      BY <1>1, <2>8 DEF File
    <3>2. \A i \in 1..new.flushed : File(new)'[i] \in voters'[new.poll]
      BY <3>1, <2>3, <2>7, <2>8
    <3> QED
      BY <3>1, <3>2, <1>1, <1>3, <2>2, <2>7, <2>8 DEF JobOK
  <2>10. /\ voters[job.poll] \subseteq voters'[job.poll]
         /\ voters'[job.poll] \subseteq ToSet(File(job))
    BY <2>4, <2>5, <1>3
  <2>11. /\ valid' \in [Polls -> BOOLEAN \union {Null}]
         /\ \A p \in Polls : p # job.poll => valid'[p] = valid[p]
         /\ valid'[job.poll] # TRUE
    BY <2>2, <1>2, <1>3 DEF JobOK
  <2>12. /\ jobs' \subseteq JobType
         /\ \A a \in jobs' : \/ a \in jobs /\ a # job
                             \/ a.poll = job.poll /\ JobOK(a)'
         /\ \A a, b \in jobs' : a.poll = job.poll /\ b.poll = job.poll => a = b
    BY <2>2, <2>8, <2>9, <1>2
  <2> QED
    BY <1>1, <2>6, <2>10, <2>11, <2>12, JobStepKeeps
<1> QED
  BY <1>4, <1>5

\* A chunk is inserted in batches behind what was inserted before.
LEMMA ReceiveChunkKeeps ==
    ASSUME IngestInv, CensusConstants, IngestConstants, NEW job \in jobs,
           NEW n \in 1..Len(File(job)), ReceiveChunk(job, n)
    PROVE  IngestInv'
<1>1. /\ ~job.closing /\ job.pos + n <= Len(File(job))
      /\ UNCHANGED <<polls, known, titled, census_cmds, desc_cmds, desc_jobs>>
  BY DEF ReceiveChunk, censusVars
<1>2. /\ valid \in [Polls -> BOOLEAN \union {Null}] /\ voters \in [Polls -> SUBSET Keys]
      /\ jobs \subseteq JobType /\ \A a, b \in jobs : a.poll = b.poll => a = b
  BY DEF IngestInv, TablesOK, JobsOK
<1>3. /\ job \in JobType /\ JobOK(job) /\ job.poll \in Polls
      /\ File(job) = polls[job.poll].file
      /\ Len(File(job)) \in Nat
      /\ ToSet(File(job)) = {File(job)[i] : i \in 1..Len(File(job))}
      /\ voters[job.poll] \subseteq ToSet(File(job))
  BY JobFacts
<1>4. CASE job.flushed + n > Expected(job)
  <2>1. /\ valid' = [valid EXCEPT ![job.poll] = FALSE]
        /\ EndJob(job)
        /\ UNCHANGED voters
    BY <1>4 DEF ReceiveChunk
  <2>2. /\ valid' \in [Polls -> BOOLEAN \union {Null}] /\ valid'[job.poll] = FALSE
        /\ \A p \in Polls : p # job.poll => valid'[p] = valid[p]
    BY <2>1, <1>2, <1>3
  <2> QED
    BY <1>1, <2>1, <2>2, EndJobKeeps
<1>5. CASE ~(job.flushed + n > Expected(job))
  <2>1. PICK pos, done : pos = job.pos + n /\ done = pos - (pos % INSERT_BATCH)
    OBVIOUS
  <2>2. PICK new : new = [job EXCEPT !.pos = pos, !.flushed = done]
    OBVIOUS
  <2>3. /\ voters' = [voters EXCEPT ![job.poll] =
                        voters[job.poll] \union Leaves(job, job.flushed + 1, done)]
        /\ jobs' = (jobs \ {job}) \union {new}
        /\ UNCHANGED valid
    BY <1>5, <2>1, <2>2 DEF ReceiveChunk
  <2>4. /\ job.flushed \in Nat /\ job.pos \in Nat /\ n \in Nat
        /\ \A i \in 1..job.flushed : File(job)[i] \in voters[job.poll]
    BY <1>3 DEF JobType, JobOK
  <2>5. pos \in Nat /\ pos <= Len(File(job)) /\ done \in Nat /\ done <= pos
    <3>1. pos \in Nat /\ pos <= Len(File(job))
      BY <1>1, <1>3, <2>1, <2>4
    <3>2. done \in Nat /\ done <= pos
      BY <3>1, <2>1, CompleteBatches
    <3> QED
      BY <3>1, <3>2
  <2>6. /\ Leaves(job, job.flushed + 1, done) \subseteq ToSet(File(job))
        /\ \A i \in 1..done :
              \/ i \in 1..job.flushed
              \/ File(job)[i] \in Leaves(job, job.flushed + 1, done)
    BY <1>3, <2>4, <2>5 DEF Leaves
  <2>7. voters'[job.poll] = voters[job.poll] \union Leaves(job, job.flushed + 1, done)
    BY <2>3, <1>2, <1>3
  <2>8. /\ voters' \in [Polls -> SUBSET Keys]
        /\ \A p \in Polls : p # job.poll => voters'[p] = voters[p]
    <3>1. ToSet(File(job)) \subseteq Keys
      BY JobFilesOfKeys
    <3> QED
      BY <3>1, <2>3, <2>6, <1>2, <1>3
  <2>9. \A i \in 1..done : File(job)[i] \in voters'[job.poll]
    BY <2>4, <2>6, <2>7
  <2>10. /\ new \in JobType /\ new.poll = job.poll /\ new.pos = pos
         /\ new.flushed = done /\ ~new.closing /\ File(new) = File(job)
    BY <2>2, <2>5, <1>1, <1>3 DEF JobType, File
  <2>11. JobOK(new)'
    <3>1. File(new)' = File(job)
      BY <1>1, <2>10 DEF File
    <3>2. \A i \in 1..new.flushed : File(new)'[i] \in voters'[new.poll]
      BY <3>1, <2>9, <2>10
    <3>3. new.flushed <= new.pos /\ new.pos <= Len(File(new)')
      BY <3>1, <2>5, <2>10
    <3>4. /\ valid'[new.poll] # TRUE
          /\ \A i \in DOMAIN census_cmds' : census_cmds'[i] # new.poll
      BY <1>1, <1>3, <2>3, <2>10 DEF JobOK
    <3> QED
      BY <3>2, <3>3, <3>4, <2>10 DEF JobOK
  <2>12. /\ voters[job.poll] \subseteq voters'[job.poll]
         /\ voters'[job.poll] \subseteq ToSet(File(job))
    BY <2>6, <2>7, <1>3
  <2>13. /\ valid' \in [Polls -> BOOLEAN \union {Null}]
         /\ \A p \in Polls : p # job.poll => valid'[p] = valid[p]
         /\ valid'[job.poll] # TRUE
    BY <2>3, <1>2, <1>3 DEF JobOK
  <2>14. /\ jobs' \subseteq JobType
         /\ \A a \in jobs' : \/ a \in jobs /\ a # job
                             \/ a.poll = job.poll /\ JobOK(a)'
         /\ \A a, b \in jobs' : a.poll = job.poll /\ b.poll = job.poll => a = b
    BY <2>3, <2>10, <2>11, <1>2
  <2> QED
    BY <1>1, <2>8, <2>12, <2>13, <2>14, JobStepKeeps
<1> QED
  BY <1>4, <1>5

\* Descriptions are none of the voters' business.
LEMMA DescriptionKeeps ==
    ASSUME IngestInv, BeginDescription \/ \E p \in desc_jobs : EndDescription(p)
    PROVE  IngestInv'
<1>1. UNCHANGED <<polls, known, valid, voters, census_cmds, jobs>>
  BY DEF BeginDescription, EndDescription, censusVars
<1>2. /\ desc_cmds \in Seq(1..known) /\ desc_jobs \subseteq 1..known /\ titled \subseteq 1..known
      /\ known \in Nat
  BY DEF IngestInv, TablesOK
<1>3. /\ desc_cmds' \in Seq(1..known) /\ desc_jobs' \subseteq 1..known
      /\ titled' \subseteq 1..known
  <2>1. CASE BeginDescription
    <3>1. /\ desc_cmds # <<>> /\ desc_cmds' = Tail(desc_cmds)
          /\ desc_jobs' = desc_jobs \union ({Head(desc_cmds)} \ titled)
          /\ UNCHANGED titled
      BY <2>1 DEF BeginDescription
    <3> DEFINE Q == 1..known
    <3>2. desc_cmds \in Seq(Q) /\ desc_jobs \subseteq Q /\ titled \subseteq Q
      BY <1>2
    <3> HIDE DEF Q
    <3>3. Tail(desc_cmds) \in Seq(Q) /\ Head(desc_cmds) \in Q
      BY <3>1, <3>2
    <3>4. desc_cmds' \in Seq(Q) /\ desc_jobs' \subseteq Q /\ titled' \subseteq Q
      BY <3>1, <3>2, <3>3
    <3> QED
      BY <3>4 DEF Q
  <2>2. ASSUME NEW p \in desc_jobs, EndDescription(p)
        PROVE  <1>3!:
    BY <2>2, <1>2 DEF EndDescription
  <2> QED
    BY <2>1, <2>2
<1>4. TablesOK'
  BY <1>1, <1>3 DEF IngestInv, TablesOK, VotersOK
<1>5. QueueOK'
  BY <1>1 DEF IngestInv, QueueOK
<1>6. JobsOK'
  BY <1>1 DEF IngestInv, JobsOK, JobOK, JobType, File
<1> QED
  BY <1>1, <1>4, <1>5, <1>6 DEF IngestInv, PollsOK

\* Every step of the composition keeps the invariant.
LEMMA IngestStep ==
    ASSUME IngestInv, CensusConstants, IngestConstants, polls' \in Seq(PollType),
           [IngestNext]_vars
    PROVE  IngestInv'
<1>1. CASE known < MaxPolls /\ CensusNext /\ UNCHANGED ingestVars
  BY <1>1, CensusKeeps
<1>2. CASE IndexPoll
  BY <1>2, IndexPollKeeps
<1>3. CASE Restart
  BY <1>3, RestartKeeps
<1>4. CASE Recover \/ UNCHANGED vars
  BY <1>4, RecoverKeeps
<1>5. CASE BeginIngest
  BY <1>5, BeginIngestKeeps
<1>6. ASSUME NEW job \in jobs, CheckLength(job) \/ JobStep(job)
      PROVE  IngestInv'
  BY <1>6, CheckLengthKeeps, ReceiveChunkKeeps, EndOfFileKeeps, JudgeKeeps,
     BreakOffKeeps DEF JobStep
<1>7. CASE BeginDescription \/ \E p \in desc_jobs : EndDescription(p)
  BY <1>7, DescriptionKeeps
<1> QED
  BY <1>1, <1>2, <1>3, <1>4, <1>5, <1>6, <1>7 DEF IngestNext

-----------------------------------------------------------------------------
(* Theorems *)

\* IngestInv and CensusInv hold in every state of the composition.
THEOREM IngestInvariant == IngestSpec => [](IngestInv /\ CensusInv)
<1>1. IngestSpec => []CensusInv
  BY IngestImplementsCensus, CensusInvariant, PTL
<1>2. IngestInit => IngestInv
  BY IngestInitInv, CensusConstants, IngestConstants
<1>3. IngestInv /\ CensusInv' /\ [IngestNext]_vars => IngestInv'
  <2>1. CensusInv' => polls' \in Seq(PollType)
    BY DEF CensusInv, PageInv
  <2> QED
    BY <2>1, IngestStep, CensusConstants, IngestConstants
<1> QED
  BY <1>1, <1>2, <1>3, PTL DEF IngestSpec

\* Tables, queues and attempts keep their shapes, and a poll has one attempt at
\* a time (CensusManager, 001_init.sql).
THEOREM IngestTypes == IngestSpec => []IngestTypeOK
<1>1. IngestInv => IngestTypeOK
  <2> SUFFICES ASSUME IngestInv PROVE IngestTypeOK
    OBVIOUS
  <2>1. known \in 0..Len(polls)
    BY DEF IngestInv, PollsOK, TablesOK
  <2> QED
    BY <2>1 DEF IngestInv, TablesOK, JobsOK, JobOK, IngestTypeOK
<1> QED
  BY <1>1, IngestInvariant, PTL

\* Whatever downloads broke and however often the process stopped, a listed
\* poll has exactly the voters of its file, as many as announced, and those of
\* a census have an invitation each (ingest, insert_leaves_batch, claim_member).
THEOREM ListedPollsHaveTheirVoters == IngestSpec => []ListedPollHasItsVoters
<1>1. IngestInv /\ CensusInv => ListedPollHasItsVoters
  <2> SUFFICES ASSUME IngestInv, CensusInv, NEW p \in 1..known, Listed(p)
               PROVE  /\ voters[p] = ToSet(polls[p].file)
                      /\ Len(polls[p].file) = polls[p].n_voters
                      /\ polls[p].from \in Censuses =>
                            \E invitation \in [voters[p] -> 1..last_id] :
                               /\ IsInjective(invitation)
                               /\ \A k \in voters[p] :
                                    [id |-> invitation[k], census |-> polls[p].from, pub |-> k]
                                      \in claims
    BY DEF ListedPollHasItsVoters
  <2>1. /\ voters[p] = ToSet(polls[p].file)
        /\ Len(polls[p].file) = polls[p].n_voters
    BY DEF Listed, IngestInv, TablesOK, VotersOK
  <2>2. ASSUME polls[p].from \in Censuses
        PROVE  \E invitation \in [voters[p] -> 1..last_id] :
                  /\ IsInjective(invitation)
                  /\ \A k \in voters[p] :
                       [id |-> invitation[k], census |-> polls[p].from, pub |-> k]
                         \in claims
    <3>1. p \in DOMAIN polls
      BY DEF IngestInv, PollsOK, TablesOK
    <3>2. Good(polls[p].from, polls[p].file)
      BY <3>1 DEF CensusInv, PageInv
    <3>3. \A k \in voters[p] : \E claim \in claims :
             claim.census = polls[p].from /\ claim.pub = k
      BY <2>1, <2>2, <3>2 DEF Good, ToSet
    <3> DEFINE invitation == [k \in voters[p] |->
                 (CHOOSE claim \in claims :
                     claim.census = polls[p].from /\ claim.pub = k).id]
    <3>4. ASSUME NEW k \in voters[p]
          PROVE  \E claim \in claims : /\ claim.census = polls[p].from
                                       /\ claim.pub = k
                                       /\ invitation[k] = claim.id
      BY <3>3
    <3>5. DOMAIN invitation = voters[p] /\ invitation = [k \in voters[p] |-> invitation[k]]
      OBVIOUS
    <3> HIDE DEF invitation
    <3>6. \A claim \in claims :
             /\ claim.id \in 1..last_id
             /\ claim = [id |-> claim.id, census |-> claim.census, pub |-> claim.pub]
      BY DEF CensusInv, ServiceInv
    <3>7. \A k \in voters[p] :
             [id |-> invitation[k], census |-> polls[p].from, pub |-> k] \in claims
      <4> TAKE k \in voters[p]
      <4>1. PICK claim \in claims : /\ claim.census = polls[p].from
                                    /\ claim.pub = k
                                    /\ invitation[k] = claim.id
        BY <3>4
      <4>2. claim = [id |-> invitation[k], census |-> polls[p].from, pub |-> k]
        BY <4>1, <3>6
      <4> QED
        BY <4>2
    <3>8. invitation \in [voters[p] -> 1..last_id]
      <4>1. \A k \in voters[p] : invitation[k] \in 1..last_id
        BY <3>4, <3>6
      <4> QED
        BY <4>1, <3>5
    <3>9. IsInjective(invitation)
      <4> SUFFICES ASSUME NEW a \in voters[p], NEW b \in voters[p],
                          invitation[a] = invitation[b]
                   PROVE  a = b
        BY <3>5 DEF IsInjective
      <4>1. PICK ca \in claims : ca.pub = a /\ ca.id = invitation[a]
        BY <3>4
      <4>2. PICK cb \in claims : cb.pub = b /\ cb.id = invitation[b]
        BY <3>4
      <4>3. ca = cb
        BY <4>1, <4>2 DEF CensusInv, ServiceInv
      <4> QED
        BY <4>1, <4>2, <4>3
    <3> QED
      BY <3>7, <3>8, <3>9
  <2> QED
    BY <2>1, <2>2
<1> QED
  BY <1>1, IngestInvariant, PTL

\* A poll that was listed stays listed, with the same voters: no attempt
\* outlives a verdict, and none is made for a valid census (ingest,
\* enqueue_unfinished).
THEOREM ListingsAreFinal == IngestSpec => ListingIsFinal
<1>1. IngestInv /\ CensusInv /\ [IngestNext]_vars =>
        [\A p \in 1..known : Listed(p) => Listed(p)' /\ voters'[p] = voters[p]]_vars
  <2> SUFFICES ASSUME IngestInv, IngestNext, NEW p \in 1..known, Listed(p)
               PROVE  Listed(p)' /\ voters'[p] = voters[p]
    OBVIOUS
  <2>1. p \in titled /\ valid[p] = TRUE /\ p \in Polls
    <3>1. p \in Polls
      <4>1. known \in Nat /\ known <= Len(polls) /\ polls \in Seq(PollType)
            /\ Len(polls) <= MaxPolls /\ MaxPolls \in Nat
        BY CensusConstants DEF IngestInv, TablesOK, PollsOK, CensusConstants
      <4> QED
        BY <4>1 DEF Polls
    <3> QED
      BY <3>1 DEF Listed
  <2>2. titled \subseteq titled'
    BY DEF IngestNext, IndexPoll, Restart, Recover, BeginIngest, CheckLength, JobStep,
           ReceiveChunk, EndOfFile, Judge, BreakOff, BeginDescription, EndDescription,
           ingestVars
  <2>3. valid'[p] = valid[p] /\ voters'[p] = voters[p]
    <3>1. CASE UNCHANGED <<valid, voters>>
      BY <3>1
    <3>2. ASSUME NEW job \in jobs, CheckLength(job) \/ JobStep(job)
          PROVE  valid'[p] = valid[p] /\ voters'[p] = voters[p]
      <4>1. job.poll # p
        BY <2>1 DEF IngestInv, JobsOK, JobOK
      <4>2. \A q \in Polls : q # job.poll => valid'[q] = valid[q] /\ voters'[q] = voters[q]
        BY <3>2 DEF CheckLength, JobStep, ReceiveChunk, EndOfFile, Judge, BreakOff,
                    IngestInv, TablesOK
      <4> QED
        BY <4>1, <4>2, <2>1
    <3>3. CASE \/ known < MaxPolls /\ CensusNext /\ UNCHANGED ingestVars
               \/ IndexPoll \/ Restart \/ Recover \/ BeginIngest \/ BeginDescription
               \/ \E q \in desc_jobs : EndDescription(q)
      <4>1. UNCHANGED <<valid, voters>>
        BY <3>3 DEF ingestVars, IndexPoll, Restart, Recover, BeginIngest,
                    BeginDescription, EndDescription
      <4> QED
        BY <4>1
    <3> QED
      BY <3>2, <3>3 DEF IngestNext
  <2> QED
    BY <2>1, <2>2, <2>3 DEF Listed
<1> QED
  BY <1>1, IngestInvariant, PTL DEF IngestSpec, ListingIsFinal
=============================================================================
