-------------------------------- MODULE Census --------------------------------
(***************************************************************************)
(* Where the voters of a poll come from: the census service with its       *)
(* invitations, and the page that turns a census, or a file, into a poll.  *)
(* Every handler of the service checks the creator, who never changes, and *)
(* then makes one statement or one database transaction: it is one step.   *)
(* Requests the service refuses change nothing and are left out. A token   *)
(* is random and is told apart by the id of the member it was made for.    *)
(***************************************************************************)
EXTENDS Naturals, Sequences, FiniteSets, SequencesExt

CONSTANTS
    Keys,         \* public keys of ZK accounts, and the leaves made of them
    Null,         \* SQL NULL, an absent form value
    Censuses,     \* ids of censuses
    Organizers,   \* accounts that create censuses
    UploadFiles,  \* census files that do not come from the service
    ForeignPolls, \* polls created without the page
    MaxMembers,   \* bound: members ever added
    MaxReading,   \* bound: files being read at a time
    MaxPolls      \* bound: polls created

\* A poll as far as its census goes: what the chain stores, the file behind
\* census_url with a remainder of less than 32 bytes or not, the description
\* behind description_url; from: the census, Null for a file, or 0.
PollFrom(from, root, n_voters, file, remainder, description) ==
    [from |-> from, root |-> root, n_voters |-> n_voters, file |-> file,
     remainder |-> remainder, description |-> description]

\* The descriptions the indexer accepts, refuses, and cannot parse.
Descriptions == {"good", "refused", "malformed"}

PollType ==
    [from : Censuses \union {Null, 0}, root : Seq(Keys), n_voters : Nat,
     file : Seq(Keys), remainder : BOOLEAN, description : Descriptions]

ASSUME CensusConstants ==
    /\ Null \notin Keys \union Censuses \union {0}
    /\ 0 \notin Censuses
    /\ Organizers \subseteq Keys
    /\ UploadFiles \subseteq Seq(Keys)
    /\ ForeignPolls \subseteq {p \in PollType : p.from = 0}
    /\ MaxMembers \in Nat /\ MaxReading \in Nat /\ MaxPolls \in Nat

VARIABLES
    creators,   \* censuses: creator of each, Null if there is none
    members,    \* census_members
    last_id,    \* its BIGSERIAL
    claims,     \* history: successful claims
    reading,    \* census files whose root the page is computing
    form,       \* censusBytes, censusCount, censusRootHex; Null before
    submitting, \* what onSubmit was called with, Null when it is not running
    polls       \* polls on the chain

serviceVars == <<creators, members, last_id, claims>>
pageVars == <<reading, form, submitting>>
censusVars == <<creators, members, last_id, claims, reading, form, submitting, polls>>

CensusInit ==
    /\ creators = [c \in Censuses |-> Null]
    /\ members = {}
    /\ last_id = 0
    /\ claims = {}
    /\ reading = {}
    /\ form = Null
    /\ submitting = Null
    /\ polls = <<>>

-----------------------------------------------------------------------------
(* census-service *)

Invited(id, c) == [id |-> id, census |-> c, pub |-> Null, invite |-> TRUE]

\* The census and its first members in one database transaction.
CreateCensus(actor, c, n) ==
    /\ creators[c] = Null
    /\ last_id + n <= MaxMembers
    /\ creators' = [creators EXCEPT ![c] = actor]
    /\ members' = members \union {Invited(last_id + i, c) : i \in 1..n}
    /\ last_id' = last_id + n
    /\ UNCHANGED <<claims, pageVars, polls>>

AddMember(actor, c) ==
    /\ creators[c] = actor
    /\ last_id < MaxMembers
    /\ members' = members \union {Invited(last_id + 1, c)}
    /\ last_id' = last_id + 1
    /\ UNCHANGED <<creators, claims, pageVars, polls>>

RemoveMember(actor, m) ==
    /\ m \in members
    /\ creators[m.census] = actor
    /\ members' = members \ {m}
    /\ UNCHANGED <<creators, last_id, claims, pageVars, polls>>

Bound(m, key) == [m EXCEPT !.pub = key, !.invite = FALSE]

\* Faulty variant: the invitation survives its use, and moves the seat.
ClaimMemberAgain(key, m) ==
    /\ m \in members
    /\ m.invite
    /\ ~\E other \in members : other.census = m.census /\ other.pub = key
    /\ members' = (members \ {m}) \union {[m EXCEPT !.pub = key]}
    /\ claims' = claims \union {[id |-> m.id, census |-> m.census, pub |-> key]}
    /\ UNCHANGED <<creators, last_id, pageVars, polls>>

\* Faulty variant: without uq_census_key.
ClaimMemberTwice(key, m) ==
    /\ m \in members
    /\ m.invite /\ m.pub = Null
    /\ members' = (members \ {m}) \union {Bound(m, key)}
    /\ claims' = claims \union {[id |-> m.id, census |-> m.census, pub |-> key]}
    /\ UNCHANGED <<creators, last_id, pageVars, polls>>

\* UPDATE ... WHERE invite = token AND pub_x IS NULL, under uq_census_key.
ClaimMember(key, m) ==
    /\ m \in members
    /\ m.invite /\ m.pub = Null
    /\ ~\E other \in members : other.census = m.census /\ other.pub = key
    /\ members' = (members \ {m}) \union {Bound(m, key)}
    /\ claims' = claims \union {[id |-> m.id, census |-> m.census, pub |-> key]}
    /\ UNCHANGED <<creators, last_id, pageVars, polls>>

Joined(c) == {m \in members : m.census = c /\ m.pub # Null}

\* The keys of the members who joined, in a fixed order (of their ids).
Export(c) ==
    LET rows == SetToSeq(Joined(c)) IN [i \in 1..Len(rows) |-> rows[i].pub]

-----------------------------------------------------------------------------
(* PollCreatePage *)

Source(from, file) == [from |-> from, file |-> file]

\* Bound: no handler is started after the last poll.
MoreReading == Cardinality(reading) < MaxReading /\ Len(polls) < MaxPolls

\* handlePickExisting up to the computation of the root.
PickExisting(actor, c) ==
    /\ creators[c] = actor
    /\ Export(c) # <<>>
    /\ MoreReading
    /\ reading' = reading \union {Source(c, Export(c))}
    /\ UNCHANGED <<serviceVars, form, submitting, polls>>

\* onCensusFile, likewise.
ReadFile(file) ==
    /\ MoreReading
    /\ reading' = reading \union {Source(Null, file)}
    /\ UNCHANGED <<serviceVars, form, submitting, polls>>

\* Faulty variant: the bytes of the first file stay in the form.
FilledKeepingBytes(source) ==
    [from |-> source.from, count |-> Len(source.file), root |-> source.file,
     bytes |-> IF form = Null THEN source.file ELSE form.bytes]

Filled(source) ==
    [from |-> source.from, bytes |-> source.file, count |-> Len(source.file),
     root |-> source.file]

\* The setValue calls at the end of either handler.
FillForm(source) ==
    /\ source \in reading
    /\ reading' = reading \ {source}
    /\ form' = Filled(source)
    /\ UNCHANGED <<serviceVars, submitting, polls>>

\* onSubmit gets a copy of the form. The page refuses an empty census; it
\* accepts titles and choices that the indexer will not.
Submit(description) ==
    /\ form # Null
    /\ form.count > 0
    /\ submitting = Null
    /\ Len(polls) < MaxPolls
    /\ submitting' = PollFrom(form.from, form.root, form.count, form.bytes,
                              FALSE, description)
    /\ UNCHANGED <<serviceVars, reading, form, polls>>

\* The files are uploaded, the transaction is sent and executed; nobody waits
\* for that.
CreatePoll ==
    /\ submitting # Null
    /\ Len(polls) < MaxPolls
    /\ polls' = Append(polls, submitting)
    /\ submitting' = Null
    /\ UNCHANGED <<serviceVars, reading, form>>

\* An upload fails, the wallet refuses, or the transaction is lost.
Abandon ==
    /\ submitting # Null
    /\ submitting' = Null
    /\ UNCHANGED <<serviceVars, reading, form, polls>>

\* create_poll sent by another program: the chain believes any root and count.
CreateForeignPoll(p) ==
    /\ Len(polls) < MaxPolls
    /\ polls' = Append(polls, p)
    /\ UNCHANGED <<serviceVars, pageVars>>

-----------------------------------------------------------------------------

CensusNext ==
    \/ \E actor \in Organizers, c \in Censuses :
          \/ \E n \in 0..MaxMembers : CreateCensus(actor, c, n)
          \/ AddMember(actor, c)
          \/ PickExisting(actor, c)
    \/ \E actor \in Organizers, m \in members : RemoveMember(actor, m)
    \/ \E key \in Keys, m \in members : ClaimMember(key, m)
    \/ \E file \in UploadFiles : ReadFile(file)
    \/ \E source \in reading : FillForm(source)
    \/ \E description \in Descriptions \ {"malformed"} : Submit(description)
    \/ CreatePoll
    \/ Abandon
    \/ \E p \in ForeignPolls : CreateForeignPoll(p)

CensusSpec == CensusInit /\ [][CensusNext]_censusVars

-----------------------------------------------------------------------------
(* Properties *)

MemberType ==
    [id : Nat, census : Censuses, pub : Keys \union {Null}, invite : BOOLEAN]

SourceType == [from : Censuses \union {Null}, file : Seq(Keys)]

FormType ==
    [from : Censuses \union {Null}, bytes : Seq(Keys), count : Nat, root : Seq(Keys)]

\* Tables, form and polls have their shapes, the ids of members are given once
\* (001_init.sql, schema of PollCreatePage).
CensusTypeOK ==
    /\ creators \in [Censuses -> Keys \union {Null}]
    /\ members \subseteq MemberType
    /\ last_id \in Nat
    /\ \A m \in members \union claims : m.id <= last_id
    /\ \A a, b \in members : a.id = b.id => a = b
    /\ claims \subseteq [id : Nat, census : Censuses, pub : Keys]
    /\ reading \subseteq SourceType
    /\ form \in FormType \union {Null}
    /\ submitting \in PollType \union {Null}
    /\ polls \in Seq(PollType)

\* Whatever claims, removals and new invitations come in between, one
\* invitation admits at most one key, ever, and whoever sits in a census has
\* used an invitation to it (claim_member, remove_member).
InvitationAdmitsOne ==
    /\ \A a, b \in claims : a.id = b.id => a = b
    /\ \A m \in members : m.pub # Null =>
          [id |-> m.id, census |-> m.census, pub |-> m.pub] \in claims

\* All census files the page holds or made a poll of.
CensusFiles ==
    reading \union {Source(form.from, form.bytes) : f \in {form} \ {Null}}
            \union {Source(s.from, s.file) : s \in {submitting} \ {Null}}
            \union {Source(polls[i].from, polls[i].file) : i \in DOMAIN polls}

\* A census of the service enters a poll, however late, with no key twice and
\* only with keys of invited members, so that n_voters, which the deposit is
\* computed from, counts voters (export_census, handlePickExisting).
CensusCountsVoters ==
    \A s \in CensusFiles : s.from \in Censuses =>
        /\ IsInjective(s.file)
        /\ \A i \in DOMAIN s.file : \E claim \in claims :
              claim.census = s.from /\ claim.pub = s.file[i]

\* Two handlers may be reading two files while a third poll is submitted: the
\* root, the count and the file of a poll of this page belong together
\* (onCensusFile, handlePickExisting, onSubmit).
PollOfOneFile ==
    \A i \in DOMAIN polls : polls[i].from # 0 =>
        /\ polls[i].root = polls[i].file
        /\ polls[i].n_voters = Len(polls[i].file)
=============================================================================
