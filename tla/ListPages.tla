------------------------------ MODULE ListPages ------------------------------
(***************************************************************************)
(* The pages that walk through a list of the indexer or of the census      *)
(* service with the buttons "previous" and "next": PollListPage,           *)
(* CensusesListPage, ChooseCensusModal and CensusDetailPage.  Each keeps a *)
(* stack of cursors and asks for the rows behind one of them; the answers  *)
(* come in any order and carry nothing that tells them apart, while rows   *)
(* come and go and the account of the keyring changes.                     *)
(*                                                                         *)
(* A row is its place in the order of the list, counted from 1: polls and  *)
(* censuses by descending, members by ascending id.  Cursor 0 is null.     *)
(***************************************************************************)
EXTENDS Naturals, Sequences, FiniteSets, FiniteSetsExt, SequencesExt

CONSTANTS
    Places,    \* bound: rows of a list
    Accounts,  \* accounts of the keyring
    NoAccount, \* an unlocked keyring without accounts
    Creator,   \* the account that created the census of CensusDetailPage
    Filters,   \* roles and statuses of PollListPage
    AllRows,   \* "all roles", "all statuses"
    Sees,      \* the rows that the server gives an account under a filter
    LIMIT,     \* POLLS_PAGE_LIMIT, CENSUS_PAGE_LIMIT, MEMBER_PAGE_LIMIT
    Null,      \* null
    MaxLoads   \* bound: requests sent, and clicks on "next" in a row

ASSUME ListConstants ==
    /\ Places \subseteq Nat \ {0} /\ IsFiniteSet(Places)
    /\ Creator \in Accounts /\ NoAccount \notin Accounts
    /\ AllRows \in Filters
    /\ Sees \in [Accounts -> [Filters -> SUBSET Places]]
    /\ LIMIT \in Nat \ {0} /\ MaxLoads \in Nat

ListKinds == {"polls", "censuses", "modal", "members"}

VARIABLES
    at,       \* which of the pages this is
    mounted,  \* whether its effects have run
    rows,     \* the rows of the table
    account,  \* KR.accounts[KR.active]
    filter,   \* role and status
    before,   \* the cursor asked for last (state of PollListPage and the modal)
    stack,    \* stack, cursorStack
    page,     \* page, list: rows, whether there are more, and their request
    loading,  \* loading
    requests, \* requests under way, with their answers
    adding,   \* the page that onAddMember saw when it was called, or Null
    removing, \* row, page and stack that onRemoveMember saw, or Null
    loads,    \* requests sent so far
    seen,     \* history: rows shown, for which account and filter
    steady,   \* history: rows that were there all the time
    strayed   \* history: see Stray

place == <<at, mounted>>
handlers == <<adding, removing>>
listVars == <<place, rows, account, filter, before, stack, page, loading, requests,
              handlers, loads, seen, steady, strayed>>

ListInit ==
    /\ at \in ListKinds
    /\ mounted = FALSE
    /\ rows \in SUBSET Places
    /\ account \in Accounts \union {NoAccount}
    /\ filter = AllRows
    /\ before = 0 /\ stack = <<>>
    /\ page = Null
    /\ loading = FALSE
    /\ requests = {}
    /\ adding = Null /\ removing = Null
    /\ loads = 0
    /\ seen = {} /\ steady = rows
    /\ strayed = FALSE

-----------------------------------------------------------------------------
(* The servers *)

\* Faulty variant: the row after the cursor is passed over, too.
BehindTooFar(table, cursor) ==
    {p \in table : IF cursor = 0 THEN TRUE ELSE p > cursor + 1}

\* id < before, id >= after + 1.
Behind(table, cursor) == {p \in table : p > cursor}

FirstOf(ps) == {p \in ps : Cardinality({q \in ps : q <= p}) <= LIMIT}

\* list_polls, list_censuses and list_members ask for one row more than they
\* return to know whether there are more.
Answer(request, table) ==
    LET visible == IF at = "members" THEN table
                   ELSE table \intersect Sees[request.account][request.filter]
        ps      == Behind(visible, request.cursor)
    IN  [items |-> FirstOf(ps), more |-> Cardinality(ps) > LIMIT, of |-> request]

\* The last row shown, which is also what the servers return as next_before.
NextCursor(p) == Max(p.items)

\* Rows are created and validated, members are added, removed and join.  What
\* happens after the last request is seen by none.
Appear(p) ==
    /\ mounted /\ loads < MaxLoads
    /\ p \in Places \ rows
    /\ rows' = rows \union {p}
    /\ UNCHANGED <<place, account, filter, before, stack, page, loading, requests,
                   handlers, loads, seen, steady, strayed>>

Vanish(p) ==
    /\ mounted /\ loads < MaxLoads
    /\ p \in rows
    /\ rows' = rows \ {p}
    /\ steady' = steady \ {p}
    /\ UNCHANGED <<place, account, filter, before, stack, page, loading, requests,
                   handlers, loads, seen, strayed>>

-----------------------------------------------------------------------------
(* load *)

Top(s) == IF s = <<>> THEN 0 ELSE Last(s)

\* A request by an account; the answer is that of the table at this moment,
\* and may be under way for long.  `shown' is the page until then.
Load(cursor, a, f, table, shown) ==
    /\ before' = cursor
    /\ IF a = NoAccount
       THEN /\ page' = IF at \in {"polls", "censuses"} THEN Null ELSE shown
            /\ loading' = FALSE
            /\ UNCHANGED <<requests, loads>>
       ELSE /\ loads < MaxLoads
            /\ loads' = loads + 1
            /\ requests' = requests \union
                 {Answer([n |-> loads', cursor |-> cursor, account |-> a,
                          filter |-> f], table)}
            /\ page' = shown
            /\ loading' = TRUE

\* An effect with `before' among its dependencies: nothing when it is unchanged.
LoadIfMoved(cursor) ==
    IF cursor = before
    THEN UNCHANGED <<before, page, loading, requests, loads>>
    ELSE Load(cursor, account, filter, rows, page)

Shown(request, items) == {<<request.account, request.filter>>} \X items

Mount ==
    /\ ~mounted
    /\ mounted' = TRUE
    /\ Load(0, account, filter, rows, Null)
    /\ UNCHANGED <<at, rows, account, filter, stack, handlers, seen, steady, strayed>>

\* setPage and, at last, setLoading(false), whatever was asked for since.
\* Strayed: a page is shown that was not asked for last.
Deliver(r) ==
    /\ r \in requests
    /\ page' = r
    /\ loading' = FALSE
    /\ requests' = requests \ {r}
    /\ seen' = seen \union Shown(r.of, r.items)
    /\ strayed' = (strayed \/ r.of.n # loads)
    /\ UNCHANGED <<place, rows, account, filter, before, stack, handlers, loads, steady>>

\* An error of the network or of the server, which also refuses those who are
\* neither the creator of the census nor have joined it: the old page stays.
Fail(r) ==
    /\ r \in requests
    /\ loading' = FALSE
    /\ requests' = requests \ {r}
    /\ UNCHANGED <<place, rows, account, filter, before, stack, page, handlers,
                   loads, seen, steady, strayed>>

-----------------------------------------------------------------------------
(* The controls *)

\* Faulty variant: the stack is not reset.
FilterOnly(f) ==
    /\ at = "polls" /\ mounted
    /\ filter' = f
    /\ IF f = filter THEN LoadIfMoved(0) ELSE Load(0, account, f, rows, page)
    /\ UNCHANGED <<place, rows, account, stack, handlers, seen, steady, strayed>>

\* setRole or setStatus, with reset.
SetFilter(f) ==
    /\ at = "polls" /\ mounted
    /\ filter' = f
    /\ stack' = <<>>
    /\ IF f = filter THEN LoadIfMoved(0) ELSE Load(0, account, f, rows, page)
    /\ UNCHANGED <<place, rows, account, handlers, seen, steady, strayed>>

\* Another account is used, or the list of accounts is written: the pages load
\* again.  Strayed: PollListPage and the modal ask for the new account's rows
\* behind the old one's cursor, CensusDetailPage forgets its cursor and keeps
\* its stack.
SwitchAccount(a) ==
    /\ mounted
    /\ account' = a
    /\ IF at \in {"polls", "modal"}
       THEN Load(before, a, filter, rows, page)
       ELSE Load(0, a, filter, rows, Null)
    /\ stack' = IF at = "censuses" THEN <<>> ELSE stack
    /\ strayed' = (strayed \/ CASE at = "members" -> stack # <<>>
                                [] at = "censuses" -> FALSE
                                [] OTHER -> a # account /\ before # 0)
    /\ UNCHANGED <<place, rows, filter, handlers, seen, steady>>

\* canNext.  Only the modal's button works while it is loading.
CanNext ==
    /\ mounted
    /\ page # Null /\ page.more
    /\ at # "modal" => ~loading

CanPrev ==
    /\ mounted
    /\ stack # <<>>
    /\ at # "modal" => ~loading

\* PollListPage pushes the cursor it leaves, the others the one they go to,
\* also where the page shown is behind `before' and nothing is loaded.
\* Strayed: the page of another account or filter stays until an answer comes.
Next ==
    /\ CanNext
    /\ Len(stack) < MaxLoads
    /\ LET cursor == NextCursor(page)
       IN  /\ stack' = Append(stack, IF at = "polls" THEN before ELSE cursor)
           /\ IF at \in {"polls", "modal"} THEN LoadIfMoved(cursor)
              ELSE Load(cursor, account, filter, rows, page)
    /\ strayed' = (strayed \/ page.of.account # account \/ page.of.filter # filter)
    /\ UNCHANGED <<place, rows, account, filter, handlers, seen, steady>>

Prev ==
    /\ CanPrev
    /\ stack' = Front(stack)
    /\ CASE at = "polls" -> LoadIfMoved(Last(stack))
         [] at = "modal" -> LoadIfMoved(Top(stack'))
         [] OTHER -> Load(Top(stack'), account, filter, rows, page)
    /\ UNCHANGED <<place, rows, account, filter, handlers, seen, steady, strayed>>

-----------------------------------------------------------------------------
(* The members of a census *)

\* The creator's forms, shown with a page that came for her (is_creator): both
\* handlers go on with the page and the stack they saw.  What another account
\* sends from a late page of hers is refused and changes nothing.
Editable ==
    /\ at = "members" /\ page # Null /\ ~loading
    /\ page.of.account = Creator /\ account = Creator

ClickAdd ==
    /\ Editable
    /\ adding = Null
    /\ adding' = page
    /\ UNCHANGED <<place, rows, account, filter, before, stack, page, loading,
                   requests, removing, loads, seen, steady, strayed>>

\* The new member, with the greatest id, is put on a page that has room.
WithMember(p, row) ==
    IF Cardinality(p.items) < LIMIT
    THEN [p EXCEPT !.items = @ \union {row}]
    ELSE [p EXCEPT !.more = TRUE]

\* onAddMember is answered.  Strayed: its page is not the one shown by now.
Added(row) ==
    /\ adding # Null
    /\ row \in Places
    /\ \A p \in rows \union adding.items \union UNION {r.items : r \in requests} :
          p < row
    /\ rows' = rows \union {row}
    /\ adding' = Null
    /\ IF WithMember(adding, row) = adding
       THEN UNCHANGED <<page, removing, seen, strayed>>
       ELSE /\ page' = WithMember(adding, row)
            /\ removing' = IF removing # Null /\ removing.page = adding
                           THEN [removing EXCEPT !.page = page'] ELSE removing
            /\ seen' = seen \union Shown(adding.of, {row})
            /\ strayed' = (strayed \/ page # adding)
    /\ UNCHANGED <<place, account, filter, before, stack, loading, requests, loads,
                   steady>>

ClickRemove(row) ==
    /\ Editable
    /\ removing = Null
    /\ row \in page.items
    /\ removing' = [row |-> row, page |-> page, stack |-> stack]
    /\ UNCHANGED <<place, rows, account, filter, before, stack, page, loading,
                   requests, adding, loads, seen, steady, strayed>>

\* onRemoveMember is answered: the page is loaded again, or the one before it
\* if it was the last member, for the account that clicked.  Strayed: the user
\* has gone on in between, or uses another account and gets the creator's page.
MemberRemoved ==
    /\ removing # Null
    /\ rows' = rows \ {removing.row}
    /\ steady' = steady \ {removing.row}
    /\ stack' = IF removing.page.items # {removing.row} THEN stack
                ELSE IF removing.stack = <<>> THEN <<>> ELSE Front(removing.stack)
    /\ Load(Top(IF removing.page.items # {removing.row} THEN removing.stack ELSE stack'),
            Creator, filter, rows', page)
    /\ removing' = Null
    /\ strayed' = (strayed \/ stack # removing.stack \/ account # Creator)
    /\ UNCHANGED <<place, account, filter, adding, seen>>

\* One of the two is refused, or its answer is lost.
HandlerFails ==
    /\ \/ adding # Null /\ adding' = Null /\ UNCHANGED removing
       \/ removing # Null /\ removing' = Null /\ UNCHANGED adding
    /\ UNCHANGED <<place, rows, account, filter, before, stack, page, loading,
                   requests, loads, seen, steady, strayed>>

-----------------------------------------------------------------------------

ListNext ==
    \/ Mount
    \/ \E p \in Places : Appear(p) \/ Vanish(p)
    \/ \E r \in requests : Deliver(r) \/ Fail(r)
    \/ \E f \in Filters : SetFilter(f)
    \/ \E a \in Accounts \union {NoAccount} : SwitchAccount(a)
    \/ Next
    \/ Prev
    \/ ClickAdd
    \/ \E row \in Places : Added(row) \/ ClickRemove(row)
    \/ MemberRemoved
    \/ HandlerFails

ListSpec == ListInit /\ [][ListNext]_listVars

-----------------------------------------------------------------------------
(* Properties *)

Visible ==
    IF at = "members" THEN Places
    ELSE IF account = NoAccount THEN {} ELSE Sees[account][filter]

\* The page shown is the answer to the last request, and there is an account.
Settled ==
    account # NoAccount /\ requests = {} /\ page # Null /\ page.of.n = loads

\* The rows that the walk has come past: on the last page, all.
Passed == {p \in Places : p <= before \/ (Settled /\ ~page.more)}

\* Wherever the buttons lead, through pages that fail to load, come late or are
\* edited, no row that was there all the time is passed over unseen, and on the
\* last page all have been shown (next_before and after, LIMIT + 1, onNext,
\* onPrev); not so where a page has strayed.
NothingSkipped ==
    ~strayed => \A p \in steady \intersect Visible \intersect Passed :
                   <<<<account, filter>>, p>> \in seen

\* The buttons fit the page: on every list but the members', "previous" is
\* disabled on nothing but the first page, in whatever order answers come, and
\* the page shown once nothing is under way is the one for the stack, the
\* account and the filter (load, reset, next, prev).
ButtonsFitPage ==
    /\ at # "members" => (stack = <<>> <=> before = 0)
    /\ (Settled /\ ~strayed)
          => /\ page.of.cursor = before
             /\ page.of.account = account /\ page.of.filter = filter
             /\ stack = <<>> <=> before = 0
=============================================================================
