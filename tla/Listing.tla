------------------------------ MODULE Listing -------------------------------
(***************************************************************************)
(* GET /notifications: a client pages through a filtered list by following *)
(* next_cursor until a page is empty, while the service goes on inserting  *)
(* notifications and changing their status.                                *)
(***************************************************************************)
EXTENDS Naturals, FiniteSets

CONSTANTS
    Notif,          \* notification ids
    MaxStamp,       \* number of different created_at values (a bound)
    Limit           \* page size

ASSUME ListingAssumption == MaxStamp \in Nat /\ Limit \in Nat \ {0}

VARIABLES
    createdAt,      \* notifications.created_at, 0 before the insert
    matching,       \* rows that pass the filter
    walk,           \* "paging" while the client follows cursors
    cursor,         \* the cursor it sends, 0 for none
    seen,           \* history: in how many pages of this walk the row was, 2
                    \* standing for more than one
    steady          \* history: rows that have passed the filter since the
                    \* walk began

rowVars == <<createdAt, matching>>
walkVars == <<walk, cursor, seen>>
vars == <<rowVars, walkVars, steady>>

TypeOK ==
    /\ createdAt \in [Notif -> 0..MaxStamp]
    /\ matching \subseteq Notif
    /\ walk \in {"idle", "paging", "done"}
    /\ cursor \in 0..MaxStamp
    /\ seen \in [Notif -> 0..2]
    /\ steady \subseteq matching

Init ==
    /\ createdAt = [n \in Notif |-> 0]
    /\ matching = {}
    /\ walk = "idle"
    /\ cursor = 0
    /\ seen = [n \in Notif |-> 0]
    /\ steady = {}

\* buildNotification stamps the row with the clock of its API process, Create
\* inserts it some time later: rows appear with any stamp, in any order.
Insert(n) ==
    /\ createdAt[n] = 0
    /\ \E t \in 1..MaxStamp : createdAt' = [createdAt EXCEPT ![n] = t]
    /\ \E S \in {{}, {n}} : matching' = matching \union S
    /\ UNCHANGED <<walkVars, steady>>

\* A status write moves a row into the filter or out of it.
UpdateStatus(n) ==
    /\ createdAt[n] # 0
    /\ matching' = IF n \in matching THEN matching \ {n} ELSE matching \union {n}
    /\ steady' = steady \ {n}
    /\ UNCHANGED <<createdAt, walkVars>>

\* A client starts from the first page.
Begin ==
    /\ walk # "paging"
    /\ walk' = "paging"
    /\ cursor' = 0
    /\ seen' = [n \in Notif |-> 0]
    /\ steady' = matching
    /\ UNCHANGED rowVars

\* Mutants: "created_at <= cursor", and a cursor that is not looked at.
SelectedFromCursor == {n \in matching : cursor # 0 => createdAt[n] <= cursor}
SelectedAgain == matching

\* The WHERE clause: the filter, and the cursor if there is one.
Selected == {n \in matching : cursor # 0 => createdAt[n] < cursor}

\* Mutant: no DESC.
PagesOldestFirst ==
    {p \in SUBSET Selected :
        /\ Cardinality(p) <= Limit
        /\ p # Selected => Cardinality(p) = Limit
        /\ \A m \in p, n \in Selected \ p : createdAt[m] <= createdAt[n]}

\* ORDER BY created_at DESC LIMIT: the newest rows, equal stamps in any order.
Pages ==
    {p \in SUBSET Selected :
        /\ Cardinality(p) <= Limit
        /\ p # Selected => Cardinality(p) = Limit
        /\ \A m \in p, n \in Selected \ p : createdAt[m] >= createdAt[n]}

\* Mutant: the printed stamp is rounded up.
NextCursorRounded(last) == createdAt[last] + 1

\* next_cursor: RFC3339Nano prints the microseconds of a stored created_at in
\* full and Parse reads them back, so the cursor compares as the stamp does.
NextCursor(last) == createdAt[last]

OneMore(k) == IF k = 0 THEN 1 ELSE 2

\* One request: a page, and its last row's stamp as the next cursor.  (A
\* request that fails changes nothing; the client repeats it.)
List ==
    /\ walk = "paging"
    /\ \E p \in Pages :
        /\ seen' = [n \in Notif |-> IF n \in p THEN OneMore(seen[n]) ELSE seen[n]]
        /\ \/ /\ p = {}
              /\ walk' = "done"
              /\ UNCHANGED cursor
           \/ \E last \in p :
              /\ \A n \in p : createdAt[n] >= createdAt[last]
              /\ cursor' = NextCursor(last)
              /\ UNCHANGED walk
    /\ UNCHANGED <<rowVars, steady>>

Next ==
    \/ \E n \in Notif : Insert(n) \/ UpdateStatus(n)
    \/ Begin
    \/ List

Spec == Init /\ [][Next]_vars

\* The client goes on asking.
FairSpec == Spec /\ WF_vars(List)

-----------------------------------------------------------------------------
\* No walk shows a row twice, although rows with older and newer stamps
\* appear, leave and come back between its pages (List, next_cursor).
SeenOnce == \A n \in Notif : seen[n] <= 1

\* A finished walk has shown every row that passed the filter all along,
\* except where the end of a page fell between rows with the same created_at:
\* of those it has shown at least one.
SkipsOnlyTies ==
    walk = "done" =>
        \A n \in steady : \E m \in Notif :
            createdAt[m] = createdAt[n] /\ seen[m] > 0

\* A walk ends, however many rows are inserted meanwhile.
WalkEnds == walk = "paging" ~> walk = "done"
=============================================================================
