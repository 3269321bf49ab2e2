--------------------------- MODULE ListingProofs ----------------------------
(***************************************************************************)
(* Proofs that a walk by cursor shows no row twice and skips only ties,    *)
(* for any number of rows and stamps and any page size.                    *)
(***************************************************************************)
EXTENDS Listing, FiniteSetTheorems, TLAPS

USE ListingAssumption DEF ListingAssumption

Shown(n) == \E m \in Notif : createdAt[m] = createdAt[n] /\ seen[m] > 0

\* Only rows that exist are listed.
Stamped == \A n \in matching : createdAt[n] # 0

\* What has been shown is not older than the cursor.
Behind ==
    \A n \in Notif : seen[n] > 0 =>
        seen[n] = 1 /\ cursor # 0 /\ createdAt[n] >= cursor

\* Steady rows the cursor has passed are shown, or tie with one that is.
Passed ==
    \A n \in steady :
        walk = "done" \/ (cursor # 0 /\ createdAt[n] >= cursor) => Shown(n)

\* The inductive invariant.
WalkInv == TypeOK /\ Stamped /\ Behind /\ Passed

\* An empty page means that nothing is selected.
LEMMA EmptyPage == {} \in Pages => Selected = {}
BY FS_EmptySet DEF Pages

\* What a row of the page has in common with the rows that are left out.
LEMMA PageOrder ==
    ASSUME NEW p \in Pages
    PROVE  /\ p \subseteq Selected
           /\ \A m \in p, n \in Selected \ p : createdAt[m] >= createdAt[n]
BY DEF Pages

\* The invariant holds before the first request.
LEMMA WalkInvInit == Init => WalkInv
BY DEF Init, WalkInv, TypeOK, Stamped, Behind, Passed

\* One request keeps it: a page is behind the cursor it returns, and what it
\* leaves out is at or beyond that cursor.
LEMMA WalkInvList == WalkInv /\ List => WalkInv'
<1> SUFFICES ASSUME WalkInv, List PROVE WalkInv'
  OBVIOUS
<1> USE DEF WalkInv, TypeOK
<1>1. PICK p \in Pages :
        /\ seen' = [n \in Notif |-> IF n \in p THEN OneMore(seen[n]) ELSE seen[n]]
        /\ \/ p = {} /\ walk' = "done" /\ UNCHANGED cursor
           \/ \E last \in p :
                /\ \A n \in p : createdAt[n] >= createdAt[last]
                /\ cursor' = NextCursor(last)
                /\ UNCHANGED walk
  BY DEF List
<1>2. UNCHANGED <<createdAt, matching, steady>> /\ walk = "paging"
  BY DEF List, rowVars
<1>3. /\ p \subseteq Selected
      /\ \A m \in p, n \in Selected \ p : createdAt[m] >= createdAt[n]
  BY PageOrder
<1>4. \A n \in p : n \in matching /\ seen[n] = 0 /\ seen'[n] = 1
  BY <1>1, <1>3 DEF Selected, Behind, OneMore
<1>5. \A n \in Notif \ p : seen'[n] = seen[n]
  BY <1>1
<1>6. CASE p = {} /\ walk' = "done" /\ UNCHANGED cursor
  <2>1. Selected = {}
    BY <1>6, EmptyPage
  <2>2. \A n \in steady : cursor # 0 /\ createdAt[n] >= cursor
    BY <2>1 DEF Selected
  <2>3. UNCHANGED seen
    BY <1>1, <1>6
  <2> QED
    BY <1>2, <1>6, <2>2, <2>3 DEF Stamped, Behind, Passed, Shown
<1>7. CASE \E last \in p :
             /\ \A n \in p : createdAt[n] >= createdAt[last]
             /\ cursor' = NextCursor(last)
             /\ UNCHANGED walk
  <2>1. PICK last \in p :
          /\ \A n \in p : createdAt[n] >= createdAt[last]
          /\ cursor' = createdAt[last]
          /\ UNCHANGED walk
    BY <1>7 DEF NextCursor
  <2>2. last \in Notif /\ cursor' # 0 /\ (cursor # 0 => cursor' < cursor)
    BY <1>3, <1>4, <2>1 DEF Selected, Stamped
  <2>3. TypeOK'
    BY <1>1, <1>2, <2>1, <2>2 DEF OneMore
  <2>4. Behind'
    <3> SUFFICES ASSUME NEW n \in Notif, seen'[n] > 0
                 PROVE  seen'[n] = 1 /\ cursor' # 0 /\ createdAt'[n] >= cursor'
      BY DEF Behind
    <3>1. CASE n \in p
      BY <1>2, <1>4, <2>1, <2>2, <3>1
    <3>2. CASE n \notin p
      BY <1>2, <1>5, <2>1, <2>2, <3>2 DEF Behind
    <3> QED
      BY <3>1, <3>2
  <2>5. Passed'
    <3> SUFFICES ASSUME NEW n \in steady, createdAt[n] >= cursor'
                 PROVE  Shown(n)'
      BY <1>2, <2>1 DEF Passed
    <3>1. \A m \in Notif : seen[m] > 0 => seen'[m] > 0
      BY <1>4, <1>5
    <3>2. CASE n \in p
      BY <1>2, <1>4, <3>2 DEF Shown
    <3>3. CASE n \in Selected \ p
      <4>1. createdAt[last] = createdAt[n]
        BY <1>3, <2>1, <2>2, <3>3
      <4> QED
        BY <1>2, <1>4, <2>2, <4>1 DEF Shown
    <3>4. CASE n \notin Selected
      <4>1. Shown(n)
        BY <3>4 DEF Selected, Passed
      <4> QED
        BY <1>2, <3>1, <4>1 DEF Shown
    <3> QED
      BY <3>2, <3>3, <3>4
  <2> QED
    BY <1>2, <2>3, <2>4, <2>5 DEF Stamped
<1> QED
  BY <1>1, <1>6, <1>7

\* Inserts, status writes and new walks keep it: a row that appears has not
\* been shown and is not steady.
LEMMA WalkInvOthers ==
    ASSUME WalkInv, (\E n \in Notif : Insert(n) \/ UpdateStatus(n)) \/ Begin
    PROVE  WalkInv'
<1> USE DEF WalkInv, TypeOK
<1>1. ASSUME NEW k \in Notif, Insert(k) PROVE WalkInv'
  <2>1. PICK t \in 1..MaxStamp : createdAt' = [createdAt EXCEPT ![k] = t]
    BY <1>1 DEF Insert
  <2>2. PICK S \in {{}, {k}} : matching' = matching \union S
    BY <1>1 DEF Insert
  <2>3. createdAt[k] = 0 /\ UNCHANGED <<walk, cursor, seen, steady>>
    BY <1>1 DEF Insert, walkVars
  <2>4. k \notin matching /\ ~(seen[k] > 0)
    BY <2>3 DEF Stamped, Behind
  <2>5. TypeOK' /\ Stamped'
    BY <2>1, <2>2, <2>3 DEF Stamped
  <2>6. Behind'
    BY <2>1, <2>3, <2>4 DEF Behind
  <2>7. Passed'
    BY <2>1, <2>3, <2>4 DEF Passed, Shown
  <2> QED
    BY <2>5, <2>6, <2>7
<1>2. ASSUME NEW k \in Notif, UpdateStatus(k) PROVE WalkInv'
  BY <1>2 DEF UpdateStatus, walkVars, Stamped, Behind, Passed, Shown
<1>3. CASE Begin
  BY <1>3 DEF Begin, rowVars, Stamped, Behind, Passed
<1> QED
  BY <1>1, <1>2, <1>3

\* Every step keeps the invariant.
LEMMA WalkInvStep == WalkInv /\ [Next]_vars => WalkInv'
<1> SUFFICES ASSUME WalkInv, [Next]_vars PROVE WalkInv'
  OBVIOUS
<1>1. CASE UNCHANGED vars
  BY <1>1 DEF vars, rowVars, walkVars, WalkInv, TypeOK, Stamped, Behind, Passed, Shown
<1> QED
  BY <1>1, WalkInvList, WalkInvOthers DEF Next

\* The types: the cursor of a walk stays a created_at, and every row it counts
\* as steady still passes the filter (List, next_cursor).
THEOREM ListingTypeOK == Spec => []TypeOK
<1>1. WalkInv => TypeOK
  BY DEF WalkInv
<1> QED
  BY <1>1, WalkInvInit, WalkInvStep, PTL DEF Spec

\* A walk by cursor never shows a row twice, whatever is inserted or changed
\* between its pages (List, next_cursor).
THEOREM ListingSeenOnce == Spec => []SeenOnce
<1>1. WalkInv => SeenOnce
  BY DEF WalkInv, TypeOK, Behind, SeenOnce
<1> QED
  BY <1>1, WalkInvInit, WalkInvStep, PTL DEF Spec

\* A finished walk has shown every row that passed the filter all along, or
\* one with the same created_at.
THEOREM ListingSkipsOnlyTies == Spec => []SkipsOnlyTies
<1>1. WalkInv => SkipsOnlyTies
  BY DEF WalkInv, Passed, Shown, SkipsOnlyTies
<1> QED
  BY <1>1, WalkInvInit, WalkInvStep, PTL DEF Spec
=============================================================================
