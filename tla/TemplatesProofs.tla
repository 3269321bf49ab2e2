-------------------------- MODULE TemplatesProofs --------------------------
(***************************************************************************)
(* The invariants of Templates, for any number of templates, names, texts, *)
(* creates and updates.                                                    *)
(***************************************************************************)
EXTENDS Templates, TLAPS

\* A create under way has its copy of the row, and at its end a text that is
\* in the cache.
Copies ==
    \A r \in Request :
        /\ rpc[r] # "idle" => tmplId[r] \in Id /\ tmpl[r] \in Row
        /\ rpc[r] = "insert" => cache[tmpl[r].name] # None

\* Whatever the table, the cache and the copies hold has been written under
\* its name.
Written ==
    /\ \A i \in Id : rows[i] # None => <<rows[i].name, rows[i].content>> \in known
    /\ \A m \in Name : cache[m] # None => <<m, cache[m]>> \in known
    /\ \A r \in Request :
        rpc[r] # "idle" => <<tmpl[r].name, tmpl[r].content>> \in known

\* The inductive invariant.
TInv == TypeOK /\ Copies /\ Written /\ HeldIsCached /\ ReferencedExist

-----------------------------------------------------------------------------
\* The empty table and the empty cache satisfy it.
LEMMA InitTInv == Init => TInv
BY DEF Init, TInv, TypeOK, Copies, Written, HeldIsCached, ReferencedExist

\* A new row makes its text known.
LEMMA CreateTInv == ASSUME TInv, NEW i \in Id, Create(i) PROVE TInv'
<1> PICK row \in Row :
        /\ rows' = [rows EXCEPT ![i] = row]
        /\ known' = known \union {<<row.name, row.content>>}
  BY DEF Create
<1> USE DEF TInv, Create, requestVars
<1>1. TypeOK'
  BY DEF TypeOK, Row
<1>2. Copies'
  BY DEF Copies
<1>3. Written'
  BY DEF Written, TypeOK
<1>4. HeldIsCached'
  BY DEF HeldIsCached
<1>5. ReferencedExist'
  BY TemplatesAssumption DEF ReferencedExist, TypeOK, Row
<1> QED BY <1>1, <1>2, <1>3, <1>4, <1>5

\* An update makes the new text known, and touches neither cache nor copies.
LEMMA UpdateWriteTInv == ASSUME TInv, NEW e \in Editor, UpdateWrite(e) PROVE TInv'
<1> PICK row \in Row :
        \/ /\ rows' = [rows EXCEPT ![edit[e]] = row]
           /\ known' = known \union {<<row.name, row.content>>}
        \/ UNCHANGED <<rows, known>>
  BY DEF UpdateWrite
<1> USE DEF TInv, UpdateWrite, requestVars
<1>1. TypeOK'
  BY DEF TypeOK, Row
<1>2. Copies'
  BY DEF Copies
<1>3. Written'
  BY DEF Written, TypeOK
<1>4. HeldIsCached'
  BY DEF HeldIsCached
<1>5. ReferencedExist'
  BY TemplatesAssumption DEF ReferencedExist, TypeOK
<1> QED BY <1>1, <1>2, <1>3, <1>4, <1>5

\* A delete takes away only rows that nothing refers to.
LEMMA DeleteTInv == ASSUME TInv, NEW i \in Id, Delete(i) PROVE TInv'
<1> USE DEF TInv, Delete, requestVars
<1>1. TypeOK'
  BY DEF TypeOK
<1>2. Copies'
  BY DEF Copies
<1>3. Written'
  BY DEF Written, TypeOK
<1>4. HeldIsCached'
  BY DEF HeldIsCached
<1>5. ReferencedExist'
  BY DEF ReferencedExist, TypeOK
<1> QED BY <1>1, <1>2, <1>3, <1>4, <1>5

\* A create copies a row, whose text is known.
LEMMA GetByIDTInv ==
    ASSUME TInv, NEW r \in Request, NEW i \in Id, GetByID(r, i) PROVE TInv'
<1> USE DEF TInv, GetByID, tableVars
<1>1. TypeOK'
  BY DEF TypeOK
<1>2. Copies'
  BY DEF Copies, TypeOK
<1>3. Written'
  BY DEF Written, TypeOK
<1>4. HeldIsCached'
  BY DEF HeldIsCached, TypeOK
<1>5. ReferencedExist'
  BY DEF ReferencedExist
<1> QED BY <1>1, <1>2, <1>3, <1>4, <1>5

\* What a create does with the text it has found in the cache.
LEMMA UseTInv ==
    ASSUME TInv, NEW r \in Request, rpc[r] \in {"lookup", "parse"},
           cache[tmpl[r].name] # None, Use(r, cache[tmpl[r].name]),
           UNCHANGED <<tableVars, cache, edit>>
    PROVE  TInv'
<1> USE DEF TInv, Use, tableVars
<1> DEFINE name == tmpl[r].name
<1>0. name \in Name /\ cache[name] \in Valid
  BY DEF Copies, TypeOK, Row
<1>1. TypeOK'
  BY <1>0, TemplatesAssumption DEF TypeOK
<1>2. Copies'
  BY DEF Copies, TypeOK
<1>3. Written'
  BY DEF Written, TypeOK
<1>4. HeldIsCached'
  BY DEF HeldIsCached, TypeOK
<1>5. ReferencedExist'
  BY DEF ReferencedExist
<1> QED BY <1>1, <1>2, <1>3, <1>4, <1>5

\* A create that is answered leaves nothing behind.
LEMMA AnswerTInv ==
    ASSUME TInv, NEW r \in Request, Answer(r), UNCHANGED <<rows, used, known, cache, edit>>,
           TypeOK => referenced' \subseteq Id, ReferencedExist'
    PROVE  TInv'
<1> USE DEF TInv, Answer
<1>1. TypeOK'
  BY DEF TypeOK
<1>2. Copies'
  BY DEF Copies, TypeOK
<1>3. Written'
  BY DEF Written, TypeOK
<1>4. HeldIsCached'
  BY DEF HeldIsCached, TypeOK
<1> QED BY <1>1, <1>2, <1>3, <1>4

\* getOrParse under the read lock: found, or on to the write lock.
LEMMA LookupTInv == ASSUME TInv, NEW r \in Request, Lookup(r) PROVE TInv'
<1>1. CASE cache[tmpl[r].name] # None
  BY <1>1, UseTInv DEF Lookup
<1>2. CASE cache[tmpl[r].name] = None
  <2> USE <1>2 DEF TInv, Lookup, tableVars
  <2>1. TypeOK'
    BY DEF TypeOK
  <2>2. Copies'
    BY DEF Copies, TypeOK
  <2>3. Written'
    BY DEF Written, TypeOK
  <2>4. HeldIsCached'
    BY DEF HeldIsCached, TypeOK
  <2>5. ReferencedExist'
    BY DEF ReferencedExist
  <2> QED BY <2>1, <2>2, <2>3, <2>4, <2>5
<1> QED BY <1>1, <1>2

\* getOrParse under the write lock: found, cached, or not a template.
LEMMA ParseTInv == ASSUME TInv, NEW r \in Request, Parse(r) PROVE TInv'
<1> DEFINE name == tmpl[r].name
           content == tmpl[r].content
<1>0. /\ rpc[r] = "parse"
      /\ name \in Name
      /\ <<name, content>> \in known
  BY DEF TInv, Parse, Copies, Written, Row
<1>1. CASE cache[name] # None
  BY <1>0, <1>1, UseTInv DEF Parse
<1>2. CASE cache[name] = None /\ content \in Valid
  <2>0. /\ cache' = [cache EXCEPT ![name] = content]
        /\ Use(r, content)
        /\ UNCHANGED <<tableVars, edit>>
    BY <1>2 DEF Parse
  <2>1. content # None
    BY <1>2, TemplatesAssumption
  <2>2. \A m \in Name : m # name => cache'[m] = cache[m]
    BY <2>0 DEF TInv, TypeOK
  <2>3. cache'[name] = content
    BY <1>0, <2>0 DEF TInv, TypeOK
  <2> USE <1>0, <1>2, <2>0 DEF TInv, Use, tableVars
  <2>4. TypeOK'
    BY TemplatesAssumption DEF TypeOK
  <2>5. Copies'
    BY <2>1, <2>2, <2>3 DEF Copies, TypeOK, Row
  <2>6. Written'
    BY <2>2, <2>3 DEF Written, TypeOK
  <2>7. HeldIsCached'
    BY <2>2, <2>3 DEF HeldIsCached, Copies, TypeOK, Row
  <2>8. ReferencedExist'
    BY DEF ReferencedExist
  <2> QED BY <2>4, <2>5, <2>6, <2>7, <2>8
<1>3. CASE cache[name] = None /\ content \notin Valid
  <2>1. Answer(r) /\ UNCHANGED <<tableVars, cache, edit>>
    BY <1>3 DEF Parse
  <2> QED
    BY <2>1, AnswerTInv DEF TInv, TypeOK, ReferencedExist, tableVars
<1> QED BY <1>1, <1>2, <1>3

\* The insert refers only to a row that is there.
LEMMA InsertTInv == ASSUME TInv, NEW r \in Request, Insert(r) PROVE TInv'
<1>1. tmplId[r] \in Id
  BY DEF TInv, Insert, Copies
<1>2. /\ referenced' \subseteq referenced \union {tmplId[r]}
      /\ tmplId[r] \in referenced' => tmplId[r] \in referenced \/ rows[tmplId[r]] # None
      /\ UNCHANGED rows
  BY DEF Insert, ForeignKey
<1>3. ReferencedExist'
  BY <1>2 DEF ReferencedExist, TInv
<1> QED
  BY <1>1, <1>2, <1>3, AnswerTInv DEF Insert, TypeOK

\* A create whose rendering fails is answered.
LEMMA RenderFailsTInv == ASSUME TInv, NEW r \in Request, RenderFails(r) PROVE TInv'
BY AnswerTInv DEF RenderFails, tableVars, TInv, TypeOK, ReferencedExist

\* A restart forgets copies and cache, and what is left is still known.
LEMMA RestartTInv == ASSUME TInv, Restart PROVE TInv'
BY DEF Restart, tableVars, TInv, TypeOK, Copies, Written, HeldIsCached, ReferencedExist

\* The read of an update changes nothing the invariant speaks of.
LEMMA UpdateReadTInv ==
    ASSUME TInv, NEW e \in Editor, NEW i \in Id, UpdateRead(e, i) PROVE TInv'
BY DEF UpdateRead, tableVars, requestVars, TInv, TypeOK, Copies, Written,
       HeldIsCached, ReferencedExist

\* A step that changes nothing.
LEMMA StutterTInv == ASSUME TInv, UNCHANGED vars PROVE TInv'
BY DEF vars, tableVars, requestVars, TInv, TypeOK, Copies, Written, HeldIsCached,
       ReferencedExist

\* The invariant holds in every reachable state.
THEOREM TemplatesInvariant == Spec => []TInv
<1>1. Init => TInv
  BY InitTInv
<1>2. TInv /\ [Next]_vars => TInv'
  <2> SUFFICES ASSUME TInv, [Next]_vars PROVE TInv'
    OBVIOUS
  <2>1. CASE Restart
    BY <2>1, RestartTInv
  <2>2. ASSUME NEW i \in Id, Create(i) \/ Delete(i) PROVE TInv'
    BY <2>2, CreateTInv, DeleteTInv
  <2>3. ASSUME NEW e \in Editor, UpdateWrite(e) \/ \E i \in Id : UpdateRead(e, i)
        PROVE  TInv'
    BY <2>3, UpdateWriteTInv, UpdateReadTInv
  <2>4. ASSUME NEW r \in Request,
               \/ Lookup(r) \/ Parse(r) \/ Insert(r) \/ RenderFails(r)
               \/ \E i \in Id : GetByID(r, i)
        PROVE  TInv'
    BY <2>4, LookupTInv, ParseTInv, InsertTInv, RenderFailsTInv, GetByIDTInv
  <2>5. CASE UNCHANGED vars
    BY <2>5, StutterTInv
  <2> QED BY <2>1, <2>2, <2>3, <2>4, <2>5 DEF Next
<1> QED BY <1>1, <1>2, PTL DEF Spec

-----------------------------------------------------------------------------
\* The table, the cache and the copies of requests keep their types; in
\* particular no text that does not parse is ever cached.
THEOREM TemplatesTypeOK == Spec => []TypeOK
<1>1. TInv => TypeOK
  BY DEF TInv
<1> QED BY <1>1, TemplatesInvariant, PTL

\* Concurrent requests for one name render one text, for any number of them
\* and any updates in between (getOrParse).
THEOREM TemplatesHeldIsCached == Spec => []HeldIsCached
<1>1. TInv => HeldIsCached
  BY DEF TInv
<1> QED BY <1>1, TemplatesInvariant, PTL

\* No notification refers to a template that does not exist, whatever deletes
\* come between the calls of its create (buildNotification, Delete).
THEOREM TemplatesReferencedExist == Spec => []ReferencedExist
<1>1. TInv => ReferencedExist
  BY DEF TInv
<1> QED BY <1>1, TemplatesInvariant, PTL

\* What is rendered was the text of some template under the name that the
\* request read, after any renames, deletes and restarts (Engine.cache).
THEOREM TemplatesRendersNamesake == Spec => []RendersNamesake
<1>1. TInv => RendersNamesake
  <2> SUFFICES ASSUME TInv, NEW r \in Request, rpc[r] = "insert"
               PROVE  <<tmpl[r].name, text[r]>> \in known
    BY DEF RendersNamesake
  <2>1. tmpl[r].name \in Name /\ cache[tmpl[r].name] # None
    BY DEF TInv, Copies, Row
  <2>2. text[r] = cache[tmpl[r].name]
    BY DEF TInv, HeldIsCached
  <2> QED BY <2>1, <2>2 DEF TInv, Written
<1> QED BY <1>1, TemplatesInvariant, PTL
=============================================================================
