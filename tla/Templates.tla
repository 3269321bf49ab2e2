----------------------------- MODULE Templates ------------------------------
(***************************************************************************)
(* Message templates: the templates table and its handlers, the cache of   *)
(* parsed templates in internal/template, and the part of a notification   *)
(* create that reads a template, renders it and inserts the notification.  *)
(* One API process; requests come between each other's calls.              *)
(***************************************************************************)
EXTENDS Naturals

CONSTANTS
    Id,             \* template ids
    Name,           \* template names
    Content,        \* template texts
    Valid,          \* the texts text/template can parse
    Request,        \* concurrent creates of a notification with a template_id
    Editor,         \* concurrent updates of a template
    None            \* no row, no entry

Row == [name : Name, content : Content]

ASSUME TemplatesAssumption ==
    /\ Valid \subseteq Content
    /\ None \notin Content \union Id \union Row

VARIABLES
    rows,           \* the templates table
    referenced,     \* ids some notification refers to (the foreign key)
    used,           \* ids that were given out (uuid.New gives none twice)
    known,          \* history: texts that templates of a name have had
    cache,          \* Engine.cache, by name
    rpc,            \* the call a create is about to make
    tmplId,         \* the template it asks for
    tmpl,           \* its copy of the row
    text,           \* the parsed template Render executes
    edit            \* the template an update has read and will write

tableVars == <<rows, referenced, used, known>>
requestVars == <<rpc, tmplId, tmpl, text>>
vars == <<tableVars, cache, requestVars, edit>>

TypeOK ==
    /\ rows \in [Id -> Row \union {None}]
    /\ referenced \subseteq Id
    /\ used \subseteq Id
    /\ known \subseteq Name \X Content
    /\ cache \in [Name -> Valid \union {None}]
    /\ rpc \in [Request -> {"idle", "lookup", "parse", "insert"}]
    /\ tmplId \in [Request -> Id \union {None}]
    /\ tmpl \in [Request -> Row \union {None}]
    /\ text \in [Request -> Content \union {None}]
    /\ edit \in [Editor -> Id \union {None}]

Init ==
    /\ rows = [i \in Id |-> None]
    /\ referenced = {}
    /\ used = {}
    /\ known = {}
    /\ cache = [m \in Name |-> None]
    /\ rpc = [r \in Request |-> "idle"]
    /\ tmplId = [r \in Request |-> None]
    /\ tmpl = [r \in Request |-> None]
    /\ text = [r \in Request |-> None]
    /\ edit = [e \in Editor |-> None]

-----------------------------------------------------------------------------
(***************************************************************************)
(* The template handlers.  Nothing here touches the cache.                 *)
(***************************************************************************)
Taken(i, name) == \E j \in Id \ {i} : rows[j] # None /\ rows[j].name = name

\* TemplateHandler.Create: a fresh id, and a name no other row has.
Create(i) ==
    /\ i \notin used
    /\ used' = used \union {i}
    /\ \E row \in Row :
        /\ ~Taken(i, row.name)
        /\ rows' = [rows EXCEPT ![i] = row]
        /\ known' = known \union {<<row.name, row.content>>}
    /\ UNCHANGED <<referenced, cache, requestVars, edit>>

\* TemplateHandler.Update: GetByID ...
UpdateRead(e, i) ==
    /\ edit[e] = None
    /\ rows[i] # None
    /\ edit' = [edit EXCEPT ![e] = i]
    /\ UNCHANGED <<tableVars, cache, requestVars>>

\* ... and Update, which writes all columns: the request's fields, and the
\* copy's where the request leaves a field empty, so any name and any text.
\* It writes no row if the template has been deleted meanwhile, and fails if
\* the name belongs to another.
UpdateWrite(e) ==
    LET i == edit[e] IN
    /\ i # None
    /\ \E row \in Row :
        \/ /\ rows[i] # None
           /\ ~Taken(i, row.name)
           /\ rows' = [rows EXCEPT ![i] = row]
           /\ known' = known \union {<<row.name, row.content>>}
        \/ /\ rows[i] = None \/ Taken(i, row.name)
           /\ UNCHANGED <<rows, known>>
    /\ edit' = [edit EXCEPT ![e] = None]
    /\ UNCHANGED <<referenced, used, cache, requestVars>>

\* Mutant: no foreign key.
DeleteAny(i) ==
    /\ rows[i] # None
    /\ rows' = [rows EXCEPT ![i] = None]
    /\ UNCHANGED <<referenced, used, known, cache, requestVars, edit>>

\* TemplateHandler.Delete; the foreign key refuses a template in use.
Delete(i) ==
    /\ rows[i] # None
    /\ i \notin referenced
    /\ rows' = [rows EXCEPT ![i] = None]
    /\ UNCHANGED <<referenced, used, known, cache, requestVars, edit>>

-----------------------------------------------------------------------------
(***************************************************************************)
(* A notification create with a template_id.                               *)
(***************************************************************************)
\* The request is answered: its copies are gone.
Answer(r) ==
    /\ rpc' = [rpc EXCEPT ![r] = "idle"]
    /\ tmplId' = [tmplId EXCEPT ![r] = None]
    /\ tmpl' = [tmpl EXCEPT ![r] = None]
    /\ text' = [text EXCEPT ![r] = None]

\* buildNotification: the template's row.
GetByID(r, i) ==
    /\ rpc[r] = "idle"
    /\ rows[i] # None
    /\ rpc' = [rpc EXCEPT ![r] = "lookup"]
    /\ tmplId' = [tmplId EXCEPT ![r] = i]
    /\ tmpl' = [tmpl EXCEPT ![r] = rows[i]]
    /\ UNCHANGED <<tableVars, cache, text, edit>>

\* The template c is what Render executes.
Use(r, c) ==
    /\ rpc' = [rpc EXCEPT ![r] = "insert"]
    /\ text' = [text EXCEPT ![r] = c]
    /\ UNCHANGED <<tmplId, tmpl>>

\* Mutant: one entry for all names.
LookupAny(r) ==
    /\ rpc[r] = "lookup"
    /\ \/ \E name \in Name : cache[name] # None /\ Use(r, cache[name])
       \/ /\ \A name \in Name : cache[name] = None
          /\ rpc' = [rpc EXCEPT ![r] = "parse"]
          /\ UNCHANGED <<tmplId, tmpl, text>>
    /\ UNCHANGED <<tableVars, cache, edit>>

\* getOrParse under the read lock.
Lookup(r) ==
    LET name == tmpl[r].name IN
    /\ rpc[r] = "lookup"
    /\ \/ /\ cache[name] # None
          /\ Use(r, cache[name])
       \/ /\ cache[name] = None
          /\ rpc' = [rpc EXCEPT ![r] = "parse"]
          /\ UNCHANGED <<tmplId, tmpl, text>>
    /\ UNCHANGED <<tableVars, cache, edit>>

\* Mutant: no second look at the cache.
ParseAnyway(r) ==
    /\ rpc[r] = "parse"
    /\ \/ /\ tmpl[r].content \in Valid
          /\ cache' = [cache EXCEPT ![tmpl[r].name] = tmpl[r].content]
          /\ Use(r, tmpl[r].content)
       \/ /\ tmpl[r].content \notin Valid
          /\ Answer(r)
          /\ UNCHANGED cache
    /\ UNCHANGED <<tableVars, edit>>

\* Mutant: a template is cached before its errors are looked at.
ParseUnchecked(r) ==
    LET name == tmpl[r].name IN
    /\ rpc[r] = "parse"
    /\ cache' = [cache EXCEPT ![name] = IF @ = None THEN tmpl[r].content ELSE @]
    /\ Use(r, cache'[name])
    /\ UNCHANGED <<tableVars, edit>>

\* getOrParse under the write lock: look again, else parse and cache.
Parse(r) ==
    LET name == tmpl[r].name
        content == tmpl[r].content IN
    /\ rpc[r] = "parse"
    /\ \/ /\ cache[name] # None
          /\ Use(r, cache[name])
          /\ UNCHANGED cache
       \/ /\ cache[name] = None
          /\ content \in Valid
          /\ cache' = [cache EXCEPT ![name] = content]
          /\ Use(r, content)
       \/ /\ cache[name] = None
          /\ content \notin Valid
          /\ Answer(r)
          /\ UNCHANGED cache
    /\ UNCHANGED <<tableVars, edit>>

\* fk_notifications_template, for a row that refers to template i.
ForeignKey(i) == rows[i] # None

\* Render's Execute, and the insert, which the foreign key refuses if the
\* template has been deleted meanwhile.
Insert(r) ==
    /\ rpc[r] = "insert"
    /\ \/ /\ ForeignKey(tmplId[r])
          /\ referenced' = referenced \union {tmplId[r]}
       \/ /\ ~ForeignKey(tmplId[r])
          /\ UNCHANGED referenced
    /\ Answer(r)
    /\ UNCHANGED <<rows, used, known, cache, edit>>

\* Execute fails on the request's variables.
RenderFails(r) ==
    /\ rpc[r] = "insert"
    /\ Answer(r)
    /\ UNCHANGED <<tableVars, cache, edit>>

\* The API process dies and starts again: requests and cache are gone.
Restart ==
    /\ cache' = [m \in Name |-> None]
    /\ rpc' = [r \in Request |-> "idle"]
    /\ tmplId' = [r \in Request |-> None]
    /\ tmpl' = [r \in Request |-> None]
    /\ text' = [r \in Request |-> None]
    /\ edit' = [e \in Editor |-> None]
    /\ UNCHANGED tableVars

Next ==
    \/ Restart
    \/ \E i \in Id : Create(i) \/ Delete(i)
    \/ \E e \in Editor : UpdateWrite(e) \/ \E i \in Id : UpdateRead(e, i)
    \/ \E r \in Request :
        \/ Lookup(r) \/ Parse(r) \/ Insert(r) \/ RenderFails(r)
        \/ \E i \in Id : GetByID(r, i)

Spec == Init /\ [][Next]_vars

-----------------------------------------------------------------------------
\* All notifications rendered under one name in the life of an API process
\* are rendered from one text: concurrent requests that read different
\* versions of a row still execute the template that was cached first
\* (getOrParse looks again under the write lock).
HeldIsCached ==
    \A r \in Request : rpc[r] = "insert" => text[r] = cache[tmpl[r].name]

\* A notification that was created refers to a template that exists, although
\* the handler reads the row, renders and inserts in separate calls and a
\* delete may come between them.
ReferencedExist == \A i \in referenced : rows[i] # None

\* A notification is rendered from a text that its own template or another
\* one had under the name it was read with: the cache is keyed by name and
\* outlives updates, renames and deletes, so that no more than this holds
\* (Engine.cache, Invalidate).
RendersNamesake ==
    \A r \in Request : rpc[r] = "insert" => <<tmpl[r].name, text[r]>> \in known
=============================================================================
