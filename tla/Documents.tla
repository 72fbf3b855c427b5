------------------------------ MODULE Documents ------------------------------
(***************************************************************************)
(* The document artifacts of one analysis: DocumentService, the document   *)
(* tools of the execution worker and the tables and objects they write.    *)
(*                                                                         *)
(* A document tool call has fixed arguments and may be executed more than  *)
(* once: its worker can die before the result is stored, or lose the claim *)
(* and run on beside the worker that took it over.  An execution stops at  *)
(* every await of the service, so the replay check, the version check, the *)
(* reads of the sections, the object writes and the transaction that ends  *)
(* it interleave with those of the other executions.                       *)
(*                                                                         *)
(* Text is reduced to its author: call c writes into each part it is given *)
(* a text of its own, and a content maps the parts it is made of (Body, or *)
(* the sections) to the call that wrote them, or to Blank.  A digest is    *)
(* the content itself.  An id drawn with new_uuid7 is the execution that   *)
(* drew it.                                                                *)
(***************************************************************************)
EXTENDS Naturals, Sequences, FiniteSets

CONSTANTS
  Calls,       \* document tool calls of the agents of the analysis
  SectionIds,  \* stable ids of sections
  Body,        \* the only part of a document without sections
  Blank,       \* author of the text ""
  None,        \* null
  Slugs,       \* slugs of tree nodes, integers for their order
  MaxCreates,  \* bound: calls that create a folder or a document
  MaxRetries   \* bound: executions beyond the first, over all calls

ASSUME DocumentsAssumption ==
  /\ Body \notin SectionIds
  /\ {Blank, None} \cap Calls = {} /\ Blank # None
  /\ Slugs \subseteq Nat \ {0}
  /\ MaxCreates \in Nat /\ MaxRetries \in Nat
  /\ IsFiniteSet(Calls)

VARIABLES
  args,       \* the arguments of each call, None until the model issues it
  run,        \* executions: stage and local variables
  documents,  \* table documents
  nodes,      \* table document_nodes
  sections,   \* table document_sections, per document
  revisions,  \* table document_revisions
  objects,    \* object storage
  result,     \* tool result stored for each call
  overlapped  \* history: calls with two executions under way at once

vars == <<args, run, documents, nodes, sections, revisions, objects, result, overlapped>>
tables == <<documents, nodes, sections, revisions>>

Executions == Calls \X (1 .. MaxRetries + 1)
MaxVersion == Cardinality(Calls)

\* on: the parent folder or the document; at: expected_version; slug 0: none given.
Arguments ==
  [op : {"folder"}, on : Executions \cup {None}, at : {0}, slug : Slugs, parts : {{}}]
  \cup [op : {"create"}, on : Executions \cup {None}, at : {0},
        slug : Slugs \cup {0}, parts : SUBSET SectionIds]
  \cup [op : {"update"}, on : Executions, at : 1 .. MaxVersion, slug : {0}, parts : SUBSET SectionIds]
  \cup [op : {"delete", "finalize"}, on : Executions, at : 1 .. MaxVersion, slug : {0}, parts : {{}}]
ASSUME NullAssumption == None \notin Arguments
ASSUME SlugAssumption == Slugs # {} /\ IsFiniteSet(Slugs)

Idle == [stage |-> "off", ref |-> None, hash |-> None, base |-> None, out |-> None]
Stages == {"off", "replay", "load", "prepare", "sections", "put", "commit", "respond", "over"}
Live == Stages \ {"off", "over"}

Init ==
  /\ args = [c \in Calls |-> None]
  /\ run = [e \in Executions |-> Idle]
  /\ documents = [d \in Executions |-> None]
  /\ nodes = {}
  /\ sections = [d \in Executions |-> [s \in {} |-> None]]
  /\ revisions = {}
  /\ objects = [k \in {} |-> None]
  /\ result = [c \in Calls |-> None]
  /\ overlapped = {}

-----------------------------------------------------------------------------
(* Queries of PostgresDocumentRepository                                   *)

find_revision_by_tool_call(c) == {r \in revisions : r.call = c}

\* Rows of document_sections with the text of their objects.
SectionText(d, s) == objects[sections[d][s].ref][s]

\* The WHERE clause of the two UPDATE documents statements.
Matches(d, version) ==
  /\ documents[d] # None
  /\ documents[d].version = version
  /\ documents[d].status = "draft"

\* Inserting a node violates uq_document_nodes_analysis_parent_slug; a null
\* parent_id never does.
SlugTaken(parent, slug) ==
  parent # None /\ \E n \in nodes : n.parent = parent /\ n.slug = slug

-----------------------------------------------------------------------------
(* Executions                                                              *)

Started(c) == {i \in 1 .. MaxRetries + 1 : run[<<c, i>>].stage # "off"}
Latest(e) == \A i \in Started(e[1]) : i <= e[2]
Retries == Cardinality({e \in Executions : e[2] > 1 /\ run[e].stage # "off"})

FirstStage(op) == IF op = "folder" THEN "prepare" ELSE "replay"

\* Documents and folders the model has heard of: those of earlier results.
Known(ops) == {result[c].id : c \in {x \in Calls : result[x] # None /\ result[x].ok /\ args[x].op \in ops}}

ReportedVersions(d) == {result[c].version : c \in {x \in Calls : result[x] # None /\ result[x].id = d}}

Creates == Cardinality({c \in Calls : args[c] # None /\ args[c].op \in {"folder", "create"}})

\* The model calls a document tool and a worker begins to execute it.
Issue(c) ==
  /\ args[c] = None
  /\ \E a \in Arguments :
       /\ a.on \in (IF a.op \in {"folder", "create"} THEN Known({"folder", "create"}) \cup {None}
                                                      ELSE Known({"create"}))
       /\ a.op \in {"folder", "create"} => Creates < MaxCreates
       /\ a.at \in ReportedVersions(a.on) \cup {0}
       /\ args' = [args EXCEPT ![c] = a]
       /\ run' = [run EXCEPT ![<<c, 1>>].stage = FirstStage(a.op)]
  /\ UNCHANGED <<tables, objects, result, overlapped>>

\* The call is delivered again: its worker died, raised or lost the claim.
Redeliver(c) ==
  /\ args[c] # None /\ result[c] = None
  /\ Retries < MaxRetries
  /\ LET i == Cardinality(Started(c)) + 1 IN
       run' = [run EXCEPT ![<<c, i>>].stage = FirstStage(args[c].op)]
  /\ overlapped' = IF \E i \in Started(c) : run[<<c, i>>].stage \in Live
                   THEN overlapped \cup {c} ELSE overlapped
  /\ UNCHANGED <<args, tables, objects, result>>

Goto(e, stage) == run' = [run EXCEPT ![e].stage = stage]

\* The execution goes on to a stage with these local variables.
Keep(e, stage, ref, hash, base) ==
  run' = [run EXCEPT ![e] = [stage |-> stage, ref |-> ref, hash |-> hash, base |-> base, out |-> None]]

\* The execution has its outcome and still has to store it.
Answer(e, out) ==
  run' = [run EXCEPT ![e] = [stage |-> "respond", ref |-> None, hash |-> None, base |-> None, out |-> out]]
Error == [ok |-> FALSE, id |-> None, version |-> 0, status |-> "error"]

\* The worker dies; only deaths that are followed by a redelivery matter.
Die(e) ==
  /\ run[e].stage \in Live
  /\ Retries < MaxRetries
  /\ run' = [run EXCEPT ![e] = [Idle EXCEPT !.stage = "over"]]
  /\ UNCHANGED <<args, tables, objects, result, overlapped>>

\* Storing the result needs the claim, which the latest execution holds.
Respond(e) ==
  /\ run[e].stage = "respond"
  /\ run' = [run EXCEPT ![e] = [Idle EXCEPT !.stage = "over"]]
  /\ result' = IF Latest(e) THEN [result EXCEPT ![e[1]] = run[e].out] ELSE result
  /\ UNCHANGED <<args, tables, objects, overlapped>>

-----------------------------------------------------------------------------
(* DocumentService                                                         *)

status_for_revision(op) ==
  IF op = "delete" THEN "deleted" ELSE IF op = "finalize" THEN "finalized" ELSE "draft"

document_result(id, version, status) ==
  [ok |-> TRUE, id |-> id, version |-> version, status |-> status]

\* Variant: no call is ever recognised as already applied.
ReplayResultNever(e) ==
  /\ run[e].stage = "replay"
  /\ Goto(e, IF args[e[1]].op = "create" THEN "prepare" ELSE "load")
  /\ UNCHANGED <<args, tables, objects, result, overlapped>>

\* A call that already has a revision answers with it.
_replay_result(e) ==
  /\ run[e].stage = "replay"
  /\ \/ \E r \in find_revision_by_tool_call(e[1]) :
          Answer(e, document_result(r.doc, r.version, status_for_revision(r.op)))
     \/ /\ find_revision_by_tool_call(e[1]) = {}
        /\ Goto(e, IF args[e[1]].op = "create" THEN "prepare" ELSE "load")
  /\ UNCHANGED <<args, tables, objects, result, overlapped>>

_ensure_mutable(d) == documents[d].status \notin {"finalized", "deleted"}

\* update, delete and finalize read the document and check it.
_document_for_analysis(e) ==
  /\ run[e].stage = "load"
  /\ LET a == args[e[1]]
         d == documents[a.on]
     IN IF d # None /\ _ensure_mutable(a.on) /\ d.version = a.at
        THEN Keep(e, IF a.op = "update" THEN "sections" ELSE "commit", d.ref, d.hash, None)
        ELSE Answer(e, Error)
  /\ UNCHANGED <<args, tables, objects, result, overlapped>>

\* Variant: the name of the object does not contain the tool call.
DocumentContentKeyPerVersion(d, part, id, version, c) ==
  [doc |-> d, part |-> part, id |-> id, version |-> version, call |-> None]

\* Key of an object: the version, the call and, for a section, the section row's id.
document_content_key(d, part, id, version, c) ==
  [doc |-> d, part |-> part, id |-> id, version |-> version, call |-> c]

\* Variant: the sections the call does not name are left out.
MergedSectionsOfCall(e) == [s \in args[e[1]].parts |-> [id |-> e, text |-> e[1]]]

\* Sections of the next version: the existing ones, read from storage only
\* when the call brings sections, overlaid with those of the call.
_merged_sections(e) ==
  LET a == args[e[1]]
      rows == sections[a.on]
  IN [s \in DOMAIN rows \cup a.parts |->
        [id |-> IF s \in DOMAIN rows THEN rows[s].id ELSE e,
         text |-> IF s \in a.parts THEN e[1]
                  ELSE IF a.parts = {} THEN Blank
                  ELSE SectionText(a.on, s)]]

\* The Markdown text: the sections if there are any, else the content given.
_render_document_content(c, merged) ==
  IF DOMAIN merged # {} THEN [s \in DOMAIN merged |-> merged[s].text] ELSE [p \in {Body} |-> c]

\* update reads the sections and renders the new content.
ReadSections(e) ==
  /\ run[e].stage = "sections"
  /\ Keep(e, "put", None, None, _merged_sections(e))
  /\ UNCHANGED <<args, tables, objects, result, overlapped>>

Put(contents) ==
  objects' = [k \in DOMAIN objects \cup DOMAIN contents |->
                IF k \in DOMAIN contents THEN contents[k] ELSE objects[k]]

\* Objects of version v of document d: the content and, when the call brings
\* sections, one object per section.
ContentKey(d, v, c) == document_content_key(d, Body, None, v, c)
_section_rows(e, d, v, merged) ==
  [s \in DOMAIN merged |->
     [id |-> merged[s].id, ref |-> document_content_key(d, s, merged[s].id, v, e[1]),
      hash |-> [p \in {s} |-> merged[s].text]]]
VersionObjects(e, d, v, merged) ==
  LET c == e[1]
      rows == IF args[c].parts = {} THEN [s \in {} |-> None] ELSE _section_rows(e, d, v, merged)
  IN [k \in {ContentKey(d, v, c)} \cup {rows[s].ref : s \in DOMAIN rows} |->
        IF k.part = Body THEN _render_document_content(c, merged) ELSE rows[k.part].hash]

\* update writes its objects before the transaction.
PutObjects(e) ==
  /\ run[e].stage = "put"
  /\ LET a == args[e[1]]
     IN /\ Put(VersionObjects(e, a.on, a.at + 1, run[e].base))
        /\ Keep(e, "commit", ContentKey(a.on, a.at + 1, e[1]),
                _render_document_content(e[1], run[e].base), run[e].base)
  /\ UNCHANGED <<args, tables, result, overlapped>>

\* A given parent must be a folder.
ParentAccepted(p) == p = None \/ \E n \in nodes : n.id = p /\ n.type = "folder"

NewSections(e) == [s \in args[e[1]].parts |-> [id |-> e, text |-> e[1]]]

\* create and create_folder up to their transaction; the objects of a new
\* document have names nobody else uses.  The content is written even if the
\* parent is then refused.
Prepare(e) ==
  /\ run[e].stage = "prepare"
  /\ LET a == args[e[1]]
         content == _render_document_content(e[1], NewSections(e))
         objs == VersionObjects(e, e, 1, NewSections(e))
         refused == [k \in {ContentKey(e, 1, e[1])} |-> content]
     IN /\ IF ParentAccepted(a.on)
           THEN Keep(e, "commit", ContentKey(e, 1, e[1]), content, NewSections(e))
           ELSE Answer(e, Error)
        /\ IF a.op = "folder" THEN UNCHANGED objects
           ELSE Put(IF ParentAccepted(a.on) THEN objs ELSE refused)
  /\ UNCHANGED <<args, tables, result, overlapped>>

\* Materialised path: the parent's path, then the slug.
_node_path(parent, slug) ==
  IF parent = None THEN <<slug>> ELSE Append((CHOOSE n \in nodes : n.id = parent).path, slug)

Node(e, type, slug) ==
  LET parent == args[e[1]].on
  IN [id |-> e, type |-> type, parent |-> parent, slug |-> slug, path |-> _node_path(parent, slug)]

\* Slug of a document without one: taken from its title, here the greatest slug.
_slugify(slug) == IF slug # 0 THEN slug ELSE CHOOSE s \in Slugs : \A t \in Slugs : t <= s

\* A create without parent, slug and sections makes no node.
InTree(a) == a.on # None \/ a.slug # 0 \/ a.parts # {}

revision_payload(e, d, v) ==
  [doc |-> d, version |-> v, call |-> e[1], op |-> args[e[1]].op, ref |-> run[e].ref, hash |-> run[e].hash]

\* Variant: finalize only changes the row.
InsertRevisionNotFinal(e, d, v) ==
  IF args[e[1]].op = "finalize" THEN {} ELSE {revision_payload(e, d, v)}

_insert_revision(e, d, v) == {revision_payload(e, d, v)}

\* A unique index rejects the transaction; the exception leaves the executor.
IntegrityError(e) ==
  /\ run' = [run EXCEPT ![e] = [Idle EXCEPT !.stage = "over"]]
  /\ UNCHANGED tables

add_folder_node(e) ==
  /\ run[e].stage = "commit" /\ args[e[1]].op = "folder"
  /\ LET a == args[e[1]]
     IN IF SlugTaken(a.on, a.slug) THEN IntegrityError(e)
        ELSE /\ nodes' = nodes \cup {Node(e, "folder", a.slug)}
             /\ Answer(e, document_result(e, 0, "folder"))
             /\ UNCHANGED <<documents, sections, revisions>>
  /\ UNCHANGED <<args, objects, result, overlapped>>

\* Insert the document, its first revision and, in the tree, node and sections.
add_document_with_revision(e) ==
  /\ run[e].stage = "commit" /\ args[e[1]].op = "create"
  /\ LET a == args[e[1]]
         slug == _slugify(a.slug)
     IN IF find_revision_by_tool_call(e[1]) # {} \/ (InTree(a) /\ SlugTaken(a.on, slug))
        THEN IntegrityError(e)
        ELSE /\ documents' = [documents EXCEPT ![e] =
                                [status |-> "draft", version |-> 1, ref |-> run[e].ref, hash |-> run[e].hash]]
             /\ revisions' = revisions \cup _insert_revision(e, e, 1)
             /\ nodes' = IF InTree(a) THEN nodes \cup {Node(e, "document", slug)} ELSE nodes
             /\ sections' = [sections EXCEPT ![e] = _section_rows(e, e, 1, run[e].base)]
             /\ Answer(e, document_result(e, 1, "draft"))
  /\ UNCHANGED <<args, objects, result, overlapped>>

\* ON CONFLICT (document_id, stable_id): an existing row keeps its id.
_upsert_section(d, rows) ==
  [s \in DOMAIN sections[d] \cup DOMAIN rows |->
     IF s \in DOMAIN rows
     THEN [rows[s] EXCEPT !.id = IF s \in DOMAIN sections[d] THEN sections[d][s].id ELSE rows[s].id]
     ELSE sections[d][s]]

\* update, delete and finalize: compare and swap the row, insert the revision.
update_document_with_revision(e) ==
  /\ run[e].stage = "commit" /\ args[e[1]].op \in {"update", "delete", "finalize"}
  /\ LET a == args[e[1]]
         v == a.at + 1
         status == status_for_revision(a.op)
     IN IF ~ Matches(a.on, a.at)
        THEN Answer(e, Error) /\ UNCHANGED tables
        ELSE IF find_revision_by_tool_call(e[1]) # {} \/ \E r \in revisions : r.doc = a.on /\ r.version = v
        THEN IntegrityError(e)
        ELSE /\ documents' = [documents EXCEPT ![a.on] =
                                [status |-> status, version |-> v, ref |-> run[e].ref, hash |-> run[e].hash]]
             /\ revisions' = revisions \cup _insert_revision(e, a.on, v)
             /\ sections' = IF a.parts = {} THEN sections
                            ELSE [sections EXCEPT ![a.on] =
                                    _upsert_section(a.on, _section_rows(e, a.on, v, run[e].base))]
             /\ Answer(e, document_result(a.on, v, status))
             /\ UNCHANGED nodes
  /\ UNCHANGED <<args, objects, result, overlapped>>

Next ==
  \/ \E c \in Calls : Issue(c) \/ Redeliver(c)
  \/ \E e \in Executions :
       \/ Die(e) \/ Respond(e)
       \/ _replay_result(e) \/ _document_for_analysis(e) \/ ReadSections(e) \/ PutObjects(e) \/ Prepare(e)
       \/ add_folder_node(e) \/ add_document_with_revision(e) \/ update_document_with_revision(e)

Spec == Init /\ [][Next]_vars

-----------------------------------------------------------------------------
(* Properties                                                              *)

Digest(h) ==
  /\ DOMAIN h \in ((SUBSET SectionIds) \ {{}}) \cup {{Body}}
  /\ \A p \in DOMAIN h : h[p] \in Calls \cup {Blank}

\* Types of the variables.
TypeOK ==
  /\ \A c \in Calls : args[c] = None \/ args[c] \in Arguments
  /\ \A e \in Executions : run[e].stage \in Stages
  /\ \A d \in Executions :
       documents[d] # None => /\ documents[d].status \in {"draft", "finalized", "deleted"}
                              /\ documents[d].version \in 1 .. MaxVersion
                              /\ Digest(documents[d].hash)
  /\ \A n \in nodes : n.type \in {"folder", "document"} /\ n.path \in Seq(Slugs)
  /\ \A r \in revisions : r.call \in Calls /\ Digest(r.hash)
  /\ \A k \in DOMAIN objects : Digest(objects[k])
  /\ overlapped \subseteq Calls

RevisionsOf(d) == {r \in revisions : r.doc = d}

\* The history of a document has one revision per version without gaps, and the
\* row is its last revision: two calls that saw the same version cannot both
\* be applied (the compare and swap of update_document_with_revision).
HistoryIsLinear ==
  \A d \in Executions :
    documents[d] # None =>
      /\ {r.version : r \in RevisionsOf(d)} = 1 .. documents[d].version
      /\ Cardinality(RevisionsOf(d)) = documents[d].version
      /\ \E r \in RevisionsOf(d) :
           /\ r.version = documents[d].version /\ r.ref = documents[d].ref /\ r.hash = documents[d].hash
           /\ status_for_revision(r.op) = documents[d].status

\* The object of every revision is there before the revision is visible, and
\* keeps the text whose digest the revision records, also while other calls
\* fail against the same version: objects are named after the call.  A call
\* with two executions at once is excepted: the late one writes the same object.
ContentIntact ==
  \A r \in revisions :
    /\ r.ref \in DOMAIN objects
    /\ r.ref.call \notin overlapped => objects[r.ref] = r.hash

\* The stored result of a call tells what happened, across deaths and
\* redeliveries: success means exactly its revision was written and an error
\* that none was.  Calls with two executions at once are excepted.
ReportedTruthfully ==
  \A c \in Calls :
    (result[c] # None /\ c \notin overlapped /\ args[c].op # "folder") =>
      {[id |-> r.doc, version |-> r.version] : r \in find_revision_by_tool_call(c)} =
        IF result[c].ok THEN {[id |-> result[c].id, version |-> result[c].version]} ELSE {}

\* A document with sections reads as its sections do, unless the last update
\* brought no sections (then every section is rendered blank).
PlainUpdate(d) == \E r \in RevisionsOf(d) : r.op = "update" /\ args[r.call].parts = {}
SectionsAreTheContent ==
  \A d \in Executions :
    (documents[d] # None /\ DOMAIN sections[d] # {} /\ ~ PlainUpdate(d) /\ overlapped = {}) =>
      documents[d].hash = [s \in DOMAIN sections[d] |-> SectionText(d, s)]
=============================================================================
