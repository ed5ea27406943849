------------------------------ MODULE LspServer ------------------------------
(***************************************************************************)
(* The language server of crates/k8s-lsp-server: the Backend handlers, the *)
(* editor that talks to them, the background tasks that feed the schema    *)
(* registry and the cluster index, and the diagnostics the editor shows.   *)
(*                                                                         *)
(* Scheduling.  main awaits Server::serve, which polls every handler from  *)
(* one task and starts them in the order the messages arrived, at most     *)
(* MaxConcurrency of them unfinished.  So a handler runs without another   *)
(* handler in between until it waits for something; the one wait that can  *)
(* last is ClusterState::snapshot in completion.  `current` is the handler *)
(* being polled, `parked` the completions waiting there.  The tasks given  *)
(* to tokio::spawn run on other threads and interleave with every step.    *)
(*                                                                         *)
(* log is every message the editor has sent; the first `taken` of them     *)
(* have been handed to their handler, the others are still in the pipe.    *)
(***************************************************************************)
EXTENDS DocumentStore, AtomicRegistry, ClusterIndex, FiniteSets

CONSTANTS
  Oversize,        \* the texts longer than MAX_FILE_BYTES
  CrdLists,        \* CrdLists[l]: the lists of CRDs loader l may find
  MaxConcurrency,  \* handlers unfinished at once (4 in tower-lsp)
  MaxMessages,     \* bound: messages the editor sends
  MaxBatch,        \* bound: content changes in one didChange
  Requests,        \* bound: the requests the editor may send
  ClusterOptions   \* bound: the shapes initializationOptions.cluster takes

VARIABLES
  phase,           \* "starting" until initialize has been answered
  option,          \* the shape of initializationOptions.cluster
  clusterEnabled,  \* Backend.cluster_enabled
  log, taken,
  current, parked,
  loading,         \* the CRD loader tasks: pc and schemas still to insert
  outbox,          \* publishDiagnostics sent and not yet read by the editor
  shown,           \* the diagnostics the editor shows, by file
  answers          \* the responses sent

serverVars == <<phase, option, clusterEnabled, log, taken, current, parked,
                loading, outbox, shown, answers>>
vars == <<storeVars, dynamic, clusterVars, serverVars>>
----------------------------------------------------------------------------
(***************************************************************************)
(* Messages and values.                                                    *)
(***************************************************************************)
OptionShapes == {"absent", "false", "true", "enabled_false", "enabled_true"}
Loaders == {"cluster", "files"}
Messages == 1 .. MaxMessages

\* The place of the cursor: a field name, a value of field that names a
\* resource of some kind, or any other value.
Places == {"field", "plain"} \cup Kinds

Batches == UNION {[1 .. n -> Texts] : n \in 0 .. MaxBatch}

\* A didClose carries no version: that field of it is not used.
EditMessage ==
  LET Edits(type, batches) == [type : {type}, uri : Uris, version : Nat, texts : batches]
  IN  Edits("didOpen", [1 .. 1 -> Texts]) \cup Edits("didChange", Batches)
      \cup Edits("didClose", {<<>>})
\* part is the part at the cursor, 0 when it lies outside every part.
AskMessage == [type : {"hover", "completion"}, uri : Uris, part : Nat, place : Places]
CommandMessage == [type : {"dumpSnapshot", "refreshCluster"}]
Message == EditMessage \cup AskMessage \cup CommandMessage

MaybeSchema == Schemas \cup {NoSchema}
StoreSnapshot == [revision : 0 .. (RevisionModulus - 1),
                  documents : [Uris -> Document \cup {NoDoc}]]
OpenRef == [uri : Uris, ns : Namespaces \cup {Absent}, name : Names]
ClusterRef == [ns : Namespaces \cup {Absent}, name : Names]

\* msg is the notification that caused it; used[i] is the schema that part i
\* of doc was validated against.
Publication == [msg : Messages, uri : Uris, kind : {"issues", "oversize", "cleared"},
                version : Nat \cup {Absent}, doc : Document \cup {NoDoc},
                used : Seq(MaybeSchema)]
NothingShown == [msg |-> 0, kind |-> "nothing"]

\* What a response was computed from; an empty result is NoSchema and {}.
DataAnswer == [req : Messages, kind : {"data"}, snap : StoreSnapshot, schema : MaybeSchema,
               open : SUBSET OpenRef, cluster : SUBSET ClusterRef]
StatusAnswer == [req : Messages, kind : {"disabled", "refreshing"}]

Waiting == [req : Messages, snap : StoreSnapshot, open : SUBSET OpenRef]

Idle == [pc |-> "idle"]
Working == {Idle} \cup [pc : {"snapshot"}, msg : Messages]
           \cup [pc : {"diagnose"}, msg : Messages, doc : Document, used : Seq(MaybeSchema)]

ASSUME TextAssumption == Oversize \subseteq Texts
ASSUME KeyAssumption == Keys = ApiVersions \X Kinds
ASSUME PlaceAssumption == Kinds \cap {"field", "plain"} = {}
ASSUME LoaderAssumption ==
  CrdLists \in [Loaders -> SUBSET Seq([key : Keys, schema : Schemas])]
ASSUME BoundAssumption ==
  MaxConcurrency \in Nat \ {0} /\ MaxMessages \in Nat /\ MaxBatch \in Nat
ASSUME TaskAssumption == Tasks = 0 .. MaxMessages
ASSUME IndexAssumption == Indexes \subseteq [Kinds -> SUBSET ClusterRef]
ASSUME RequestAssumption == Requests \subseteq AskMessage \cup CommandMessage
ASSUME OptionAssumption == ClusterOptions \subseteq OptionShapes
----------------------------------------------------------------------------
(***************************************************************************)
(* Startup.                                                                *)
(***************************************************************************)
\* Only an object whose member "enabled" is true enables the cluster.
ClusterEnabledFrom(shape) == shape = "enabled_true"

NotLoading == [pc |-> "off", left |-> <<>>]
Listing == [pc |-> "listing", left |-> <<>>]

Init ==
  /\ StoreInit
  /\ RegistryInit
  /\ ClusterInit
  /\ phase = "starting"
  /\ option \in ClusterOptions
  /\ clusterEnabled = FALSE
  /\ log = <<>>
  /\ taken = 0
  /\ current = Idle
  /\ parked = {}
  /\ loading = [l \in Loaders |-> NotLoading]
  /\ outbox = <<>>
  /\ shown = [u \in Uris |-> NothingShown]
  /\ answers = {}

\* initialize: the refresh spawned here is task 0; hasPaths says whether
\* crdSchemaPaths lists a file.
Initialize(hasPaths) ==
  LET enabled == ClusterEnabledFrom(option)
  IN  /\ phase = "starting"
      /\ phase' = "ready"
      /\ clusterEnabled' = enabled
      /\ IF enabled THEN Spawn(0) ELSE UNCHANGED clusterVars
      /\ loading' = [l \in Loaders |->
                       IF (l = "cluster" /\ enabled) \/ (l = "files" /\ hasPaths)
                       THEN Listing ELSE NotLoading]
      /\ UNCHANGED <<storeVars, dynamic, option, log, taken, current, parked,
                     outbox, shown, answers>>
----------------------------------------------------------------------------
(***************************************************************************)
(* The editor.  It opens, changes and closes files in the order the        *)
(* protocol allows and asks only about open files; the version of a text   *)
(* is the place of its message in log.                                     *)
(***************************************************************************)
\* An empty didChange changes nothing, in the editor or in the server.
IsEdit(m) ==
  /\ m.type \in {"didOpen", "didChange", "didClose"}
  /\ m.type = "didChange" => m.texts # <<>>

IsRequest(m) == m.type \in {"hover", "completion", "dumpSnapshot", "refreshCluster"}

EditsOf(u, n) == {i \in 1 .. n : IsEdit(log[i]) /\ log[i].uri = u}

Newest(S) == CHOOSE i \in S : \A j \in S : j <= i

IsOpen(u) ==
  LET edits == EditsOf(u, Len(log))
  IN  edits # {} /\ log[Newest(edits)].type # "didClose"

Send(m) ==
  /\ phase = "ready"
  /\ Len(log) < MaxMessages
  /\ log' = Append(log, m)
  /\ UNCHANGED <<storeVars, dynamic, clusterVars, phase, option, clusterEnabled, taken,
                 current, parked, loading, outbox, shown, answers>>

Edit(type, u, ts) ==
  Send([type |-> type, uri |-> u, version |-> Len(log) + 1, texts |-> ts])

SendOpen(u) == ~IsOpen(u) /\ \E t \in Texts : Edit("didOpen", u, <<t>>)
SendChange(u) == IsOpen(u) /\ \E ts \in Batches : Edit("didChange", u, ts)
SendClose(u) == IsOpen(u) /\ Edit("didClose", u, <<>>)
SendRequest ==
  \E r \in Requests :
    /\ r.type \in {"hover", "completion"} => IsOpen(r.uri)
    /\ Send(r)

\* The editor reads one notification and shows it.
Deliver ==
  /\ outbox # <<>>
  /\ shown' = [shown EXCEPT ![Head(outbox).uri] = Head(outbox)]
  /\ outbox' = Tail(outbox)
  /\ UNCHANGED <<storeVars, dynamic, clusterVars, phase, option, clusterEnabled, log, taken,
                 current, parked, loading, answers>>
----------------------------------------------------------------------------
(***************************************************************************)
(* The notification handlers.                                              *)
(***************************************************************************)
Now == taken + 1

\* Mutants: a handler starts while another one has work left; the limit on
\* unfinished handlers is lost.
TakeEarly(type) ==
  /\ Cardinality(parked) < MaxConcurrency
  /\ taken < Len(log)
  /\ log[Now].type = type
  /\ taken' = Now

TakeUnlimited(type) ==
  /\ current = Idle
  /\ taken < Len(log)
  /\ log[Now].type = type
  /\ taken' = Now

Take(type) ==
  /\ current = Idle
  /\ Cardinality(parked) < MaxConcurrency
  /\ taken < Len(log)
  /\ log[Now].type = type
  /\ taken' = Now

backgroundVars == <<dynamic, clusterVars, phase, option, clusterEnabled, log, loading, shown>>

\* Mutant: a later notification overtakes the earlier ones.
PublishOvertaking(i, u, kind, version, doc, used) ==
  outbox' = <<[msg |-> i, uri |-> u, kind |-> kind, version |-> version,
               doc |-> doc, used |-> used]>> \o outbox

Publish(i, u, kind, version, doc, used) ==
  outbox' = Append(outbox, [msg |-> i, uri |-> u, kind |-> kind, version |-> version,
                            doc |-> doc, used |-> used])

\* Mutant: the document is not removed when the text is too large.
ReceiveKeepingOversize(m, t) ==
  \/ /\ t \in Oversize
     /\ UNCHANGED <<storeVars, current>>
     /\ Publish(Now, m.uri, "oversize", m.version, NoDoc, <<>>)
  \/ /\ t \notin Oversize
     /\ Upsert(m.uri, m.version, t)
     /\ current' = [pc |-> "snapshot", msg |-> Now]
     /\ UNCHANGED outbox

\* The common body of did_open and did_change: t is the text they look at.
Receive(m, t) ==
  \/ /\ t \in Oversize
     /\ Remove(m.uri)
     /\ Publish(Now, m.uri, "oversize", m.version, NoDoc, <<>>)
     /\ UNCHANGED current
  \/ /\ t \notin Oversize
     /\ Upsert(m.uri, m.version, t)
     /\ current' = [pc |-> "snapshot", msg |-> Now]
     /\ UNCHANGED outbox

DidOpen ==
  /\ Take("didOpen")
  /\ Receive(log[Now], log[Now].texts[1])
  /\ UNCHANGED <<backgroundVars, parked, answers>>

\* Only the first content change is looked at.
DidChange ==
  /\ Take("didChange")
  /\ \/ /\ log[Now].texts = <<>>
        /\ UNCHANGED <<storeVars, current, outbox>>
     \/ /\ log[Now].texts # <<>>
        /\ Receive(log[Now], log[Now].texts[1])
  /\ UNCHANGED <<backgroundVars, parked, answers>>

\* Mutant: closing a file does not clear its diagnostics.
DidCloseSilent ==
  /\ Take("didClose")
  /\ Remove(log[Now].uri)
  /\ UNCHANGED <<backgroundVars, current, parked, outbox, answers>>

DidClose ==
  /\ Take("didClose")
  /\ Remove(log[Now].uri)
  /\ Publish(Now, log[Now].uri, "cleared", Absent, NoDoc, <<>>)
  /\ UNCHANGED <<backgroundVars, current, parked, answers>>

\* Mutant: nothing is published for a text without a part.
TakeSnapshotOfParts ==
  /\ current.pc = "snapshot"
  /\ LET doc == documents[log[current.msg].uri]
     IN  current' = IF doc = NoDoc \/ doc.parts = <<>> THEN Idle
                    ELSE [pc |-> "diagnose", msg |-> current.msg, doc |-> doc, used |-> <<>>]
  /\ UNCHANGED <<storeVars, backgroundVars, taken, parked, outbox, answers>>

\* publish_diagnostics begins with a second locked section.
TakeSnapshot ==
  /\ current.pc = "snapshot"
  /\ LET doc == documents[log[current.msg].uri]
     IN  current' = IF doc = NoDoc THEN Idle
                    ELSE [pc |-> "diagnose", msg |-> current.msg, doc |-> doc, used |-> <<>>]
  /\ UNCHANGED <<storeVars, backgroundVars, taken, parked, outbox, answers>>

SchemaFor(part) ==
  IF Absent \in {part.api, part.kind} THEN NoSchema ELSE Lookup(<<part.api, part.kind>>)

\* Each part looks its schema up separately.
DiagnosePart ==
  /\ current.pc = "diagnose"
  /\ LET next == Len(current.used) + 1
     IN  /\ next <= Len(current.doc.parts)
         /\ current' = [current EXCEPT !.used = Append(@, SchemaFor(current.doc.parts[next]))]
  /\ UNCHANGED <<storeVars, backgroundVars, taken, parked, outbox, answers>>

PublishDiagnostics ==
  /\ current.pc = "diagnose"
  /\ Len(current.used) = Len(current.doc.parts)
  /\ LET m == log[current.msg]
     IN  Publish(current.msg, m.uri, "issues", m.version, current.doc, current.used)
  /\ current' = Idle
  /\ UNCHANGED <<storeVars, backgroundVars, taken, parked, answers>>
----------------------------------------------------------------------------
(***************************************************************************)
(* The requests.                                                           *)
(***************************************************************************)
HasPart(docs, m) == docs[m.uri] # NoDoc /\ m.part \in DOMAIN docs[m.uri].parts
PartAt(docs, m) == docs[m.uri].parts[m.part]

\* A name is offered where it may be referred to: in its namespace, or
\* anywhere if the part at the cursor or the resource has none.
Visible(refs, ns) == {r \in refs : Absent \in {ns, r.ns} \/ ns = r.ns}
NameRefs(docs, kind, ns) == Visible(RefsOfKind(docs, kind), ns)
ClusterNames(kind, ns) == Visible(index[kind], ns)

Respond(i, snap, schema, open, cluster) ==
  answers' = answers \cup {[req |-> i, kind |-> "data", snap |-> snap, schema |-> schema,
                            open |-> open, cluster |-> cluster]}

\* hover, and completion of a field name: one lookup.
AnswerFromSchema(m) ==
  LET schema == IF HasPart(documents, m) THEN SchemaFor(PartAt(documents, m)) ELSE NoSchema
  IN  /\ Respond(Now, Snapshot, schema, {}, {})
      /\ UNCHANGED parked

Hover ==
  /\ Take("hover")
  /\ AnswerFromSchema(log[Now])
  /\ UNCHANGED <<storeVars, backgroundVars, current, outbox>>

CompleteField ==
  /\ Take("completion")
  /\ log[Now].place = "field"
  /\ AnswerFromSchema(log[Now])
  /\ UNCHANGED <<storeVars, backgroundVars, current, outbox>>

\* A value that names no resource, or no part at the cursor: None.
CompleteNothing ==
  /\ Take("completion")
  /\ log[Now].place # "field"
  /\ log[Now].place = "plain" \/ ~HasPart(documents, log[Now])
  /\ Respond(Now, Snapshot, NoSchema, {}, {})
  /\ UNCHANGED <<storeVars, backgroundVars, current, parked, outbox>>

\* A value that names a resource: the names in the open files now, the names
\* in the cluster after an await.
CompleteName ==
  /\ Take("completion")
  /\ log[Now].place \in Kinds
  /\ HasPart(documents, log[Now])
  /\ LET m    == log[Now]
         open == NameRefs(documents, m.place, PartAt(documents, m).ns)
     IN  \/ /\ clusterEnabled
            /\ parked' = parked \cup {[req |-> Now, snap |-> Snapshot, open |-> open]}
            /\ UNCHANGED answers
         \/ /\ ~clusterEnabled
            /\ Respond(Now, Snapshot, NoSchema, open, {})
            /\ UNCHANGED parked
  /\ UNCHANGED <<storeVars, backgroundVars, current, outbox>>

\* Mutants: the store is read again after the await; the completion is left
\* parked; it waits for the refreshes to end.
ResumeWithNewText(c) ==
  /\ current = Idle
  /\ c \in parked
  /\ parked' = parked \ {c}
  /\ Respond(c.req, Snapshot, NoSchema, c.open, {})
  /\ UNCHANGED <<storeVars, backgroundVars, taken, current, outbox>>

ResumeAgain(c) ==
  /\ current = Idle
  /\ c \in parked
  /\ LET m == log[c.req]
     IN  Respond(c.req, c.snap, NoSchema, c.open,
                 ClusterNames(m.place, PartAt(c.snap.documents, m).ns))
  /\ UNCHANGED <<storeVars, backgroundVars, taken, current, parked, outbox>>

ResumeAfterRefresh(c) ==
  /\ current = Idle
  /\ c \in parked
  /\ refreshing = {}
  /\ parked' = parked \ {c}
  /\ Respond(c.req, c.snap, NoSchema, c.open, {})
  /\ UNCHANGED <<storeVars, backgroundVars, taken, current, outbox>>

ResumeCompletion(c) ==
  /\ current = Idle
  /\ c \in parked
  /\ parked' = parked \ {c}
  /\ LET m == log[c.req]
     IN  Respond(c.req, c.snap, NoSchema, c.open,
                 ClusterNames(m.place, PartAt(c.snap.documents, m).ns))
  /\ UNCHANGED <<storeVars, backgroundVars, taken, current, outbox>>

DumpSnapshot ==
  /\ Take("dumpSnapshot")
  /\ Respond(Now, Snapshot, NoSchema, {}, {})
  /\ UNCHANGED <<storeVars, backgroundVars, current, parked, outbox>>

\* Mutant: the command refreshes although the cluster is disabled.
RefreshAlways ==
  /\ Take("refreshCluster")
  /\ Spawn(Now)
  /\ answers' = answers \cup {[req |-> Now, kind |-> "refreshing"]}
  /\ UNCHANGED <<storeVars, dynamic, phase, option, clusterEnabled, log, loading, shown,
                 current, parked, outbox>>

\* k8s-lsp.refreshCluster answers before the refresh it spawns has run.
RefreshCluster ==
  /\ Take("refreshCluster")
  /\ \/ /\ ~clusterEnabled
        /\ answers' = answers \cup {[req |-> Now, kind |-> "disabled"]}
        /\ UNCHANGED clusterVars
     \/ /\ clusterEnabled
        /\ Spawn(Now)
        /\ answers' = answers \cup {[req |-> Now, kind |-> "refreshing"]}
  /\ UNCHANGED <<storeVars, dynamic, phase, option, clusterEnabled, log, loading, shown,
                 current, parked, outbox>>
----------------------------------------------------------------------------
(***************************************************************************)
(* The background tasks.                                                   *)
(***************************************************************************)
FinishRefresh(t) ==
  /\ Abandon(t) \/ \E i \in Indexes : Commit(t, i)
  /\ UNCHANGED <<storeVars, dynamic, serverVars>>

\* list_crds or load_crds_from_paths returns.
LoaderListed(l) ==
  /\ loading[l].pc = "listing"
  /\ \E found \in CrdLists[l] :
       loading' = [loading EXCEPT ![l] = [pc |-> "inserting", left |-> found]]
  /\ UNCHANGED <<storeVars, dynamic, clusterVars, phase, option, clusterEnabled, log, taken,
                 current, parked, outbox, shown, answers>>

LoaderInsert(l) ==
  /\ loading[l].left # <<>>
  /\ LET crd == Head(loading[l].left) IN InsertDynamic(crd.key, crd.schema)
  /\ loading' = [loading EXCEPT ![l].left = Tail(@)]
  /\ UNCHANGED <<storeVars, clusterVars, phase, option, clusterEnabled, log, taken,
                 current, parked, outbox, shown, answers>>
----------------------------------------------------------------------------
EditorStep ==
  \/ \E u \in Uris : SendOpen(u) \/ SendChange(u) \/ SendClose(u)
  \/ SendRequest

HandlerStep ==
  \/ DidOpen \/ DidChange \/ DidClose
  \/ TakeSnapshot \/ DiagnosePart \/ PublishDiagnostics
  \/ Hover \/ CompleteField \/ CompleteNothing \/ CompleteName
  \/ DumpSnapshot \/ RefreshCluster

BackgroundStep ==
  \/ \E t \in Tasks : FinishRefresh(t)
  \/ \E l \in Loaders : LoaderListed(l) \/ LoaderInsert(l)

Quiet ==
  /\ taken = Len(log)
  /\ current = Idle
  /\ outbox = <<>>

\* Nothing is left to do: the editor has sent all the messages of the bound.
Finished ==
  /\ Quiet
  /\ Len(log) = MaxMessages
  /\ parked = {}
  /\ UNCHANGED vars

Next ==
  \/ \E hasPaths \in BOOLEAN : Initialize(hasPaths)
  \/ EditorStep
  \/ Deliver
  \/ HandlerStep
  \/ \E c \in parked : ResumeCompletion(c)
  \/ BackgroundStep
  \/ Finished

Spec == Init /\ [][Next]_vars

(***************************************************************************)
(* tokio polls the server task while it has something to do, the lock that *)
(* a parked completion waits for is never held across I/O, and the editor  *)
(* reads its pipe.  The editor need not send anything, and a loader or a   *)
(* refresh may take for ever.                                              *)
(***************************************************************************)
Fairness ==
  /\ WF_vars(HandlerStep)
  /\ WF_vars(Deliver)
  /\ \A i \in Messages : WF_vars(\E c \in parked : c.req = i /\ ResumeCompletion(c))

FairSpec == Spec /\ Fairness
----------------------------------------------------------------------------
(***************************************************************************)
(* Properties.                                                             *)
(***************************************************************************)
\* Every variable keeps its type, and no more handlers are unfinished than
\* the transport allows.
TypeOK ==
  /\ StoreTypeOK
  /\ RegistryTypeOK
  /\ ClusterTypeOK
  /\ phase \in {"starting", "ready"}
  /\ option \in ClusterOptions
  /\ clusterEnabled \in BOOLEAN
  /\ log \in Seq(Message)
  /\ Len(log) <= MaxMessages
  /\ taken \in 0 .. Len(log)
  /\ current \in Working
  /\ parked \subseteq Waiting
  /\ Cardinality(parked) <= MaxConcurrency
  /\ loading \in [Loaders -> [pc : {"off", "listing", "inserting"},
                              left : Seq([key : Keys, schema : Schemas])]]
  /\ outbox \in Seq(Publication)
  /\ shown \in [Uris -> Publication \cup {NothingShown}]
  /\ answers \subseteq DataAnswer \cup StatusAnswer

\* A handler that publishes works on the message taken last, and a parked
\* completion on an earlier one: no handler takes over the place of another.
HandlersOK ==
  /\ current # Idle => /\ current.msg = taken
                       /\ IsEdit(log[taken])
                       /\ log[taken].type # "didClose"
  /\ \A c \in parked : /\ c.req <= taken
                       /\ log[c.req].type = "completion"
                       /\ log[c.req].place \in Kinds
                       /\ HasPart(c.snap.documents, log[c.req])
  /\ \A a \in answers : a.req <= taken /\ IsRequest(log[a.req])

\* What the editor's file is after an edit: the last content change counts,
\* and the server holds no document for a closed or an oversize file.
DocAfter(m) ==
  IF m.type = "didClose" \/ m.texts[Len(m.texts)] \in Oversize THEN NoDoc
  ELSE NewDocument(m.uri, m.version, m.texts[Len(m.texts)])

\* The open files of the editor when it had sent the first n messages.
EditorDocs(n) ==
  [u \in Uris |-> IF EditsOf(u, n) = {} THEN NoDoc ELSE DocAfter(log[Newest(EditsOf(u, n))])]

\* The store holds, for every file, the latest text among the messages
\* handled so far, under the version the editor gave it, and nothing for a
\* closed or an oversize file (did_open, did_change, did_close).
StoreMirrorsEditor == documents = EditorDocs(taken)

\* A hover, a completion or a dump is computed from the files as they were
\* when the editor asked: no earlier edit is missing from it, and no later
\* one leaks into it while the completion awaits the cluster index; the names
\* a completion offers from open files are exactly those of that moment.
DataAnswers == {a \in answers : a.kind = "data"}
AnswersUseAskedText ==
  /\ \A a \in DataAnswers \cup parked : a.snap.documents = EditorDocs(a.req)
  /\ \A a \in DataAnswers :
       LET m == log[a.req]
       IN  m.type = "completion" /\ m.place \in Kinds /\ HasPart(EditorDocs(a.req), m) =>
             a.open = NameRefs(EditorDocs(a.req), m.place, PartAt(EditorDocs(a.req), m).ns)

\* No request is answered twice, and one that is parked has not been answered
\* (completion resumes once, refreshCluster does not answer again when the
\* refresh ends).
OneAnswerPerRequest ==
  /\ \A a, b \in answers : a.req = b.req => a = b
  /\ \A a \in answers, c \in parked : a.req # c.req
  /\ \A c, d \in parked : c.req = d.req => c = d

\* The revision of a snapshot identifies the documents in it, removals
\* included (the revision that dumpSnapshot reports).
SnapshotFaithful ==
  \A a, b \in DataAnswers : a.snap.revision = b.snap.revision => a.snap = b.snap

\* Diagnostics tagged with a version were computed from the text of that
\* version, one schema lookup for each part, although publish_diagnostics
\* reads the store again after the upsert.
Publications == {outbox[i] : i \in DOMAIN outbox} \cup {shown[u] : u \in Uris}
DiagnosticsMatchVersion ==
  \A p \in Publications :
    p.kind = "issues" => /\ p.doc = DocAfter(log[p.msg])
                         /\ p.version = log[p.msg].version
                         /\ p.uri = log[p.msg].uri
                         /\ Len(p.used) = Len(p.doc.parts)

\* When the server has nothing left to do, the editor shows for every file it
\* touched the outcome of its latest edit, computed from the document the
\* store holds: no file keeps the diagnostics of a text it no longer has.
DiagnosticsAgree ==
  Quiet => \A u \in Uris :
             EditsOf(u, taken) # {} => /\ shown[u].msg = Newest(EditsOf(u, taken))
                                       /\ shown[u].doc = documents[u]

\* The diagnostics of an older edit never replace those of a newer one.
ShownInOrder == [][\A u \in Uris : shown'[u].msg >= shown[u].msg]_vars

\* A schema that one publication validated with is not missing from a later
\* publication on the same file: loading CRDs never loses a key.  Two parts of
\* one publication may differ, if a loader inserts between their lookups.
SameKey(p, q) == p.api = q.api /\ p.kind = q.kind
SchemasNotForgotten ==
  [][\A u \in Uris :
       LET a == shown[u]
           b == shown'[u]
       IN  a.kind = "issues" /\ b.kind = "issues" /\ a.msg < b.msg =>
             \A i \in DOMAIN a.used, j \in DOMAIN b.used :
               SameKey(a.doc.parts[i], b.doc.parts[j]) /\ a.used[i] # NoSchema
                 => b.used[j] # NoSchema]_vars

\* Unless the user enabled the cluster, no task contacts it and no answer
\* holds a name from it, whatever commands the editor sends.
OfflineUnlessEnabled ==
  phase = "ready" /\ option # "enabled_true" =>
    /\ refreshing = {}
    /\ loading["cluster"] = NotLoading
    /\ parked = {}
    /\ \A a \in DataAnswers : a.cluster = {}

\* Every request the editor sends is answered in the end.
EveryRequestAnswered ==
  \A i \in Messages :
    (i \in DOMAIN log /\ IsRequest(log[i])) ~> (\E a \in answers : a.req = i)

\* The editor comes to show the outcome of every edit, or of a later one.
EditsEventuallyShown ==
  \A i \in Messages, u \in Uris :
    (i \in DOMAIN log /\ IsEdit(log[i]) /\ log[i].uri = u) ~> (shown[u].msg >= i)
==============================================================================
