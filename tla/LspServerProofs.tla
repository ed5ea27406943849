--------------------------- MODULE LspServerProofs ---------------------------
(***************************************************************************)
(* Theorems about LspServer, for every value of its constants.             *)
(***************************************************************************)
EXTENDS LspServer, TLAPS, FiniteSetTheorems, SequenceTheorems, WellFoundedInduction

(***************************************************************************)
(* What the parts of the model return.                                     *)
(***************************************************************************)
\* A document made from a text of the editor is a Document.
LEMMA DocumentType ==
  ASSUME NEW u \in Uris, NEW v \in Nat, NEW t \in Texts
  PROVE  NewDocument(u, v, t) \in Document
<1>1. Parse[t] \in Seq(Part)
  BY ParseAssumption
<1>2. ApplyKustomizationFallback(u, Parse[t]) \in Seq(Part)
  <2>1. CASE Len(Parse[t]) = 1 
    <3>1. Parse[t][1] \in Part
      BY <1>1, <2>1
    <3>2. [Parse[t][1] EXCEPT !.api = KustomizeApi, !.kind = KustomizeKind] \in Part
      BY <3>1, IdentityAssumption DEF Part
    <3> QED
      BY <1>1, <3>2 DEF ApplyKustomizationFallback
  <2>2. CASE Len(Parse[t]) # 1
    BY <1>1, <2>2 DEF ApplyKustomizationFallback
  <2> QED
    BY <2>1, <2>2
<1> QED
  BY <1>2 DEF NewDocument, Document

\* A lookup returns a schema or NoSchema.
LEMMA LookupType ==
  ASSUME RegistryTypeOK, NEW part \in Part
  PROVE  SchemaFor(part) \in MaybeSchema
BY BundleAssumption, KeyAssumption
DEF RegistryTypeOK, Part, SchemaFor, Lookup, MaybeSchema

\* The store operations keep the store's type.
LEMMA UpsertType ==
  ASSUME StoreTypeOK, NEW u \in Uris, NEW v \in Nat, NEW t \in Texts, Upsert(u, v, t)
  PROVE  StoreTypeOK'
BY DocumentType, ModulusAssumption DEF StoreTypeOK, Upsert, NextRevision

\* A removal keeps the types of the store.
LEMMA RemoveType ==
  ASSUME StoreTypeOK, NEW u \in Uris, Remove(u)
  PROVE  StoreTypeOK'
BY ModulusAssumption DEF StoreTypeOK, Remove, NextRevision

\* What snapshot returns is a snapshot.
LEMMA SnapshotType ==
  ASSUME StoreTypeOK
  PROVE  Snapshot \in StoreSnapshot
BY DEF StoreTypeOK, Snapshot, StoreSnapshot

\* A new publication has the type of a publication, and the queue of them
\* keeps its type.
LEMMA PublishType ==
  ASSUME outbox \in Seq(Publication), NEW i \in Messages, NEW u \in Uris,
         NEW kind \in {"issues", "oversize", "cleared"}, NEW version \in Nat \cup {Absent},
         NEW doc \in Document \cup {NoDoc}, NEW used \in Seq(MaybeSchema),
         Publish(i, u, kind, version, doc, used)
  PROVE  outbox' \in Seq(Publication)
<1> DEFINE p == [msg |-> i, uri |-> u, kind |-> kind, version |-> version,
                 doc |-> doc, used |-> used]
<1>1. p \in Publication
  BY DEF Publication
<1>2. outbox' = Append(outbox, p)
  BY DEF Publish
<1> QED
  BY <1>1, <1>2

\* So have the responses.
LEMMA RespondType ==
  ASSUME answers \subseteq DataAnswer \cup StatusAnswer, NEW i \in Messages,
         NEW snap \in StoreSnapshot, NEW schema \in MaybeSchema,
         NEW open \in SUBSET OpenRef, NEW cluster \in SUBSET ClusterRef,
         Respond(i, snap, schema, open, cluster)
  PROVE  answers' \subseteq DataAnswer \cup StatusAnswer
<1> DEFINE a == [req |-> i, kind |-> "data", snap |-> snap, schema |-> schema,
                 open |-> open, cluster |-> cluster]
<1>1. a \in DataAnswer
  BY DEF DataAnswer
<1> QED
  BY <1>1 DEF Respond

\* The names completion takes from open files are references of open files.
LEMMA NameRefsType ==
  ASSUME NEW docs, NEW kind, NEW ns
  PROVE  NameRefs(docs, kind, ns) \in SUBSET OpenRef
BY DEF NameRefs, RefsOfKind, Visible, OpenRef

\* The names completion takes from the cluster index are references of the cluster.
LEMMA ClusterNamesType ==
  ASSUME ClusterTypeOK, NEW kind \in Kinds, NEW ns
  PROVE  ClusterNames(kind, ns) \in SUBSET ClusterRef
<1>1. index \in [Kinds -> SUBSET ClusterRef]
  BY IndexAssumption DEF ClusterTypeOK
<1> QED
  BY <1>1 DEF ClusterNames, Visible

\* What a handler knows of the message it takes.
LEMMA TakeType ==
  ASSUME TypeOK, NEW type, Take(type)
  PROVE  /\ Now \in Messages
         /\ taken' = Now
         /\ taken' \in 0 .. Len(log)
         /\ log[Now] \in Message
         /\ log[Now].type = type
         /\ current = Idle
BY BoundAssumption DEF TypeOK, Take, Now, Messages

\* The parts of a message that each handler relies on.
LEMMA MessageType ==
  ASSUME NEW m \in Message
  PROVE  /\ m.type \in {"didOpen", "didChange", "didClose"} =>
              m \in EditMessage /\ m.uri \in Uris /\ m.version \in Nat /\ m.texts \in Seq(Texts)
         /\ m.type = "didOpen" => m.texts[1] \in Texts
         /\ m.type = "didChange" /\ m.texts # <<>> => m.texts[1] \in Texts
         /\ m.type \in {"hover", "completion"} => m \in AskMessage
<1>1. CASE m \in EditMessage
  <2>1. CASE m.type = "didOpen"
    <3>1. m.texts \in [1 .. 1 -> Texts] /\ m.uri \in Uris /\ m.version \in Nat
      BY <1>1, <2>1 DEF EditMessage
    <3>2. m.texts[1] \in Texts
      BY <3>1
    <3>3. m.texts \in Seq(Texts)
      BY <3>1, SeqDef
    <3> QED
      BY <1>1, <2>1, <3>1, <3>2, <3>3
  <2>2. CASE m.type = "didChange"
    <3>1. m.texts \in Batches /\ m.uri \in Uris /\ m.version \in Nat
      BY <1>1, <2>2 DEF EditMessage
    <3>2. m.texts \in Seq(Texts)
      BY <3>1, BoundAssumption, SeqDef DEF Batches
    <3> QED
      BY <1>1, <2>2, <3>1, <3>2
  <2>3. CASE m.type = "didClose"
    <3>1. m.texts = <<>> /\ m.uri \in Uris /\ m.version \in Nat
      BY <1>1, <2>3 DEF EditMessage
    <3> QED
      BY <1>1, <2>3, <3>1
  <2> QED
    BY <1>1, <2>1, <2>2, <2>3 DEF EditMessage
<1>2. CASE m \in AskMessage \cup CommandMessage
  BY <1>2 DEF AskMessage, CommandMessage
<1> QED
  BY <1>1, <1>2 DEF Message

----------------------------------------------------------------------------
(***************************************************************************)
(* Type correctness.                                                       *)
(***************************************************************************)
TypeInv == TypeOK /\ HandlersOK /\ IsFiniteSet(parked)

\* The invariant holds before the first message.
LEMMA InitTypeInv == Init => TypeInv
<1> SUFFICES ASSUME Init PROVE TypeInv
  OBVIOUS
<1>1. StoreTypeOK
  BY ModulusAssumption DEF Init, StoreInit, StoreTypeOK
<1>2. RegistryTypeOK
  BY DEF Init, RegistryInit, RegistryTypeOK
<1>3. ClusterTypeOK
  BY EmptyIndexAssumption DEF Init, ClusterInit, ClusterTypeOK
<1>4. IsFiniteSet(parked) /\ Cardinality(parked) <= MaxConcurrency
  BY FS_EmptySet, BoundAssumption DEF Init
<1>5. log \in Seq(Message) /\ Len(log) = 0 /\ outbox \in Seq(Publication)
  BY DEF Init
<1>6. loading \in [Loaders -> [pc : {"off", "listing", "inserting"},
                               left : Seq([key : Keys, schema : Schemas])]]
  BY DEF Init, NotLoading
<1>7. TypeOK
  <2>1. shown \in [Uris -> Publication \cup {NothingShown}]
    BY DEF Init
  <2>2. current \in Working /\ phase \in {"starting", "ready"}
        /\ option \in ClusterOptions /\ clusterEnabled \in BOOLEAN
    BY DEF Init, Working
  <2>3. Len(log) <= MaxMessages /\ taken \in 0 .. Len(log)
    BY <1>5, BoundAssumption DEF Init
  <2>4. parked \subseteq Waiting /\ answers \subseteq DataAnswer \cup StatusAnswer
    BY DEF Init
  <2> QED
    BY <1>1, <1>2, <1>3, <1>4, <1>5, <1>6, <2>1, <2>2, <2>3, <2>4 DEF TypeOK
<1>8. HandlersOK
  BY DEF Init, HandlersOK
<1> QED
  BY <1>4, <1>7, <1>8 DEF TypeInv

\* The common body of did_open and did_change.
LEMMA ReceiveType ==
  ASSUME TypeOK, Now \in Messages, NEW m, m.uri \in Uris, m.version \in Nat,
         NEW t \in Texts, Receive(m, t)
  PROVE  StoreTypeOK' /\ outbox' \in Seq(Publication) /\ current' \in Working
<1>1. CASE /\ Remove(m.uri)
           /\ Publish(Now, m.uri, "oversize", m.version, NoDoc, <<>>)
           /\ UNCHANGED current
  <2>1. StoreTypeOK'
    BY <1>1, RemoveType DEF TypeOK
  <2>2. outbox \in Seq(Publication) /\ NoDoc \in Document \cup {NoDoc} /\ <<>> \in Seq(MaybeSchema)
    BY DEF TypeOK
  <2>3. outbox' \in Seq(Publication)
    BY <1>1, <2>2, PublishType
  <2> QED
    BY <1>1, <2>1, <2>3 DEF TypeOK
<1>2. CASE /\ Upsert(m.uri, m.version, t)
           /\ current' = [pc |-> "snapshot", msg |-> Now]
           /\ UNCHANGED outbox
  <2>1. StoreTypeOK'
    BY <1>2, UpsertType DEF TypeOK
  <2>2. current' \in Working
    BY <1>2 DEF Working
  <2> QED
    BY <1>2, <2>1, <2>2 DEF TypeOK
<1> QED
  BY <1>1, <1>2 DEF Receive

\* Every step keeps the types, and adds one completion at most to those parked.
LEMMA NextTypeOK == TypeInv /\ [Next]_vars => (TypeOK /\ IsFiniteSet(parked))'
<1> DEFINE Goal == TypeOK /\ IsFiniteSet(parked)
<1> SUFFICES ASSUME TypeInv, [Next]_vars PROVE Goal'
  OBVIOUS
<1> USE DEF TypeInv
<1>1. ASSUME NEW hasPaths \in BOOLEAN, Initialize(hasPaths)
      PROVE  Goal'
  <2>1. ClusterTypeOK'
    <3>1. 0 \in Tasks
      BY TaskAssumption, BoundAssumption
    <3>2. CASE Spawn(0)
      BY <3>1, <3>2 DEF TypeOK, Spawn, ClusterTypeOK
    <3>3. CASE UNCHANGED clusterVars
      BY <3>3 DEF TypeOK, ClusterTypeOK, clusterVars
    <3> QED
      BY <1>1, <3>2, <3>3 DEF Initialize
  <2>2. loading' \in [Loaders -> [pc : {"off", "listing", "inserting"},
                                  left : Seq([key : Keys, schema : Schemas])]]
    BY <1>1 DEF Initialize, Listing, NotLoading
  <2>3. clusterEnabled' \in BOOLEAN
    BY <1>1 DEF Initialize, ClusterEnabledFrom
  <2> QED
    BY <1>1, <2>1, <2>2, <2>3
    DEF TypeOK, Initialize, StoreTypeOK, storeVars, RegistryTypeOK
<1>2. ASSUME NEW m \in Message, Send(m)
      PROVE  Goal'
  <2>1. log' \in Seq(Message) /\ Len(log') = Len(log) + 1 /\ Len(log) \in Nat
    BY <1>2 DEF TypeOK, Send
  <2>2. Len(log') <= MaxMessages /\ taken' \in 0 .. Len(log')
    BY <1>2, <2>1, BoundAssumption DEF TypeOK, Send
  <2> QED
    BY <1>2, <2>1, <2>2
    DEF TypeOK, Send, StoreTypeOK, storeVars, RegistryTypeOK, ClusterTypeOK, clusterVars
<1>3. ASSUME EditorStep
      PROVE  Goal'
  <2>1. ASSUME NEW u \in Uris, SendOpen(u)
        PROVE  Goal'
    <3>1. PICK t \in Texts : Edit("didOpen", u, <<t>>)
      BY <2>1 DEF SendOpen
    <3>2. [type |-> "didOpen", uri |-> u, version |-> Len(log) + 1, texts |-> <<t>>] \in Message
      BY DEF TypeOK, Message, EditMessage
    <3> QED
      BY <1>2, <3>1, <3>2 DEF Edit
  <2>2. ASSUME NEW u \in Uris, SendChange(u)
        PROVE  Goal'
    <3>1. PICK ts \in Batches : Edit("didChange", u, ts)
      BY <2>2 DEF SendChange
    <3>2. [type |-> "didChange", uri |-> u, version |-> Len(log) + 1, texts |-> ts] \in Message
      BY DEF TypeOK, Message, EditMessage
    <3> QED
      BY <1>2, <3>1, <3>2 DEF Edit
  <2>3. ASSUME NEW u \in Uris, SendClose(u)
        PROVE  Goal'
    <3>1. [type |-> "didClose", uri |-> u, version |-> Len(log) + 1, texts |-> <<>>] \in Message
      BY DEF TypeOK, Message, EditMessage
    <3> QED
      BY <1>2, <2>3, <3>1 DEF SendClose, Edit
  <2>4. ASSUME SendRequest
        PROVE  Goal'
    BY <1>2, <2>4, RequestAssumption DEF SendRequest, Message
  <2> QED
    BY <1>3, <2>1, <2>2, <2>3, <2>4 DEF EditorStep
<1>4. ASSUME Deliver
      PROVE  Goal'
  <2>1. Head(outbox) \in Publication /\ outbox' \in Seq(Publication)
    BY <1>4 DEF TypeOK, Deliver
  <2>2. shown' \in [Uris -> Publication \cup {NothingShown}]
    BY <1>4, <2>1 DEF TypeOK, Deliver
  <2> QED
    BY <1>4, <2>1, <2>2
    DEF TypeOK, Deliver, StoreTypeOK, storeVars, RegistryTypeOK, ClusterTypeOK, clusterVars
<1>5. ASSUME DidOpen \/ DidChange \/ DidClose
      PROVE  Goal'
  <2> DEFINE m == log[Now]
  <2>1. ASSUME NEW type \in {"didOpen", "didChange", "didClose"}, Take(type)
        PROVE  /\ Now \in Messages
               /\ taken' \in 0 .. Len(log)
               /\ m.uri \in Uris
               /\ m.version \in Nat
               /\ type = "didOpen" => m.texts[1] \in Texts
               /\ type = "didChange" /\ m.texts # <<>> => m.texts[1] \in Texts
    <3>1. m \in Message /\ m.type = type
      BY <2>1, TakeType
    <3> QED
      BY <2>1, <3>1, TakeType, MessageType
  <2>2. ASSUME UNCHANGED <<backgroundVars, parked, answers>>,
               taken' \in 0 .. Len(log), StoreTypeOK',
               outbox' \in Seq(Publication), current' \in Working
        PROVE  Goal'
    BY <2>2 DEF TypeOK, backgroundVars, RegistryTypeOK, ClusterTypeOK, clusterVars
  <2>3. CASE DidOpen
    <3>1. Take("didOpen") /\ Receive(m, m.texts[1]) /\ UNCHANGED <<backgroundVars, parked, answers>>
      BY <2>3 DEF DidOpen
    <3> QED
      BY <2>1, <2>2, <3>1, ReceiveType
  <2>4. CASE DidChange
    <3>1. Take("didChange") /\ UNCHANGED <<backgroundVars, parked, answers>>
      BY <2>4 DEF DidChange
    <3>2. CASE UNCHANGED <<storeVars, current, outbox>>
      BY <2>1, <2>2, <3>1, <3>2 DEF TypeOK, StoreTypeOK, storeVars
    <3>3. CASE m.texts # <<>> /\ Receive(m, m.texts[1])
      BY <2>1, <2>2, <3>1, <3>3, ReceiveType
    <3> QED
      BY <2>4, <3>2, <3>3 DEF DidChange
  <2>5. CASE DidClose
    <3>1. Take("didClose") /\ UNCHANGED <<backgroundVars, parked, answers>>
      BY <2>5 DEF DidClose
    <3>2. StoreTypeOK' /\ current' \in Working
      BY <2>1, <2>5, <3>1, RemoveType DEF DidClose, TypeOK
    <3>3. outbox \in Seq(Publication) /\ <<>> \in Seq(MaybeSchema)
      BY DEF TypeOK
    <3>4. outbox' \in Seq(Publication)
      BY <2>1, <2>5, <3>1, <3>3, PublishType DEF DidClose
    <3> QED
      BY <2>1, <2>2, <3>1, <3>2, <3>4
  <2> QED
    BY <1>5, <2>3, <2>4, <2>5
<1>6. ASSUME TakeSnapshot \/ DiagnosePart \/ PublishDiagnostics
      PROVE  Goal'
  <2>1. ASSUME UNCHANGED <<storeVars, backgroundVars, taken, parked, answers>>,
               outbox' \in Seq(Publication), current' \in Working
        PROVE  Goal'
    BY <2>1 DEF TypeOK, backgroundVars, StoreTypeOK, storeVars, RegistryTypeOK,
                ClusterTypeOK, clusterVars
  <2>2. current # Idle
    BY <1>6 DEF TakeSnapshot, DiagnosePart, PublishDiagnostics, Idle
  <2>3. current.msg \in Messages /\ log[current.msg].uri \in Uris
        /\ log[current.msg].version \in Nat
    <3>1. current.msg = taken /\ IsEdit(log[taken])
      BY <2>2 DEF HandlersOK
    <3>2. current.msg \in Messages
      BY <2>2 DEF TypeOK, Working
    <3>3. log[taken] \in Message
      BY <3>1, <3>2 DEF TypeOK, Messages
    <3> QED
      BY <3>1, <3>2, <3>3, MessageType DEF IsEdit
  <2>4. CASE TakeSnapshot
    <3> DEFINE doc == documents[log[current.msg].uri]
    <3>1. doc \in Document \cup {NoDoc}
      BY <2>3 DEF TypeOK, StoreTypeOK
    <3>2. CASE doc = NoDoc
      BY <2>1, <2>4, <3>2 DEF TakeSnapshot, TypeOK, Working
    <3>3. CASE doc # NoDoc
      <4>1. current' = [pc |-> "diagnose", msg |-> current.msg, doc |-> doc, used |-> <<>>]
        BY <2>4, <3>3 DEF TakeSnapshot
      <4>2. current' \in Working
        BY <2>3, <3>1, <3>3, <4>1 DEF Working
      <4> QED
        BY <2>1, <2>4, <4>2 DEF TakeSnapshot, TypeOK
    <3> QED
      BY <3>2, <3>3
  <2>5. CASE DiagnosePart
    <3> DEFINE next == Len(current.used) + 1
    <3>1. current \in [pc : {"diagnose"}, msg : Messages, doc : Document, used : Seq(MaybeSchema)]
      BY <2>5 DEF DiagnosePart, TypeOK, Working, Idle
    <3>2. next \in DOMAIN current.doc.parts
      BY <2>5, <3>1 DEF DiagnosePart, Document
    <3>3. SchemaFor(current.doc.parts[next]) \in MaybeSchema
      BY <3>1, <3>2, LookupType DEF TypeOK, Document
    <3>4. current' = [current EXCEPT !.used = Append(current.used, SchemaFor(current.doc.parts[next]))]
      BY <2>5 DEF DiagnosePart
    <3>5. Append(current.used, SchemaFor(current.doc.parts[next])) \in Seq(MaybeSchema)
      BY <3>1, <3>3
    <3>6. current' \in [pc : {"diagnose"}, msg : Messages, doc : Document, used : Seq(MaybeSchema)]
      BY <3>1, <3>4, <3>5
    <3>7. current' \in Working
      BY <3>6 DEF Working
    <3> QED
      BY <2>1, <2>5, <3>7 DEF DiagnosePart, TypeOK
  <2>6. CASE PublishDiagnostics
    <3>1. current \in [pc : {"diagnose"}, msg : Messages, doc : Document, used : Seq(MaybeSchema)]
      BY <2>6 DEF PublishDiagnostics, TypeOK, Working, Idle
    <3>2. outbox' \in Seq(Publication)
      BY <2>3, <2>6, <3>1, PublishType DEF PublishDiagnostics, TypeOK
    <3> QED
      BY <2>1, <2>6, <3>2 DEF PublishDiagnostics, Working
  <2> QED
    BY <1>6, <2>4, <2>5, <2>6
<1>7. ASSUME Hover \/ CompleteField \/ CompleteNothing \/ CompleteName \/ DumpSnapshot
      PROVE  Goal'
  <2> DEFINE m == log[Now]
  <2>1. ASSUME NEW type, Take(type)
        PROVE  /\ Now \in Messages
               /\ taken' \in 0 .. Len(log)
               /\ Cardinality(parked) < MaxConcurrency
               /\ type \in {"hover", "completion"} => m \in AskMessage
    BY <2>1, TakeType, MessageType DEF Take
  <2>2. ASSUME UNCHANGED <<storeVars, backgroundVars, current, outbox>>,
               taken' \in 0 .. Len(log), parked' \subseteq Waiting, IsFiniteSet(parked'),
               Cardinality(parked') <= MaxConcurrency,
               answers' \subseteq DataAnswer \cup StatusAnswer
        PROVE  Goal'
    BY <2>2 DEF TypeOK, backgroundVars, StoreTypeOK, storeVars, RegistryTypeOK,
                ClusterTypeOK, clusterVars
  <2>3. Snapshot \in StoreSnapshot
    BY SnapshotType DEF TypeOK
  <2>4. NoSchema \in MaybeSchema /\ {} \in SUBSET OpenRef /\ {} \in SUBSET ClusterRef
    BY DEF MaybeSchema
  <2>5. ASSUME NEW schema \in MaybeSchema, NEW open \in SUBSET OpenRef, Now \in Messages,
               Respond(Now, Snapshot, schema, open, {})
        PROVE  answers' \subseteq DataAnswer \cup StatusAnswer
    BY <2>3, <2>4, <2>5, RespondType DEF TypeOK
  <2>6. ASSUME NEW type \in {"hover", "completion"}, Take(type), AnswerFromSchema(m)
        PROVE  answers' \subseteq DataAnswer \cup StatusAnswer /\ UNCHANGED parked
    <3> DEFINE schema == IF HasPart(documents, m) THEN SchemaFor(PartAt(documents, m)) ELSE NoSchema
    <3>1. m.uri \in Uris
      BY <2>1, <2>6 DEF AskMessage
    <3>2. ASSUME HasPart(documents, m)
          PROVE  SchemaFor(PartAt(documents, m)) \in MaybeSchema
      <4>1. documents[m.uri] \in Document
        BY <3>1, <3>2 DEF HasPart, TypeOK, StoreTypeOK
      <4>2. PartAt(documents, m) \in Part
        BY <3>2, <4>1 DEF HasPart, PartAt, Document
      <4> QED
        BY <3>2, <4>2, LookupType DEF TypeOK
    <3>3. schema \in MaybeSchema
      BY <3>2 DEF MaybeSchema
    <3>4. Respond(Now, Snapshot, schema, {}, {}) /\ UNCHANGED parked
      BY <2>6 DEF AnswerFromSchema
    <3> QED
      BY <2>1, <2>4, <2>5, <2>6, <3>3, <3>4
  <2>7. CASE Hover
    <3>1. Take("hover") /\ AnswerFromSchema(m)
      BY <2>7 DEF Hover
    <3> QED
      BY <2>1, <2>2, <2>6, <2>7, <3>1 DEF Hover, TypeOK
  <2>8. CASE CompleteField
    <3>1. Take("completion") /\ AnswerFromSchema(m)
      BY <2>8 DEF CompleteField
    <3> QED
      BY <2>1, <2>2, <2>6, <2>8, <3>1 DEF CompleteField, TypeOK
  <2>9. CASE CompleteNothing
    BY <2>1, <2>2, <2>4, <2>5, <2>9 DEF CompleteNothing, TypeOK
  <2>10. CASE CompleteName
    <3> DEFINE open == NameRefs(documents, m.place, PartAt(documents, m).ns)
               c == [req |-> Now, snap |-> Snapshot, open |-> open]
    <3>1. Take("completion") /\ UNCHANGED <<storeVars, backgroundVars, current, outbox>>
      BY <2>10 DEF CompleteName
    <3>2. open \in SUBSET OpenRef
      BY NameRefsType
    <3>3. CASE parked' = parked \cup {c} /\ UNCHANGED answers
      <4>1. c \in Waiting
        BY <2>1, <2>3, <3>1, <3>2 DEF Waiting
      <4>2. /\ IsFiniteSet(parked')
            /\ Cardinality(parked') <= Cardinality(parked) + 1
            /\ Cardinality(parked) \in Nat
        BY <3>3, FS_AddElement, FS_CardinalityType
      <4>3. Cardinality(parked') <= MaxConcurrency
        BY <2>1, <3>1, <3>3, <4>2, FS_CardinalityType, BoundAssumption
      <4> QED
        BY <2>1, <2>2, <3>1, <3>3, <4>1, <4>2, <4>3 DEF TypeOK
    <3>4. CASE Respond(Now, Snapshot, NoSchema, open, {}) /\ UNCHANGED parked
      BY <2>1, <2>2, <2>4, <2>5, <3>1, <3>2, <3>4 DEF TypeOK
    <3> QED
      BY <2>10, <3>3, <3>4 DEF CompleteName
  <2>11. CASE DumpSnapshot
    BY <2>1, <2>2, <2>4, <2>5, <2>11 DEF DumpSnapshot, TypeOK
  <2> QED
    BY <1>7, <2>7, <2>8, <2>9, <2>10, <2>11
<1>8. ASSUME NEW c \in parked, ResumeCompletion(c)
      PROVE  Goal'
  <2> DEFINE m == log[c.req]
             ns == PartAt(c.snap.documents, m).ns
  <2>1. c.req \in Messages /\ c.snap \in StoreSnapshot /\ c.open \in SUBSET OpenRef
    BY DEF TypeOK, Waiting
  <2>2. m.place \in Kinds
    BY DEF HandlersOK
  <2>3. ClusterNames(m.place, ns) \in SUBSET ClusterRef
    BY <2>2, ClusterNamesType DEF TypeOK
  <2>4. answers' \subseteq DataAnswer \cup StatusAnswer
    BY <1>8, <2>1, <2>3, RespondType DEF ResumeCompletion, TypeOK, MaybeSchema
  <2>5. IsFiniteSet(parked') /\ Cardinality(parked') <= MaxConcurrency /\ parked' \subseteq Waiting
    <3>1. parked' = parked \ {c}
      BY <1>8 DEF ResumeCompletion
    <3>2. IsFiniteSet(parked') /\ Cardinality(parked') = Cardinality(parked) - 1
      BY <3>1, FS_RemoveElement
    <3>3. Cardinality(parked) \in Nat /\ Cardinality(parked) <= MaxConcurrency
      BY FS_CardinalityType DEF TypeOK
    <3> QED
      BY <3>1, <3>2, <3>3, BoundAssumption DEF TypeOK
  <2> QED
    BY <1>8, <2>4, <2>5
    DEF ResumeCompletion, TypeOK, backgroundVars, StoreTypeOK, storeVars, RegistryTypeOK,
        ClusterTypeOK, clusterVars
<1>9. ASSUME RefreshCluster
      PROVE  Goal'
  <2>1. Now \in Messages /\ taken' \in 0 .. Len(log)
    BY <1>9, TakeType DEF RefreshCluster
  <2>2. answers' \subseteq DataAnswer \cup StatusAnswer
    BY <1>9, <2>1 DEF RefreshCluster, TypeOK, StatusAnswer
  <2>3. Now \in Tasks
    BY <2>1, TaskAssumption, BoundAssumption DEF Messages
  <2>4. ClusterTypeOK'
    BY <1>9, <2>3 DEF RefreshCluster, Spawn, TypeOK, ClusterTypeOK, clusterVars
  <2> QED
    BY <1>9, <2>1, <2>2, <2>4
    DEF RefreshCluster, TypeOK, StoreTypeOK, storeVars, RegistryTypeOK
<1>10. ASSUME NEW t \in Tasks, FinishRefresh(t)
      PROVE  Goal'
  <2>1. ClusterTypeOK'
    BY <1>10 DEF FinishRefresh, Abandon, Commit, TypeOK, ClusterTypeOK
  <2> QED
    BY <1>10, <2>1
    DEF FinishRefresh, serverVars, TypeOK, StoreTypeOK, storeVars, RegistryTypeOK
<1>11. ASSUME NEW l \in Loaders, LoaderListed(l)
      PROVE  Goal'
  <2>1. PICK found \in CrdLists[l] :
          loading' = [loading EXCEPT ![l] = [pc |-> "inserting", left |-> found]]
    BY <1>11 DEF LoaderListed
  <2>2. found \in Seq([key : Keys, schema : Schemas])
    BY LoaderAssumption
  <2>3. loading' \in [Loaders -> [pc : {"off", "listing", "inserting"},
                                  left : Seq([key : Keys, schema : Schemas])]]
    BY <2>1, <2>2 DEF TypeOK
  <2> QED
    BY <1>11, <2>3
    DEF LoaderListed, TypeOK, StoreTypeOK, storeVars, RegistryTypeOK, ClusterTypeOK, clusterVars
<1>12. ASSUME NEW l \in Loaders, LoaderInsert(l)
      PROVE  Goal'
  <2> DEFINE crd == Head(loading[l].left)
  <2>1. loading[l].left \in Seq([key : Keys, schema : Schemas]) /\ loading[l].left # <<>>
    BY <1>12 DEF LoaderInsert, TypeOK
  <2>2. crd \in [key : Keys, schema : Schemas]
        /\ Tail(loading[l].left) \in Seq([key : Keys, schema : Schemas])
    BY <2>1, HeadTailProperties
  <2>3. RegistryTypeOK'
    BY <1>12, <2>2 DEF LoaderInsert, InsertDynamic, TypeOK, RegistryTypeOK
  <2>4. loading' \in [Loaders -> [pc : {"off", "listing", "inserting"},
                                  left : Seq([key : Keys, schema : Schemas])]]
    BY <1>12, <2>2 DEF LoaderInsert, TypeOK
  <2> QED
    BY <1>12, <2>3, <2>4
    DEF LoaderInsert, TypeOK, StoreTypeOK, storeVars, ClusterTypeOK, clusterVars
<1>13. CASE UNCHANGED vars
  BY <1>13 DEF vars, serverVars, TypeOK, StoreTypeOK, storeVars, RegistryTypeOK,
               ClusterTypeOK, clusterVars
<1> QED
  BY <1>1, <1>3, <1>4, <1>5, <1>6, <1>7, <1>8, <1>9, <1>10, <1>11, <1>12, <1>13
  DEF Next, HandlerStep, BackgroundStep, Finished

\* A message keeps its place in the log.
LEMMA LogGrows ==
  ASSUME TypeInv, [Next]_vars, NEW i \in 1 .. Len(log)
  PROVE  log'[i] = log[i] /\ i \in 1 .. Len(log')
<1>1. CASE \E m : Send(m)
  BY <1>1 DEF Send, TypeInv, TypeOK
<1>2. CASE UNCHANGED log
  BY <1>2
<1>3. EditorStep => \E m : Send(m)
  BY DEF EditorStep, SendOpen, SendChange, SendClose, SendRequest, Edit
<1>4. [Next]_vars => EditorStep \/ UNCHANGED log
  BY DEF Next, Initialize, Deliver, HandlerStep, DidOpen, DidChange, DidClose, TakeSnapshot,
         DiagnosePart, PublishDiagnostics, Hover, CompleteField, CompleteNothing, CompleteName,
         DumpSnapshot, RefreshCluster, ResumeCompletion, BackgroundStep, FinishRefresh,
         LoaderListed, LoaderInsert, Finished, backgroundVars, vars, serverVars
<1> QED
  BY <1>1, <1>2, <1>3, <1>4

\* Every step keeps the handlers within their limit, each working for the
\* message it was started for.
LEMMA NextHandlersOK == TypeInv /\ [Next]_vars => HandlersOK'
<1> SUFFICES ASSUME TypeInv, [Next]_vars PROVE HandlersOK'
  OBVIOUS
<1>1. TypeOK /\ HandlersOK
  BY DEF TypeInv
<1>2. TypeOK'
  BY NextTypeOK
<1>3. ASSUME UNCHANGED <<current, parked, answers, taken>>
      PROVE  HandlersOK'
  <2>1. taken \in 0 .. Len(log)
    BY <1>1 DEF TypeOK
  <2>2. current # Idle => taken \in 1 .. Len(log)
    BY <1>1, <2>1 DEF TypeOK, HandlersOK, Working, Messages
  <2>3. \A c \in parked : c.req \in 1 .. Len(log)
    BY <1>1, <2>1 DEF TypeOK, HandlersOK, Waiting, Messages
  <2>4. \A a \in answers : a.req \in 1 .. Len(log)
    BY <1>1, <2>1 DEF TypeOK, HandlersOK, DataAnswer, StatusAnswer, Messages
  <2>5. current' # Idle => /\ current'.msg = taken'
                           /\ IsEdit(log[taken])'
                           /\ log'[taken'].type # "didClose"
    BY <1>1, <1>3, <2>2, LogGrows DEF HandlersOK, IsEdit
  <2>6. \A c \in parked' : /\ c.req <= taken'
                           /\ log'[c.req].type = "completion"
                           /\ log'[c.req].place \in Kinds
                           /\ HasPart(c.snap.documents, log'[c.req])
    BY <1>1, <1>3, <2>3, LogGrows DEF HandlersOK
  <2>7. \A a \in answers' : a.req <= taken' /\ IsRequest(log'[a.req])
    BY <1>1, <1>3, <2>4, LogGrows DEF HandlersOK
  <2> QED
    BY <2>5, <2>6, <2>7 DEF HandlersOK
<1>4. ASSUME NEW type, Take(type), UNCHANGED log
      PROVE  /\ taken' = Now /\ log'[Now].type = type /\ log'[Now] \in Message
             /\ current = Idle
             /\ \A c \in parked : /\ c.req <= taken'
                                  /\ log'[c.req].type = "completion"
                                  /\ log'[c.req].place \in Kinds
                                  /\ HasPart(c.snap.documents, log'[c.req])
             /\ \A a \in answers : a.req <= taken' /\ IsRequest(log'[a.req])
  <2>1. taken \in Nat /\ Now = taken + 1
    BY <1>1 DEF TypeOK, Now
  <2>2. taken' = Now /\ log'[Now].type = type /\ current = Idle /\ log'[Now] \in Message
    BY <1>1, <1>4, TakeType
  <2>3. \A c \in parked : c.req \in Nat /\ c.req <= taken'
    BY <1>1, <2>1, <2>2 DEF TypeOK, HandlersOK, Waiting, Messages
  <2>4. \A a \in answers : a.req \in Nat /\ a.req <= taken'
    BY <1>1, <2>1, <2>2 DEF TypeOK, HandlersOK, DataAnswer, StatusAnswer, Messages
  <2> QED
    BY <1>1, <1>4, <2>2, <2>3, <2>4 DEF HandlersOK
<1>5. ASSUME NEW type \in {"didOpen", "didChange", "didClose"}, Take(type), UNCHANGED log,
             UNCHANGED <<parked, answers>>,
             \/ UNCHANGED current
             \/ /\ current' = [pc |-> "snapshot", msg |-> Now]
                /\ type # "didClose"
                /\ type = "didChange" => log[Now].texts # <<>>
      PROVE  HandlersOK'
  <2>1. current' # Idle => /\ current'.msg = taken'
                           /\ IsEdit(log'[taken'])
                           /\ log'[taken'].type # "didClose"
    BY <1>4, <1>5 DEF IsEdit
  <2> QED
    BY <1>4, <1>5, <2>1 DEF HandlersOK
<1>6. CASE DidOpen
  BY <1>5, <1>6 DEF DidOpen, Receive, backgroundVars
<1>7. CASE DidChange
  BY <1>5, <1>7 DEF DidChange, Receive, backgroundVars
<1>8. CASE DidClose
  BY <1>5, <1>8 DEF DidClose, backgroundVars
<1>9. CASE TakeSnapshot \/ DiagnosePart \/ PublishDiagnostics
  <2>1. UNCHANGED <<log, taken, parked, answers>>
    BY <1>9 DEF TakeSnapshot, DiagnosePart, PublishDiagnostics, backgroundVars
  <2>2. current # Idle
    BY <1>9 DEF TakeSnapshot, DiagnosePart, PublishDiagnostics, Idle
  <2>3. current' = Idle \/ current'.msg = current.msg
    <3>1. CASE DiagnosePart
      BY <1>1, <2>2, <3>1 DEF DiagnosePart, TypeOK, Working
    <3> QED
      BY <1>9, <3>1 DEF TakeSnapshot, PublishDiagnostics
  <2> QED
    BY <1>1, <2>1, <2>2, <2>3 DEF HandlersOK, IsEdit
<1>10. ASSUME NEW type \in {"hover", "completion", "dumpSnapshot", "refreshCluster"},
              Take(type), UNCHANGED <<log, current, parked>>,
              \E a : a.req = Now /\ answers' = answers \cup {a}
       PROVE  HandlersOK'
  <2>1. PICK a : a.req = Now /\ answers' = answers \cup {a}
    BY <1>10
  <2>2. \A b \in answers' : b.req <= taken' /\ IsRequest(log'[b.req])
    <3>1. IsRequest(log'[Now]) /\ Now <= taken'
      BY <1>1, <1>4, <1>10 DEF IsRequest, TypeOK, Now
    <3> QED
      BY <1>4, <1>10, <2>1, <3>1
  <2> QED
    BY <1>4, <1>10, <2>2 DEF HandlersOK
<1>11. CASE Hover \/ CompleteField
  <2>1. AnswerFromSchema(log[Now]) /\ UNCHANGED <<log, current>>
        /\ \E type \in {"hover", "completion"} : Take(type)
    BY <1>11 DEF Hover, CompleteField, backgroundVars
  <2>2. PICK schema : Respond(Now, Snapshot, schema, {}, {}) /\ UNCHANGED parked
    BY <2>1 DEF AnswerFromSchema
  <2> QED
    BY <1>10, <2>1, <2>2 DEF Respond
<1>12. CASE CompleteNothing
  BY <1>10, <1>12 DEF CompleteNothing, Respond, backgroundVars
<1>13. CASE CompleteName
  <2> DEFINE m == log[Now]
             open == NameRefs(documents, m.place, PartAt(documents, m).ns)
             c == [req |-> Now, snap |-> Snapshot, open |-> open]
  <2>1. CASE Respond(Now, Snapshot, NoSchema, open, {}) /\ UNCHANGED parked
    BY <1>10, <1>13, <2>1 DEF CompleteName, Respond, backgroundVars
  <2>2. CASE parked' = parked \cup {c} /\ UNCHANGED answers
    <3>1. /\ Take("completion") /\ m.place \in Kinds /\ HasPart(documents, m)
          /\ UNCHANGED <<log, current>>
      BY <1>13 DEF CompleteName, backgroundVars
    <3>2. c.req <= taken' /\ log'[c.req].type = "completion"
      BY <1>1, <1>4, <3>1 DEF TypeOK, Now
    <3>3. log'[c.req].place \in Kinds /\ HasPart(c.snap.documents, log'[c.req])
      BY <3>1 DEF Snapshot
    <3> QED
      BY <1>4, <2>2, <3>1, <3>2, <3>3 DEF HandlersOK
  <2> QED
    BY <1>13, <2>1, <2>2 DEF CompleteName
<1>14. CASE DumpSnapshot
  BY <1>10, <1>14 DEF DumpSnapshot, Respond, backgroundVars
<1>15. CASE RefreshCluster
  BY <1>10, <1>15 DEF RefreshCluster
<1>16. ASSUME NEW c \in parked, ResumeCompletion(c)
       PROVE  HandlersOK'
  <2>1. UNCHANGED <<log, taken, current>> /\ current = Idle /\ parked' \subseteq parked
    BY <1>16 DEF ResumeCompletion, backgroundVars
  <2>2. PICK a : a.req = c.req /\ answers' = answers \cup {a}
    BY <1>16 DEF ResumeCompletion, Respond
  <2>3. c.req <= taken' /\ IsRequest(log'[c.req])
    BY <1>1, <2>1 DEF HandlersOK, IsRequest
  <2> QED
    BY <1>1, <2>1, <2>2, <2>3 DEF HandlersOK
<1>17. ASSUME \/ \E hasPaths \in BOOLEAN : Initialize(hasPaths)
              \/ EditorStep \/ Deliver \/ BackgroundStep \/ UNCHANGED vars
       PROVE  HandlersOK'
  <2>1. UNCHANGED <<current, parked, answers, taken>>
    BY <1>17 DEF Initialize, EditorStep, SendOpen, SendChange, SendClose, SendRequest, Edit, Send,
                 Deliver, BackgroundStep, FinishRefresh, LoaderListed, LoaderInsert,
                 vars, serverVars
  <2> QED
    BY <1>3, <2>1
<1> QED
  BY <1>6, <1>7, <1>8, <1>9, <1>11, <1>12, <1>13, <1>14, <1>15, <1>16, <1>17
  DEF Next, HandlerStep, Finished

\* The types of the variables, and what an unfinished handler works on, hold
\* in every reachable state.
THEOREM TypeCorrect == Spec => []TypeInv
<1>1. Init => TypeInv
  BY InitTypeInv
<1>2. TypeInv /\ [Next]_vars => TypeInv'
  BY NextTypeOK, NextHandlersOK DEF TypeInv
<1> QED
  BY <1>1, <1>2, PTL DEF Spec

\* The types of the server's state, and the limit of the transport on handlers,
\* hold in every behaviour.
THEOREM TypeSafety == Spec => []TypeOK
<1>1. TypeInv => TypeOK
  BY DEF TypeInv
<1> QED
  BY <1>1, TypeCorrect, PTL

\* A handler that publishes works on the message taken last, and a parked
\* completion on an earlier one: no handler takes over the place of another.
THEOREM HandlersApart == Spec => []HandlersOK
<1>1. TypeInv => HandlersOK
  BY DEF TypeInv
<1> QED
  BY <1>1, TypeCorrect, PTL
----------------------------------------------------------------------------
(***************************************************************************)
(* The editor's files as a function of the log.                            *)
(***************************************************************************)
\* A file that was edited has a newest edit.
LEMMA NewestEdit ==
  ASSUME NEW n \in Nat, NEW S \in SUBSET (1 .. n), S # {}
  PROVE  Newest(S) \in S /\ \A j \in S : j <= Newest(S)
<1> DEFINE D == {x \in Nat : n - x \in S}
<1>1. D \subseteq Nat /\ D # {}
  <2>1. PICK i \in S : TRUE
    OBVIOUS
  <2>2. n - i \in Nat /\ n - (n - i) = i
    OBVIOUS
  <2> QED
    BY <2>1, <2>2
<1>2. PICK d \in D : \A e \in D : ~ (<<e, d>> \in OpToRel(<, Nat))
  BY <1>1, NatLessThanWellFounded, WFMin
<1>3. ASSUME NEW e \in D
      PROVE  d <= e
  <2>1. e < d => <<e, d>> \in OpToRel(<, Nat)
    BY DEF OpToRel
  <2>2. ~ (e < d)
    BY <1>2, <2>1, Zenon
  <2>3. e \in Nat /\ d \in Nat
    BY <1>1, <1>2
  <2> QED
    BY <2>2, <2>3
<1>4. n - d \in S /\ \A j \in S : j <= n - d
  <2>1. ASSUME NEW j \in S
        PROVE  j <= n - d
    <3>1. n - j \in Nat /\ n - (n - j) = j
      OBVIOUS
    <3>2. n - j \in D
      BY <3>1
    <3> QED
      BY <1>3, <3>1, <3>2
  <2> QED
    BY <1>2, <2>1
<1> QED
  BY <1>4 DEF Newest

\* A set of positions has one newest member.
LEMMA NewestUnique ==
  ASSUME NEW n \in Nat, NEW S \in SUBSET (1 .. n), NEW i \in S, \A j \in S : j <= i
  PROVE  Newest(S) = i
<1>1. Newest(S) \in S /\ \A j \in S : j <= Newest(S)
  <2>1. S # {}
    OBVIOUS
  <2> QED
    BY <2>1, NewestEdit
<1>2. i \in Nat /\ Newest(S) \in Nat
  <2>1. \A x \in S : x \in Nat
    OBVIOUS
  <2> QED
    BY <1>1, <2>1
<1>3. i <= Newest(S) /\ Newest(S) <= i
  BY <1>1
<1> QED
  BY <1>2, <1>3

\* What has been sent is not changed by what follows.
LEMMA EditorDocsStable ==
  ASSUME TypeInv, [Next]_vars, NEW n \in 0 .. Len(log)
  PROVE  EditorDocs(n)' = EditorDocs(n)
<1>0. n \in Nat /\ Len(log) \in Nat /\ n <= Len(log)
  BY DEF TypeInv, TypeOK
<1>1. ASSUME NEW i \in 1 .. n
      PROVE  log'[i] = log[i]
  <2>1. i \in 1 .. Len(log)
    BY <1>0
  <2> QED
    BY <2>1, LogGrows
<1>2. \A u : EditsOf(u, n)' = EditsOf(u, n)
  BY <1>1 DEF EditsOf, IsEdit
<1>3. ASSUME NEW u \in Uris, EditsOf(u, n) # {}
      PROVE  DocAfter(log[Newest(EditsOf(u, n))])' = DocAfter(log[Newest(EditsOf(u, n))])
  <2>1. Newest(EditsOf(u, n)) \in 1 .. n
    <3>1. EditsOf(u, n) \in SUBSET (1 .. n)
      BY DEF EditsOf
    <3> QED
      BY <1>0, <1>3, <3>1, NewestEdit
  <2>2. Newest(EditsOf(u, n))' = Newest(EditsOf(u, n))
    BY <1>2 DEF Newest
  <2> QED
    BY <1>1, <2>1, <2>2 DEF DocAfter
<1> QED
  BY <1>2, <1>3 DEF EditorDocs

\* The next message changes the file it edits, or none.
LEMMA EditorDocsStep ==
  ASSUME NEW n \in Nat
  PROVE  LET m == log[n + 1]
         IN  /\ ~IsEdit(m) => EditorDocs(n + 1) = EditorDocs(n)
             /\ IsEdit(m) =>
                  EditorDocs(n + 1) = [EditorDocs(n) EXCEPT ![m.uri] = DocAfter(m)]
<1> DEFINE m == log[n + 1]
<1>1. ASSUME NEW u \in Uris, ~IsEdit(m) \/ m.uri # u
      PROVE  EditorDocs(n + 1)[u] = EditorDocs(n)[u]
  <2>1. EditsOf(u, n + 1) = EditsOf(u, n)
    BY <1>1 DEF EditsOf
  <2> QED
    BY <2>1 DEF EditorDocs
<1>2. ASSUME NEW u \in Uris, IsEdit(m), m.uri = u
      PROVE  EditorDocs(n + 1)[u] = DocAfter(m)
  <2>1. n + 1 \in EditsOf(u, n + 1) /\ EditsOf(u, n + 1) \in SUBSET (1 .. (n + 1))
    BY <1>2 DEF EditsOf
  <2>2. Newest(EditsOf(u, n + 1)) = n + 1
    BY <2>1, NewestUnique
  <2> QED
    BY <2>1, <2>2 DEF EditorDocs
<1>3. /\ EditorDocs(n + 1) = [u \in Uris |-> EditorDocs(n + 1)[u]]
      /\ EditorDocs(n) = [u \in Uris |-> EditorDocs(n)[u]]
  BY DEF EditorDocs
<1> QED
  BY <1>1, <1>2, <1>3

\* Both facts for a step: n is the number of messages handled after it.
LEMMA EditorDocsTaken ==
  ASSUME NEW n, taken' = n
  PROVE  EditorDocs(taken)' = EditorDocs(n)'
BY DEF EditorDocs, EditsOf

----------------------------------------------------------------------------
(***************************************************************************)
(* The store.                                                              *)
(***************************************************************************)
\* did_open, did_change and did_close leave in the store what the editor's
\* edit left in the editor, provided a change has a single text.
LEMMA EditStep ==
  ASSUME TypeInv, MaxBatch <= 1, DidOpen \/ DidChange \/ DidClose
  PROVE  LET m == log[Now]
         IN  /\ taken' = Now
             /\ UNCHANGED log
             /\ ~IsEdit(m) => documents' = documents
             /\ IsEdit(m) => documents' = [documents EXCEPT ![m.uri] = DocAfter(m)]
<1> DEFINE m == log[Now]
<1>1. TypeOK
  BY DEF TypeInv
<1>2. CASE DidOpen \/ (DidChange /\ m.texts # <<>>)
  <2>1. \E type \in {"didOpen", "didChange"} : Take(type)
    BY <1>2 DEF DidOpen, DidChange
  <2>2. taken' = Now /\ m \in Message /\ m.type \in {"didOpen", "didChange"}
    BY <1>1, <2>1, TakeType
  <2>3. UNCHANGED log /\ Receive(m, m.texts[1])
    BY <1>2 DEF DidOpen, DidChange, backgroundVars
  <2>4. IsEdit(m)
    BY <1>2, <2>1, <2>2 DEF IsEdit, DidOpen, Take
  <2>5. Len(m.texts) = 1
    <3>1. CASE m.type = "didOpen"
      <4>1. m.texts \in [1 .. 1 -> Texts]
        BY <2>2, <3>1 DEF Message, EditMessage, AskMessage, CommandMessage
      <4> QED
        BY <4>1, LenProperties, SeqDef
    <3>2. CASE m.type = "didChange"
      <4>1. m.texts \in Batches
        BY <2>2, <3>2 DEF Message, EditMessage, AskMessage, CommandMessage
      <4>2. PICK k \in 0 .. MaxBatch : m.texts \in [1 .. k -> Texts]
        BY <4>1 DEF Batches
      <4>3. m.texts # <<>>
        BY <2>4, <3>2 DEF IsEdit
      <4>4. m.texts \in Seq(Texts)
        BY <2>2, MessageType
      <4> DEFINE len == Len(m.texts)
      <4> HIDE DEF len
      <4>5. DOMAIN m.texts = 1 .. len /\ len \in Nat /\ len # 0
        BY <4>3, <4>4, LenProperties, EmptySeq DEF len
      <4>6. 1 .. len = 1 .. k
        BY <4>2, <4>5
      <4>7. len \in 1 .. len
        BY <4>5
      <4>8. k \in Nat /\ k <= 1
        BY <4>2, BoundAssumption
      <4>9. len = 1
        BY <4>5, <4>6, <4>7, <4>8
      <4> QED
        BY <4>9 DEF len
    <3> QED
      BY <2>2, <3>1, <3>2
  <2>6. documents' = [documents EXCEPT ![m.uri] = DocAfter(m)]
    BY <2>2, <2>3, <2>5 DEF Receive, Remove, Upsert, DocAfter
  <2> QED
    BY <2>2, <2>3, <2>4, <2>6
<1>3. CASE DidChange /\ m.texts = <<>>
  <2>1. taken' = Now /\ m.type = "didChange"
    BY <1>1, <1>3, TakeType DEF DidChange
  <2>2. UNCHANGED <<log, documents>>
    BY <1>3 DEF DidChange, backgroundVars, storeVars
  <2> QED
    BY <1>3, <2>1, <2>2 DEF IsEdit
<1>4. CASE DidClose
  <2>1. taken' = Now /\ m.type = "didClose"
    BY <1>1, <1>4, TakeType DEF DidClose
  <2>2. UNCHANGED log /\ Remove(m.uri)
    BY <1>4 DEF DidClose, backgroundVars
  <2> QED
    BY <2>1, <2>2 DEF IsEdit, Remove, DocAfter
<1> QED
  BY <1>2, <1>3, <1>4

\* Every other step leaves the store alone and handles at most one message,
\* which is not an edit.
LEMMA OtherStep ==
  ASSUME TypeInv, [Next]_vars, ~(DidOpen \/ DidChange \/ DidClose)
  PROVE  /\ UNCHANGED storeVars
         /\ \/ UNCHANGED taken
            \/ taken' = Now /\ UNCHANGED log /\ ~IsEdit(log[Now])
<1>1. TypeOK
  BY DEF TypeInv
<1>2. ASSUME NEW type \in {"hover", "completion", "dumpSnapshot", "refreshCluster"}, Take(type)
      PROVE  taken' = Now /\ ~IsEdit(log[Now])
  BY <1>1, <1>2, TakeType DEF IsEdit
<1>3. CASE Hover \/ CompleteField \/ CompleteNothing \/ CompleteName \/ DumpSnapshot \/ RefreshCluster
  BY <1>2, <1>3 DEF Hover, CompleteField, CompleteNothing, CompleteName, DumpSnapshot,
                    RefreshCluster, backgroundVars
<1>4. CASE \/ \E hasPaths \in BOOLEAN : Initialize(hasPaths)
           \/ EditorStep \/ Deliver \/ BackgroundStep \/ UNCHANGED vars
           \/ TakeSnapshot \/ DiagnosePart \/ PublishDiagnostics
           \/ \E c \in parked : ResumeCompletion(c)
  BY <1>4 DEF Initialize, EditorStep, SendOpen, SendChange, SendClose, SendRequest, Edit, Send,
              Deliver, BackgroundStep, FinishRefresh, LoaderListed, LoaderInsert, TakeSnapshot,
              DiagnosePart, PublishDiagnostics, ResumeCompletion, vars, serverVars, backgroundVars
<1> QED
  BY <1>3, <1>4 DEF Next, HandlerStep, Finished

\* Every step keeps the store what the editor's messages make it.
LEMMA NextMirrors ==
  ASSUME TypeInv, MaxBatch <= 1, [Next]_vars, StoreMirrorsEditor
  PROVE  StoreMirrorsEditor'
<1> DEFINE m == log[Now]
<1>1. taken \in 0 .. Len(log) /\ Now = taken + 1 /\ documents = EditorDocs(taken)
  BY DEF TypeInv, TypeOK, Now, StoreMirrorsEditor
<1>2. CASE taken' = taken /\ documents' = documents
  <2>1. EditorDocs(taken)' = EditorDocs(taken)
    <3> DEFINE n == taken
    <3>1. PICK k \in 0 .. Len(log) : k = taken
      BY <1>1
    <3>2. EditorDocs(taken)' = EditorDocs(k)'
      BY <1>2, <3>1, EditorDocsTaken
    <3> QED
      BY <3>1, <3>2, EditorDocsStable
  <2> QED
    BY <1>1, <1>2, <2>1 DEF StoreMirrorsEditor
<1>3. CASE taken' = Now /\ UNCHANGED log /\ documents' = EditorDocs(taken + 1)
  BY <1>1, <1>3 DEF StoreMirrorsEditor, EditorDocs, EditsOf, IsEdit, DocAfter
<1>4. /\ ~IsEdit(m) => EditorDocs(taken + 1) = EditorDocs(taken)
      /\ IsEdit(m) => EditorDocs(taken + 1) = [EditorDocs(taken) EXCEPT ![m.uri] = DocAfter(m)]
  BY <1>1, EditorDocsStep
<1>5. CASE DidOpen \/ DidChange \/ DidClose
  BY <1>1, <1>3, <1>4, <1>5, EditStep
<1>6. CASE ~(DidOpen \/ DidChange \/ DidClose)
  BY <1>1, <1>2, <1>3, <1>4, <1>6, OtherStep DEF storeVars
<1> QED
  BY <1>5, <1>6

\* The store mirrors the editor in every reachable state, when no didChange
\* carries more than one text.
THEOREM StoreMirrors ==
  ASSUME MaxBatch <= 1
  PROVE  Spec => []StoreMirrorsEditor
<1>1. Init => StoreMirrorsEditor
  BY DEF Init, StoreInit, StoreMirrorsEditor, EditorDocs, EditsOf
<1>2. TypeInv /\ StoreMirrorsEditor /\ [Next]_vars => StoreMirrorsEditor'
  BY NextMirrors
<1> QED
  BY <1>1, <1>2, TypeCorrect, PTL DEF Spec
=============================================================================
