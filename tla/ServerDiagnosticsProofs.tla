---------------------- MODULE ServerDiagnosticsProofs ----------------------
(***************************************************************************)
(* Theorems about the diagnostics the editor shows.                        *)
(***************************************************************************)
EXTENDS LspServerProofs

(***************************************************************************)
(* The steps as far as documents and diagnostics go.                       *)
(***************************************************************************)
\* An edit of u is handled: nothing is left to diagnose, and its result p is
\* sent at once;
SettlesEdit(u, p) ==
  /\ documents' = [documents EXCEPT ![u] = NoDoc]
  /\ UNCHANGED current
  /\ outbox' = Append(outbox, p)
  /\ p.msg = Now /\ p.uri = u /\ p.kind # "issues" /\ p.doc = NoDoc

\* or the new document is stored, to be diagnosed.
StoresEdit(u) ==
  /\ \E d \in Document : documents' = [documents EXCEPT ![u] = d]
  /\ current' = [pc |-> "snapshot", msg |-> Now]
  /\ UNCHANGED outbox

TakesEdit ==
  /\ taken' = Now /\ Now \in 1 .. Len(log) /\ current = Idle /\ UNCHANGED <<log, shown>>
  /\ IsEdit(log[Now]) /\ log[Now].uri \in Uris
  /\ StoresEdit(log[Now].uri) \/ \E p : SettlesEdit(log[Now].uri, p)

TakesOther ==
  /\ taken' = Now /\ Now \in 1 .. Len(log) /\ current = Idle
  /\ ~IsEdit(log[Now])
  /\ UNCHANGED <<log, shown, documents, current, outbox>>

\* The counters of messages are natural numbers.
LEMMA Counts ==
  ASSUME TypeInv
  PROVE  taken \in Nat /\ Len(log) \in Nat /\ taken <= Len(log) /\ Now = taken + 1
BY DEF TypeInv, TypeOK, Now

\* What taking a message of some type means.
LEMMA TakeFacts ==
  ASSUME TypeInv, NEW type, Take(type)
  PROVE  /\ taken' = Now /\ Now \in 1 .. Len(log) /\ current = Idle
         /\ log[Now].type = type /\ log[Now] \in Message
<1>1. TypeOK
  BY DEF TypeInv
<1> QED
  BY <1>1, TakeType, Counts DEF Take

\* A text that didOpen or didChange brings is an edit taken.
LEMMA ReceiveEdit ==
  ASSUME TypeInv, NEW type \in {"didOpen", "didChange"}, Take(type), log[Now].texts # <<>>,
         Receive(log[Now], log[Now].texts[1]), UNCHANGED <<log, shown>>
  PROVE  TakesEdit
<1> DEFINE m == log[Now]
           t == m.texts[1]
           p == [msg |-> Now, uri |-> m.uri, kind |-> "oversize", version |-> m.version,
                 doc |-> NoDoc, used |-> <<>>]
<1>1. /\ taken' = Now /\ Now \in 1 .. Len(log) /\ current = Idle
      /\ m.type = type /\ m \in Message
  BY TakeFacts
<1>2. IsEdit(m)
  BY <1>1 DEF IsEdit
<1>3. m.uri \in Uris /\ m.version \in Nat /\ m.texts \in Seq(Texts)
  BY <1>1, MessageType
<1>4. t \in Texts
  BY <1>3
<1>5. CASE t \in Oversize
  <2>1. SettlesEdit(m.uri, p)
    BY <1>5 DEF Receive, Remove, Publish, SettlesEdit
  <2> QED
    BY <1>1, <1>2, <1>3, <2>1 DEF TakesEdit
<1>6. CASE t \notin Oversize
  <2>1. NewDocument(m.uri, m.version, t) \in Document
    BY <1>3, <1>4, DocumentType
  <2>2. StoresEdit(m.uri)
    BY <1>6, <2>1 DEF Receive, Upsert, StoresEdit
  <2> QED
    BY <1>1, <1>2, <1>3, <2>2 DEF TakesEdit
<1> QED
  BY <1>5, <1>6

\* Every step is one of these, as far as documents and diagnostics go.
LEMMA DiagnosticsStep ==
  ASSUME TypeInv, [Next]_vars
  PROVE  \/ TakesEdit \/ TakesOther
         \/ TakeSnapshot \/ DiagnosePart \/ PublishDiagnostics \/ Deliver
         \/ UNCHANGED <<documents, taken, current, outbox, shown>>
<1>1. CASE DidOpen
  <2>1. Take("didOpen") /\ Receive(log[Now], log[Now].texts[1]) /\ UNCHANGED <<log, shown>>
    BY <1>1 DEF DidOpen, backgroundVars
  <2>2. log[Now] \in Message /\ log[Now].type = "didOpen"
    BY <2>1, TakeFacts
  <2>3. log[Now].texts \in [1 .. 1 -> Texts]
    BY <2>2 DEF Message, EditMessage, AskMessage, CommandMessage
  <2>4. log[Now].texts # <<>>
    BY <2>3
  <2> QED
    BY <2>1, <2>4, ReceiveEdit
<1>2. CASE DidChange
  <2>1. Take("didChange") /\ UNCHANGED <<log, shown>>
    BY <1>2 DEF DidChange, backgroundVars
  <2>2. CASE log[Now].texts = <<>>
    <3>1. UNCHANGED <<storeVars, current, outbox>>
      BY <1>2, <2>2 DEF DidChange
    <3>2. ~IsEdit(log[Now])
      BY <2>1, <2>2, TakeFacts DEF IsEdit
    <3> QED
      BY <2>1, <3>1, <3>2, TakeFacts DEF TakesOther, storeVars
  <2>3. CASE log[Now].texts # <<>>
    BY <1>2, <2>1, <2>3, ReceiveEdit DEF DidChange
  <2> QED
    BY <2>2, <2>3
<1>3. CASE DidClose
  <2> DEFINE u == log[Now].uri
             p == [msg |-> Now, uri |-> u, kind |-> "cleared", version |-> Absent,
                   doc |-> NoDoc, used |-> <<>>]
  <2>1. Take("didClose") /\ UNCHANGED <<log, shown, current>> /\ Remove(u) /\ outbox' = Append(outbox, p)
    BY <1>3 DEF DidClose, backgroundVars, Publish
  <2>2. log[Now] \in Message /\ log[Now].type = "didClose"
    BY <2>1, TakeFacts
  <2>3. u \in Uris /\ IsEdit(log[Now])
    BY <2>2, MessageType DEF IsEdit
  <2>4. SettlesEdit(u, p)
    BY <2>1 DEF SettlesEdit, Remove
  <2> QED
    BY <2>1, <2>3, <2>4, TakeFacts DEF TakesEdit
<1>4. ASSUME NEW type \in {"hover", "completion", "dumpSnapshot", "refreshCluster"}, Take(type),
             UNCHANGED <<log, shown, storeVars, current, outbox>>
      PROVE  TakesOther
  BY <1>4, TakeFacts DEF TakesOther, IsEdit, storeVars
<1>5. CASE Hover \/ CompleteField \/ CompleteNothing \/ CompleteName \/ DumpSnapshot \/ RefreshCluster
  BY <1>4, <1>5 DEF Hover, CompleteField, CompleteNothing, CompleteName, DumpSnapshot, RefreshCluster,
                    backgroundVars
<1>6. CASE \/ \E hasPaths \in BOOLEAN : Initialize(hasPaths)
           \/ EditorStep \/ BackgroundStep \/ UNCHANGED vars
           \/ \E c \in parked : ResumeCompletion(c)
  BY <1>6 DEF Initialize, EditorStep, SendOpen, SendChange, SendClose, SendRequest, Edit, Send,
              BackgroundStep, FinishRefresh, LoaderListed, LoaderInsert, ResumeCompletion,
              vars, serverVars, storeVars, backgroundVars
<1> QED
  BY <1>1, <1>2, <1>3, <1>5, <1>6 DEF Next, HandlerStep, Finished

----------------------------------------------------------------------------
(***************************************************************************)
(* The edit in hand: publish_diagnostics reads the store after the upsert, *)
(* and finds the document that the handler stored, because no other        *)
(* handler runs in between.                                                *)
(***************************************************************************)
Edited == log[taken].uri
InHand(u) == current # Idle /\ Edited = u

WorkInv ==
  /\ current.pc = "snapshot" => documents[Edited] # NoDoc
  /\ current.pc = "diagnose" => current.doc = documents[Edited]

\* A handler at work has the message taken last, an edit.
LEMMA WorkingOn ==
  ASSUME TypeInv, current # Idle
  PROVE  /\ taken \in 1 .. Len(log) /\ current.msg = taken /\ current.pc \in {"snapshot", "diagnose"}
         /\ IsEdit(log[taken]) /\ Edited \in Uris
<1>1. current.msg = taken /\ IsEdit(log[taken]) /\ log[taken].type # "didClose"
  BY DEF TypeInv, HandlersOK
<1>2. current.pc \in {"snapshot", "diagnose"} /\ current.msg \in Messages
  BY DEF TypeInv, TypeOK, Working
<1>3. taken \in 1 .. Len(log)
  BY <1>1, <1>2, Counts DEF Messages
<1>4. log[taken] \in Message
  BY <1>3 DEF TypeInv, TypeOK
<1>5. Edited \in Uris
  BY <1>1, <1>4, MessageType DEF IsEdit, Edited
<1> QED
  BY <1>1, <1>2, <1>3, <1>5

\* A handler that has stored a document is not idle.
LEMMA IdleFacts ==
  /\ Idle.pc = "idle"
  /\ \A i : [pc |-> "snapshot", msg |-> i] # Idle /\ [pc |-> "snapshot", msg |-> i].pc = "snapshot"
BY DEF Idle

\* What the steps of publish_diagnostics do.
LEMMA SnapshotStep ==
  ASSUME TypeInv, WorkInv, TakeSnapshot
  PROVE  /\ UNCHANGED <<documents, log, taken, outbox, shown>> /\ current # Idle
         /\ current'.pc = "diagnose" /\ current'.doc = documents[Edited]
<1>1. current # Idle /\ current.pc = "snapshot"
  BY IdleFacts DEF TakeSnapshot
<1>2. current.msg = taken
  BY <1>1, WorkingOn
<1> QED
  BY <1>1, <1>2 DEF TakeSnapshot, WorkInv, Edited, backgroundVars, storeVars

\* The lookup of one part.
LEMMA PartStep ==
  ASSUME TypeInv, WorkInv, DiagnosePart
  PROVE  /\ UNCHANGED <<documents, log, taken, outbox, shown>> /\ current # Idle
         /\ current'.pc = "diagnose" /\ current'.doc = current.doc
<1>1. current # Idle /\ current.pc = "diagnose"
  BY IdleFacts DEF DiagnosePart
<1>2. current \in [pc : {"diagnose"}, msg : Messages, doc : Document, used : Seq(MaybeSchema)]
  BY <1>1 DEF TypeInv, TypeOK, Working
<1> QED
  BY <1>1, <1>2 DEF DiagnosePart, backgroundVars, storeVars

Issues == [msg |-> taken, uri |-> Edited, kind |-> "issues", version |-> log[taken].version,
           doc |-> documents[Edited], used |-> current.used]
\* The publication.
LEMMA PublishStep ==
  ASSUME TypeInv, WorkInv, PublishDiagnostics
  PROVE  /\ UNCHANGED <<documents, log, taken, shown>> /\ current # Idle /\ current' = Idle
         /\ outbox' = Append(outbox, Issues)
         /\ Len(current.used) = Len(documents[Edited].parts)
<1>1. current # Idle /\ current.pc = "diagnose"
  BY IdleFacts DEF PublishDiagnostics
<1>2. current.msg = taken
  BY <1>1, WorkingOn
<1> QED
  BY <1>1, <1>2 DEF PublishDiagnostics, Publish, WorkInv, Issues, Edited, backgroundVars, storeVars

\* A step keeps WorkInv.
LEMMA WorkNext ==
  ASSUME TypeInv, WorkInv, [Next]_vars
  PROVE  WorkInv'
<1>1. CASE TakesEdit
  <2>1. CASE current' = Idle
    BY <2>1, IdleFacts DEF WorkInv
  <2>2. CASE StoresEdit(log[Now].uri)
    <3>1. documents \in [Uris -> Document \cup {NoDoc}] /\ log[Now].uri \in Uris
      BY <1>1 DEF TypeInv, TypeOK, StoreTypeOK, TakesEdit
    <3>2. documents'[log[Now].uri] # NoDoc
      BY <2>2, <3>1, NoDocAssumption DEF StoresEdit
    <3>3. Edited' = log[Now].uri
      BY <1>1 DEF TakesEdit, Edited
    <3> QED
      BY <2>2, <3>2, <3>3, IdleFacts DEF WorkInv, StoresEdit
  <2> QED
    BY <1>1, <2>1, <2>2 DEF TakesEdit, SettlesEdit
<1>2. CASE TakesOther
  BY <1>2, IdleFacts DEF TakesOther, WorkInv
<1>3. CASE TakeSnapshot
  BY <1>3, SnapshotStep DEF WorkInv, Edited
<1>4. CASE DiagnosePart
  BY <1>4, PartStep DEF WorkInv, Edited, DiagnosePart
<1>5. CASE PublishDiagnostics
  BY <1>5, PublishStep, IdleFacts DEF WorkInv
<1>6. CASE Deliver \/ UNCHANGED <<documents, taken, current, outbox, shown>>
  <2>1. UNCHANGED <<documents, taken, current>>
    BY <1>6 DEF Deliver, storeVars
  <2>2. CASE current = Idle
    BY <2>1, <2>2, IdleFacts DEF WorkInv
  <2>3. CASE current # Idle
    <3>1. taken \in 1 .. Len(log)
      BY <2>3, WorkingOn
    <3>2. Edited' = Edited
      BY <2>1, <3>1, LogGrows DEF Edited
    <3> QED
      BY <2>1, <3>2 DEF WorkInv
  <2> QED
    BY <2>2, <2>3
<1> QED
  BY <1>1, <1>2, <1>3, <1>4, <1>5, <1>6, DiagnosticsStep

\* The second read of the store finds the document of the handler's own edit.
LEMMA WorkHolds == Spec => []WorkInv
<1>1. Init => WorkInv
  BY IdleFacts DEF Init, WorkInv
<1>2. TypeInv /\ WorkInv /\ [Next]_vars => WorkInv'
  BY WorkNext
<1> QED
  BY <1>1, <1>2, TypeCorrect, PTL DEF Spec

----------------------------------------------------------------------------
(***************************************************************************)
(* The order of the notifications.                                         *)
(***************************************************************************)
\* The notifications on their way are in the order of the edits that caused
\* them, after those shown and not before those to come.
OrderInv ==
  /\ \A i \in 1 .. Len(outbox) : outbox[i].msg <= taken
  /\ \A i, j \in 1 .. Len(outbox) : i <= j => outbox[i].msg <= outbox[j].msg
  /\ \A u \in Uris : /\ shown[u].msg <= taken
                     /\ \A i \in 1 .. Len(outbox) : shown[u].msg <= outbox[i].msg

SendsOne(p) == outbox' = Append(outbox, p) /\ UNCHANGED shown /\ p.msg = taken'

\* A step sends one notification at most, of the message taken last.
LEMMA OutboxStep ==
  ASSUME TypeInv, WorkInv, [Next]_vars
  PROVE  /\ taken' \in Nat /\ taken <= taken'
         /\ \/ UNCHANGED <<outbox, shown>>
            \/ \E p : SendsOne(p)
            \/ Deliver
<1>1. taken' \in Nat /\ taken <= taken'
  <2>1. UNCHANGED taken \/ taken' = Now
    BY DiagnosticsStep, SnapshotStep, PartStep, PublishStep
    DEF TakesEdit, TakesOther, Deliver
  <2> QED
    BY <2>1, Counts
<1>2. CASE TakesEdit
  <2>1. CASE StoresEdit(log[Now].uri)
    BY <1>1, <1>2, <2>1 DEF TakesEdit, StoresEdit
  <2>2. ASSUME NEW p, SettlesEdit(log[Now].uri, p)
        PROVE  SendsOne(p)
    BY <1>2, <2>2 DEF TakesEdit, SettlesEdit, SendsOne
  <2> QED
    BY <1>1, <1>2, <2>1, <2>2 DEF TakesEdit
<1>3. CASE PublishDiagnostics
  <2>1. SendsOne(Issues)
    BY <1>3, PublishStep DEF SendsOne, Issues
  <2> QED
    BY <1>1, <2>1
<1>4. CASE \/ TakesOther \/ TakeSnapshot \/ DiagnosePart
           \/ UNCHANGED <<documents, taken, current, outbox, shown>>
  <2>1. UNCHANGED <<outbox, shown>>
    BY <1>4, SnapshotStep, PartStep DEF TakesOther
  <2> QED
    BY <1>1, <2>1
<1> QED
  BY <1>1, <1>2, <1>3, <1>4, DiagnosticsStep

\* The types of what is on its way and of what is shown.
LEMMA OutboxType ==
  ASSUME TypeInv
  PROVE  /\ outbox \in Seq(Publication) /\ Len(outbox) \in Nat
         /\ \A i \in 1 .. Len(outbox) : outbox[i].msg \in Nat /\ outbox[i].uri \in Uris
         /\ \A u \in Uris : shown[u].msg \in Nat
<1>1. \A p \in Publication : p.msg \in Nat /\ p.uri \in Uris
  BY BoundAssumption DEF Publication, Messages
<1> QED
  BY <1>1 DEF TypeInv, TypeOK, NothingShown

\* The editor reads the oldest notification.
LEMMA DeliverStep ==
  ASSUME TypeInv, Deliver
  PROVE  /\ UNCHANGED <<documents, log, taken, current>>
         /\ Len(outbox) >= 1 /\ Len(outbox') = Len(outbox) - 1
         /\ \A i \in 1 .. Len(outbox') : outbox'[i] = outbox[i + 1]
         /\ shown' = [shown EXCEPT ![outbox[1].uri] = outbox[1]]
         /\ outbox[1].uri \in Uris
<1>1. outbox \in Seq(Publication) /\ outbox # <<>>
  BY OutboxType DEF Deliver
<1>2. Len(outbox) >= 1 /\ Len(Tail(outbox)) = Len(outbox) - 1
      /\ \A i \in 1 .. Len(Tail(outbox)) : Tail(outbox)[i] = outbox[i + 1]
      /\ Head(outbox) = outbox[1]
  BY <1>1, HeadTailProperties, EmptySeq
<1>3. 1 \in 1 .. Len(outbox)
  BY <1>2, OutboxType
<1> QED
  BY <1>2, <1>3, OutboxType DEF Deliver, storeVars

\* A step keeps OrderInv.
LEMMA OrderNext ==
  ASSUME TypeInv, WorkInv, OrderInv, [Next]_vars
  PROVE  OrderInv'
<1>0. taken \in Nat /\ taken' \in Nat /\ taken <= taken'
  BY Counts, OutboxStep
<1>t. shown \in [Uris -> Publication \cup {NothingShown}]
  BY DEF TypeInv, TypeOK
<1>1. CASE UNCHANGED <<outbox, shown>>
  BY <1>0, <1>1, OutboxType DEF OrderInv
<1>2. ASSUME NEW p, SendsOne(p)
      PROVE  OrderInv'
  <2> DEFINE n == Len(outbox)
  <2>1. /\ Len(outbox') = n + 1 /\ outbox'[n + 1] = p
        /\ \A i \in 1 .. n : outbox'[i] = outbox[i]
    BY <1>2, OutboxType DEF SendsOne
  <2>2. n \in Nat /\ p.msg = taken' /\ shown' = shown
    BY <1>2, OutboxType DEF SendsOne
  <2>3. ASSUME NEW i \in 1 .. n + 1
        PROVE  /\ i = n + 1 \/ (i \in 1 .. n /\ outbox'[i] = outbox[i] /\ outbox[i].msg \in Nat)
               /\ outbox'[i].msg <= taken' /\ outbox'[i].msg \in Nat
    BY <1>0, <2>1, <2>2, OutboxType DEF OrderInv
  <2>4. ASSUME NEW i \in 1 .. n + 1, NEW j \in 1 .. n + 1, i <= j
        PROVE  outbox'[i].msg <= outbox'[j].msg
    <3>1. CASE j = n + 1
      BY <2>1, <2>2, <2>3, <3>1
    <3>2. CASE j # n + 1
      BY <2>1, <2>2, <2>4, <3>2 DEF OrderInv
    <3> QED
      BY <3>1, <3>2
  <2>5. ASSUME NEW u \in Uris
        PROVE  /\ shown'[u].msg <= taken'
               /\ \A i \in 1 .. n + 1 : shown'[u].msg <= outbox'[i].msg
    BY <1>0, <2>1, <2>2, <2>3, OutboxType DEF OrderInv
  <2> QED
    BY <2>1, <2>3, <2>4, <2>5 DEF OrderInv
<1>3. CASE Deliver
  <2> DEFINE n == Len(outbox)
  <2>1. /\ n \in Nat /\ n >= 1 /\ Len(outbox') = n - 1 /\ taken' = taken
        /\ \A i \in 1 .. n - 1 : outbox'[i] = outbox[i + 1] /\ i + 1 \in 1 .. n
    BY <1>3, DeliverStep, OutboxType
  <2>2. \A u \in Uris : shown'[u] = outbox[1] \/ shown'[u] = shown[u]
    BY <1>t, <1>3, DeliverStep
  <2>3. 1 \in 1 .. n
    BY <2>1
  <2>4. ASSUME NEW i \in 1 .. n - 1
        PROVE  outbox'[i].msg <= taken' /\ outbox[1].msg <= outbox'[i].msg
    BY <2>1, <2>3 DEF OrderInv
  <2>5. ASSUME NEW i \in 1 .. n - 1, NEW j \in 1 .. n - 1, i <= j
        PROVE  outbox'[i].msg <= outbox'[j].msg
    BY <2>1, <2>5 DEF OrderInv
  <2>6. ASSUME NEW u \in Uris
        PROVE  shown'[u].msg <= taken' /\ \A i \in 1 .. n - 1 : shown'[u].msg <= outbox'[i].msg
    BY <2>1, <2>2, <2>3, <2>4 DEF OrderInv
  <2> QED
    BY <2>1, <2>4, <2>5, <2>6 DEF OrderInv
<1> QED
  BY <1>1, <1>2, <1>3, OutboxStep

\* The diagnostics of an older edit never replace those of a newer one.
THEOREM DiagnosticsInOrder == Spec => ShownInOrder
<1>1. Init => OrderInv
  BY DEF Init, OrderInv, NothingShown
<1>2. TypeInv /\ WorkInv /\ OrderInv /\ [Next]_vars => OrderInv'
  BY OrderNext
<1>3. ASSUME TypeInv, WorkInv, OrderInv, [Next]_vars
      PROVE  \A u \in Uris : shown'[u].msg >= shown[u].msg
  <2>1. CASE UNCHANGED shown
    BY <1>3, <2>1, OutboxType
  <2>2. CASE Deliver
    <3>1. shown \in [Uris -> Publication \cup {NothingShown}]
      BY <1>3 DEF TypeInv, TypeOK
    <3>2. 1 \in 1 .. Len(outbox)
      BY <1>3, <2>2, DeliverStep, OutboxType
    <3>3. shown' = [shown EXCEPT ![outbox[1].uri] = outbox[1]] /\ outbox[1].uri \in Uris
      BY <1>3, <2>2, DeliverStep
    <3> QED
      BY <1>3, <3>1, <3>2, <3>3, OutboxType DEF OrderInv
  <2> QED
    BY <1>3, <2>1, <2>2, OutboxStep DEF SendsOne
<1> QED
  BY <1>1, <1>2, <1>3, TypeCorrect, WorkHolds, PTL DEF Spec, ShownInOrder

----------------------------------------------------------------------------
(***************************************************************************)
(* The outcome of the latest edit.                                         *)
(***************************************************************************)
\* p is the last thing the server told the editor about u: it is on its way,
\* or shown.
Told(u, p) ==
  \/ \E i \in 1 .. Len(outbox) :
       /\ outbox[i].uri = u /\ outbox[i] = p
       /\ \A j \in 1 .. Len(outbox) : i < j => outbox[j].uri # u
  \/ shown[u] = p /\ \A i \in 1 .. Len(outbox) : outbox[i].uri # u

Outcome(u, p) == p.msg = Newest(EditsOf(u, taken)) /\ p.doc = documents[u]

\* Unless the edit in hand is of that file, the server has told the editor the
\* outcome of the file's latest edit.
OutcomeInv ==
  \A u \in Uris : EditsOf(u, taken) # {} => InHand(u) \/ \E p : Told(u, p) /\ Outcome(u, p)

\* What is sent is the last the editor is told of its file, and leaves what it
\* was told of the others.
LEMMA ToldByAppend ==
  ASSUME TypeInv, NEW p, outbox' = Append(outbox, p), UNCHANGED shown
  PROVE  \A u \in Uris : /\ p.uri = u => Told(u, p)'
                         /\ \A q : p.uri # u /\ Told(u, q) => Told(u, q)'
<1> DEFINE n == Len(outbox)
<1>1. /\ n \in Nat /\ Len(outbox') = n + 1 /\ outbox'[n + 1] = p
      /\ \A i \in 1 .. n : outbox'[i] = outbox[i]
  BY OutboxType
<1> SUFFICES ASSUME NEW u \in Uris
             PROVE  /\ p.uri = u => Told(u, p)'
                    /\ \A q : p.uri # u /\ Told(u, q) => Told(u, q)'
  OBVIOUS
<1>2. ASSUME p.uri = u
      PROVE  Told(u, p)'
  <2>1. n + 1 \in 1 .. Len(outbox') /\ \A j \in 1 .. Len(outbox') : ~(n + 1 < j)
    BY <1>1
  <2> QED
    BY <1>1, <1>2, <2>1 DEF Told
<1>3. ASSUME NEW q, p.uri # u, Told(u, q)
      PROVE  Told(u, q)'
  <2>1. \A j \in 1 .. Len(outbox') : j = n + 1 \/ j \in 1 .. n
    BY <1>1
  <2>2. \A i \in 1 .. n : i \in 1 .. Len(outbox')
    BY <1>1
  <2>3. CASE shown[u] = q /\ \A i \in 1 .. n : outbox[i].uri # u
    BY <1>1, <1>3, <2>1, <2>3 DEF Told
  <2>4. CASE \E i \in 1 .. n : /\ outbox[i].uri = u /\ outbox[i] = q
                               /\ \A j \in 1 .. n : i < j => outbox[j].uri # u
    BY <1>1, <1>3, <2>1, <2>2, <2>4 DEF Told
  <2> QED
    BY <1>3, <2>3, <2>4 DEF Told
<1> QED
  BY <1>2, <1>3

\* Showing a notification changes nothing of what the editor was told.
LEMMA ToldByDeliver ==
  ASSUME TypeInv, Deliver, NEW u \in Uris, NEW q, Told(u, q)
  PROVE  Told(u, q)'
<1> DEFINE n == Len(outbox)
<1>1. /\ n \in Nat /\ n >= 1 /\ Len(outbox') = n - 1
      /\ \A i \in 1 .. n - 1 : outbox'[i] = outbox[i + 1]
      /\ shown' = [shown EXCEPT ![outbox[1].uri] = outbox[1]]
  BY DeliverStep, OutboxType
<1>2. u \in DOMAIN shown
  BY DEF TypeInv, TypeOK
<1>3. \A j \in 1 .. n - 1 : j + 1 \in 1 .. n
  BY <1>1
<1>4. CASE shown[u] = q /\ \A i \in 1 .. n : outbox[i].uri # u
  <2>1. 1 \in 1 .. n
    BY <1>1
  <2>2. shown'[u] = q
    BY <1>1, <1>2, <1>4, <2>1
  <2> QED
    BY <1>1, <1>3, <1>4, <2>2 DEF Told
<1>5. ASSUME NEW i \in 1 .. n, outbox[i].uri = u, outbox[i] = q,
             \A j \in 1 .. n : i < j => outbox[j].uri # u
      PROVE  Told(u, q)'
  <2>1. CASE i = 1
    <3>1. shown'[u] = q
      BY <1>1, <1>2, <1>5, <2>1
    <3>2. \A j \in 1 .. n - 1 : i < j + 1
      BY <2>1
    <3> QED
      BY <1>1, <1>3, <1>5, <3>1, <3>2 DEF Told
  <2>2. CASE i # 1
    <3>1. i - 1 \in 1 .. n - 1 /\ (i - 1) + 1 = i
      BY <1>1, <2>2
    <3>2. outbox'[i - 1] = q
      BY <1>1, <1>5, <3>1
    <3>3. \A j \in 1 .. n - 1 : i - 1 < j => outbox'[j].uri # u
      BY <1>1, <1>3, <1>5
    <3> QED
      BY <1>1, <1>5, <3>1, <3>2, <3>3 DEF Told
  <2> QED
    BY <2>1, <2>2
<1> QED
  BY <1>4, <1>5 DEF Told

\* The edits of a file change only when one of them is taken.
LEMMA EditsKept ==
  ASSUME TypeInv, [Next]_vars, UNCHANGED taken, NEW u
  PROVE  EditsOf(u, taken)' = EditsOf(u, taken)
<1>1. \A i \in 1 .. taken : i \in 1 .. Len(log)
  BY Counts
<1>2. \A i \in 1 .. taken : log'[i] = log[i]
  BY <1>1, LogGrows
<1> QED
  BY <1>2 DEF EditsOf, IsEdit

\* and when one is, it is the newest of its file.
LEMMA EditsTaken ==
  ASSUME TypeInv, taken' = Now, UNCHANGED log, NEW u
  PROVE  /\ ~IsEdit(log[Now]) \/ log[Now].uri # u => EditsOf(u, taken)' = EditsOf(u, taken)
         /\ IsEdit(log[Now]) /\ log[Now].uri = u => Newest(EditsOf(u, taken)') = Now
<1>1. taken \in Nat /\ Now = taken + 1
  BY Counts
<1>2. EditsOf(u, taken)' = {i \in 1 .. Now : IsEdit(log[i]) /\ log[i].uri = u}
  BY DEF EditsOf, IsEdit
<1>3. CASE ~IsEdit(log[Now]) \/ log[Now].uri # u
  BY <1>1, <1>2, <1>3 DEF EditsOf
<1>4. CASE IsEdit(log[Now]) /\ log[Now].uri = u
  <2>1. EditsOf(u, taken)' \in SUBSET (1 .. Now) /\ Now \in EditsOf(u, taken)' /\ Now \in Nat
    BY <1>1, <1>2, <1>4
  <2>2. \A j \in EditsOf(u, taken)' : j <= Now
    BY <2>1
  <2> QED
    BY <1>4, <2>1, <2>2, NewestUnique
<1> QED
  BY <1>3, <1>4

\* A step that neither changes the document of u nor tells the editor about u
\* keeps the outcome.
LEMMA OutcomeKept ==
  ASSUME OutcomeInv, NEW u \in Uris, EditsOf(u, taken)' = EditsOf(u, taken),
         documents'[u] = documents[u], InHand(u) => InHand(u)',
         \A q : Told(u, q) => Told(u, q)'
  PROVE  EditsOf(u, taken)' # {} => InHand(u)' \/ \E p : Told(u, p)' /\ Outcome(u, p)'
<1>1. Newest(EditsOf(u, taken))' = Newest(EditsOf(u, taken))
  BY DEF Newest
<1> QED
  BY <1>1 DEF OutcomeInv, Outcome

\* A step keeps OutcomeInv.
LEMMA OutcomeNext ==
  ASSUME TypeInv, WorkInv, OutcomeInv, [Next]_vars
  PROVE  OutcomeInv'
<1> SUFFICES ASSUME NEW u \in Uris
             PROVE  EditsOf(u, taken)' # {} => InHand(u)' \/ \E p : Told(u, p)' /\ Outcome(u, p)'
  BY DEF OutcomeInv
<1>1. UNCHANGED <<outbox, shown>> => \A q : Told(u, q) => Told(u, q)'
  BY DEF Told
<1>2. CASE TakesEdit
  <2> DEFINE e == log[Now].uri
  <2>1. /\ taken' = Now /\ current = Idle /\ UNCHANGED <<log, shown>> /\ IsEdit(log[Now])
        /\ e \in Uris
    BY <1>2 DEF TakesEdit
  <2>2. documents \in [Uris -> Document \cup {NoDoc}]
    BY DEF TypeInv, TypeOK, StoreTypeOK
  <2>3. CASE StoresEdit(e)
    <3>1. CASE u = e
      BY <2>1, <2>3, <3>1, IdleFacts DEF StoresEdit, InHand, Edited
    <3>2. CASE u # e
      <4>1. EditsOf(u, taken)' = EditsOf(u, taken)
        BY <2>1, <3>2, EditsTaken
      <4>2. documents'[u] = documents[u] /\ ~InHand(u) /\ UNCHANGED <<outbox, shown>>
        BY <2>1, <2>2, <2>3, <3>2 DEF StoresEdit, InHand
      <4> QED
        BY <1>1, <4>1, <4>2, OutcomeKept
    <3> QED
      BY <3>1, <3>2
  <2>4. ASSUME NEW p, SettlesEdit(e, p)
        PROVE  EditsOf(u, taken)' # {} => \E q : Told(u, q)' /\ Outcome(u, q)'
    <3>1. CASE u = e
      <4>1. Told(u, p)'
        BY <2>1, <2>4, <3>1, ToldByAppend DEF SettlesEdit
      <4>2. Newest(EditsOf(u, taken)') = Now
        BY <2>1, <3>1, EditsTaken
      <4>3. p.msg = Now /\ p.doc = documents'[u]
        BY <2>1, <2>2, <2>4, <3>1 DEF SettlesEdit
      <4>4. Newest(EditsOf(u, taken))' = Newest(EditsOf(u, taken)')
        BY DEF Newest
      <4> QED
        BY <4>1, <4>2, <4>3, <4>4 DEF Outcome
    <3>2. CASE u # e
      <4>1. EditsOf(u, taken)' = EditsOf(u, taken)
        BY <2>1, <3>2, EditsTaken
      <4>2. documents'[u] = documents[u] /\ ~InHand(u) /\ ~InHand(u)'
        BY <2>1, <2>2, <2>4, <3>2 DEF SettlesEdit, InHand
      <4>3. \A q : Told(u, q) => Told(u, q)'
        BY <2>1, <2>4, <3>2, ToldByAppend DEF SettlesEdit
      <4> QED
        BY <4>1, <4>2, <4>3, OutcomeKept
    <3> QED
      BY <3>1, <3>2
  <2> QED
    BY <1>2, <2>3, <2>4 DEF TakesEdit
<1>3. CASE TakesOther
  <2>1. /\ EditsOf(u, taken)' = EditsOf(u, taken) /\ documents' = documents
        /\ ~InHand(u) /\ UNCHANGED <<outbox, shown>>
    BY <1>3, EditsTaken DEF TakesOther, InHand
  <2> QED
    BY <1>1, <2>1, OutcomeKept
<1>4. CASE TakeSnapshot \/ DiagnosePart
  <2>1. /\ UNCHANGED <<documents, log, taken, outbox, shown>> /\ current'.pc = "diagnose"
    BY <1>4, SnapshotStep, PartStep
  <2>2. InHand(u) => InHand(u)'
    BY <2>1, IdleFacts DEF InHand, Edited
  <2>3. EditsOf(u, taken)' = EditsOf(u, taken)
    BY <2>1, EditsKept
  <2> QED
    BY <1>1, <2>1, <2>2, <2>3, OutcomeKept
<1>5. CASE PublishDiagnostics
  <2>1. /\ UNCHANGED <<documents, log, taken, shown>> /\ current # Idle
        /\ outbox' = Append(outbox, Issues)
    BY <1>5, PublishStep
  <2>2. EditsOf(u, taken)' = EditsOf(u, taken)
    BY <2>1, EditsKept
  <2>3. CASE u = Edited
    <3>1. /\ taken \in EditsOf(u, taken) /\ EditsOf(u, taken) \in SUBSET (1 .. taken)
          /\ taken \in Nat
      BY <2>1, <2>3, WorkingOn, Counts DEF EditsOf, Edited
    <3>2. Newest(EditsOf(u, taken)) = taken
      <4>1. \A j \in EditsOf(u, taken) : j <= taken
        BY <3>1
      <4> QED
        BY <3>1, <4>1, NewestUnique
    <3>3. Newest(EditsOf(u, taken))' = taken
      BY <2>2, <3>2 DEF Newest
    <3>4. PICK p : p = Issues
      OBVIOUS
    <3>5. p.msg = taken /\ p.uri = u /\ p.doc = documents'[u]
      BY <2>1, <2>3, <3>4 DEF Issues
    <3>6. Told(u, p)'
      BY <2>1, <3>4, <3>5, ToldByAppend
    <3> QED
      BY <3>3, <3>5, <3>6 DEF Outcome
  <2>4. CASE u # Edited
    <3>1. ~InHand(u)
      BY <2>4 DEF InHand
    <3>2. \A q : Told(u, q) => Told(u, q)'
      BY <2>1, <2>4, ToldByAppend DEF Issues
    <3> QED
      BY <2>1, <2>2, <3>1, <3>2, OutcomeKept
  <2> QED
    BY <2>3, <2>4
<1>6. CASE Deliver \/ UNCHANGED <<documents, taken, current, outbox, shown>>
  <2>1. UNCHANGED <<documents, taken, current>>
    BY <1>6, DeliverStep
  <2>2. InHand(u) => InHand(u)'
    <3>1. current # Idle => Edited' = Edited
      BY <2>1, WorkingOn, LogGrows DEF Edited
    <3> QED
      BY <2>1, <3>1 DEF InHand
  <2>3. \A q : Told(u, q) => Told(u, q)'
    BY <1>1, <1>6, ToldByDeliver
  <2> QED
    BY <2>1, <2>2, <2>3, EditsKept, OutcomeKept
<1> QED
  BY <1>2, <1>3, <1>4, <1>5, <1>6, DiagnosticsStep

\* When the server has nothing left to do, the editor shows for every file it
\* touched the outcome of its latest edit.
THEOREM DiagnosticsSettle == Spec => []DiagnosticsAgree
<1>1. Init => OutcomeInv
  BY DEF Init, OutcomeInv, EditsOf
<1>2. TypeInv /\ WorkInv /\ OutcomeInv /\ [Next]_vars => OutcomeInv'
  BY OutcomeNext
<1>3. ASSUME OutcomeInv
      PROVE  DiagnosticsAgree
  <2> SUFFICES ASSUME Quiet, NEW u \in Uris, EditsOf(u, taken) # {}
               PROVE  /\ shown[u].msg = Newest(EditsOf(u, taken))
                      /\ shown[u].doc = documents[u]
    BY DEF DiagnosticsAgree
  <2>1. PICK p : Told(u, p) /\ Outcome(u, p)
    BY <1>3 DEF OutcomeInv, Quiet, InHand
  <2>2. 1 .. Len(outbox) = {}
    BY DEF Quiet
  <2>3. shown[u] = p
    BY <2>1, <2>2 DEF Told
  <2> QED
    BY <2>1, <2>3 DEF Outcome
<1> QED
  BY <1>1, <1>2, <1>3, TypeCorrect, WorkHolds, PTL DEF Spec
----------------------------------------------------------------------------
(***************************************************************************)
(* The text of a publication.                                              *)
(***************************************************************************)
MatchesText(p) ==
  p.kind = "issues" => /\ p.msg \in 1 .. Len(log)
                       /\ p.doc = DocAfter(log[p.msg])
                       /\ p.version = log[p.msg].version
                       /\ p.uri = log[p.msg].uri
                       /\ Len(p.used) = Len(p.doc.parts)

MatchInv == \A p \in Publications : MatchesText(p)

\* A publication that matches its text goes on doing so.
LEMMA MatchStable ==
  ASSUME TypeInv, [Next]_vars, NEW p, MatchesText(p)
  PROVE  MatchesText(p)'
<1>1. CASE p.kind = "issues"
  <2>1. p.msg \in 1 .. Len(log)
    BY <1>1 DEF MatchesText
  <2>2. log'[p.msg] = log[p.msg] /\ p.msg \in 1 .. Len(log')
    BY <2>1, LogGrows
  <2> QED
    BY <1>1, <2>2 DEF MatchesText, DocAfter
<1>2. CASE p.kind # "issues"
  BY <1>2 DEF MatchesText
<1> QED
  BY <1>1, <1>2

\* What publish_diagnostics sends was computed from the text it names.
LEMMA IssuesMatch ==
  ASSUME TypeInv, WorkInv, StoreMirrorsEditor, PublishDiagnostics
  PROVE  MatchesText(Issues)
<1>1. current # Idle /\ Len(current.used) = Len(documents[Edited].parts)
  BY PublishStep
<1>2. taken \in 1 .. Len(log) /\ IsEdit(log[taken]) /\ Edited \in Uris /\ taken \in Nat
  BY <1>1, WorkingOn, Counts
<1>3. taken \in EditsOf(Edited, taken) /\ EditsOf(Edited, taken) \in SUBSET (1 .. taken)
  BY <1>2 DEF EditsOf, Edited
<1>4. Newest(EditsOf(Edited, taken)) = taken
  <2>1. \A j \in EditsOf(Edited, taken) : j <= taken
    BY <1>2, <1>3
  <2> QED
    BY <1>2, <1>3, <2>1, NewestUnique
<1>5. documents[Edited] = DocAfter(log[taken])
  BY <1>2, <1>3, <1>4 DEF StoreMirrorsEditor, EditorDocs
<1> QED
  BY <1>1, <1>2, <1>5 DEF MatchesText, Issues, Edited

\* A step keeps MatchInv.
LEMMA MatchNext ==
  ASSUME TypeInv, WorkInv, StoreMirrorsEditor, MatchInv, [Next]_vars
  PROVE  MatchInv'
<1>1. \A p \in Publications : MatchesText(p)'
  BY MatchStable DEF MatchInv
<1>2. CASE UNCHANGED <<outbox, shown>>
  BY <1>1, <1>2 DEF MatchInv, Publications
<1>3. ASSUME NEW p, outbox' = Append(outbox, p), UNCHANGED shown, MatchesText(p)'
      PROVE  MatchInv'
  <2>1. /\ Len(outbox) \in Nat /\ Len(outbox') = Len(outbox) + 1
        /\ DOMAIN outbox = 1 .. Len(outbox) /\ DOMAIN outbox' = 1 .. Len(outbox')
        /\ outbox'[Len(outbox) + 1] = p /\ \A i \in 1 .. Len(outbox) : outbox'[i] = outbox[i]
    BY <1>3, OutboxType
  <2>2. \A i \in DOMAIN outbox' : outbox'[i] = p \/ \E j \in DOMAIN outbox : outbox'[i] = outbox[j]
    BY <2>1
  <2>3. Publications' \subseteq Publications \cup {p}
    BY <1>3, <2>2 DEF Publications
  <2> QED
    BY <1>1, <1>3, <2>3 DEF MatchInv
<1>4. CASE TakesEdit
  <2>1. CASE StoresEdit(log[Now].uri)
    BY <1>2, <1>4, <2>1 DEF TakesEdit, StoresEdit
  <2>2. ASSUME NEW p, SettlesEdit(log[Now].uri, p)
        PROVE  MatchInv'
    <3>1. outbox' = Append(outbox, p) /\ UNCHANGED shown /\ p.kind # "issues"
      BY <1>4, <2>2 DEF TakesEdit, SettlesEdit
    <3> QED
      BY <1>3, <3>1 DEF MatchesText
  <2> QED
    BY <1>4, <2>1, <2>2 DEF TakesEdit
<1>5. CASE PublishDiagnostics
  <2>1. PICK p : p = Issues
    OBVIOUS
  <2>2. MatchesText(p) /\ outbox' = Append(outbox, p) /\ UNCHANGED shown
    BY <1>5, <2>1, IssuesMatch, PublishStep
  <2> QED
    BY <1>3, <2>2, MatchStable
<1>6. CASE Deliver
  <2>1. /\ Len(outbox) \in Nat /\ Len(outbox) >= 1 /\ Len(outbox') = Len(outbox) - 1
        /\ DOMAIN outbox = 1 .. Len(outbox) /\ DOMAIN outbox' = 1 .. Len(outbox')
        /\ \A i \in 1 .. Len(outbox') : outbox'[i] = outbox[i + 1]
        /\ shown' = [shown EXCEPT ![outbox[1].uri] = outbox[1]]
    BY <1>6, DeliverStep, OutboxType DEF Deliver
  <2>2. shown \in [Uris -> Publication \cup {NothingShown}]
    BY DEF TypeInv, TypeOK
  <2>3. Publications' \subseteq Publications
    <3>1. \A i \in DOMAIN outbox' : i + 1 \in DOMAIN outbox
      BY <2>1
    <3>2. 1 \in DOMAIN outbox
      BY <2>1
    <3>3. \A u \in Uris : shown'[u] = shown[u] \/ shown'[u] = outbox[1]
      BY <2>1, <2>2
    <3> QED
      BY <2>1, <3>1, <3>2, <3>3 DEF Publications
  <2> QED
    BY <1>1, <2>3 DEF MatchInv
<1>7. CASE \/ TakesOther \/ TakeSnapshot \/ DiagnosePart
           \/ UNCHANGED <<documents, taken, current, outbox, shown>>
  <2>1. UNCHANGED <<outbox, shown>>
    BY <1>7, SnapshotStep, PartStep DEF TakesOther
  <2> QED
    BY <1>2, <2>1
<1> QED
  BY <1>4, <1>5, <1>6, <1>7, DiagnosticsStep

\* Diagnostics were computed from the text of the version they are tagged with,
\* though publish_diagnostics reads the store again after the upsert; provided
\* that no didChange carries more than one text.
THEOREM DiagnosticsVersioned ==
  ASSUME MaxBatch <= 1
  PROVE  Spec => []DiagnosticsMatchVersion
<1>1. Init => MatchInv
  BY DEF Init, MatchInv, Publications, MatchesText, NothingShown
<1>2. TypeInv /\ WorkInv /\ StoreMirrorsEditor /\ MatchInv /\ [Next]_vars => MatchInv'
  BY MatchNext
<1>3. MatchInv => DiagnosticsMatchVersion
  BY DEF MatchInv, MatchesText, DiagnosticsMatchVersion
<1> QED
  BY <1>1, <1>2, <1>3, TypeCorrect, WorkHolds, StoreMirrors, PTL DEF Spec

----------------------------------------------------------------------------
(***************************************************************************)
(* The registry only grows, and so does what publications find in it.      *)
(***************************************************************************)
Issued(p) == p.kind = "issues"

\* What was found for a part is in the registry still.
Found(w) ==
  /\ w.doc \in Document /\ w.used \in Seq(MaybeSchema)
  /\ Len(w.used) <= Len(w.doc.parts)
  /\ \A i \in DOMAIN w.used : w.used[i] # NoSchema => SchemaFor(w.doc.parts[i]) # NoSchema

\* What v found, w finds as well.
NotLost(v, w) ==
  \A i \in DOMAIN v.used, j \in DOMAIN w.used :
    SameKey(v.doc.parts[i], w.doc.parts[j]) /\ v.used[i] # NoSchema => w.used[j] # NoSchema

\* Publications are in the order they were computed in, those shown before
\* those on their way and the one in hand last.
ForgetInv ==
  /\ \A p \in Publications : Issued(p) => Found(p)
  /\ \A i, j \in DOMAIN outbox :
       i < j /\ Issued(outbox[i]) /\ Issued(outbox[j]) => NotLost(outbox[i], outbox[j])
  /\ \A u \in Uris, i \in DOMAIN outbox :
       Issued(shown[u]) /\ Issued(outbox[i]) => NotLost(shown[u], outbox[i])
  /\ current.pc = "diagnose" => /\ Found(current)
                                /\ \A p \in Publications : Issued(p) => NotLost(p, current)

\* Nothing but a loader changes the registry, by putting a schema into it.
LEMMA RegistryStep ==
  ASSUME TypeInv, [Next]_vars
  PROVE  UNCHANGED dynamic \/ \E k \in Keys, s \in Schemas : InsertDynamic(k, s)
<1>1. CASE \E l \in Loaders : LoaderInsert(l)
  <2>1. PICK l \in Loaders : LoaderInsert(l)
    BY <1>1
  <2>2. loading[l].left \in Seq([key : Keys, schema : Schemas]) /\ loading[l].left # <<>>
    BY <2>1 DEF TypeInv, TypeOK, LoaderInsert
  <2>3. Head(loading[l].left) \in [key : Keys, schema : Schemas]
    BY <2>2, HeadTailProperties
  <2>4. Head(loading[l].left).key \in Keys /\ Head(loading[l].left).schema \in Schemas
    BY <2>3
  <2> QED
    BY <2>1, <2>4 DEF LoaderInsert
<1>2. CASE HandlerStep
  BY <1>2 DEF HandlerStep, DidOpen, DidChange, DidClose, TakeSnapshot, DiagnosePart, PublishDiagnostics,
              Hover, CompleteField, CompleteNothing, CompleteName, DumpSnapshot, RefreshCluster,
              backgroundVars
<1>3. CASE \/ \E hasPaths \in BOOLEAN : Initialize(hasPaths)
           \/ EditorStep \/ UNCHANGED vars \/ Deliver
           \/ \E c \in parked : ResumeCompletion(c)
           \/ \E t \in Tasks : FinishRefresh(t)
           \/ \E l \in Loaders : LoaderListed(l)
  BY <1>3 DEF Initialize, EditorStep, SendOpen, SendChange, SendClose, SendRequest, Edit, Send,
              FinishRefresh, LoaderListed, ResumeCompletion, Deliver,
              vars, serverVars, storeVars, backgroundVars
<1> QED
  BY <1>1, <1>2, <1>3 DEF Next, BackgroundStep, Finished

\* A part that has a schema keeps having one.
LEMMA RegistryGrows ==
  ASSUME TypeInv, [Next]_vars, NEW part \in Part, SchemaFor(part) # NoSchema
  PROVE  SchemaFor(part)' # NoSchema
<1>1. Absent \notin {part.api, part.kind}
  BY DEF SchemaFor
<1>2. <<part.api, part.kind>> \in Keys
  BY <1>1, KeyAssumption DEF Part
<1>3. dynamic \in [Keys -> Schemas \cup {NoSchema}] /\ NoSchema \notin Schemas
  BY BundleAssumption DEF TypeInv, TypeOK, RegistryTypeOK
<1>4. CASE <<part.api, part.kind>> \in DOMAIN Bundle
  BY <1>1, <1>4 DEF SchemaFor, Lookup
<1>5. CASE <<part.api, part.kind>> \notin DOMAIN Bundle
  <2>1. dynamic[<<part.api, part.kind>>] # NoSchema
    BY <1>1, <1>5 DEF SchemaFor, Lookup
  <2>2. dynamic'[<<part.api, part.kind>>] # NoSchema
    BY <1>2, <1>3, <2>1, RegistryStep DEF InsertDynamic
  <2> QED
    BY <1>1, <1>5, <2>2 DEF SchemaFor, Lookup
<1> QED
  BY <1>4, <1>5

\* The part that a result belongs to.
LEMMA FoundPart ==
  ASSUME NEW w, Found(w), NEW i \in DOMAIN w.used
  PROVE  i \in DOMAIN w.doc.parts /\ w.doc.parts[i] \in Part
<1>1. w.doc.parts \in Seq(Part) /\ w.used \in Seq(MaybeSchema) /\ Len(w.used) <= Len(w.doc.parts)
  BY DEF Found, Document
<1>2. i \in 1 .. Len(w.doc.parts)
  BY <1>1
<1>3. w.doc.parts[i] \in Part
  BY <1>1, <1>2, ElementOfSeq
<1> QED
  BY <1>1, <1>2, <1>3

\* What was found stays in the registry.
LEMMA FoundStays ==
  ASSUME TypeInv, [Next]_vars, NEW w, Found(w)
  PROVE  Found(w)'
<1>1. \A i \in DOMAIN w.used : w.used[i] # NoSchema => SchemaFor(w.doc.parts[i])' # NoSchema
  BY FoundPart, RegistryGrows DEF Found
<1> QED
  BY <1>1 DEF Found

\* A step that sends nothing.
LEMMA ForgetSame ==
  ASSUME TypeInv, ForgetInv, [Next]_vars, UNCHANGED <<outbox, shown>>,
         current'.pc = "diagnose" =>
           Found(current)' /\ \A p \in Publications : Issued(p) => NotLost(p, current')
  PROVE  ForgetInv'
<1>1. Publications' = Publications
  BY DEF Publications
<1>2. \A p \in Publications : Issued(p) => Found(p)'
  BY FoundStays DEF ForgetInv
<1> QED
  BY <1>1, <1>2 DEF ForgetInv

\* A step that sends a notification.
LEMMA ForgetAppend ==
  ASSUME TypeInv, ForgetInv, [Next]_vars, NEW p, outbox' = Append(outbox, p), UNCHANGED shown,
         current'.pc # "diagnose",
         Issued(p) => Found(p) /\ \A q \in Publications : Issued(q) => NotLost(q, p)
  PROVE  ForgetInv'
<1>1. PICK n \in Nat : /\ n = Len(outbox) /\ DOMAIN outbox = 1 .. n /\ DOMAIN outbox' = 1 .. n + 1
                       /\ \A i \in 1 .. n : outbox'[i] = outbox[i]
                       /\ outbox'[n + 1] = p
  BY OutboxType
<1>2. \A i \in 1 .. n + 1 : i = n + 1 \/ i \in 1 .. n
  BY <1>1
<1>3. \A i \in 1 .. n : outbox[i] \in Publications
  BY <1>1 DEF Publications
<1>4. \A u \in Uris : shown[u] \in Publications
  BY DEF Publications
<1>5. \A q \in Publications' : q \in Publications \/ q = p
  BY <1>1, <1>2 DEF Publications
<1>6. \A q \in Publications' : Issued(q) => Found(q)'
  BY <1>5, FoundStays DEF ForgetInv
<1>7. ASSUME NEW i \in 1 .. n + 1, NEW j \in 1 .. n + 1, i < j,
             Issued(outbox'[i]), Issued(outbox'[j])
      PROVE  NotLost(outbox'[i], outbox'[j])
  <2>1. i \in 1 .. n
    BY <1>1, <1>7
  <2>2. CASE j = n + 1
    BY <1>1, <1>3, <1>7, <2>1, <2>2
  <2>3. CASE j # n + 1
    BY <1>1, <1>2, <1>7, <2>1, <2>3 DEF ForgetInv
  <2> QED
    BY <2>2, <2>3
<1>8. ASSUME NEW u \in Uris, NEW i \in 1 .. n + 1, Issued(shown[u]), Issued(outbox'[i])
      PROVE  NotLost(shown[u], outbox'[i])
  BY <1>1, <1>2, <1>4, <1>8 DEF ForgetInv
<1> QED
  BY <1>1, <1>6, <1>7, <1>8 DEF ForgetInv

\* The lookup of one more part finds what any publication has found.
LEMMA PartFound ==
  ASSUME TypeInv, WorkInv, ForgetInv, [Next]_vars, DiagnosePart
  PROVE  Found(current)' /\ \A p \in Publications : Issued(p) => NotLost(p, current')
<1>1. current.pc = "diagnose" /\ Found(current)
  BY DEF DiagnosePart, ForgetInv
<1>2. current \in [pc : {"diagnose"}, msg : Messages, doc : Document, used : Seq(MaybeSchema)]
  BY <1>1 DEF TypeInv, TypeOK, Working, Idle
<1>3. PICK n \in Nat : n = Len(current.used) /\ n + 1 <= Len(current.doc.parts)
  BY <1>2 DEF DiagnosePart
<1>4. PICK part \in Part : part = current.doc.parts[n + 1]
  <2>1. current.doc.parts \in Seq(Part)
    BY <1>2 DEF Document
  <2>2. n + 1 \in 1 .. Len(current.doc.parts)
    BY <1>3, <2>1
  <2> QED
    BY <2>1, <2>2, ElementOfSeq
<1>5. SchemaFor(part) \in MaybeSchema
  BY <1>4, KeyAssumption, BundleAssumption
  DEF SchemaFor, Lookup, MaybeSchema, Part, TypeInv, TypeOK, RegistryTypeOK
<1>6. /\ current'.doc = current.doc /\ current'.used = Append(current.used, SchemaFor(part))
      /\ UNCHANGED dynamic
  BY <1>2, <1>3, <1>4 DEF DiagnosePart, backgroundVars
<1>7. /\ DOMAIN current.used = 1 .. n /\ DOMAIN current'.used = 1 .. n + 1
      /\ \A i \in 1 .. n : current'.used[i] = current.used[i]
      /\ current'.used[n + 1] = SchemaFor(part)
      /\ current'.used \in Seq(MaybeSchema) /\ Len(current'.used) = n + 1
  BY <1>2, <1>3, <1>5, <1>6
<1>8. \A q : SchemaFor(q)' = SchemaFor(q)
  BY <1>6 DEF SchemaFor, Lookup
<1>9. Found(current)'
  <2>1. \A i \in 1 .. n + 1 : current'.used[i] # NoSchema => SchemaFor(current'.doc.parts[i]) # NoSchema
    BY <1>1, <1>3, <1>4, <1>6, <1>7 DEF Found
  <2> QED
    BY <1>2, <1>3, <1>6, <1>7, <1>8, <2>1 DEF Found
<1>10. ASSUME NEW p \in Publications, Issued(p)
       PROVE  NotLost(p, current')
  <2>1. Found(p) /\ NotLost(p, current)
    BY <1>1, <1>10 DEF ForgetInv
  <2> SUFFICES ASSUME NEW i \in DOMAIN p.used, NEW j \in 1 .. n + 1, p.used[i] # NoSchema,
                      SameKey(p.doc.parts[i], current'.doc.parts[j])
               PROVE  current'.used[j] # NoSchema
    BY <1>7 DEF NotLost
  <2>2. CASE j = n + 1
    <3>1. SchemaFor(p.doc.parts[i]) # NoSchema
      BY <2>1 DEF Found
    <3>2. p.doc.parts[i].api = part.api /\ p.doc.parts[i].kind = part.kind
      BY <1>4, <1>6, <2>2 DEF SameKey
    <3> QED
      BY <1>7, <2>2, <3>1, <3>2 DEF SchemaFor
  <2>3. CASE j # n + 1
    <3>1. j \in 1 .. n
      BY <2>3
    <3> QED
      BY <1>6, <1>7, <2>1, <3>1 DEF NotLost
  <2> QED
    BY <2>2, <2>3
<1> QED
  BY <1>9, <1>10

\* A step keeps ForgetInv.
LEMMA ForgetNext ==
  ASSUME TypeInv, WorkInv, ForgetInv, [Next]_vars
  PROVE  ForgetInv'
<1>1. CASE TakesEdit
  <2>1. CASE StoresEdit(log[Now].uri)
    <3>1. UNCHANGED <<outbox, shown>> /\ current'.pc = "snapshot"
      BY <1>1, <2>1 DEF TakesEdit, StoresEdit
    <3> QED
      BY <3>1, ForgetSame
  <2>2. ASSUME NEW p, SettlesEdit(log[Now].uri, p)
        PROVE  ForgetInv'
    <3>1. outbox' = Append(outbox, p) /\ UNCHANGED shown /\ current' = Idle /\ ~Issued(p)
      BY <1>1, <2>2 DEF TakesEdit, SettlesEdit, Issued
    <3> QED
      BY <3>1, ForgetAppend, IdleFacts
  <2> QED
    BY <1>1, <2>1, <2>2 DEF TakesEdit
<1>2. CASE TakeSnapshot
  <2>1. UNCHANGED <<outbox, shown, documents>> /\ documents[Edited] # NoDoc /\ Edited \in Uris
    BY <1>2, SnapshotStep, WorkingOn DEF WorkInv, TakeSnapshot
  <2>2. current'.doc = documents[Edited] /\ current'.used = <<>>
    <3>1. current.msg = taken
      BY <1>2, SnapshotStep, WorkingOn
    <3> QED
      BY <1>2, <2>1, <3>1 DEF TakeSnapshot, Edited
  <2>3. current'.doc \in Document
    BY <2>1, <2>2 DEF TypeInv, TypeOK, StoreTypeOK
  <2>4. Found(current)'
    <3>1. current'.doc.parts \in Seq(Part)
      BY <2>3 DEF Document
    <3> QED
      BY <2>2, <2>3, <3>1 DEF Found
  <2>5. \A p : NotLost(p, current')
    BY <2>2 DEF NotLost
  <2> QED
    BY <2>1, <2>4, <2>5, ForgetSame
<1>3. CASE DiagnosePart
  BY <1>3, PartStep, PartFound, ForgetSame
<1>4. CASE PublishDiagnostics
  <2>1. current.pc = "diagnose" /\ current.doc = documents[Edited]
    BY <1>4 DEF PublishDiagnostics, WorkInv
  <2>2. Issues.doc = current.doc /\ Issues.used = current.used
    BY <2>1 DEF Issues
  <2>3. PICK p : p = Issues
    OBVIOUS
  <2>4. Found(p) /\ \A q \in Publications : Issued(q) => NotLost(q, p)
    BY <2>1, <2>2, <2>3 DEF ForgetInv, Found, NotLost
  <2>5. outbox' = Append(outbox, p) /\ UNCHANGED shown /\ current' = Idle
    BY <1>4, <2>3, PublishStep
  <2> QED
    BY <2>4, <2>5, ForgetAppend, IdleFacts
<1>5. CASE Deliver
  <2>1. PICK n \in Nat :
          /\ n = Len(outbox) /\ DOMAIN outbox = 1 .. n /\ DOMAIN outbox' = 1 .. n - 1 /\ n >= 1
          /\ \A i \in 1 .. n - 1 : outbox'[i] = outbox[i + 1] /\ i + 1 \in 1 .. n
    BY <1>5, DeliverStep, OutboxType
  <2>2. \A u \in Uris : shown'[u] = outbox[1] \/ shown'[u] = shown[u]
    BY <1>5, DeliverStep DEF TypeInv, TypeOK
  <2>3. 1 \in 1 .. n
    BY <2>1
  <2>4. Publications' \subseteq Publications
    BY <2>1, <2>2, <2>3 DEF Publications
  <2>5. \A p \in Publications' : Issued(p) => Found(p)'
    BY <2>4, FoundStays DEF ForgetInv
  <2>6. \A i, j \in 1 .. n - 1 :
          i < j /\ Issued(outbox'[i]) /\ Issued(outbox'[j]) => NotLost(outbox'[i], outbox'[j])
    BY <2>1 DEF ForgetInv
  <2>7. ASSUME NEW u \in Uris, NEW i \in 1 .. n - 1, Issued(shown'[u]), Issued(outbox'[i])
        PROVE  NotLost(shown'[u], outbox'[i])
    <3>1. outbox'[i] = outbox[i + 1] /\ i + 1 \in 1 .. n /\ 1 < i + 1
      BY <2>1
    <3> QED
      BY <2>1, <2>2, <2>3, <2>7, <3>1 DEF ForgetInv
  <2>8. current'.pc = "diagnose" => /\ Found(current)'
                                    /\ \A p \in Publications' : Issued(p) => NotLost(p, current')
    <3>1. current' = current
      BY <1>5, DeliverStep
    <3>2. current.pc = "diagnose" => Found(current)'
      <4>1. PICK w : w = current
        OBVIOUS
      <4> QED
        BY <3>1, <4>1, FoundStays DEF ForgetInv, Found
    <3> QED
      BY <2>4, <3>1, <3>2 DEF ForgetInv
  <2> QED
    BY <2>1, <2>5, <2>6, <2>7, <2>8 DEF ForgetInv
<1>6. CASE TakesOther \/ UNCHANGED <<documents, taken, current, outbox, shown>>
  <2>1. UNCHANGED <<outbox, shown, current>>
    BY <1>6 DEF TakesOther
  <2>2. current.pc = "diagnose" => Found(current)'
    <3>1. PICK w : w = current
      OBVIOUS
    <3> QED
      BY <2>1, <3>1, FoundStays DEF ForgetInv, Found
  <2> QED
    BY <2>1, <2>2, ForgetSame DEF ForgetInv
<1> QED
  BY <1>1, <1>2, <1>3, <1>4, <1>5, <1>6, DiagnosticsStep

\* A schema that one publication validated with is there for every later one.
THEOREM SchemasKept == Spec => SchemasNotForgotten
<1>1. Init => ForgetInv
  <2> SUFFICES ASSUME Init PROVE ForgetInv
    OBVIOUS
  <2>1. outbox = <<>> /\ current.pc = "idle" /\ \A u \in Uris : shown[u].kind = "nothing"
    BY IdleFacts DEF Init, NothingShown
  <2>2. \A p \in Publications : ~Issued(p)
    BY <2>1 DEF Publications, Issued
  <2> QED
    BY <2>1, <2>2 DEF ForgetInv
<1>2. TypeInv /\ WorkInv /\ ForgetInv /\ [Next]_vars => ForgetInv'
  BY ForgetNext
<1>3. TypeInv /\ WorkInv /\ ForgetInv /\ [Next]_vars =>
        \A u \in Uris :
          LET a == shown[u]
              b == shown'[u]
          IN  a.kind = "issues" /\ b.kind = "issues" /\ a.msg < b.msg =>
                \A i \in DOMAIN a.used, j \in DOMAIN b.used :
                  SameKey(a.doc.parts[i], b.doc.parts[j]) /\ a.used[i] # NoSchema
                    => b.used[j] # NoSchema
  <2> SUFFICES ASSUME TypeInv, WorkInv, ForgetInv, [Next]_vars, NEW u \in Uris
               PROVE  LET a == shown[u]
                          b == shown'[u]
                      IN  a.kind = "issues" /\ b.kind = "issues" /\ a.msg < b.msg =>
                            \A i \in DOMAIN a.used, j \in DOMAIN b.used :
                              SameKey(a.doc.parts[i], b.doc.parts[j]) /\ a.used[i] # NoSchema
                                => b.used[j] # NoSchema
    OBVIOUS
  <2>1. CASE shown'[u] = shown[u]
    BY <2>1, OutboxType
  <2>2. CASE Deliver /\ shown'[u] = outbox[1]
    <3>1. 1 \in DOMAIN outbox
      BY <2>2, DeliverStep, OutboxType
    <3>2. Issued(shown[u]) /\ Issued(outbox[1]) => NotLost(shown[u], outbox[1])
      BY <3>1 DEF ForgetInv
    <3> QED
      BY <2>2, <3>2 DEF Issued, NotLost
  <2>3. CASE Deliver /\ shown'[u] # outbox[1]
    <3>1. shown'[u] = shown[u]
      BY <2>3, DeliverStep DEF TypeInv, TypeOK
    <3> QED
      BY <2>1, <3>1
  <2> QED
    BY <2>1, <2>2, <2>3, OutboxStep DEF SendsOne
<1> QED
  BY <1>1, <1>2, <1>3, TypeCorrect, WorkHolds, PTL DEF Spec, SchemasNotForgotten
=============================================================================
