------------------------- MODULE ServerAnswersProofs -------------------------
(***************************************************************************)
(* Theorems about the answers of the server, and about the names it offers *)
(* in them (NameOffers).                                                   *)
(***************************************************************************)
EXTENDS LspServerProofs, NameOffers

(***************************************************************************)
(* The cluster.                                                            *)
(***************************************************************************)
\* Nothing has to do with the cluster while it is disabled, which it is until
\* the options have been read.
EnabledInv ==
  /\ phase = "starting" => ~clusterEnabled
  /\ phase = "ready" => clusterEnabled = (option = "enabled_true")
  /\ ~clusterEnabled => /\ refreshing = {}
                        /\ loading["cluster"] = NotLoading
                        /\ parked = {}
                        /\ \A a \in DataAnswers : a.cluster = {}

\* A step keeps EnabledInv.
LEMMA EnabledNext ==
  ASSUME TypeInv, EnabledInv, [Next]_vars
  PROVE  EnabledInv'
<1>1. phase \in {"starting", "ready"} /\ loading \in [Loaders -> [pc : {"off", "listing", "inserting"},
                                                   left : Seq([key : Keys, schema : Schemas])]]
      /\ clusterEnabled \in BOOLEAN
  BY DEF TypeInv, TypeOK
<1>2. ASSUME NEW hasPaths \in BOOLEAN, Initialize(hasPaths)
      PROVE  EnabledInv'
  <2>1. phase = "starting" /\ ~clusterEnabled /\ phase' = "ready" /\ UNCHANGED <<option, parked, answers>>
    BY <1>2 DEF Initialize, EnabledInv
  <2>2. clusterEnabled' = (option = "enabled_true")
    BY <1>2 DEF Initialize, ClusterEnabledFrom
  <2>3. ASSUME ~clusterEnabled'
        PROVE  refreshing' = {} /\ loading'["cluster"] = NotLoading
    <3>1. option # "enabled_true" /\ ~ClusterEnabledFrom(option)
      BY <2>2, <2>3 DEF ClusterEnabledFrom
    <3>2. UNCHANGED clusterVars
      BY <1>2, <3>1 DEF Initialize
    <3>3. loading'["cluster"] = NotLoading
      BY <1>2, <3>1 DEF Initialize, Loaders
    <3> QED
      BY <2>1, <3>2, <3>3 DEF EnabledInv, clusterVars
  <2> QED
    BY <2>1, <2>2, <2>3 DEF EnabledInv, DataAnswers
<1>3. CASE EditorStep \/ Deliver \/ UNCHANGED vars
  <2>1. UNCHANGED <<phase, option, clusterEnabled, refreshing, loading, parked, answers>>
    BY <1>3 DEF EditorStep, SendOpen, SendChange, SendClose, SendRequest, Edit, Send, Deliver,
                vars, serverVars, clusterVars
  <2> QED
    BY <2>1 DEF EnabledInv, DataAnswers
<1>4. CASE DidOpen \/ DidChange \/ DidClose \/ TakeSnapshot \/ DiagnosePart \/ PublishDiagnostics
  BY <1>4 DEF DidOpen, DidChange, DidClose, TakeSnapshot, DiagnosePart, PublishDiagnostics,
              backgroundVars, clusterVars, EnabledInv, DataAnswers
<1>5. ASSUME UNCHANGED backgroundVars, UNCHANGED parked, NEW i, NEW snap, NEW schema, NEW open,
             Respond(i, snap, schema, open, {})
      PROVE  EnabledInv'
  BY <1>5 DEF Respond, EnabledInv, DataAnswers, backgroundVars, clusterVars
<1>6. CASE Hover \/ CompleteField \/ CompleteNothing \/ DumpSnapshot
  BY <1>5, <1>6 DEF Hover, CompleteField, CompleteNothing, DumpSnapshot, AnswerFromSchema
<1>7. CASE CompleteName
  <2>1. CASE clusterEnabled
    BY <1>7, <2>1 DEF CompleteName, EnabledInv, backgroundVars
  <2>2. CASE ~clusterEnabled
    BY <1>5, <1>7, <2>2 DEF CompleteName
  <2> QED
    BY <2>1, <2>2
<1>8. CASE RefreshCluster
  <2>1. UNCHANGED <<phase, option, clusterEnabled, loading, parked>>
    BY <1>8 DEF RefreshCluster
  <2>2. CASE clusterEnabled
    BY <2>1, <2>2 DEF EnabledInv
  <2>3. CASE ~clusterEnabled
    <3>1. UNCHANGED clusterVars /\ answers' = answers \cup {[req |-> Now, kind |-> "disabled"]}
      BY <1>8, <2>3 DEF RefreshCluster
    <3>2. DataAnswers' = DataAnswers
      BY <3>1 DEF DataAnswers
    <3> QED
      BY <2>1, <3>1, <3>2 DEF EnabledInv, clusterVars
  <2> QED
    BY <2>2, <2>3
<1>9. ASSUME NEW c \in parked, ResumeCompletion(c)
      PROVE  EnabledInv'
  <2>1. clusterEnabled
    BY <1>9 DEF EnabledInv
  <2> QED
    BY <1>9, <2>1 DEF ResumeCompletion, EnabledInv, backgroundVars
<1>10. ASSUME NEW t \in Tasks, FinishRefresh(t)
      PROVE  EnabledInv'
  <2>1. t \in refreshing /\ UNCHANGED serverVars
    BY <1>10 DEF FinishRefresh, Abandon, Commit
  <2>2. clusterEnabled
    BY <2>1 DEF EnabledInv
  <2> QED
    BY <2>1, <2>2 DEF serverVars, EnabledInv
<1>11. ASSUME NEW l \in Loaders, LoaderListed(l) \/ LoaderInsert(l)
       PROVE  EnabledInv'
  <2>1. UNCHANGED <<clusterVars, phase, option, clusterEnabled, parked, answers>>
    BY <1>11 DEF LoaderListed, LoaderInsert
  <2>2. loading["cluster"] = NotLoading => loading'["cluster"] = loading["cluster"]
    <3>1. l = "cluster" => loading["cluster"] # NotLoading
      BY <1>11 DEF LoaderListed, LoaderInsert, NotLoading
    <3> QED
      BY <1>1, <1>11, <3>1 DEF LoaderListed, LoaderInsert, Loaders
  <2> QED
    BY <2>1, <2>2 DEF clusterVars, EnabledInv, DataAnswers
<1> QED
  BY <1>2, <1>3, <1>4, <1>6, <1>7, <1>8, <1>9, <1>10, <1>11
  DEF Next, HandlerStep, BackgroundStep, Finished

\* A server whose user did not enable the cluster never contacts it, under any
\* sequence of commands, and gives no name from it.
THEOREM Offline == Spec => []OfflineUnlessEnabled
<1>1. Init => EnabledInv
  BY DEF Init, ClusterInit, EnabledInv, DataAnswers, Loaders
<1>2. TypeInv /\ EnabledInv /\ [Next]_vars => EnabledInv'
  BY EnabledNext
<1>3. EnabledInv => OfflineUnlessEnabled
  BY DEF EnabledInv, OfflineUnlessEnabled
<1> QED
  BY <1>1, <1>2, <1>3, TypeCorrect, PTL DEF Spec

----------------------------------------------------------------------------
(***************************************************************************)
(* The answers.  A step answers a request it takes, parks it, answers one  *)
(* that was parked, or leaves answers and parked completions alone.        *)
(***************************************************************************)
RequestTypes == {"hover", "completion", "dumpSnapshot", "refreshCluster"}

\* A completion of names.
AsksNames(docs, m) == m.type = "completion" /\ m.place \in Kinds /\ HasPart(docs, m)
NamesFor(docs, m) == NameRefs(docs, m.place, PartAt(docs, m).ns)

TakesRequest == \E type \in RequestTypes : Take(type) /\ UNCHANGED <<log, storeVars>>

AnswersTaken(a) ==
  /\ TakesRequest
  /\ answers' = answers \cup {a} /\ UNCHANGED parked
  /\ a.req = Now
  /\ a.kind = "data" => /\ a.snap = Snapshot
                        /\ AsksNames(documents, log[Now]) => a.open = NamesFor(documents, log[Now])

ParksTaken(c) ==
  /\ TakesRequest
  /\ parked' = parked \cup {c} /\ UNCHANGED answers
  /\ c.req = Now /\ c.snap = Snapshot
  /\ AsksNames(documents, log[Now]) /\ c.open = NamesFor(documents, log[Now])

AnswersParked(c, a) ==
  /\ c \in parked /\ parked' = parked \ {c} /\ answers' = answers \cup {a}
  /\ a.req = c.req /\ a.kind = "data" /\ a.snap = c.snap /\ a.open = c.open
  /\ UNCHANGED <<log, taken, storeVars>>

\* As far as answers go a step does nothing, answers or parks the request that
\* is taken, or answers one that was parked.
LEMMA AnswerStep ==
  ASSUME TypeInv, [Next]_vars
  PROVE  \/ UNCHANGED <<answers, parked>>
         \/ \E a : AnswersTaken(a)
         \/ \E c : ParksTaken(c)
         \/ \E c, a : AnswersParked(c, a)
<1>1. TypeOK
  BY DEF TypeInv
<1>2. ASSUME NEW type \in RequestTypes, Take(type), UNCHANGED <<storeVars, backgroundVars>>
      PROVE  TakesRequest /\ log[Now].type = type
  BY <1>1, <1>2, TakeType DEF TakesRequest, backgroundVars
<1>3. ASSUME NEW schema, NEW open, NEW cluster, TakesRequest, UNCHANGED parked,
             Respond(Now, Snapshot, schema, open, cluster),
             AsksNames(documents, log[Now]) => open = NamesFor(documents, log[Now])
      PROVE  \E a : AnswersTaken(a)
  <2> DEFINE a == [req |-> Now, kind |-> "data", snap |-> Snapshot, schema |-> schema,
                   open |-> open, cluster |-> cluster]
  <2>1. answers' = answers \cup {a} /\ a.req = Now /\ a.snap = Snapshot /\ a.open = open
    BY <1>3 DEF Respond
  <2>2. AnswersTaken(a)
    BY <1>3, <2>1 DEF AnswersTaken
  <2> QED
    BY <2>2
<1>4. CASE Hover \/ CompleteField
  <2>1. AnswerFromSchema(log[Now])
    BY <1>4 DEF Hover, CompleteField
  <2>2. PICK schema : Respond(Now, Snapshot, schema, {}, {}) /\ UNCHANGED parked
    BY <2>1 DEF AnswerFromSchema
  <2>3. TakesRequest /\ ~AsksNames(documents, log[Now])
    BY <1>2, <1>4, PlaceAssumption DEF Hover, CompleteField, RequestTypes, AsksNames
  <2> QED
    BY <1>3, <2>2, <2>3
<1>5. CASE CompleteNothing
  <2>1. TakesRequest /\ ~AsksNames(documents, log[Now])
    BY <1>2, <1>5, PlaceAssumption DEF CompleteNothing, RequestTypes, AsksNames
  <2>2. Respond(Now, Snapshot, NoSchema, {}, {}) /\ UNCHANGED parked
    BY <1>5 DEF CompleteNothing
  <2> QED
    BY <1>3, <2>1, <2>2
<1>6. CASE CompleteName
  <2> DEFINE open == NamesFor(documents, log[Now])
  <2>1. TakesRequest /\ AsksNames(documents, log[Now])
    BY <1>2, <1>6 DEF CompleteName, RequestTypes, AsksNames
  <2>2. CASE clusterEnabled
    <3> DEFINE c == [req |-> Now, snap |-> Snapshot, open |-> open]
    <3>1. parked' = parked \cup {c} /\ UNCHANGED answers
      BY <1>6, <2>2 DEF CompleteName, NamesFor
    <3>2. ParksTaken(c)
      BY <2>1, <3>1 DEF ParksTaken
    <3> QED
      BY <3>2
  <2>3. CASE ~clusterEnabled
    <3>1. Respond(Now, Snapshot, NoSchema, open, {}) /\ UNCHANGED parked
      BY <1>6, <2>3 DEF CompleteName, NamesFor
    <3> QED
      BY <1>3, <2>1, <3>1
  <2> QED
    BY <2>2, <2>3
<1>7. CASE DumpSnapshot
  <2>1. TakesRequest /\ ~AsksNames(documents, log[Now])
    BY <1>2, <1>7 DEF DumpSnapshot, RequestTypes, AsksNames
  <2>2. Respond(Now, Snapshot, NoSchema, {}, {}) /\ UNCHANGED parked
    BY <1>7 DEF DumpSnapshot
  <2> QED
    BY <1>3, <2>1, <2>2
<1>8. CASE RefreshCluster
  <2>1. TakesRequest /\ UNCHANGED parked
    BY <1>1, <1>8, TakeType DEF RefreshCluster, TakesRequest, RequestTypes
  <2>2. PICK a \in {[req |-> Now, kind |-> "disabled"], [req |-> Now, kind |-> "refreshing"]} :
          answers' = answers \cup {a}
    BY <1>8 DEF RefreshCluster
  <2>3. a.req = Now /\ a.kind # "data"
    BY <2>2
  <2> QED
    BY <2>1, <2>2, <2>3 DEF AnswersTaken
<1>9. ASSUME NEW c \in parked, ResumeCompletion(c)
      PROVE  \E a : AnswersParked(c, a)
  <2>1. PICK cluster : Respond(c.req, c.snap, NoSchema, c.open, cluster)
    BY <1>9 DEF ResumeCompletion
  <2>2. parked' = parked \ {c} /\ UNCHANGED <<log, taken, storeVars>>
    BY <1>9 DEF ResumeCompletion, backgroundVars, storeVars
  <2> QED
    BY <2>1, <2>2 DEF AnswersParked, Respond
<1>10. CASE \/ \E hasPaths \in BOOLEAN : Initialize(hasPaths)
           \/ EditorStep \/ Deliver \/ BackgroundStep \/ UNCHANGED vars
           \/ DidOpen \/ DidChange \/ DidClose
           \/ TakeSnapshot \/ DiagnosePart \/ PublishDiagnostics
  BY <1>10 DEF Initialize, EditorStep, SendOpen, SendChange, SendClose, SendRequest, Edit, Send,
              Deliver, BackgroundStep, FinishRefresh, LoaderListed, LoaderInsert, DidOpen, DidChange,
              DidClose, TakeSnapshot, DiagnosePart, PublishDiagnostics, vars, serverVars
<1> QED
  BY <1>4, <1>5, <1>6, <1>7, <1>8, <1>9, <1>10 DEF Next, HandlerStep, Finished

\* No request is answered twice.
LEMMA OneAnswerNext ==
  ASSUME TypeInv, OneAnswerPerRequest, [Next]_vars
  PROVE  OneAnswerPerRequest'
<1>1. taken \in Nat /\ Now = taken + 1
  BY DEF TypeInv, TypeOK, Now
<1>2. /\ \A a \in answers : a.req \in Nat /\ a.req <= taken
      /\ \A c \in parked : c.req \in Nat /\ c.req <= taken
  BY DEF TypeInv, TypeOK, HandlersOK, DataAnswer, StatusAnswer, Waiting, Messages
<1>3. /\ \A a \in answers : a.req # Now
      /\ \A c \in parked : c.req # Now
  BY <1>1, <1>2
<1>4. CASE UNCHANGED <<answers, parked>>
  BY <1>4 DEF OneAnswerPerRequest
<1>5. ASSUME NEW a, AnswersTaken(a)
      PROVE  OneAnswerPerRequest'
  BY <1>3, <1>5 DEF OneAnswerPerRequest, AnswersTaken
<1>6. ASSUME NEW c, ParksTaken(c)
      PROVE  OneAnswerPerRequest'
  BY <1>3, <1>6 DEF OneAnswerPerRequest, ParksTaken
<1>7. ASSUME NEW c, NEW a, AnswersParked(c, a)
      PROVE  OneAnswerPerRequest'
  BY <1>7 DEF OneAnswerPerRequest, AnswersParked
<1> QED
  BY <1>4, <1>5, <1>6, <1>7, AnswerStep

\* A request is answered once at most, whether it waited for the index or not.
THEOREM AnsweredOnce == Spec => []OneAnswerPerRequest
<1>1. Init => OneAnswerPerRequest
  BY DEF Init, OneAnswerPerRequest
<1>2. TypeInv /\ OneAnswerPerRequest /\ [Next]_vars => OneAnswerPerRequest'
  BY OneAnswerNext
<1> QED
  BY <1>1, <1>2, TypeCorrect, PTL DEF Spec

----------------------------------------------------------------------------
(***************************************************************************)
(* What an answer was computed from.                                       *)
(***************************************************************************)
UsesAskedText(a) ==
  /\ a.snap.documents = EditorDocs(a.req)
  /\ AsksNames(EditorDocs(a.req), log[a.req]) => a.open = NamesFor(EditorDocs(a.req), log[a.req])

AskedInv == \A a \in DataAnswers \cup parked : UsesAskedText(a)

\* The requests answered or parked are among those taken.
LEMMA AnsweredTaken ==
  ASSUME TypeInv
  PROVE  /\ taken \in Nat /\ Len(log) \in Nat /\ taken <= Len(log) /\ Now = taken + 1
         /\ \A a \in answers \cup parked : a.req \in 1 .. taken
BY DEF TypeInv, TypeOK, HandlersOK, DataAnswer, StatusAnswer, Waiting, Messages, Now

\* What was asked, and the files at that moment, stay what they were.
LEMMA AskedStable ==
  ASSUME TypeInv, [Next]_vars, NEW a, a.req \in 1 .. Len(log), UsesAskedText(a)
  PROVE  UsesAskedText(a)'
<1>1. log'[a.req] = log[a.req]
  BY LogGrows
<1>2. EditorDocs(a.req)' = EditorDocs(a.req)
  <2>1. a.req \in 0 .. Len(log)
    BY AnsweredTaken
  <2> QED
    BY <2>1, EditorDocsStable
<1> QED
  BY <1>1, <1>2 DEF UsesAskedText, AsksNames, NamesFor, NameRefs, Visible, RefsOfKind, PartAt, HasPart

\* A request is taken when the store holds the files as they are at its place.
LEMMA TakenText ==
  ASSUME TypeInv, [Next]_vars, StoreMirrorsEditor, TakesRequest,
         NEW a, a.req = Now, a.snap = Snapshot,
         AsksNames(documents, log[Now]) => a.open = NamesFor(documents, log[Now])
  PROVE  UsesAskedText(a)'
<1>1. PICK type \in RequestTypes : Take(type) /\ UNCHANGED <<log, storeVars>>
  BY DEF TakesRequest
<1>2. taken' = Now /\ log[Now].type = type /\ Now \in 1 .. Len(log)
  <2>1. TypeOK
    BY DEF TypeInv
  <2> QED
    BY <1>1, <2>1, TakeType, AnsweredTaken DEF Take
<1>3. EditorDocs(Now) = documents
  <2>1. ~IsEdit(log[Now])
    BY <1>1, <1>2 DEF IsEdit, RequestTypes
  <2> QED
    BY <2>1, AnsweredTaken, EditorDocsStep DEF StoreMirrorsEditor
<1>4. UsesAskedText(a)
  BY <1>3 DEF UsesAskedText, Snapshot
<1> QED
  BY <1>2, <1>4, AskedStable

\* A step keeps AskedInv.
LEMMA AskedNext ==
  ASSUME TypeInv, StoreMirrorsEditor, AskedInv, [Next]_vars
  PROVE  AskedInv'
<1>1. \A a \in DataAnswers \cup parked : UsesAskedText(a)'
  <2> TAKE a \in DataAnswers \cup parked
  <2>1. a.req \in 1 .. Len(log)
    BY AnsweredTaken DEF DataAnswers
  <2> QED
    BY <2>1, AskedStable DEF AskedInv
<1>2. CASE UNCHANGED <<answers, parked>>
  BY <1>1, <1>2 DEF AskedInv, DataAnswers
<1>3. ASSUME NEW a, AnswersTaken(a)
      PROVE  AskedInv'
  <2>1. a.kind = "data" => UsesAskedText(a)'
    BY <1>3, TakenText DEF AnswersTaken
  <2> QED
    BY <1>1, <1>3, <2>1 DEF AskedInv, DataAnswers, AnswersTaken
<1>4. ASSUME NEW c, ParksTaken(c)
      PROVE  AskedInv'
  <2>1. UsesAskedText(c)'
    BY <1>4, TakenText DEF ParksTaken
  <2> QED
    BY <1>1, <1>4, <2>1 DEF AskedInv, DataAnswers, ParksTaken
<1>5. ASSUME NEW c, NEW a, AnswersParked(c, a)
      PROVE  AskedInv'
  <2>1. UsesAskedText(a)'
    <3>1. UsesAskedText(c)'
      BY <1>1, <1>5 DEF AnswersParked
    <3> QED
      BY <1>5, <3>1 DEF UsesAskedText, AnswersParked
  <2> QED
    BY <1>1, <1>5, <2>1 DEF AskedInv, DataAnswers, AnswersParked
<1> QED
  BY <1>2, <1>3, <1>4, <1>5, AnswerStep

\* Every answer is computed from the files as they were when it was asked for,
\* though a completion waits for the cluster index in between; provided that no
\* didChange carries more than one text.
THEOREM AnswersFromAskedText ==
  ASSUME MaxBatch <= 1
  PROVE  Spec => []AnswersUseAskedText
<1>1. Init => AskedInv
  BY DEF Init, AskedInv, DataAnswers
<1>2. TypeInv /\ StoreMirrorsEditor /\ AskedInv /\ [Next]_vars => AskedInv'
  BY AskedNext
<1>3. AskedInv => AnswersUseAskedText
  BY DEF AskedInv, UsesAskedText, AnswersUseAskedText, DataAnswers, AsksNames, NamesFor
<1> QED
  BY <1>1, <1>2, <1>3, TypeCorrect, StoreMirrors, PTL DEF Spec

----------------------------------------------------------------------------
(***************************************************************************)
(* Revisions.                                                              *)
(***************************************************************************)
\* No revision exceeds the number of messages handled, so none comes back
\* before the counter wraps; one that is seen twice names the same documents.
Seen == DataAnswers \cup parked
RevisionInv ==
  /\ revision <= taken
  /\ \A a \in Seen : /\ a.snap.revision \in Nat
                     /\ a.snap.revision <= revision
                     /\ a.snap.revision = revision => a.snap = Snapshot
  /\ \A a, b \in Seen : a.snap.revision = b.snap.revision => a.snap = b.snap

\* A step that changes the store takes an edit and gives it a revision.
LEMMA StoreStep ==
  ASSUME TypeInv, [Next]_vars
  PROVE  \/ UNCHANGED storeVars /\ (UNCHANGED taken \/ taken' = Now)
         \/ /\ revision' = NextRevision(revision) /\ taken' = Now
            /\ Now \in 1 .. Len(log) /\ UNCHANGED <<answers, parked>>
<1>1. TypeOK
  BY DEF TypeInv
<1>2. CASE DidOpen \/ DidChange \/ DidClose
  <2>1. UNCHANGED <<answers, parked>> /\ \E type : Take(type)
    BY <1>2 DEF DidOpen, DidChange, DidClose
  <2>2. taken' = Now /\ Now \in 1 .. Len(log)
    BY <1>1, <2>1, TakeType, AnsweredTaken DEF Take
  <2>3. UNCHANGED storeVars \/ revision' = NextRevision(revision)
    BY <1>2 DEF DidOpen, DidChange, DidClose, Receive, Remove, Upsert
  <2> QED
    BY <2>1, <2>2, <2>3
<1>3. CASE ~(DidOpen \/ DidChange \/ DidClose)
  BY <1>3, OtherStep
<1> QED
  BY <1>2, <1>3

\* A step keeps RevisionInv.
LEMMA RevisionNext ==
  ASSUME TypeInv, MaxMessages < RevisionModulus, RevisionInv, [Next]_vars
  PROVE  RevisionInv'
<1>1. /\ revision \in Nat /\ RevisionModulus \in Nat /\ MaxMessages \in Nat
      /\ revision \in 0 .. RevisionModulus - 1 /\ Len(log) <= MaxMessages
  BY ModulusAssumption, BoundAssumption DEF TypeInv, TypeOK, StoreTypeOK
<1>2. \A b \in Seen : /\ b.snap.revision \in Nat
                      /\ b.snap.revision <= revision
                      /\ b.snap.revision = revision => b.snap = Snapshot
  BY DEF RevisionInv
<1>3. revision <= taken
  BY DEF RevisionInv
<1>4. CASE UNCHANGED storeVars /\ (UNCHANGED taken \/ taken' = Now)
  <2>1. Snapshot' = Snapshot /\ revision' = revision /\ revision <= taken'
    BY <1>1, <1>4, AnsweredTaken DEF storeVars, Snapshot, RevisionInv
  <2>2. \A a \in Seen' : (\E b \in Seen : a.snap = b.snap) \/ a.snap = Snapshot
    <3>1. CASE UNCHANGED <<answers, parked>>
      BY <3>1 DEF Seen, DataAnswers
    <3>2. ASSUME NEW d, AnswersTaken(d)
          PROVE  \A a \in Seen' : (\E b \in Seen : a.snap = b.snap) \/ a.snap = Snapshot
      BY <3>2 DEF Seen, DataAnswers, AnswersTaken
    <3>3. ASSUME NEW c, ParksTaken(c)
          PROVE  \A a \in Seen' : (\E b \in Seen : a.snap = b.snap) \/ a.snap = Snapshot
      BY <3>3 DEF Seen, DataAnswers, ParksTaken
    <3>4. ASSUME NEW c, NEW d, AnswersParked(c, d)
          PROVE  \A a \in Seen' : (\E b \in Seen : a.snap = b.snap) \/ a.snap = Snapshot
      BY <3>4 DEF Seen, DataAnswers, AnswersParked
    <3> QED
      BY <3>1, <3>2, <3>3, <3>4, AnswerStep
  <2>3. Snapshot.revision = revision
    BY DEF Snapshot
  <2>4. ASSUME NEW a \in Seen'
        PROVE  /\ a.snap.revision \in Nat
               /\ a.snap.revision <= revision
               /\ a.snap.revision = revision => a.snap = Snapshot
    <3>1. CASE a.snap = Snapshot
      BY <1>1, <2>3, <3>1
    <3>2. ASSUME NEW b \in Seen, a.snap = b.snap
          PROVE  /\ a.snap.revision \in Nat
                 /\ a.snap.revision <= revision
                 /\ a.snap.revision = revision => a.snap = Snapshot
      BY <1>2, <3>2
    <3> QED
      BY <2>2, <2>4, <3>1, <3>2
  <2>5. ASSUME NEW a \in Seen', NEW b \in Seen', a.snap.revision = b.snap.revision
        PROVE  a.snap = b.snap
    <3>1. CASE a.snap = Snapshot
      BY <2>3, <2>4, <2>5, <3>1
    <3>2. CASE b.snap = Snapshot
      BY <2>3, <2>4, <2>5, <3>2
    <3>3. ASSUME NEW c \in Seen, a.snap = c.snap, NEW d \in Seen, b.snap = d.snap
          PROVE  a.snap = b.snap
      BY <2>5, <3>3 DEF RevisionInv
    <3> QED
      BY <2>2, <2>5, <3>1, <3>2, <3>3
  <2> QED
    BY <2>1, <2>4, <2>5 DEF RevisionInv
<1>5. CASE /\ revision' = NextRevision(revision) /\ taken' = Now
           /\ Now \in 1 .. Len(log) /\ UNCHANGED <<answers, parked>>
  <2>1. revision + 1 < RevisionModulus /\ revision + 1 <= Now
    BY <1>1, <1>5, AnsweredTaken DEF RevisionInv
  <2>2. revision' = revision + 1
    BY <1>1, <1>5, <2>1 DEF NextRevision
  <2>3. Seen' = Seen
    BY <1>5 DEF Seen, DataAnswers
  <2>4. ASSUME NEW a \in Seen
        PROVE  a.snap.revision \in Nat /\ a.snap.revision < revision'
    <3>1. a.snap.revision \in Nat /\ a.snap.revision <= revision
      BY <1>2
    <3> QED
      BY <1>1, <2>2, <3>1
  <2>5. \A a, b \in Seen : a.snap.revision = b.snap.revision => a.snap = b.snap
    BY DEF RevisionInv
  <2>6. revision' <= taken'
    BY <1>5, <2>1, <2>2
  <2>7. \A a \in Seen' : /\ a.snap.revision \in Nat
                         /\ a.snap.revision <= revision'
                         /\ a.snap.revision # revision'
    BY <1>1, <2>2, <2>3, <2>4
  <2> QED
    BY <2>3, <2>5, <2>6, <2>7 DEF RevisionInv
<1> QED
  BY <1>4, <1>5, StoreStep

\* A revision identifies the documents until the counter wraps, removals
\* included.
THEOREM RevisionsFaithful ==
  ASSUME MaxMessages < RevisionModulus
  PROVE  Spec => []SnapshotFaithful
<1>1. Init => RevisionInv
  BY DEF Init, StoreInit, RevisionInv, Seen, DataAnswers
<1>2. TypeInv /\ RevisionInv /\ [Next]_vars => RevisionInv'
  BY RevisionNext
<1>3. RevisionInv => SnapshotFaithful
  BY DEF RevisionInv, Seen, SnapshotFaithful
<1> QED
  BY <1>1, <1>2, <1>3, TypeCorrect, PTL DEF Spec

(***************************************************************************)
(* The names offered.                                                      *)
(***************************************************************************)
\* A set of natural numbers has a least member,
LEMMA LeastPlace ==
  ASSUME NEW S \in SUBSET Nat, S # {}
  PROVE  \E i \in S : \A j \in S : i <= j
<1>1. PICK i \in S : \A j \in S : ~ (<<j, i>> \in OpToRel(<, Nat))
  BY NatLessThanWellFounded, WFMin
<1>2. ASSUME NEW j \in S
      PROVE  i <= j
  <2>1. j < i => <<j, i>> \in OpToRel(<, Nat)
    BY DEF OpToRel
  <2>2. ~ (j < i)
    BY <1>1, <2>1, Zenon
  <2> QED
    BY <2>2
<1> QED
  BY <1>2

\* and a greatest one below a bound.
LEMMA LastPlace ==
  ASSUME NEW n \in Nat, NEW S \in SUBSET (0 .. n), S # {}
  PROVE  \E i \in S : \A j \in S : j <= i
<1> DEFINE T == {n - i : i \in S}
<1>1. T \in SUBSET Nat /\ T # {}
  OBVIOUS
<1>2. PICK t \in T : \A u \in T : t <= u
  <2> HIDE DEF T
  <2> QED
    BY <1>1, LeastPlace
<1>3. PICK i \in S : t = n - i
  OBVIOUS
<1>4. ASSUME NEW j \in S
      PROVE  j <= i
  <2>1. n - i <= n - j
    BY <1>2, <1>3
  <2> QED
    BY <2>1
<1> QED
  BY <1>4

\* A snapshot holds finitely many files.
FilesInv == IsFiniteSet({u \in Uris : documents[u] # NoDoc})

\* A step keeps FilesInv: it adds one file at most.
LEMMA FilesNext ==
  ASSUME TypeInv, FilesInv, [Next]_vars
  PROVE  FilesInv'
<1> DEFINE files == {u \in Uris : documents[u] # NoDoc}
<1>1. documents' = documents \/ \E u, d : documents' = [documents EXCEPT ![u] = d]
  <2>1. CASE DidOpen \/ DidChange \/ DidClose
    BY <2>1 DEF DidOpen, DidChange, DidClose, Receive, Remove, Upsert, storeVars
  <2>2. CASE ~(DidOpen \/ DidChange \/ DidClose)
    BY <2>2, OtherStep DEF storeVars
  <2> QED
    BY <2>1, <2>2
<1>2. ASSUME NEW u, NEW d, documents' = [documents EXCEPT ![u] = d]
      PROVE  FilesInv'
  <2>1. documents \in [Uris -> Document \cup {NoDoc}]
    BY DEF TypeInv, TypeOK, StoreTypeOK
  <2>2. files' \in SUBSET (files \cup {u})
    BY <1>2, <2>1
  <2>3. IsFiniteSet(files \cup {u})
    BY FS_AddElement DEF FilesInv
  <2>4. IsFiniteSet(files')
    BY ONLY <2>2, <2>3, FS_Subset
  <2> QED
    BY <2>4 DEF FilesInv
<1> QED
  BY <1>1, <1>2 DEF FilesInv

\* What a place stands for.
LEMMA PushedPlace ==
  ASSUME documents \in [Uris -> Document \cup {NoDoc}], FilesInv,
         NEW order \in Orders(documents), NEW kind \in Kinds,
         NEW q \in Pushed(documents, order, kind)
  PROVE  /\ q = <<q[1], q[2]>> /\ q[1] \in DOMAIN order /\ q[1] \in Nat /\ q[2] \in Nat
         /\ q[2] \in DOMAIN documents[order[q[1]]].parts
         /\ order[q[1]] \in Uris /\ documents[order[q[1]]] \in Document
         /\ documents[order[q[1]]].parts[q[2]] \in Part
         /\ documents[order[q[1]]].parts[q[2]].kind = kind
         /\ documents[order[q[1]]].parts[q[2]].name # Absent
<1> DEFINE files == {u \in Uris : documents[u] # NoDoc}
<1>1. order \in [1 .. Cardinality(files) -> files]
  BY DEF Orders, Bijection, Injection
<1>2. PICK a \in DOMAIN order :
        \E b \in {i \in DOMAIN documents[order[a]].parts :
                  /\ documents[order[a]].parts[i].kind = kind
                  /\ documents[order[a]].parts[i].name # Absent} : q = <<a, b>>
  BY DEF Pushed
<1>3. PICK b \in DOMAIN documents[order[a]].parts :
        /\ documents[order[a]].parts[b].kind = kind
        /\ documents[order[a]].parts[b].name # Absent
        /\ q = <<a, b>>
  BY <1>2
<1>4. q[1] = a /\ q[2] = b
  BY <1>3
<1>5. order[a] \in Uris /\ documents[order[a]] \in Document
  BY <1>1
<1>6. documents[order[a]].parts \in Seq(Part)
  BY <1>5 DEF Document
<1>7. a \in Nat
  <2>1. PICK n \in Nat : n = Cardinality(files)
    BY FS_CardinalityType DEF FilesInv
  <2>2. order \in [1 .. n -> files]
    BY <1>1, <2>1
  <2> QED
    BY <2>2
<1>8. b \in Nat
  BY <1>6
<1> QED
  BY <1>3, <1>4, <1>5, <1>6, <1>7, <1>8

\* One place for each file.
LEMMA OrderOneToOne ==
  ASSUME NEW order \in Orders(documents)
  PROVE  /\ \A a, b \in DOMAIN order : order[a] = order[b] => a = b
         /\ \A u \in Uris : documents[u] # NoDoc => \E a \in DOMAIN order : order[a] = u
  BY DEF Orders, Bijection, Injection, IsInjective, Surjection

\* The places hold the named resources of the kind.
LEMMA PushedRefs ==
  ASSUME documents \in [Uris -> Document \cup {NoDoc}], FilesInv,
         NEW order \in Orders(documents), NEW kind \in Kinds
  PROVE  {ResourceRef(documents, order, q) : q \in Pushed(documents, order, kind)}
           = RefsOfKind(documents, kind)
<1> DEFINE pushed == Pushed(documents, order, kind)
           Ref(q) == ResourceRef(documents, order, q)
<1>1. ASSUME NEW q \in pushed
      PROVE  Ref(q) \in RefsOfKind(documents, kind)
  <2> DEFINE u == order[q[1]]
             part == documents[order[q[1]]].parts[q[2]]
  <2>1. /\ u \in Uris /\ documents[u] \in Document /\ q[2] \in DOMAIN documents[u].parts
        /\ part \in Part /\ part.kind = kind /\ part.name # Absent
    BY PushedPlace
  <2>2. part.ns \in Namespaces \cup {Absent} /\ part.name \in Names
    BY <2>1 DEF Part
  <2>3. Ref(q) = [uri |-> u, ns |-> part.ns, name |-> part.name]
    BY DEF ResourceRef
  <2>4. Ref(q) \in [uri : Uris, ns : Namespaces \cup {Absent}, name : Names]
    BY <2>1, <2>2, <2>3
  <2>5. documents[u] # NoDoc
    BY <2>1, NoDocAssumption
  <2>6. PICK r \in [uri : Uris, ns : Namespaces \cup {Absent}, name : Names] :
          r = Ref(q) /\ r.uri = u /\ r.ns = part.ns /\ r.name = part.name
    BY <2>3, <2>4
  <2>7. documents[r.uri].parts[q[2]] = part /\ q[2] \in DOMAIN documents[r.uri].parts /\ documents[r.uri] # NoDoc
    BY <2>1, <2>5, <2>6
  <2>8. r \in RefsOfKind(documents, kind)
    <3> HIDE DEF u, part
    <3> QED
      BY <2>1, <2>6, <2>7 DEF RefsOfKind
  <2> QED
    BY <2>6, <2>8
<1>2. ASSUME NEW r \in RefsOfKind(documents, kind)
      PROVE  \E q \in pushed : r = Ref(q)
  <2>1. /\ r \in [uri : Uris, ns : Namespaces \cup {Absent}, name : Names]
        /\ documents[r.uri] # NoDoc
    BY DEF RefsOfKind
  <2>2. PICK b \in DOMAIN documents[r.uri].parts :
               /\ documents[r.uri].parts[b].kind = kind
               /\ documents[r.uri].parts[b].name = r.name
               /\ documents[r.uri].parts[b].ns = r.ns
    BY DEF RefsOfKind
  <2>3. PICK a \in DOMAIN order : order[a] = r.uri
    BY <2>1, OrderOneToOne
  <2>4. r.name # Absent
    BY <2>1, AbsentAssumption
  <2>5. <<a, b>> \in pushed
    BY <2>2, <2>3, <2>4 DEF Pushed
  <2>6. Ref(<<a, b>>) = [uri |-> r.uri, ns |-> r.ns, name |-> r.name]
    BY <2>2, <2>3 DEF ResourceRef
  <2>7. r = Ref(<<a, b>>)
    BY <2>1, <2>6
  <2> QED
    BY <2>5, <2>7
<1> QED
  BY <1>1, <1>2

\* Of the places of one reference one is kept.
LEMMA KeptOnce ==
  ASSUME documents \in [Uris -> Document \cup {NoDoc}], FilesInv,
         NEW order \in Orders(documents), NEW kind \in Kinds
  PROVE  /\ \A q \in Pushed(documents, order, kind) :
              \E x \in RefsByKind(documents, order, kind) :
                ResourceRef(documents, order, x) = ResourceRef(documents, order, q)
         /\ \A p, q \in RefsByKind(documents, order, kind) :
              ResourceRef(documents, order, p) = ResourceRef(documents, order, q) => p = q
<1> DEFINE pushed == Pushed(documents, order, kind)
           kept == RefsByKind(documents, order, kind)
           Ref(q) == ResourceRef(documents, order, q)
           Earlier(p, q) == SortedBefore(documents, order, p, q)
           Previous(p, q) == RightBefore(documents, order, kind, p, q)
<1>1. \A q \in pushed : q = <<q[1], q[2]>> /\ q[1] \in DOMAIN order /\ q[1] \in Nat /\ q[2] \in Nat
  BY PushedPlace
<1>2. \A p, q \in pushed : Ref(p) = Ref(q) => p[1] = q[1]
  <2>1. \A p, q \in pushed : Ref(p) = Ref(q) => order[p[1]] = order[q[1]]
    BY DEF ResourceRef
  <2> QED
    BY <1>1, <2>1, OrderOneToOne
<1>3. \A p, q \in pushed : Earlier(p, q) => p[1] < q[1] \/ (p[1] = q[1] /\ p[2] < q[2])
  BY DEF SortedBefore, PushedBefore
<1>4. \A p, q \in pushed : p[1] = q[1] /\ Earlier(p, q) => Ref(p) = Ref(q)
  BY DEF SortedBefore, SortKey, ResourceRef
<1>5. \A p, q \in pushed : Ref(p) = Ref(q) /\ p[2] < q[2] => Earlier(p, q)
  BY <1>2 DEF SortedBefore, PushedBefore
<1>6. \A q \in pushed : q \in kept <=> \A p \in pushed : Previous(p, q) => Ref(p) # Ref(q)
  BY DEF RefsByKind
<1>7. \A p, q : Previous(p, q) <=> Earlier(p, q) /\ \A r \in pushed : ~(Earlier(p, r) /\ Earlier(r, q))
  BY DEF RightBefore
<1>8. kept \subseteq pushed
  BY DEF RefsByKind
<1> HIDE DEF pushed, kept, Ref, Earlier, Previous
<1>9. ASSUME NEW q \in pushed
      PROVE  \E x \in kept : Ref(x) = Ref(q)
  <2> DEFINE same == {y \in pushed : Ref(y) = Ref(q)}
             places == {y[2] : y \in same}
  <2>1. places \in SUBSET Nat /\ places # {}
    BY <1>1
  <2>2. PICK i \in places : \A j \in places : i <= j
    <3> HIDE DEF places
    <3> QED
      BY <2>1, LeastPlace
  <2>3. PICK x \in same : i = x[2]
    OBVIOUS
  <2>4. ASSUME NEW p \in pushed, Previous(p, x), Ref(p) = Ref(x)
        PROVE  FALSE
    <3>1. Earlier(p, x) /\ p[1] = x[1]
      BY <1>2, <1>7, <2>4
    <3>2. p[2] < x[2]
      BY <1>1, <1>3, <3>1
    <3>3. p[2] \in places
      BY <2>4
    <3>4. x[2] <= p[2]
      BY <2>2, <2>3, <3>3
    <3> QED
      BY <1>1, <3>2, <3>4
  <2> QED
    BY <1>6, <2>4
<1>10. ASSUME NEW p \in kept, NEW q \in kept, Ref(p) = Ref(q), p[2] < q[2]
       PROVE  FALSE
  <2> DEFINE earlier == {y \in pushed : Earlier(y, q) /\ y[1] = q[1]}
             places == {y[2] : y \in earlier}
  <2>1. p \in pushed /\ q \in pushed /\ p[1] = q[1]
    BY <1>2, <1>8, <1>10
  <2>2. p \in earlier
    BY <1>5, <1>10, <2>1
  <2>3. q[2] \in Nat /\ \A y \in earlier : y[2] \in Nat /\ y[2] < q[2]
    BY <1>1, <1>3, <2>1
  <2>4. places \in SUBSET (0 .. q[2]) /\ places # {}
    BY <2>2, <2>3
  <2>5. PICK i \in places : \A j \in places : j <= i
    <3> HIDE DEF places
    <3> QED
      BY <2>3, <2>4, LastPlace
  <2>6. PICK x \in earlier : i = x[2]
    OBVIOUS
  <2>7. ASSUME NEW r \in pushed, Earlier(x, r), Earlier(r, q)
        PROVE  FALSE
    <3>1. /\ x[1] < r[1] \/ (x[1] = r[1] /\ x[2] < r[2])
          /\ r[1] < q[1] \/ (r[1] = q[1] /\ r[2] < q[2])
          /\ x[1] = q[1]
      BY <1>3, <2>1, <2>6, <2>7
    <3>2. /\ q[1] \in Nat /\ r[1] \in Nat /\ r[2] \in Nat /\ x[2] \in Nat
      BY <1>1, <2>1, <2>6
    <3>3. r[1] = q[1] /\ x[2] < r[2]
      BY <3>1, <3>2
    <3>4. r[2] \in places
      BY <2>7, <3>3
    <3>5. r[2] <= x[2]
      BY <2>5, <2>6, <3>4
    <3> QED
      BY <3>2, <3>3, <3>5
  <2>8. Previous(x, q) /\ Ref(x) = Ref(q)
    BY <1>4, <1>7, <2>1, <2>6, <2>7
  <2> QED
    BY <1>6, <2>1, <2>8
<1>11. ASSUME NEW p \in kept, NEW q \in kept, Ref(p) = Ref(q)
       PROVE  p = q
  <2>1. /\ p = <<p[1], p[2]>> /\ q = <<q[1], q[2]>> /\ p[1] = q[1]
        /\ p[2] \in Nat /\ q[2] \in Nat
    BY <1>1, <1>2, <1>8, <1>11
  <2>2. ~(p[2] < q[2]) /\ ~(q[2] < p[2])
    BY <1>10, <1>11
  <2>3. p[2] = q[2]
    BY <2>1, <2>2
  <2> QED
    BY <2>1, <2>3
<1> QED
  BY <1>9, <1>11 DEF kept, pushed, Ref

\* Whatever the order the files are walked in, every named resource of a kind
\* is offered, and none twice for one file (Snapshot::refs_by_kind).
THEOREM OffersOnce == Spec => []OfferedOnce
<1>1. ASSUME TypeInv, FilesInv, NEW order \in Orders(documents), NEW kind \in Kinds
      PROVE  LET kept == RefsByKind(documents, order, kind)
                 Ref(q) == ResourceRef(documents, order, q)
             IN  /\ {Ref(q) : q \in kept} = RefsOfKind(documents, kind)
                 /\ \A p, q \in kept : Ref(p) = Ref(q) => p = q
  <2> DEFINE kept == RefsByKind(documents, order, kind)
             pushed == Pushed(documents, order, kind)
             Ref(q) == ResourceRef(documents, order, q)
  <2>1. documents \in [Uris -> Document \cup {NoDoc}]
    BY <1>1 DEF TypeInv, TypeOK, StoreTypeOK
  <2>2. {Ref(q) : q \in pushed} = RefsOfKind(documents, kind)
    BY <1>1, <2>1, PushedRefs
  <2>3. /\ \A q \in pushed : \E x \in kept : Ref(x) = Ref(q)
        /\ \A p, q \in kept : Ref(p) = Ref(q) => p = q
    BY <1>1, <2>1, KeptOnce
  <2>4. kept \subseteq pushed
    BY DEF RefsByKind
  <2> HIDE DEF kept, pushed, Ref
  <2>5. {Ref(q) : q \in kept} = RefsOfKind(documents, kind)
    BY <2>2, <2>3, <2>4
  <2> QED
    BY <2>3, <2>5 DEF kept, Ref
<1>2. TypeInv /\ FilesInv => OfferedOnce
  BY <1>1 DEF OfferedOnce
<1>3. Init => FilesInv
  <2>1. Init => {u \in Uris : documents[u] # NoDoc} = {}
    BY DEF Init, StoreInit
  <2> QED
    BY <2>1, FS_EmptySet DEF FilesInv
<1>4. TypeInv /\ FilesInv /\ [Next]_vars => FilesInv'
  BY FilesNext
<1> QED
  BY <1>2, <1>3, <1>4, TypeCorrect, PTL DEF Spec
=============================================================================
