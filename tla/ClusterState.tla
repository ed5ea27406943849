---------------------------- MODULE ClusterState ----------------------------
(***************************************************************************)
(* ClusterState of crates/k8s-lsp-cluster: refresh tasks that list the     *)
(* names of seven kinds of resources over the network, one request after   *)
(* the other, and store them behind a tokio RwLock, and the completions    *)
(* that read them.  Refreshes may overlap: nothing keeps a second one from *)
(* starting while the first still waits for the network.                   *)
(*                                                                         *)
(* The RwLock is tokio's: waiters are served in the order they came.  The  *)
(* network and the cluster are the environment: a request is answered,     *)
(* fails or is never answered, and the cluster changes at any time.        *)
(***************************************************************************)
EXTENDS Naturals, Sequences, FiniteSets, Functions

CONSTANTS
  Tasks,    \* refresh tasks that may be spawned
  Readers,  \* completions that read the index
  Listing,  \* the kinds that a refresh lists, in order
  Refs,     \* the namespaced names resources may have
  None

VARIABLES
  resources,  \* Inner.resources
  lastError,  \* Inner.last_error, as present or None
  queue,      \* the waiters of the RwLock, in order
  writer,     \* the task that holds the write lock
  reading,    \* the readers that hold the read lock
  task,       \* the state of each refresh
  reader,     \* the state of each completion
  cluster,    \* the resources that exist in the cluster
  source,     \* history: the task whose index is stored
  witness     \* history: per task, what existed at some or every moment of it

lockVars == <<queue, writer, reading>>
innerVars == <<resources, lastError, source>>
vars == <<innerVars, lockVars, task, reader, cluster, witness>>

ListedKinds == Range(Listing)
Index == [ListedKinds -> SUBSET Refs]
EmptyResources == [k \in ListedKinds |-> {}]

ASSUME ProcessAssumption == Tasks \cap Readers = {} /\ None \notin Tasks \cup Readers
ASSUME ListingAssumption == Listing \in Seq(ListedKinds) /\ Listing # <<>>
----------------------------------------------------------------------------
Unborn == [pc |-> "unborn", next |-> 1, found |-> EmptyResources, missed |-> {}]
NoWitness == [some |-> EmptyResources, every |-> EmptyResources]

Init ==
  /\ resources = EmptyResources
  /\ lastError = None
  /\ queue = <<>> /\ writer = None /\ reading = {}
  /\ task = [t \in Tasks |-> Unborn]
  /\ reader = [r \in Readers |-> [pc |-> "idle", got |-> EmptyResources]]
  /\ cluster \in Index
  /\ source = None
  /\ witness = [t \in Tasks |-> NoWitness]

Running(t) == task[t].pc \notin {"unborn", "done"}

\* The environment: resources come and go.
ClusterChange ==
  /\ cluster' \in Index
  /\ witness' = [t \in Tasks |->
       [some  |-> [k \in ListedKinds |-> witness[t].some[k] \cup cluster'[k]],
        every |-> [k \in ListedKinds |-> witness[t].every[k] \cap cluster'[k]]]]
  /\ UNCHANGED <<innerVars, lockVars, task, reader>>

Spawn(t) ==
  /\ task[t].pc = "unborn"
  /\ task' = [task EXCEPT ![t].pc = "connecting"]
  /\ witness' = [witness EXCEPT ![t] = [some |-> cluster, every |-> cluster]]
  /\ UNCHANGED <<innerVars, lockVars, reader, cluster>>

taskOnly == <<innerVars, lockVars, reader, cluster, witness>>

\* Mutant: the write lock is taken before the requests.
ConnectHoldingLock(t) ==
  /\ task[t].pc = "connecting"
  /\ writer = None /\ reading = {}
  /\ writer' = t
  /\ task' = [task EXCEPT ![t].pc = "listing"]
  /\ UNCHANGED <<innerVars, queue, reading, reader, cluster, witness>>

\* Client::try_default under REQUEST_TIMEOUT.
Connect(t) ==
  /\ task[t].pc = "connecting"
  /\ task' = [task EXCEPT ![t].pc = "listing"]
  /\ UNCHANGED taskOnly

GiveUp(t) ==
  /\ task[t].pc = "connecting"
  /\ task' = [task EXCEPT ![t].pc = "failed"]
  /\ queue' = Append(queue, t)
  /\ UNCHANGED <<innerVars, writer, reading, reader, cluster, witness>>

ConnectFails(t) == GiveUp(t)
ConnectTimesOut(t) == GiveUp(t)

\* Mutants: each kind starts a new map; a list goes straight into the cache.
ListedAlone(t, names, missed) ==
  LET k    == Listing[task[t].next]
      last == task[t].next = Len(Listing)
  IN  /\ task[t].pc = "listing"
      /\ task' = [task EXCEPT ![t] =
           [pc |-> IF last THEN "committing" ELSE "listing", next |-> @.next + 1,
            found |-> [j \in {k} |-> names], missed |-> @.missed \cup missed]]
      /\ queue' = IF last THEN Append(queue, t) ELSE queue
      /\ UNCHANGED <<innerVars, writer, reading, reader, cluster, witness>>

ListedInPlace(t, names, missed) ==
  LET k    == Listing[task[t].next]
      last == task[t].next = Len(Listing)
  IN  /\ task[t].pc = "listing"
      /\ resources' = [resources EXCEPT ![k] = names]
      /\ task' = [task EXCEPT ![t] =
           [pc |-> IF last THEN "committing" ELSE "listing", next |-> @.next + 1,
            found |-> [@.found EXCEPT ![k] = names], missed |-> @.missed \cup missed]]
      /\ queue' = IF last THEN Append(queue, t) ELSE queue
      /\ UNCHANGED <<lastError, source, writer, reading, reader, cluster, witness>>

(***************************************************************************)
(* One list request.  After the last one the task asks for the write lock. *)
(***************************************************************************)
Listed(t, names, missed) ==
  LET k    == Listing[task[t].next]
      last == task[t].next = Len(Listing)
  IN  /\ task[t].pc = "listing"
      /\ task' = [task EXCEPT ![t] =
           [pc |-> IF last THEN "committing" ELSE "listing", next |-> @.next + 1,
            found |-> [@.found EXCEPT ![k] = names], missed |-> @.missed \cup missed]]
      /\ queue' = IF last THEN Append(queue, t) ELSE queue
      /\ UNCHANGED <<innerVars, writer, reading, reader, cluster, witness>>

ListOk(t) == Listed(t, cluster[Listing[task[t].next]], {})

\* The kind is left out of the map; the error is only logged.
SkipKind(t) == Listed(t, {}, {Listing[task[t].next]})
ListFails(t) == SkipKind(t)
\* Mutant: a list has no timeout.
ListHangs(t) == FALSE /\ SkipKind(t)
ListTimesOut(t) == SkipKind(t)
----------------------------------------------------------------------------
(***************************************************************************)
(* The lock.                                                               *)
(***************************************************************************)
GrantWrite(t) ==
  /\ queue # <<>> /\ Head(queue) = t
  /\ writer = None /\ reading = {}
  /\ writer' = t
  /\ queue' = Tail(queue)
  /\ UNCHANGED <<innerVars, reading, task, reader, cluster, witness>>

GrantRead(r) ==
  /\ queue # <<>> /\ Head(queue) = r
  /\ writer = None
  /\ reading' = reading \cup {r}
  /\ queue' = Tail(queue)
  /\ UNCHANGED <<innerVars, writer, task, reader, cluster, witness>>

(***************************************************************************)
(* The end of refresh, and set_error, under the write lock.                *)
(***************************************************************************)
\* Mutant: the new map is added to the old one.
StoreMerged(t) ==
  /\ writer = t
  /\ task[t].pc = "committing"
  /\ resources' = [k \in ListedKinds |-> resources[k] \cup task[t].found[k]]
  /\ source' = t
  /\ task' = [task EXCEPT ![t].pc = "clearing"]
  /\ UNCHANGED <<lastError, lockVars, reader, cluster, witness>>

StoreResources(t) ==
  /\ writer = t
  /\ task[t].pc = "committing"
  /\ resources' = task[t].found
  /\ source' = t
  /\ task' = [task EXCEPT ![t].pc = "clearing"]
  /\ UNCHANGED <<lastError, lockVars, reader, cluster, witness>>

ClearError(t) ==
  /\ writer = t
  /\ task[t].pc = "clearing"
  /\ lastError' = None
  /\ writer' = None
  /\ task' = [task EXCEPT ![t].pc = "done"]
  /\ UNCHANGED <<resources, source, queue, reading, reader, cluster, witness>>

SetError(t) ==
  /\ writer = t
  /\ task[t].pc = "failed"
  /\ lastError' = "client init failed"
  /\ writer' = None
  /\ task' = [task EXCEPT ![t].pc = "done"]
  /\ UNCHANGED <<resources, source, queue, reading, reader, cluster, witness>>

(***************************************************************************)
(* snapshot, awaited by a completion.                                      *)
(***************************************************************************)
AskIndex(r) ==
  /\ reader[r].pc = "idle"
  /\ reader' = [reader EXCEPT ![r].pc = "waiting"]
  /\ queue' = Append(queue, r)
  /\ UNCHANGED <<innerVars, writer, reading, task, cluster, witness>>

CloneIndex(r) ==
  /\ r \in reading
  /\ reader' = [reader EXCEPT ![r] = [pc |-> "idle", got |-> resources]]
  /\ reading' = reading \ {r}
  /\ UNCHANGED <<innerVars, queue, writer, task, cluster, witness>>
----------------------------------------------------------------------------
Answered(t) == Connect(t) \/ ConnectFails(t) \/ ListOk(t) \/ ListFails(t)
TimedOut(t) == ConnectTimesOut(t) \/ ListTimesOut(t)
Holding(t) == GrantWrite(t) \/ StoreResources(t) \/ ClearError(t) \/ SetError(t)

Next ==
  \/ ClusterChange
  \/ \E t \in Tasks : Spawn(t) \/ Answered(t) \/ TimedOut(t) \/ Holding(t)
  \/ \E r \in Readers : AskIndex(r) \/ GrantRead(r) \/ CloneIndex(r)

Spec == Init /\ [][Next]_vars

(***************************************************************************)
(* The runtime polls every task that can go on.  It promises nothing about *)
(* the network: only the timer of a request fires for certain.             *)
(***************************************************************************)
LocalFairness ==
  /\ \A t \in Tasks : WF_vars(Holding(t))
  /\ \A r \in Readers : WF_vars(GrantRead(r) \/ CloneIndex(r))
TimerFairness == \A t \in Tasks : WF_vars(TimedOut(t))

LocalSpec == Spec /\ LocalFairness
----------------------------------------------------------------------------
(***************************************************************************)
(* Properties.                                                             *)
(***************************************************************************)
\* Every variable keeps its type.
TypeOK ==
  /\ resources \in Index
  /\ lastError \in {None, "client init failed"}
  /\ queue \in Seq(Tasks \cup Readers)
  /\ writer \in Tasks \cup {None}
  /\ reading \subseteq Readers
  /\ task \in [Tasks -> [pc : {"unborn", "connecting", "listing", "committing", "clearing",
                               "failed", "done"},
                         next : 1 .. Len(Listing) + 1, found : Index,
                         missed : SUBSET ListedKinds]]
  /\ reader \in [Readers -> [pc : {"idle", "waiting"}, got : Index]]
  /\ cluster \in Index
  /\ source \in Tasks \cup {None}
  /\ witness \in [Tasks -> [some : Index, every : Index]]

\* Readers see an index that one finished refresh has put there as a whole,
\* or the one before it: the locked cache implements ClusterIndex.
Abstract ==
  INSTANCE ClusterIndex WITH
    Indexes <- Index, EmptyIndex <- EmptyResources, index <- resources,
    refreshing <- {t \in Tasks : task[t].pc \in {"connecting", "listing", "committing", "failed"}}
ImplementsClusterIndex == Abstract!ClusterSpec

\* A name is in the index only if it existed at some moment of the refresh
\* that stored the index, and a name that existed throughout that refresh is
\* missing only if the list of its kind failed.
IndexWithinRefresh ==
  source # None =>
    \A k \in ListedKinds :
      /\ resources[k] \subseteq witness[source].some[k]
      /\ k \notin task[source].missed => witness[source].every[k] \subseteq resources[k]

\* A refresh ends, even if the network never answers, as long as timers fire:
\* every request has its timeout (REQUEST_TIMEOUT) and a failure of one kind
\* does not stop the rest.
RefreshTerminates ==
  TimerFairness => \A t \in Tasks : task[t].pc = "connecting" ~> task[t].pc = "done"

\* A completion gets the index although the network never answers and no
\* timer fires: no task waits for the network with the lock in its hands.
ReadersNeverWaitOnNetwork ==
  \A r \in Readers : reader[r].pc = "waiting" ~> reader[r].pc = "idle"

\* "Soft failures are logged and stored in last_error": after a refresh one
\* of whose lists failed, last_error is present.
SoftFailuresStored ==
  \A t \in Tasks : source = t /\ task[t].pc = "done" /\ task[t].missed # {} => lastError # None
=============================================================================
