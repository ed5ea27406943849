------------------------- MODULE ClusterStateProofs -------------------------
(***************************************************************************)
(* Theorems about ClusterState, for every set of tasks, readers, kinds and *)
(* names: the locked cache implements ClusterIndex, and the index holds    *)
(* what existed during the refresh that stored it.                         *)
(***************************************************************************)
EXTENDS ClusterState, TLAPS, SequenceTheorems

PCs == {"unborn", "connecting", "listing", "committing", "clearing", "failed", "done"}
TaskState == [pc : PCs, next : 1 .. Len(Listing) + 1, found : Index,
              missed : SUBSET ListedKinds]

\* A task that still has requests to send has a kind to list; one that has
\* sent them all has been through every kind.
NextInRange ==
  \A t \in Tasks :
    /\ task[t].pc \in {"unborn", "connecting", "listing"} => task[t].next <= Len(Listing)
    /\ task[t].pc \in {"committing", "clearing"} => task[t].next = Len(Listing) + 1

TypeInv == TypeOK /\ NextInRange

\* refresh lists every kind of the index, and there is at least one.
LEMMA ListingType ==
  /\ Len(Listing) \in Nat \ {0}
  /\ \A i \in 1 .. Len(Listing) : Listing[i] \in ListedKinds
  /\ \A k \in ListedKinds : \E i \in 1 .. Len(Listing) : Listing[i] = k
  /\ EmptyResources \in Index
<1>1. Listing \in Seq(ListedKinds) /\ Listing # <<>>
  BY ListingAssumption
<1>2. Len(Listing) \in Nat \ {0}
  BY <1>1, EmptySeq
<1>3. DOMAIN Listing = 1 .. Len(Listing)
  BY <1>1, LenProperties
<1> QED
  BY <1>1, <1>2, <1>3 DEF ListedKinds, Range, EmptyResources, Index

\* The types hold before the first refresh.
LEMMA InitTypeInv == Init => TypeInv
<1> SUFFICES ASSUME Init PROVE TypeInv
  OBVIOUS
<1>1. Unborn \in TaskState /\ Unborn.next <= Len(Listing) /\ Unborn.pc = "unborn"
  BY ListingType DEF Unborn, TaskState, PCs
<1>2. task \in [Tasks -> TaskState]
  BY <1>1 DEF Init
<1>3. NextInRange
  BY <1>1 DEF Init, NextInRange
<1>4. NoWitness \in [some : Index, every : Index]
  BY ListingType DEF NoWitness
<1>5. witness \in [Tasks -> [some : Index, every : Index]]
  BY <1>4 DEF Init
<1>6. reader \in [Readers -> [pc : {"idle", "waiting"}, got : Index]]
  BY ListingType DEF Init
<1>7. queue \in Seq(Tasks \cup Readers)
  BY DEF Init
<1> QED
  BY <1>2, <1>3, <1>5, <1>6, <1>7, ListingType
  DEF Init, TypeInv, TypeOK, TaskState, PCs

\* The answer to a list request, or its failure.
LEMMA ListedType ==
  ASSUME TypeInv, NEW t \in Tasks, NEW names \in SUBSET Refs,
         NEW missed \in SUBSET ListedKinds, Listed(t, names, missed)
  PROVE  TypeInv'
<1> DEFINE k == Listing[task[t].next]
           last == task[t].next = Len(Listing)
           new == [pc |-> IF last THEN "committing" ELSE "listing", next |-> task[t].next + 1,
                   found |-> [task[t].found EXCEPT ![k] = names],
                   missed |-> task[t].missed \cup missed]
<1>1. task \in [Tasks -> TaskState] /\ task[t] \in TaskState
  BY DEF TypeInv, TypeOK, TaskState, PCs
<1>2. task[t].pc = "listing" /\ task[t].next <= Len(Listing)
  BY DEF Listed, TypeInv, NextInRange
<1>3. task[t].next \in 1 .. Len(Listing) /\ Len(Listing) \in Nat
  BY <1>1, <1>2, ListingType DEF TaskState
<1>4. k \in ListedKinds
  BY <1>3, ListingType
<1>5. new.found \in Index
  BY <1>1, <1>4 DEF TaskState, Index
<1>6. new \in TaskState
  BY <1>1, <1>3, <1>5 DEF TaskState, PCs
<1>7. task' = [task EXCEPT ![t] = new]
  BY DEF Listed
<1>8. task' \in [Tasks -> TaskState]
  BY <1>1, <1>6, <1>7
<1>9. queue' \in Seq(Tasks \cup Readers)
  <2>1. queue \in Seq(Tasks \cup Readers) /\ t \in Tasks \cup Readers
    BY DEF TypeInv, TypeOK
  <2>2. CASE last
    BY <2>1, <2>2, AppendProperties DEF Listed
  <2>3. CASE ~last
    BY <2>1, <2>3 DEF Listed
  <2> QED
    BY <2>2, <2>3
<1>10. NextInRange'
  BY <1>1, <1>3, <1>7 DEF TypeInv, NextInRange
<1> QED
  BY <1>8, <1>9, <1>10 DEF Listed, TypeInv, TypeOK, TaskState, PCs, innerVars

\* A step that only moves a task from one program counter to another.
LEMMA MoveType ==
  ASSUME TypeInv, NEW t \in Tasks, NEW pc \in PCs, task' = [task EXCEPT ![t].pc = pc],
         pc \in {"unborn", "connecting", "listing"} => task[t].pc \in {"unborn", "connecting"},
         pc \in {"committing", "clearing"} => task[t].pc = "committing"
  PROVE  task' \in [Tasks -> TaskState] /\ NextInRange'
<1>1. task \in [Tasks -> TaskState] /\ task[t] \in TaskState
  BY DEF TypeInv, TypeOK, TaskState, PCs
<1>2. task' \in [Tasks -> TaskState]
  BY <1>1 DEF TaskState
<1>3. ASSUME NEW s \in Tasks
      PROVE  /\ task'[s].pc \in {"unborn", "connecting", "listing"} => task'[s].next <= Len(Listing)
             /\ task'[s].pc \in {"committing", "clearing"} => task'[s].next = Len(Listing) + 1
  <2>1. CASE s # t
    BY <1>1, <2>1 DEF TypeInv, NextInRange
  <2>2. CASE s = t
    <3>1. task'[t].pc = pc /\ task'[t].next = task[t].next
      BY <1>1 DEF TaskState
    <3> QED
      BY <2>2, <3>1 DEF TypeInv, NextInRange
  <2> QED
    BY <2>1, <2>2
<1> QED
  BY <1>2, <1>3 DEF NextInRange

\* What the lock and the caches hold keeps its type when the tasks do.
LEMMA NextTypeInv == TypeInv /\ [Next]_vars => TypeInv'
<1> SUFFICES ASSUME TypeInv, [Next]_vars PROVE TypeInv'
  OBVIOUS
<1>0. /\ task \in [Tasks -> TaskState] /\ NextInRange
      /\ queue \in Seq(Tasks \cup Readers)
  BY DEF TypeInv, TypeOK, TaskState, PCs
<1>1. CASE ClusterChange
  <2>1. witness' \in [Tasks -> [some : Index, every : Index]]
    BY <1>1 DEF ClusterChange, TypeInv, TypeOK, Index
  <2> QED
    BY <1>1, <2>1 DEF ClusterChange, TypeInv, TypeOK, NextInRange, innerVars, lockVars
<1>2. ASSUME NEW t \in Tasks, Spawn(t) PROVE TypeInv'
  <2>1. task' \in [Tasks -> TaskState] /\ NextInRange'
    <3>1. "connecting" \in PCs
      BY DEF PCs
    <3> QED
      BY <1>2, <3>1, MoveType DEF Spawn
  <2>2. witness' \in [Tasks -> [some : Index, every : Index]]
    BY <1>2 DEF Spawn, TypeInv, TypeOK
  <2> QED
    BY <1>2, <2>1, <2>2 DEF Spawn, TypeInv, TypeOK, innerVars, lockVars, TaskState, PCs
<1>3. ASSUME NEW t \in Tasks, Connect(t) PROVE TypeInv'
  <2>1. task' \in [Tasks -> TaskState] /\ NextInRange'
    <3>1. "listing" \in PCs
      BY DEF PCs
    <3> QED
      BY <1>3, <3>1, MoveType DEF Connect
  <2> QED
    BY <1>3, <2>1
    DEF Connect, taskOnly, TypeInv, TypeOK, innerVars, lockVars, TaskState, PCs
<1>4. ASSUME NEW t \in Tasks, GiveUp(t) PROVE TypeInv'
  <2>1. task' \in [Tasks -> TaskState] /\ NextInRange'
    <3>1. "failed" \in PCs
      BY DEF PCs
    <3> QED
      BY <1>4, <3>1, MoveType DEF GiveUp
  <2>2. queue' \in Seq(Tasks \cup Readers)
    BY <1>0, <1>4, AppendProperties DEF GiveUp
  <2> QED
    BY <1>4, <2>1, <2>2 DEF GiveUp, TypeInv, TypeOK, innerVars, TaskState, PCs
<1>5. ASSUME NEW t \in Tasks, ListOk(t) PROVE TypeInv'
  <2>1. cluster[Listing[task[t].next]] \in SUBSET Refs
    <3>1. task[t].next \in 1 .. Len(Listing)
      BY <1>0, <1>5, ListingType DEF ListOk, Listed, NextInRange, TaskState
    <3> QED
      BY <3>1, ListingType DEF TypeInv, TypeOK, Index
  <2> QED
    BY <1>5, <2>1, ListedType DEF ListOk
<1>6. ASSUME NEW t \in Tasks, SkipKind(t) PROVE TypeInv'
  <2>1. Listing[task[t].next] \in ListedKinds
    <3>1. task[t].next \in 1 .. Len(Listing)
      BY <1>0, <1>6, ListingType DEF SkipKind, Listed, NextInRange, TaskState
    <3> QED
      BY <3>1, ListingType
  <2> QED
    BY <1>6, <2>1, ListedType DEF SkipKind
<1>7. ASSUME NEW t \in Tasks, GrantWrite(t) PROVE TypeInv'
  <2>1. queue' \in Seq(Tasks \cup Readers)
    BY <1>0, <1>7, HeadTailProperties DEF GrantWrite
  <2> QED
    BY <1>7, <2>1 DEF GrantWrite, TypeInv, TypeOK, NextInRange, innerVars
<1>8. ASSUME NEW t \in Tasks, StoreResources(t) PROVE TypeInv'
  <2>1. task' \in [Tasks -> TaskState] /\ NextInRange'
    <3>1. "clearing" \in PCs
      BY DEF PCs
    <3> QED
      BY <1>8, <3>1, MoveType DEF StoreResources
  <2>2. resources' \in Index
    BY <1>0, <1>8 DEF StoreResources, TaskState
  <2> QED
    BY <1>8, <2>1, <2>2 DEF StoreResources, TypeInv, TypeOK, lockVars, TaskState, PCs
<1>9. ASSUME NEW t \in Tasks, ClearError(t) \/ SetError(t) PROVE TypeInv'
  <2>1. task' \in [Tasks -> TaskState] /\ NextInRange'
    <3>1. "done" \in PCs
      BY DEF PCs
    <3> QED
      BY <1>9, <3>1, MoveType DEF ClearError, SetError
  <2> QED
    BY <1>9, <2>1 DEF ClearError, SetError, TypeInv, TypeOK, TaskState, PCs
<1>10. ASSUME NEW r \in Readers, AskIndex(r) PROVE TypeInv'
  <2>1. queue' \in Seq(Tasks \cup Readers)
    BY <1>0, <1>10, AppendProperties DEF AskIndex
  <2> QED
    BY <1>10, <2>1 DEF AskIndex, TypeInv, TypeOK, NextInRange, innerVars
<1>11. ASSUME NEW r \in Readers, GrantRead(r) PROVE TypeInv'
  <2>1. queue' \in Seq(Tasks \cup Readers)
    BY <1>0, <1>11, HeadTailProperties DEF GrantRead
  <2> QED
    BY <1>11, <2>1 DEF GrantRead, TypeInv, TypeOK, NextInRange, innerVars
<1>12. ASSUME NEW r \in Readers, CloneIndex(r) PROVE TypeInv'
  BY <1>12 DEF CloneIndex, TypeInv, TypeOK, NextInRange, innerVars
<1>13. CASE UNCHANGED vars
  BY <1>13 DEF vars, TypeInv, TypeOK, NextInRange, innerVars, lockVars
<1> QED
  BY <1>1, <1>2, <1>3, <1>4, <1>5, <1>6, <1>7, <1>8, <1>9, <1>10, <1>11, <1>12, <1>13
  DEF Next, Answered, TimedOut, Holding, ConnectFails, ConnectTimesOut, ListFails, ListTimesOut

\* Every variable keeps its type, and a refresh that has answers to store has
\* been through every kind.
THEOREM TypeCorrect == Spec => []TypeInv
<1> QED
  BY InitTypeInv, NextTypeInv, PTL DEF Spec

\* The cache, the lock and the refreshes keep their types; in particular a
\* refresh never asks for a kind past the last one.
THEOREM TypeSafety == Spec => []TypeOK
<1>1. TypeInv => TypeOK
  BY DEF TypeInv
<1> QED
  BY <1>1, TypeCorrect, PTL
----------------------------------------------------------------------------
(***************************************************************************)
(* The locked cache implements ClusterIndex.                               *)
(***************************************************************************)
Refreshing == {t \in Tasks : task[t].pc \in {"connecting", "listing", "committing", "failed"}}

\* A refresh that only moves between two of its states before the store is a
\* stutter of the abstract cache.
LEMMA SameRefreshing ==
  ASSUME TypeInv, NEW t \in Tasks, UNCHANGED resources,
         task[t].pc \in {"connecting", "listing", "committing", "failed"} <=>
           task'[t].pc \in {"connecting", "listing", "committing", "failed"},
         \A s \in Tasks \ {t} : task'[s] = task[s]
  PROVE  UNCHANGED <<resources, Refreshing>>
<1> QED
  BY DEF Refreshing

\* Every step of the cache is a step of ClusterIndex or a stutter of it.
LEMMA StepImplements ==
  TypeInv /\ [Next]_vars => [Abstract!ClusterNext]_(Abstract!clusterVars)
<1> SUFFICES ASSUME TypeInv, [Next]_vars
             PROVE  Abstract!ClusterNext \/ UNCHANGED <<resources, Refreshing>>
  BY DEF Abstract!clusterVars, Refreshing
<1>0. task \in [Tasks -> TaskState]
  BY DEF TypeInv, TypeOK, TaskState, PCs
<1>1. CASE ClusterChange
  BY <1>1 DEF ClusterChange, innerVars, Refreshing
<1>2. ASSUME NEW t \in Tasks, Spawn(t) PROVE Abstract!ClusterNext
  <2>1. t \notin Refreshing /\ Refreshing' = Refreshing \cup {t} /\ UNCHANGED resources
    BY <1>0, <1>2 DEF Spawn, Refreshing, innerVars, TaskState
  <2> QED
    BY <2>1 DEF Abstract!ClusterNext, Abstract!Spawn, Refreshing
<1>3. ASSUME NEW t \in Tasks, Connect(t) \/ GiveUp(t)
      PROVE  UNCHANGED <<resources, Refreshing>>
  <2>1. /\ task[t].pc = "connecting" /\ task'[t].pc \in {"listing", "failed"}
        /\ \A s \in Tasks \ {t} : task'[s] = task[s]
    BY <1>0, <1>3 DEF Connect, GiveUp, TaskState
  <2> QED
    BY <1>3, <2>1, SameRefreshing DEF Connect, GiveUp, taskOnly, innerVars
<1>4. ASSUME NEW t \in Tasks, ListOk(t) \/ SkipKind(t)
      PROVE  UNCHANGED <<resources, Refreshing>>
  <2>1. /\ task[t].pc = "listing" /\ task'[t].pc \in {"listing", "committing"}
        /\ \A s \in Tasks \ {t} : task'[s] = task[s]
    BY <1>0, <1>4 DEF ListOk, SkipKind, Listed, TaskState
  <2> QED
    BY <1>4, <2>1, SameRefreshing DEF ListOk, SkipKind, Listed, innerVars
<1>5. ASSUME NEW t \in Tasks, StoreResources(t) PROVE Abstract!ClusterNext
  <2>1. /\ t \in Refreshing /\ Refreshing' = Refreshing \ {t}
        /\ task[t].found \in Index /\ resources' = task[t].found
    BY <1>0, <1>5 DEF StoreResources, Refreshing, TaskState
  <2> QED
    BY <2>1 DEF Abstract!ClusterNext, Abstract!Commit, Refreshing
<1>6. ASSUME NEW t \in Tasks, ClearError(t) PROVE UNCHANGED <<resources, Refreshing>>
  <2>1. /\ task[t].pc = "clearing" /\ task'[t].pc = "done"
        /\ \A s \in Tasks \ {t} : task'[s] = task[s]
    BY <1>0, <1>6 DEF ClearError, TaskState
  <2> QED
    BY <1>6, <2>1, SameRefreshing DEF ClearError
<1>7. ASSUME NEW t \in Tasks, SetError(t) PROVE Abstract!ClusterNext
  <2>1. t \in Refreshing /\ Refreshing' = Refreshing \ {t} /\ UNCHANGED resources
    BY <1>0, <1>7 DEF SetError, Refreshing, TaskState
  <2> QED
    BY <2>1 DEF Abstract!ClusterNext, Abstract!Abandon, Refreshing
<1>8. ASSUME NEW t \in Tasks, GrantWrite(t) PROVE UNCHANGED <<resources, Refreshing>>
  BY <1>8 DEF GrantWrite, innerVars, Refreshing
<1>9. ASSUME NEW r \in Readers, AskIndex(r) \/ GrantRead(r) \/ CloneIndex(r)
      PROVE  UNCHANGED <<resources, Refreshing>>
  BY <1>9 DEF AskIndex, GrantRead, CloneIndex, innerVars, Refreshing
<1>10. CASE UNCHANGED vars
  BY <1>10 DEF vars, innerVars, Refreshing
<1> QED
  BY <1>1, <1>2, <1>3, <1>4, <1>5, <1>6, <1>7, <1>8, <1>9, <1>10
  DEF Next, Answered, TimedOut, Holding, ConnectFails, ConnectTimesOut, ListFails, ListTimesOut

\* The cache behind the lock implements ClusterIndex: a reader sees an index
\* that one finished refresh has put there as a whole, or the one before it.
THEOREM Implements == Spec => ImplementsClusterIndex
<1>1. Init => Abstract!ClusterInit
  BY DEF Init, Unborn, Abstract!ClusterInit
<1>2. Spec => []TypeInv
  BY TypeCorrect
<1> QED
  BY <1>1, <1>2, StepImplements, PTL DEF Spec, ImplementsClusterIndex, Abstract!ClusterSpec
----------------------------------------------------------------------------
(***************************************************************************)
(* The index holds what existed during the refresh that stored it.         *)
(***************************************************************************)
\* The kinds whose lists a refresh has asked for.
Asked(t) == {Listing[i] : i \in 1 .. task[t].next - 1}

\* A refresh not yet spawned has asked for nothing and found nothing.
Unstarted(t) == task[t].pc = "unborn" => task[t] = Unborn

\* The witness of a running refresh encloses what exists now.
Watched(t) ==
  task[t].pc # "unborn" =>
    \A k \in ListedKinds :
      cluster[k] \subseteq witness[t].some[k] /\ witness[t].every[k] \subseteq cluster[k]

\* IndexWithinRefresh of what a refresh has found so far.
Within(t) ==
  \A k \in ListedKinds :
    /\ task[t].found[k] \subseteq witness[t].some[k]
    /\ k \in Asked(t) \ task[t].missed => witness[t].every[k] \subseteq task[t].found[k]

RefreshInv(t) == Unstarted(t) /\ Watched(t) /\ Within(t)

\* The stored index is what its refresh found, and that refresh has been
\* through every kind.
SourceOK ==
  source # None =>
    /\ task[source].pc \in {"clearing", "done"}
    /\ task[source].next = Len(Listing) + 1
    /\ resources = task[source].found

IndexInv == TypeInv /\ (\A t \in Tasks : RefreshInv(t)) /\ SourceOK

\* A stored index has been through every kind, so that what its refresh found
\* is what IndexWithinRefresh speaks of.
LEMMA IndexInvSuffices == IndexInv => IndexWithinRefresh
<1> SUFFICES ASSUME IndexInv, source # None, NEW k \in ListedKinds
             PROVE  /\ resources[k] \subseteq witness[source].some[k]
                    /\ k \notin task[source].missed =>
                         witness[source].every[k] \subseteq resources[k]
  BY DEF IndexWithinRefresh
<1>1. source \in Tasks /\ Within(source) /\ resources = task[source].found
  BY DEF IndexInv, TypeInv, TypeOK, SourceOK, RefreshInv
<1>2. k \in Asked(source)
  BY ListingType DEF IndexInv, SourceOK, Asked
<1> QED
  BY <1>1, <1>2 DEF Within

\* Before the first refresh the index is empty and no one's.
LEMMA InitIndexInv == Init => IndexInv
<1> SUFFICES ASSUME Init PROVE IndexInv
  OBVIOUS
<1>1. ASSUME NEW t \in Tasks PROVE RefreshInv(t)
  BY DEF Init, Unborn, NoWitness, EmptyResources, RefreshInv, Unstarted, Watched, Within, Asked
<1> QED
  BY <1>1, InitTypeInv DEF IndexInv, SourceOK, Init

\* A step that leaves the cluster and the watch alone, and changes nothing of a
\* refresh but its program counter once it runs, keeps what it has found.
LEMMA RefreshFrame ==
  ASSUME NEW t \in Tasks, RefreshInv(t), UNCHANGED cluster, witness'[t] = witness[t],
         task'[t] = task[t] \/ /\ task[t].pc # "unborn" /\ task'[t].pc # "unborn"
                               /\ task'[t].next = task[t].next
                               /\ task'[t].found = task[t].found
                               /\ task'[t].missed = task[t].missed
  PROVE  RefreshInv(t)'
<1>1. Unstarted(t)'
  BY DEF RefreshInv, Unstarted, Unborn, EmptyResources
<1>2. Watched(t)'
  BY DEF RefreshInv, Watched
<1>3. Asked(t)' = Asked(t) /\ Within(t)'
  BY DEF RefreshInv, Within, Asked
<1> QED
  BY <1>1, <1>2, <1>3 DEF RefreshInv

\* A step of a refresh that only moves its program counter, and does not store.
LEMMA MoveIndexInv ==
  ASSUME IndexInv, TypeInv', NEW t \in Tasks, NEW pc \in PCs, task' = [task EXCEPT ![t].pc = pc],
         task[t].pc # "unborn", pc # "unborn",
         task[t].pc \in {"clearing", "done"} => pc \in {"clearing", "done"},
         UNCHANGED <<cluster, witness, resources, source>>
  PROVE  IndexInv'
<1>0. task \in [Tasks -> TaskState]
  BY DEF IndexInv, TypeInv, TypeOK, TaskState, PCs
<1>1. \A s \in Tasks : /\ task'[s].next = task[s].next
                       /\ task'[s].found = task[s].found
                       /\ task'[s].missed = task[s].missed
                       /\ task'[s].pc = IF s = t THEN pc ELSE task[s].pc
                       /\ s # t => task'[s] = task[s]
  BY <1>0 DEF TaskState
<1>2. ASSUME NEW s \in Tasks PROVE RefreshInv(s)'
  BY <1>1, RefreshFrame DEF IndexInv
<1>3. SourceOK'
  BY <1>1 DEF IndexInv, SourceOK, TypeInv, TypeOK
<1> QED
  BY <1>2, <1>3 DEF IndexInv

\* The answer to a list request: what exists now, or nothing and a kind missed.
LEMMA ListedIndexInv ==
  ASSUME IndexInv, TypeInv', NEW t \in Tasks, NEW names, NEW missed, Listed(t, names, missed),
         \/ names = cluster[Listing[task[t].next]] /\ missed = {}
         \/ names = {} /\ missed = {Listing[task[t].next]}
  PROVE  IndexInv'
<1> DEFINE k == Listing[task[t].next]
<1>0. task \in [Tasks -> TaskState] /\ task[t] \in TaskState /\ RefreshInv(t)
  BY DEF IndexInv, TypeInv, TypeOK, TaskState, PCs
<1>1. task[t].pc = "listing" /\ task[t].next \in 1 .. Len(Listing) /\ Len(Listing) \in Nat
  BY <1>0, ListingType DEF Listed, IndexInv, TypeInv, NextInRange, TaskState
<1>2. k \in ListedKinds
  BY <1>1, ListingType
<1>3. /\ \A s \in Tasks \ {t} : task'[s] = task[s]
      /\ task'[t].pc \in {"listing", "committing"}
      /\ task'[t].next = task[t].next + 1
      /\ task'[t].found = [task[t].found EXCEPT ![k] = names]
      /\ task'[t].missed = task[t].missed \cup missed
  BY <1>0 DEF Listed
<1>4. /\ task'[t].found[k] = names
      /\ \A j \in ListedKinds \ {k} : task'[t].found[j] = task[t].found[j]
  BY <1>0, <1>2, <1>3 DEF TaskState, Index
<1>5. Asked(t)' = Asked(t) \cup {k}
  <2>1. 1 .. task'[t].next - 1 = (1 .. task[t].next - 1) \cup {task[t].next}
    BY <1>1, <1>3
  <2> QED
    BY <2>1 DEF Asked
<1>6. UNCHANGED <<cluster, witness, resources, source>>
  BY DEF Listed, innerVars
<1>7. ASSUME NEW j \in ListedKinds
      PROVE  /\ task'[t].found[j] \subseteq witness'[t].some[j]
             /\ j \in Asked(t)' \ task'[t].missed => witness'[t].every[j] \subseteq task'[t].found[j]
  <2>1. CASE j = k
    BY <1>0, <1>1, <1>2, <1>3, <1>4, <1>6, <2>1 DEF RefreshInv, Watched
  <2>2. CASE j # k
    BY <1>0, <1>3, <1>4, <1>5, <1>6, <2>2 DEF RefreshInv, Within
  <2> QED
    BY <2>1, <2>2
<1>8. RefreshInv(t)'
  BY <1>0, <1>1, <1>3, <1>6, <1>7 DEF RefreshInv, Unstarted, Watched, Within
<1>9. ASSUME NEW s \in Tasks, s # t PROVE RefreshInv(s)'
  BY <1>3, <1>6, <1>9, RefreshFrame DEF IndexInv
<1>10. SourceOK'
  BY <1>1, <1>3, <1>6 DEF IndexInv, SourceOK, TypeInv, TypeOK
<1> QED
  BY <1>8, <1>9, <1>10 DEF IndexInv

\* A step that leaves the tasks, the cluster, the watch and the index alone.
LEMMA OtherIndexInv ==
  ASSUME IndexInv, TypeInv', UNCHANGED <<task, cluster, witness, resources, source>>
  PROVE  IndexInv'
<1>1. ASSUME NEW t \in Tasks PROVE RefreshInv(t)'
  BY RefreshFrame DEF IndexInv
<1>2. SourceOK'
  BY DEF IndexInv, SourceOK
<1> QED
  BY <1>1, <1>2 DEF IndexInv

\* Every step keeps what the refreshes have found within what existed meanwhile.
LEMMA NextIndexInv == IndexInv /\ [Next]_vars => IndexInv'
<1> SUFFICES ASSUME IndexInv, [Next]_vars PROVE IndexInv'
  OBVIOUS
<1>0. TypeInv' /\ task \in [Tasks -> TaskState]
  BY NextTypeInv DEF IndexInv, TypeInv, TypeOK, TaskState, PCs
<1>1. CASE ClusterChange
  <2>1. ASSUME NEW t \in Tasks PROVE RefreshInv(t)'
    <3>1. \A k \in ListedKinds :
            /\ witness'[t].some[k] = witness[t].some[k] \cup cluster'[k]
            /\ witness'[t].every[k] = witness[t].every[k] \cap cluster'[k]
      BY <1>1 DEF ClusterChange
    <3>2. RefreshInv(t) /\ UNCHANGED task /\ Asked(t)' = Asked(t)
      BY <1>1 DEF ClusterChange, IndexInv, Asked
    <3> QED
      BY <3>1, <3>2 DEF RefreshInv, Unstarted, Watched, Within, Unborn, EmptyResources
  <2>2. SourceOK'
    BY <1>1 DEF ClusterChange, innerVars, IndexInv, SourceOK
  <2> QED
    BY <1>0, <2>1, <2>2 DEF IndexInv
<1>2. ASSUME NEW t \in Tasks, Spawn(t) PROVE IndexInv'
  <2>1. /\ UNCHANGED <<cluster, resources, source>>
        /\ \A s \in Tasks \ {t} : task'[s] = task[s] /\ witness'[s] = witness[s]
    BY <1>0, <1>2 DEF Spawn, innerVars, IndexInv, TypeInv, TypeOK
  <2>2. /\ task[t] = Unborn /\ task'[t] = [Unborn EXCEPT !.pc = "connecting"]
        /\ witness'[t] = [some |-> cluster, every |-> cluster]
    BY <1>0, <1>2 DEF Spawn, IndexInv, RefreshInv, Unstarted, TypeInv, TypeOK
  <2>3. RefreshInv(t)'
    <3>1. Unstarted(t)' /\ Watched(t)'
      BY <2>1, <2>2 DEF Unstarted, Watched, Unborn
    <3>2. Asked(t)' = {}
      BY <2>2 DEF Asked, Unborn
    <3>3. \A k \in ListedKinds : task'[t].found[k] = {}
      BY <2>2 DEF Unborn, EmptyResources
    <3> QED
      BY <3>1, <3>2, <3>3 DEF RefreshInv, Within
  <2>4. ASSUME NEW s \in Tasks, s # t PROVE RefreshInv(s)'
    BY <2>1, <2>4, RefreshFrame DEF IndexInv
  <2>5. SourceOK'
    BY <1>2, <2>1 DEF Spawn, IndexInv, SourceOK, TypeInv, TypeOK
  <2> QED
    BY <1>0, <2>3, <2>4, <2>5 DEF IndexInv
<1>3. ASSUME NEW t \in Tasks, Connect(t) PROVE IndexInv'
  <2>1. "listing" \in PCs
    BY DEF PCs
  <2> QED
    BY <1>0, <1>3, <2>1, MoveIndexInv DEF Connect, taskOnly, innerVars
<1>4. ASSUME NEW t \in Tasks, GiveUp(t) PROVE IndexInv'
  <2>1. "failed" \in PCs
    BY DEF PCs
  <2> QED
    BY <1>0, <1>4, <2>1, MoveIndexInv DEF GiveUp, innerVars
<1>5. ASSUME NEW t \in Tasks, ListOk(t) PROVE IndexInv'
  BY <1>0, <1>5, ListedIndexInv DEF ListOk
<1>6. ASSUME NEW t \in Tasks, SkipKind(t) PROVE IndexInv'
  BY <1>0, <1>6, ListedIndexInv DEF SkipKind
<1>7. ASSUME NEW t \in Tasks, StoreResources(t) PROVE IndexInv'
  <2>1. /\ UNCHANGED <<cluster, witness>>
        /\ \A s \in Tasks \ {t} : task'[s] = task[s]
        /\ task[t].pc = "committing" /\ task'[t].pc = "clearing"
        /\ task'[t].next = task[t].next /\ task'[t].found = task[t].found
        /\ task'[t].missed = task[t].missed
    BY <1>0, <1>7 DEF StoreResources, TaskState
  <2>2. ASSUME NEW s \in Tasks PROVE RefreshInv(s)'
    BY <2>1, RefreshFrame DEF IndexInv
  <2>3. task[t].next = Len(Listing) + 1
    BY <2>1 DEF IndexInv, TypeInv, NextInRange
  <2>4. SourceOK'
    BY <1>7, <2>1, <2>3 DEF StoreResources, SourceOK
  <2> QED
    BY <1>0, <2>2, <2>4 DEF IndexInv
<1>8. ASSUME NEW t \in Tasks, ClearError(t) \/ SetError(t) PROVE IndexInv'
  <2>1. "done" \in PCs
    BY DEF PCs
  <2> QED
    BY <1>0, <1>8, <2>1, MoveIndexInv DEF ClearError, SetError
<1>9. ASSUME NEW t \in Tasks, GrantWrite(t) PROVE IndexInv'
  BY <1>0, <1>9, OtherIndexInv DEF GrantWrite, innerVars
<1>10. ASSUME NEW r \in Readers, AskIndex(r) \/ GrantRead(r) \/ CloneIndex(r) PROVE IndexInv'
  BY <1>0, <1>10, OtherIndexInv DEF AskIndex, GrantRead, CloneIndex, innerVars
<1>11. CASE UNCHANGED vars
  BY <1>0, <1>11, OtherIndexInv DEF vars, innerVars
<1> QED
  BY <1>1, <1>2, <1>3, <1>4, <1>5, <1>6, <1>7, <1>8, <1>9, <1>10, <1>11
  DEF Next, Answered, TimedOut, Holding, ConnectFails, ConnectTimesOut, ListFails, ListTimesOut

\* A name is in the index only if it existed at some moment of the refresh
\* that stored the index, and a name that existed throughout it is missing
\* only if the list of its kind failed, however many refreshes overlap.
THEOREM StoredIndexWithinRefresh == Spec => []IndexWithinRefresh
<1>1. Spec => []IndexInv
  BY InitIndexInv, NextIndexInv, PTL DEF Spec
<1> QED
  BY <1>1, IndexInvSuffices, PTL
=============================================================================
