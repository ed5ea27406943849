----------------------------- MODULE CrdSources -----------------------------
(***************************************************************************)
(* The two tasks that initialize spawns to feed the schema registry: one   *)
(* lists the CRDs of the cluster over the network, the other reads the     *)
(* files of crdSchemaPaths.  Both gather a list of schemas and insert them *)
(* one by one, beside each other and beside the lookups of the handlers.   *)
(*                                                                         *)
(* A CRD is a group, a kind and its versions, each with a schema or        *)
(* NoSchema.  A file is Unreadable or the documents of its YAML stream: a  *)
(* CRD, a value that is no CRD ("other") or a document with a syntax error *)
(* ("broken").  serde_yaml's iterator is outside the repository: behind a  *)
(* syntax error it yields the next document or ends the stream.            *)
(***************************************************************************)
EXTENDS SchemaRegistry, Naturals, Sequences, SequencesExt

CONSTANTS
  Crds,          \* the CRDs there may be
  VersionNames,
  FileSets,      \* bound: what the files of crdSchemaPaths may hold
  ClusterLists,  \* bound: the lists of CRDs the cluster may answer with
  CoreGroup,     \* the empty group
  Unreadable

VARIABLES
  contents,      \* what the files hold
  files,         \* the loader of files: pc, files and documents left, schemas
  crds,          \* the loader of the cluster's CRDs: pc and schemas
  listed         \* history: the CRDs the cluster answered with

vars == <<registryVars, contents, files, crds, listed>>
----------------------------------------------------------------------------
ApiVersion(group, version) == IF group = CoreGroup THEN <<version>> ELSE <<group, version>>

Version == [name : VersionNames, schema : Schemas \cup {NoSchema}]
Document == Crds \cup {[type |-> "other"], [type |-> "broken"]}

ASSUME CrdAssumption ==
  \A crd \in Crds :
    /\ crd.type = "crd"
    /\ crd.versions \in Seq(Version)
    /\ \A v \in ToSet(crd.versions) : <<ApiVersion(crd.group, v.name), crd.kind>> \in Keys
ASSUME SourceAssumption ==
  /\ FileSets \subseteq Seq({Unreadable} \cup Seq(Document))
  /\ ClusterLists \subseteq Seq(Crds)

\* Mutant: all versions go under the name of the first.
EntryUnderFirst(crd, v) ==
  [key |-> <<ApiVersion(crd.group, crd.versions[1].name), crd.kind>>, schema |-> v.schema]

EntryOf(crd, v) == [key |-> <<ApiVersion(crd.group, v.name), crd.kind>>, schema |-> v.schema]

\* A version without a schema, or with one that is no JSON, is left out.
Flatten(crd) ==
  LET out[i \in 0 .. Len(crd.versions)] ==
        IF i = 0 THEN <<>>
        ELSE IF crd.versions[i].schema = NoSchema THEN out[i - 1]
        ELSE Append(out[i - 1], EntryOf(crd, crd.versions[i]))
  IN  out[Len(crd.versions)]

\* The outer loop of list_crds.
FlattenAll(list) ==
  LET out[i \in 0 .. Len(list)] == IF i = 0 THEN <<>> ELSE out[i - 1] \o Flatten(list[i])
  IN  out[Len(list)]

IsCrd(doc) == doc.type = "crd"

Init ==
  /\ SchemaRegistryInit
  /\ contents \in FileSets
  /\ files = [pc |-> IF contents = <<>> THEN "done" ELSE "reading",
              paths |-> contents, docs |-> <<>>, found |-> <<>>]
  /\ \E enabled \in BOOLEAN :
       crds = [pc |-> IF enabled THEN "connecting" ELSE "done", found |-> <<>>]
  /\ listed = <<>>
----------------------------------------------------------------------------
(***************************************************************************)
(* load_crds_from_paths.                                                   *)
(***************************************************************************)
fileOnly == <<registryVars, contents, crds, listed>>

ReadFile ==
  /\ files.pc = "reading" /\ files.docs = <<>> /\ files.paths # <<>>
  /\ Head(files.paths) # Unreadable
  /\ files' = [files EXCEPT !.paths = Tail(@), !.docs = Head(files.paths)]
  /\ UNCHANGED fileOnly

\* Mutant: a file that cannot be read ends the loading.
ReadFailsForAll ==
  /\ files.pc = "reading" /\ files.docs = <<>> /\ files.paths # <<>>
  /\ Head(files.paths) = Unreadable
  /\ files' = [files EXCEPT !.paths = <<>>]
  /\ UNCHANGED fileOnly

ReadFails ==
  /\ files.pc = "reading" /\ files.docs = <<>> /\ files.paths # <<>>
  /\ Head(files.paths) = Unreadable
  /\ files' = [files EXCEPT !.paths = Tail(@)]
  /\ UNCHANGED fileOnly

LoadDocument ==
  /\ files.pc = "reading" /\ files.docs # <<>>
  /\ IsCrd(Head(files.docs))
  /\ files' = [files EXCEPT !.docs = Tail(@), !.found = @ \o Flatten(Head(files.docs))]
  /\ UNCHANGED fileOnly

SkipDocument ==
  /\ files.pc = "reading" /\ files.docs # <<>>
  /\ ~IsCrd(Head(files.docs))
  /\ \/ files' = [files EXCEPT !.docs = Tail(@)]
     \/ Head(files.docs).type = "broken" /\ files' = [files EXCEPT !.docs = <<>>]
  /\ UNCHANGED fileOnly

FilesRead ==
  /\ files.pc = "reading" /\ files.docs = <<>> /\ files.paths = <<>>
  /\ files' = [files EXCEPT !.pc = "inserting"]
  /\ UNCHANGED fileOnly
----------------------------------------------------------------------------
(***************************************************************************)
(* list_crds.                                                              *)
(***************************************************************************)
clusterOnly == <<registryVars, contents, files>>

Connect ==
  /\ crds.pc = "connecting"
  /\ crds' = [crds EXCEPT !.pc = "listing"]
  /\ UNCHANGED <<clusterOnly, listed>>

\* An error or a timeout leaves an empty list to insert.
GiveUp(pc) ==
  /\ crds.pc = pc
  /\ crds' = [crds EXCEPT !.pc = "inserting"]
  /\ UNCHANGED <<clusterOnly, listed>>

ConnectFails == GiveUp("connecting")
ConnectTimesOut == GiveUp("connecting")
ListFails == GiveUp("listing")
\* Mutant: the list has no timeout.
ListHangs == FALSE /\ GiveUp("listing")
ListTimesOut == GiveUp("listing")

ListOk ==
  /\ crds.pc = "listing"
  /\ listed' \in ClusterLists
  /\ crds' = [pc |-> "inserting", found |-> FlattenAll(listed')]
  /\ UNCHANGED clusterOnly
----------------------------------------------------------------------------
(***************************************************************************)
(* The loops of initialize's tasks over what was gathered.                 *)
(***************************************************************************)
InsertFirst(found) == InsertSchema(Head(found).key, Head(found).schema)

InsertFromFiles ==
  /\ files.pc = "inserting" /\ files.found # <<>>
  /\ InsertFirst(files.found)
  /\ files' = [files EXCEPT !.found = Tail(@)]
  /\ UNCHANGED <<contents, crds, listed>>

InsertFromCluster ==
  /\ crds.pc = "inserting" /\ crds.found # <<>>
  /\ InsertFirst(crds.found)
  /\ crds' = [crds EXCEPT !.found = Tail(@)]
  /\ UNCHANGED <<contents, files, listed>>

FilesDone ==
  /\ files.pc = "inserting" /\ files.found = <<>>
  /\ files' = [files EXCEPT !.pc = "done"]
  /\ UNCHANGED fileOnly

ClusterDone ==
  /\ crds.pc = "inserting" /\ crds.found = <<>>
  /\ crds' = [crds EXCEPT !.pc = "done"]
  /\ UNCHANGED <<clusterOnly, listed>>

Lookups(c) == LookupStep(c) /\ UNCHANGED <<contents, files, crds, listed>>

FileLoader ==
  \/ ReadFile \/ ReadFails \/ LoadDocument \/ SkipDocument
  \/ FilesRead \/ InsertFromFiles \/ FilesDone

TimedOut == ConnectTimesOut \/ ListTimesOut
ClusterInserts == InsertFromCluster \/ ClusterDone

ClusterLoader ==
  \/ Connect \/ ConnectFails \/ ListOk \/ ListFails
  \/ TimedOut
  \/ ClusterInserts

Next == (\E c \in Callers : Lookups(c)) \/ FileLoader \/ ClusterLoader

\* The runtime polls a task that can go on, and timers fire.  Nothing is
\* assumed of the network, nor of the reading of files.
Fairness == WF_vars(TimedOut) /\ WF_vars(ClusterInserts)

Spec == Init /\ [][Next]_vars /\ Fairness
----------------------------------------------------------------------------
(***************************************************************************)
(* Properties.                                                             *)
(***************************************************************************)
\* What a CRD defines: one schema for each of its versions that has one.
Definitions(crd) ==
  {[key |-> <<ApiVersion(crd.group, v.name), crd.kind>>, schema |-> v.schema] :
     v \in {w \in ToSet(crd.versions) : w.schema # NoSchema}}
Listed == UNION {Definitions(listed[i]) : i \in DOMAIN listed}

\* The CRDs of the files, by file and document, in the order they are read.
FileCrds == {p \in UNION {{f} \X DOMAIN contents[f] :
                            f \in {g \in DOMAIN contents : contents[g] # Unreadable}} :
               IsCrd(contents[p[1]][p[2]])}
CrdAt(p) == contents[p[1]][p[2]]
ReadBefore(p, q) == p[1] < q[1] \/ (p[1] = q[1] /\ p[2] < q[2])

\* "Bad files are logged and skipped; one broken file never poisons the rest":
\* when the files are loaded, every schema of theirs in front of which its
\* file has no syntax error is registered, unless a definition of the same key
\* that is read later, or one of the cluster's, has replaced it.
Sound(p) == \A d \in 1 .. p[2] : contents[p[1]][d].type # "broken"
SoundFilesLoaded ==
  files.pc = "done" =>
    \A p \in {q \in FileCrds : Sound(q)} : \A e \in Definitions(CrdAt(p)) :
      \E other \in Listed \cup Definitions(CrdAt(p))
                   \cup UNION {Definitions(CrdAt(q)) : q \in {r \in FileCrds : ReadBefore(p, r)}} :
        other.key = e.key /\ dynamic[e.key] = other.schema

\* A schema is registered only under the version and kind that a CRD of the
\* files or of the cluster gives it.
OnlyDefinedSchemas ==
  \A k \in Keys : dynamic[k] # NoSchema =>
    [key |-> k, schema |-> dynamic[k]] \in Listed \cup UNION {Definitions(CrdAt(p)) : p \in FileCrds}

\* The loader of the cluster's CRDs ends although the network may never answer
\* (list_crds times both of its requests).
ClusterLoaderEnds == crds.pc = "connecting" ~> crds.pc = "done"
=============================================================================
