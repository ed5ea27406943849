--------------------------- MODULE DocumentStore ---------------------------
(***************************************************************************)
(* The in-memory document store of crates/k8s-lsp-core: the latest         *)
(* Document per URI and a revision counter, both behind one mutex.         *)
(*                                                                         *)
(* Each operation is one locked section, hence one action.  A text is      *)
(* opaque; Parse gives the resource identities the parser finds in it, one *)
(* record per YAML document of the stream.                                 *)
(***************************************************************************)
EXTENDS Naturals, Sequences

CONSTANTS
  Uris,               \* the files the editor may open
  Texts,              \* the contents a file may have
  ApiVersions, Kinds, Namespaces, Names,
  Absent,             \* an Option that is None
  NoDoc,              \* a key missing from the document map
  Parse,              \* Parse[t]: the parts the parser finds in text t
  KustomizationUris,  \* the files named kustomization.yaml, .yml or bare
  KustomizeApi, KustomizeKind,  \* the identity injected into such a file
  RevisionModulus     \* 2^64: the revision is a u64 that wraps

VARIABLES
  revision,           \* Inner.revision
  documents           \* Inner.documents

Part == [api  : ApiVersions \cup {Absent},
         kind : Kinds \cup {Absent},
         ns   : Namespaces \cup {Absent},
         name : Names \cup {Absent}]

Document == [version : Nat, text : Texts, parts : Seq(Part)]

ASSUME ParseAssumption == Parse \in [Texts -> Seq(Part)]
ASSUME AbsentAssumption == Absent \notin Names
ASSUME IdentityAssumption == KustomizeApi \in ApiVersions /\ KustomizeKind \in Kinds
ASSUME ModulusAssumption == RevisionModulus \in Nat \ {0}
ASSUME NoDocAssumption == NoDoc \notin Document

storeVars == <<revision, documents>>
----------------------------------------------------------------------------
(***************************************************************************)
(* apply_kustomization_fallback: a kustomization file that holds exactly   *)
(* one part with neither apiVersion nor kind gets the canonical identity.  *)
(***************************************************************************)
ApplyKustomizationFallback(u, parts) ==
  IF /\ u \in KustomizationUris
     /\ Len(parts) = 1
     /\ parts[1].api = Absent
     /\ parts[1].kind = Absent
  THEN <<[parts[1] EXCEPT !.api = KustomizeApi, !.kind = KustomizeKind]>>
  ELSE parts

NewDocument(u, v, t) ==
  [version |-> v, text |-> t, parts |-> ApplyKustomizationFallback(u, Parse[t])]

NextRevision(r) == (r + 1) % RevisionModulus

StoreInit ==
  /\ revision = 0
  /\ documents = [u \in Uris |-> NoDoc]

\* Mutant: a text already stored is not replaced.
InsertOnly(u, v, t) ==
  /\ revision' = NextRevision(revision)
  /\ documents' = [documents EXCEPT ![u] = IF @ = NoDoc THEN NewDocument(u, v, t) ELSE @]

Upsert(u, v, t) ==
  /\ revision' = NextRevision(revision)
  /\ documents' = [documents EXCEPT ![u] = NewDocument(u, v, t)]

\* Mutant: a removal keeps the revision.
RemoveSilently(u) ==
  /\ UNCHANGED revision
  /\ documents' = [documents EXCEPT ![u] = NoDoc]

\* A removal that finds nothing still advances the revision.
Remove(u) ==
  /\ revision' = NextRevision(revision)
  /\ documents' = [documents EXCEPT ![u] = NoDoc]

Snapshot == [revision |-> revision, documents |-> documents]

\* Snapshot::refs_by_kind, restricted to one kind: the named resources of
\* that kind in all open documents (NameOffers models the list it builds).
RefsOfKind(docs, kind) ==
  {r \in [uri : Uris, ns : Namespaces \cup {Absent}, name : Names] :
     /\ docs[r.uri] # NoDoc
     /\ \E i \in DOMAIN docs[r.uri].parts :
          LET p == docs[r.uri].parts[i]
          IN  p.kind = kind /\ p.name = r.name /\ p.ns = r.ns}

StoreTypeOK ==
  /\ revision \in 0 .. (RevisionModulus - 1)
  /\ documents \in [Uris -> Document \cup {NoDoc}]
=============================================================================
