----------------------------- MODULE NameOffers -----------------------------
(***************************************************************************)
(* Snapshot::refs_by_kind as the list it builds, against RefsOfKind, the   *)
(* set that the server model takes names from.  The documents are held in  *)
(* a HashMap, so a list may begin with any of them; `order` is one order   *)
(* of the files, `docs` the documents of a snapshot.  A reference stands   *)
(* for the place it was pushed from, <<file, part>>.                       *)
(***************************************************************************)
EXTENDS LspServer, Functions

\* Files and parts are walked in turn; unnamed parts are passed over.
Pushed(docs, order, kind) ==
  UNION {{<<a, b>> : b \in {i \in DOMAIN docs[order[a]].parts :
                              /\ docs[order[a]].parts[i].kind = kind
                              /\ docs[order[a]].parts[i].name # Absent}} : a \in DOMAIN order}

PushedBefore(p, q) == p[1] < q[1] \/ (p[1] = q[1] /\ p[2] < q[2])

ResourceRef(docs, order, q) ==
  LET part == docs[order[q[1]]].parts[q[2]]
  IN  [uri |-> order[q[1]], ns |-> part.ns, name |-> part.name]

\* Mutant: the names are left out of the comparison.
SortKeyOfNamespace(r) == r.ns

\* What sort_by compares; the file is not part of it.
SortKey(r) == <<r.ns, r.name>>

\* p comes right before q in the sorted list.  The sort is stable: references
\* that compare equal stay in the order they were pushed in, side by side.
\* Which of the others come first is left out.
SortedBefore(docs, order, p, q) ==
  /\ SortKey(ResourceRef(docs, order, p)) = SortKey(ResourceRef(docs, order, q))
  /\ PushedBefore(p, q)
RightBefore(docs, order, kind, p, q) ==
  /\ SortedBefore(docs, order, p, q)
  /\ \A r \in Pushed(docs, order, kind) :
       ~(SortedBefore(docs, order, p, r) /\ SortedBefore(docs, order, r, q))

\* dedup keeps an element unless it equals the one before it.
RefsByKind(docs, order, kind) ==
  {q \in Pushed(docs, order, kind) :
     \A p \in Pushed(docs, order, kind) :
       RightBefore(docs, order, kind, p, q) => ResourceRef(docs, order, p) # ResourceRef(docs, order, q)}
----------------------------------------------------------------------------
\* refs_by_kind: in whatever order the files are walked, and though the sort
\* does not compare them, every named resource of a kind is offered, and none
\* is offered twice for one file.
Orders(docs) ==
  LET files == {u \in Uris : docs[u] # NoDoc} IN Bijection(1 .. Cardinality(files), files)
OfferedOnce ==
  \A order \in Orders(documents), kind \in Kinds :
    LET kept == RefsByKind(documents, order, kind)
        Ref(q) == ResourceRef(documents, order, q)
    IN  /\ {Ref(q) : q \in kept} = RefsOfKind(documents, kind)
        /\ \A p, q \in kept : Ref(p) = Ref(q) => p = q
=============================================================================
