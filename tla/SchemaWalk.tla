----------------------------- MODULE SchemaWalk -----------------------------
(***************************************************************************)
(* Hover and field completion on a schema: schema_at_path and fields_at of *)
(* crates/k8s-lsp-schema, with the fallback to ObjectMeta that the server  *)
(* adds to both.                                                           *)
(*                                                                         *)
(* The recursions of step and collect_properties both go through the       *)
(* combinators of a node depth first and from left to right.  todo is what *)
(* is left of the recursion, passed the nodes it has been through since    *)
(* the last segment of the path; in completion the fields of those nodes   *)
(* are the candidates gathered so far.                                     *)
(***************************************************************************)
EXTENDS JsonSchema, Functions

CONSTANTS
  Paths,     \* bound: the paths the editor asks about
  Metadata   \* the field name `metadata`

VARIABLES
  ask,       \* "completion", "hover" or none yet
  path,      \* the path at the cursor
  pc, base,  \* where the request stands, and the schema it looks at
  left,      \* the segments not taken yet
  todo, passed,
  node,      \* the node at the end of the path
  offered    \* history: the candidate accepted from a completion

walkVars == <<ask, path, pc, base, left, todo, passed, node, offered>>

ASSUME PathAssumption == Paths \subseteq Seq(Segment)
ASSUME MetadataAssumption == Metadata \in Names

Nothing == [name |-> NoNode]
----------------------------------------------------------------------------
Start(root, p) ==
  /\ pc' = "walk"
  /\ base' = root
  /\ left' = p
  /\ todo' = <<Resolve(root)>>
  /\ passed' = <<>>
  /\ node' = NoNode

WalkInit ==
  /\ schema \in Schemas
  /\ ask = "none" /\ path = <<>> /\ pc = "idle" /\ base = Root
  /\ left = <<>> /\ todo = <<>> /\ passed = <<>>
  /\ node = NoNode
  /\ offered = Nothing

\* Hover has no answer for the empty path.
Ask(kind, p) ==
  /\ pc = "idle"
  /\ kind = "hover" => p # <<>>
  /\ ask' = kind /\ path' = p
  /\ Start(Root, p)
  /\ UNCHANGED <<schema, offered>>

\* direct_step.
Direct(n, seg) ==
  IF seg = Index THEN schema[n].items
  ELSE IF seg \in DOMAIN Properties(n) THEN Properties(n)[seg]
  ELSE IF schema[n].additional \in Nodes THEN schema[n].additional ELSE NoNode

Children(n) == schema[n].children
ResolvedChildren(n) == [i \in DOMAIN Children(n) |-> Resolve(Children(n)[i])]

Current == Resolve(Head(todo))

\* step finds the segment in the node itself.
StepInto ==
  /\ pc = "walk" /\ left # <<>> /\ todo # <<>>
  /\ Direct(Current, Head(left)) # NoNode
  /\ left' = Tail(left)
  /\ todo' = <<Resolve(Direct(Current, Head(left)))>>
  /\ passed' = <<>>
  /\ UNCHANGED <<schema, ask, path, pc, base, node, offered>>

\* Mutant: only the first combinator child is looked at.
StepToFirst ==
  /\ pc = "walk" /\ left # <<>> /\ todo # <<>>
  /\ Direct(Current, Head(left)) = NoNode
  /\ todo' = IF Children(Current) = <<>> THEN Tail(todo) ELSE <<ResolvedChildren(Current)[1]>>
  /\ passed' = Append(passed, Current)
  /\ UNCHANGED <<schema, ask, path, pc, base, left, node, offered>>

\* Mutant: a segment that no node knows is skipped.
StepSkips ==
  /\ pc = "walk" /\ left # <<>> /\ todo # <<>>
  /\ Direct(Current, Head(left)) = NoNode
  /\ left' = IF Children(Current) = <<>> /\ Tail(todo) = <<>> THEN Tail(left) ELSE left
  /\ todo' = ResolvedChildren(Current) \o Tail(todo)
  /\ passed' = Append(passed, Current)
  /\ UNCHANGED <<schema, ask, path, pc, base, node, offered>>

\* It does not, and tries the children before whatever else is left.
StepThrough ==
  /\ pc = "walk" /\ left # <<>> /\ todo # <<>>
  /\ Direct(Current, Head(left)) = NoNode
  /\ todo' = ResolvedChildren(Current) \o Tail(todo)
  /\ passed' = Append(passed, Current)
  /\ UNCHANGED <<schema, ask, path, pc, base, left, node, offered>>

\* The end of the path: hover renders the node, completion goes on.
Arrive ==
  /\ pc = "walk" /\ left = <<>>
  /\ node' = Head(todo)
  /\ pc' = IF ask = "hover" THEN "done" ELSE "collect"
  /\ UNCHANGED <<schema, ask, path, base, left, todo, passed, offered>>

\* Mutant: the fields of a node's children are left out.
CollectOwn ==
  /\ pc = "collect" /\ todo # <<>>
  /\ todo' = Tail(todo)
  /\ passed' = Append(passed, Current)
  /\ UNCHANGED <<schema, ask, path, pc, base, left, node, offered>>

\* collect_properties: the fields of the node itself, then those of its
\* children.
Collect ==
  /\ pc = "collect" /\ todo # <<>>
  /\ todo' = Children(Current) \o Tail(todo)
  /\ passed' = Append(passed, Current)
  /\ UNCHANGED <<schema, ask, path, pc, base, left, node, offered>>

Candidate(i, k) ==
  [name |-> k, node |-> Resolve(Properties(passed[i])[k]), required |-> k \in schema[node].required]

FieldsOf(i) == DOMAIN Properties(passed[i])

\* Mutant: of equal names the last one stays.
CandidatesLast ==
  IF node = NoNode THEN {} ELSE
  UNION {{Candidate(i, k) : k \in {m \in FieldsOf(i) : \A h \in i + 1 .. Len(passed) : m \notin FieldsOf(h)}} :
           i \in DOMAIN passed}

\* The stable sort by name and dedup_by keep the first of equal names.
Candidates ==
  IF node = NoNode THEN {} ELSE
  UNION {{Candidate(i, k) : k \in {m \in FieldsOf(i) : \A h \in 1 .. i - 1 : m \notin FieldsOf(h)}} :
           i \in DOMAIN passed}

NoResult ==
  \/ pc = "walk" /\ left # <<>> /\ todo = <<>>
  \/ pc = "collect" /\ todo = <<>> /\ Candidates = {}

\* is_metadata_path: it goes below metadata.
IsMetadataPath(p) == Len(p) > 1 /\ p[1] = Metadata

\* Nothing was found, and the path goes below metadata: ask ObjectMeta.
FallBack ==
  /\ NoResult
  /\ base = Root /\ IsMetadataPath(path)
  /\ Start(MetaRoot, Tail(path))
  /\ UNCHANGED <<schema, ask, path, offered>>

Finish ==
  /\ \/ NoResult /\ ~(base = Root /\ IsMetadataPath(path))
     \/ pc = "collect" /\ todo = <<>> /\ Candidates # {}
  /\ pc' = "done"
  /\ UNCHANGED <<schema, ask, path, base, left, todo, passed, node, offered>>

\* The user takes a candidate and hovers over it.
Accept(c) ==
  /\ pc = "done" /\ ask = "completion"
  /\ offered' = c
  /\ ask' = "hover" /\ path' = Append(path, c.name)
  /\ Start(Root, Append(path, c.name))
  /\ UNCHANGED schema

WalkStep ==
  \/ StepInto \/ StepThrough \/ Arrive \/ Collect
  \/ FallBack \/ Finish

WalkNext ==
  \/ \E kind \in {"completion", "hover"}, p \in Paths : Ask(kind, p)
  \/ WalkStep
  \/ \E c \in Candidates : Accept(c)

WalkSpec == WalkInit /\ [][WalkNext]_<<schema, walkVars>>
----------------------------------------------------------------------------
(***************************************************************************)
(* Properties.                                                             *)
(***************************************************************************)
\* Every variable keeps its type.
WalkTypeOK ==
  /\ schema \in Schemas
  /\ ask \in {"none", "completion", "hover"}
  /\ path \in Seq(Segment) /\ left \in Seq(Segment)
  /\ pc \in {"idle", "walk", "collect", "done"}
  /\ base \in {Root, MetaRoot}
  /\ todo \in Seq(Nodes) /\ passed \in Seq(Nodes)
  /\ node \in Nodes \cup {NoNode}
  /\ pc = "walk" /\ left = <<>> => todo # <<>>

\* The nodes that belong to n by its combinators: n and, from there, every
\* child, its $ref followed.
ClosedUnderChildren(S) == \A m \in S : \A i \in DOMAIN Children(m) : Resolve(Children(m)[i]) \in S
Merged(n) == {m \in Nodes : \A S \in SUBSET Nodes : n \in S /\ ClosedUnderChildren(S) => m \in S}

\* Completion offers the fields of every node merged into the one at the end of
\* the path, and no others.
OffersMergedFields ==
  RefsSettle /\ pc = "done" /\ ask = "completion" /\ node # NoNode =>
    {c.name : c \in Candidates} = UNION {DOMAIN Properties(m) : m \in Merged(node)}

\* A path is given up only where no node merged into the present one has the
\* segment.
GivesUpOnlyUnknown ==
  RefsSettle /\ pc = "walk" /\ left # <<>> /\ todo = <<>> =>
    \A m \in Merged(passed[1]) : Direct(m, Head(left)) = NoNode

\* Hover over a field that was accepted from a completion shows the schema
\* whose type the completion showed, unless a schema for additional fields
\* stands before it.
AcceptedIsHovered ==
  RefsSettle /\ pc = "done" /\ offered # Nothing =>
    \/ node = offered.node
    \/ \E n \in Nodes : schema[n].additional \in Nodes /\ node = Resolve(schema[n].additional)

\* README.md:48-49: "CRD `metadata.*` falls back to embedded ObjectMeta when
\* the CRD declares `metadata` as opaque": so its fields are offered there.
MetadataOffered ==
  /\ pc = "done" /\ ask = "completion" /\ path = <<Metadata>>
  /\ Metadata \in DOMAIN Properties(Root)
  /\ Properties(Root)[Metadata] \in Nodes
  /\ Properties(Properties(Root)[Metadata]) = <<>>
  => DOMAIN Properties(MetaRoot) \subseteq {c.name : c \in Candidates}
=============================================================================
