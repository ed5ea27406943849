----------------------------- MODULE JsonSchema -----------------------------
(***************************************************************************)
(* JSON schemas as crates/k8s-lsp-schema reads them: the nodes of a schema *)
(* and the embedded ObjectMeta schema in one graph, each node reduced to   *)
(* the members the code looks at.                                          *)
(***************************************************************************)
EXTENDS Naturals, Sequences

CONSTANTS
  Nodes,         \* the schema nodes
  Root,          \* the schema the registry returned
  MetaRoot,      \* object_meta()
  Names,         \* field names
  Index,         \* the segment of a path that leads into a sequence
  Types,         \* the types a schema may demand
  Schemas,       \* bound: the schemas there may be
  NoNode,        \* a member that is missing
  NoProperties,  \* no member "properties"
  Forbidden,     \* additionalProperties: false
  MaxRefs        \* how many $ref are followed in a row (8)

VARIABLE schema  \* the node at each place

\* The schemas of some fields.
PropertyMap == UNION {[D -> Nodes] : D \in SUBSET Names}

\* children is allOf, oneOf and anyOf in a row, ref the target of a local $ref
\* that exists; additionalProperties is true or missing (NoNode), false or a
\* schema.
SchemaNode ==
  [ref        : Nodes \cup {NoNode},
   properties : PropertyMap \cup {NoProperties},
   items      : Nodes \cup {NoNode},
   additional : Nodes \cup {NoNode, Forbidden},
   children   : Seq(Nodes),
   required   : SUBSET Names,
   types      : SUBSET Types]

Segment == Names \cup {Index}

ASSUME SchemaAssumption == Schemas \subseteq [Nodes -> SchemaNode]
ASSUME RootAssumption == Root \in Nodes /\ MetaRoot \in Nodes /\ Root # MetaRoot
ASSUME SentinelAssumption ==
  /\ NoNode \notin Nodes /\ Forbidden \notin Nodes
  /\ NoProperties \notin PropertyMap
  /\ Index \notin Names
ASSUME MaxRefsAssumption == MaxRefs \in Nat
----------------------------------------------------------------------------
(***************************************************************************)
(* resolve_ref: the chain of $ref is followed MaxRefs times; a node that   *)
(* has none is the end of it.                                              *)
(***************************************************************************)
Follow(n) == IF schema[n].ref = NoNode THEN n ELSE schema[n].ref

\* The nodes of the chain that begins with n.
Chain(n) ==
  LET chain[k \in 0 .. MaxRefs] == IF k = 0 THEN n ELSE Follow(chain[k - 1])
  IN  chain

Resolve(n) == Chain(n)[MaxRefs]

Properties(n) == IF schema[n].properties = NoProperties THEN <<>> ELSE schema[n].properties

\* A schema whose chains of $ref all end within the limit, or come back to
\* where the limit stops them.
RefsSettle == \A n \in Nodes : Resolve(Resolve(n)) = Resolve(n)

\* A schema without $ref, combinators and schemas for additional properties.
Plain ==
  \A n \in Nodes : schema[n].ref = NoNode /\ schema[n].children = <<>>
                   /\ schema[n].additional \notin Nodes
=============================================================================
