------------------------------ MODULE Validate ------------------------------
(***************************************************************************)
(* The validator of crates/k8s-lsp-schema.  A value is given by its places:*)
(* doc maps the path of every value in it to the value's type.  Keys that  *)
(* are no strings are left out, as in the code, with what is below them.   *)
(***************************************************************************)
EXTENDS JsonSchema

CONSTANTS
  Elements,  \* the segments of a value's path that lead to an element: "[0]" ...
  Docs       \* bound: the values there may be

VARIABLES
  doc,
  unchecked,  \* the values of the recursion not walked yet, with their schemas
  issues

validateVars == <<doc, unchecked, issues>>

ValueTypes == Types \cup {"null", "tagged"}
Places == Seq(Names \cup Elements)

ASSUME ElementAssumption == Elements \cap Names = {}
\* A place leads from the root through mappings by names and through sequences
\* by elements; a tagged value may hold either.
ASSUME DocAssumption ==
  \A d \in Docs :
    /\ DOMAIN d \subseteq Places /\ <<>> \in DOMAIN d
    /\ \A p \in DOMAIN d : d[p] \in ValueTypes
    /\ \A p \in DOMAIN d : \A k \in 1 .. Len(p) :
         /\ SubSeq(p, 1, k - 1) \in DOMAIN d
         /\ d[SubSeq(p, 1, k - 1)] \in {"tagged", IF p[k] \in Names THEN "object" ELSE "array"}
----------------------------------------------------------------------------
Last(p) == p[Len(p)]
Parent(p) == SubSeq(p, 1, Len(p) - 1)
MembersAt(p) == {q \in DOMAIN doc : q # <<>> /\ Parent(q) = p}

Issue(p, what) == [path |-> p, what |-> what]

\* resolve: the first combinator child that has properties takes the place of
\* the node.
ResolveCombinator(n) ==
  LET C == schema[n].children
      S == {i \in DOMAIN C : schema[C[i]].properties # NoProperties}
  IN  IF S = {} THEN n ELSE C[CHOOSE i \in S : \A j \in S : i <= j]

\* effective_properties: where the first entry of a name is looked for.
Holders(n) == <<n>> \o schema[n].children
HolderOf(n, k) ==
  LET S == {i \in DOMAIN Holders(n) : k \in DOMAIN Properties(Holders(n)[i])}
  IN  IF S = {} THEN NoNode ELSE Holders(n)[CHOOSE i \in S : \A j \in S : i <= j]

YamlType(type) == IF type = "tagged" THEN "object" ELSE type

\* Mutant: an integer is no number.
TypeFitsExactly(type, n) ==
  \/ schema[n].types = {}
  \/ YamlType(type) \in schema[n].types
  \/ type = "null"

TypeFits(type, n) ==
  \/ schema[n].types = {}
  \/ YamlType(type) \in schema[n].types
  \/ type = "integer" /\ "number" \in schema[n].types
  \/ type = "null"

TypeIssues(p, n) == IF TypeFits(doc[p], n) THEN {} ELSE {Issue(p, "type")}

\* What walk does with the fields of a mapping and with the elements of a
\* sequence.
Known(p, n) == {q \in MembersAt(p) : HolderOf(n, Last(q)) # NoNode}
FieldsToWalk(p, n) == {[path |-> q, node |-> Properties(HolderOf(n, Last(q)))[Last(q)]] : q \in Known(p, n)}
UnknownFields(p, n) ==
  IF schema[n].additional # Forbidden THEN {}
  ELSE {Issue(q, "unknown") : q \in MembersAt(p) \ Known(p, n)}
\* Mutant: a field that is null counts as missing.
MissingOrNull(p, n) ==
  {Issue(Append(p, r), "missing") :
     r \in {k \in schema[n].required : Append(p, k) \in DOMAIN doc => doc[Append(p, k)] = "null"}}

MissingFields(p, n) ==
  {Issue(Append(p, r), "missing") : r \in {k \in schema[n].required : Append(p, k) \notin DOMAIN doc}}

ElementsToWalk(p, n) ==
  IF schema[n].items = NoNode THEN {}
  ELSE {[path |-> q, node |-> schema[n].items] : q \in MembersAt(p)}

ValidateInit ==
  /\ doc \in Docs
  /\ unchecked = {[path |-> <<>>, node |-> Root]}
  /\ issues = {}

\* One call of walk.
WalkValue(u) ==
  LET p == u.path
      n == ResolveCombinator(u.node)
  IN  /\ u \in unchecked
      /\ \/ /\ doc[p] = "object"
            /\ unchecked' = (unchecked \ {u}) \cup FieldsToWalk(p, n)
            /\ issues' = issues \cup TypeIssues(p, n) \cup UnknownFields(p, n) \cup MissingFields(p, n)
         \/ /\ doc[p] = "array"
            /\ unchecked' = (unchecked \ {u}) \cup ElementsToWalk(p, n)
            /\ issues' = issues \cup TypeIssues(p, n)
         \/ /\ doc[p] \notin {"object", "array"}
            /\ unchecked' = unchecked \ {u}
            /\ issues' = issues \cup TypeIssues(p, n)
      /\ UNCHANGED <<doc, schema>>
=============================================================================
