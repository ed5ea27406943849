---------------------------- MODULE MCCrdSources ----------------------------
(***************************************************************************)
(* Instances of CrdSources: a CRD of one group with two served versions, a *)
(* core one under the key of an embedded schema, files with each sort of   *)
(* document, and a file that cannot be read.                               *)
(***************************************************************************)
EXTENDS CrdSources

V(name, schema) == [name |-> name, schema |-> schema]
Crd(group, kind, versions) == [type |-> "crd", group |-> group, kind |-> kind, versions |-> versions]
Other == [type |-> "other"]
Broken == [type |-> "broken"]

MCKeys == ({<<"v1">>, <<"v2">>} \X {"Pod"}) \cup ({<<"pg", "v1">>, <<"pg", "v2">>} \X {"Cluster"})
MCSchemas == {"pod", "old", "new", "other"}
\* One of the embedded texts cannot be parsed.
MCBundle == [k \in {<<<<"v1">>, "Pod">>, <<<<"v2">>, "Pod">>} |->
               IF k = <<<<"v1">>, "Pod">> THEN "pod" ELSE NoSchema]

PgV1 == Crd("pg", "Cluster", <<V("v1", "old")>>)
PgBoth == Crd("pg", "Cluster", <<V("v1", NoSchema), V("v2", "new")>>)
Impostor == Crd(CoreGroup, "Pod", <<V("v1", "other")>>)
PgOther == Crd("pg", "Cluster", <<V("v1", "other"), V("v2", "other")>>)

MCCrds == {PgV1, PgBoth, Impostor, PgOther}
MCFileSets ==
  {<<>>,
   <<<<PgV1, Other, Impostor>>, Unreadable, <<PgBoth>>>>,
   <<<<PgBoth, Broken, PgV1>>, <<PgOther>>>>}
MCClusterLists == {<<>>, <<PgOther, Impostor>>}
=============================================================================
