---------------------------- MODULE MCLspServer ----------------------------
(***************************************************************************)
(* Instances of LspServer for TLC.  Two files, one of them a kustomization *)
(* file; five texts, chosen so that every branch over a text is taken; one *)
(* built-in schema that is certain, one CRD that both loaders may find.    *)
(***************************************************************************)
EXTENDS NameOffers

P(api, kind, ns, name) == [api |-> api, kind |-> kind, ns |-> ns, name |-> name]

BothUris == {"app", "kustomization"}
OneUri == {"app"}
MCKustomizationUris == {"kustomization"} \cap Uris
MCApiVersions == {"v1", "pg/v1", "kustomize/v1"}
MCKinds == {"ConfigMap", "Cluster", "Kustomization"}
MCNamespaces == {"prod", "test"}
MCNames == {"conf", "db"}

MCParse ==
  [t \in Texts |->
     CASE t = "config" -> <<P("v1", "ConfigMap", "test", "conf"),
                            P("v1", "ConfigMap", "test", "db"),
                            P("v1", "ConfigMap", "test", "conf"),
                            P("pg/v1", "Cluster", "prod", "db")>>
       [] t = "stream" -> <<P("v1", "ConfigMap", "prod", "conf"),
                            P("pg/v1", "Cluster", "prod", "db"),
                            P("pg/v1", "Cluster", "test", "db")>>
       [] t = "bare"   -> <<P(Absent, Absent, Absent, Absent)>>
       [] t = "blank"  -> <<>>
       [] t = "huge"   -> <<P("v1", "ConfigMap", Absent, "conf")>>]
MCOversize == {"huge"} \cap Texts

MCKeys == MCApiVersions \X MCKinds
MCSchemas == {"configmap", "kustomization", "crd", "crd2"}
MCBundle == [k \in {<<"v1", "ConfigMap">>, <<"kustomize/v1", "Kustomization">>} |->
               IF k[1] = "v1" THEN "configmap" ELSE "kustomization"]
Crd(schema) == [key |-> <<"pg/v1", "Cluster">>, schema |-> schema]
\* The file loader may also find a CRD under the key of a built-in schema.
Impostor == [key |-> <<"v1", "ConfigMap">>, schema |-> "crd2"]
MCCrdLists == [l \in Loaders |-> IF l = "cluster" THEN {<<>>, <<Crd("crd")>>}
                                 ELSE {<<Crd("crd2"), Impostor>>}]

\* The loaders never get an answer.
NoCrds == [l \in Loaders |-> {}]

MCEmptyIndex == [k \in MCKinds |-> {}]
MCIndexes ==
  {MCEmptyIndex,
   [MCEmptyIndex EXCEPT !["ConfigMap"] = {[ns |-> "prod", name |-> "conf"],
                                          [ns |-> "test", name |-> "db"]}]}
OneIndex == {MCEmptyIndex}
MCTasks == 0 .. MaxMessages

Ask(type, u, part, place) == [type |-> type, uri |-> u, part |-> part, place |-> place]
Dump == [type |-> "dumpSnapshot"]
Refresh == [type |-> "refreshCluster"]
SnapshotRequests == {Ask("completion", "app", 2, "ConfigMap"), Ask("hover", "app", 2, "field"), Dump}
AllRequests ==
  {Ask("hover", "app", 2, "field"), Ask("completion", "app", 0, "field"),
   Ask("completion", "app", 1, "plain"), Ask("completion", "app", 2, "ConfigMap"),
   Dump, Refresh}
=============================================================================
