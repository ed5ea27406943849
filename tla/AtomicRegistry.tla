--------------------------- MODULE AtomicRegistry ---------------------------
(***************************************************************************)
(* What the schema registry of crates/k8s-lsp-schema promises its callers: *)
(* a lookup answers at one instant, a built-in schema always wins over a   *)
(* dynamic one, and the last insertion of a dynamic key replaces earlier   *)
(* ones.  The parse cache of the built-in schemas is invisible here.       *)
(***************************************************************************)
CONSTANTS
  Keys,      \* the (apiVersion, kind) pairs
  Schemas,
  NoSchema,  \* lookup returned None
  Bundle     \* the schemas embedded in the binary, by key; NoSchema for a text
             \* that cannot be parsed

VARIABLE dynamic  \* SchemaRegistry.dynamic

ASSUME BundleAssumption ==
  /\ NoSchema \notin Schemas
  /\ DOMAIN Bundle \subseteq Keys
  /\ \A k \in DOMAIN Bundle : Bundle[k] \in Schemas \cup {NoSchema}

RegistryInit == dynamic = [k \in Keys |-> NoSchema]

Lookup(key) == IF key \in DOMAIN Bundle THEN Bundle[key] ELSE dynamic[key]

\* Mutant: an insertion starts a new map.
InsertFresh(key, schema) ==
  dynamic' = [k \in Keys |-> IF k = key THEN schema ELSE NoSchema]

InsertDynamic(key, schema) == dynamic' = [dynamic EXCEPT ![key] = schema]

RegistryNext == \E k \in Keys, s \in Schemas : InsertDynamic(k, s)

RegistrySpec == RegistryInit /\ [][RegistryNext]_dynamic

RegistryTypeOK == dynamic \in [Keys -> Schemas \cup {NoSchema}]
=============================================================================
