--------------------------- MODULE SchemaRegistry ---------------------------
(***************************************************************************)
(* SchemaRegistry of crates/k8s-lsp-schema: a cache of the embedded schemas *)
(* that have been parsed and a map of the dynamic ones, each behind a lock *)
(* of its own.  A lookup holds one lock at a time and none while it        *)
(* parses, so the steps of several callers, and the insertions of the CRD  *)
(* loaders, interleave between its locked sections.                        *)
(***************************************************************************)
EXTENDS AtomicRegistry

CONSTANT Callers  \* the threads that look schemas up

VARIABLES
  cache,   \* SchemaRegistry.cache
  lookup   \* per caller: where its lookup stands and what it returns

registryVars == <<dynamic, cache, lookup>>

At(pc, k, s) == [pc |-> pc, key |-> k, schema |-> s]
NotLooking == [pc |-> "idle"]

SchemaRegistryInit ==
  /\ RegistryInit
  /\ cache = [k \in Keys |-> NoSchema]
  /\ lookup = [c \in Callers |-> NotLooking]

Continue(c, pc, s) == lookup' = [lookup EXCEPT ![c] = At(pc, @.key, s)]

StartLookup(c, k) ==
  /\ lookup[c].pc = "idle"
  /\ lookup' = [lookup EXCEPT ![c] = At("cache", k, NoSchema)]
  /\ UNCHANGED <<dynamic, cache>>

CacheHit(c) ==
  /\ lookup[c].pc = "cache"
  /\ cache[lookup[c].key] # NoSchema
  /\ Continue(c, "return", cache[lookup[c].key])
  /\ UNCHANGED <<dynamic, cache>>

\* Mutant: the dynamic schemas are asked before the embedded ones.
CacheMissToDynamic(c) ==
  /\ lookup[c].pc = "cache"
  /\ cache[lookup[c].key] = NoSchema
  /\ Continue(c, IF dynamic[lookup[c].key] = NoSchema /\ lookup[c].key \in DOMAIN Bundle
                 THEN "parse" ELSE "dynamic", NoSchema)
  /\ UNCHANGED <<dynamic, cache>>

CacheMiss(c) ==
  /\ lookup[c].pc = "cache"
  /\ cache[lookup[c].key] = NoSchema
  /\ Continue(c, IF lookup[c].key \in DOMAIN Bundle THEN "parse" ELSE "dynamic", NoSchema)
  /\ UNCHANGED <<dynamic, cache>>

\* Another caller may have put the same schema there in the meantime.
FillCache(c) ==
  /\ lookup[c].pc = "parse"
  /\ LET k == lookup[c].key
     IN  /\ Bundle[k] # NoSchema
         /\ cache' = [cache EXCEPT ![k] = Bundle[k]]
         /\ Continue(c, "return", Bundle[k])
  /\ UNCHANGED dynamic

\* None, whatever the dynamic schemas hold.
ParseFails(c) ==
  /\ lookup[c].pc = "parse"
  /\ Bundle[lookup[c].key] = NoSchema
  /\ Continue(c, "return", NoSchema)
  /\ UNCHANGED <<dynamic, cache>>

ReadDynamic(c) ==
  /\ lookup[c].pc = "dynamic"
  /\ Continue(c, "return", dynamic[lookup[c].key])
  /\ UNCHANGED <<dynamic, cache>>

ReturnSchema(c) ==
  /\ lookup[c].pc = "return"
  /\ lookup' = [lookup EXCEPT ![c] = NotLooking]
  /\ UNCHANGED <<dynamic, cache>>

InsertSchema(k, s) == InsertDynamic(k, s) /\ UNCHANGED <<cache, lookup>>

LookupStep(c) ==
  \/ \E k \in Keys : StartLookup(c, k)
  \/ CacheHit(c) \/ CacheMiss(c)
  \/ FillCache(c) \/ ParseFails(c)
  \/ ReadDynamic(c)
  \/ ReturnSchema(c)

SchemaRegistryNext ==
  \/ \E c \in Callers : LookupStep(c)
  \/ \E k \in Keys, s \in Schemas : InsertSchema(k, s)

SchemaRegistrySpec == SchemaRegistryInit /\ [][SchemaRegistryNext]_registryVars
----------------------------------------------------------------------------
(***************************************************************************)
(* A lookup that has not got its result yet is one that has asked.         *)
(***************************************************************************)
CallOf(c) ==
  CASE lookup[c].pc = "idle"   -> [state |-> "idle"]
    [] lookup[c].pc = "return" -> [state |-> "answered", key |-> lookup[c].key,
                                   schema |-> lookup[c].schema]
    [] OTHER                   -> [state |-> "asked", key |-> lookup[c].key]

Abstract == INSTANCE RegistryCalls WITH call <- [c \in Callers |-> CallOf(c)]

\* Every lookup answers as if it looked at one instant, with the embedded
\* schema where there is one and else with the dynamic one inserted last,
\* however its locked sections interleave with other lookups and loaders.
ImplementsRegistryCalls == Abstract!CallsSpec
=============================================================================
