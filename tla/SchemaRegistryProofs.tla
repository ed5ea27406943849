------------------------ MODULE SchemaRegistryProofs ------------------------
(***************************************************************************)
(* Theorems about SchemaRegistry and CrdSources, for any number of callers *)
(* and schemas and for any files and lists of CRDs: lookups in several     *)
(* locked sections answer as if each took one instant, and the loaders     *)
(* register what the CRDs define, all of it and nothing else.              *)
(***************************************************************************)
EXTENDS CrdSources, TLAPS, SequenceTheorems, WellFoundedInduction

MaybeSchemas == Schemas \cup {NoSchema}
LookupState ==
  {NotLooking} \cup [pc : {"cache", "parse", "dynamic", "return"}, key : Keys, schema : MaybeSchemas]

\* The cache holds nothing but embedded schemas, each under its own key.
CacheOfBundle ==
  \A k \in Keys : cache[k] # NoSchema => k \in DOMAIN Bundle /\ cache[k] = Bundle[k]

\* A lookup parses if and only if its key is an embedded one.
RightMap ==
  \A c \in Callers :
    /\ lookup[c].pc = "parse" => lookup[c].key \in DOMAIN Bundle
    /\ lookup[c].pc = "dynamic" => lookup[c].key \notin DOMAIN Bundle

RegistryInv ==
  /\ RegistryTypeOK
  /\ cache \in [Keys -> MaybeSchemas]
  /\ lookup \in [Callers -> LookupState]
  /\ CacheOfBundle
  /\ RightMap

\* The lookup that has come to pc, in the types.
LEMMA ContinueType ==
  ASSUME lookup \in [Callers -> LookupState], NEW c \in Callers, lookup[c].pc # "idle",
         NEW pc \in {"cache", "parse", "dynamic", "return"}, NEW s \in MaybeSchemas,
         Continue(c, pc, s)
  PROVE  /\ lookup[c].key \in Keys
         /\ lookup' \in [Callers -> LookupState]
         /\ lookup'[c] = At(pc, lookup[c].key, s)
         /\ \A d \in Callers \ {c} : lookup'[d] = lookup[d]
<1>1. lookup[c] \in LookupState /\ lookup[c] # NotLooking
  BY DEF NotLooking
<1>2. lookup[c].key \in Keys
  BY <1>1 DEF LookupState
<1>3. At(pc, lookup[c].key, s) \in LookupState
  BY <1>2 DEF At, LookupState
<1> QED
  BY <1>2, <1>3 DEF Continue

\* RegistryInv holds before the first call.
LEMMA InitInv == SchemaRegistryInit => RegistryInv
<1> SUFFICES ASSUME SchemaRegistryInit PROVE RegistryInv
  OBVIOUS
<1>1. RegistryTypeOK /\ cache \in [Keys -> MaybeSchemas] /\ CacheOfBundle
  BY DEF SchemaRegistryInit, RegistryInit, RegistryTypeOK, MaybeSchemas, CacheOfBundle
<1>2. lookup \in [Callers -> LookupState]
  BY DEF SchemaRegistryInit, LookupState
<1>3. RightMap
  BY DEF SchemaRegistryInit, RightMap, NotLooking
<1> QED
  BY <1>1, <1>2, <1>3 DEF RegistryInv

\* The steps of a lookup between its call and its return.
LEMMA SectionInv ==
  ASSUME RegistryInv, NEW c \in Callers,
         CacheHit(c) \/ CacheMiss(c) \/ FillCache(c) \/ ParseFails(c) \/ ReadDynamic(c)
  PROVE  RegistryInv'
<1> DEFINE k == lookup[c].key
<1>1. lookup[c].pc # "idle"
  BY DEF CacheHit, CacheMiss, FillCache, ParseFails, ReadDynamic
<1>2. k \in Keys
  BY <1>1 DEF RegistryInv, LookupState, NotLooking
<1>3. dynamic' = dynamic
  BY DEF CacheHit, CacheMiss, FillCache, ParseFails, ReadDynamic
<1>4. /\ dynamic[k] \in MaybeSchemas
      /\ cache[k] \in MaybeSchemas
      /\ NoSchema \in MaybeSchemas
      /\ k \in DOMAIN Bundle => Bundle[k] \in MaybeSchemas
  BY <1>2, BundleAssumption DEF RegistryInv, RegistryTypeOK, MaybeSchemas
<1>5. CASE CacheHit(c) \/ ParseFails(c) \/ ReadDynamic(c)
  <2>1. PICK s \in MaybeSchemas : Continue(c, "return", s)
    BY <1>4, <1>5 DEF CacheHit, ParseFails, ReadDynamic
  <2>2. /\ lookup' \in [Callers -> LookupState]
        /\ lookup'[c] = At("return", k, s)
        /\ \A d \in Callers \ {c} : lookup'[d] = lookup[d]
    BY <1>1, <2>1, ContinueType DEF RegistryInv
  <2>3. cache' = cache
    BY <1>5 DEF CacheHit, ParseFails, ReadDynamic
  <2>4. RightMap'
    BY <2>2 DEF RegistryInv, RightMap, At
  <2> QED
    BY <1>3, <2>2, <2>3, <2>4 DEF RegistryInv, RegistryTypeOK, CacheOfBundle
<1>6. CASE CacheMiss(c)
  <2>1. PICK pc \in {"parse", "dynamic"} :
          /\ Continue(c, pc, NoSchema)
          /\ pc = "parse" <=> k \in DOMAIN Bundle
    BY <1>6 DEF CacheMiss
  <2>2. /\ lookup' \in [Callers -> LookupState]
        /\ lookup'[c] = At(pc, k, NoSchema)
        /\ \A d \in Callers \ {c} : lookup'[d] = lookup[d]
    BY <1>1, <1>4, <2>1, ContinueType DEF RegistryInv
  <2>3. cache' = cache
    BY <1>6 DEF CacheMiss
  <2>4. RightMap'
    BY <2>1, <2>2 DEF RegistryInv, RightMap, At
  <2> QED
    BY <1>3, <2>2, <2>3, <2>4 DEF RegistryInv, RegistryTypeOK, CacheOfBundle
<1>7. CASE FillCache(c)
  <2>1. k \in DOMAIN Bundle
    BY <1>7 DEF FillCache, RegistryInv, RightMap
  <2>2. /\ lookup' \in [Callers -> LookupState]
        /\ lookup'[c] = At("return", k, Bundle[k])
        /\ \A d \in Callers \ {c} : lookup'[d] = lookup[d]
    BY <1>1, <1>4, <1>7, <2>1, ContinueType DEF RegistryInv, FillCache
  <2>3. cache' = [cache EXCEPT ![k] = Bundle[k]]
    BY <1>7 DEF FillCache
  <2>4. cache' \in [Keys -> MaybeSchemas] /\ CacheOfBundle'
    BY <1>2, <1>4, <2>1, <2>3 DEF RegistryInv, CacheOfBundle
  <2>5. RightMap'
    BY <2>2 DEF RegistryInv, RightMap, At
  <2> QED
    BY <1>3, <2>2, <2>4, <2>5 DEF RegistryInv, RegistryTypeOK
<1> QED
  BY <1>5, <1>6, <1>7

\* Every step preserves RegistryInv.
LEMMA NextInv == RegistryInv /\ [SchemaRegistryNext]_registryVars => RegistryInv'
<1> SUFFICES ASSUME RegistryInv, [SchemaRegistryNext]_registryVars PROVE RegistryInv'
  OBVIOUS
<1>1. ASSUME NEW c \in Callers, NEW k \in Keys, StartLookup(c, k) PROVE RegistryInv'
  <2>1. At("cache", k, NoSchema) \in LookupState
    BY DEF At, LookupState, MaybeSchemas
  <2>2. /\ lookup' \in [Callers -> LookupState]
        /\ lookup'[c] = At("cache", k, NoSchema)
        /\ \A d \in Callers \ {c} : lookup'[d] = lookup[d]
    BY <1>1, <2>1 DEF StartLookup, RegistryInv
  <2>3. RightMap'
    BY <2>2 DEF RegistryInv, RightMap, At
  <2> QED
    BY <1>1, <2>2, <2>3 DEF StartLookup, RegistryInv, RegistryTypeOK, CacheOfBundle
<1>2. ASSUME NEW c \in Callers, ReturnSchema(c) PROVE RegistryInv'
  <2>1. /\ lookup' \in [Callers -> LookupState]
        /\ lookup'[c] = NotLooking
        /\ \A d \in Callers \ {c} : lookup'[d] = lookup[d]
    BY <1>2 DEF ReturnSchema, RegistryInv, LookupState
  <2>2. RightMap'
    BY <2>1 DEF RegistryInv, RightMap, NotLooking
  <2> QED
    BY <1>2, <2>1, <2>2 DEF ReturnSchema, RegistryInv, RegistryTypeOK, CacheOfBundle
<1>3. ASSUME NEW k \in Keys, NEW s \in Schemas, InsertSchema(k, s) PROVE RegistryInv'
  BY <1>3 DEF InsertSchema, InsertDynamic, RegistryInv, RegistryTypeOK, CacheOfBundle, RightMap
<1>4. CASE UNCHANGED registryVars
  BY <1>4 DEF registryVars, RegistryInv, RegistryTypeOK, CacheOfBundle, RightMap
<1> QED
  BY <1>1, <1>2, <1>3, <1>4, SectionInv DEF SchemaRegistryNext, LookupStep

\* The cache never holds anything but the embedded schemas.
THEOREM Consistent == SchemaRegistrySpec => []RegistryInv
<1> QED
  BY InitInv, NextInv, PTL DEF SchemaRegistrySpec

(***************************************************************************)
(* The refinement.                                                         *)
(***************************************************************************)
Calls == [c \in Callers |-> CallOf(c)]

\* A step of one caller changes the abstract call of that caller only.
LEMMA CallsStep ==
  ASSUME NEW c \in Callers, \A d \in Callers \ {c} : lookup'[d] = lookup[d]
  PROVE  Calls' = [Calls EXCEPT ![c] = CallOf(c)']
BY DEF Calls, CallOf

\* A lookup that answers now answers what AtomicRegistry would.
LEMMA AnswersLookup ==
  ASSUME RegistryInv, NEW c \in Callers,
         CacheHit(c) \/ FillCache(c) \/ ParseFails(c) \/ ReadDynamic(c)
  PROVE  lookup'[c] = At("return", lookup[c].key, Lookup(lookup[c].key))
<1> DEFINE k == lookup[c].key
<1>1. lookup[c].pc # "idle" /\ lookup[c] \in LookupState
  BY DEF CacheHit, FillCache, ParseFails, ReadDynamic, RegistryInv
<1>2. k \in Keys
  BY <1>1 DEF LookupState, NotLooking
<1>3. PICK s : Continue(c, "return", s) /\ s = Lookup(k)
  <2>1. CASE CacheHit(c)
    BY <1>2, <2>1 DEF CacheHit, RegistryInv, CacheOfBundle, Lookup
  <2>2. CASE FillCache(c)
    BY <2>2 DEF FillCache, RegistryInv, RightMap, Lookup
  <2>3. CASE ParseFails(c)
    BY <2>3 DEF ParseFails, RegistryInv, RightMap, Lookup
  <2>4. CASE ReadDynamic(c)
    BY <2>4 DEF ReadDynamic, RegistryInv, RightMap, Lookup
  <2> QED
    BY <2>1, <2>2, <2>3, <2>4
<1> QED
  BY <1>3 DEF Continue, RegistryInv

\* The initial states map to initial states.
LEMMA AbstractInit == SchemaRegistryInit => Abstract!CallsInit
BY DEF SchemaRegistryInit, Abstract!CallsInit, RegistryInit, Abstract!RegistryInit, CallOf,
       NotLooking, Abstract!NoCall

\* Every step maps to a step of RegistryCalls or leaves it unchanged.
LEMMA AbstractNext ==
  ASSUME RegistryInv, [SchemaRegistryNext]_registryVars
  PROVE  Abstract!CallsNext \/ UNCHANGED <<dynamic, Calls>>
<1>1. ASSUME NEW c \in Callers, NEW k \in Keys, StartLookup(c, k)
      PROVE  Abstract!Ask(c, k)
  <2>1. lookup'[c] = At("cache", k, NoSchema) /\ \A d \in Callers \ {c} : lookup'[d] = lookup[d]
    BY <1>1 DEF StartLookup, RegistryInv
  <2>2. Calls' = [Calls EXCEPT ![c] = CallOf(c)']
    BY <2>1, CallsStep
  <2>3. CallOf(c)' = [state |-> "asked", key |-> k]
    BY <2>1 DEF CallOf, At
  <2>4. Calls[c] = [state |-> "idle"]
    BY <1>1 DEF StartLookup, Calls, CallOf
  <2> QED
    BY <1>1, <2>2, <2>3, <2>4
    DEF StartLookup, Abstract!Ask, Abstract!Asked, Abstract!NoCall, Calls
<1>2. ASSUME NEW c \in Callers, CacheMiss(c)
      PROVE  UNCHANGED <<dynamic, Calls>>
  <2>1. PICK pc \in {"parse", "dynamic"} : lookup'[c] = At(pc, lookup[c].key, NoSchema)
    BY <1>2 DEF CacheMiss, Continue, RegistryInv
  <2>2. CallOf(c)' = CallOf(c)
    BY <1>2, <2>1 DEF CallOf, At, CacheMiss
  <2>3. \A d \in Callers \ {c} : lookup'[d] = lookup[d]
    BY <1>2 DEF CacheMiss, Continue, RegistryInv
  <2> QED
    BY <1>2, <2>2, <2>3, CallsStep DEF CacheMiss, Calls
<1>3. ASSUME NEW c \in Callers,
             CacheHit(c) \/ FillCache(c) \/ ParseFails(c) \/ ReadDynamic(c)
      PROVE  Abstract!Answer(c)
  <2> DEFINE k == lookup[c].key
  <2>1. lookup'[c] = At("return", k, Lookup(k))
    BY <1>3, AnswersLookup
  <2>2. \A d \in Callers \ {c} : lookup'[d] = lookup[d]
    BY <1>3 DEF CacheHit, FillCache, ParseFails, ReadDynamic, Continue, RegistryInv
  <2>3. CallOf(c)' = [state |-> "answered", key |-> k, schema |-> Lookup(k)]
    BY <2>1 DEF CallOf, At
  <2>4. Calls[c] = [state |-> "asked", key |-> k]
    BY <1>3 DEF CacheHit, FillCache, ParseFails, ReadDynamic, Calls, CallOf
  <2>5. Abstract!Lookup(k) = Lookup(k)
    BY DEF Lookup, Abstract!Lookup
  <2>6. dynamic' = dynamic
    BY <1>3 DEF CacheHit, FillCache, ParseFails, ReadDynamic
  <2> QED
    BY <2>2, <2>3, <2>4, <2>5, <2>6, CallsStep
    DEF Abstract!Answer, Abstract!AnsweredWith, Calls
<1>4. ASSUME NEW c \in Callers, ReturnSchema(c)
      PROVE  Abstract!Return(c)
  <2>1. lookup'[c] = NotLooking /\ \A d \in Callers \ {c} : lookup'[d] = lookup[d]
    BY <1>4 DEF ReturnSchema, RegistryInv
  <2>2. CallOf(c)' = [state |-> "idle"]
    BY <2>1 DEF CallOf, NotLooking
  <2>3. Calls[c].state = "answered"
    BY <1>4 DEF ReturnSchema, Calls, CallOf
  <2> QED
    BY <1>4, <2>1, <2>2, <2>3, CallsStep
    DEF ReturnSchema, Abstract!Return, Abstract!NoCall, Calls
<1>5. ASSUME NEW k \in Keys, NEW s \in Schemas, InsertSchema(k, s)
      PROVE  Abstract!Insert(k, s)
  BY <1>5 DEF InsertSchema, InsertDynamic, Abstract!Insert, Abstract!InsertDynamic, CallOf
<1>6. CASE UNCHANGED registryVars
  BY <1>6 DEF registryVars, Calls, CallOf
<1> QED
  BY <1>1, <1>2, <1>3, <1>4, <1>5, <1>6
  DEF SchemaRegistryNext, LookupStep, Abstract!CallsNext

\* Lookups and insertions of any number of threads take effect at one instant
\* each: the embedded schema always wins, and the last insertion else.
THEOREM Implements == SchemaRegistrySpec => ImplementsRegistryCalls
<1>1. RegistryInv /\ [SchemaRegistryNext]_registryVars => [Abstract!CallsNext]_<<dynamic, Calls>>
  BY AbstractNext
<1> QED
  BY <1>1, AbstractInit, Consistent, PTL
  DEF SchemaRegistrySpec, ImplementsRegistryCalls, Abstract!CallsSpec, Calls

(***************************************************************************)
(* Loops over a list.                                                      *)
(***************************************************************************)
\* A set of natural numbers has a least member.
LEMMA LeastMember ==
  ASSUME NEW S \in SUBSET Nat, S # {}
  PROVE  \E i \in S : \A j \in S : i <= j
<1>1. PICK i \in S : \A j \in S : ~ (<<j, i>> \in OpToRel(<, Nat))
  BY NatLessThanWellFounded, WFMin
<1>2. ASSUME NEW j \in S
      PROVE  i <= j
  <2>1. j < i => <<j, i>> \in OpToRel(<, Nat)
    BY DEF OpToRel
  <2>2. ~ (j < i)
    BY <1>1, <2>1, Zenon
  <2> QED
    BY <2>2
<1> QED
  BY <1>2

\* Places that hold the first and with each the next one are all there are.
LEMMA AllPlaces ==
  ASSUME NEW n \in Nat, NEW S, 0 \in S, \A i \in 1 .. n : i - 1 \in S => i \in S
  PROVE  0 .. n \subseteq S
<1> DEFINE Without == (0 .. n) \ S
<1>1. SUFFICES ASSUME Without # {} PROVE FALSE
  OBVIOUS
<1>2. PICK m \in Without : \A j \in Without : m <= j
  <2>1. Without \in SUBSET Nat
    OBVIOUS
  <2> HIDE DEF Without
  <2> QED
    BY <1>1, <2>1, LeastMember
<1>3. m \in 1 .. n /\ m - 1 \in 0 .. n /\ ~ (m <= m - 1)
  BY <1>2
<1>4. m - 1 \in S
  BY <1>2, <1>3
<1> QED
  BY <1>2, <1>3, <1>4

\* g is what a loop of n rounds has gathered before and after each round.
IsLoop(g, n, start, Round) == g = [i \in 0 .. n |-> IF i = 0 THEN start ELSE Round[i][g[i - 1]]]

\* A loop ends, with a value of its type after each round.
LEMMA LoopEnds ==
  ASSUME NEW n \in Nat, NEW T, NEW start \in T, NEW Round \in [1 .. n -> [T -> T]]
  PROVE  \E g \in [0 .. n -> T] : IsLoop(g, n, start, Round)
<1> DEFINE Runs(g, k) == /\ g \in [0 .. k -> T] /\ g[0] = start
                         /\ \A i \in 1 .. k : g[i] = Round[i][g[i - 1]]
<1> DEFINE Good == {k \in 0 .. n : \E g : Runs(g, k)}
<1>1. 0 \in Good
  <2>1. PICK g : g = [i \in 0 .. 0 |-> start]
    OBVIOUS
  <2>2. Runs(g, 0)
    BY <2>1
  <2> HIDE DEF Runs
  <2> QED
    BY <2>2
<1>2. ASSUME NEW k \in 1 .. n, k - 1 \in Good
      PROVE  k \in Good
  <2>1. PICK g : Runs(g, k - 1)
    BY <1>2
  <2> DEFINE h == [i \in 0 .. k |-> IF i = k THEN Round[k][g[k - 1]] ELSE g[i]]
  <2>2. g[k - 1] \in T /\ Round[k] \in [T -> T]
    BY <2>1
  <2>3. Round[k][g[k - 1]] \in T
    BY <2>2
  <2>4. h \in [0 .. k -> T]
    BY <2>1, <2>3
  <2>5. h[0] = start
    BY <2>1
  <2>6. ASSUME NEW i \in 1 .. k PROVE h[i] = Round[i][h[i - 1]]
    BY <2>1
  <2>7. Runs(h, k)
    BY <2>4, <2>5, <2>6
  <2> HIDE DEF Runs, h
  <2> QED
    BY <2>7
<1>3. n \in Good
  <2> HIDE DEF Good
  <2>1. 0 .. n \subseteq Good
    BY <1>1, <1>2, AllPlaces
  <2> QED
    BY <2>1
<1>4. PICK g : Runs(g, n)
  BY <1>3
<1>5. g = [i \in 0 .. n |-> IF i = 0 THEN start ELSE Round[i][g[i - 1]]]
  BY <1>4
<1> QED
  BY <1>4, <1>5 DEF IsLoop

(***************************************************************************)
(* The schemas of a CRD and of a list of CRDs.                             *)
(***************************************************************************)
Entry == [key : Keys, schema : Schemas]

\* Appending adds one member.
LEMMA AppendedSet ==
  ASSUME NEW S, NEW s \in Seq(S), NEW e \in S
  PROVE  Append(s, e) \in Seq(S) /\ ToSet(Append(s, e)) = ToSet(s) \cup {e}
<1>1. /\ Len(s) \in Nat /\ DOMAIN s = 1 .. Len(s)
      /\ Append(s, e) \in Seq(S) /\ DOMAIN Append(s, e) = 1 .. Len(s) + 1
      /\ \A i \in 1 .. Len(s) : Append(s, e)[i] = s[i]
      /\ Append(s, e)[Len(s) + 1] = e
  BY AppendProperties, LenProperties
<1> QED
  BY <1>1 DEF ToSet

\* Concatenation has the members of both lists.
LEMMA ConcatenatedSet ==
  ASSUME NEW S, NEW s \in Seq(S), NEW t \in Seq(S)
  PROVE  s \o t \in Seq(S) /\ ToSet(s \o t) = ToSet(s) \cup ToSet(t)
<1>1. /\ Len(s) \in Nat /\ DOMAIN s = 1 .. Len(s) /\ Len(t) \in Nat /\ DOMAIN t = 1 .. Len(t)
      /\ s \o t \in Seq(S) /\ DOMAIN (s \o t) = 1 .. Len(s) + Len(t)
      /\ \A i \in 1 .. Len(s) + Len(t) : (s \o t)[i] = IF i <= Len(s) THEN s[i] ELSE t[i - Len(s)]
  BY ConcatProperties, LenProperties
<1>2. ToSet(s \o t) \subseteq ToSet(s) \cup ToSet(t)
  BY <1>1 DEF ToSet
<1>3. ToSet(s) \subseteq ToSet(s \o t)
  BY <1>1 DEF ToSet
<1>4. ASSUME NEW i \in 1 .. Len(t)
      PROVE  t[i] \in ToSet(s \o t)
  <2>1. i + Len(s) \in 1 .. Len(s) + Len(t) /\ (s \o t)[i + Len(s)] = t[i]
    BY <1>1
  <2> QED
    BY <1>1, <2>1 DEF ToSet
<1> QED
  BY <1>1, <1>2, <1>3, <1>4 DEF ToSet

\* The members of a concatenation, each in its place.
Joined(s, t, n, m) ==
  /\ DOMAIN s = 1 .. n /\ DOMAIN t = 1 .. m /\ DOMAIN (s \o t) = 1 .. n + m
  /\ \A i \in 1 .. n : (s \o t)[i] = s[i]
  /\ \A i \in 1 .. m : (s \o t)[n + i] = t[i]
LEMMA ConcatenatedAt ==
  ASSUME NEW S, NEW s \in Seq(S), NEW t \in Seq(S)
  PROVE  \E n \in Nat, m \in Nat : Joined(s, t, n, m)
<1>1. PICK n \in Nat : n = Len(s)
  BY LenProperties
<1>2. PICK m \in Nat : m = Len(t)
  BY LenProperties
<1>3. /\ DOMAIN s = 1 .. n /\ DOMAIN t = 1 .. m /\ DOMAIN (s \o t) = 1 .. n + m
      /\ \A i \in 1 .. n + m : (s \o t)[i] = IF i <= n THEN s[i] ELSE t[i - n]
  BY <1>1, <1>2, LenProperties, ConcatProperties
<1>4. ASSUME NEW i \in 1 .. m
      PROVE  (s \o t)[n + i] = t[i]
  <2>1. n + i \in 1 .. n + m /\ ~(n + i <= n) /\ n + i - n = i
    OBVIOUS
  <2> QED
    BY <1>3, <2>1
<1>5. ASSUME NEW i \in 1 .. n
      PROVE  (s \o t)[i] = s[i]
  BY <1>3
<1>6. Joined(s, t, n, m)
  BY <1>3, <1>4, <1>5 DEF Joined
<1> QED
  BY <1>6

\* The versions of a CRD that have a schema, under their keys.
LEMMA VersionEntry ==
  ASSUME NEW crd \in Crds
  PROVE  /\ crd.type = "crd" /\ crd.versions \in Seq(Version)
         /\ Len(crd.versions) \in Nat /\ DOMAIN crd.versions = 1 .. Len(crd.versions)
         /\ \A i \in 1 .. Len(crd.versions) :
              crd.versions[i].schema # NoSchema => EntryOf(crd, crd.versions[i]) \in Entry
<1>1. crd.type = "crd" /\ crd.versions \in Seq(Version)
  BY CrdAssumption
<1>2. Len(crd.versions) \in Nat /\ DOMAIN crd.versions = 1 .. Len(crd.versions)
  BY <1>1, LenProperties
<1>3. ASSUME NEW i \in 1 .. Len(crd.versions), crd.versions[i].schema # NoSchema
      PROVE  EntryOf(crd, crd.versions[i]) \in Entry
  <2>1. crd.versions[i] \in Version
    BY <1>1, ElementOfSeq
  <2>2. crd.versions[i] \in ToSet(crd.versions)
    BY <1>2 DEF ToSet
  <2>3. <<ApiVersion(crd.group, crd.versions[i].name), crd.kind>> \in Keys
    BY <2>2, CrdAssumption
  <2> QED
    BY <1>3, <2>1, <2>3 DEF Version, Entry, EntryOf
<1> QED
  BY <1>1, <1>2, <1>3

\* What is gathered from a CRD is what it defines.
LEMMA FlattenDefines ==
  ASSUME NEW crd \in Crds
  PROVE  Flatten(crd) \in Seq(Entry) /\ ToSet(Flatten(crd)) = Definitions(crd)
<1> DEFINE v == crd.versions
           n == Len(v)
           R(g) == [i \in 0 .. n |-> IF i = 0 THEN <<>>
                                     ELSE IF v[i].schema = NoSchema THEN g[i - 1]
                                     ELSE Append(g[i - 1], EntryOf(crd, v[i]))]
           Round == [i \in 1 .. n |-> [s \in Seq(Entry) |->
                       IF v[i].schema = NoSchema THEN s ELSE Append(s, EntryOf(crd, v[i]))]]
           out == CHOOSE g : g = R(g)
<1>1. Flatten(crd) = out[n]
  BY DEF Flatten
<1>2. n \in Nat /\ \A i \in 1 .. n : v[i].schema # NoSchema => EntryOf(crd, v[i]) \in Entry
  BY VersionEntry
<1>3. out = R(out)
  <2>1. Round \in [1 .. n -> [Seq(Entry) -> Seq(Entry)]]
    BY <1>2, AppendedSet
  <2>2. <<>> \in Seq(Entry)
    OBVIOUS
  <2>3. PICK g \in [0 .. n -> Seq(Entry)] : IsLoop(g, n, <<>>, Round)
    <3> HIDE DEF Round, n
    <3> QED
      BY <1>2, <2>1, <2>2, LoopEnds
  <2>4. g = R(g)
    <3>1. ASSUME NEW i \in 1 .. n
          PROVE  Round[i][g[i - 1]] = IF v[i].schema = NoSchema THEN g[i - 1]
                                      ELSE Append(g[i - 1], EntryOf(crd, v[i]))
      <4>1. g[i - 1] \in Seq(Entry)
        BY <1>2
      <4> QED
        BY <4>1
    <3> HIDE DEF Round, n, v
    <3>2. g = [i \in 0 .. n |-> IF i = 0 THEN <<>> ELSE Round[i][g[i - 1]]]
      BY <2>3 DEF IsLoop
    <3>3. \A i \in 0 .. n : i = 0 \/ i \in 1 .. n
      BY <1>2
    <3> QED
      BY <3>1, <3>2, <3>3
  <2> QED
    BY <2>4
<1> DEFINE Defined(i) == {EntryOf(crd, v[j]) : j \in {k \in 1 .. i : v[k].schema # NoSchema}}
           Good == {i \in 0 .. n : out[i] \in Seq(Entry) /\ ToSet(out[i]) = Defined(i)}
<1> HIDE DEF out
<1>4. 0 \in Good
  <2>1. out[0] = <<>>
    BY <1>2, <1>3
  <2>2. 0 \in 0 .. n /\ ToSet(<<>>) = {} /\ Defined(0) = {} /\ <<>> \in Seq(Entry)
    BY <1>2 DEF ToSet
  <2> QED
    BY <2>1, <2>2
<1>5. ASSUME NEW i \in 1 .. n, i - 1 \in Good
      PROVE  i \in Good
  <2>1. out[i] = IF v[i].schema = NoSchema THEN out[i - 1] ELSE Append(out[i - 1], EntryOf(crd, v[i]))
    <3>1. i \in 0 .. n /\ i # 0
      BY <1>2
    <3> HIDE DEF n, v
    <3> QED
      BY <1>3, <3>1
  <2>2. Defined(i) = Defined(i - 1) \cup (IF v[i].schema = NoSchema THEN {} ELSE {EntryOf(crd, v[i])})
    BY <1>2
  <2>3. out[i] \in Seq(Entry) /\ ToSet(out[i]) = Defined(i)
    <3>1. CASE v[i].schema = NoSchema
      BY <1>5, <2>1, <2>2, <3>1
    <3>2. CASE v[i].schema # NoSchema
      <4>1. EntryOf(crd, v[i]) \in Entry
        BY <1>2, <3>2
      <4> HIDE DEF Defined
      <4> QED
        BY <1>5, <2>1, <2>2, <3>2, <4>1, AppendedSet
    <3> QED
      BY <3>1, <3>2
  <2> QED
    BY <1>2, <2>3
<1>6. n \in Good
  <2> HIDE DEF Good, n
  <2>1. 0 .. n \subseteq Good
    BY <1>2, <1>4, <1>5, AllPlaces
  <2> QED
    BY <1>2, <2>1
<1>7. Defined(n) = Definitions(crd)
  BY VersionEntry DEF Definitions, EntryOf, ToSet
<1> QED
  BY <1>1, <1>6, <1>7

\* What is gathered from a list is what its CRDs define.
LEMMA FlattenAllDefines ==
  ASSUME NEW list \in Seq(Crds)
  PROVE  /\ FlattenAll(list) \in Seq(Entry)
         /\ ToSet(FlattenAll(list)) = UNION {Definitions(list[i]) : i \in DOMAIN list}
<1> DEFINE n == Len(list)
           R(g) == [i \in 0 .. n |-> IF i = 0 THEN <<>> ELSE g[i - 1] \o Flatten(list[i])]
           Round == [i \in 1 .. n |-> [s \in Seq(Entry) |-> s \o Flatten(list[i])]]
           out == CHOOSE g : g = R(g)
<1>1. FlattenAll(list) = out[n]
  BY DEF FlattenAll
<1>2. n \in Nat /\ DOMAIN list = 1 .. n /\ \A i \in 1 .. n : list[i] \in Crds
  BY LenProperties, ElementOfSeq
<1>3. \A i \in 1 .. n : Flatten(list[i]) \in Seq(Entry) /\ ToSet(Flatten(list[i])) = Definitions(list[i])
  BY <1>2, FlattenDefines
<1>4. out = R(out)
  <2>1. Round \in [1 .. n -> [Seq(Entry) -> Seq(Entry)]]
    BY <1>3, ConcatenatedSet
  <2>2. <<>> \in Seq(Entry)
    OBVIOUS
  <2>3. PICK g \in [0 .. n -> Seq(Entry)] : IsLoop(g, n, <<>>, Round)
    <3> HIDE DEF Round, n
    <3> QED
      BY <1>2, <2>1, <2>2, LoopEnds
  <2>4. g = R(g)
    <3>1. ASSUME NEW i \in 1 .. n
          PROVE  Round[i][g[i - 1]] = g[i - 1] \o Flatten(list[i])
      <4>1. g[i - 1] \in Seq(Entry)
        BY <1>2
      <4> QED
        BY <4>1
    <3> QED
      BY <2>3, <3>1 DEF IsLoop
  <2> QED
    BY <2>4
<1> DEFINE Defined(i) == UNION {Definitions(list[j]) : j \in 1 .. i}
           Good == {i \in 0 .. n : out[i] \in Seq(Entry) /\ ToSet(out[i]) = Defined(i)}
<1> HIDE DEF out
<1>5. 0 \in Good
  <2>1. out[0] = <<>>
    BY <1>2, <1>4
  <2>2. 0 \in 0 .. n /\ ToSet(<<>>) = {} /\ Defined(0) = {} /\ <<>> \in Seq(Entry)
    BY <1>2 DEF ToSet
  <2> QED
    BY <2>1, <2>2
<1>6. ASSUME NEW i \in 1 .. n, i - 1 \in Good
      PROVE  i \in Good
  <2>1. out[i] = out[i - 1] \o Flatten(list[i])
    BY <1>2, <1>4
  <2>2. Defined(i) = Defined(i - 1) \cup Definitions(list[i])
    BY <1>2
  <2>3. out[i] \in Seq(Entry) /\ ToSet(out[i]) = Defined(i)
    <3> HIDE DEF Defined
    <3> QED
      BY <1>3, <1>6, <2>1, <2>2, ConcatenatedSet
  <2> QED
    BY <1>2, <2>3
<1>7. n \in Good
  <2> HIDE DEF Good, n
  <2>1. 0 .. n \subseteq Good
    BY <1>2, <1>5, <1>6, AllPlaces
  <2> QED
    BY <1>2, <2>1
<1> QED
  BY <1>1, <1>2, <1>7

(***************************************************************************)
(* The loaders.                                                            *)
(***************************************************************************)
FileContents == {Unreadable} \cup Seq(Document)
FilesState ==
  [pc : {"reading", "inserting", "done"}, paths : Seq(FileContents), docs : Seq(Document), found : Seq(Entry)]
CrdsState == [pc : {"connecting", "listing", "inserting", "done"}, found : Seq(Entry)]

LoaderTypes ==
  /\ RegistryTypeOK
  /\ contents \in Seq(FileContents)
  /\ files \in FilesState
  /\ crds \in CrdsState
  /\ listed \in Seq(Crds)
  /\ crds.pc \in {"connecting", "listing"} => listed = <<>>

\* How many files the loader has taken; the last of them may be half read.
FilesTaken == Len(contents) - Len(files.paths)
DocsLeft == Len(files.docs)
Taken(p) == p[1] < FilesTaken \/ (p[1] = FilesTaken /\ p[2] <= Len(contents[p[1]]) - DocsLeft)

\* What is left to read is the end of what the files hold.
Position ==
  /\ FilesTaken \in Nat
  /\ \A i \in 1 .. Len(files.paths) : files.paths[i] = contents[FilesTaken + i]
  /\ files.docs # <<>> =>
       /\ FilesTaken >= 1 /\ contents[FilesTaken] # Unreadable
       /\ DocsLeft <= Len(contents[FilesTaken])
       /\ \A i \in 1 .. DocsLeft :
            files.docs[i] = contents[FilesTaken][Len(contents[FilesTaken]) - DocsLeft + i]
  /\ files.pc # "reading" => files.paths = <<>> /\ files.docs = <<>>
  /\ files.pc = "done" => files.found = <<>>

\* What is registered, or gathered to be, is defined by a CRD.
InFiles == UNION {Definitions(CrdAt(p)) : p \in FileCrds}
FromCrds ==
  /\ ToSet(files.found) \subseteq InFiles
  /\ ToSet(crds.found) \subseteq Listed
  /\ OnlyDefinedSchemas

\* What the CRD at p and those read after it define.
NotBefore(p) ==
  Definitions(CrdAt(p)) \cup UNION {Definitions(CrdAt(q)) : q \in {r \in FileCrds : ReadBefore(p, r)}}

\* e, which the CRD at p defines, waits to be inserted, and nothing behind it
\* is of an earlier CRD;
Waits(p, e) ==
  \E i \in DOMAIN files.found :
    files.found[i] = e /\ \A j \in DOMAIN files.found : i <= j => files.found[j] \in NotBefore(p)

\* or it has been inserted, and nothing of an earlier CRD comes after it.
Entered(p, e) ==
  /\ \E other \in Listed \cup NotBefore(p) : other.key = e.key /\ dynamic[e.key] = other.schema
  /\ ToSet(files.found) \subseteq NotBefore(p)

Kept ==
  \A p \in FileCrds : Sound(p) /\ Taken(p) =>
    \A e \in Definitions(CrdAt(p)) : Waits(p, e) \/ Entered(p, e)

LoaderInv == LoaderTypes /\ Position /\ FromCrds /\ Kept

\* Taking the head off a list.
LEMMA TakeHead ==
  ASSUME NEW S, NEW s \in Seq(S), s # <<>>
  PROVE  /\ Len(s) \in Nat \ {0} /\ Head(s) = s[1] /\ Head(s) \in S
         /\ DOMAIN s = 1 .. Len(s) /\ DOMAIN Tail(s) = 1 .. Len(s) - 1
         /\ Tail(s) \in Seq(S) /\ Len(Tail(s)) = Len(s) - 1
         /\ \A i \in 1 .. Len(s) - 1 : Tail(s)[i] = s[i + 1]
         /\ ToSet(s) = {Head(s)} \cup ToSet(Tail(s))
<1>1. /\ Len(s) \in Nat \ {0} /\ Head(s) \in S /\ Tail(s) \in Seq(S)
      /\ Head(s) = s[1] /\ Len(Tail(s)) = Len(s) - 1
      /\ \A i \in 1 .. Len(s) - 1 : Tail(s)[i] = s[i + 1]
      /\ DOMAIN s = 1 .. Len(s)
  BY HeadTailProperties, EmptySeq, LenProperties
<1>2. DOMAIN Tail(s) = 1 .. Len(s) - 1
  BY <1>1, LenProperties
<1>3. ASSUME NEW i \in 1 .. Len(s)
      PROVE  s[i] \in {Head(s)} \cup ToSet(Tail(s))
  <2>1. CASE i = 1
    BY <1>1, <2>1
  <2>2. CASE i # 1
    <3>1. i - 1 \in 1 .. Len(s) - 1 /\ Tail(s)[i - 1] = s[i]
      BY <1>1, <2>2
    <3> QED
      BY <1>2, <3>1 DEF ToSet
  <2> QED
    BY <2>1, <2>2
<1>4. ASSUME NEW i \in 1 .. Len(s) - 1
      PROVE  Tail(s)[i] \in ToSet(s)
  <2>1. i + 1 \in 1 .. Len(s)
    BY <1>1
  <2> QED
    BY <1>1, <2>1 DEF ToSet
<1>5. s[1] \in ToSet(s)
  BY <1>1 DEF ToSet
<1>6. ToSet(s) = {Head(s)} \cup ToSet(Tail(s))
  BY <1>1, <1>2, <1>3, <1>4, <1>5 DEF ToSet
<1> QED
  BY <1>1, <1>2, <1>6

\* A CRD of a file has its place in it.
LEMMA CrdPlace ==
  ASSUME LoaderTypes, NEW p \in FileCrds
  PROVE  /\ Len(contents) \in Nat /\ p[1] \in 1 .. Len(contents)
         /\ contents[p[1]] # Unreadable /\ contents[p[1]] \in Seq(Document)
         /\ Len(contents[p[1]]) \in Nat /\ p[2] \in 1 .. Len(contents[p[1]])
         /\ CrdAt(p) \in Crds
         /\ p = <<p[1], p[2]>>
<1>1. PICK f \in DOMAIN contents : contents[f] # Unreadable /\ p \in {f} \X DOMAIN contents[f]
  BY DEF FileCrds
<1>2. Len(contents) \in Nat /\ DOMAIN contents = 1 .. Len(contents)
  BY LenProperties DEF LoaderTypes
<1>3. contents[f] \in FileContents
  BY <1>2, ElementOfSeq DEF LoaderTypes
<1>4. contents[f] \in Seq(Document)
  BY <1>1, <1>3 DEF FileContents
<1>5. Len(contents[f]) \in Nat /\ DOMAIN contents[f] = 1 .. Len(contents[f])
  BY <1>4, LenProperties
<1>6. p[1] = f /\ p[2] \in 1 .. Len(contents[f]) /\ p = <<p[1], p[2]>>
  BY <1>1, <1>5
<1>7. CrdAt(p) \in Document
  BY <1>4, <1>6, ElementOfSeq DEF CrdAt
<1>8. CrdAt(p).type = "crd"
  BY DEF FileCrds, CrdAt, IsCrd
<1>9. CrdAt(p) \in Crds
  BY <1>7, <1>8 DEF Document
<1> QED
  BY <1>1, <1>2, <1>4, <1>5, <1>6, <1>9

\* What is gathered, and what the files and the cluster hold, has its types.
LEMMA DefinedEntries ==
  ASSUME NEW crd \in Crds
  PROVE  Definitions(crd) \subseteq Entry
<1>1. Flatten(crd) \in Seq(Entry) /\ ToSet(Flatten(crd)) = Definitions(crd)
  BY FlattenDefines
<1> QED
  BY <1>1, ElementOfSeq, LenProperties DEF ToSet

\* The loaders have nothing yet.
LEMMA LoaderInit == Init => LoaderInv
<1> SUFFICES ASSUME Init PROVE LoaderInv
  OBVIOUS
<1>1. contents \in Seq(FileContents) /\ Len(contents) \in Nat
  BY SourceAssumption, LenProperties DEF Init, FileContents
<1>2. <<>> \in Seq(Document) /\ <<>> \in Seq(Entry) /\ <<>> \in Seq(Crds) /\ Len(<<>>) = 0
      /\ ToSet(<<>>) = {}
  BY DEF ToSet
<1>3. LoaderTypes
  BY <1>1, <1>2 DEF Init, SchemaRegistryInit, RegistryInit, LoaderTypes, RegistryTypeOK, FilesState, CrdsState
<1>4. files.paths = contents /\ files.docs = <<>> /\ files.found = <<>> /\ FilesTaken = 0 /\ DocsLeft = 0
  BY <1>1, <1>2 DEF Init, FilesTaken, DocsLeft
<1>5. Position
  BY <1>1, <1>4 DEF Init, Position
<1>6. FromCrds
  BY <1>2, <1>4 DEF Init, FromCrds, OnlyDefinedSchemas, SchemaRegistryInit, RegistryInit
<1>7. Kept
  <2>1. \A p \in FileCrds : ~Taken(p)
    BY <1>3, <1>4, CrdPlace DEF Taken
  <2> QED
    BY <2>1 DEF Kept
<1> QED
  BY <1>3, <1>5, <1>6, <1>7 DEF LoaderInv

\* What the files hold does not change, and so neither does what it means.
LEMMA ContentsStay ==
  ASSUME UNCHANGED contents
  PROVE  /\ FileCrds' = FileCrds /\ InFiles' = InFiles
         /\ \A p : CrdAt(p)' = CrdAt(p) /\ NotBefore(p)' = NotBefore(p)
         /\ \A p : Sound(p)' = Sound(p)
BY DEF FileCrds, InFiles, CrdAt, NotBefore, Sound

\* The loader of files reads on without finding a CRD.
LEMMA NothingFound ==
  ASSUME LoaderInv, UNCHANGED <<dynamic, contents, listed, crds>>, files'.found = files.found,
         \A p \in FileCrds : Sound(p) /\ Taken(p)' => Taken(p)
  PROVE  FromCrds' /\ Kept'
<1>1. FromCrds'
  BY ContentsStay DEF LoaderInv, FromCrds, OnlyDefinedSchemas, Listed, InFiles, FileCrds, CrdAt
<1>2. \A p, e : Waits(p, e)' = Waits(p, e) /\ Entered(p, e)' = Entered(p, e)
  BY ContentsStay DEF Waits, Entered, Listed
<1>3. Kept'
  BY <1>2, ContentsStay DEF LoaderInv, Kept
<1> QED
  BY <1>1, <1>3

\* A step of the loader of files that changes nothing else keeps the types.
LEMMA FileTypes ==
  ASSUME LoaderTypes, UNCHANGED fileOnly, files' \in FilesState
  PROVE  LoaderTypes'
BY DEF LoaderTypes, fileOnly, registryVars, RegistryTypeOK

\* The next file is read, or cannot be.
LEMMA TakesFile ==
  ASSUME LoaderInv, ReadFile \/ ReadFails
  PROVE  LoaderInv'
<1> DEFINE n == Len(files.paths)
<1>1. /\ files \in FilesState /\ files.paths \in Seq(FileContents) /\ files.paths # <<>> /\ files.docs = <<>>
      /\ UNCHANGED fileOnly /\ files.pc = "reading"
      /\ Len(contents) \in Nat
  BY LenProperties DEF LoaderInv, LoaderTypes, FilesState, ReadFile, ReadFails
<1>2. /\ n \in Nat \ {0} /\ Head(files.paths) = files.paths[1] /\ Head(files.paths) \in FileContents
      /\ Tail(files.paths) \in Seq(FileContents) /\ Len(Tail(files.paths)) = n - 1
      /\ \A i \in 1 .. n - 1 : Tail(files.paths)[i] = files.paths[i + 1]
  BY <1>1, TakeHead
<1>3. PICK docs \in Seq(Document) :
        /\ files' = [files EXCEPT !.paths = Tail(files.paths), !.docs = docs]
        /\ docs = <<>> \/ (Head(files.paths) # Unreadable /\ docs = Head(files.paths))
        /\ Head(files.paths) = Unreadable \/ docs = Head(files.paths)
  <2>1. CASE ReadFile
    <3>1. Head(files.paths) \in Seq(Document) /\ Head(files.paths) # Unreadable
      BY <1>2, <2>1 DEF ReadFile, FileContents
    <3>2. files' = [files EXCEPT !.paths = Tail(files.paths), !.docs = Head(files.paths)]
      BY <2>1 DEF ReadFile
    <3> QED
      BY <3>1, <3>2
  <2>2. CASE ReadFails
    <3>1. files' = [files EXCEPT !.paths = Tail(files.paths)] /\ Head(files.paths) = Unreadable
      BY <2>2 DEF ReadFails
    <3>2. files' = [files EXCEPT !.paths = Tail(files.paths), !.docs = <<>>] /\ <<>> \in Seq(Document)
      BY <1>1, <3>1 DEF FilesState
    <3> QED
      BY <3>1, <3>2
  <2> QED
    BY <2>1, <2>2
<1>4. /\ files' \in FilesState /\ files'.paths = Tail(files.paths) /\ files'.docs = docs
      /\ files'.pc = "reading" /\ files'.found = files.found
  BY <1>1, <1>2, <1>3 DEF FilesState
<1>5. LoaderTypes'
  BY <1>1, <1>4, FileTypes DEF LoaderInv
<1>6. PICK f \in Nat, d \in Nat, c \in {contents} :
        /\ f = FilesTaken /\ f + n = Len(contents) /\ f + 1 = FilesTaken' /\ c = contents /\ contents' = c
        /\ DocsLeft = 0 /\ d = DocsLeft' /\ d = Len(docs)
        /\ \A i \in 1 .. n : files.paths[i] = c[f + i]
        /\ c[f + 1] = Head(files.paths)
  <2>1. Len(docs) \in Nat /\ Len(files.docs) = 0
    BY <1>1, <1>3, LenProperties
  <2>2. FilesTaken \in Nat /\ FilesTaken + n = Len(contents) /\ FilesTaken' = FilesTaken + 1 /\ contents' = contents
    <3>1. PICK k \in Nat : k = Len(contents)
      BY <1>1
    <3>2. n \in Nat \ {0} /\ Len(Tail(files.paths)) = n - 1
      BY <1>2
    <3> HIDE DEF n
    <3>3. PICK m \in Nat : m = n - 1
      BY <3>2
    <3>4. m = Len(Tail(files.paths)) /\ n = m + 1
      BY <3>2, <3>3
    <3>5. PICK f \in Nat : f = FilesTaken
      BY DEF LoaderInv, Position
    <3>6. contents' = contents /\ FilesTaken' = k - m
      BY <1>1, <1>4, <3>1, <3>4 DEF FilesTaken, fileOnly
    <3>7. f = k - (m + 1)
      BY <3>1, <3>4, <3>5 DEF FilesTaken, n
    <3>8. f + (m + 1) = k /\ k - m = f + 1
      BY <3>7
    <3> QED
      BY <3>1, <3>6, <3>8, <3>4, <3>5
  <2>3. \A i \in 1 .. n : files.paths[i] = contents[FilesTaken + i]
    BY DEF LoaderInv, Position
  <2>4. 1 \in 1 .. n
    BY <1>2
  <2> QED
    BY <1>2, <1>4, <2>1, <2>2, <2>3, <2>4 DEF DocsLeft
<1>7. n \in Nat \ {0}
  BY <1>2
<1>8. Position'
  <2>1. \A i \in 1 .. n - 1 : files'.paths[i] = c[f + 1 + i]
    <3> SUFFICES ASSUME NEW i \in 1 .. n - 1 PROVE files'.paths[i] = c[f + 1 + i]
      OBVIOUS
    <3>1. i + 1 \in 1 .. n /\ f + (i + 1) = f + 1 + i
      BY <1>6, <1>7
    <3>2. files'.paths[i] = files.paths[i + 1] /\ files.paths[i + 1] = c[f + (i + 1)]
      BY <1>2, <1>4, <1>6, <3>1
    <3> QED
      BY <3>1, <3>2
  <2>2. files'.docs # <<>> => docs = c[f + 1] /\ c[f + 1] # Unreadable
    BY <1>3, <1>4, <1>6
  <2>3. Len(files'.paths) = n - 1
    BY <1>2, <1>4
  <2>4. files'.docs # <<>> => \A i \in 1 .. d : files'.docs[i] = c[f + 1][Len(c[f + 1]) - d + i]
    <3> SUFFICES ASSUME files'.docs # <<>>, NEW i \in 1 .. d
                 PROVE  files'.docs[i] = c[f + 1][Len(c[f + 1]) - d + i]
      OBVIOUS
    <3>1. Len(c[f + 1]) = d /\ d - d + i = i
      BY <1>6, <2>2
    <3> QED
      BY <1>4, <2>2, <3>1
  <2>5. files'.docs # <<>> => d <= Len(c[f + 1]) /\ f + 1 >= 1
    BY <1>6, <2>2
  <2>6. /\ FilesTaken' = f + 1 /\ DocsLeft' = d /\ contents' = c
        /\ f + 1 \in Nat /\ files'.pc = "reading"
    BY <1>4, <1>6
  <2>7. \A i \in 1 .. Len(files'.paths) : files'.paths[i] = contents'[FilesTaken' + i]
    BY <2>1, <2>3, <2>6
  <2>8. files'.docs # <<>> =>
          /\ FilesTaken' >= 1 /\ contents'[FilesTaken'] # Unreadable
          /\ DocsLeft' <= Len(contents'[FilesTaken'])
          /\ \A i \in 1 .. DocsLeft' :
               files'.docs[i] = contents'[FilesTaken'][Len(contents'[FilesTaken']) - DocsLeft' + i]
    BY <2>2, <2>4, <2>5, <2>6
  <2> QED
    BY <2>6, <2>7, <2>8 DEF Position
<1>9. ASSUME NEW p \in FileCrds, Taken(p)'
      PROVE  Taken(p)
  <2>1. PICK l \in Nat, p1 \in Nat, p2 \in Nat \ {0} :
          p1 = p[1] /\ p2 = p[2] /\ l = Len(c[p1]) /\ p2 <= l /\ c[p1] # Unreadable
    BY <1>6, CrdPlace DEF LoaderInv
  <2>2. p1 < f + 1 \/ (p1 = f + 1 /\ p2 <= l - d)
    BY <1>6, <1>9, <2>1 DEF Taken
  <2>3. CASE p1 = f + 1
    <3>1. l = d
      BY <1>3, <1>6, <2>1, <2>3
    <3> QED
      BY <2>1, <2>2, <2>3, <3>1
  <2>4. CASE p1 < f + 1
    <3>1. p1 < f \/ (p1 = f /\ p2 <= l - 0)
      BY <2>1, <2>4
    <3> QED
      BY <1>6, <2>1, <3>1 DEF Taken
  <2> QED
    BY <2>2, <2>3, <2>4
<1>10. FromCrds' /\ Kept'
  BY <1>1, <1>4, <1>9, NothingFound DEF fileOnly, registryVars
<1> QED
  BY <1>5, <1>8, <1>10 DEF LoaderInv

\* The next document is the one at l - d + 1 of the l ones of the file at f.
IsNext(f, l, d, c) ==
  /\ f = FilesTaken /\ d = DocsLeft /\ c = contents /\ l = Len(c[f]) /\ d <= l
  /\ f \in 1 .. Len(c) /\ c[f] # Unreadable
  /\ Head(files.docs) = c[f][l - d + 1] /\ Head(files.docs) \in Document
  /\ files \in FilesState /\ files.pc = "reading"
  /\ Tail(files.docs) \in Seq(Document) /\ Len(Tail(files.docs)) = d - 1
  /\ \A i \in 1 .. d - 1 : Tail(files.docs)[i] = c[f][l - d + (i + 1)]

\* The next document has its place in its file.
LEMMA NextDocument ==
  ASSUME LoaderInv, files.docs # <<>>
  PROVE  \E f \in Nat, l \in Nat, d \in Nat \ {0}, c \in {contents} : IsNext(f, l, d, c)
<1>1. /\ files \in FilesState /\ files.docs \in Seq(Document) /\ files.paths \in Seq(FileContents)
      /\ contents \in Seq(FileContents)
  BY DEF LoaderInv, LoaderTypes, FilesState
<1>2. PICK d \in Nat \ {0} : d = DocsLeft
  BY <1>1, TakeHead DEF DocsLeft
<1>3. /\ Head(files.docs) = files.docs[1] /\ Head(files.docs) \in Document
      /\ Tail(files.docs) \in Seq(Document) /\ Len(Tail(files.docs)) = d - 1
      /\ \A i \in 1 .. d - 1 : Tail(files.docs)[i] = files.docs[i + 1]
  BY <1>1, <1>2, TakeHead DEF DocsLeft
<1>4. PICK f \in Nat : f = FilesTaken
  BY DEF LoaderInv, Position
<1>5. PICK c : c = contents
  OBVIOUS
<1>6. /\ f >= 1 /\ c[f] # Unreadable
      /\ d <= Len(c[f]) /\ files.pc = "reading"
      /\ \A i \in 1 .. d : files.docs[i] = c[f][Len(c[f]) - d + i]
  BY <1>1, <1>2, <1>4, <1>5 DEF LoaderInv, Position, FilesState
<1>7. Len(c) \in Nat /\ f \in 1 .. Len(c)
  <2>1. PICK k \in Nat, m \in Nat : k = Len(c) /\ m = Len(files.paths)
    BY <1>1, <1>5, LenProperties
  <2>2. f = k - m
    BY <1>4, <1>5, <2>1 DEF FilesTaken
  <2> QED
    BY <1>6, <2>1, <2>2
<1>8. c[f] \in FileContents
  BY <1>1, <1>5, <1>7, ElementOfSeq
<1>9. PICK l \in Nat : l = Len(c[f])
  BY <1>6, <1>8, LenProperties DEF FileContents
<1>10. \A i \in 1 .. d - 1 : Tail(files.docs)[i] = c[f][l - d + (i + 1)]
  <2> SUFFICES ASSUME NEW i \in 1 .. d - 1
               PROVE  Tail(files.docs)[i] = c[f][l - d + (i + 1)]
    OBVIOUS
  <2>1. i + 1 \in 1 .. d
    OBVIOUS
  <2> QED
    BY <1>3, <1>6, <1>9, <2>1
<1>11. Head(files.docs) = c[f][l - d + 1]
  BY <1>3, <1>6, <1>9
<1>12. IsNext(f, l, d, c)
  BY <1>1, <1>2, <1>3, <1>4, <1>5, <1>6, <1>7, <1>9, <1>10, <1>11 DEF IsNext
<1> QED
  BY <1>5, <1>12

\* One document less to read.
LEMMA DocumentTaken ==
  ASSUME LoaderInv, files.docs # <<>>, UNCHANGED fileOnly, NEW found \in Seq(Entry),
         files' = [files EXCEPT !.docs = Tail(files.docs), !.found = found]
  PROVE  /\ LoaderTypes' /\ Position' /\ files'.found = found
         /\ \A p \in FileCrds : Taken(p)' => Taken(p) \/ CrdAt(p) = Head(files.docs)
<1>1. PICK f \in Nat, l \in Nat, d \in Nat \ {0}, c \in {contents} : IsNext(f, l, d, c)
  BY NextDocument
<1>2. /\ f = FilesTaken /\ d = DocsLeft /\ c = contents /\ l = Len(c[f]) /\ d <= l
      /\ f \in 1 .. Len(c) /\ c[f] # Unreadable
      /\ Head(files.docs) = c[f][l - d + 1] /\ Head(files.docs) \in Document
      /\ files \in FilesState /\ files.pc = "reading"
      /\ Tail(files.docs) \in Seq(Document) /\ Len(Tail(files.docs)) = d - 1
      /\ \A i \in 1 .. d - 1 : Tail(files.docs)[i] = c[f][l - d + (i + 1)]
  BY <1>1 DEF IsNext
<1>3. /\ files' \in FilesState /\ files'.docs = Tail(files.docs) /\ files'.paths = files.paths
      /\ files'.pc = "reading" /\ files'.found = found
  BY <1>2 DEF FilesState
<1>4. FilesTaken' = f /\ DocsLeft' = d - 1 /\ contents' = c
  BY <1>2, <1>3 DEF FilesTaken, DocsLeft, fileOnly
<1>5. LoaderTypes'
  BY <1>3, FileTypes DEF LoaderInv
<1>6. Position'
  <2>1. \A i \in 1 .. d - 1 : files'.docs[i] = c[f][l - (d - 1) + i]
    <3> SUFFICES ASSUME NEW i \in 1 .. d - 1 PROVE files'.docs[i] = c[f][l - (d - 1) + i]
      OBVIOUS
    <3>1. l - (d - 1) + i = l - d + (i + 1)
      OBVIOUS
    <3> QED
      BY <1>2, <1>3, <3>1
  <2>2. \A i \in 1 .. Len(files'.paths) : files'.paths[i] = contents'[FilesTaken' + i]
    BY <1>2, <1>3, <1>4 DEF LoaderInv, Position
  <2>3. /\ FilesTaken' >= 1 /\ contents'[FilesTaken'] # Unreadable
        /\ DocsLeft' <= Len(contents'[FilesTaken'])
        /\ \A i \in 1 .. DocsLeft' :
             files'.docs[i] = contents'[FilesTaken'][Len(contents'[FilesTaken']) - DocsLeft' + i]
    BY <1>2, <1>4, <2>1
  <2> QED
    BY <1>3, <1>4, <2>2, <2>3 DEF Position
<1>7. ASSUME NEW p \in FileCrds, Taken(p)'
      PROVE  Taken(p) \/ CrdAt(p) = Head(files.docs)
  <2>1. PICK p1 \in Nat, p2 \in Nat : p1 = p[1] /\ p2 = p[2] /\ Len(c[p1]) \in Nat
    BY <1>2, CrdPlace DEF LoaderInv
  <2>2. p1 < f \/ (p1 = f /\ p2 <= Len(c[p1]) - (d - 1))
    BY <1>4, <1>7, <2>1 DEF Taken
  <2>3. p1 < f \/ (p1 = f /\ p2 <= l - d) \/ (p1 = f /\ p2 = l - d + 1)
    BY <1>2, <2>1, <2>2
  <2> QED
    BY <1>2, <2>1, <2>3 DEF Taken, CrdAt
<1> QED
  BY <1>3, <1>5, <1>6, <1>7

\* A document is skipped, and the rest of the file may be with it.
LEMMA SkipsDocument ==
  ASSUME LoaderInv, SkipDocument
  PROVE  LoaderInv'
<1>1. files.docs # <<>> /\ UNCHANGED fileOnly /\ ~IsCrd(Head(files.docs))
  BY DEF SkipDocument
<1>2. PICK f \in Nat, l \in Nat, d \in Nat \ {0}, c \in {contents} : IsNext(f, l, d, c)
  BY <1>1, NextDocument
<1>3. /\ f = FilesTaken /\ d = DocsLeft /\ c = contents /\ l = Len(c[f]) /\ d <= l
      /\ Head(files.docs) = c[f][l - d + 1]
      /\ files \in FilesState /\ files.pc = "reading"
  BY <1>2 DEF IsNext
<1>4. files.found \in Seq(Entry) /\ <<>> \in Seq(Document)
  BY <1>3 DEF FilesState
<1>5. CASE files' = [files EXCEPT !.docs = Tail(files.docs)]
  <2>1. files' = [files EXCEPT !.docs = Tail(files.docs), !.found = files.found]
    BY <1>3, <1>5 DEF FilesState
  <2>2. /\ LoaderTypes' /\ Position' /\ files'.found = files.found
        /\ \A p \in FileCrds : Taken(p)' => Taken(p) \/ CrdAt(p) = Head(files.docs)
    BY <1>1, <1>4, <2>1, DocumentTaken
  <2>3. \A p \in FileCrds : Taken(p)' => Taken(p)
    BY <1>1, <2>2 DEF FileCrds, CrdAt
  <2> QED
    BY <1>1, <2>2, <2>3, NothingFound DEF LoaderInv, fileOnly, registryVars
<1>6. CASE Head(files.docs).type = "broken" /\ files' = [files EXCEPT !.docs = <<>>]
  <2>1. /\ files' \in FilesState /\ files'.docs = <<>> /\ files'.paths = files.paths
        /\ files'.found = files.found /\ files'.pc = "reading"
    BY <1>3, <1>4, <1>6 DEF FilesState
  <2>2. LoaderTypes'
    BY <1>1, <2>1, FileTypes DEF LoaderInv
  <2>3. FilesTaken' = f /\ contents' = c
    BY <1>1, <1>3, <2>1 DEF FilesTaken, fileOnly
  <2>4. Position'
    BY <1>3, <2>1, <2>3 DEF LoaderInv, Position
  <2>5. ASSUME NEW p \in FileCrds, Sound(p), Taken(p)'
        PROVE  Taken(p)
    <3>1. PICK p1 \in Nat, p2 \in Nat : p1 = p[1] /\ p2 = p[2] /\ p2 <= Len(c[p1])
      BY <1>3, CrdPlace DEF LoaderInv
    <3>2. p1 < f \/ p1 = f
      BY <2>3, <2>5, <3>1 DEF Taken
    <3>3. CASE p1 = f
      <4>1. l - d + 1 \in 1 .. p2 => c[f][l - d + 1].type # "broken"
        BY <1>3, <2>5, <3>1, <3>3 DEF Sound
      <4>2. l - d + 1 >= 1 /\ ~ (l - d + 1 \in 1 .. p2)
        BY <1>3, <1>6, <4>1
      <4>3. p2 <= l - d
        BY <1>3, <4>2
      <4> QED
        BY <1>3, <3>1, <3>3, <4>3 DEF Taken
    <3> QED
      BY <1>3, <3>1, <3>2, <3>3 DEF Taken
  <2> QED
    BY <1>1, <2>1, <2>2, <2>4, <2>5, NothingFound DEF LoaderInv, fileOnly, registryVars
<1> QED
  BY <1>5, <1>6 DEF SkipDocument
\* The schemas of the next document, a CRD, go behind what was gathered.
LEMMA LoadsDocument ==
  ASSUME LoaderInv, LoadDocument
  PROVE  LoaderInv'
<1> DEFINE crd == Head(files.docs)
<1>1. /\ files.docs # <<>> /\ UNCHANGED fileOnly /\ IsCrd(crd)
      /\ files' = [files EXCEPT !.docs = Tail(@), !.found = @ \o Flatten(crd)]
  BY DEF LoadDocument
<1>2. PICK f \in Nat, l \in Nat, d \in Nat \ {0}, c \in {contents} : IsNext(f, l, d, c)
  BY <1>1, NextDocument
<1>3. /\ f = FilesTaken /\ d = DocsLeft /\ c = contents /\ l = Len(c[f]) /\ d <= l
      /\ f \in 1 .. Len(c) /\ c[f] # Unreadable
      /\ crd = c[f][l - d + 1] /\ crd \in Document /\ files \in FilesState
  BY <1>2 DEF IsNext
<1>4. crd \in Crds
  BY <1>1, <1>3 DEF Document, IsCrd
<1>5. Flatten(crd) \in Seq(Entry) /\ ToSet(Flatten(crd)) = Definitions(crd) /\ files.found \in Seq(Entry)
  BY <1>3, <1>4, FlattenDefines DEF FilesState
<1> DEFINE found == files.found \o Flatten(crd)
<1>6. found \in Seq(Entry) /\ ToSet(found) = ToSet(files.found) \cup Definitions(crd)
  BY <1>5, ConcatenatedSet
<1>7. /\ LoaderTypes' /\ Position' /\ files'.found = found
      /\ \A p \in FileCrds : Taken(p)' => Taken(p) \/ CrdAt(p) = crd
  <2>1. files' = [files EXCEPT !.docs = Tail(files.docs), !.found = found]
    BY <1>1, <1>3 DEF FilesState
  <2> HIDE DEF found
  <2> QED
    BY <1>1, <1>6, <2>1, DocumentTaken
<1> DEFINE place == <<f, l - d + 1>>
<1>8. place \in FileCrds /\ CrdAt(place) = crd
  <2>1. c \in Seq(FileContents) /\ c[f] \in FileContents /\ f \in DOMAIN c
    BY <1>3, ElementOfSeq, LenProperties DEF LoaderInv, LoaderTypes
  <2>2. c[f] \in Seq(Document) /\ DOMAIN c[f] = 1 .. l
    BY <1>3, <2>1, LenProperties DEF FileContents
  <2>3. l - d + 1 \in 1 .. l
    BY <1>3
  <2>4. place \in {f} \X DOMAIN c[f]
    BY <2>2, <2>3
  <2> QED
    BY <1>1, <1>3, <2>1, <2>4 DEF FileCrds, CrdAt
<1>9. \A p \in FileCrds : Taken(p) => ReadBefore(p, place)
  <2> SUFFICES ASSUME NEW p \in FileCrds, Taken(p) PROVE ReadBefore(p, place)
    OBVIOUS
  <2>1. PICK p1 \in Nat, p2 \in Nat : p1 = p[1] /\ p2 = p[2] /\ Len(c[p1]) \in Nat
    BY <1>3, CrdPlace DEF LoaderInv
  <2>2. p1 < f \/ (p1 = f /\ p2 <= l - d)
    BY <1>3, <2>1 DEF Taken
  <2>3. p1 < f \/ (p1 = f /\ p2 < l - d + 1)
    BY <1>3, <2>1, <2>2
  <2> QED
    BY <2>1, <2>3 DEF ReadBefore
<1>10. \A p \in FileCrds : Taken(p) => Definitions(crd) \subseteq NotBefore(p)
  <2> HIDE DEF place
  <2> QED
    BY <1>8, <1>9 DEF NotBefore
<1>11. FromCrds'
  <2>1. Definitions(crd) \subseteq InFiles
    <3> HIDE DEF place
    <3> QED
      BY <1>8 DEF InFiles
  <2>2. ToSet(files'.found) \subseteq InFiles
    BY <1>6, <1>7, <2>1 DEF LoaderInv, FromCrds
  <2> QED
    BY <1>1, <2>2, ContentsStay
    DEF LoaderInv, FromCrds, OnlyDefinedSchemas, Listed, InFiles, FileCrds, CrdAt, fileOnly, registryVars
<1>12. PICK n \in Nat, m \in Nat : Joined(files.found, Flatten(crd), n, m)
  <2>1. PICK s \in Seq(Entry), t \in Seq(Entry) : s = files.found /\ t = Flatten(crd)
    BY <1>5
  <2>2. \E n \in Nat, m \in Nat : Joined(s, t, n, m)
    BY ConcatenatedAt
  <2> QED
    BY <2>1, <2>2
<1>13. /\ DOMAIN files.found = 1 .. n /\ DOMAIN Flatten(crd) = 1 .. m /\ DOMAIN found = 1 .. n + m
       /\ \A i \in 1 .. n : found[i] = files.found[i]
       /\ \A i \in 1 .. m : found[n + i] = Flatten(crd)[i]
  BY <1>12 DEF Joined
<1> HIDE DEF found
<1>14. ASSUME NEW p \in FileCrds, Sound(p), Taken(p)', NEW e \in Definitions(CrdAt(p))
       PROVE  Waits(p, e)' \/ Entered(p, e)'
  <2>1. CASE Taken(p) /\ Waits(p, e)
    <3>1. PICK i \in 1 .. n : /\ files.found[i] = e
                              /\ \A j \in 1 .. n : i <= j => files.found[j] \in NotBefore(p)
      BY <1>13, <2>1 DEF Waits
    <3>2. i \in 1 .. n + m /\ found[i] = e
      BY <1>13, <3>1
    <3>3. ASSUME NEW j \in 1 .. n + m, i <= j
          PROVE  found[j] \in NotBefore(p)
      <4>1. CASE j <= n
        BY <1>13, <3>1, <3>3, <4>1
      <4>2. CASE ~(j <= n)
        <5>1. PICK k \in 1 .. m : j = n + k
          <6>1. j - n \in 1 .. m /\ j = n + (j - n)
            BY <4>2
          <6> QED
            BY <6>1
        <5>2. found[j] \in Definitions(crd)
          BY <1>5, <1>13, <5>1 DEF ToSet
        <5> QED
          BY <1>10, <2>1, <5>2
      <4> QED
        BY <4>1, <4>2
    <3>4. Waits(p, e)'
      BY <1>1, <1>7, <1>13, <3>2, <3>3, ContentsStay DEF Waits, fileOnly
    <3> QED
      BY <3>4
  <2>2. CASE Taken(p) /\ Entered(p, e)
    <3>1. ToSet(found) \subseteq NotBefore(p)
      BY <1>6, <1>10, <2>2 DEF Entered
    <3>2. Entered(p, e)'
      BY <1>1, <1>7, <2>2, <3>1, ContentsStay DEF Entered, Listed, fileOnly, registryVars
    <3> QED
      BY <3>2
  <2>3. CASE CrdAt(p) = crd
    <3>1. PICK k \in 1 .. m : Flatten(crd)[k] = e
      BY <1>5, <1>13, <1>14, <2>3 DEF ToSet
    <3>2. n + k \in 1 .. n + m /\ found[n + k] = e
      <4>1. n + k \in 1 .. n + m
        OBVIOUS
      <4> QED
        BY <1>13, <3>1, <4>1
    <3>3. ASSUME NEW j \in 1 .. n + m, n + k <= j
          PROVE  found[j] \in NotBefore(p)
      <4>1. PICK i \in 1 .. m : j = n + i
        <5>1. j - n \in 1 .. m /\ j = n + (j - n)
          BY <3>3
        <5> QED
          BY <5>1
      <4>2. found[j] \in Definitions(crd)
        BY <1>5, <1>13, <4>1 DEF ToSet
      <4> QED
        BY <2>3, <4>2 DEF NotBefore
    <3>4. Waits(p, e)'
      <4>1. PICK i \in 1 .. n + m : found[i] = e /\ \A j \in 1 .. n + m : i <= j => found[j] \in NotBefore(p)
        BY <3>2, <3>3
      <4> QED
        BY <1>1, <1>7, <1>13, <4>1, ContentsStay DEF Waits, fileOnly
    <3> QED
      BY <3>4
  <2>4. Taken(p) => Waits(p, e) \/ Entered(p, e)
    BY <1>14 DEF LoaderInv, Kept
  <2> QED
    BY <1>7, <1>14, <2>1, <2>2, <2>3, <2>4
<1>15. Kept'
  BY <1>1, <1>14, ContentsStay DEF Kept, fileOnly
<1> QED
  BY <1>7, <1>11, <1>15 DEF LoaderInv

\* The loader of files has read them all, or inserted what it gathered.
LEMMA FilesEnd ==
  ASSUME LoaderInv, FilesRead \/ FilesDone
  PROVE  LoaderInv'
<1>1. /\ UNCHANGED fileOnly /\ files \in FilesState
      /\ \E pc \in {"inserting", "done"} :
           files' = [files EXCEPT !.pc = pc] /\ (pc = "done" => files.found = <<>>)
      /\ files.paths = <<>> /\ files.docs = <<>>
  BY DEF FilesRead, FilesDone, LoaderInv, LoaderTypes, Position
<1>2. /\ files' \in FilesState /\ files'.paths = files.paths /\ files'.docs = files.docs
      /\ files'.found = files.found /\ (files'.pc = "done" => files.found = <<>>)
  BY <1>1 DEF FilesState
<1>3. LoaderTypes'
  BY <1>1, <1>2, FileTypes DEF LoaderInv
<1>4. FilesTaken' = FilesTaken /\ DocsLeft' = DocsLeft /\ contents' = contents
  BY <1>1, <1>2 DEF FilesTaken, DocsLeft, fileOnly
<1>5. Position'
  BY <1>1, <1>2, <1>4 DEF LoaderInv, Position
<1>6. \A p : Taken(p)' = Taken(p)
  BY <1>4 DEF Taken
<1>7. FromCrds' /\ Kept'
  BY <1>1, <1>2, <1>6, NothingFound DEF fileOnly, registryVars
<1> QED
  BY <1>3, <1>5, <1>7 DEF LoaderInv

\* What one of S registered stays registered by one of S when another is.
LEMMA StaysEntered ==
  ASSUME RegistryTypeOK, NEW h \in Entry, NEW e \in Entry, InsertDynamic(h.key, h.schema),
         NEW S, h \in S, \E other \in S : other.key = e.key /\ dynamic[e.key] = other.schema
  PROVE  \E other \in S : other.key = e.key /\ dynamic'[e.key] = other.schema
<1>1. h.key \in Keys /\ e.key \in Keys
  BY DEF Entry
<1>2. CASE h.key = e.key
  <2>1. dynamic'[e.key] = h.schema
    BY <1>1, <1>2 DEF InsertDynamic, RegistryTypeOK
  <2> QED
    BY <1>2, <2>1
<1>3. CASE h.key # e.key
  <2>1. dynamic'[e.key] = dynamic[e.key]
    BY <1>1, <1>3 DEF InsertDynamic, RegistryTypeOK
  <2> QED
    BY <2>1
<1> QED
  BY <1>2, <1>3

\* An insertion registers what a CRD defines.
LEMMA InsertsDefined ==
  ASSUME RegistryTypeOK, OnlyDefinedSchemas, NEW h \in Entry, InsertDynamic(h.key, h.schema),
         h \in Listed \cup InFiles, UNCHANGED <<contents, listed>>
  PROVE  RegistryTypeOK' /\ OnlyDefinedSchemas'
<1>1. h.key \in Keys /\ h.schema \in Schemas /\ h = [key |-> h.key, schema |-> h.schema]
  BY DEF Entry
<1>2. Listed' = Listed /\ InFiles' = InFiles
  BY ContentsStay DEF Listed
<1>3. RegistryTypeOK'
  BY <1>1 DEF RegistryTypeOK, InsertDynamic
<1>4. ASSUME NEW k \in Keys, dynamic'[k] # NoSchema
      PROVE  [key |-> k, schema |-> dynamic'[k]] \in Listed \cup InFiles
  <2>1. CASE k = h.key
    BY <1>1, <2>1 DEF RegistryTypeOK, InsertDynamic
  <2>2. CASE k # h.key
    <3>1. dynamic'[k] = dynamic[k]
      BY <2>2 DEF RegistryTypeOK, InsertDynamic
    <3> QED
      BY <1>4, <3>1 DEF OnlyDefinedSchemas, InFiles
  <2> QED
    BY <2>1, <2>2
<1>5. OnlyDefinedSchemas'
  <2>1. (Listed \cup InFiles)' = Listed \cup InFiles
    BY <1>2
  <2> QED
    BY <1>4, <2>1 DEF OnlyDefinedSchemas, InFiles
<1> QED
  BY <1>3, <1>5

\* A schema of a file is inserted.
LEMMA InsertsFromFiles ==
  ASSUME LoaderInv, InsertFromFiles
  PROVE  LoaderInv'
<1> DEFINE h == Head(files.found)
<1>1. /\ files.pc = "inserting" /\ files.found # <<>> /\ InsertDynamic(h.key, h.schema)
      /\ files' = [files EXCEPT !.found = Tail(files.found)]
      /\ UNCHANGED <<contents, crds, listed>>
      /\ files \in FilesState /\ files.found \in Seq(Entry)
  BY DEF InsertFromFiles, InsertFirst, InsertSchema, LoaderInv, LoaderTypes, FilesState
<1>2. PICK n \in Nat \ {0} :
        /\ n = Len(files.found) /\ h = files.found[1] /\ h \in Entry
        /\ DOMAIN files.found = 1 .. n /\ DOMAIN Tail(files.found) = 1 .. n - 1
        /\ Tail(files.found) \in Seq(Entry)
        /\ \A i \in 1 .. n - 1 : Tail(files.found)[i] = files.found[i + 1]
        /\ ToSet(files.found) = {h} \cup ToSet(Tail(files.found))
  BY <1>1, TakeHead
<1>3. /\ files' \in FilesState /\ files'.found = Tail(files.found) /\ files'.pc = "inserting"
      /\ files'.paths = files.paths /\ files'.docs = files.docs
  BY <1>1, <1>2 DEF FilesState
<1>4. h \in InFiles /\ ToSet(files'.found) \subseteq InFiles
  BY <1>2, <1>3 DEF LoaderInv, FromCrds
<1>5. RegistryTypeOK' /\ OnlyDefinedSchemas'
  <2> HIDE DEF h
  <2> QED
    BY <1>1, <1>2, <1>4, InsertsDefined DEF LoaderInv, LoaderTypes, FromCrds
<1>6. LoaderTypes'
  BY <1>1, <1>3, <1>5 DEF LoaderInv, LoaderTypes
<1>7. FilesTaken' = FilesTaken /\ DocsLeft' = DocsLeft /\ contents' = contents
  BY <1>1, <1>3 DEF FilesTaken, DocsLeft
<1>8. Position'
  BY <1>1, <1>3, <1>7 DEF LoaderInv, Position
<1>9. FromCrds'
  BY <1>1, <1>4, <1>5, ContentsStay DEF LoaderInv, FromCrds, Listed
<1>10. ASSUME NEW p \in FileCrds, Sound(p), Taken(p), NEW e \in Definitions(CrdAt(p))
       PROVE  Waits(p, e)' \/ Entered(p, e)'
  <2>1. e \in Entry /\ e \in NotBefore(p)
    BY CrdPlace, DefinedEntries DEF LoaderInv, NotBefore
  <2>2. CASE Entered(p, e)
    <3>1. \E other \in Listed \cup NotBefore(p) : other.key = e.key /\ dynamic'[e.key] = other.schema
      <4>1. h \in Listed \cup NotBefore(p)
        BY <1>2, <2>2 DEF Entered
      <4> HIDE DEF h
      <4> QED
        BY <1>1, <1>2, <2>1, <2>2, <4>1, StaysEntered DEF LoaderInv, LoaderTypes, Entered
    <3>2. ToSet(files'.found) \subseteq NotBefore(p)
      BY <1>2, <1>3, <2>2 DEF Entered
    <3>3. Entered(p, e)'
      BY <1>1, <3>1, <3>2, ContentsStay DEF Entered, Listed
    <3> QED
      BY <3>3
  <2>3. CASE Waits(p, e)
    <3>1. PICK i \in 1 .. n : /\ files.found[i] = e
                              /\ \A j \in 1 .. n : i <= j => files.found[j] \in NotBefore(p)
      BY <1>2, <2>3 DEF Waits
    <3>2. CASE i = 1
      <4>1. h = e /\ dynamic'[e.key] = e.schema
        BY <1>1, <1>2, <2>1, <3>1, <3>2 DEF InsertDynamic, LoaderInv, LoaderTypes, RegistryTypeOK, Entry
      <4>2. ToSet(files'.found) \subseteq NotBefore(p)
        <5>1. ToSet(files.found) \subseteq NotBefore(p)
          BY <1>2, <3>1, <3>2 DEF ToSet
        <5> QED
          BY <1>2, <1>3, <5>1
      <4>3. Entered(p, e)'
        BY <1>1, <2>1, <4>1, <4>2, ContentsStay DEF Entered
      <4> QED
        BY <4>3
    <3>3. CASE i # 1
      <4>1. i - 1 \in 1 .. n - 1 /\ files'.found[i - 1] = e
        <5>1. i - 1 \in 1 .. n - 1 /\ i - 1 + 1 = i
          BY <3>3
        <5> QED
          BY <1>2, <1>3, <3>1, <5>1
      <4>2. ASSUME NEW j \in 1 .. n - 1, i - 1 <= j
            PROVE  files'.found[j] \in NotBefore(p)
        <5>1. j + 1 \in 1 .. n /\ i <= j + 1
          BY <4>2
        <5> QED
          BY <1>2, <1>3, <3>1, <5>1
      <4>3. Waits(p, e)'
        <5>1. PICK k \in 1 .. n - 1 :
                files'.found[k] = e /\ \A j \in 1 .. n - 1 : k <= j => files'.found[j] \in NotBefore(p)
          BY <4>1, <4>2
        <5> QED
          BY <1>1, <1>2, <1>3, <5>1, ContentsStay DEF Waits
      <4> QED
        BY <4>3
    <3> QED
      BY <3>2, <3>3
  <2> QED
    BY <1>10, <2>2, <2>3 DEF LoaderInv, Kept
<1>11. \A p : Taken(p)' = Taken(p)
  BY <1>7 DEF Taken
<1>12. Kept'
  BY <1>1, <1>10, <1>11, ContentsStay DEF Kept
<1> QED
  BY <1>6, <1>8, <1>9, <1>12 DEF LoaderInv

\* A schema of the cluster is inserted.
LEMMA InsertsFromCluster ==
  ASSUME LoaderInv, InsertFromCluster
  PROVE  LoaderInv'
<1> DEFINE h == Head(crds.found)
<1>1. /\ crds.pc = "inserting" /\ crds.found # <<>> /\ InsertDynamic(h.key, h.schema)
      /\ crds' = [crds EXCEPT !.found = Tail(crds.found)]
      /\ UNCHANGED <<contents, files, listed>>
      /\ crds \in CrdsState /\ crds.found \in Seq(Entry)
  BY DEF InsertFromCluster, InsertFirst, InsertSchema, LoaderInv, LoaderTypes, CrdsState
<1>2. /\ h \in Entry /\ Tail(crds.found) \in Seq(Entry)
      /\ ToSet(crds.found) = {h} \cup ToSet(Tail(crds.found))
  BY <1>1, TakeHead
<1>3. crds' \in CrdsState /\ crds'.found = Tail(crds.found) /\ crds'.pc = "inserting"
  BY <1>1, <1>2 DEF CrdsState
<1>4. h \in Listed /\ ToSet(crds'.found) \subseteq Listed
  BY <1>2, <1>3 DEF LoaderInv, FromCrds
<1>5. RegistryTypeOK' /\ OnlyDefinedSchemas'
  <2> HIDE DEF h
  <2> QED
    BY <1>1, <1>2, <1>4, InsertsDefined DEF LoaderInv, LoaderTypes, FromCrds
<1>6. LoaderTypes'
  BY <1>1, <1>3, <1>5 DEF LoaderInv, LoaderTypes
<1>7. FilesTaken' = FilesTaken /\ DocsLeft' = DocsLeft
  BY <1>1 DEF FilesTaken, DocsLeft
<1>8. Position'
  BY <1>1, <1>7 DEF LoaderInv, Position
<1>9. FromCrds'
  BY <1>1, <1>4, <1>5, ContentsStay DEF LoaderInv, FromCrds, Listed
<1>10. ASSUME NEW p \in FileCrds, Sound(p), Taken(p), NEW e \in Definitions(CrdAt(p))
       PROVE  Waits(p, e)' \/ Entered(p, e)'
  <2>1. e \in Entry
    BY CrdPlace, DefinedEntries DEF LoaderInv
  <2>2. CASE Entered(p, e)
    <3>1. \E other \in Listed \cup NotBefore(p) : other.key = e.key /\ dynamic'[e.key] = other.schema
      <4>1. h \in Listed \cup NotBefore(p)
        BY <1>4
      <4> HIDE DEF h
      <4> QED
        BY <1>1, <1>2, <2>1, <2>2, <4>1, StaysEntered DEF LoaderInv, LoaderTypes, Entered
    <3>2. Entered(p, e)'
      BY <1>1, <2>2, <3>1, ContentsStay DEF Entered, Listed
    <3> QED
      BY <3>2
  <2>3. CASE Waits(p, e)
    BY <1>1, <2>3, ContentsStay DEF Waits
  <2> QED
    BY <1>10, <2>2, <2>3 DEF LoaderInv, Kept
<1>11. \A p : Taken(p)' = Taken(p)
  BY <1>1, <1>7 DEF Taken
<1>12. Kept'
  BY <1>1, <1>10, <1>11, ContentsStay DEF Kept
<1> QED
  BY <1>6, <1>8, <1>9, <1>12 DEF LoaderInv

\* The other steps of the loader of the cluster's CRDs: it has gathered what
\* the CRDs define that it knows of, and these only become more.
LEMMA ClusterSteps ==
  ASSUME LoaderInv, UNCHANGED <<dynamic, contents, files>>, crds' \in CrdsState, listed' \in Seq(Crds),
         crds'.pc \in {"connecting", "listing"} => listed' = <<>>,
         Listed \subseteq Listed', ToSet(crds'.found) \subseteq Listed'
  PROVE  LoaderInv'
<1>1. LoaderTypes'
  BY DEF LoaderInv, LoaderTypes, RegistryTypeOK
<1>2. FilesTaken' = FilesTaken /\ DocsLeft' = DocsLeft
  BY DEF FilesTaken, DocsLeft
<1>3. Position'
  BY <1>2 DEF LoaderInv, Position
<1>4. FromCrds'
  <2>1. OnlyDefinedSchemas'
    BY ContentsStay DEF LoaderInv, FromCrds, OnlyDefinedSchemas, InFiles
  <2> QED
    BY <2>1, ContentsStay DEF LoaderInv, FromCrds
<1>5. \A p : Taken(p)' = Taken(p)
  BY <1>2 DEF Taken
<1>6. \A p, e : Waits(p, e)' = Waits(p, e) /\ (Entered(p, e) => Entered(p, e)')
  BY ContentsStay DEF Waits, Entered
<1>7. Kept'
  BY <1>5, <1>6, ContentsStay DEF LoaderInv, Kept
<1> QED
  BY <1>1, <1>3, <1>4, <1>7 DEF LoaderInv

\* Every step preserves LoaderInv.
LEMMA LoaderNext == LoaderInv /\ [Next]_vars => LoaderInv'
<1> SUFFICES ASSUME LoaderInv, [Next]_vars PROVE LoaderInv'
  OBVIOUS
<1>1. crds \in CrdsState /\ listed \in Seq(Crds) /\ ToSet(crds.found) \subseteq Listed
      /\ (crds.pc \in {"connecting", "listing"} => listed = <<>>)
  BY DEF LoaderInv, LoaderTypes, FromCrds
<1>2. ASSUME NEW pc \in {"listing", "inserting", "done"}, pc = "listing" => crds.pc = "connecting",
             crds' = [crds EXCEPT !.pc = pc], UNCHANGED <<clusterOnly, listed>>
      PROVE  LoaderInv'
  <2>1. crds' \in CrdsState /\ crds'.found = crds.found /\ crds'.pc = pc
    BY <1>1, <1>2 DEF CrdsState
  <2>2. Listed' = Listed
    BY <1>2 DEF Listed
  <2> QED
    BY <1>1, <1>2, <2>1, <2>2, ClusterSteps DEF clusterOnly, registryVars
<1>3. CASE Connect \/ ConnectFails \/ ListFails \/ TimedOut \/ ClusterDone
  <2>1. PICK pc \in {"listing", "inserting", "done"} :
          /\ pc = "listing" => crds.pc = "connecting"
          /\ crds' = [crds EXCEPT !.pc = pc] /\ UNCHANGED <<clusterOnly, listed>>
    BY <1>3 DEF Connect, ConnectFails, ListFails, TimedOut, ConnectTimesOut, ListTimesOut, GiveUp, ClusterDone
  <2> QED
    BY <1>2, <2>1
<1>4. CASE ListOk
  <2>1. /\ UNCHANGED <<dynamic, contents, files>> /\ listed' \in Seq(Crds) /\ listed = <<>>
        /\ crds' = [pc |-> "inserting", found |-> FlattenAll(listed')]
    BY <1>1, <1>4, SourceAssumption DEF ListOk, clusterOnly, registryVars
  <2>2. FlattenAll(listed') \in Seq(Entry) /\ ToSet(FlattenAll(listed')) = Listed'
    BY <2>1, FlattenAllDefines DEF Listed
  <2>3. Listed = {}
    BY <2>1 DEF Listed
  <2>4. crds' \in CrdsState /\ crds'.pc = "inserting" /\ ToSet(crds'.found) = Listed'
    BY <2>1, <2>2 DEF CrdsState
  <2> QED
    BY <2>1, <2>3, <2>4, ClusterSteps
<1>5. ASSUME UNCHANGED <<dynamic, contents, files, crds, listed>>
      PROVE  LoaderInv'
  <2>1. Listed' = Listed
    BY <1>5 DEF Listed
  <2> QED
    BY <1>1, <1>5, <2>1, ClusterSteps
<1>6. ASSUME NEW c \in Callers, Lookups(c)
      PROVE  LoaderInv'
  <2>1. UNCHANGED dynamic
    BY <1>6 DEF Lookups, LookupStep, StartLookup, CacheHit, CacheMiss, FillCache, ParseFails,
                ReadDynamic, ReturnSchema
  <2> QED
    BY <1>5, <1>6, <2>1 DEF Lookups
<1>7. CASE UNCHANGED vars
  BY <1>5, <1>7 DEF vars, registryVars
<1> QED
  BY <1>3, <1>4, <1>6, <1>7, TakesFile, LoadsDocument, SkipsDocument, FilesEnd, InsertsFromFiles,
     InsertsFromCluster
  DEF Next, FileLoader, ClusterLoader, ClusterInserts

\* The loaders never lose what they have gathered, nor gather anything else.
THEOREM LoadersConsistent == Spec => []LoaderInv
<1> QED
  BY LoaderInit, LoaderNext, PTL DEF Spec

\* A schema is registered only under the version and kind that a CRD of the
\* files or of the cluster gives it.
THEOREM OnlyDefined == Spec => []OnlyDefinedSchemas
<1>1. LoaderInv => OnlyDefinedSchemas
  BY DEF LoaderInv, FromCrds
<1> QED
  BY <1>1, LoadersConsistent, PTL

\* When all is inserted, all that was in front of the syntax errors is there.
LEMMA DoneLoading == LoaderInv => SoundFilesLoaded
<1> SUFFICES ASSUME LoaderInv, files.pc = "done",
                    NEW p \in FileCrds, Sound(p), NEW e \in Definitions(CrdAt(p))
             PROVE  \E other \in Listed \cup NotBefore(p) :
                      other.key = e.key /\ dynamic[e.key] = other.schema
  BY DEF SoundFilesLoaded, NotBefore
<1>1. files.paths = <<>> /\ files.docs = <<>> /\ files.found = <<>>
  BY DEF LoaderInv, Position
<1>2. Taken(p)
  <2>1. PICK n \in Nat, p1 \in Nat, p2 \in Nat, l \in Nat :
          /\ n = Len(contents) /\ p1 = p[1] /\ p2 = p[2] /\ l = Len(contents[p1])
          /\ p1 <= n /\ p2 <= l
    BY CrdPlace DEF LoaderInv
  <2>2. FilesTaken = n /\ DocsLeft = 0
    <3>1. Len(files.paths) = 0 /\ Len(files.docs) = 0
      BY <1>1
    <3> QED
      BY <2>1, <3>1 DEF FilesTaken, DocsLeft
  <2>3. p1 < n \/ (p1 = n /\ p2 <= l - 0)
    BY <2>1
  <2> QED
    BY <2>1, <2>2, <2>3 DEF Taken
<1>3. ~Waits(p, e)
  BY <1>1 DEF Waits
<1> QED
  BY <1>2, <1>3 DEF LoaderInv, Kept, Entered

\* One broken file never poisons the rest.
THEOREM Loaded == Spec => []SoundFilesLoaded
<1> QED
  BY DoneLoading, LoadersConsistent, PTL

\* The loaders are callers of the registry like any other: what they do to it
\* is to insert schemas under keys.
THEOREM LoadersImplement == Spec => ImplementsRegistryCalls
<1>1. Init => SchemaRegistryInit
  BY DEF Init
<1>2. LoaderInv /\ [Next]_vars => [SchemaRegistryNext]_registryVars
  <2> SUFFICES ASSUME LoaderInv, [Next]_vars PROVE [SchemaRegistryNext]_registryVars
    OBVIOUS
  <2>1. CASE InsertFromFiles
    <3>1. Head(files.found) \in Entry
      BY <2>1, TakeHead DEF InsertFromFiles, LoaderInv, LoaderTypes, FilesState
    <3> QED
      BY <2>1, <3>1 DEF InsertFromFiles, InsertFirst, Entry, SchemaRegistryNext
  <2>2. CASE InsertFromCluster
    <3>1. Head(crds.found) \in Entry
      BY <2>2, TakeHead DEF InsertFromCluster, LoaderInv, LoaderTypes, CrdsState
    <3> QED
      BY <2>2, <3>1 DEF InsertFromCluster, InsertFirst, Entry, SchemaRegistryNext
  <2>3. ASSUME NEW c \in Callers, Lookups(c)
        PROVE  SchemaRegistryNext
    BY <2>3 DEF Lookups, SchemaRegistryNext
  <2>4. CASE ReadFile \/ ReadFails \/ LoadDocument \/ SkipDocument \/ FilesRead \/ FilesDone
    BY <2>4 DEF ReadFile, ReadFails, LoadDocument, SkipDocument, FilesRead, FilesDone, fileOnly
  <2>5. CASE Connect \/ ConnectFails \/ ListFails \/ TimedOut \/ ClusterDone \/ ListOk
    BY <2>5 DEF Connect, ConnectFails, ListFails, TimedOut, ConnectTimesOut, ListTimesOut, GiveUp,
                ClusterDone, ListOk, clusterOnly
  <2>6. CASE UNCHANGED vars
    BY <2>6 DEF vars
  <2> QED
    BY <2>1, <2>2, <2>3, <2>4, <2>5, <2>6 DEF Next, FileLoader, ClusterLoader, ClusterInserts
<1>3. Spec => SchemaRegistrySpec
  BY <1>1, <1>2, LoadersConsistent, PTL DEF Spec, SchemaRegistrySpec
<1> QED
  BY <1>3, Implements
=============================================================================
