-------------------------- MODULE SchemaWalkProofs --------------------------
(***************************************************************************)
(* Theorems about SchemaWalk and SchemaUse, for every schema, document,    *)
(* path and limit on $ref: what a path leads to by itself, that the        *)
(* validator has visited every value of a plain schema together with the   *)
(* node that hover and completion find at its path, and that a hover       *)
(* retraces the completion it follows.                                     *)
(***************************************************************************)
EXTENDS SchemaUse, TLAPS, SequenceTheorems, WellFoundedInduction

(***************************************************************************)
(* Chains of $ref.                                                         *)
(***************************************************************************)
\* A set of natural numbers has a least member.
LEMMA LeastMember ==
  ASSUME NEW S \in SUBSET Nat, S # {}
  PROVE  \E i \in S : \A j \in S : i <= j
<1>1. PICK i \in S : \A j \in S : ~ (<<j, i>> \in OpToRel(<, Nat))
  BY NatLessThanWellFounded, WFMin
<1>2. ASSUME NEW j \in S
      PROVE  i <= j
  <2>1. j < i => <<j, i>> \in OpToRel(<, Nat)
    BY DEF OpToRel
  <2>2. ~ (j < i)
    BY <1>1, <2>1, Zenon
  <2> QED
    BY <2>2
<1> QED
  BY <1>2

\* A node of the schema is one, and so is what its $ref leads to.
LEMMA FollowType ==
  ASSUME schema \in Schemas, NEW n \in Nodes
  PROVE  schema[n] \in SchemaNode /\ Follow(n) \in Nodes
<1>1. schema[n] \in SchemaNode
  BY SchemaAssumption
<1> QED
  BY <1>1 DEF SchemaNode, Follow

\* The chains that begin at n, as functions on their first k + 1 places.
IsChain(c, n, k) ==
  /\ c \in [0 .. k -> Nodes]
  /\ c = [i \in 0 .. k |-> IF i = 0 THEN n ELSE Follow(c[i - 1])]

\* There is a chain of every length: of the lengths without one, the least
\* would be one more than a length that has one.
LEMMA ChainExists ==
  ASSUME schema \in Schemas, NEW n \in Nodes, NEW k \in Nat
  PROVE  \E c : IsChain(c, n, k)
<1> DEFINE Without == {i \in Nat : ~ \E c : IsChain(c, n, i)}
<1>1. SUFFICES ASSUME Without # {} PROVE FALSE
  OBVIOUS
<1>2. PICK m \in Without : \A j \in Without : m <= j
  <2> HIDE DEF Without
  <2>1. Without \in SUBSET Nat
    BY DEF Without
  <2> QED
    BY <1>1, <2>1, LeastMember
<1>3. m # 0
  <2> DEFINE c == [i \in 0 .. 0 |-> n]
  <2>1. c \in [0 .. 0 -> Nodes]
    OBVIOUS
  <2>2. c = [i \in 0 .. 0 |-> IF i = 0 THEN n ELSE Follow(c[i - 1])]
    OBVIOUS
  <2>3. IsChain(c, n, 0)
    BY <2>1, <2>2 DEF IsChain
  <2> QED
    BY <2>3
<1>4. PICK c : IsChain(c, n, m - 1)
  <2>1. m - 1 \in Nat /\ ~ (m <= m - 1)
    BY <1>3
  <2> QED
    BY <1>2, <2>1
<1>5. m \in Nat /\ m - 1 \in 0 .. m - 1
  BY <1>3
<1>6. c \in [0 .. m - 1 -> Nodes] /\ Follow(c[m - 1]) \in Nodes
  BY <1>4, <1>5, FollowType DEF IsChain
<1> DEFINE d == [i \in 0 .. m |-> IF i = m THEN Follow(c[m - 1]) ELSE c[i]]
<1>7. d \in [0 .. m -> Nodes]
  BY <1>5, <1>6
<1>8. ASSUME NEW i \in 0 .. m
      PROVE  d[i] = IF i = 0 THEN n ELSE Follow(d[i - 1])
  <2>1. CASE i = m
    BY <1>3, <1>5, <2>1
  <2>2. CASE i # m
    <3>1. i \in 0 .. m - 1 /\ d[i] = c[i] /\ (i # 0 => i - 1 \in 0 .. m /\ d[i - 1] = c[i - 1])
      BY <1>5, <2>2
    <3>2. c[i] = IF i = 0 THEN n ELSE Follow(c[i - 1])
      BY <1>4, <3>1 DEF IsChain
    <3> QED
      BY <3>1, <3>2
  <2> QED
    BY <2>1, <2>2
<1>9. IsChain(d, n, m)
  <2>1. d = [i \in 0 .. m |-> IF i = 0 THEN n ELSE Follow(d[i - 1])]
    BY <1>8
  <2> QED
    BY <1>7, <2>1 DEF IsChain
<1> QED
  BY <1>2, <1>9

\* resolve_ref ends at a node of the schema, however long and however cyclic
\* the chain is.
LEMMA ResolveType ==
  ASSUME schema \in Schemas, NEW n \in Nodes
  PROVE  Resolve(n) \in Nodes
<1>1. PICK c : IsChain(c, n, MaxRefs)
  BY ChainExists, MaxRefsAssumption
<1> DEFINE F(g) == [i \in 0 .. MaxRefs |-> IF i = 0 THEN n ELSE Follow(g[i - 1])]
<1>2. Chain(n) = CHOOSE g : g = F(g)
  BY DEF Chain
<1>3. Chain(n) = F(Chain(n))
  BY <1>1, <1>2 DEF IsChain
<1> DEFINE Outside == {i \in 0 .. MaxRefs : Chain(n)[i] \notin Nodes}
<1>4. ASSUME Outside # {}
      PROVE  FALSE
  <2>1. PICK i \in Outside : \A j \in Outside : i <= j
    <3>1. Outside \in SUBSET Nat
      BY MaxRefsAssumption
    <3> HIDE DEF Outside
    <3> QED
      BY <1>4, <3>1, LeastMember
  <2>2. Chain(n)[i] = IF i = 0 THEN n ELSE Follow(Chain(n)[i - 1])
    BY <1>3, <2>1
  <2>3. i # 0
    BY <2>1, <2>2
  <2>4. i - 1 \in 0 .. MaxRefs /\ i - 1 \notin Outside
    BY <2>1, <2>3, MaxRefsAssumption
  <2>5. Chain(n)[i - 1] \in Nodes
    BY <2>4
  <2> QED
    BY <2>1, <2>2, <2>3, <2>5, FollowType
<1> QED
  BY <1>4, MaxRefsAssumption DEF Resolve

(***************************************************************************)
(* Types.                                                                  *)
(***************************************************************************)
\* The members of a node lead to nodes.
LEMMA MembersType ==
  ASSUME schema \in Schemas, NEW n \in Nodes
  PROVE  /\ Properties(n) = <<>> \/ \E D \in SUBSET Names : Properties(n) \in [D -> Nodes]
         /\ DOMAIN Properties(n) \subseteq Names
         /\ \A k \in DOMAIN Properties(n) : Properties(n)[k] \in Nodes
         /\ Children(n) \in Seq(Nodes)
         /\ \A seg \in Segment : Direct(n, seg) \in Nodes \cup {NoNode}
<1>1. schema[n] \in SchemaNode
  BY FollowType
<1>2. schema[n].properties \in PropertyMap \cup {NoProperties}
      /\ schema[n].items \in Nodes \cup {NoNode} /\ schema[n].children \in Seq(Nodes)
  BY <1>1 DEF SchemaNode
<1>3. Properties(n) = <<>> \/ \E D \in SUBSET Names : Properties(n) \in [D -> Nodes]
  <2>1. CASE schema[n].properties = NoProperties
    BY <2>1 DEF Properties
  <2>2. CASE schema[n].properties # NoProperties
    <3>1. schema[n].properties \in PropertyMap
      BY <1>2, <2>2
    <3>2. \E D \in SUBSET Names : schema[n].properties \in [D -> Nodes]
      BY <3>1, Zenon DEF PropertyMap
    <3> QED
      BY <2>2, <3>2 DEF Properties
  <2> QED
    BY <2>1, <2>2
<1>4. DOMAIN Properties(n) \subseteq Names /\ \A k \in DOMAIN Properties(n) : Properties(n)[k] \in Nodes
  BY <1>3
<1>5. Children(n) \in Seq(Nodes)
  BY <1>2 DEF Children
<1>6. \A seg \in Segment : Direct(n, seg) \in Nodes \cup {NoNode}
  BY <1>2, <1>4 DEF Direct
<1> QED
  BY <1>3, <1>4, <1>5, <1>6

\* What has been gone through since the last segment, and what is still ahead.
WalkInv ==
  /\ WalkTypeOK
  /\ pc = "walk" => node = NoNode
  /\ pc = "walk" /\ left = <<>> => passed = <<>> /\ \E n \in Nodes : todo = <<Resolve(n)>>
  /\ pc = "collect" => node \in Nodes

\* The two roots are nodes, and NoNode is none.
LEMMA RootType == Root \in Nodes /\ MetaRoot \in Nodes /\ NoNode \notin Nodes
BY RootAssumption, SentinelAssumption

\* A schema does not change, and with it what its $ref lead to.
LEMMA ResolveStable ==
  ASSUME schema' = schema
  PROVE  \A n : Resolve(n)' = Resolve(n)
BY DEF Resolve, Chain, Follow

\* A request begins at a schema node.
LEMMA StartType ==
  ASSUME WalkInv, schema' = schema, NEW r \in {Root, MetaRoot}, NEW p \in Seq(Segment),
         Start(r, p), ask' \in {"none", "completion", "hover"}, path' \in Seq(Segment)
  PROVE  WalkInv'
<1>1. schema \in Schemas /\ Resolve(r) \in Nodes /\ r \in Nodes
  BY RootType, ResolveType DEF WalkInv, WalkTypeOK
<1>2. WalkTypeOK'
  BY <1>1 DEF Start, WalkInv, WalkTypeOK
<1>3. todo' = <<Resolve(r)'>> /\ passed' = <<>> /\ node' = NoNode /\ pc' = "walk"
  BY ResolveStable DEF Start
<1> QED
  BY <1>1, <1>2, <1>3 DEF WalkInv

\* The name of a candidate is a field name.
LEMMA CandidateName ==
  ASSUME WalkInv, NEW c \in Candidates
  PROVE  c.name \in Names
<1>1. PICK i \in DOMAIN passed : \E k \in FieldsOf(i) : c = Candidate(i, k)
  BY DEF Candidates
<1>2. passed[i] \in Nodes /\ schema \in Schemas
  BY <1>1 DEF WalkInv, WalkTypeOK
<1>3. FieldsOf(i) \subseteq Names
  BY <1>2, MembersType DEF FieldsOf
<1> QED
  BY <1>1, <1>3 DEF Candidate

\* One pass through a node: it is appended to passed, and its children take its
\* place in todo.
LEMMA PassType ==
  ASSUME WalkTypeOK, todo # <<>>
  PROVE  /\ Current \in Nodes
         /\ Append(passed, Current) \in Seq(Nodes)
         /\ Tail(todo) \in Seq(Nodes)
         /\ Children(Current) \in Seq(Nodes)
         /\ ResolvedChildren(Current) \in Seq(Nodes)
         /\ Len(ResolvedChildren(Current)) = Len(Children(Current))
         /\ ResolvedChildren(Current) \o Tail(todo) \in Seq(Nodes)
         /\ Children(Current) \o Tail(todo) \in Seq(Nodes)
<1>1. schema \in Schemas /\ Head(todo) \in Nodes /\ Tail(todo) \in Seq(Nodes) /\ passed \in Seq(Nodes)
  BY DEF WalkTypeOK
<1>2. Current \in Nodes
  BY <1>1, ResolveType DEF Current
<1>3. Children(Current) \in Seq(Nodes)
  BY <1>1, <1>2, MembersType
<1>4. \A i \in DOMAIN Children(Current) : Resolve(Children(Current)[i]) \in Nodes
  BY <1>1, <1>3, ResolveType
<1>5. ResolvedChildren(Current) \in Seq(Nodes) /\ Len(ResolvedChildren(Current)) = Len(Children(Current))
  <2>1. ResolvedChildren(Current) \in [1 .. Len(Children(Current)) -> Nodes]
    BY <1>3, <1>4 DEF ResolvedChildren
  <2> QED
    BY <1>3, <2>1
<1> QED
  BY <1>1, <1>2, <1>3, <1>5

\* The first state has the types,
LEMMA WalkInitType == WalkInit => WalkInv
<1> SUFFICES ASSUME WalkInit PROVE WalkInv
  OBVIOUS
<1>1. WalkTypeOK
  BY RootType DEF WalkInit, WalkTypeOK
<1> QED
  BY <1>1 DEF WalkInit, WalkInv

\* and every step keeps them.
LEMMA WalkNextType ==
  ASSUME WalkInv, [WalkNext]_<<schema, walkVars>>
  PROVE  WalkInv'
<1> USE DEF WalkInv
<1>1. schema \in Schemas /\ path \in Seq(Segment) /\ left \in Seq(Segment)
  BY DEF WalkTypeOK
<1>2. ASSUME NEW kind \in {"completion", "hover"}, NEW p \in Paths, Ask(kind, p)
      PROVE  WalkInv'
  <2>1. p \in Seq(Segment)
    BY PathAssumption
  <2> QED
    BY <1>2, <2>1, StartType DEF Ask
<1>3. CASE StepInto
  <2>1. Current \in Nodes /\ Head(left) \in Segment /\ Tail(left) \in Seq(Segment)
    BY <1>1, <1>3, PassType DEF StepInto
  <2>2. Direct(Current, Head(left)) \in Nodes
    BY <1>1, <1>3, <2>1, MembersType DEF StepInto
  <2>3. Resolve(Direct(Current, Head(left))) \in Nodes
    BY <1>1, <2>2, ResolveType
  <2>4. WalkTypeOK'
    BY <1>3, <2>1, <2>3 DEF StepInto, WalkTypeOK
  <2>5. passed' = <<>> /\ \E n \in Nodes : todo' = <<Resolve(n)'>>
    BY <1>3, <2>2, ResolveStable DEF StepInto
  <2> QED
    BY <1>3, <2>4, <2>5 DEF StepInto
<1>4. CASE StepThrough
  <2>1. WalkTypeOK'
    BY <1>4, PassType DEF StepThrough, WalkTypeOK
  <2> QED
    BY <1>4, <2>1 DEF StepThrough
<1>5. CASE Arrive
  <2>1. todo # <<>>
    BY <1>5 DEF Arrive, WalkTypeOK
  <2>2. Head(todo) \in Nodes
    BY <2>1 DEF WalkTypeOK
  <2>3. WalkTypeOK'
    BY <1>5, <2>2 DEF Arrive, WalkTypeOK
  <2> QED
    BY <1>5, <2>2, <2>3 DEF Arrive
<1>6. CASE Collect
  <2>1. WalkTypeOK'
    BY <1>6, PassType DEF Collect, WalkTypeOK
  <2> QED
    BY <1>6, <2>1 DEF Collect
<1>7. CASE FallBack
  <2>1. path # <<>>
    BY <1>1, <1>7 DEF FallBack, IsMetadataPath
  <2>2. Tail(path) \in Seq(Segment) /\ ask' = ask /\ path' = path
    BY <1>1, <1>7, <2>1 DEF FallBack
  <2>3. ask \in {"none", "completion", "hover"}
    BY DEF WalkTypeOK
  <2> QED
    BY <1>1, <1>7, <2>2, <2>3, StartType DEF FallBack
<1>8. CASE Finish
  <2>1. WalkTypeOK'
    BY <1>8 DEF Finish, WalkTypeOK
  <2> QED
    BY <1>8, <2>1 DEF Finish
<1>9. ASSUME NEW c \in Candidates, Accept(c)
      PROVE  WalkInv'
  <2>1. c.name \in Segment
    BY CandidateName DEF Segment
  <2>2. Append(path, c.name) \in Seq(Segment)
    BY <1>1, <2>1
  <2> QED
    BY <1>9, <2>2, StartType DEF Accept
<1>10. CASE UNCHANGED <<schema, walkVars>>
  <2>1. WalkTypeOK'
    BY <1>10 DEF walkVars, WalkTypeOK
  <2>2. \A n : Resolve(n)' = Resolve(n)
    BY <1>10, ResolveStable
  <2> QED
    BY <1>10, <2>1, <2>2 DEF walkVars
<1> QED
  BY <1>2, <1>3, <1>4, <1>5, <1>6, <1>7, <1>8, <1>9, <1>10 DEF WalkNext, WalkStep

\* Every variable keeps its type, whatever the schema, and a path is at its
\* end only with a node in hand (schema_at_path).
THEOREM WalkTypes == WalkSpec => []WalkTypeOK
<1>1. WalkInit => WalkInv
  BY WalkInitType
<1>2. WalkInv /\ [WalkNext]_<<schema, walkVars>> => WalkInv'
  BY WalkNextType
<1>3. WalkInv => WalkTypeOK
  BY DEF WalkInv
<1> QED
  BY <1>1, <1>2, <1>3, PTL DEF WalkSpec

(***************************************************************************)
(* The search through the combinators of a node misses none of them.       *)
(***************************************************************************)
Ahead(s) == {Resolve(s[i]) : i \in DOMAIN s}
Reached == Range(passed) \cup Ahead(todo)

\* The children of what was passed have been passed or are still ahead.
PassedClosed == \A m \in Range(passed) : Ahead(Children(m)) \subseteq Reached

AllGathered == node \in Reached /\ PassedClosed /\ Reached \subseteq Merged(node)

SearchInv ==
  /\ pc = "walk" /\ left # <<>> =>
       /\ \A m \in Range(passed) : Direct(m, Head(left)) = NoNode
       /\ PassedClosed
       /\ todo # <<>> \/ passed # <<>>
  /\ pc = "collect" => AllGathered
  /\ pc = "done" /\ ask = "completion" /\ node # NoNode => todo = <<>> /\ AllGathered

\* The nodes passed when one more is.
LEMMA RangeAppend ==
  ASSUME NEW s \in Seq(Nodes), NEW e \in Nodes
  PROVE  Range(Append(s, e)) = Range(s) \cup {e}
<1>1. \A i \in 1 .. Len(s) : Append(s, e)[i] = s[i]
  OBVIOUS
<1>2. Append(s, e)[Len(s) + 1] = e /\ DOMAIN Append(s, e) = 1 .. Len(s) + 1 /\ DOMAIN s = 1 .. Len(s)
  OBVIOUS
<1>3. 1 .. Len(s) + 1 = 1 .. Len(s) \cup {Len(s) + 1}
  OBVIOUS
<1> QED
  BY <1>1, <1>2, <1>3 DEF Range

\* The nodes ahead in two lists put together,
LEMMA AheadConcat ==
  ASSUME NEW s \in Seq(Nodes), NEW t \in Seq(Nodes)
  PROVE  Ahead(s \o t) = Ahead(s) \cup Ahead(t)
<1>1. DOMAIN s = 1 .. Len(s) /\ DOMAIN t = 1 .. Len(t) /\ DOMAIN (s \o t) = 1 .. Len(s) + Len(t)
  OBVIOUS
<1>2. \A i \in 1 .. Len(s) : i \in DOMAIN (s \o t) /\ (s \o t)[i] = s[i]
  BY <1>1
<1>3. \A i \in 1 .. Len(t) : Len(s) + i \in DOMAIN (s \o t) /\ (s \o t)[Len(s) + i] = t[i]
  BY <1>1
<1>4. Ahead(s) \cup Ahead(t) \subseteq Ahead(s \o t)
  BY <1>1, <1>2, <1>3 DEF Ahead
<1>5. ASSUME NEW i \in DOMAIN (s \o t)
      PROVE  Resolve((s \o t)[i]) \in Ahead(s) \cup Ahead(t)
  <2>1. CASE i <= Len(s)
    BY <1>1, <1>2, <1>5, <2>1 DEF Ahead
  <2>2. CASE ~ (i <= Len(s))
    <3>1. i - Len(s) \in 1 .. Len(t) /\ Len(s) + (i - Len(s)) = i
      BY <1>1, <1>5, <2>2
    <3> QED
      BY <1>1, <1>3, <3>1 DEF Ahead
  <2> QED
    BY <2>1, <2>2
<1>6. Ahead(s \o t) \subseteq Ahead(s) \cup Ahead(t)
  BY <1>5 DEF Ahead
<1> QED
  BY <1>4, <1>6

\* and in a list taken apart.
LEMMA AheadHead ==
  ASSUME NEW s \in Seq(Nodes), s # <<>>
  PROVE  Ahead(s) = {Resolve(Head(s))} \cup Ahead(Tail(s))
<1>1. <<Head(s)>> \in Seq(Nodes) /\ Tail(s) \in Seq(Nodes) /\ s = <<Head(s)>> \o Tail(s)
  OBVIOUS
<1>2. Ahead(<<Head(s)>>) = {Resolve(Head(s))}
  BY DEF Ahead
<1> QED
  BY <1>1, <1>2, AheadConcat

\* Merged(n) holds n and is closed.
LEMMA MergedClosed ==
  ASSUME schema \in Schemas, NEW n \in Nodes
  PROVE  n \in Merged(n) /\ \A m \in Merged(n) : Ahead(Children(m)) \subseteq Merged(n)
<1>1. n \in Merged(n)
  BY DEF Merged
<1>2. ASSUME NEW m \in Merged(n), NEW i \in DOMAIN Children(m)
      PROVE  Resolve(Children(m)[i]) \in Merged(n)
  <2>1. m \in Nodes
    BY DEF Merged
  <2>2. Children(m)[i] \in Nodes
    BY <2>1, MembersType
  <2>3. Resolve(Children(m)[i]) \in Nodes
    BY <2>2, ResolveType
  <2> QED
    BY <2>3 DEF Merged, ClosedUnderChildren
<1> QED
  BY <1>1, <1>2 DEF Ahead

\* What is passed once nothing is ahead is all that is merged into any node
\* passed.
LEMMA PassedAll ==
  ASSUME WalkTypeOK, PassedClosed, todo = <<>>, NEW n \in Range(passed)
  PROVE  Merged(n) \subseteq Range(passed)
<1>1. Range(passed) \in SUBSET Nodes
  BY DEF WalkTypeOK, Range
<1>2. Reached = Range(passed)
  BY DEF Reached, Ahead
<1>3. ClosedUnderChildren(Range(passed))
  BY <1>2 DEF PassedClosed, ClosedUnderChildren, Ahead
<1> QED
  BY <1>1, <1>3 DEF Merged

\* The names of the candidates are those of all fields gathered.
LEMMA CandidateNames ==
  ASSUME WalkTypeOK, node # NoNode
  PROVE  {c.name : c \in Candidates} = UNION {DOMAIN Properties(m) : m \in Range(passed)}
<1>1. ASSUME NEW c \in Candidates
      PROVE  c.name \in UNION {DOMAIN Properties(m) : m \in Range(passed)}
  <2>1. PICK i \in DOMAIN passed : \E k \in FieldsOf(i) : c = Candidate(i, k)
    BY DEF Candidates
  <2> QED
    BY <2>1 DEF FieldsOf, Candidate, Range
<1>2. ASSUME NEW m \in Range(passed), NEW k \in DOMAIN Properties(m)
      PROVE  \E c \in Candidates : c.name = k
  <2> DEFINE P == {i \in DOMAIN passed : k \in FieldsOf(i)}
  <2>1. DOMAIN passed = 1 .. Len(passed) /\ Len(passed) \in Nat
    BY DEF WalkTypeOK
  <2>2. P \in SUBSET Nat /\ P # {}
    BY <1>2, <2>1 DEF Range, FieldsOf
  <2>3. PICK i \in P : \A j \in P : i <= j
    <3> HIDE DEF P
    <3> QED
      BY <2>2, LeastMember
  <2>4. \A h \in 1 .. i - 1 : k \notin FieldsOf(h)
    <3>1. SUFFICES ASSUME NEW h \in 1 .. i - 1, k \in FieldsOf(h) PROVE FALSE
      OBVIOUS
    <3>2. h \in P /\ ~ (i <= h)
      BY <2>1, <2>3, <3>1
    <3> QED
      BY <2>3, <3>2
  <2>5. Candidate(i, k) \in Candidates
    BY <2>3, <2>4 DEF Candidates
  <2> QED
    BY <2>5 DEF Candidate
<1> QED
  BY <1>1, <1>2

\* One pass through a node leaves the children of all that is passed in reach.
LEMMA Pass ==
  ASSUME WalkTypeOK, todo # <<>>, PassedClosed, schema' = schema,
         NEW c \in Seq(Nodes), Ahead(c) = Ahead(Children(Current)),
         passed' = Append(passed, Current), todo' = c \o Tail(todo)
  PROVE  /\ Range(passed)' = Range(passed) \cup {Current}
         /\ Reached' = Reached \cup Ahead(Children(Current))
         /\ PassedClosed'
<1>1. Current \in Nodes /\ passed \in Seq(Nodes) /\ todo \in Seq(Nodes) /\ Tail(todo) \in Seq(Nodes)
  BY PassType DEF WalkTypeOK
<1>2. Range(passed)' = Range(passed) \cup {Current}
  <2>1. Range(passed)' = Range(Append(passed, Current))
    BY DEF Range
  <2> QED
    BY <1>1, <2>1, RangeAppend
<1>3. Ahead(todo)' = Ahead(Children(Current)) \cup Ahead(Tail(todo))
  <2>1. Ahead(todo)' = Ahead(c \o Tail(todo))
    BY ResolveStable DEF Ahead
  <2> QED
    BY <1>1, <2>1, AheadConcat
<1>4. Ahead(todo) = {Current} \cup Ahead(Tail(todo))
  BY <1>1, AheadHead DEF Current
<1>5. Reached' = Reached \cup Ahead(Children(Current))
  BY <1>2, <1>3, <1>4 DEF Reached
<1>6. \A m : Ahead(Children(m))' = Ahead(Children(m))
  BY ResolveStable DEF Ahead, Children
<1>7. PassedClosed'
  BY <1>2, <1>5, <1>6 DEF PassedClosed
<1> QED
  BY <1>2, <1>5, <1>7

\* A request begins with its first node ahead and nothing passed.
LEMMA StartSearch ==
  ASSUME NEW r, NEW p, Start(r, p)
  PROVE  SearchInv'
BY DEF Start, SearchInv, PassedClosed, Range

\* What is merged into a node depends on the schema only.
LEMMA MergedStable ==
  ASSUME schema' = schema, node' = node
  PROVE  Merged(node)' = Merged(node)
<1>1. \A S : ClosedUnderChildren(S)' = ClosedUnderChildren(S)
  BY ResolveStable DEF ClosedUnderChildren, Children
<1> QED
  BY <1>1 DEF Merged

\* A step that leaves the search alone.
LEMMA SearchStable ==
  ASSUME UNCHANGED <<schema, todo, passed, node>>
  PROVE  PassedClosed' = PassedClosed /\ AllGathered' = AllGathered
<1>1. Reached' = Reached /\ Range(passed)' = Range(passed)
  BY ResolveStable DEF Reached, Ahead, Range
<1>2. \A m : Ahead(Children(m))' = Ahead(Children(m))
  BY ResolveStable DEF Ahead, Children
<1>3. PassedClosed' = PassedClosed
  BY <1>1, <1>2 DEF PassedClosed
<1> QED
  BY <1>1, <1>3, MergedStable DEF AllGathered

\* A step keeps SearchInv.
LEMMA SearchNext ==
  ASSUME WalkInv, RefsSettle, SearchInv, [WalkNext]_<<schema, walkVars>>
  PROVE  SearchInv'
<1>1. WalkTypeOK /\ schema \in Schemas
  BY DEF WalkInv, WalkTypeOK
<1>2. ASSUME NEW kind \in {"completion", "hover"}, NEW p \in Paths, Ask(kind, p)
      PROVE  SearchInv'
  BY <1>2, StartSearch DEF Ask
<1>3. CASE StepInto
  <2>1. passed' = <<>> /\ todo' # <<>> /\ pc' = "walk"
    BY <1>3 DEF StepInto
  <2> QED
    BY <2>1 DEF SearchInv, PassedClosed, Range
<1>4. CASE StepThrough
  <2>1. ResolvedChildren(Current) \in Seq(Nodes) /\ Children(Current) \in Seq(Nodes) /\ Current \in Nodes
        /\ Len(ResolvedChildren(Current)) = Len(Children(Current)) /\ passed \in Seq(Nodes)
    BY <1>1, <1>4, PassType DEF StepThrough, WalkTypeOK
  <2>2. \A i \in DOMAIN Children(Current) :
          ResolvedChildren(Current)[i] = Resolve(Children(Current)[i]) /\ Children(Current)[i] \in Nodes
    BY <2>1 DEF ResolvedChildren
  <2>3. \A i \in DOMAIN Children(Current) : Resolve(ResolvedChildren(Current)[i]) = Resolve(Children(Current)[i])
    BY <2>2 DEF RefsSettle
  <2>4. DOMAIN ResolvedChildren(Current) = DOMAIN Children(Current)
    BY DEF ResolvedChildren
  <2>5. Ahead(ResolvedChildren(Current)) = Ahead(Children(Current))
    BY <2>3, <2>4 DEF Ahead
  <2>6. /\ schema' = schema /\ pc' = "walk" /\ left' = left /\ left # <<>> /\ todo # <<>> /\ pc = "walk"
        /\ passed' = Append(passed, Current) /\ todo' = ResolvedChildren(Current) \o Tail(todo)
        /\ Direct(Current, Head(left)) = NoNode
    BY <1>4 DEF StepThrough
  <2>7. PassedClosed' /\ Range(passed)' = Range(passed) \cup {Current}
    BY <1>1, <2>1, <2>5, <2>6, Pass DEF SearchInv
  <2>8. \A m \in Range(passed)' : Direct(m, Head(left))' = NoNode
    <3>1. \A m : Direct(m, Head(left))' = Direct(m, Head(left))
      BY <2>6 DEF Direct, Properties
    <3> QED
      BY <2>6, <2>7, <3>1 DEF SearchInv
  <2>9. passed' # <<>>
    BY <2>1, <2>6
  <2> QED
    BY <2>6, <2>7, <2>8, <2>9 DEF SearchInv
<1>5. CASE Arrive
  <2>1. PICK n \in Nodes : todo = <<Resolve(n)>>
    BY <1>5 DEF Arrive, WalkInv
  <2>2. /\ passed' = <<>> /\ todo' = <<Resolve(n)>> /\ node' = Resolve(n) /\ schema' = schema
        /\ ask' = ask /\ (pc' = "done" <=> ask = "hover") /\ pc' \in {"done", "collect"}
    BY <1>5, <2>1 DEF Arrive, WalkInv
  <2>3. Resolve(Resolve(n)) = Resolve(n) /\ Resolve(n) \in Nodes
    BY <1>1, ResolveType DEF RefsSettle
  <2>4. Reached' = {Resolve(n)}
    <3>1. Ahead(todo)' = {Resolve(n)}
      BY <2>2, <2>3, ResolveStable DEF Ahead
    <3> QED
      BY <2>2, <3>1 DEF Reached, Range
  <2>5. PassedClosed'
    BY <2>2 DEF PassedClosed, Range
  <2>6. Reached' \subseteq Merged(node)'
    <3>1. Merged(node)' = Merged(Resolve(n))
      BY <2>2, ResolveStable DEF Merged, ClosedUnderChildren, Children
    <3> QED
      BY <1>1, <2>3, <2>4, <3>1, MergedClosed
  <2> QED
    BY <2>2, <2>4, <2>5, <2>6 DEF SearchInv, AllGathered
<1>6. CASE Collect
  <2>1. /\ schema' = schema /\ pc' = "collect" /\ pc = "collect" /\ todo # <<>> /\ node' = node
        /\ passed' = Append(passed, Current) /\ todo' = Children(Current) \o Tail(todo)
    BY <1>6 DEF Collect
  <2>2. Children(Current) \in Seq(Nodes) /\ todo \in Seq(Nodes) /\ node \in Nodes
    BY <1>1, <2>1, PassType DEF WalkTypeOK, WalkInv
  <2>3. node \in Reached /\ PassedClosed /\ Reached \subseteq Merged(node)
    BY <2>1 DEF SearchInv, AllGathered
  <2>4. PassedClosed' /\ Reached' = Reached \cup Ahead(Children(Current))
    BY <1>1, <2>1, <2>2, <2>3, Pass
  <2>5. Current \in Reached
    BY <2>1, <2>2, AheadHead DEF Reached, Current
  <2>6. Reached' \subseteq Merged(node)
    BY <1>1, <2>2, <2>3, <2>4, <2>5, MergedClosed
  <2>7. Merged(node)' = Merged(node)
    BY <2>1, MergedStable
  <2> QED
    BY <2>1, <2>3, <2>4, <2>6, <2>7 DEF SearchInv, AllGathered
<1>7. CASE FallBack
  BY <1>7, StartSearch DEF FallBack
<1>8. CASE Finish
  <2>1. UNCHANGED <<schema, ask, todo, passed, node>> /\ pc' = "done"
    BY <1>8 DEF Finish
  <2>2. AllGathered' = AllGathered
    BY <2>1, SearchStable
  <2>3. node # NoNode => pc = "collect" /\ todo = <<>>
    BY <1>8 DEF Finish, NoResult, WalkInv
  <2> QED
    BY <2>1, <2>2, <2>3 DEF SearchInv
<1>9. ASSUME NEW c \in Candidates, Accept(c)
      PROVE  SearchInv'
  BY <1>9, StartSearch DEF Accept
<1>10. CASE UNCHANGED <<schema, walkVars>>
  <2>1. UNCHANGED <<schema, ask, pc, left, todo, passed, node>>
    BY <1>10 DEF walkVars
  <2>2. AllGathered' = AllGathered /\ PassedClosed' = PassedClosed
    BY <2>1, SearchStable
  <2>3. \A m : Direct(m, Head(left))' = Direct(m, Head(left))
    BY <2>1 DEF Direct, Properties
  <2>4. Range(passed)' = Range(passed)
    BY <2>1 DEF Range
  <2> QED
    BY <2>1, <2>2, <2>3, <2>4 DEF SearchInv
<1> QED
  BY <1>2, <1>3, <1>4, <1>5, <1>6, <1>7, <1>8, <1>9, <1>10 DEF WalkNext, WalkStep

(***************************************************************************)
(* The theorems.                                                           *)
(***************************************************************************)
\* What holds of the search while a request walks, if the $ref settle.
SearchSound == WalkInv /\ (RefsSettle => SearchInv)

\* The search through combinators is complete in every state.
LEMMA SearchInvariant == WalkSpec => []SearchSound
<1>1. WalkInit => SearchSound
  <2> SUFFICES ASSUME WalkInit PROVE SearchSound
    OBVIOUS
  <2>1. SearchInv
    BY DEF WalkInit, SearchInv
  <2> QED
    BY <2>1, WalkInitType DEF SearchSound
<1>2. SearchSound /\ [WalkNext]_<<schema, walkVars>> => SearchSound'
  <2> SUFFICES ASSUME SearchSound, [WalkNext]_<<schema, walkVars>> PROVE SearchSound'
    OBVIOUS
  <2>1. WalkInv'
    BY WalkNextType DEF SearchSound
  <2>2. schema' = schema
    BY DEF WalkNext, WalkStep, Ask, StepInto, StepThrough, Arrive, Collect, FallBack, Finish, Accept, walkVars
  <2>3. RefsSettle' = RefsSettle
    BY <2>2, ResolveStable DEF RefsSettle
  <2> QED
    BY <2>1, <2>3, SearchNext DEF SearchSound
<1> QED
  BY <1>1, <1>2, PTL DEF WalkSpec

\* Completion offers the fields of every node that allOf, oneOf and anyOf merge
\* into the one at the end of the path, and no others, however they are nested
\* and wherever $ref leads in between (collect_properties, fields_at).
THEOREM CompletionComplete == WalkSpec => []OffersMergedFields
<1>1. ASSUME SearchSound, RefsSettle, pc = "done", ask = "completion", node # NoNode
      PROVE  {c.name : c \in Candidates} = UNION {DOMAIN Properties(m) : m \in Merged(node)}
  <2>1. WalkTypeOK /\ todo = <<>> /\ node \in Reached /\ PassedClosed /\ Reached \subseteq Merged(node)
    BY <1>1 DEF SearchSound, WalkInv, SearchInv, AllGathered
  <2>2. Reached = Range(passed)
    BY <2>1 DEF Reached, Ahead
  <2>3. Merged(node) = Range(passed)
    BY <2>1, <2>2, PassedAll
  <2> QED
    BY <1>1, <2>1, <2>3, CandidateNames
<1>2. SearchSound => OffersMergedFields
  BY <1>1 DEF OffersMergedFields
<1> QED
  BY <1>2, SearchInvariant, PTL

\* A path is given up only where no node merged into the present one has the
\* segment, so hover has an answer wherever the schema has one (step).
THEOREM SearchComplete == WalkSpec => []GivesUpOnlyUnknown
<1>1. ASSUME SearchSound, RefsSettle, pc = "walk", left # <<>>, todo = <<>>
      PROVE  \A m \in Merged(passed[1]) : Direct(m, Head(left)) = NoNode
  <2>1. /\ WalkTypeOK /\ PassedClosed /\ passed # <<>>
        /\ \A m \in Range(passed) : Direct(m, Head(left)) = NoNode
    BY <1>1 DEF SearchSound, WalkInv, SearchInv
  <2>2. passed[1] \in Range(passed)
    BY <2>1 DEF WalkTypeOK, Range
  <2> QED
    BY <1>1, <2>1, <2>2, PassedAll
<1>2. SearchSound => GivesUpOnlyUnknown
  BY <1>1 DEF GivesUpOnlyUnknown
<1> QED
  BY <1>2, SearchInvariant, PTL

\* Beside the validator, hover and completion go on as they do alone: what
\* holds of them by themselves holds in SchemaUse.
THEOREM WalkAlone == Spec => WalkSpec
<1>1. Init => WalkInit
  BY DEF Init
<1>2. [Next]_vars => [WalkNext]_<<schema, walkVars>>
  BY DEF Next, Publish, WalkValue, Request, Answered, vars
<1> QED
  BY <1>1, <1>2, PTL DEF Spec, WalkSpec

(***************************************************************************)
(* The validator on a plain schema.                                        *)
(***************************************************************************)
\* The nodes the segments of s lead through from the root.
Trail(s, w) ==
  /\ w \in [0 .. Len(s) -> Nodes]
  /\ w[0] = Root
  /\ \A i \in 1 .. Len(s) : w[i] = Direct(w[i - 1], s[i])

\* The node they lead to.
LedTo(s, n) == \E w : Trail(s, w) /\ w[Len(s)] = n

\* Places that hold the first and with each the next one are all there are.
LEMMA AllPlaces ==
  ASSUME NEW n \in Nat, NEW S, 0 \in S, \A i \in 1 .. n : i - 1 \in S => i \in S
  PROVE  0 .. n \subseteq S
<1> DEFINE Without == (0 .. n) \ S
<1>1. SUFFICES ASSUME Without # {} PROVE FALSE
  OBVIOUS
<1>2. PICK m \in Without : \A j \in Without : m <= j
  <2>1. Without \in SUBSET Nat
    OBVIOUS
  <2> HIDE DEF Without
  <2> QED
    BY <1>1, <2>1, LeastMember
<1>3. m \in 1 .. n /\ m - 1 \in 0 .. n /\ ~ (m <= m - 1)
  BY <1>2
<1>4. m - 1 \in S
  BY <1>2, <1>3
<1> QED
  BY <1>2, <1>3, <1>4

\* Segments lead to one node at most,
LEMMA LedToOne ==
  ASSUME NEW s \in Seq(Segment), NEW n, NEW m, LedTo(s, n), LedTo(s, m)
  PROVE  n = m
<1>1. PICK v : Trail(s, v) /\ v[Len(s)] = n
  BY DEF LedTo
<1>2. PICK w : Trail(s, w) /\ w[Len(s)] = m
  BY DEF LedTo
<1>3. PICK l \in Nat : l = Len(s)
  OBVIOUS
<1> DEFINE S == {i \in 0 .. l : v[i] = w[i]}
<1>4. 0 \in S
  BY <1>1, <1>2, <1>3 DEF Trail
<1>5. ASSUME NEW i \in 1 .. l, i - 1 \in S
      PROVE  i \in S
  BY <1>1, <1>2, <1>3, <1>5 DEF Trail
<1>6. 0 .. l \subseteq S
  <2> HIDE DEF S
  <2> QED
    BY <1>4, <1>5, AllPlaces
<1>7. l \in S
  BY <1>6
<1> QED
  BY <1>1, <1>2, <1>3, <1>7

\* none leads to the root,
LEMMA LedToRoot == LedTo(<<>>, Root)
<1> DEFINE w == [i \in 0 .. 0 |-> Root]
<1>1. Trail(<<>>, w) /\ w[Len(<<>>)] = Root
  BY RootType DEF Trail
<1> QED
  BY <1>1 DEF LedTo

\* and one more to what is directly below.
LEMMA LedToNext ==
  ASSUME NEW s \in Seq(Segment), NEW n, LedTo(s, n), NEW seg \in Segment, Direct(n, seg) \in Nodes
  PROVE  LedTo(Append(s, seg), Direct(n, seg))
<1>1. PICK w : Trail(s, w) /\ w[Len(s)] = n
  BY DEF LedTo
<1>2. PICK l \in Nat : l = Len(s)
  OBVIOUS
<1>3. /\ Len(Append(s, seg)) = l + 1 /\ Append(s, seg)[l + 1] = seg
      /\ \A i \in 1 .. l : Append(s, seg)[i] = s[i]
  BY <1>2
<1> DEFINE v == [i \in 0 .. l + 1 |-> IF i = l + 1 THEN Direct(n, seg) ELSE w[i]]
<1>4. v \in [0 .. l + 1 -> Nodes] /\ v[0] = Root /\ v[l + 1] = Direct(n, seg)
  BY <1>1, <1>2 DEF Trail
<1>5. ASSUME NEW i \in 1 .. l + 1
      PROVE  v[i] = Direct(v[i - 1], Append(s, seg)[i])
  <2>1. CASE i = l + 1
    <3>1. v[i - 1] = n
      BY <1>1, <1>2, <2>1
    <3> QED
      BY <1>3, <1>4, <2>1, <3>1
  <2>2. CASE i # l + 1
    <3>1. i \in 1 .. l /\ v[i] = w[i] /\ v[i - 1] = w[i - 1]
      BY <2>2
    <3> QED
      BY <1>1, <1>2, <1>3, <3>1 DEF Trail
  <2> QED
    BY <2>1, <2>2
<1>6. Trail(Append(s, seg), v)
  <2> HIDE DEF v
  <2> QED
    BY <1>3, <1>4, <1>5 DEF Trail
<1> QED
  BY <1>3, <1>4, <1>6 DEF LedTo

\* On a plain schema every reader reads a node as it stands.
LEMMA PlainReads ==
  ASSUME schema \in Schemas, Plain, NEW n \in Nodes
  PROVE  /\ Resolve(n) = n /\ ResolveCombinator(n) = n /\ Children(n) = <<>>
         /\ ResolvedChildren(n) = <<>>
         /\ \A k : HolderOf(n, k) = IF k \in DOMAIN Properties(n) THEN n ELSE NoNode
         /\ \A k \in Names : Direct(n, k) = IF k \in DOMAIN Properties(n) THEN Properties(n)[k] ELSE NoNode
         /\ Direct(n, Index) = schema[n].items
<1>1. schema[n].ref = NoNode /\ schema[n].children = <<>> /\ schema[n].additional \notin Nodes
  BY DEF Plain
<1>2. Resolve(n) = n
  <2>1. PICK c : IsChain(c, n, MaxRefs)
    BY ChainExists, MaxRefsAssumption
  <2> DEFINE F(g) == [i \in 0 .. MaxRefs |-> IF i = 0 THEN n ELSE Follow(g[i - 1])]
  <2>2. Chain(n) = CHOOSE g : g = F(g)
    BY DEF Chain
  <2>3. Chain(n) = F(Chain(n))
    BY <2>1, <2>2 DEF IsChain
  <2> DEFINE S == {i \in 0 .. MaxRefs : Chain(n)[i] = n}
  <2>4. 0 \in S
    BY <2>3, MaxRefsAssumption
  <2>5. ASSUME NEW i \in 1 .. MaxRefs, i - 1 \in S
        PROVE  i \in S
    <3>1. Chain(n)[i] = Follow(Chain(n)[i - 1])
      BY <2>3, MaxRefsAssumption
    <3> QED
      BY <1>1, <2>5, <3>1, MaxRefsAssumption DEF Follow
  <2>6. 0 .. MaxRefs \subseteq S
    <3> HIDE DEF S
    <3> QED
      BY <2>4, <2>5, AllPlaces, MaxRefsAssumption
  <2> QED
    BY <2>6, MaxRefsAssumption DEF Resolve
<1>3. ResolveCombinator(n) = n
  <2>1. {i \in DOMAIN schema[n].children : schema[schema[n].children[i]].properties # NoProperties} = {}
    BY <1>1
  <2> QED
    BY <2>1 DEF ResolveCombinator
<1>4. ASSUME NEW k
      PROVE  HolderOf(n, k) = IF k \in DOMAIN Properties(n) THEN n ELSE NoNode
  <2>1. Holders(n) = <<n>>
    BY <1>1 DEF Holders
  <2> DEFINE S == {i \in DOMAIN Holders(n) : k \in DOMAIN Properties(Holders(n)[i])}
  <2>2. S = IF k \in DOMAIN Properties(n) THEN {1} ELSE {}
    BY <2>1
  <2> DEFINE first == CHOOSE i \in S : \A j \in S : i <= j
  <2>3. HolderOf(n, k) = IF S = {} THEN NoNode ELSE Holders(n)[first]
    BY DEF HolderOf
  <2> HIDE DEF S
  <2>4. CASE k \in DOMAIN Properties(n)
    <3>1. first = 1 /\ S # {}
      BY <2>2, <2>4
    <3> HIDE DEF first
    <3>2. HolderOf(n, k) = Holders(n)[1]
      BY <2>3, <3>1
    <3> QED
      BY <2>1, <2>4, <3>2
  <2>5. CASE k \notin DOMAIN Properties(n)
    BY <2>2, <2>3, <2>5
  <2> QED
    BY <2>4, <2>5
<1>5. Children(n) = <<>> /\ ResolvedChildren(n) = <<>>
  BY <1>1 DEF Children, ResolvedChildren
<1>6. \A k \in Names : Direct(n, k) = IF k \in DOMAIN Properties(n) THEN Properties(n)[k] ELSE NoNode
  BY <1>1, SentinelAssumption DEF Direct
<1>7. Direct(n, Index) = schema[n].items
  BY DEF Direct
<1> QED
  BY <1>2, <1>3, <1>4, <1>5, <1>6, <1>7

\* A value's place, with the places on the way to it.
LEMMA PlaceType ==
  ASSUME doc \in Docs, NEW p \in DOMAIN doc
  PROVE  /\ p \in Seq(Names \cup Elements) /\ doc[p] \in ValueTypes
         /\ SchemaPath(p) \in Seq(Segment) /\ Len(SchemaPath(p)) = Len(p)
         /\ \A k \in 1 .. Len(p) :
              /\ SubSeq(p, 1, k - 1) \in DOMAIN doc
              /\ doc[SubSeq(p, 1, k - 1)] \in {"tagged", IF p[k] \in Names THEN "object" ELSE "array"}
              /\ SchemaPath(p)[k] = IF p[k] \in Names THEN p[k] ELSE Index
<1>1. p \in Seq(Names \cup Elements) /\ doc[p] \in ValueTypes
  BY DocAssumption DEF Places
<1>2. \A k \in 1 .. Len(p) :
        /\ SubSeq(p, 1, k - 1) \in DOMAIN doc
        /\ doc[SubSeq(p, 1, k - 1)] \in {"tagged", IF p[k] \in Names THEN "object" ELSE "array"}
  BY DocAssumption
<1>3. DOMAIN p = 1 .. Len(p) /\ Len(p) \in Nat
  BY <1>1
<1>4. \A k \in 1 .. Len(p) : p[k] \in Names \cup Elements
  BY <1>1
<1>5. SchemaPath(p) \in [1 .. Len(p) -> Segment]
  BY <1>3, <1>4 DEF SchemaPath, Segment
<1>6. SchemaPath(p) \in Seq(Segment) /\ Len(SchemaPath(p)) = Len(p)
  BY <1>3, <1>5
<1>7. \A k \in 1 .. Len(p) : SchemaPath(p)[k] = IF p[k] \in Names THEN p[k] ELSE Index
  BY <1>3, <1>4, ElementAssumption DEF SchemaPath
<1> QED
  BY <1>1, <1>2, <1>6, <1>7

\* A place that is not the root is its parent's and one segment more.
LEMMA PlaceBelow ==
  ASSUME doc \in Docs, NEW q \in DOMAIN doc, q # <<>>
  PROVE  /\ Len(q) \in Nat \ {0} /\ Parent(q) \in DOMAIN doc /\ q = Append(Parent(q), Last(q))
         /\ Last(q) \in Names \cup Elements /\ Last(q) = q[Len(q)]
         /\ doc[Parent(q)] \in {"tagged", IF Last(q) \in Names THEN "object" ELSE "array"}
         /\ SchemaPath(q) = Append(SchemaPath(Parent(q)), IF Last(q) \in Names THEN Last(q) ELSE Index)
         /\ Len(Parent(q)) = Len(q) - 1
         /\ \A k \in 1 .. Len(q) - 1 : SubSeq(q, 1, k - 1) = SubSeq(Parent(q), 1, k - 1)
<1>1. q \in Seq(Names \cup Elements)
  BY PlaceType
<1>2. PICK n \in Nat \ {0} : n = Len(q)
  BY <1>1, EmptySeq
<1>3. Parent(q) = SubSeq(q, 1, n - 1) /\ Last(q) = q[n] /\ n \in 1 .. n
  BY <1>2 DEF Parent, Last
<1>4. /\ Parent(q) \in DOMAIN doc
      /\ doc[Parent(q)] \in {"tagged", IF Last(q) \in Names THEN "object" ELSE "array"}
  BY <1>2, <1>3, PlaceType
<1>5. Parent(q) \in Seq(Names \cup Elements)
  BY <1>4, PlaceType
<1>6. Len(Parent(q)) = n - 1 /\ \A i \in 1 .. n - 1 : Parent(q)[i] = q[i]
  BY <1>1, <1>2, <1>3
<1>7. Last(q) \in Names \cup Elements
  BY <1>1, <1>2, <1>3
<1>8. q = Append(Parent(q), Last(q))
  <2>1. Append(Parent(q), Last(q)) \in Seq(Names \cup Elements) /\ Len(Append(Parent(q), Last(q))) = n
    BY <1>2, <1>5, <1>6, <1>7
  <2>2. \A i \in 1 .. n : Append(Parent(q), Last(q))[i] = q[i]
    BY <1>2, <1>3, <1>5, <1>6, <1>7
  <2> QED
    BY <1>1, <1>2, <2>1, <2>2, SeqEqual
<1>9. SchemaPath(q) = Append(SchemaPath(Parent(q)), IF Last(q) \in Names THEN Last(q) ELSE Index)
  <2> DEFINE seg == IF Last(q) \in Names THEN Last(q) ELSE Index
             s == SchemaPath(Parent(q))
  <2>1. s \in Seq(Segment) /\ Len(s) = n - 1 /\ seg \in Segment
    BY <1>2, <1>4, <1>6, PlaceType DEF Segment
  <2>2. SchemaPath(q) \in Seq(Segment) /\ Len(SchemaPath(q)) = n
    BY <1>2, PlaceType
  <2>3. Append(s, seg) \in Seq(Segment) /\ Len(Append(s, seg)) = n
    BY <1>2, <2>1
  <2>4. ASSUME NEW i \in 1 .. n
        PROVE  SchemaPath(q)[i] = Append(s, seg)[i]
    <3>1. CASE i = n
      BY <1>2, <1>3, <2>1, <3>1, PlaceType
    <3>2. CASE i # n
      <4>1. i \in 1 .. n - 1
        BY <3>2
      <4>2. s[i] = IF q[i] \in Names THEN q[i] ELSE Index
        BY <1>4, <1>6, <4>1, PlaceType
      <4>3. SchemaPath(q)[i] = IF q[i] \in Names THEN q[i] ELSE Index
        BY <1>2, PlaceType
      <4>4. Append(s, seg)[i] = s[i]
        BY <2>1, <4>1
      <4> QED
        BY <4>2, <4>3, <4>4
    <3> QED
      BY <3>1, <3>2
  <2> HIDE DEF s, seg
  <2>5. SchemaPath(q) = Append(s, seg)
    BY <2>2, <2>3, <2>4, SeqEqual
  <2> QED
    BY <2>5 DEF s, seg
<1>10. ASSUME NEW k \in 1 .. n - 1
       PROVE  SubSeq(q, 1, k - 1) = SubSeq(Parent(q), 1, k - 1)
  <2>1. k - 1 \in 0 .. n - 1 /\ k - 1 <= n
    BY <1>2
  <2>2. SubSeq(q, 1, k - 1) = [i \in 1 .. k - 1 |-> q[i]]
    BY <1>1, <1>2, <2>1
  <2>3. SubSeq(Parent(q), 1, k - 1) = [i \in 1 .. k - 1 |-> Parent(q)[i]]
    BY <1>5, <1>6, <2>1
  <2>4. \A i \in 1 .. k - 1 : Parent(q)[i] = q[i]
    BY <1>6
  <2> QED
    BY <2>2, <2>3, <2>4
<1> QED
  BY <1>2, <1>3, <1>4, <1>6, <1>7, <1>8, <1>9, <1>10

\* The places on the way to one.
LEMMA PlaceAbove ==
  ASSUME doc \in Docs, NEW p \in DOMAIN doc, NEW j \in 0 .. Len(p)
  PROVE  /\ SubSeq(p, 1, j) \in DOMAIN doc /\ Len(SubSeq(p, 1, j)) = j
         /\ j = Len(p) => SubSeq(p, 1, j) = p
         /\ \A i \in 1 .. j : SubSeq(p, 1, j)[i] = p[i] /\ SchemaPath(SubSeq(p, 1, j))[i] = SchemaPath(p)[i]
<1>1. p \in Seq(Names \cup Elements)
  BY PlaceType
<1>2. PICK n \in Nat : n = Len(p)
  BY <1>1
<1>3. SubSeq(p, 1, j) = [i \in 1 .. j |-> p[i]] /\ SubSeq(p, 1, j) \in Seq(Names \cup Elements)
      /\ Len(SubSeq(p, 1, j)) = j
  BY <1>1, <1>2
<1>4. j = n => SubSeq(p, 1, j) = p
  <2>1. j = n => \A i \in 1 .. n : SubSeq(p, 1, j)[i] = p[i]
    BY <1>3
  <2> QED
    BY <1>1, <1>2, <1>3, <2>1, SeqEqual
<1>5. SubSeq(p, 1, j) \in DOMAIN doc
  <2>1. CASE j = n
    BY <1>4, <2>1
  <2>2. CASE j # n
    <3>1. j + 1 \in 1 .. n /\ j + 1 - 1 = j
      BY <1>2, <2>2
    <3> QED
      BY <1>2, <3>1, PlaceType
  <2> QED
    BY <2>1, <2>2
<1>6. ASSUME NEW i \in 1 .. j
      PROVE  SubSeq(p, 1, j)[i] = p[i] /\ SchemaPath(SubSeq(p, 1, j))[i] = SchemaPath(p)[i]
  <2>1. SubSeq(p, 1, j)[i] = p[i] /\ i \in 1 .. n
    BY <1>2, <1>3
  <2>2. SchemaPath(p)[i] = IF p[i] \in Names THEN p[i] ELSE Index
    BY <1>2, <2>1, PlaceType
  <2>3. SchemaPath(SubSeq(p, 1, j))[i] =
          IF SubSeq(p, 1, j)[i] \in Names THEN SubSeq(p, 1, j)[i] ELSE Index
    BY <1>3, <1>5, PlaceType
  <2> QED
    BY <2>1, <2>2, <2>3
<1> QED
  BY <1>2, <1>3, <1>4, <1>5, <1>6

\* What a walk that has come to p with n complains of, and what it goes on to.
IssuesOf(p, n) ==
  TypeIssues(p, n) \cup (IF doc[p] = "object" THEN UnknownFields(p, n) \cup MissingFields(p, n) ELSE {})
ToWalk(p, n) ==
  IF doc[p] = "object" THEN FieldsToWalk(p, n)
  ELSE IF doc[p] = "array" THEN ElementsToWalk(p, n) ELSE {}

\* n is the node of the schema for the value at p.
Pair(p, n) == p \in DOMAIN doc /\ ~InTagged(p) /\ n \in Nodes /\ LedTo(SchemaPath(p), n)

OnWay(u, p) == \E j \in 0 .. Len(p) : u.path = SubSeq(p, 1, j)

\* The walk is at values with their nodes only; it has complained of nothing
\* else than it should, and has or will of all that it should.
ValidateInv ==
  /\ doc \in Docs /\ schema \in Schemas
  /\ Plain =>
       /\ \A u \in unchecked : Pair(u.path, u.node)
       /\ \A i \in issues : \E p, n : Pair(p, n) /\ i \in IssuesOf(p, n)
       /\ \A p, n : Pair(p, n) => IssuesOf(p, n) \subseteq issues \/ \E u \in unchecked : OnWay(u, p)

\* A member of a mapping or a sequence that has a node.
LEMMA PairBelow ==
  ASSUME doc \in Docs, schema \in Schemas, NEW p, NEW n, Pair(p, n), NEW q \in MembersAt(p),
         doc[p] # "tagged", NEW m \in Nodes,
         m = Direct(n, IF Last(q) \in Names THEN Last(q) ELSE Index)
  PROVE  Pair(q, m)
<1> DEFINE seg == IF Last(q) \in Names THEN Last(q) ELSE Index
<1>1. q \in DOMAIN doc /\ q # <<>> /\ Parent(q) = p /\ p \in DOMAIN doc /\ ~InTagged(p)
  BY DEF MembersAt, Pair
<1>2. PICK l \in Nat \ {0} : l = Len(q)
  BY <1>1, PlaceBelow
<1>3. SchemaPath(p) \in Seq(Segment) /\ seg \in Segment /\ SchemaPath(q) = Append(SchemaPath(p), seg)
  BY <1>1, PlaceType, PlaceBelow DEF Segment
<1>4. LedTo(SchemaPath(q), m)
  <2> HIDE DEF seg
  <2>1. m = Direct(n, seg) /\ LedTo(SchemaPath(p), n)
    BY DEF seg, Pair
  <2> QED
    BY <1>3, <2>1, LedToNext
<1>5. ASSUME NEW k \in 1 .. l, doc[SubSeq(q, 1, k - 1)] = "tagged"
      PROVE  FALSE
  <2>1. CASE k = l
    BY <1>1, <1>2, <1>5, <2>1 DEF Parent
  <2>2. CASE k # l
    <3>1. k \in 1 .. l - 1
      BY <2>2
    <3>2. /\ Len(p) = Len(q) - 1
          /\ \A i \in 1 .. Len(q) - 1 : SubSeq(q, 1, i - 1) = SubSeq(p, 1, i - 1)
      BY <1>1, PlaceBelow
    <3>3. SubSeq(q, 1, k - 1) = SubSeq(p, 1, k - 1) /\ k \in 1 .. Len(p)
      BY <1>2, <3>1, <3>2
    <3> QED
      BY <1>1, <1>5, <3>3 DEF InTagged
  <2> QED
    BY <2>1, <2>2
<1> QED
  BY <1>1, <1>2, <1>4, <1>5 DEF Pair, InTagged

\* The walk goes on to values with their nodes.
LEMMA WalksPairs ==
  ASSUME doc \in Docs, schema \in Schemas, Plain, NEW p, NEW n, Pair(p, n), NEW v \in ToWalk(p, n)
  PROVE  Pair(v.path, v.node)
<1>1. n \in Nodes
  BY DEF Pair
<1>2. CASE doc[p] = "object"
  <2>1. PICK q \in Known(p, n) : v = [path |-> q, node |-> Properties(HolderOf(n, Last(q)))[Last(q)]]
    BY <1>2 DEF ToWalk, FieldsToWalk
  <2>2. q \in MembersAt(p) /\ HolderOf(n, Last(q)) # NoNode
    BY <2>1 DEF Known
  <2>3. Last(q) \in DOMAIN Properties(n) /\ HolderOf(n, Last(q)) = n
    BY <1>1, <2>2, PlainReads
  <2>4. Last(q) \in Names /\ Properties(n)[Last(q)] \in Nodes
    BY <1>1, <2>3, MembersType
  <2>5. Direct(n, Last(q)) = Properties(n)[Last(q)]
    BY <1>1, <2>3, <2>4, PlainReads
  <2>6. Pair(q, Properties(n)[Last(q)])
    BY <1>2, <2>2, <2>4, <2>5, PairBelow
  <2> QED
    BY <2>1, <2>3, <2>6
<1>3. CASE doc[p] = "array"
  <2>1. PICK q \in MembersAt(p) : v = [path |-> q, node |-> schema[n].items] /\ schema[n].items # NoNode
    BY <1>3 DEF ToWalk, ElementsToWalk
  <2>2. schema[n].items \in Nodes
    BY <1>1, <2>1, FollowType DEF SchemaNode
  <2>3. q \in DOMAIN doc /\ q # <<>> /\ Parent(q) = p
    BY <2>1 DEF MembersAt
  <2>4. Last(q) \notin Names
    BY <1>3, <2>3, PlaceBelow
  <2>5. Direct(n, Index) = schema[n].items
    BY <1>1, PlainReads
  <2>6. Pair(q, schema[n].items)
    BY <1>3, <2>1, <2>2, <2>4, <2>5, PairBelow
  <2> QED
    BY <2>1, <2>6
<1> QED
  BY <1>2, <1>3 DEF ToWalk

\* From a value on the way to p the walk goes on to the next one.
LEMMA WalksOn ==
  ASSUME doc \in Docs, schema \in Schemas, Plain, NEW p, NEW n, Pair(p, n),
         NEW j \in 0 .. Len(p), j # Len(p), NEW m, Pair(SubSeq(p, 1, j), m)
  PROVE  \E v \in ToWalk(SubSeq(p, 1, j), m) : v.path = SubSeq(p, 1, j + 1)
<1> DEFINE o == SubSeq(p, 1, j)
           q == SubSeq(p, 1, j + 1)
<1>1. p \in DOMAIN doc /\ p \in Seq(Names \cup Elements) /\ m \in Nodes
  BY PlaceType DEF Pair
<1>2. PICK l \in Nat : l = Len(p)
  BY <1>1
<1>3. j + 1 \in 1 .. l /\ j + 1 \in 0 .. l /\ j \in 0 .. l /\ j + 1 - 1 = j
  BY <1>2
<1>4. /\ q \in DOMAIN doc /\ Len(q) = j + 1 /\ o \in DOMAIN doc /\ Len(o) = j
      /\ \A i \in 1 .. j + 1 : q[i] = p[i]
      /\ \A i \in 1 .. j : SchemaPath(o)[i] = SchemaPath(p)[i]
  BY <1>1, <1>2, <1>3, PlaceAbove
<1>5. q # <<>>
  BY <1>3, <1>4
<1>6. Last(q) = p[j + 1] /\ Parent(q) = o
  <2>1. Last(q) = p[j + 1]
    BY <1>3, <1>4 DEF Last
  <2>2. Parent(q) = SubSeq(q, 1, j)
    BY <1>3, <1>4 DEF Parent
  <2>3. q \in Seq(Names \cup Elements) /\ Parent(q) \in DOMAIN doc
    BY <1>4, <1>5, PlaceType, PlaceBelow
  <2>4. Parent(q) \in Seq(Names \cup Elements) /\ o \in Seq(Names \cup Elements)
    BY <1>4, <2>3, PlaceType
  <2>5. Len(Parent(q)) = j
    <3>1. Len(Parent(q)) = Len(q) - 1
      BY <1>4, <1>5, PlaceBelow
    <3> QED
      BY <1>4, <3>1
  <2>6. \A i \in 1 .. j : Parent(q)[i] = p[i] /\ o[i] = p[i]
    <3>1. \A i \in 1 .. j : o[i] = p[i]
      BY <1>1, <1>2, <1>3, PlaceAbove
    <3>2. j \in 0 .. Len(q)
      BY <1>3, <1>4
    <3>3. \A i \in 1 .. j : SubSeq(q, 1, j)[i] = q[i]
      BY <1>4, <3>2, PlaceAbove
    <3> HIDE DEF o, q
    <3>4. \A i \in 1 .. j : i \in 1 .. j + 1
      BY <1>3
    <3> QED
      BY <1>4, <2>2, <3>1, <3>3, <3>4
  <2> HIDE DEF o, q
  <2> QED
    BY <1>4, <2>1, <2>4, <2>5, <2>6, SeqEqual
<1>7. q \in MembersAt(o)
  BY <1>4, <1>5, <1>6 DEF MembersAt
<1>8. doc[o] = IF Last(q) \in Names THEN "object" ELSE "array"
  <2>1. doc[o] \in {"tagged", IF Last(q) \in Names THEN "object" ELSE "array"}
    BY <1>4, <1>5, <1>6, PlaceBelow
  <2>2. doc[o] # "tagged"
    BY <1>2, <1>3 DEF Pair, InTagged
  <2> QED
    BY <2>1, <2>2
<1>9. PICK w : Trail(SchemaPath(p), w)
  BY DEF Pair, LedTo
<1>10. /\ SchemaPath(p) \in Seq(Segment) /\ Len(SchemaPath(p)) = l
       /\ SchemaPath(o) \in Seq(Segment) /\ Len(SchemaPath(o)) = j
       /\ SchemaPath(p)[j + 1] = IF p[j + 1] \in Names THEN p[j + 1] ELSE Index
  BY <1>1, <1>2, <1>3, <1>4, PlaceType
<1>11. w[j] = m
  <2> DEFINE v == [i \in 0 .. j |-> w[i]]
  <2>1. v \in [0 .. j -> Nodes] /\ v[0] = Root /\ v[j] = w[j]
    BY <1>3, <1>9, <1>10 DEF Trail
  <2>2. ASSUME NEW i \in 1 .. j
        PROVE  v[i] = Direct(v[i - 1], SchemaPath(o)[i])
    <3>1. i \in 1 .. l /\ v[i] = w[i] /\ v[i - 1] = w[i - 1]
      BY <1>3
    <3> QED
      BY <1>4, <1>9, <1>10, <3>1 DEF Trail
  <2> HIDE DEF v
  <2>3. Trail(SchemaPath(o), v)
    BY <1>10, <2>1, <2>2 DEF Trail
  <2>4. LedTo(SchemaPath(o), w[j])
    BY <1>10, <2>1, <2>3 DEF LedTo
  <2>5. LedTo(SchemaPath(o), m)
    BY DEF Pair
  <2> QED
    BY <1>10, <2>4, <2>5, LedToOne
<1>12. Direct(m, IF Last(q) \in Names THEN Last(q) ELSE Index) \in Nodes
  <2>1. w[j + 1] \in Nodes /\ w[j + 1] = Direct(w[j], SchemaPath(p)[j + 1])
    BY <1>3, <1>9, <1>10 DEF Trail
  <2> HIDE DEF q
  <2> QED
    BY <1>6, <1>10, <1>11, <2>1
<1> HIDE DEF o, q
<1>13. CASE Last(q) \in Names
  <2>1. Last(q) \in DOMAIN Properties(m) /\ HolderOf(m, Last(q)) = m
    BY <1>1, <1>12, <1>13, PlainReads, RootType
  <2>2. q \in Known(o, m)
    BY <1>1, <1>7, <2>1, RootType DEF Known
  <2>3. [path |-> q, node |-> Properties(HolderOf(m, Last(q)))[Last(q)]] \in ToWalk(o, m)
    BY <1>8, <1>13, <2>2 DEF ToWalk, FieldsToWalk
  <2> QED
    BY <2>3 DEF o, q
<1>14. CASE Last(q) \notin Names
  <2>1. schema[m].items # NoNode
    BY <1>1, <1>12, <1>14, PlainReads, RootType
  <2>2. [path |-> q, node |-> schema[m].items] \in ToWalk(o, m)
    BY <1>7, <1>8, <1>14, <2>1 DEF ToWalk, ElementsToWalk
  <2> QED
    BY <2>2 DEF o, q
<1> QED
  BY <1>13, <1>14

\* Neither the value nor its schema changes while they are read.
LEMMA ReadingStable ==
  ASSUME UNCHANGED <<doc, schema>>
  PROVE  /\ Plain' = Plain
         /\ \A p, n : Pair(p, n)' = Pair(p, n) /\ IssuesOf(p, n)' = IssuesOf(p, n)
         /\ \A s, n : LedTo(s, n)' = LedTo(s, n)
<1>1. \A n, seg : Direct(n, seg)' = Direct(n, seg)
  BY DEF Direct, Properties
<1>2. \A s, n : LedTo(s, n)' = LedTo(s, n)
  BY <1>1 DEF LedTo, Trail
<1>3. \A p, n : Pair(p, n)' = Pair(p, n)
  BY <1>2 DEF Pair, InTagged, SchemaPath
<1>4. \A n, k : HolderOf(n, k)' = HolderOf(n, k)
  BY DEF HolderOf, Holders, Properties
<1>5. \A p, n : IssuesOf(p, n)' = IssuesOf(p, n)
  BY <1>4 DEF IssuesOf, TypeIssues, TypeFits, UnknownFields, Known, MissingFields, MembersAt
<1>6. Plain' = Plain
  BY DEF Plain
<1> QED
  BY <1>2, <1>3, <1>5, <1>6

\* The walk begins at the root,
LEMMA ValidateStart == ValidateInit /\ schema \in Schemas => ValidateInv
<1> SUFFICES ASSUME ValidateInit, schema \in Schemas, Plain PROVE ValidateInv
  BY DEF ValidateInit, ValidateInv
<1>1. doc \in Docs /\ <<>> \in DOMAIN doc /\ unchecked = {[path |-> <<>>, node |-> Root]} /\ issues = {}
  BY DocAssumption DEF ValidateInit
<1>2. Pair(<<>>, Root)
  <2>1. SchemaPath(<<>>) = <<>>
    BY DEF SchemaPath
  <2>2. ~InTagged(<<>>)
    BY DEF InTagged
  <2> QED
    BY <1>1, <2>1, <2>2, LedToRoot, RootType DEF Pair
<1>3. ASSUME NEW p, NEW n, Pair(p, n)
      PROVE  OnWay([path |-> <<>>, node |-> Root], p)
  <2>1. p \in DOMAIN doc /\ Len(p) \in Nat
    BY <1>1, <1>3, PlaceType DEF Pair
  <2>2. 0 \in 0 .. Len(p)
    BY <2>1
  <2>3. Len(SubSeq(p, 1, 0)) = 0 /\ SubSeq(p, 1, 0) \in DOMAIN doc
    BY <1>1, <2>1, <2>2, PlaceAbove
  <2>4. SubSeq(p, 1, 0) = <<>>
    BY <1>1, <2>3, PlaceType, EmptySeq
  <2> QED
    BY <2>2, <2>4 DEF OnWay
<1> QED
  BY <1>1, <1>2, <1>3 DEF ValidateInv

\* and every call of it leaves nothing out.
LEMMA ValidateStep ==
  ASSUME ValidateInv, NEW u \in unchecked, WalkValue(u)
  PROVE  ValidateInv'
<1>1. doc \in Docs /\ schema \in Schemas /\ UNCHANGED <<doc, schema>>
  BY DEF ValidateInv, WalkValue
<1> SUFFICES ASSUME Plain PROVE ValidateInv'
  BY <1>1, ReadingStable DEF ValidateInv
<1> DEFINE p == u.path
           n == u.node
<1>2. Pair(p, n) /\ n \in Nodes
  BY DEF ValidateInv, Pair
<1>3. ResolveCombinator(n) = n
  BY <1>1, <1>2, PlainReads
<1>4. unchecked' = (unchecked \ {u}) \cup ToWalk(p, n) /\ issues' = issues \cup IssuesOf(p, n)
  BY <1>3 DEF WalkValue, ToWalk, IssuesOf
<1>5. \A v \in unchecked' : Pair(v.path, v.node)
  BY <1>1, <1>2, <1>4, WalksPairs DEF ValidateInv
<1>6. \A i \in issues' : \E q, m : Pair(q, m) /\ i \in IssuesOf(q, m)
  BY <1>2, <1>4 DEF ValidateInv
<1>7. ASSUME NEW q, NEW m, Pair(q, m)
      PROVE  IssuesOf(q, m) \subseteq issues' \/ \E v \in unchecked' : OnWay(v, q)
  <2>1. CASE IssuesOf(q, m) \subseteq issues
    BY <1>4, <2>1
  <2>2. CASE \E v \in unchecked \ {u} : OnWay(v, q)
    BY <1>4, <2>2
  <2>3. CASE OnWay(u, q)
    <3>1. PICK j \in 0 .. Len(q) : p = SubSeq(q, 1, j)
      BY <2>3 DEF OnWay
    <3>2. q \in DOMAIN doc /\ Len(q) \in Nat
      BY <1>1, <1>7, PlaceType DEF Pair
    <3>3. CASE j = Len(q)
      <4>1. p = q
        BY <1>1, <3>1, <3>2, <3>3, PlaceAbove
      <4>2. SchemaPath(q) \in Seq(Segment)
        BY <1>1, <3>2, PlaceType
      <4>3. n = m
        BY <1>2, <1>7, <4>1, <4>2, LedToOne DEF Pair
      <4> QED
        BY <1>4, <4>1, <4>3
    <3>4. CASE j # Len(q)
      <4>1. PICK v \in ToWalk(p, n) : v.path = SubSeq(q, 1, j + 1)
        <5> HIDE DEF p, n
        <5> QED
          BY <1>1, <1>2, <1>7, <3>1, <3>4, WalksOn
      <4>2. j + 1 \in 0 .. Len(q)
        BY <3>2, <3>4
      <4> QED
        BY <1>4, <4>1, <4>2 DEF OnWay
    <3> QED
      BY <3>3, <3>4
  <2> QED
    BY <1>7, <2>1, <2>2, <2>3 DEF ValidateInv
<1> QED
  BY <1>1, <1>5, <1>6, <1>7, ReadingStable DEF ValidateInv, OnWay

\* When all is walked, the issues are those of all values, and no others.
LEMMA ExactIssues ==
  ASSUME ValidateInv, Plain, unchecked = {}, NEW p, NEW n, Pair(p, n)
  PROVE  /\ IssuesOf(p, n) \subseteq issues
         /\ Issue(p, "type") \in issues <=> ~Admits(schema[n].types, doc[p])
<1>1. IssuesOf(p, n) \subseteq issues
  BY DEF ValidateInv
<1>2. TypeFits(doc[p], n) <=> Admits(schema[n].types, doc[p])
  BY DEF TypeFits, Admits
<1>3. ASSUME Issue(p, "type") \in issues
      PROVE  ~TypeFits(doc[p], n)
  <2>1. PICK q, m : Pair(q, m) /\ Issue(p, "type") \in IssuesOf(q, m)
    BY <1>3 DEF ValidateInv
  <2>2. p = q /\ ~TypeFits(doc[q], m)
    BY <2>1 DEF IssuesOf, TypeIssues, UnknownFields, MissingFields, Issue
  <2>3. SchemaPath(p) \in Seq(Segment)
    BY PlaceType DEF Pair, ValidateInv
  <2>4. m = n
    BY <2>1, <2>2, <2>3, LedToOne DEF Pair
  <2> QED
    BY <2>2, <2>4
<1>4. ~TypeFits(doc[p], n) => Issue(p, "type") \in issues
  BY <1>1 DEF IssuesOf, TypeIssues
<1> QED
  BY <1>1, <1>2, <1>3, <1>4

(***************************************************************************)
(* Hover and completion on a plain schema, and the three together.         *)
(***************************************************************************)
\* Between its segments a walk is at the one node they lead to.
PlainWalk ==
  /\ pc = "walk" =>
       \/ \E s \in Seq(Segment), n \in Nodes :
            path = s \o left /\ LedTo(s, n) /\ todo = <<n>> /\ passed = <<>>
       \/ left # <<>> /\ todo = <<>>
  /\ pc = "collect" =>
       LedTo(path, node) /\ ((todo = <<node>> /\ passed = <<>>) \/ (todo = <<>> /\ passed = <<node>>))
  /\ pc = "done" /\ node # NoNode =>
       LedTo(path, node) /\ (ask = "completion" => passed = <<node>>)

UseInv ==
  /\ WalkInv /\ ValidateInv
  /\ pc # "idle" => unchecked = {}
  /\ Plain /\ base = Root => PlainWalk

\* A walk begins at the root.
LEMMA StartPlain ==
  ASSUME schema \in Schemas, schema' = schema, Plain, NEW p \in Seq(Segment), Start(Root, p), path' = p
  PROVE  PlainWalk'
<1>1. pc' = "walk" /\ left' = p /\ todo' = <<Root>> /\ passed' = <<>>
  BY PlainReads, RootType DEF Start
<1>2. LedTo(<<>>, Root)' /\ <<>> \in Seq(Segment) /\ p = <<>> \o p
  <2>1. \A n, seg : Direct(n, seg)' = Direct(n, seg)
    BY DEF Direct, Properties
  <2>2. LedTo(<<>>, Root)' = LedTo(<<>>, Root)
    BY <2>1 DEF LedTo, Trail
  <2> QED
    BY <2>2, LedToRoot, ConcatEmptySeq
<1> QED
  BY <1>1, <1>2, RootType DEF PlainWalk

\* A segment taken moves from what is left to what is behind.
LEMMA SegmentTaken ==
  ASSUME NEW s \in Seq(Segment), NEW t \in Seq(Segment), t # <<>>
  PROVE  /\ Head(t) \in Segment /\ Tail(t) \in Seq(Segment) /\ Append(s, Head(t)) \in Seq(Segment)
         /\ s \o t = Append(s, Head(t)) \o Tail(t)
<1>1. Head(t) \in Segment /\ Tail(t) \in Seq(Segment) /\ <<Head(t)>> \in Seq(Segment)
  BY HeadTailProperties
<1>2. t = <<Head(t)>> \o Tail(t) /\ Append(s, Head(t)) = s \o <<Head(t)>>
  BY <1>1
<1>3. s \o (<<Head(t)>> \o Tail(t)) = (s \o <<Head(t)>>) \o Tail(t)
  BY <1>1, ConcatAssociative
<1> QED
  BY <1>1, <1>2, <1>3

\* A step of the walk keeps to the node the segments lead to.
LEMMA PlainNext ==
  ASSUME WalkInv, doc' = doc, WalkNext, Plain, base = Root => PlainWalk
  PROVE  base' = Root => PlainWalk'
<1> SUFFICES ASSUME base' = Root PROVE PlainWalk'
  OBVIOUS
<1>1. /\ schema \in Schemas /\ schema' = schema /\ path \in Seq(Segment) /\ left \in Seq(Segment)
      /\ ask \in {"none", "completion", "hover"}
  BY DEF WalkInv, WalkTypeOK, WalkNext, WalkStep, Ask, StepInto, StepThrough, Arrive, Collect, FallBack,
         Finish, Accept
<1>2. \A s, n : LedTo(s, n)' = LedTo(s, n)
  BY <1>1, ReadingStable
<1>3. ASSUME NEW kind \in {"completion", "hover"}, NEW p \in Paths, Ask(kind, p)
      PROVE  PlainWalk'
  BY <1>1, <1>3, StartPlain, PathAssumption DEF Ask
<1>4. CASE StepInto
  <2>1. /\ pc = "walk" /\ left # <<>> /\ todo # <<>> /\ base = Root
        /\ Direct(Current, Head(left)) # NoNode /\ left' = Tail(left)
        /\ todo' = <<Resolve(Direct(Current, Head(left)))>>
        /\ passed' = <<>> /\ path' = path /\ pc' = "walk"
    BY <1>4 DEF StepInto
  <2>2. PICK s \in Seq(Segment), n \in Nodes : path = s \o left /\ LedTo(s, n) /\ todo = <<n>>
    BY <2>1 DEF PlainWalk
  <2>3. Current = n
    BY <1>1, <2>2, PlainReads DEF Current
  <2>4. /\ Head(left) \in Segment /\ Append(s, Head(left)) \in Seq(Segment)
        /\ path = Append(s, Head(left)) \o Tail(left)
    BY <1>1, <2>1, <2>2, SegmentTaken
  <2>5. PICK m \in Nodes : m = Direct(n, Head(left))
    BY <1>1, <2>1, <2>3, <2>4, MembersType
  <2>6. todo' = <<m>> /\ LedTo(Append(s, Head(left)), m)
    <3>1. LedTo(Append(s, Head(left)), m)
      BY <2>2, <2>4, <2>5, LedToNext
    <3> QED
      BY <1>1, <2>1, <2>3, <2>5, <3>1, PlainReads
  <2> QED
    BY <1>2, <2>1, <2>4, <2>6 DEF PlainWalk
<1>5. CASE StepThrough
  <2>1. /\ pc = "walk" /\ left # <<>> /\ todo # <<>> /\ base = Root /\ left' = left /\ pc' = "walk"
        /\ todo' = ResolvedChildren(Current) \o Tail(todo)
    BY <1>5 DEF StepThrough
  <2>2. PICK n \in Nodes : todo = <<n>>
    BY <2>1 DEF PlainWalk
  <2>3. Current = n /\ ResolvedChildren(n) = <<>>
    BY <1>1, <2>2, PlainReads DEF Current
  <2>4. todo' = <<>>
    BY <2>1, <2>2, <2>3
  <2> QED
    BY <2>1, <2>4 DEF PlainWalk
<1>6. CASE Arrive
  <2>1. /\ pc = "walk" /\ left = <<>> /\ base = Root /\ node' = Head(todo)
        /\ pc' = IF ask = "hover" THEN "done" ELSE "collect"
        /\ UNCHANGED <<ask, path, todo, passed>>
    BY <1>6 DEF Arrive
  <2>2. PICK s \in Seq(Segment), n \in Nodes :
          path = s \o left /\ LedTo(s, n) /\ todo = <<n>> /\ passed = <<>>
    BY <2>1 DEF PlainWalk
  <2>3. path' = s /\ node' = n
    BY <2>1, <2>2, ConcatEmptySeq
  <2>4. LedTo(path, node)' /\ todo' = <<node'>> /\ passed' = <<>>
    <3>1. LedTo(s, n)'
      BY <1>2, <2>2
    <3>2. LedTo(path, node)'
      BY <2>3, <3>1 DEF LedTo, Trail
    <3> QED
      BY <2>1, <2>2, <2>3, <3>2
  <2>5. pc' = "collect" \/ (pc' = "done" /\ ask' = "hover")
    BY <2>1
  <2> QED
    BY <2>4, <2>5 DEF PlainWalk
<1>7. CASE Collect
  <2>1. /\ pc = "collect" /\ todo # <<>> /\ base = Root /\ pc' = "collect"
        /\ todo' = Children(Current) \o Tail(todo) /\ passed' = Append(passed, Current)
        /\ UNCHANGED <<path, node>>
    BY <1>7 DEF Collect
  <2>2. LedTo(path, node) /\ todo = <<node>> /\ passed = <<>> /\ node \in Nodes
    BY <2>1 DEF PlainWalk, WalkInv
  <2>3. Current = node /\ Children(node) = <<>>
    BY <1>1, <2>2, PlainReads DEF Current
  <2>4. todo' = <<>> /\ passed' = <<node>>
    BY <2>1, <2>2, <2>3
  <2> QED
    BY <1>2, <2>1, <2>2, <2>4 DEF PlainWalk
<1>8. CASE FallBack
  <2>1. /\ path # <<>> /\ Start(MetaRoot, Tail(path)) /\ pc' = "walk" /\ base' = MetaRoot
    BY <1>1, <1>8 DEF FallBack, IsMetadataPath, Start
  <2> QED
    BY <2>1, RootAssumption
<1>9. CASE Finish
  <2>1. /\ pc' = "done" /\ base = Root /\ UNCHANGED <<ask, path, todo, passed, node>>
        /\ (pc = "walk" \/ (pc = "collect" /\ todo = <<>>))
    BY <1>9 DEF Finish, NoResult
  <2>2. pc = "walk" => node = NoNode
    BY DEF WalkInv
  <2> QED
    BY <1>2, <2>1, <2>2 DEF PlainWalk
<1>10. ASSUME NEW c \in Candidates, Accept(c)
       PROVE  PlainWalk'
  <2>1. Append(path, c.name) \in Seq(Segment)
    BY <1>1, CandidateName DEF Segment
  <2> QED
    BY <1>1, <1>10, <2>1, StartPlain DEF Accept
<1> QED
  BY <1>3, <1>4, <1>5, <1>6, <1>7, <1>8, <1>9, <1>10 DEF WalkNext, WalkStep

\* The three readers of a plain schema have the same node for every value.
LEMMA UseInvariant == Spec => []UseInv
<1>1. Init => UseInv
  <2> SUFFICES ASSUME Init PROVE UseInv
    OBVIOUS
  <2>1. WalkInv /\ schema \in Schemas /\ pc = "idle"
    BY WalkInitType DEF Init, WalkInit
  <2>2. ValidateInv
    BY <2>1, ValidateStart DEF Init
  <2> QED
    BY <2>1, <2>2 DEF UseInv, PlainWalk
<1>2. UseInv /\ [Next]_vars => UseInv'
  <2> SUFFICES ASSUME UseInv, [Next]_vars PROVE UseInv'
    OBVIOUS
  <2>1. WalkInv'
    <3>1. [WalkNext]_<<schema, walkVars>>
      BY DEF Next, Publish, WalkValue, Request, Answered, vars
    <3> QED
      BY <3>1, WalkNextType DEF UseInv
  <2>2. CASE Publish
    <3>1. PICK u \in unchecked : WalkValue(u) /\ UNCHANGED walkVars
      BY <2>2 DEF Publish
    <3>2. ValidateInv'
      BY <3>1, ValidateStep DEF UseInv
    <3>3. pc = "idle" /\ pc' = "idle" /\ UNCHANGED <<doc, schema, base>>
      BY <3>1 DEF UseInv, WalkValue, walkVars
    <3> QED
      BY <2>1, <3>2, <3>3 DEF UseInv, PlainWalk
  <2>3. CASE Request
    <3>1. unchecked = {} /\ WalkNext /\ UNCHANGED validateVars
      BY <2>3 DEF Request
    <3>2. schema' = schema /\ UNCHANGED <<doc, schema>> /\ unchecked' = {} /\ issues' = issues
      BY <3>1 DEF validateVars, WalkNext, WalkStep, Ask, StepInto, StepThrough, Arrive, Collect, FallBack,
                  Finish, Accept
    <3>3. ValidateInv'
      BY <3>1, <3>2, ReadingStable DEF UseInv, ValidateInv
    <3>4. Plain' = Plain
      BY <3>2, ReadingStable
    <3>5. Plain /\ base' = Root => PlainWalk'
      BY <3>1, <3>2, PlainNext DEF UseInv
    <3> QED
      BY <2>1, <3>2, <3>3, <3>4, <3>5 DEF UseInv
  <2>4. CASE UNCHANGED vars
    <3>1. UNCHANGED <<doc, schema, unchecked, issues, ask, path, pc, base, left, todo, passed, node>>
      BY <2>4 DEF vars, validateVars, walkVars
    <3>2. ValidateInv'
      BY <3>1, ReadingStable DEF UseInv, ValidateInv, OnWay
    <3>3. PlainWalk' = PlainWalk /\ Plain' = Plain
      BY <3>1, ReadingStable DEF PlainWalk
    <3> QED
      BY <2>1, <3>1, <3>2, <3>3 DEF UseInv
  <2> QED
    BY <2>2, <2>3, <2>4 DEF Next, Answered
<1> QED
  BY <1>1, <1>2, PTL DEF Spec

\* The values at the place asked about are those of the node at its end.
LEMMA PairsHere ==
  ASSUME UseInv, Plain, pc = "done", base = Root, node # NoNode, NEW q \in Here
  PROVE  Pair(q, node) /\ unchecked = {} /\ ValidateInv
<1>1. PlainWalk /\ node \in Nodes
  BY DEF UseInv, WalkInv, WalkTypeOK
<1>2. LedTo(path, node) /\ SchemaPath(q) = path /\ q \in DOMAIN doc /\ ~InTagged(q)
  BY <1>1 DEF PlainWalk, Here
<1> QED
  BY <1>1, <1>2 DEF Pair, UseInv

\* On a plain schema the validator complains of the type of a value if and
\* only if the value does not have the type that hover shows for it.
THEOREM TypesOfHover == Spec => []TypesAgree
<1>1. UseInv => TypesAgree
  BY PairsHere, ExactIssues DEF TypesAgree, Done
<1> QED
  BY <1>1, UseInvariant, PTL

\* The candidates are the fields of the one node passed.
LEMMA PlainCandidates ==
  ASSUME NEW n, n # NoNode, node = n, passed = <<n>>
  PROVE  /\ \A k \in DOMAIN Properties(n) : \E c \in Candidates : c.name = k
         /\ \A c \in Candidates :
              c.name \in DOMAIN Properties(n) /\ (c.required <=> c.name \in schema[n].required)
<1>1. DOMAIN passed = {1} /\ passed[1] = n
  OBVIOUS
<1>2. {m \in FieldsOf(1) : \A h \in 1 .. 1 - 1 : m \notin FieldsOf(h)} = DOMAIN Properties(n)
  BY <1>1 DEF FieldsOf
<1>3. Candidates = {Candidate(1, k) : k \in DOMAIN Properties(n)}
  BY <1>1, <1>2 DEF Candidates
<1>4. \A k : Candidate(1, k).name = k /\ (Candidate(1, k).required <=> k \in schema[n].required)
  BY DEF Candidate
<1>5. ASSUME NEW k \in DOMAIN Properties(n)
      PROVE  \E c \in Candidates : c.name = k
  <2>1. Candidate(1, k) \in Candidates
    BY <1>3
  <2> QED
    BY <1>4, <2>1
<1>6. ASSUME NEW c \in Candidates
      PROVE  c.name \in DOMAIN Properties(n) /\ (c.required <=> c.name \in schema[n].required)
  <2>1. PICK k \in DOMAIN Properties(n) : c = Candidate(1, k)
    BY <1>3
  <2> QED
    BY <1>4, <2>1
<1> QED
  BY <1>5, <1>6

\* On a plain schema completion and validator agree about the fields of a
\* mapping: flagged as unknown is what is not offered in a closed one, flagged
\* as missing what is offered as required.
THEOREM FieldsOfCompletion == Spec => []FieldsAgree
<1>1. ASSUME UseInv, Plain, Done("completion"), NEW p \in Here, doc[p] = "object"
      PROVE  /\ \A q \in MembersAt(p) :
                  Issue(q, "unknown") \in issues <=>
                    /\ schema[node].additional = Forbidden
                    /\ \A c \in Candidates : c.name # Last(q)
             /\ \A c \in Candidates :
                  Issue(Append(p, c.name), "missing") \in issues <=>
                    c.required /\ Append(p, c.name) \notin DOMAIN doc
  <2>1. Pair(p, node) /\ unchecked = {} /\ ValidateInv /\ schema \in Schemas /\ node \in Nodes
    BY <1>1, PairsHere DEF Done, Pair, ValidateInv
  <2>2. passed = <<node>> /\ node # NoNode
    BY <1>1 DEF UseInv, PlainWalk, Done
  <2>3. /\ \A k \in DOMAIN Properties(node) : \E c \in Candidates : c.name = k
        /\ \A c \in Candidates :
             c.name \in DOMAIN Properties(node) /\ (c.required <=> c.name \in schema[node].required)
    BY <2>2, PlainCandidates
  <2>4. IssuesOf(p, node) \subseteq issues
    BY <1>1, <2>1, ExactIssues
  <2>5. \A k : HolderOf(node, k) # NoNode <=> k \in DOMAIN Properties(node)
    BY <1>1, <2>1, <2>2, PlainReads
  <2>6. p \in Seq(Names \cup Elements) /\ SchemaPath(p) \in Seq(Segment)
    BY <2>1, PlaceType DEF Pair, ValidateInv
  <2>7. ASSUME NEW q \in MembersAt(p)
        PROVE  Issue(q, "unknown") \in issues <=>
                 schema[node].additional = Forbidden /\ \A c \in Candidates : c.name # Last(q)
    <3>1. (\A c \in Candidates : c.name # Last(q)) <=> Last(q) \notin DOMAIN Properties(node)
      BY <2>3
    <3>2. ASSUME Issue(q, "unknown") \in issues
          PROVE  schema[node].additional = Forbidden /\ Last(q) \notin DOMAIN Properties(node)
      <4>1. PICK o, m : Pair(o, m) /\ Issue(q, "unknown") \in IssuesOf(o, m)
        BY <1>1, <2>1, <3>2 DEF ValidateInv
      <4>2. q \in MembersAt(o) \ Known(o, m) /\ schema[m].additional = Forbidden
        BY <4>1 DEF IssuesOf, TypeIssues, UnknownFields, MissingFields, Issue
      <4>3. o = p
        BY <4>2 DEF MembersAt
      <4>4. m = node
        BY <2>1, <2>6, <4>1, <4>3, LedToOne DEF Pair
      <4> QED
        BY <2>5, <4>2, <4>3, <4>4 DEF Known
    <3>3. ASSUME schema[node].additional = Forbidden, Last(q) \notin DOMAIN Properties(node)
          PROVE  Issue(q, "unknown") \in issues
      <4>1. Issue(q, "unknown") \in UnknownFields(p, node)
        BY <2>5, <3>3 DEF UnknownFields, Known
      <4> QED
        BY <1>1, <2>4, <4>1 DEF IssuesOf
    <3> QED
      BY <3>1, <3>2, <3>3
  <2>8. ASSUME NEW c \in Candidates
        PROVE  Issue(Append(p, c.name), "missing") \in issues <=>
                 c.required /\ Append(p, c.name) \notin DOMAIN doc
    <3> DEFINE k == c.name
    <3>1. k \in DOMAIN Properties(node) /\ (c.required <=> k \in schema[node].required)
      BY <2>3
    <3>2. k \in Names
      BY <2>1, <3>1, MembersType
    <3>3. ASSUME Issue(Append(p, k), "missing") \in issues
          PROVE  k \in schema[node].required /\ Append(p, k) \notin DOMAIN doc
      <4>1. PICK o, m : Pair(o, m) /\ Issue(Append(p, k), "missing") \in IssuesOf(o, m)
        BY <1>1, <2>1, <3>3 DEF ValidateInv
      <4>2. PICK r \in schema[m].required : Append(o, r) \notin DOMAIN doc /\ Append(p, k) = Append(o, r)
        BY <4>1 DEF IssuesOf, TypeIssues, UnknownFields, MissingFields, Issue
      <4>3. o \in Seq(Names \cup Elements) /\ r \in Names
        <5>1. m \in Nodes /\ o \in DOMAIN doc
          BY <4>1 DEF Pair
        <5>2. schema[m] \in SchemaNode
          BY <2>1, <5>1, FollowType
        <5> QED
          BY <2>1, <5>1, <5>2, PlaceType DEF SchemaNode, ValidateInv
      <4>4. o = p /\ r = k
        BY <2>6, <3>2, <4>2, <4>3
      <4>5. m = node
        BY <2>1, <2>6, <4>1, <4>4, LedToOne DEF Pair
      <4> QED
        BY <4>2, <4>4, <4>5
    <3>4. ASSUME k \in schema[node].required, Append(p, k) \notin DOMAIN doc
          PROVE  Issue(Append(p, k), "missing") \in issues
      <4>1. Issue(Append(p, k), "missing") \in MissingFields(p, node)
        BY <3>4 DEF MissingFields
      <4> QED
        BY <1>1, <2>4, <4>1 DEF IssuesOf
    <3> QED
      BY <3>1, <3>3, <3>4
  <2> QED
    BY <2>7, <2>8
<1>2. UseInv => FieldsAgree
  BY <1>1 DEF FieldsAgree
<1> QED
  BY <1>2, UseInvariant, PTL

(***************************************************************************)
(* A hover retraces the completion it follows.                             *)
(***************************************************************************)
\* What a search works on: left, todo with every $ref followed, and passed.
Search == [left : Seq(Segment), todo : Seq(Nodes), passed : Seq(Nodes)]
Settled(s) == [i \in DOMAIN s |-> Resolve(s[i])]
At(x) == x \in Search /\ x.left = left /\ x.todo = Settled(todo) /\ x.passed = passed

\* How it begins at r, and its one next step while there is something to do.
Beginning(r, p) == [left |-> p, todo |-> <<Resolve(r)>>, passed |-> <<>>]
Into(x) == [left |-> Tail(x.left), todo |-> <<Resolve(Direct(Head(x.todo), Head(x.left)))>>, passed |-> <<>>]
Through(x) == [left   |-> x.left,
               todo   |-> ResolvedChildren(Head(x.todo)) \o Tail(x.todo),
               passed |-> Append(x.passed, Head(x.todo))]
OnStep(x) == IF x.left # <<>> /\ Direct(Head(x.todo), Head(x.left)) # NoNode THEN Into(x) ELSE Through(x)

\* Steps lead from a to b: b is in every set that has a and is closed under them.
Closed(S) == \A x \in S : x.todo # <<>> => OnStep(x) \in S
Leads(a, b) == \A S : a \in S /\ Closed(S) => b \in S

\* A search leads to where it is,
LEMMA LeadsHere == \A a : Leads(a, a)
BY DEF Leads

\* and one step on,
LEMMA LeadsOn ==
  ASSUME NEW a, NEW b, Leads(a, b), b.todo # <<>>
  PROVE  Leads(a, OnStep(b))
<1> SUFFICES ASSUME NEW S, a \in S, Closed(S) PROVE OnStep(b) \in S
  BY DEF Leads
<1>1. b \in S
  BY DEF Leads
<1> QED
  BY <1>1 DEF Closed

\* from its second state to all that it leads to but its first,
LEMMA LeadsFrom ==
  ASSUME NEW a, NEW b, Leads(a, b), a # b
  PROVE  Leads(OnStep(a), b)
<1> SUFFICES ASSUME NEW S, OnStep(a) \in S, Closed(S) PROVE b \in S
  BY DEF Leads
<1>1. Closed(S \cup {a}) /\ a \in S \cup {a}
  BY DEF Closed
<1>2. b \in S \cup {a}
  BY <1>1 DEF Leads
<1> QED
  BY <1>2

\* and from its end nowhere else.
LEMMA LeadsEnd ==
  ASSUME NEW a, NEW b, Leads(a, b), a.todo = <<>>
  PROVE  b = a
<1>1. Closed({a}) /\ a \in {a}
  BY DEF Closed
<1>2. b \in {a}
  BY <1>1 DEF Leads
<1> QED
  BY <1>2

\* The children of a node.
LEMMA ChildrenType ==
  ASSUME schema \in Schemas, NEW n \in Nodes
  PROVE  ResolvedChildren(n) \in Seq(Nodes) /\ ResolvedChildren(n) = Settled(Children(n))
<1>1. Children(n) \in Seq(Nodes)
  BY MembersType
<1>2. \A i \in DOMAIN Children(n) : Resolve(Children(n)[i]) \in Nodes
  BY <1>1, ResolveType
<1>3. ResolvedChildren(n) \in [1 .. Len(Children(n)) -> Nodes]
  BY <1>1, <1>2 DEF ResolvedChildren
<1> QED
  BY <1>1, <1>3 DEF ResolvedChildren, Settled

\* A search that has passed through a node has the same kind of state.
LEMMA ThroughType ==
  ASSUME schema \in Schemas, NEW x \in Search, x.todo # <<>>
  PROVE  Through(x) \in Search /\ Head(x.todo) \in Nodes
<1>1. Head(x.todo) \in Nodes /\ Tail(x.todo) \in Seq(Nodes) /\ x.passed \in Seq(Nodes) /\ x.left \in Seq(Segment)
  BY DEF Search
<1>2. ResolvedChildren(Head(x.todo)) \in Seq(Nodes)
  BY <1>1, ChildrenType
<1>3. ResolvedChildren(Head(x.todo)) \o Tail(x.todo) \in Seq(Nodes) /\ Append(x.passed, Head(x.todo)) \in Seq(Nodes)
  BY <1>1, <1>2
<1> QED
  BY <1>1, <1>3 DEF Through, Search

\* What is passed at the end of the path stays, in its order.
LEMMA PassedFirst ==
  ASSUME schema \in Schemas, NEW x \in Search, NEW f \in Search,
         x.left = <<>>, x.todo # <<>>, f.todo = <<>>, Leads(x, f)
  PROVE  /\ f.left = <<>>
         /\ Len(x.passed) + 1 \in DOMAIN f.passed /\ f.passed[Len(x.passed) + 1] = Head(x.todo)
         /\ \A i \in DOMAIN x.passed : i \in DOMAIN f.passed /\ f.passed[i] = x.passed[i]
<1> DEFINE z == Append(x.passed, Head(x.todo))
           S == {y \in Search : y.left = <<>> /\ \A i \in DOMAIN z : i \in DOMAIN y.passed /\ y.passed[i] = z[i]}
<1>1. x.passed \in Seq(Nodes) /\ Head(x.todo) \in Nodes /\ Through(x) \in Search
  BY ThroughType DEF Search
<1>2. Through(x) \in S /\ OnStep(x) = Through(x)
  BY <1>1 DEF Through, OnStep
<1>3. ASSUME NEW y \in S, y.todo # <<>>
      PROVE  OnStep(y) \in S
  <2>1. Through(y) \in Search /\ Head(y.todo) \in Nodes /\ OnStep(y) = Through(y)
    BY <1>3, ThroughType DEF OnStep
  <2>2. Through(y).left = <<>> /\ Through(y).passed = Append(y.passed, Head(y.todo)) /\ y.passed \in Seq(Nodes)
    BY DEF Through, Search
  <2>3. \A i \in DOMAIN y.passed : i \in DOMAIN Through(y).passed /\ Through(y).passed[i] = y.passed[i]
    BY <2>1, <2>2
  <2> QED
    BY <2>1, <2>2, <2>3
<1>4. Leads(Through(x), f)
  BY <1>2, LeadsFrom
<1>5. f \in S
  <2> HIDE DEF S
  <2> QED
    BY <1>2, <1>3, <1>4 DEF Leads, Closed
<1>6. Len(x.passed) + 1 \in DOMAIN z /\ z[Len(x.passed) + 1] = Head(x.todo)
      /\ \A i \in DOMAIN x.passed : i \in DOMAIN z /\ z[i] = x.passed[i]
  BY <1>1
<1> QED
  BY <1>5, <1>6

\* Following every $ref of a sequence keeps its length.
LEMMA SettledType ==
  ASSUME NEW s \in Seq(Nodes), schema \in Schemas
  PROVE  Settled(s) \in Seq(Nodes) /\ Len(Settled(s)) = Len(s)
<1>1. PICK n \in Nat : n = Len(s)
  OBVIOUS
<1>2. \A m \in Nodes : Resolve(m) \in Nodes
  BY ResolveType
<1>3. Settled(s) \in [1 .. n -> Nodes]
  BY <1>1, <1>2 DEF Settled
<1> QED
  BY <1>1, <1>3

\* Of two sequences one after the other it does so one after the other.
LEMMA SettledConcat ==
  ASSUME NEW s \in Seq(Nodes), NEW t \in Seq(Nodes), schema \in Schemas
  PROVE  Settled(s \o t) = Settled(s) \o Settled(t)
<1>1. Settled(s) \in Seq(Nodes) /\ Settled(t) \in Seq(Nodes) /\ Len(Settled(s)) = Len(s) /\ Len(Settled(t)) = Len(t)
  BY SettledType
<1>2. DOMAIN Settled(s \o t) = 1 .. Len(s) + Len(t) /\ DOMAIN (Settled(s) \o Settled(t)) = 1 .. Len(s) + Len(t)
  BY <1>1 DEF Settled
<1>3. ASSUME NEW i \in 1 .. Len(s) + Len(t)
      PROVE  Settled(s \o t)[i] = (Settled(s) \o Settled(t))[i]
  <2>1. Settled(s \o t)[i] = Resolve((s \o t)[i])
    BY DEF Settled
  <2>2. CASE i <= Len(s)
    <3>1. i \in 1 .. Len(s) /\ (s \o t)[i] = s[i] /\ (Settled(s) \o Settled(t))[i] = Settled(s)[i]
      BY <1>1, <2>2
    <3> QED
      BY <2>1, <3>1 DEF Settled
  <2>3. CASE ~(i <= Len(s))
    <3>1. i - Len(s) \in 1 .. Len(t) /\ (s \o t)[i] = t[i - Len(s)]
          /\ (Settled(s) \o Settled(t))[i] = Settled(t)[i - Len(s)]
      BY <1>1, <2>3
    <3> QED
      BY <2>1, <3>1 DEF Settled
  <2> QED
    BY <2>2, <2>3
<1>4. PICK n \in Nat : n = Len(s) + Len(t)
  OBVIOUS
<1>5. s \o t \in Seq(Nodes) /\ Len(s \o t) = n
  BY <1>4
<1>6. Settled(s \o t) \in Seq(Nodes) /\ Len(Settled(s \o t)) = n
  BY <1>5, SettledType
<1>7. Settled(s) \o Settled(t) \in Seq(Nodes) /\ Len(Settled(s) \o Settled(t)) = n
  BY <1>1, <1>4
<1>8. \A u \in Seq(Nodes) : Len(u) = n => u = [i \in 1 .. n |-> u[i]]
  OBVIOUS
<1>9. Settled(s \o t) = [i \in 1 .. n |-> Settled(s \o t)[i]]
  BY <1>6, <1>8
<1>10. Settled(s) \o Settled(t) = [i \in 1 .. n |-> (Settled(s) \o Settled(t))[i]]
  BY <1>7, <1>8
<1>11. \A i \in 1 .. n : Settled(s \o t)[i] = (Settled(s) \o Settled(t))[i]
  BY <1>3, <1>4
<1> QED
  BY <1>9, <1>10, <1>11

\* What a search has to do next, and after that.
LEMMA AtHead ==
  ASSUME WalkTypeOK, NEW x, At(x)
  PROVE  /\ x.todo = <<>> <=> todo = <<>>
         /\ todo # <<>> => /\ Head(x.todo) = Current
                           /\ Tail(x.todo) = Settled(Tail(todo))
<1>1. todo \in Seq(Nodes) /\ schema \in Schemas /\ x.todo = Settled(todo) /\ x \in Search
  BY DEF WalkTypeOK, At
<1>2. x.todo \in Seq(Nodes) /\ DOMAIN x.todo = 1 .. Len(todo) /\ Len(x.todo) = Len(todo)
  BY <1>1 DEF Settled, Search
<1>3. x.todo = <<>> <=> todo = <<>>
  BY <1>1, <1>2
<1>4. ASSUME todo # <<>>
      PROVE  Head(x.todo) = Current
  <2>1. 1 \in DOMAIN todo /\ Head(todo) = todo[1] /\ Head(x.todo) = x.todo[1]
    BY <1>1, <1>2, <1>4
  <2> QED
    BY <1>1, <2>1 DEF Settled, Current
<1>5. ASSUME todo # <<>>
      PROVE  Tail(x.todo) = Settled(Tail(todo))
  <2>1. Tail(todo) \in Seq(Nodes) /\ Len(Tail(todo)) = Len(todo) - 1 /\ Len(todo) \in Nat \ {0}
    BY <1>1, <1>5
  <2>2. Tail(x.todo) = [i \in 1 .. Len(todo) - 1 |-> x.todo[i + 1]]
    BY <1>2, <2>1
  <2>3. \A i \in 1 .. Len(todo) - 1 : i + 1 \in DOMAIN todo /\ Tail(todo)[i] = todo[i + 1]
    BY <1>1, <2>1
  <2>4. \A i \in 1 .. Len(todo) - 1 : x.todo[i + 1] = Resolve(Tail(todo)[i])
    BY <1>1, <2>3 DEF Settled
  <2>5. DOMAIN Tail(todo) = 1 .. Len(todo) - 1
    BY <2>1
  <2> QED
    BY <2>2, <2>4, <2>5 DEF Settled
<1> QED
  BY <1>3, <1>4, <1>5

\* A schema does not change, and with it where a search leads.
LEMMA SearchesStable ==
  ASSUME schema' = schema
  PROVE  /\ \A s : Settled(s)' = Settled(s)
         /\ \A r, p : Beginning(r, p)' = Beginning(r, p)
         /\ \A a, b : Leads(a, b)' <=> Leads(a, b)
         /\ \A n : Properties(n)' = Properties(n)
<1>1. \A n : Resolve(n)' = Resolve(n)
  BY ResolveStable
<1>2. /\ \A n : Properties(n)' = Properties(n) /\ ResolvedChildren(n)' = ResolvedChildren(n)
      /\ \A n, k : Direct(n, k)' = Direct(n, k)
  BY <1>1 DEF Properties, ResolvedChildren, Children, Direct
<1>3. \A x : OnStep(x)' = OnStep(x)
  BY <1>1, <1>2 DEF OnStep, Into, Through
<1>4. \A S : Closed(S)' <=> Closed(S)
  BY <1>3 DEF Closed
<1> QED
  BY <1>1, <1>2, <1>4 DEF Settled, Beginning, Leads

\* A step into a segment is the step of the search,
LEMMA AtInto ==
  ASSUME WalkTypeOK, RefsSettle, StepInto, NEW x, At(x), NEW y, y = Into(x)
  PROVE  At(y)'
<1>1. /\ left # <<>> /\ todo # <<>> /\ left' = Tail(left) /\ passed' = <<>> /\ schema' = schema
      /\ Direct(Current, Head(left)) # NoNode /\ todo' = <<Resolve(Direct(Current, Head(left)))>>
  BY DEF StepInto
<1>2. x.left = left /\ Head(x.todo) = Current
  BY <1>1, AtHead DEF At
<1>3. Head(left) \in Segment /\ Tail(left) \in Seq(Segment) /\ Current \in Nodes /\ schema \in Schemas
  BY <1>1, PassType DEF WalkTypeOK
<1>4. PICK m \in Nodes : m = Resolve(Direct(Current, Head(left))) /\ Resolve(m) = m
  BY <1>1, <1>3, MembersType, ResolveType DEF RefsSettle
<1>5. y = [left |-> Tail(left), todo |-> <<m>>, passed |-> <<>>]
  BY <1>2, <1>4 DEF Into
<1>6. Settled(todo)' = <<m>>
  BY <1>1, <1>4, ResolveStable DEF Settled
<1>7. y \in Search
  BY <1>3, <1>5 DEF Search
<1> QED
  BY <1>1, <1>5, <1>6, <1>7 DEF At

\* and so is one through a node, in the walk and in the collection.
LEMMA AtThrough ==
  ASSUME WalkTypeOK, todo # <<>>, NEW x, At(x), NEW y, y = Through(x),
         NEW c \in Seq(Nodes), Settled(c) = ResolvedChildren(Current), schema' = schema, left' = left,
         todo' = c \o Tail(todo), passed' = Append(passed, Current)
  PROVE  At(y)'
<1>1. /\ x \in Search /\ x.left = left /\ x.passed = passed /\ x.todo # <<>>
      /\ Head(x.todo) = Current /\ Tail(x.todo) = Settled(Tail(todo))
  BY AtHead DEF At
<1>2. schema \in Schemas /\ Tail(todo) \in Seq(Nodes)
  BY PassType DEF WalkTypeOK
<1>3. Settled(c \o Tail(todo)) = ResolvedChildren(Current) \o Tail(x.todo)
  BY <1>1, <1>2, SettledConcat
<1>4. Settled(todo)' = Settled(c \o Tail(todo))
  BY ResolveStable DEF Settled
<1>5. y \in Search
  BY <1>1, <1>2, ThroughType
<1>6. y.left = left /\ y.todo = ResolvedChildren(Current) \o Tail(x.todo) /\ y.passed = Append(passed, Current)
  BY <1>1 DEF Through
<1> QED
  BY <1>3, <1>4, <1>5, <1>6 DEF At

\* StepThrough is such a step: the children it puts in front are resolved.
LEMMA AtStepThrough ==
  ASSUME WalkTypeOK, RefsSettle, StepThrough, NEW x, At(x), NEW y, y = Through(x)
  PROVE  At(y)'
<1>1. /\ todo # <<>> /\ schema' = schema /\ left' = left
      /\ todo' = ResolvedChildren(Current) \o Tail(todo) /\ passed' = Append(passed, Current)
  BY DEF StepThrough
<1>2. Current \in Nodes /\ schema \in Schemas
  BY <1>1, PassType DEF WalkTypeOK
<1>3. ResolvedChildren(Current) \in Seq(Nodes) /\ Children(Current) \in Seq(Nodes)
  BY <1>2, ChildrenType, MembersType
<1>4. \A i \in DOMAIN Children(Current) : Children(Current)[i] \in Nodes
  BY <1>3
<1>5. \A i \in DOMAIN Children(Current) : Resolve(Resolve(Children(Current)[i])) = Resolve(Children(Current)[i])
  BY <1>4 DEF RefsSettle
<1>6. Settled(ResolvedChildren(Current)) = ResolvedChildren(Current)
  BY <1>5 DEF Settled, ResolvedChildren
<1> QED
  BY <1>1, <1>3, <1>6, AtThrough

\* A search begins with its root, its $ref followed.
LEMMA AtStart ==
  ASSUME schema \in Schemas, RefsSettle, NEW r \in Nodes, NEW p \in Seq(Segment), Start(r, p), schema' = schema,
         NEW y, y = Beginning(r, p)
  PROVE  At(y)'
<1>1. PICK m \in Nodes : m = Resolve(r) /\ Resolve(m) = m
  BY ResolveType DEF RefsSettle
<1>2. left' = p /\ todo' = <<m>> /\ passed' = <<>>
  BY <1>1 DEF Start
<1>3. y = [left |-> p, todo |-> <<m>>, passed |-> <<>>] /\ y \in Search
  BY <1>1 DEF Beginning, Search
<1>4. Settled(todo)' = <<m>>
  BY <1>1, <1>2, ResolveStable DEF Settled
<1> QED
  BY <1>2, <1>3, <1>4 DEF At

\* That beginning is the state of a search.
LEMMA BeginningType ==
  ASSUME schema \in Schemas, NEW r \in Nodes, NEW p \in Seq(Segment)
  PROVE  Beginning(r, p) \in Search
<1>1. PICK m \in Nodes : m = Resolve(r)
  BY ResolveType
<1>2. Beginning(r, p) = [left |-> p, todo |-> <<m>>, passed |-> <<>>]
  BY <1>1 DEF Beginning
<1> QED
  BY <1>2 DEF Search

\* A segment more at the end of a path.
LEMMA LongerPath ==
  ASSUME NEW s \in Seq(Segment), NEW k \in Segment
  PROVE  /\ Append(s, k) \in Seq(Segment) /\ Append(s, k) # <<>>
         /\ Head(Append(s, k)) = IF s = <<>> THEN k ELSE Head(s)
         /\ Tail(Append(s, k)) = IF s = <<>> THEN <<>> ELSE Append(Tail(s), k)
BY AppendProperties, HeadTailAppend

\* A search that has ended without a field.
Spent(g) ==
  /\ g \in Search /\ g.todo = <<>>
  /\ g.left = <<>> => \A i \in DOMAIN g.passed : DOMAIN Properties(g.passed[i]) = {}

\* The searches of a completion at p: x is where the one in b has come to.
Searched(b, p, x) ==
  \/ b = Root /\ Leads(Beginning(Root, p), x)
  \/ /\ b = MetaRoot /\ IsMetadataPath(p)
     /\ Leads(Beginning(MetaRoot, Tail(p)), x)
     /\ \E g : Spent(g) /\ Leads(Beginning(Root, p), g)

CompletionInv ==
  /\ \E x : At(x) /\ Searched(base, path, x)
  /\ pc = "collect" => left = <<>>
  /\ pc = "done" /\ node # NoNode => left = <<>> /\ todo = <<>>

\* The candidate c comes from the completion that has ended in f.
Completed(c, f) ==
  /\ f \in Search /\ f.left = <<>> /\ f.todo = <<>> /\ c.name \in Names
  /\ \E i \in DOMAIN f.passed :
       /\ c.name \in DOMAIN Properties(f.passed[i])
       /\ \A h \in DOMAIN f.passed : h < i => c.name \notin DOMAIN Properties(f.passed[h])
       /\ c.node = Resolve(Properties(f.passed[i])[c.name])

\* What a hover over c may show.
Shown(c, r) == r = c.node \/ \E n \in Nodes : schema[n].additional \in Nodes /\ r = Resolve(schema[n].additional)

\* The search of a hover is that of the completion with one segment more;
Longer(x, k) == [left |-> Append(x.left, k), todo |-> x.todo, passed |-> x.passed]

\* it goes where the completion went, to f or first to the end of the schema
\* that had nothing.
Towards(b, p, x, f) ==
  \/ Leads(x, f)
  \/ /\ b = Root /\ IsMetadataPath(p)
     /\ Leads(Beginning(MetaRoot, Tail(p)), f)
     /\ \E g : Spent(g) /\ Leads(x, g)

Unfound(x, k) == x.left = <<>> => \A i \in DOMAIN x.passed : k \notin DOMAIN Properties(x.passed[i])

Hovers(p, f) ==
  \/ pc = "walk" /\ \E x \in Search : /\ At(Longer(x, offered.name))
                                      /\ Unfound(x, offered.name) /\ Towards(base, p, x, f)
  \/ pc = "walk" /\ left = <<>> /\ \E r : todo = <<r>> /\ Shown(offered, r)
  \/ pc = "done" /\ Shown(offered, node)

HoverInv ==
  \E p \in Seq(Segment), f \in Search :
    path = Append(p, offered.name) /\ Completed(offered, f) /\ Hovers(p, f)

RetraceInv ==
  /\ pc = "idle" => ask = "none"
  /\ ask # "hover" => offered = Nothing
  /\ ask = "completion" => CompletionInv
  /\ ask = "hover" /\ offered # Nothing => HoverInv

\* None of this changes with the schema fixed.
LEMMA RetraceStable ==
  ASSUME schema' = schema
  PROVE  /\ \A g : Spent(g)' <=> Spent(g)
         /\ \A b, p, x : Searched(b, p, x)' <=> Searched(b, p, x)
         /\ \A c, f : Completed(c, f)' <=> Completed(c, f)
         /\ \A c, r : Shown(c, r)' <=> Shown(c, r)
         /\ \A b, p, x, f : Towards(b, p, x, f)' <=> Towards(b, p, x, f)
         /\ \A x, k : Unfound(x, k)' <=> Unfound(x, k)
<1>1. /\ \A r, p : Beginning(r, p)' = Beginning(r, p)
      /\ \A a, b : Leads(a, b)' <=> Leads(a, b)
      /\ \A n : Properties(n)' = Properties(n) /\ Resolve(n)' = Resolve(n)
  BY SearchesStable, ResolveStable
<1>2. \A g : Spent(g)' <=> Spent(g)
  BY <1>1 DEF Spent
<1>3. \A b, p, x : Searched(b, p, x)' <=> Searched(b, p, x)
  BY <1>1, <1>2 DEF Searched
<1>4. \A c, f : Completed(c, f)' <=> Completed(c, f)
  BY <1>1 DEF Completed
<1>5. \A c, r : Shown(c, r)' <=> Shown(c, r)
  BY <1>1 DEF Shown
<1>6. \A b, p, x, f : Towards(b, p, x, f)' <=> Towards(b, p, x, f)
  BY <1>1, <1>2 DEF Towards
<1>7. \A x, k : Unfound(x, k)' <=> Unfound(x, k)
  BY <1>1 DEF Unfound
<1> QED
  BY <1>2, <1>3, <1>4, <1>5, <1>6, <1>7

\* One step on the way.
LEMMA TowardsOn ==
  ASSUME NEW b, NEW p, NEW x, NEW f, Towards(b, p, x, f), x.todo # <<>>, f.todo = <<>>
  PROVE  Towards(b, p, OnStep(x), f)
<1>1. CASE Leads(x, f)
  BY <1>1, LeadsFrom DEF Towards
<1>2. CASE ~Leads(x, f)
  <2>1. PICK g : Spent(g) /\ Leads(x, g)
    BY <1>2 DEF Towards
  <2>2. Leads(OnStep(x), g)
    BY <2>1, LeadsFrom DEF Spent
  <2> QED
    BY <1>2, <2>1, <2>2 DEF Towards
<1> QED
  BY <1>1, <1>2

\* Where a hover has nothing left to look at, so had the completion.
LEMMA TowardsEnd ==
  ASSUME NEW b, NEW p, NEW x, NEW f, NEW c, Towards(b, p, x, f), x.todo = <<>>,
         Completed(c, f), Unfound(x, c.name)
  PROVE  b = Root /\ IsMetadataPath(p) /\ Leads(Beginning(MetaRoot, Tail(p)), f)
<1>1. ASSUME Leads(x, f)
      PROVE  FALSE
  <2>1. f = x
    BY <1>1, LeadsEnd
  <2> QED
    BY <2>1 DEF Completed, Unfound
<1> QED
  BY <1>1 DEF Towards

\* The first node that has the last segment has the candidate, or additional
\* fields.
LEMMA TowardsFound ==
  ASSUME schema \in Schemas, NEW b, NEW p, NEW x \in Search, NEW f, NEW c, Towards(b, p, x, f), Completed(c, f),
         x.left = <<>>, x.todo # <<>>, Unfound(x, c.name), Direct(Head(x.todo), c.name) # NoNode
  PROVE  Shown(c, Resolve(Direct(Head(x.todo), c.name)))
<1> DEFINE n == Head(x.todo)
           k == c.name
<1>1. n \in Nodes /\ k \in Names /\ k # Index
  BY SentinelAssumption DEF Search, Completed
<1>2. CASE k \notin DOMAIN Properties(n)
  BY <1>1, <1>2 DEF Direct, Shown
<1>3. CASE k \in DOMAIN Properties(n)
  <2>1. Direct(n, k) = Properties(n)[k]
    BY <1>1, <1>3 DEF Direct
  <2>2. Leads(x, f)
    <3>1. ASSUME NEW g, Spent(g), Leads(x, g)
          PROVE  FALSE
      BY <1>3, <3>1, PassedFirst DEF Spent
    <3> QED
      BY <3>1 DEF Towards
  <2>3. f \in Search /\ f.todo = <<>>
    BY DEF Completed
  <2> DEFINE l == Len(x.passed) + 1
  <2>4. /\ l \in DOMAIN f.passed /\ f.passed[l] = n
        /\ \A i \in DOMAIN x.passed : i \in DOMAIN f.passed /\ f.passed[i] = x.passed[i]
    BY <2>2, <2>3, PassedFirst
  <2>5. PICK i \in DOMAIN f.passed :
          /\ k \in DOMAIN Properties(f.passed[i])
          /\ \A h \in DOMAIN f.passed : h < i => k \notin DOMAIN Properties(f.passed[h])
          /\ c.node = Resolve(Properties(f.passed[i])[k])
    BY DEF Completed
  <2>6. i = l
    <3>1. i \notin DOMAIN x.passed
      BY <2>4, <2>5 DEF Unfound
    <3>2. ~(l < i)
      BY <1>3, <2>4, <2>5
    <3>3. i \in Nat \ {0} /\ DOMAIN x.passed = 1 .. Len(x.passed) /\ Len(x.passed) \in Nat
      BY <2>3 DEF Search
    <3> QED
      BY <3>1, <3>2, <3>3
  <2> QED
    BY <2>1, <2>4, <2>5, <2>6 DEF Shown
<1> QED
  BY <1>2, <1>3

\* What a step of a walk leaves alone.
LEMMA WalkStepKeeps == WalkStep => UNCHANGED <<schema, ask, path, offered>> /\ pc # "idle" /\ pc' # "idle"
BY DEF WalkStep, StepInto, StepThrough, Arrive, Collect, FallBack, Finish, Start, NoResult

\* A step keeps what a completion has come to,
LEMMA CompletionStep ==
  ASSUME WalkInv, RefsSettle, WalkStep, ask = "completion", CompletionInv
  PROVE  CompletionInv'
<1>1. PICK x : At(x) /\ Searched(base, path, x)
  BY DEF CompletionInv
<1>2. WalkTypeOK /\ schema \in Schemas /\ UNCHANGED <<schema, path>> /\ path \in Seq(Segment)
  BY WalkStepKeeps DEF WalkInv, WalkTypeOK
<1>3. x \in Search /\ x.left = left /\ (x.todo = <<>> <=> todo = <<>>)
      /\ (todo # <<>> => Head(x.todo) = Current)
  BY <1>1, <1>2, AtHead DEF At
<1>4. todo # <<>> => Searched(base, path, OnStep(x))
  BY <1>1, <1>3, LeadsOn DEF Searched
<1>5. ASSUME NEW y, At(y)', Searched(base, path, y), base' = base,
             pc' = "collect" => left' = <<>>,
             pc' = "done" /\ node' # NoNode => left' = <<>> /\ todo' = <<>>
      PROVE  CompletionInv'
  <2>1. Searched(base, path, y)'
    BY <1>2, <1>5, RetraceStable
  <2> QED
    BY <1>5, <2>1 DEF CompletionInv
<1>6. CASE StepInto
  <2>1. pc' = "walk" /\ base' = base /\ todo # <<>> /\ left # <<>> /\ Direct(Current, Head(left)) # NoNode
    BY <1>6 DEF StepInto
  <2>2. OnStep(x) = Into(x)
    BY <1>3, <2>1 DEF OnStep
  <2>3. PICK y : y = Into(x)
    OBVIOUS
  <2>4. At(y)'
    BY <1>1, <1>2, <1>6, <2>3, AtInto
  <2> QED
    BY <1>4, <1>5, <2>1, <2>2, <2>3, <2>4
<1>7. CASE StepThrough
  <2>1. pc' = "walk" /\ base' = base /\ todo # <<>> /\ Direct(Current, Head(left)) = NoNode
    BY <1>7 DEF StepThrough
  <2>2. OnStep(x) = Through(x)
    BY <1>3, <2>1 DEF OnStep
  <2>3. PICK y : y = Through(x)
    OBVIOUS
  <2>4. At(y)'
    BY <1>1, <1>2, <1>7, <2>3, AtStepThrough
  <2> QED
    BY <1>4, <1>5, <2>1, <2>2, <2>3, <2>4
<1>8. CASE Arrive \/ Finish
  <2>1. UNCHANGED <<base, left, todo, passed>>
    BY <1>8 DEF Arrive, Finish
  <2>2. At(x)'
    BY <1>1, <1>2, <2>1, ResolveStable DEF At, Settled
  <2>3. pc' = "collect" => left' = <<>>
    BY <1>8, <2>1 DEF Arrive, Finish
  <2>4. pc' = "done" /\ node' # NoNode => left' = <<>> /\ todo' = <<>>
    <3>1. CASE Arrive
      BY <3>1 DEF Arrive
    <3>2. CASE Finish
      BY <2>1, <3>2 DEF Finish, NoResult, WalkInv, CompletionInv
    <3> QED
      BY <1>8, <3>1, <3>2
  <2> QED
    BY <1>1, <1>5, <2>1, <2>2, <2>3, <2>4
<1>9. CASE Collect
  <2>1. /\ pc = "collect" /\ pc' = "collect" /\ base' = base /\ left' = left /\ todo # <<>> /\ left = <<>>
        /\ todo' = Children(Current) \o Tail(todo) /\ passed' = Append(passed, Current)
    BY <1>9 DEF Collect, CompletionInv
  <2>2. OnStep(x) = Through(x)
    BY <1>3, <2>1 DEF OnStep
  <2>3. PICK y : y = Through(x)
    OBVIOUS
  <2>4. Children(Current) \in Seq(Nodes) /\ Settled(Children(Current)) = ResolvedChildren(Current)
    BY <1>2, <2>1, PassType, ChildrenType
  <2>5. At(y)'
    BY <1>1, <1>2, <2>1, <2>3, <2>4, AtThrough
  <2> QED
    BY <1>4, <1>5, <2>1, <2>2, <2>3, <2>5
<1>10. CASE FallBack
  <2>1. /\ NoResult /\ base = Root /\ IsMetadataPath(path) /\ Start(MetaRoot, Tail(path))
        /\ pc' = "walk" /\ base' = MetaRoot
    BY <1>10 DEF FallBack, Start
  <2>2. todo = <<>> /\ (left = <<>> => pc = "collect" /\ Candidates = {})
    BY <2>1 DEF NoResult
  <2>3. Spent(x)
    <3>1. ASSUME left = <<>>, NEW i \in DOMAIN x.passed
          PROVE  DOMAIN Properties(x.passed[i]) = {}
      <4>1. node # NoNode /\ Candidates = {}
        BY <2>2, <3>1, RootType DEF WalkInv
      <4>2. UNION {DOMAIN Properties(m) : m \in Range(passed)} = {}
        BY <1>2, <4>1, CandidateNames
      <4>3. x.passed[i] \in Range(passed)
        BY <1>1 DEF At, Range
      <4> QED
        BY <4>2, <4>3
    <3> QED
      BY <1>3, <2>2, <3>1 DEF Spent
  <2>4. Leads(Beginning(Root, path), x)
    BY <1>1, <2>1, RootAssumption DEF Searched
  <2>5. PICK y : y = Beginning(MetaRoot, Tail(path))
    OBVIOUS
  <2>6. Tail(path) \in Seq(Segment)
    BY <1>2, <2>1 DEF IsMetadataPath
  <2>7. At(y)'
    BY <1>2, <2>1, <2>5, <2>6, RootType, AtStart
  <2>8. Searched(MetaRoot, path, y)
    BY <2>1, <2>3, <2>4, <2>5, LeadsHere DEF Searched
  <2>9. Searched(base, path, y)'
    <3>1. Searched(MetaRoot, path, y)'
      BY <1>2, <2>8, RetraceStable
    <3> QED
      BY <2>1, <3>1
  <2> QED
    BY <2>1, <2>7, <2>9 DEF CompletionInv
<1> QED
  BY <1>6, <1>7, <1>8, <1>9, <1>10 DEF WalkStep

\* and what a hover after it does,
LEMMA HoverStep ==
  ASSUME WalkInv, RefsSettle, WalkStep, ask = "hover", HoverInv
  PROVE  HoverInv'
<1>1. WalkTypeOK /\ schema \in Schemas /\ UNCHANGED <<schema, ask, path, offered>>
  BY WalkStepKeeps DEF WalkInv, WalkTypeOK
<1>2. PICK c : c = offered
  OBVIOUS
<1>3. PICK p \in Seq(Segment), f \in Search : path = Append(p, c.name) /\ Completed(c, f) /\ Hovers(p, f)
  BY <1>2 DEF HoverInv
<1>4. c.name \in Names /\ c.name \in Segment /\ f.todo = <<>>
  BY <1>3 DEF Completed, Segment
<1>5. SUFFICES Hovers(p, f)'
  <2>1. Completed(c, f)'
    BY <1>1, <1>3, RetraceStable
  <2> QED
    BY <1>1, <1>2, <1>3, <1>5, <2>1 DEF HoverInv
<1>6. ASSUME NEW y \in Search, NEW z, z = Longer(y, c.name), At(z)', pc' = "walk",
             Unfound(y, c.name), Towards(base', p, y, f)
      PROVE  Hovers(p, f)'
  <2>1. Unfound(y, c.name)' /\ Towards(base, p, y, f)'
    <3>1. \A b : Towards(b, p, y, f)' <=> Towards(b, p, y, f)
      BY <1>1, RetraceStable
    <3> QED
      BY <1>1, <1>6, <3>1, RetraceStable
  <2>2. At(Longer(y, offered.name))'
    BY <1>1, <1>2, <1>6 DEF Longer
  <2> QED
    BY <1>1, <1>2, <1>6, <2>1, <2>2 DEF Hovers
<1>7. ASSUME NEW r, Shown(c, r),
             \/ pc' = "walk" /\ left' = <<>> /\ todo' = <<r>>
             \/ pc' = "done" /\ node' = r
      PROVE  Hovers(p, f)'
  <2>1. Shown(c, r)'
    BY <1>1, <1>7, RetraceStable
  <2>2. Shown(offered, r)'
    BY <1>1, <1>2, <2>1
  <2> QED
    BY <1>7, <2>2 DEF Hovers
<1>8. ASSUME NEW x \in Search, pc = "walk", NEW h, h = Longer(x, c.name), At(h), Unfound(x, c.name), Towards(base, p, x, f)
      PROVE  Hovers(p, f)'
  <2>1. /\ left = Append(x.left, c.name) /\ x.left \in Seq(Segment) /\ left # <<>>
        /\ Head(left) = IF x.left = <<>> THEN c.name ELSE Head(x.left)
        /\ Tail(left) = IF x.left = <<>> THEN <<>> ELSE Append(Tail(x.left), c.name)
    <3>1. left = Append(x.left, c.name) /\ x.left \in Seq(Segment)
      BY <1>8 DEF At, Longer, Search
    <3> QED
      BY <1>4, <3>1, LongerPath
  <2>2. (x.todo = <<>> <=> todo = <<>>) /\ (todo # <<>> => Head(x.todo) = Current)
    BY <1>1, <1>8, AtHead DEF Longer
  <2>3. CASE StepInto
    <3>1. /\ pc' = "walk" /\ base' = base /\ todo # <<>> /\ left' = Tail(left)
          /\ Direct(Current, Head(left)) # NoNode /\ todo' = <<Resolve(Direct(Current, Head(left)))>>
      BY <2>3 DEF StepInto
    <3>2. CASE x.left = <<>>
      <4>1. Shown(c, Resolve(Direct(Current, c.name)))
        BY <1>1, <1>3, <1>8, <2>1, <2>2, <3>1, <3>2, TowardsFound
      <4>2. PICK r : r = Resolve(Direct(Current, c.name))
        OBVIOUS
      <4> QED
        BY <1>7, <2>1, <3>1, <3>2, <4>1, <4>2
    <3>3. CASE x.left # <<>>
      <4>1. OnStep(x) = Into(x) /\ Towards(base, p, OnStep(x), f)
        BY <1>4, <1>8, <2>1, <2>2, <3>1, <3>3, TowardsOn DEF OnStep
      <4>2. PICK z : z = Into(h)
        OBVIOUS
      <4>3. At(z)'
        BY <1>1, <1>8, <2>3, <4>2, AtInto
      <4>4. PICK m : m = Resolve(Direct(Current, Head(left))) /\ m \in Nodes
        <5>1. Current \in Nodes /\ Head(left) \in Segment
          BY <1>1, <2>1, <3>1, PassType DEF WalkTypeOK
        <5> QED
          BY <1>1, <3>1, <5>1, MembersType, ResolveType
      <4>5. Into(x) = [left |-> Tail(x.left), todo |-> <<m>>, passed |-> <<>>]
        BY <2>1, <2>2, <3>1, <3>3, <4>4 DEF Into
      <4>6. z = [left |-> Append(Tail(x.left), c.name), todo |-> <<m>>, passed |-> <<>>]
        BY <1>8, <2>1, <2>2, <3>1, <3>3, <4>2, <4>4 DEF Into, Longer
      <4>7. z = Longer(Into(x), c.name) /\ Into(x) \in Search /\ Unfound(Into(x), c.name)
        BY <2>1, <3>3, <4>4, <4>5, <4>6 DEF Longer, Search, Unfound
      <4>8. PICK y \in Search : y = Into(x)
        BY <4>7
      <4> QED
        BY <1>6, <3>1, <4>1, <4>3, <4>7, <4>8
    <3> QED
      BY <3>2, <3>3
  <2>4. CASE StepThrough
    <3>1. /\ pc' = "walk" /\ base' = base /\ todo # <<>> /\ Direct(Current, Head(left)) = NoNode
      BY <2>4 DEF StepThrough
    <3>2. OnStep(x) = Through(x) /\ Towards(base, p, OnStep(x), f)
      BY <1>4, <1>8, <2>1, <2>2, <3>1, TowardsOn DEF OnStep
    <3>3. PICK z : z = Through(h)
      OBVIOUS
    <3>4. At(z)'
      BY <1>1, <1>8, <2>4, <3>3, AtStepThrough
    <3>5. z = Longer(Through(x), c.name)
      BY <1>8, <3>3 DEF Through, Longer
    <3>6. Through(x) \in Search /\ Current \in Nodes
      BY <1>1, <2>2, <3>1, ThroughType
    <3>7. Unfound(Through(x), c.name)
      <4>1. ASSUME x.left = <<>>, c.name \in DOMAIN Properties(Current)
            PROVE  FALSE
        <5>1. Direct(Current, c.name) = Properties(Current)[c.name]
          BY <1>4, <4>1, SentinelAssumption DEF Direct
        <5>2. Properties(Current)[c.name] \in Nodes
          BY <1>1, <3>6, <4>1, MembersType
        <5> QED
          BY <2>1, <3>1, <4>1, <5>1, <5>2, RootType
      <4>2. Through(x).passed = Append(x.passed, Current) /\ Through(x).left = x.left /\ x.passed \in Seq(Nodes)
        BY <2>2, <3>1 DEF Through, Search
      <4>3. ASSUME NEW i \in DOMAIN Through(x).passed
            PROVE  Through(x).passed[i] = Current \/ (i \in DOMAIN x.passed /\ Through(x).passed[i] = x.passed[i])
        BY <3>6, <4>2
      <4> QED
        BY <1>8, <4>1, <4>2, <4>3 DEF Unfound
    <3>8. PICK y \in Search : y = Through(x)
      BY <3>6
    <3> QED
      BY <1>6, <3>1, <3>2, <3>4, <3>5, <3>7, <3>8
  <2>5. CASE FallBack \/ Finish
    <3>1. todo = <<>>
      BY <1>8, <2>1, <2>5 DEF FallBack, Finish, NoResult
    <3>2. base = Root /\ IsMetadataPath(p) /\ Leads(Beginning(MetaRoot, Tail(p)), f)
      BY <1>3, <1>8, <2>2, <3>1, TowardsEnd
    <3>3. IsMetadataPath(path) /\ Tail(path) = Append(Tail(p), c.name) /\ Tail(p) \in Seq(Segment)
      BY <1>3, <1>4, <3>2 DEF IsMetadataPath
    <3>4. Start(MetaRoot, Tail(path)) /\ pc' = "walk"
      BY <1>8, <2>5, <3>2, <3>3 DEF FallBack, Finish, Start
    <3>5. Beginning(MetaRoot, Tail(path)) = Longer(Beginning(MetaRoot, Tail(p)), c.name)
      BY <3>3 DEF Beginning, Longer
    <3>6. PICK z : z = Beginning(MetaRoot, Tail(path))
      OBVIOUS
    <3>7. PICK y \in Search : y = Beginning(MetaRoot, Tail(p))
      BY <1>1, <3>3, RootType, BeginningType
    <3>8. At(z)'
      <4>1. Tail(path) \in Seq(Segment)
        BY <1>4, <3>3, LongerPath
      <4> QED
        BY <1>1, <3>4, <3>6, <4>1, RootType, AtStart
    <3>9. Unfound(y, c.name) /\ Towards(base', p, y, f)
      BY <3>2, <3>7 DEF Unfound, Beginning, Towards
    <3> QED
      BY <1>6, <3>4, <3>5, <3>6, <3>7, <3>8, <3>9
  <2>6. ~Arrive /\ ~Collect
    BY <1>8, <2>1 DEF Arrive, Collect
  <2> QED
    BY <2>3, <2>4, <2>5, <2>6 DEF WalkStep
<1>9. ASSUME pc = "walk", left = <<>>, NEW r, todo = <<r>>, Shown(c, r)
      PROVE  Hovers(p, f)'
  <2>1. Arrive
    BY <1>9 DEF WalkStep, StepInto, StepThrough, Collect, FallBack, Finish, NoResult
  <2>2. pc' = "done" /\ node' = r
    BY <1>9, <2>1 DEF Arrive
  <2> QED
    BY <1>7, <1>9, <2>2
<1>10. pc # "done"
  BY DEF WalkStep, StepInto, StepThrough, Arrive, Collect, FallBack, Finish, NoResult
<1> QED
  <2>1. CASE pc = "walk" /\ \E x \in Search : At(Longer(x, c.name)) /\ Unfound(x, c.name) /\ Towards(base, p, x, f)
    BY <1>8, <2>1
  <2>2. CASE pc = "walk" /\ left = <<>> /\ \E r : todo = <<r>> /\ Shown(c, r)
    BY <1>9, <2>2
  <2> QED
    BY <1>2, <1>3, <1>10, <2>1, <2>2 DEF Hovers

\* which begins when a candidate is taken.
LEMMA AcceptStep ==
  ASSUME WalkInv, RefsSettle, CompletionInv, NEW c \in Candidates, Accept(c)
  PROVE  HoverInv'
<1>1. /\ WalkTypeOK /\ schema \in Schemas /\ schema' = schema /\ path \in Seq(Segment)
      /\ pc = "done" /\ offered' = c /\ path' = Append(path, c.name) /\ pc' = "walk" /\ base' = Root
      /\ Start(Root, Append(path, c.name))
  BY DEF Accept, Start, WalkInv, WalkTypeOK
<1>2. PICK p \in Seq(Segment) : p = path
  BY <1>1
<1>3. node # NoNode
  BY DEF Candidates
<1>4. PICK f : At(f) /\ Searched(base, p, f)
  BY <1>2 DEF CompletionInv
<1>5. f \in Search /\ f.left = <<>> /\ f.todo = <<>> /\ f.passed = passed
  <2>1. left = <<>> /\ todo = <<>>
    BY <1>1, <1>3 DEF CompletionInv
  <2> QED
    BY <1>1, <1>4, <2>1, AtHead DEF At
<1>6. PICK i \in DOMAIN passed : \E k \in FieldsOf(i) :
        (\A h \in 1 .. i - 1 : k \notin FieldsOf(h)) /\ c = Candidate(i, k)
  BY <1>3 DEF Candidates
<1>7. /\ c.name \in FieldsOf(i) /\ \A h \in 1 .. i - 1 : c.name \notin FieldsOf(h)
      /\ c.node = Resolve(Properties(passed[i])[c.name])
  BY <1>6 DEF Candidate
<1>8. Completed(c, f)
  <2>1. c.name \in Names
    BY CandidateName
  <2>2. DOMAIN passed = 1 .. Len(passed) /\ Len(passed) \in Nat
    BY <1>1 DEF WalkTypeOK
  <2>3. \A h \in DOMAIN passed : h < i => c.name \notin DOMAIN Properties(passed[h])
    <3>1. \A h \in DOMAIN passed : h < i => h \in 1 .. i - 1
      BY <2>2
    <3> QED
      BY <1>7, <3>1 DEF FieldsOf
  <2> QED
    BY <1>5, <1>7, <2>1, <2>3 DEF Completed, FieldsOf
<1>9. PICK x \in Search : x = Beginning(Root, p)
  BY <1>1, RootType, BeginningType
<1>10. Beginning(Root, Append(p, c.name)) = Longer(x, c.name)
  BY <1>9 DEF Beginning, Longer
<1>11. PICK z : z = Longer(x, c.name)
  OBVIOUS
<1>12. At(z)'
  <2>1. Append(p, c.name) \in Seq(Segment)
    BY CandidateName DEF Segment
  <2> QED
    BY <1>1, <1>2, <1>10, <1>11, <2>1, RootType, AtStart
<1>13. Unfound(x, c.name) /\ Towards(Root, p, x, f)
  BY <1>4, <1>9, RootAssumption DEF Unfound, Beginning, Towards, Searched
<1>14. Hovers(p, f)'
  <2>1. Unfound(x, c.name)' /\ Towards(Root, p, x, f)' /\ Longer(x, c.name)' = z
    BY <1>1, <1>11, <1>13, RetraceStable DEF Longer
  <2>2. At(Longer(x, offered.name))'
    BY <1>1, <1>11, <1>12 DEF Longer
  <2> QED
    BY <1>1, <2>1, <2>2 DEF Hovers
<1>15. Completed(c, f)'
  BY <1>1, <1>8, RetraceStable
<1> QED
  BY <1>1, <1>2, <1>5, <1>14, <1>15 DEF HoverInv

\* A step keeps RetraceInv.
LEMMA RetraceNext ==
  ASSUME WalkInv, RefsSettle, RetraceInv, [WalkNext]_<<schema, walkVars>>
  PROVE  RetraceInv'
<1>1. ASSUME NEW kind \in {"completion", "hover"}, NEW p \in Paths, Ask(kind, p)
      PROVE  RetraceInv'
  <2>1. /\ schema \in Schemas /\ schema' = schema /\ ask' = kind /\ path' = p /\ offered' = offered
        /\ Start(Root, p) /\ pc' = "walk" /\ base' = Root /\ offered = Nothing
    BY <1>1 DEF Ask, Start, WalkInv, WalkTypeOK, RetraceInv
  <2>2. PICK y : y = Beginning(Root, p)
    OBVIOUS
  <2>3. At(y)'
    BY <2>1, <2>2, RootType, PathAssumption, AtStart
  <2>4. Searched(base, path, y)'
    <3>1. Searched(Root, p, y)'
      BY <2>1, <2>2, LeadsHere, RetraceStable DEF Searched
    <3> QED
      BY <2>1, <3>1
  <2>5. CompletionInv'
    BY <2>1, <2>3, <2>4 DEF CompletionInv
  <2> QED
    BY <2>1, <2>5 DEF RetraceInv
<1>2. CASE WalkStep
  BY <1>2, WalkStepKeeps, CompletionStep, HoverStep DEF RetraceInv
<1>3. ASSUME NEW c \in Candidates, Accept(c)
      PROVE  RetraceInv'
  <2>1. ask = "completion" /\ ask' = "hover" /\ pc' = "walk"
    BY <1>3 DEF Accept, Start
  <2>2. HoverInv'
    BY <1>3, <2>1, AcceptStep DEF RetraceInv
  <2> QED
    BY <2>1, <2>2 DEF RetraceInv
<1>4. CASE UNCHANGED <<schema, walkVars>>
  <2>1. UNCHANGED <<schema, ask, path, pc, base, left, todo, passed, node, offered>>
    BY <1>4 DEF walkVars
  <2>2. \A x : At(x)' <=> At(x)
    BY <2>1, ResolveStable DEF At, Settled
  <2>3. CompletionInv => CompletionInv'
    BY <2>1, <2>2, RetraceStable DEF CompletionInv
  <2>4. HoverInv => HoverInv'
    BY <2>1, <2>2, RetraceStable DEF HoverInv, Hovers, Longer
  <2> QED
    BY <2>1, <2>3, <2>4 DEF RetraceInv
<1> QED
  BY <1>1, <1>2, <1>3, <1>4 DEF WalkNext

\* What holds of a completion and of the hover that follows it, if the $ref
\* settle.
Retraced == WalkInv /\ (RefsSettle => RetraceInv)

\* Hover over a field accepted from a completion shows the schema that the
\* completion showed, through combinators, $ref and the fallback to ObjectMeta,
\* unless a schema for additional fields stands before it.
THEOREM AcceptedShown == WalkSpec => []AcceptedIsHovered
<1>1. WalkInit => Retraced
  BY WalkInitType DEF Retraced, RetraceInv, WalkInit
<1>2. Retraced /\ [WalkNext]_<<schema, walkVars>> => Retraced'
  <2> SUFFICES ASSUME Retraced, [WalkNext]_<<schema, walkVars>> PROVE Retraced'
    OBVIOUS
  <2>1. WalkInv'
    BY WalkNextType DEF Retraced
  <2>2. schema' = schema
    BY DEF WalkNext, WalkStep, Ask, StepInto, StepThrough, Arrive, Collect, FallBack, Finish, Accept, walkVars
  <2>3. RefsSettle' = RefsSettle
    BY <2>2, ResolveStable DEF RefsSettle
  <2> QED
    BY <2>1, <2>3, RetraceNext DEF Retraced
<1>3. Retraced => AcceptedIsHovered
  <2> SUFFICES ASSUME Retraced, RefsSettle, pc = "done", offered # Nothing
               PROVE  Shown(offered, node)
    BY DEF AcceptedIsHovered, Shown
  <2>1. ask = "hover" /\ HoverInv
    BY DEF Retraced, RetraceInv
  <2> QED
    BY <2>1 DEF HoverInv, Hovers
<1> QED
  BY <1>1, <1>2, <1>3, PTL DEF WalkSpec
=============================================================================
