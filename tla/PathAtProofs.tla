---------------------------- MODULE PathAtProofs ----------------------------
(***************************************************************************)
(* Theorems about PathAt, for documents of any length: the column stack    *)
(* holds the nodes that YAML takes to be open, except under a sequence     *)
(* written at the column of its key.                                       *)
(***************************************************************************)
EXTENDS PathAt, TLAPS, SequenceTheorems, NaturalsInduction, WellFoundedInduction

Elements(s) == {s[i] : i \in DOMAIN s}
Growing(s) == \A i, j \in DOMAIN s : i < j => s[i].col < s[j].col
LeftOf(S, col) == {n \in S : n.col < col}

\* A non-empty set of positions has a last one.
LEMMA LastPosition ==
  ASSUME NEW n \in Nat, NEW S \in SUBSET (1 .. n), S # {}
  PROVE  \E m \in S : \A j \in S : j <= m
<1> DEFINE D == {x \in Nat : n - x \in S}
<1>1. D \subseteq Nat /\ D # {}
  <2>1. PICK i \in S : TRUE
    OBVIOUS
  <2>2. n - i \in Nat /\ n - (n - i) = i
    OBVIOUS
  <2> QED
    BY <2>1, <2>2
<1>2. PICK d \in D : \A e \in D : ~ (<<e, d>> \in OpToRel(<, Nat))
  BY <1>1, NatLessThanWellFounded, WFMin
<1>3. ASSUME NEW j \in S
      PROVE  j <= n - d
  <2>1. n - j \in D /\ n - (n - j) = j
    OBVIOUS
  <2>2. (n - j) < d => <<n - j, d>> \in OpToRel(<, Nat)
    BY DEF OpToRel
  <2>3. ~ ((n - j) < d)
    BY <1>2, <2>1, <2>2, Zenon
  <2>4. d \in Nat
    OBVIOUS
  <2>5. j \in 1 .. n
    OBVIOUS
  <2> HIDE DEF D
  <2> QED
    BY <2>3, <2>4, <2>5
<1> QED
  BY <1>2, <1>3

\* pop_to leaves the segments to the left of the column.
LEMMA PopToKeeps ==
  ASSUME NEW s \in Seq(Node), Growing(s), NEW col \in Nat
  PROVE  /\ PopTo(s, col) \in Seq(Node)
         /\ Growing(PopTo(s, col))
         /\ Elements(PopTo(s, col)) = LeftOf(Elements(s), col)
<1> DEFINE Good(n) == /\ n # 0 => s[n].col < col
                      /\ \A k \in n + 1 .. Len(s) : s[k].col >= col
           n == CHOOSE n \in 0 .. Len(s) : Good(n)
           p == SubSeq(s, 1, n)
<1>1. Len(s) \in Nat /\ DOMAIN s = 1 .. Len(s) /\ \A i \in 1 .. Len(s) : s[i] \in Node
  BY LenProperties
<1>2. \E i \in 0 .. Len(s) : Good(i)
  <2> DEFINE S == {i \in 1 .. Len(s) : s[i].col < col}
  <2>1. CASE S = {}
    <3>1. Good(0)
      BY <1>1, <2>1 DEF Node
    <3> QED
      BY <1>1, <3>1
  <2>2. CASE S # {}
    <3>1. PICK m \in S : \A j \in S : j <= m
      BY <1>1, <2>2, LastPosition
    <3>2. Good(m)
      BY <1>1, <3>1 DEF Node
    <3> QED
      BY <1>1, <3>1, <3>2
  <2> QED
    BY <2>1, <2>2
<1>3. n \in 0 .. Len(s) /\ Good(n)
  BY <1>2
<1>4. PopTo(s, col) = p
  BY DEF PopTo
<1> HIDE DEF n
<1>5. p \in Seq(Node) /\ Len(p) = n /\ \A i \in 1 .. n : p[i] = s[i]
  <2>1. n \in Nat /\ 1 \in 1 .. Len(s) + 1 /\ n \in (1 - 1) .. Len(s)
    BY <1>1, <1>3
  <2>2. Len(p) = IF 1 <= n THEN n - 1 + 1 ELSE 0
    BY <2>1, SubSeqProperties
  <2>3. p \in Seq(Node) /\ \A i \in 1 .. n - 1 + 1 : p[i] = s[1 + i - 1]
    BY <2>1, SubSeqProperties
  <2>4. n - 1 + 1 = n /\ \A i \in 1 .. n : 1 + i - 1 = i
    BY <2>1
  <2> QED
    BY <2>1, <2>2, <2>3, <2>4
<1>6. DOMAIN p = 1 .. n
  BY <1>5, LenProperties
<1>7. Growing(p)
  BY <1>1, <1>3, <1>5, <1>6 DEF Growing
<1>8. \A i \in 1 .. Len(s) : s[i].col < col <=> i <= n
  <2> SUFFICES ASSUME NEW i \in 1 .. Len(s) PROVE s[i].col < col <=> i <= n
    OBVIOUS
  <2>1. i \in Nat /\ n \in Nat /\ s[i].col \in Nat
    BY <1>1, <1>3 DEF Node
  <2>2. CASE i <= n
    <3>1. n # 0 /\ n \in 1 .. Len(s) /\ s[n].col < col /\ s[n].col \in Nat
      BY <1>1, <1>3, <2>1, <2>2 DEF Node
    <3>2. i = n \/ s[i].col < s[n].col
      BY <1>1, <2>1, <2>2, <3>1 DEF Growing
    <3> QED
      BY <2>1, <2>2, <3>1, <3>2
  <2>3. CASE i > n
    BY <1>1, <1>3, <2>1, <2>3
  <2> QED
    BY <2>1, <2>2, <2>3
<1>9. Elements(p) = LeftOf(Elements(s), col)
  <2>1. ASSUME NEW x \in Elements(p)
        PROVE  x \in LeftOf(Elements(s), col)
    <3>1. PICK i \in 1 .. n : x = s[i]
      BY <1>5, <1>6 DEF Elements
    <3>2. i \in 1 .. Len(s) /\ i <= n
      BY <1>1, <1>3
    <3>3. s[i].col < col
      BY <1>8, <3>2
    <3> QED
      BY <1>1, <3>1, <3>2, <3>3 DEF Elements, LeftOf
  <2>2. ASSUME NEW x \in LeftOf(Elements(s), col)
        PROVE  x \in Elements(p)
    <3>1. PICK i \in 1 .. Len(s) : x = s[i] /\ s[i].col < col
      BY <1>1 DEF Elements, LeftOf
    <3>2. i \in 1 .. n
      BY <1>1, <1>3, <1>8, <3>1
    <3> QED
      BY <1>5, <1>6, <3>1, <3>2 DEF Elements
  <2> QED
    BY <2>1, <2>2
<1> QED
  BY <1>4, <1>5, <1>7, <1>9

\* Pushing a segment closes what is not to the left of it.
LEMMA PushOpens ==
  ASSUME NEW s \in Seq(Node), Growing(s), NEW node \in Node
  PROVE  /\ Push(s, node) \in Seq(Node)
         /\ Growing(Push(s, node))
         /\ Elements(Push(s, node)) = LeftOf(Elements(s), node.col) \cup {node}
<1> DEFINE p == PopTo(s, node.col)
<1>1. node.col \in Nat
  BY DEF Node
<1>2. p \in Seq(Node) /\ Growing(p) /\ Elements(p) = LeftOf(Elements(s), node.col)
  BY <1>1, PopToKeeps
<1>3. /\ Append(p, node) \in Seq(Node) /\ Len(p) \in Nat /\ DOMAIN p = 1 .. Len(p)
      /\ DOMAIN Append(p, node) = 1 .. Len(p) + 1
      /\ \A i \in 1 .. Len(p) : Append(p, node)[i] = p[i]
      /\ Append(p, node)[Len(p) + 1] = node
  BY <1>2, AppendProperties, LenProperties
<1>4. \A i \in 1 .. Len(p) : p[i].col < node.col
  BY <1>2, <1>3 DEF Elements, LeftOf
<1>5. Growing(Append(p, node))
  <2> SUFFICES ASSUME NEW i \in 1 .. Len(p) + 1, NEW j \in 1 .. Len(p) + 1, i < j
               PROVE  Append(p, node)[i].col < Append(p, node)[j].col
    BY <1>3 DEF Growing
  <2>1. i \in 1 .. Len(p) /\ (j \in 1 .. Len(p) \/ j = Len(p) + 1)
    BY <1>3
  <2> QED
    BY <1>2, <1>3, <1>4, <2>1 DEF Growing
<1>6. Elements(Append(p, node)) = Elements(p) \cup {node}
  <2>1. 1 .. Len(p) + 1 = (1 .. Len(p)) \cup {Len(p) + 1}
    BY <1>3
  <2> QED
    BY <1>3, <2>1 DEF Elements
<1> QED
  BY <1>2, <1>3, <1>5, <1>6 DEF Push
----------------------------------------------------------------------------
(***************************************************************************)
(* The nodes that columns alone leave open.                                *)
(***************************************************************************)
OpenAt(ns) == {i \in DOMAIN ns : \A j \in i + 1 .. Len(ns) : ns[j].col > ns[i].col}
OpenOf(ns) == {ns[i] : i \in OpenAt(ns)}

\* A node closes those that are not to the left of it, in the text as on the
\* stack.
LEMMA OpenAppend ==
  ASSUME NEW ns \in Seq(Node), NEW node \in Node
  PROVE  /\ Append(ns, node) \in Seq(Node)
         /\ OpenOf(Append(ns, node)) = LeftOf(OpenOf(ns), node.col) \cup {node}
<1> DEFINE as == Append(ns, node)
           N == Len(ns)
<1>1. /\ as \in Seq(Node) /\ N \in Nat /\ DOMAIN ns = 1 .. N /\ Len(as) = N + 1
      /\ DOMAIN as = 1 .. N + 1
      /\ \A i \in 1 .. N : as[i] = ns[i] /\ ns[i] \in Node
      /\ as[N + 1] = node
  BY AppendProperties, LenProperties
<1>2. OpenAt(as) = {i \in OpenAt(ns) : ns[i].col < node.col} \cup {N + 1}
  <2>1. N + 1 \in OpenAt(as)
    BY <1>1 DEF OpenAt
  <2>2. ASSUME NEW i \in 1 .. N
        PROVE  i \in OpenAt(as) <=> i \in OpenAt(ns) /\ ns[i].col < node.col
    <3>1. i + 1 .. Len(as) = (i + 1 .. N) \cup {N + 1}
      BY <1>1
    <3>2. \A j \in i + 1 .. N : j \in 1 .. N
      BY <1>1
    <3>3. ns[i].col \in Nat /\ node.col \in Nat /\ as[i] = ns[i]
      BY <1>1 DEF Node
    <3>4. i \in OpenAt(as) <=> \A j \in i + 1 .. Len(as) : as[j].col > ns[i].col
      BY <1>1, <3>3 DEF OpenAt
    <3>5. i \in OpenAt(ns) <=> \A j \in i + 1 .. N : as[j].col > ns[i].col
      BY <1>1, <3>2 DEF OpenAt
    <3> QED
      BY <1>1, <3>1, <3>3, <3>4, <3>5
  <2>3. OpenAt(as) \subseteq (1 .. N) \cup {N + 1} /\ OpenAt(ns) \subseteq 1 .. N
    BY <1>1 DEF OpenAt
  <2> QED
    BY <2>1, <2>2, <2>3
<1>3. \A i \in OpenAt(ns) : as[i] = ns[i]
  BY <1>1 DEF OpenAt
<1>4. OpenOf(as) = LeftOf(OpenOf(ns), node.col) \cup {node}
  <2> HIDE DEF as, N
  <2>1. ASSUME NEW x \in OpenOf(as)
        PROVE  x \in LeftOf(OpenOf(ns), node.col) \cup {node}
    <3>1. PICK i \in OpenAt(as) : x = as[i]
      BY DEF OpenOf
    <3> QED
      BY <1>1, <1>2, <1>3, <3>1 DEF OpenOf, LeftOf
  <2>2. ASSUME NEW x \in LeftOf(OpenOf(ns), node.col)
        PROVE  x \in OpenOf(as)
    <3>1. PICK i \in OpenAt(ns) : x = ns[i] /\ ns[i].col < node.col
      BY DEF OpenOf, LeftOf
    <3> QED
      BY <1>2, <1>3, <3>1 DEF OpenOf
  <2>3. node \in OpenOf(as)
    BY <1>1, <1>2 DEF OpenOf
  <2> QED
    BY <2>1, <2>2, <2>3
<1> QED
  BY <1>1, <1>4

\* A line in the text and its processing on the stack open the same nodes; a
\* column to the right of the line makes no difference before it.
LEMMA LineOpens ==
  ASSUME NEW l \in Lines, NEW ns \in Seq(Node), NEW s \in Seq(Node), Growing(s),
         \/ Elements(s) = OpenOf(ns)
         \/ NodesOf(l) # <<>> /\ Elements(s) = LeftOf(OpenOf(ns), l.indent)
  PROVE  /\ ns \o NodesOf(l) \in Seq(Node)
         /\ ProcessLine(s, l) \in Seq(Node)
         /\ Growing(ProcessLine(s, l))
         /\ Elements(ProcessLine(s, l)) = OpenOf(ns \o NodesOf(l))
<1>1. l \in Line /\ l.indent \in Nat /\ AfterDash(l) \in Nat /\ l.key \in Segment
  BY LineAssumption DEF Line, AfterDash, Segment
<1>2. /\ Item(l) \in Node /\ Item(l).col = l.indent
      /\ \A col \in Nat : KeyAt(l, col) \in Node /\ KeyAt(l, col).col = col
  BY <1>1 DEF Item, KeyAt, Node, Segment
<1>3. l.indent < AfterDash(l)
  BY <1>1 DEF AfterDash, Line
\* The first node of the line.
<1>4. ASSUME NEW node \in Node, node.col = l.indent, NodesOf(l) # <<>>
      PROVE  /\ Push(s, node) \in Seq(Node) /\ Growing(Push(s, node))
             /\ Append(ns, node) \in Seq(Node)
             /\ Elements(Push(s, node)) = OpenOf(Append(ns, node))
  <2>1. LeftOf(Elements(s), l.indent) = LeftOf(OpenOf(ns), l.indent)
    <3>1. LeftOf(LeftOf(OpenOf(ns), l.indent), l.indent) = LeftOf(OpenOf(ns), l.indent)
      BY DEF LeftOf
    <3> QED
      BY <3>1
  <2>2. /\ Push(s, node) \in Seq(Node) /\ Growing(Push(s, node))
        /\ Elements(Push(s, node)) = LeftOf(Elements(s), l.indent) \cup {node}
    BY <1>4, PushOpens
  <2>3. /\ Append(ns, node) \in Seq(Node)
        /\ OpenOf(Append(ns, node)) = LeftOf(OpenOf(ns), l.indent) \cup {node}
    BY <1>4, OpenAppend
  <2> QED
    BY <2>1, <2>2, <2>3
<1>5. \A node \in Node : ns \o <<node>> = Append(ns, node)
  OBVIOUS
<1>6. CASE l.shape = "key"
  <2>1. NodesOf(l) = <<KeyAt(l, l.indent)>> /\ ProcessLine(s, l) = Push(s, KeyAt(l, l.indent))
    BY <1>6 DEF NodesOf, ProcessLine
  <2>2. NodesOf(l) # <<>>
    BY <2>1
  <2> QED
    BY <1>1, <1>2, <1>4, <1>5, <2>1, <2>2
<1>7. CASE l.shape = "dash"
  <2>1. NodesOf(l) = <<Item(l)>> /\ ProcessLine(s, l) = Push(s, Item(l))
    BY <1>7 DEF NodesOf, ProcessLine
  <2>2. NodesOf(l) # <<>>
    BY <2>1
  <2> QED
    BY <1>2, <1>4, <1>5, <2>1, <2>2
<1>8. CASE l.shape = "dashKey"
  <2> DEFINE key == KeyAt(l, AfterDash(l))
  <2>1. NodesOf(l) = <<Item(l), key>> /\ ProcessLine(s, l) = Push(Push(s, Item(l)), key)
    BY <1>8 DEF NodesOf, ProcessLine
  <2>2. NodesOf(l) # <<>>
    BY <2>1
  <2>3. /\ Push(s, Item(l)) \in Seq(Node) /\ Growing(Push(s, Item(l)))
        /\ Append(ns, Item(l)) \in Seq(Node)
        /\ Elements(Push(s, Item(l))) = OpenOf(Append(ns, Item(l)))
    BY <1>2, <1>4, <2>2
  <2>4. key \in Node
    BY <1>1, <1>2
  <2>5. ns \o <<Item(l), key>> = Append(Append(ns, Item(l)), key)
    BY <1>2, <2>4
  <2>6. /\ Push(Push(s, Item(l)), key) \in Seq(Node)
        /\ Growing(Push(Push(s, Item(l)), key))
        /\ Elements(Push(Push(s, Item(l)), key)) =
             LeftOf(OpenOf(Append(ns, Item(l))), key.col) \cup {key}
    BY <2>3, <2>4, PushOpens
  <2>7. /\ Append(Append(ns, Item(l)), key) \in Seq(Node)
        /\ OpenOf(Append(Append(ns, Item(l)), key)) =
             LeftOf(OpenOf(Append(ns, Item(l))), key.col) \cup {key}
    BY <2>3, <2>4, OpenAppend
  <2> QED
    BY <2>1, <2>5, <2>6, <2>7
<1>9. CASE l.shape \notin {"key", "dash", "dashKey"}
  <2>1. NodesOf(l) = <<>> /\ ProcessLine(s, l) = s
    BY <1>9 DEF NodesOf, ProcessLine
  <2>2. ns \o <<>> = ns
    BY ConcatEmptySeq
  <2> QED
    BY <2>1, <2>2
<1> QED
  BY <1>6, <1>7, <1>8, <1>9
----------------------------------------------------------------------------
\* Whatever is on the stack, a line leaves segments in columns that grow.
LEMMA LineType ==
  ASSUME NEW l \in Lines, NEW s \in Seq(Node), Growing(s)
  PROVE  ProcessLine(s, l) \in Seq(Node) /\ Growing(ProcessLine(s, l))
<1>1. l \in Line /\ l.indent \in Nat /\ AfterDash(l) \in Nat /\ l.key \in Segment
  BY LineAssumption DEF Line, AfterDash, Segment
<1>2. /\ Item(l) \in Node
      /\ KeyAt(l, l.indent) \in Node
      /\ KeyAt(l, AfterDash(l)) \in Node
  BY <1>1 DEF Item, KeyAt, Node, Segment
<1>3. CASE l.shape = "key"
  BY <1>2, <1>3, PushOpens DEF ProcessLine
<1>4. CASE l.shape = "dash"
  BY <1>2, <1>4, PushOpens DEF ProcessLine
<1>5. CASE l.shape = "dashKey"
  <2>1. Push(s, Item(l)) \in Seq(Node) /\ Growing(Push(s, Item(l)))
    BY <1>2, PushOpens
  <2>2. ProcessLine(s, l) = Push(Push(s, Item(l)), KeyAt(l, AfterDash(l)))
    BY <1>5 DEF ProcessLine
  <2> QED
    BY <1>2, <2>1, <2>2, PushOpens
<1>6. CASE l.shape \notin {"key", "dash", "dashKey"}
  BY <1>6 DEF ProcessLine
<1> QED
  BY <1>3, <1>4, <1>5, <1>6

\* What begins on a line is in the text.
LEMMA NodesType ==
  ASSUME NEW l \in Lines
  PROVE  NodesOf(l) \in Seq(Node)
<1>1. l \in Line /\ l.indent \in Nat /\ AfterDash(l) \in Nat /\ l.key \in Segment
  BY LineAssumption DEF Line, AfterDash, Segment
<1>2. /\ Item(l) \in Node
      /\ KeyAt(l, l.indent) \in Node
      /\ KeyAt(l, AfterDash(l)) \in Node
  BY <1>1 DEF Item, KeyAt, Node, Segment
<1> QED
  BY <1>2 DEF NodesOf

\* Where no sequence is written at the column of its key, the nodes that YAML
\* takes to be open are those that columns alone leave open.
LEMMA OpenByColumn ==
  ASSUME nodes \in Seq(Node), ~FlushSequence
  PROVE  OpenNodes = OpenOf(nodes)
<1>1. /\ Len(nodes) \in Nat /\ DOMAIN nodes = 1 .. Len(nodes)
      /\ \A i \in 1 .. Len(nodes) : nodes[i].col \in Nat
  <2>1. /\ Len(nodes) \in Nat /\ DOMAIN nodes = 1 .. Len(nodes)
        /\ \A i \in 1 .. Len(nodes) : nodes[i] \in Node
    BY LenProperties
  <2> QED
    BY <2>1 DEF Node
<1>2. OpenAt(nodes) \subseteq Open
  BY DEF OpenAt, Open, KeepsOpen
<1>3. ASSUME NEW i \in Open
      PROVE  i \in OpenAt(nodes)
  <2>1. i \in 1 .. Len(nodes) /\ \A j \in i + 1 .. Len(nodes) : KeepsOpen(i, j)
    BY <1>1 DEF Open
  <2>2. ASSUME NEW j \in i + 1 .. Len(nodes), ~ (nodes[j].col > nodes[i].col)
        PROVE  FALSE
    <3>1. j \in 1 .. Len(nodes) /\ i < j
      BY <1>1, <2>1
    <3>2. nodes[j].col = nodes[i].col /\ nodes[i].seg \in Keys /\ nodes[j].seg = Index
      BY <2>1, <2>2 DEF KeepsOpen
    <3>3. \A k \in i + 1 .. j : k \in i + 1 .. Len(nodes) /\ k \in 1 .. Len(nodes)
      BY <1>1, <2>1, <3>1
    <3>4. \A k \in i + 1 .. j : nodes[k].col >= nodes[i].col
      BY <1>1, <2>1, <3>3 DEF KeepsOpen
    <3>5. FlushSequence
      BY <1>1, <2>1, <3>1, <3>2, <3>4 DEF FlushSequence
    <3> QED
      BY <3>5
  <2> QED
    BY <1>1, <2>1, <2>2 DEF OpenAt
<1> QED
  BY <1>2, <1>3 DEF OpenNodes, OpenOf
----------------------------------------------------------------------------
(***************************************************************************)
(* The invariant: above the cursor the stack holds the open nodes; on its  *)
(* line, those to the left of the indentation and what begins on the line. *)
(***************************************************************************)
PathInv ==
  /\ TypeOK
  /\ cursor = Nowhere => Path = OpenOf(nodes)
  /\ cursor # Nowhere /\ ~HasNode =>
       Path = LeftOf(OpenOf(nodes), IntendedIndent(cursor.line, cursor.column))
  /\ cursor # Nowhere /\ HasNode /\ cursor.column >= cursor.line.indent =>
       Path = OpenOf(nodes)

\* A line above the cursor keeps the stack and the open nodes of the text the
\* same.
LEMMA ReadLineInv ==
  ASSUME PathInv, NEW l \in Lines, ReadLine(l)
  PROVE  PathInv'
<1>1. stack \in Seq(Node) /\ nodes \in Seq(Node) /\ Growing(stack)
  BY DEF PathInv, TypeOK, Growing
<1>2. Elements(stack) = OpenOf(nodes)
  BY DEF PathInv, ReadLine, Path, Elements
<1>3. /\ nodes' \in Seq(Node) /\ stack' \in Seq(Node) /\ Growing(stack')
      /\ Elements(stack') = OpenOf(nodes')
  BY <1>1, <1>2, LineOpens DEF ReadLine
<1>4. cursor' = Nowhere /\ read' \in 0 .. MaxLines
  BY BoundAssumption DEF ReadLine, PathInv, TypeOK
<1>5. TypeOK'
  BY <1>3, <1>4 DEF TypeOK, Growing
<1> QED
  BY <1>3, <1>4, <1>5 DEF PathInv, Path, Elements

\* The line with the cursor cuts the stack to its indentation first.
LEMMA ReadCursorLineInv ==
  ASSUME PathInv, NEW l \in Lines, NEW column \in Columns(l), ReadCursorLine(l, column)
  PROVE  PathInv'
<1> DEFINE indent == IntendedIndent(l, column)
           s == PopTo(stack, indent)
<1>1. stack \in Seq(Node) /\ nodes \in Seq(Node) /\ Growing(stack)
  BY DEF PathInv, TypeOK, Growing
<1>2. Elements(stack) = OpenOf(nodes)
  BY DEF PathInv, ReadCursorLine, Path, Elements
<1>3. l.indent \in Nat /\ column \in Nat /\ indent \in Nat
  <2>1. l \in Line
    BY LineAssumption
  <2>2. l.indent \in Nat /\ AfterDash(l) \in Nat
    BY <2>1 DEF Line, AfterDash
  <2> QED
    BY <2>2 DEF Columns, IntendedIndent
<1>4. s \in Seq(Node) /\ Growing(s) /\ Elements(s) = LeftOf(OpenOf(nodes), indent)
  BY <1>1, <1>2, <1>3, PopToKeeps
<1>5. /\ stack' = ProcessLine(s, l) /\ nodes' = nodes \o NodesOf(l) /\ read' = read
      /\ cursor' = [line |-> l, column |-> column]
  BY DEF ReadCursorLine
<1> HIDE DEF s
<1>6. TypeOK'
  <2>1. stack' \in Seq(Node) /\ Growing(stack')
    BY <1>4, <1>5, LineType
  <2>2. nodes' \in Seq(Node)
    BY <1>1, <1>5, NodesType, ConcatProperties
  <2>3. read' \in 0 .. MaxLines /\ cursor' \in [line : Lines, column : Nat]
    BY <1>3, <1>5 DEF PathInv, TypeOK
  <2> QED
    BY <2>1, <2>2, <2>3 DEF TypeOK, Growing
<1>7. cursor' # Nowhere /\ cursor'.line = l /\ cursor'.column = column
  BY <1>3, <1>5, LineAssumption, NowhereAssumption
<1>8. HasNode' <=> NodesOf(l) # <<>>
  BY <1>7 DEF HasNode
<1>9. ASSUME NodesOf(l) = <<>>
      PROVE  Path' = LeftOf(OpenOf(nodes'), indent)
  <2>1. l.shape \notin {"key", "dash", "dashKey"}
    BY <1>9 DEF NodesOf
  <2>2. stack' = s
    BY <1>5, <2>1 DEF ProcessLine
  <2>3. nodes' = nodes
    BY <1>1, <1>5, <1>9, ConcatEmptySeq
  <2> QED
    BY <1>4, <2>2, <2>3 DEF Path, Elements
<1>10. ASSUME NodesOf(l) # <<>>, column >= l.indent
       PROVE  Path' = OpenOf(nodes')
  <2>1. l.shape # "blank"
    BY <1>10 DEF NodesOf
  <2>2. indent = l.indent
    BY <1>3, <1>10, <2>1 DEF IntendedIndent
  <2>3. Elements(s) = LeftOf(OpenOf(nodes), l.indent)
    BY <1>4, <2>2
  <2>4. Elements(stack') = OpenOf(nodes')
    BY <1>1, <1>4, <1>5, <1>10, <2>3, LineOpens
  <2> QED
    BY <2>4 DEF Path, Elements
<1> QED
  BY <1>6, <1>7, <1>8, <1>9, <1>10 DEF PathInv

\* Every reachable state has a path of open nodes.
LEMMA PathInvariant == Spec => []PathInv
<1>1. Init => PathInv
  <2> SUFFICES ASSUME Init
               PROVE  PathInv
    OBVIOUS
  <2>1. stack = <<>> /\ nodes = <<>> /\ cursor = Nowhere /\ read = 0
    BY DEF Init
  <2>2. stack \in Seq(Node) /\ nodes \in Seq(Node) /\ DOMAIN stack = {} /\ DOMAIN nodes = {}
    BY <2>1
  <2>3. TypeOK
    BY <2>1, <2>2, BoundAssumption DEF TypeOK
  <2>4. Path = {} /\ OpenOf(nodes) = {}
    BY <2>2 DEF Path, OpenOf, OpenAt
  <2> QED
    BY <2>1, <2>3, <2>4 DEF PathInv
<1>2. PathInv /\ [Next]_vars => PathInv'
  <2> SUFFICES ASSUME PathInv, [Next]_vars
               PROVE  PathInv'
    OBVIOUS
  <2>1. ASSUME NEW l \in Lines, ReadLine(l)
        PROVE  PathInv'
    BY <2>1, ReadLineInv
  <2>2. ASSUME NEW l \in Lines, NEW column \in Columns(l), ReadCursorLine(l, column)
        PROVE  PathInv'
    BY <2>2, ReadCursorLineInv
  <2>3. CASE UNCHANGED vars
    BY <2>3 DEF vars, PathInv, TypeOK, Path, OpenOf, OpenAt, HasNode
  <2> QED
    BY <2>1, <2>2, <2>3 DEF Next, Finished
<1> QED
  BY <1>1, <1>2, PTL DEF Spec

\* The variables of path_at keep their types, and the columns on its stack
\* grow whatever the lines are.
THEOREM TypeSafety == Spec => []TypeOK
<1>1. PathInv => TypeOK
  BY DEF PathInv
<1> QED
  BY <1>1, PathInvariant, PTL

\* Above the cursor the path is that of the nodes YAML takes to be open,
\* unless a sequence is written at the column of its key.
THEOREM OpenPath == Spec => []PathIsOpenNodes
<1>1. PathInv => PathIsOpenNodes
  BY OpenByColumn DEF PathInv, TypeOK, PathIsOpenNodes
<1> QED
  BY <1>1, PathInvariant, PTL

\* A cursor on a line without a key is below the open nodes to the left of it.
THEOREM PathBelowOpenNodes == Spec => []CursorBelowOpenNodes
<1>1. PathInv => CursorBelowOpenNodes
  BY OpenByColumn DEF PathInv, TypeOK, CursorBelowOpenNodes, LeftOf
<1> QED
  BY <1>1, PathInvariant, PTL

\* A cursor on the text of a line with a key gets the path down to that key.
THEOREM PathToCursor == Spec => []CursorOnNode
<1>1. PathInv => CursorOnNode
  BY OpenByColumn DEF PathInv, TypeOK, CursorOnNode
<1> QED
  BY <1>1, PathInvariant, PTL
=============================================================================
