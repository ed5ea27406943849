------------------------------- MODULE PathAt -------------------------------
(***************************************************************************)
(* path_at of crates/k8s-lsp-parser: the lines of one YAML document are    *)
(* read down to the one with the cursor, and a stack of columns holds the  *)
(* keys and sequence items that are still open.                            *)
(*                                                                         *)
(* A line is its indentation and its shape.  `nodes` is the text read so   *)
(* far, reduced to the places where a key or a sequence item begins; the   *)
(* program holds the text itself.                                          *)
(***************************************************************************)
EXTENDS Naturals, Sequences

CONSTANTS
  Lines,    \* the lines a document may be made of
  Keys,
  Index,    \* PathSeg::Index
  Nowhere,  \* the cursor before its line has been read
  MaxLines  \* bound: lines above the cursor

VARIABLES
  stack,   \* the open segments with their columns
  read,    \* how many lines have been read
  nodes,   \* the keys and items of these lines, in order
  cursor   \* the line with the cursor, and its column

vars == <<stack, read, nodes, cursor>>

Segment == Keys \cup {Index}
Node == [col : Nat, seg : Segment]

(***************************************************************************)
(* A "key" line is `key:`, a "dash" line `-` or `- value`, a "dashKey"     *)
(* line `- key:` with gap spaces after the dash; "text" is a word being    *)
(* typed or a scalar.  A "blank" line has indent spaces.                   *)
(***************************************************************************)
Shapes == {"key", "dash", "dashKey", "text", "comment", "blank"}
Line == [shape : Shapes, indent : Nat, gap : Nat \ {0}, key : Keys]

ASSUME LineAssumption == Lines \subseteq Line
ASSUME IndexAssumption == Index \notin Keys
ASSUME NowhereAssumption == Nowhere \notin [line : Line, column : Nat]
ASSUME BoundAssumption == MaxLines \in Nat
----------------------------------------------------------------------------
\* Mutant: a segment at the column itself stays.
PopBeyond(s, col) ==
  SubSeq(s, 1, CHOOSE n \in 0 .. Len(s) : /\ n # 0 => s[n].col <= col
                                          /\ \A k \in n + 1 .. Len(s) : s[k].col > col)

\* pop_to: segments at the column or to the right of it leave the stack.
PopTo(s, col) ==
  SubSeq(s, 1, CHOOSE n \in 0 .. Len(s) : /\ n # 0 => s[n].col < col
                                          /\ \A k \in n + 1 .. Len(s) : s[k].col >= col)

Push(s, node) == Append(PopTo(s, node.col), node)

\* What begins on a line; nothing on a blank one, a comment or a text.
Item(l) == [col |-> l.indent, seg |-> Index]
KeyAt(l, col) == [col |-> col, seg |-> l.key]
AfterDash(l) == l.indent + 1 + l.gap

NodesOf(l) ==
  CASE l.shape = "key"     -> <<KeyAt(l, l.indent)>>
    [] l.shape = "dash"    -> <<Item(l)>>
    [] l.shape = "dashKey" -> <<Item(l), KeyAt(l, AfterDash(l))>>
    [] OTHER               -> <<>>

\* Mutant: an item does not close the key of the item before it.
ProcessItemOnTop(s, l) ==
  CASE l.shape = "key"     -> Push(s, KeyAt(l, l.indent))
    [] l.shape = "dash"    -> Append(s, Item(l))
    [] l.shape = "dashKey" -> Push(Append(s, Item(l)), KeyAt(l, AfterDash(l)))
    [] OTHER               -> s

\* process_line.
ProcessLine(s, l) ==
  CASE l.shape = "key"     -> Push(s, KeyAt(l, l.indent))
    [] l.shape = "dash"    -> Push(s, Item(l))
    [] l.shape = "dashKey" -> Push(Push(s, Item(l)), KeyAt(l, AfterDash(l)))
    [] OTHER               -> s

\* min(cursor column, leading non-space column): a blank line has none.
IntendedIndent(l, column) ==
  IF l.shape # "blank" /\ l.indent < column THEN l.indent ELSE column

Init ==
  /\ stack = <<>>
  /\ read = 0
  /\ nodes = <<>>
  /\ cursor = Nowhere

\* A line above the cursor.
ReadLine(l) ==
  /\ cursor = Nowhere
  /\ read < MaxLines
  /\ read' = read + 1
  /\ stack' = ProcessLine(stack, l)
  /\ nodes' = nodes \o NodesOf(l)
  /\ UNCHANGED cursor

\* Mutant: the stack is not cut to the indentation of the cursor.
ReadCursorLineAsAny(l, column) ==
  /\ cursor = Nowhere
  /\ stack' = ProcessLine(stack, l)
  /\ nodes' = nodes \o NodesOf(l)
  /\ cursor' = [line |-> l, column |-> column]
  /\ UNCHANGED read

\* The line with the cursor, which ends the scan.
ReadCursorLine(l, column) ==
  /\ cursor = Nowhere
  /\ stack' = ProcessLine(PopTo(stack, IntendedIndent(l, column)), l)
  /\ nodes' = nodes \o NodesOf(l)
  /\ cursor' = [line |-> l, column |-> column]
  /\ UNCHANGED read

\* The columns a cursor on a line may have; a blank line ends at its indent.
Columns(l) == 0 .. IF l.shape = "blank" THEN l.indent ELSE AfterDash(l) + 1

Finished == cursor # Nowhere /\ UNCHANGED vars

Next ==
  \/ \E l \in Lines : ReadLine(l) \/ \E column \in Columns(l) : ReadCursorLine(l, column)
  \/ Finished

Spec == Init /\ [][Next]_vars
----------------------------------------------------------------------------
(***************************************************************************)
(* Properties.                                                             *)
(***************************************************************************)
Path == {stack[i] : i \in DOMAIN stack}

\* The stack holds segments of the text, in columns that grow.
TypeOK ==
  /\ stack \in Seq(Node)
  /\ \A i, j \in DOMAIN stack : i < j => stack[i].col < stack[j].col
  /\ read \in 0 .. MaxLines
  /\ nodes \in Seq(Node)
  /\ cursor \in [line : Lines, column : Nat] \cup {Nowhere}

\* YAML: a node is open until another begins at its column or to the left of
\* it, except that the items of a sequence may begin at the column of its key.
KeepsOpen(i, j) ==
  \/ nodes[j].col > nodes[i].col
  \/ nodes[j].col = nodes[i].col /\ nodes[i].seg \in Keys /\ nodes[j].seg = Index
Open == {i \in DOMAIN nodes : \A j \in i + 1 .. Len(nodes) : KeepsOpen(i, j)}
OpenNodes == {nodes[i] : i \in Open}

\* A sequence written at the column of its key.
FlushSequence ==
  \E i, j \in DOMAIN nodes :
    /\ i < j /\ nodes[i].col = nodes[j].col /\ nodes[i].seg \in Keys /\ nodes[j].seg = Index
    /\ \A k \in i + 1 .. j : nodes[k].col >= nodes[i].col

\* After any lines, the path is that of the open nodes, as long as no
\* sequence is written at the column of its key.
PathIsOpenNodes == cursor = Nowhere /\ ~FlushSequence => Path = OpenNodes

HasNode == NodesOf(cursor.line) # <<>>

\* A cursor on a line without a key is below the open nodes to the left of
\* where the line begins, or of the cursor itself on a blank line: a key of
\* an upper line does not leak into the path.
CursorBelowOpenNodes ==
  cursor # Nowhere /\ ~FlushSequence /\ ~HasNode =>
    Path = {n \in OpenNodes : n.col < IntendedIndent(cursor.line, cursor.column)}

\* A cursor on the text of a line with a key or an item gets the path down to
\* it.
CursorOnNode ==
  cursor # Nowhere /\ ~FlushSequence /\ HasNode /\ cursor.column >= cursor.line.indent =>
    Path = OpenNodes

\* "Returns the path from the document root down to (and including) the key
\* on the target line": the key a sequence belongs to is on that path,
\* wherever YAML allows its items to begin.
ItemsKeepTheirKey == cursor = Nowhere => Path = OpenNodes
=============================================================================
