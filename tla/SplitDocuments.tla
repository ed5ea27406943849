--------------------------- MODULE SplitDocuments ---------------------------
(***************************************************************************)
(* The stream parser of crates/k8s-lsp-parser: a text is read line by line *)
(* and cut into byte ranges at its `---` markers, each range becomes a     *)
(* DocumentPart, a cursor is mapped to the part around it and an issue of  *)
(* a part to a line of the text.                                           *)
(*                                                                         *)
(* A line is opaque: its class says what the parser can tell of it, its    *)
(* length is in bytes.  The identity of a resource is reduced to its kind. *)
(* `lines` is the text read so far; the program holds it in a &str.        *)
(***************************************************************************)
EXTENDS Naturals, Sequences, FiniteSets

CONSTANTS
  Lines,    \* the lines a text may be made of
  Kinds,
  NoKind,   \* a kind that is None
  Keys,     \* the last keys of the paths that issues have
  MaxLines  \* bound: newlines in a text

VARIABLES
  lines,      \* the lines read, with the offset each begins at
  start,      \* where the current document begins
  lineStart,  \* where the current line begins
  ranges,     \* the ranges found, blank ones included
  done        \* the end of the text has been reached

vars == <<lines, start, lineStart, ranges, done>>

(***************************************************************************)
(* "marker" is `---`, "markedComment" `--- # ...`, "markedText" `--- ` and *)
(* a value, "terminator" `...`; a "broken" line makes the YAML around it   *)
(* unreadable; a "kind" line gives the kind of the resource; any other     *)
(* line of a resource, in a block scalar too, is a "field".  The heads of  *)
(* a line are the keys that `key:` at its first character can be read as.  *)
(***************************************************************************)
Markers == {"marker", "markedComment", "markedText"}
Classes == Markers \cup {"terminator", "broken", "kind", "field", "comment", "blank"}
Line == [class : Classes, len : Nat, kind : Kinds \cup {NoKind}, heads : SUBSET Keys]

ASSUME LineAssumption ==
  /\ Lines \subseteq Line
  /\ \A l \in Lines : /\ l.class \in Markers \cup {"terminator"} => l.len >= 3
                      /\ l.class # "blank" => l.len >= 1
                      /\ l.class = "kind" <=> l.kind # NoKind
ASSUME KindAssumption == NoKind \notin Kinds
ASSUME MaxLinesAssumption == MaxLines \in Nat
----------------------------------------------------------------------------
(***************************************************************************)
(* split_documents.                                                        *)
(***************************************************************************)
Init ==
  /\ lines = <<>>
  /\ start = 0 /\ lineStart = 0
  /\ ranges = {}
  /\ done = FALSE

IsSeparator(l) == l.class \in Markers
IsTerminator(l) == l.class = "terminator"

Read(l) == lines' = Append(lines, [line |-> l, from |-> lineStart])

\* The document before a marker, if the marker is not its first line.
Cut == IF lineStart > start THEN {[from |-> start, to |-> lineStart]} ELSE {}

\* Mutants: the range runs to the end of the marker; the next document begins
\* one byte late.
LineBreakAfterMarker(l) ==
  LET next == lineStart + l.len + 1
  IN  /\ ~done /\ Len(lines) < MaxLines
      /\ Read(l)
      /\ lineStart' = next
      /\ IF IsSeparator(l)
         THEN /\ ranges' = ranges \cup {[from |-> start, to |-> next]}
              /\ start' = next
         ELSE UNCHANGED <<ranges, start>>
      /\ UNCHANGED done

LineBreakLate(l) ==
  LET next == lineStart + l.len + 1
  IN  /\ ~done /\ Len(lines) < MaxLines
      /\ Read(l)
      /\ lineStart' = next
      /\ IF IsSeparator(l)
         THEN /\ ranges' = ranges \cup Cut
              /\ start' = next + 1
         ELSE UNCHANGED <<ranges, start>>
      /\ UNCHANGED done

\* A line that ends with a newline.
LineBreak(l) ==
  LET next == lineStart + l.len + 1
  IN  /\ ~done /\ Len(lines) < MaxLines
      /\ Read(l)
      /\ lineStart' = next
      /\ IF IsSeparator(l)
         THEN /\ ranges' = ranges \cup Cut
              /\ start' = next
         ELSE UNCHANGED <<ranges, start>>
      /\ UNCHANGED done

\* Mutant: the document after the last marker is forgotten.
EndOfTextAtMarker(l) ==
  /\ ~done
  /\ Read(l)
  /\ ranges' = ranges \cup (IF IsSeparator(l) THEN Cut ELSE {})
  /\ done' = TRUE
  /\ UNCHANGED <<start, lineStart>>

\* The last line, empty if the text ends with a newline.  A terminator counts
\* here only, where the document ends anyway.
EndOfText(l) ==
  LET size == lineStart + l.len
  IN  /\ ~done
      /\ Read(l)
      /\ \/ /\ IsSeparator(l)
            /\ ranges' = ranges \cup Cut
            /\ start' = size
         \/ /\ IsTerminator(l)
            /\ ranges' = ranges \cup {[from |-> start, to |-> size]}
            /\ start' = size
         \/ /\ ~IsSeparator(l) /\ ~IsTerminator(l)
            /\ ranges' = ranges \cup
                 (IF start < size THEN {[from |-> start, to |-> size]} ELSE {})
            /\ UNCHANGED start
      /\ done' = TRUE
      /\ UNCHANGED lineStart

Finished == done /\ UNCHANGED vars

Next == (\E l \in Lines : LineBreak(l) \/ EndOfText(l)) \/ Finished

Spec == Init /\ [][Next]_vars
----------------------------------------------------------------------------
(***************************************************************************)
(* parse.                                                                  *)
(***************************************************************************)
Class(n) == lines[n].line.class
Kind(n) == lines[n].line.kind
From(n) == lines[n].from
To(n) == From(n) + lines[n].line.len

\* The numbers of the lines in a range.
Within(r) == {n \in DOMAIN lines : r.from <= From(n) /\ To(n) <= r.to}

IsBlank(r) == \A n \in Within(r) : Class(n) = "blank"
Documents == {r \in ranges : ~IsBlank(r)}

KindLines(r) == {n \in Within(r) : Class(n) = "kind"}

\* serde_yaml reads one document: a terminator before it, a second document
\* after one, a repeated key and a broken line are errors.
Readable(r) ==
  /\ \A n \in Within(r) : Class(n) # "broken"
  /\ \A m, n \in KindLines(r) : m = n
  /\ \A m, n \in Within(r) :
       Class(m) = "terminator" /\ m < n => Class(n) \in {"blank", "comment", "terminator"}
  /\ \A n \in Within(r) :
       Class(n) = "terminator" => \E m \in Within(r) : m < n /\ Class(m) \in {"kind", "field"}

\* The only kind line of a readable document; of any other the last one, as
\* scan_identity goes through all of them.
KindOf(r) ==
  IF KindLines(r) = {} THEN NoKind
  ELSE Kind(CHOOSE n \in KindLines(r) : \A m \in KindLines(r) : m <= n)

\* Mutant: a document that cannot be read ends the loop.
PartsBeforeBroken ==
  {[range |-> r, kind |-> KindOf(r)] :
     r \in {d \in Documents : \A e \in Documents : e.from <= d.from => Readable(e)}}

\* A document that cannot be read and has no identity has no part.
Parts ==
  {[range |-> r, kind |-> KindOf(r)] :
     r \in {d \in Documents : Readable(d) \/ KindOf(d) # NoKind}}
----------------------------------------------------------------------------
(***************************************************************************)
(* position_to_offset and part_at.                                         *)
(***************************************************************************)
Offset(n, character) ==
  From(n) + (IF character < lines[n].line.len THEN character ELSE lines[n].line.len)

\* Mutant: the end of a part does not belong to it.
ContainsExclusive(p, offset) == p.range.from <= offset /\ offset < p.range.to

Contains(p, offset) == p.range.from <= offset /\ offset <= p.range.to

\* The first part around an offset.
PartsAt(offset) ==
  {p \in Parts : Contains(p, offset) /\
                 \A q \in Parts : Contains(q, offset) => p.range.from <= q.range.from}

\* Line breaks at the offsets of an interval, its upper end left out; the last
\* line has none.
Breaks(from, to) == Cardinality({n \in DOMAIN lines : from <= To(n) /\ To(n) < to})

\* Mutant: a break at the offset itself counts.
ByteToLineInclusive(byte) == Breaks(0, byte + 1)

ByteToLine(byte) == Breaks(0, byte)

HeadedBy(r, key) == {n \in Within(r) : key \in lines[n].line.heads}

\* locate_path: the number, from 0, of the first line of the part that begins
\* with the key, whatever that line is, or else of the part's first line.
Locate(r, key) ==
  IF HeadedBy(r, key) = {} THEN ByteToLine(r.from)
  ELSE LET first == CHOOSE n \in HeadedBy(r, key) : \A m \in HeadedBy(r, key) : n <= m
       IN  ByteToLine(r.from) + Breaks(r.from, From(first))
----------------------------------------------------------------------------
(***************************************************************************)
(* Properties.                                                             *)
(***************************************************************************)
\* The scan never runs ahead of its text.
TypeOK ==
  /\ lines \in Seq([line : Lines, from : Nat])
  /\ lineStart \in Nat
  /\ start \in Nat
  /\ ~done => start <= lineStart
  /\ ranges \subseteq [from : Nat, to : Nat]
  /\ done \in BOOLEAN

\* "Byte ranges must be non-overlapping": even the ends of two ranges differ,
\* so that part_at, which takes an end for a part of the range, has one
\* candidate at most.
Apart(r, s) == r.to < s.from \/ s.to < r.from
RangesApart == \A r, s \in ranges : r.from < r.to /\ (r = s \/ Apart(r, s))

\* The documents of a text as the comment over split_documents has them: "a
\* separator is a line containing only `---`, optionally with a trailing
\* comment", and `...` "is treated as a terminator for the current doc".
Separators == {"marker", "markedComment"}
DocumentLines == {n \in DOMAIN lines : Class(n) \notin Separators \cup {"terminator", "blank"}}
Between(m, n) == {k \in DOMAIN lines : (m < k /\ k < n) \/ (n < k /\ k < m)}
Separated(m, n) == \E k \in Between(m, n) : Class(k) \in Separators
SameDocument(m, n) == \A k \in Between(m, n) : Class(k) \notin Separators \cup {"terminator"}

\* split_documents, against those documents.  A line with a value behind the
\* dashes is none of its separators, and the parser drops it: it costs no
\* other line its document, comments included.  Lines that a separator parts
\* share no range, and lines of one document do share it, unless such a line
\* is between them.
LinesKept ==
  done => /\ \A n \in DocumentLines : Class(n) # "markedText" => \E r \in Documents : n \in Within(r)
          /\ \A m, n \in DocumentLines, r \in Documents : m \in Within(r) =>
               /\ n \in Within(r) => ~Separated(m, n)
               /\ /\ SameDocument(m, n) /\ Class(n) # "markedText"
                  /\ \A k \in Between(m, n) : Class(k) # "markedText"
                  => n \in Within(r)

\* parser lib.rs:25: `...` "is treated as a terminator for the current doc":
\* what stands behind it is not in the document in front of it.
TerminatorEndsDocument ==
  done => \A m, n \in DocumentLines, r \in Documents :
            /\ Class(m) \in {"kind", "field"} /\ Class(n) \in {"kind", "field"}
            /\ \E k \in Between(m, n) : Class(k) = "terminator"
            => ~(m \in Within(r) /\ n \in Within(r))

\* A resource whose kind is written once, and parted by separators from every
\* other one, has a part of that kind, whatever is wrong with it or with the
\* resources around it.
BrokenStaysAlone ==
  done => \A n \in DocumentLines :
            /\ Class(n) = "kind"
            /\ \A m \in DocumentLines : Class(m) = "kind" => m = n \/ Separated(m, n)
            => \E p \in Parts : n \in Within(p.range) /\ p.kind = Kind(n)

\* A cursor anywhere on a line of a part, its end included, is in that part.
CursorInItsPart ==
  done => \A p \in Parts : \A n \in Within(p.range) :
            \A character \in 0 .. lines[n].line.len + 1 :
              PartsAt(Offset(n, character)) = {p}

\* publish_diagnostics: lines are counted from the part's byte offset on, and
\* the line an issue is shown at is one of the part, and one that begins with
\* the key of the issue if any line of the part does.
IssueShownInItsPart ==
  done => \A p \in Parts, key \in Keys : \E n \in Within(p.range) :
            /\ Locate(p.range, key) + 1 = n
            /\ HeadedBy(p.range, key) # {} => n \in HeadedBy(p.range, key)
=============================================================================
