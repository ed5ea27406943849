------------------------ MODULE SplitDocumentsProofs ------------------------
(***************************************************************************)
(* Theorems about SplitDocuments, for texts of any length and any lines:   *)
(* the ranges are apart, so that part_at has one candidate at most; every  *)
(* line but those the code drops is in a range, with the other lines of    *)
(* its document; a part stands whatever is wrong with those around it; and *)
(* an issue is shown at a line of its part.                                *)
(***************************************************************************)
EXTENDS SplitDocuments, TLAPS, SequenceTheorems, FiniteSetTheorems, WellFoundedInduction

\* Every range found ends before the document being read begins.
RangesBehind == ~done => \A r \in ranges : r.to < start

SplitInv == TypeOK /\ RangesApart /\ RangesBehind

\* A range that begins where the current document does joins the others.
LEMMA NewRange ==
  ASSUME SplitInv, ~done, NEW from \in Nat, NEW to \in Nat, start <= from, from < to,
         ranges' \subseteq ranges \cup {[from |-> from, to |-> to]}
  PROVE  /\ ranges' \subseteq [from : Nat, to : Nat]
         /\ RangesApart'
         /\ \A r \in ranges' : r.to <= to
<1>1. \A r \in ranges : r \in [from : Nat, to : Nat] /\ r.from < r.to /\ r.to < start
  BY DEF SplitInv, TypeOK, RangesApart, RangesBehind
<1>2. start \in Nat
  BY DEF SplitInv, TypeOK
<1>3. ranges' \subseteq [from : Nat, to : Nat]
  BY <1>1
<1>4. ASSUME NEW r \in ranges', NEW s \in ranges'
      PROVE  r.from < r.to /\ (r = s \/ Apart(r, s))
  <2>1. CASE r \in ranges /\ s \in ranges
    BY <2>1 DEF SplitInv, RangesApart
  <2>2. CASE r \notin ranges \/ s \notin ranges
    BY <1>1, <1>2, <2>2 DEF Apart
  <2> QED
    BY <2>1, <2>2
<1>5. \A r \in ranges' : r.to <= to
  BY <1>1, <1>2
<1> QED
  BY <1>3, <1>4, <1>5 DEF RangesApart

\* The lines and where the next one begins.
LEMMA ReadType ==
  ASSUME SplitInv, NEW l \in Lines, Read(l)
  PROVE  /\ lines' \in Seq([line : Lines, from : Nat])
         /\ l.len \in Nat
         /\ IsSeparator(l) \/ IsTerminator(l) => l.len >= 3
<1>1. lines \in Seq([line : Lines, from : Nat]) /\ lineStart \in Nat
  BY DEF SplitInv, TypeOK
<1>2. lines' \in Seq([line : Lines, from : Nat])
  BY <1>1, AppendProperties DEF Read
<1>3. l \in Line
  BY LineAssumption
<1>4. l.class \in Markers \cup {"terminator"} => l.len >= 3
  BY LineAssumption
<1> QED
  BY <1>2, <1>3, <1>4 DEF Line, IsSeparator, IsTerminator

\* A line with a newline, marker or not.
LEMMA LineBreakInv ==
  ASSUME SplitInv, NEW l \in Lines, LineBreak(l)
  PROVE  SplitInv'
<1> DEFINE next == lineStart + l.len + 1
<1>0. /\ Read(l) /\ ~done /\ done' = done /\ lineStart' = next
      /\ lineStart \in Nat /\ start \in Nat /\ start <= lineStart /\ done \in BOOLEAN
  BY DEF LineBreak, SplitInv, TypeOK
<1>1. /\ lines' \in Seq([line : Lines, from : Nat]) /\ l.len \in Nat
      /\ next \in Nat /\ lineStart < next
  <2>1. lines' \in Seq([line : Lines, from : Nat]) /\ l.len \in Nat
    BY <1>0, ReadType
  <2> QED
    BY <1>0, <2>1
<1>2. CASE IsSeparator(l) /\ start < lineStart
  <2>1. ranges' = ranges \cup {[from |-> start, to |-> lineStart]} /\ start' = next
    BY <1>0, <1>1, <1>2 DEF LineBreak, Cut
  <2>2. /\ ranges' \subseteq [from : Nat, to : Nat] /\ RangesApart'
        /\ \A r \in ranges' : r.to <= lineStart
    BY <1>0, <1>1, <1>2, <2>1, NewRange
  <2>3. RangesBehind'
    BY <1>0, <1>1, <2>1, <2>2 DEF RangesBehind
  <2> QED
    BY <1>0, <1>1, <2>1, <2>2, <2>3 DEF SplitInv, TypeOK
<1>3. CASE IsSeparator(l) /\ ~(start < lineStart)
  <2>1. ranges' = ranges /\ start' = next /\ start <= next
    <3>1. Cut = {} /\ ranges \cup {} = ranges
      BY <1>3 DEF Cut
    <3> QED
      BY <1>0, <1>1, <1>3, <3>1 DEF LineBreak
  <2>2. RangesBehind'
    BY <1>0, <1>1, <2>1 DEF SplitInv, TypeOK, RangesBehind
  <2> QED
    BY <1>0, <1>1, <2>1, <2>2 DEF SplitInv, TypeOK, RangesApart
<1>4. CASE ~IsSeparator(l)
  <2>1. ranges' = ranges /\ start' = start
    BY <1>4 DEF LineBreak
  <2> QED
    BY <1>0, <1>1, <2>1 DEF SplitInv, TypeOK, RangesApart, RangesBehind
<1> QED
  BY <1>2, <1>3, <1>4

\* The last line.
LEMMA EndOfTextInv ==
  ASSUME SplitInv, NEW l \in Lines, EndOfText(l)
  PROVE  SplitInv'
<1> DEFINE size == lineStart + l.len
<1>0. /\ Read(l) /\ ~done /\ done' = TRUE /\ lineStart' = lineStart
      /\ lineStart \in Nat /\ start \in Nat /\ start <= lineStart
      /\ start' \in {start, size}
  BY DEF EndOfText, SplitInv, TypeOK
<1>1. /\ lines' \in Seq([line : Lines, from : Nat]) /\ l.len \in Nat
      /\ size \in Nat /\ start' \in Nat
  <2>1. lines' \in Seq([line : Lines, from : Nat]) /\ l.len \in Nat
    BY <1>0, ReadType
  <2> QED
    BY <1>0, <2>1
<1>2. \/ ranges' = ranges
      \/ /\ start < lineStart
         /\ ranges' = ranges \cup {[from |-> start, to |-> lineStart]}
      \/ /\ start < size
         /\ ranges' = ranges \cup {[from |-> start, to |-> size]}
  <2>1. CASE IsSeparator(l)
    BY <1>0, <1>1, <2>1 DEF EndOfText, Cut, IsSeparator, IsTerminator, Markers
  <2>2. CASE IsTerminator(l)
    BY <1>0, <1>1, <2>2, ReadType DEF EndOfText, IsSeparator, IsTerminator, Markers
  <2>3. CASE ~IsSeparator(l) /\ ~IsTerminator(l)
    BY <1>0, <1>1, <2>3 DEF EndOfText
  <2> QED
    BY <2>1, <2>2, <2>3
<1>3. ranges' \subseteq [from : Nat, to : Nat] /\ RangesApart'
  <2>1. CASE ranges' = ranges
    BY <2>1 DEF SplitInv, TypeOK, RangesApart
  <2>2. CASE ranges' # ranges
    BY <1>0, <1>1, <1>2, <2>2, NewRange
  <2> QED
    BY <2>1, <2>2
<1> QED
  BY <1>0, <1>1, <1>3 DEF SplitInv, TypeOK, RangesBehind

\* The scan keeps its types and the ranges apart, step by step.
LEMMA SplitInvariant == Spec => []SplitInv
<1>1. Init => SplitInv
  <2>1. <<>> \in Seq([line : Lines, from : Nat])
    BY EmptySeq
  <2>2. Init => TypeOK
    <3> SUFFICES ASSUME Init PROVE TypeOK
      OBVIOUS
    <3>1. lines \in Seq([line : Lines, from : Nat])
      BY <2>1 DEF Init
    <3>2. start \in Nat /\ lineStart \in Nat /\ start <= lineStart
      BY DEF Init
    <3>3. ranges \subseteq [from : Nat, to : Nat] /\ done \in BOOLEAN
      BY DEF Init
    <3> QED
      BY <3>1, <3>2, <3>3 DEF TypeOK
  <2>3. Init => RangesApart /\ RangesBehind
    BY DEF Init, RangesApart, RangesBehind
  <2> QED
    BY <2>2, <2>3 DEF SplitInv
<1>2. SplitInv /\ [Next]_vars => SplitInv'
  <2> SUFFICES ASSUME SplitInv, [Next]_vars PROVE SplitInv'
    OBVIOUS
  <2>1. CASE UNCHANGED vars
    BY <2>1 DEF vars, SplitInv, TypeOK, RangesApart, RangesBehind
  <2>2. CASE Next
    BY <2>1, <2>2, LineBreakInv, EndOfTextInv DEF Next, Finished
  <2> QED
    BY <2>1, <2>2
<1> QED
  BY <1>1, <1>2, PTL DEF Spec

\* Two ranges that split_documents returns never touch, whatever the text.
THEOREM Separation == Spec => []RangesApart
<1>1. SplitInv => RangesApart
  BY DEF SplitInv
<1> QED
  BY <1>1, SplitInvariant, PTL

\* part_at: no offset, the end of a range included, belongs to two parts, so
\* that taking the first one is taking the only one.
OnePartAt ==
  \A offset \in Nat : \A p, q \in Parts :
    Contains(p, offset) /\ Contains(q, offset) => p = q

\* In every text every offset has at most one part around it.
THEOREM CursorHasOnePart == Spec => []OnePartAt
<1>1. SplitInv => OnePartAt
  <2> SUFFICES ASSUME SplitInv, NEW offset \in Nat, NEW p \in Parts, NEW q \in Parts,
                      Contains(p, offset), Contains(q, offset)
               PROVE  p = q
    BY DEF OnePartAt
  <2>1. PICK r \in ranges : p = [range |-> r, kind |-> KindOf(r)]
    BY DEF Parts, Documents
  <2>2. PICK s \in ranges : q = [range |-> s, kind |-> KindOf(s)]
    BY DEF Parts, Documents
  <2>3. r.from \in Nat /\ r.to \in Nat /\ s.from \in Nat /\ s.to \in Nat
    BY DEF SplitInv, TypeOK
  <2>4. ~Apart(r, s)
    BY <2>1, <2>2, <2>3 DEF Apart, Contains
  <2> QED
    BY <2>1, <2>2, <2>4 DEF SplitInv, RangesApart
<1> QED
  BY <1>1, SplitInvariant, PTL

(***************************************************************************)
(* What is in the ranges.                                                  *)
(***************************************************************************)
IsMarker(n) == Class(n) \in Markers

\* What is not blank and no marker to the code, and the markers up to a line.
TextLines == {n \in DOMAIN lines : Class(n) \notin Markers \cup {"blank"}}
MarkersUpTo(n) == {m \in 1 .. n : Class(m) \in Markers}
SameMarkers(m, n) == MarkersUpTo(m) = MarkersUpTo(n)

\* The lines follow one another, the next one behind them.
Layout ==
  /\ \A m, n \in DOMAIN lines : m < n => To(m) < From(n)
  /\ ~done => \A n \in DOMAIN lines : To(n) < lineStart

\* The current document begins behind the last marker.
StartAtMarker ==
  ~done => /\ start = 0 \/ \E k \in DOMAIN lines : IsMarker(k) /\ start = To(k) + 1
           /\ \A k \in DOMAIN lines : IsMarker(k) => To(k) < start

\* A range goes from marker to marker, both left out, and from the start and to
\* the end of the text.
BetweenMarkers ==
  \A r \in ranges :
    /\ r.from = 0 \/ \E k \in DOMAIN lines : IsMarker(k) /\ r.from = To(k) + 1
    /\ \/ \E k \in DOMAIN lines : IsMarker(k) /\ r.to = From(k)
       \/ done /\ \A n \in DOMAIN lines : To(n) <= r.to
    /\ \A n \in Within(r) : ~IsMarker(n)

\* A line is in a range or belongs to the current document.
Covered ==
  \A n \in TextLines : \/ ~done /\ start <= From(n)
                       \/ \E r \in ranges : n \in Within(r)

ContentInv == Layout /\ StartAtMarker /\ BetweenMarkers /\ Covered

\* The numbers that belong to a line.
LEMMA LineType ==
  ASSUME TypeOK, NEW n \in DOMAIN lines
  PROVE  /\ n \in Nat
         /\ lines[n].line \in Lines
         /\ From(n) \in Nat /\ lines[n].line.len \in Nat /\ To(n) = From(n) + lines[n].line.len
         /\ To(n) \in Nat /\ From(n) <= To(n)
         /\ IsMarker(n) => From(n) < To(n)
         /\ Class(n) # "blank" => From(n) < To(n)
<1>1. lines[n] \in [line : Lines, from : Nat] /\ n \in Nat
  <2>1. lines \in Seq([line : Lines, from : Nat])
    BY DEF TypeOK
  <2>2. n \in 1 .. Len(lines)
    BY <2>1
  <2>3. lines[n] \in [line : Lines, from : Nat]
    BY <2>1, <2>2, ElementOfSeq
  <2> QED
    BY <2>1, <2>2, <2>3, LenProperties
<1>2. lines[n].line \in Lines /\ lines[n].from \in Nat
  BY <1>1
<1>3. lines[n].line \in Line
  BY <1>2, LineAssumption
<1>4. lines[n].line.len \in Nat
  BY <1>3 DEF Line
<1>5. Class(n) # "blank" => lines[n].line.len >= 1
  BY <1>2, LineAssumption DEF Class
<1>6. IsMarker(n) => Class(n) # "blank"
  BY DEF IsMarker, Markers
<1> QED
  BY <1>1, <1>2, <1>4, <1>5, <1>6 DEF From, To

\* Reading a line leaves the others what they are.
LEMMA ReadLine ==
  ASSUME TypeOK, NEW l \in Lines, Read(l)
  PROVE  \E last \in Nat \ {0} :
           /\ last = Len(lines) + 1 /\ DOMAIN lines = 1 .. last - 1 /\ DOMAIN lines' = 1 .. last
           /\ \A n \in DOMAIN lines : /\ Class(n)' = Class(n) /\ From(n)' = From(n) /\ To(n)' = To(n)
                                      /\ IsMarker(n)' = IsMarker(n)
           /\ Class(last)' = l.class /\ From(last)' = lineStart /\ To(last)' = lineStart + l.len
           /\ IsMarker(last)' = IsSeparator(l)
<1>1. lines \in Seq([line : Lines, from : Nat]) /\ lineStart \in Nat
  BY DEF TypeOK
<1>2. [line |-> l, from |-> lineStart] \in [line : Lines, from : Nat]
  BY <1>1
<1>3. /\ lines' = Append(lines, [line |-> l, from |-> lineStart])
      /\ DOMAIN lines = 1 .. Len(lines) /\ Len(lines) \in Nat
  BY <1>1 DEF Read
<1>4. PICK last \in Nat \ {0} : last = Len(lines) + 1
  BY <1>3
<1>5. /\ DOMAIN lines' = 1 .. last /\ DOMAIN lines = 1 .. last - 1
      /\ \A n \in DOMAIN lines : lines'[n] = lines[n]
      /\ lines'[last] = [line |-> l, from |-> lineStart]
  BY <1>1, <1>2, <1>3, <1>4
<1> QED
  BY <1>4, <1>5 DEF Class, From, To, IsMarker, IsSeparator

\* The lines follow one another still.
LEMMA ReadLayout ==
  ASSUME SplitInv, ContentInv, ~done, NEW l \in Lines, Read(l),
         done' \/ lineStart' = lineStart + l.len + 1
  PROVE  Layout'
<1>1. PICK last \in Nat \ {0} :
      /\ DOMAIN lines = 1 .. last - 1 /\ DOMAIN lines' = 1 .. last
      /\ \A n \in DOMAIN lines : From(n)' = From(n) /\ To(n)' = To(n)
      /\ From(last)' = lineStart /\ To(last)' = lineStart + l.len
  BY ReadLine DEF SplitInv
<1>2. /\ \A n \in DOMAIN lines : From(n) \in Nat /\ To(n) \in Nat /\ To(n) < lineStart
      /\ lineStart \in Nat /\ l.len \in Nat
  BY LineType, ReadType DEF SplitInv, TypeOK, ContentInv, Layout
<1>3. ASSUME NEW m \in DOMAIN lines', NEW n \in DOMAIN lines', m < n
      PROVE  To(m)' < From(n)'
  <2>1. m \in DOMAIN lines
    BY <1>1, <1>3
  <2>2. CASE n = last
    BY <1>1, <1>2, <2>1, <2>2
  <2>3. CASE n # last
    <3>1. n \in DOMAIN lines
      BY <1>1, <2>3
    <3> QED
      BY <1>1, <1>3, <2>1, <3>1 DEF ContentInv, Layout
  <2> QED
    BY <2>2, <2>3
<1>4. ASSUME ~done', NEW n \in DOMAIN lines'
      PROVE  To(n)' < lineStart'
  <2>1. CASE n = last
    BY <1>1, <1>2, <1>4, <2>1
  <2>2. CASE n # last
    <3>1. n \in DOMAIN lines
      BY <1>1, <2>2
    <3> QED
      BY <1>1, <1>2, <1>4, <3>1
  <2> QED
    BY <2>1, <2>2
<1> QED
  BY <1>3, <1>4 DEF Layout

\* The line read is behind every range found.
LEMMA OldRange ==
  ASSUME SplitInv, ~done, NEW l \in Lines, Read(l), NEW r \in ranges
  PROVE  Within(r)' = Within(r)
<1>1. PICK last \in Nat \ {0} :
      /\ DOMAIN lines = 1 .. last - 1 /\ DOMAIN lines' = 1 .. last
      /\ \A n \in DOMAIN lines : From(n)' = From(n) /\ To(n)' = To(n)
      /\ From(last)' = lineStart /\ To(last)' = lineStart + l.len
  BY ReadLine DEF SplitInv
<1>2. /\ lineStart \in Nat /\ l.len \in Nat /\ start \in Nat /\ start <= lineStart
      /\ r.to \in Nat /\ r.to < start
  BY ReadType DEF SplitInv, TypeOK, RangesBehind
<1>3. ~(To(last)' <= r.to)
  BY <1>1, <1>2
<1>4. ASSUME NEW n
      PROVE  n \in Within(r)' <=> n \in Within(r)
  <2>1. CASE n = last
    BY <1>1, <1>3, <2>1 DEF Within
  <2>2. CASE n # last
    <3>1. n \in DOMAIN lines' <=> n \in DOMAIN lines
      BY <1>1, <2>2
    <3> QED
      BY <1>1, <3>1 DEF Within
  <2> QED
    BY <2>1, <2>2
<1> QED
  BY <1>4

\* A range that begins where the current document does, and ends where the line
\* read begins, a marker, or else where the text ends.
LEMMA RangeContent ==
  ASSUME SplitInv, ContentInv, ~done, NEW l \in Lines, Read(l), NEW to,
         \/ IsSeparator(l) /\ to = lineStart
         \/ ~IsSeparator(l) /\ to = lineStart + l.len /\ done',
         ranges' \subseteq ranges \cup {[from |-> start, to |-> to]}
  PROVE  BetweenMarkers'
<1>1. PICK last \in Nat \ {0} :
      /\ DOMAIN lines = 1 .. last - 1 /\ DOMAIN lines' = 1 .. last
      /\ \A n \in DOMAIN lines : From(n)' = From(n) /\ To(n)' = To(n) /\ IsMarker(n)' = IsMarker(n)
      /\ From(last)' = lineStart /\ To(last)' = lineStart + l.len
      /\ IsMarker(last)' = IsSeparator(l)
  BY ReadLine DEF SplitInv
<1>2. /\ lineStart \in Nat /\ l.len \in Nat /\ start \in Nat
      /\ IsSeparator(l) => l.len >= 3
      /\ \A n \in DOMAIN lines : /\ From(n) \in Nat /\ To(n) \in Nat /\ From(n) <= To(n)
                                 /\ To(n) < lineStart
  BY LineType, ReadType DEF SplitInv, TypeOK, ContentInv, Layout
<1>3. last \in DOMAIN lines' /\ \A n \in DOMAIN lines : n \in DOMAIN lines'
  BY <1>1
<1>4. ASSUME NEW r \in ranges
      PROVE  /\ r.from = 0 \/ \E k \in DOMAIN lines' : IsMarker(k)' /\ r.from = To(k)' + 1
             /\ \E k \in DOMAIN lines' : IsMarker(k)' /\ r.to = From(k)'
             /\ \A n \in Within(r)' : ~IsMarker(n)'
  <2>1. /\ r.from = 0 \/ \E k \in DOMAIN lines : IsMarker(k) /\ r.from = To(k) + 1
        /\ \E k \in DOMAIN lines : IsMarker(k) /\ r.to = From(k)
        /\ \A n \in Within(r) : ~IsMarker(n)
    BY DEF ContentInv, BetweenMarkers
  <2>2. \A n \in Within(r)' : n \in Within(r) /\ n \in DOMAIN lines
    BY OldRange DEF Within
  <2> QED
    BY <1>1, <1>3, <2>1, <2>2
<1>5. PICK new : new = [from |-> start, to |-> to]
  OBVIOUS
<1>6. new.from = 0 \/ \E k \in DOMAIN lines' : IsMarker(k)' /\ new.from = To(k)' + 1
  <2>1. start = 0 \/ \E k \in DOMAIN lines : IsMarker(k) /\ start = To(k) + 1
    BY DEF ContentInv, StartAtMarker
  <2> QED
    BY <1>1, <1>3, <1>5, <2>1
<1>7. \/ \E k \in DOMAIN lines' : IsMarker(k)' /\ new.to = From(k)'
      \/ done' /\ \A n \in DOMAIN lines' : To(n)' <= new.to
  <2>1. CASE IsSeparator(l)
    BY <1>1, <1>3, <1>5, <2>1
  <2>2. CASE ~IsSeparator(l)
    <3>1. ASSUME NEW n \in DOMAIN lines'
          PROVE  To(n)' <= new.to
      <4>1. CASE n = last
        BY <1>1, <1>2, <1>5, <2>2, <4>1
      <4>2. CASE n # last
        <5>1. n \in DOMAIN lines
          BY <1>1, <3>1, <4>2
        <5> QED
          BY <1>1, <1>2, <1>5, <2>2, <5>1
      <4> QED
        BY <4>1, <4>2
    <3> QED
      BY <2>2, <3>1
  <2> QED
    BY <2>1, <2>2
<1>8. ASSUME NEW n \in Within(new)'
      PROVE  ~IsMarker(n)'
  <2>1. n \in DOMAIN lines' /\ start <= From(n)' /\ To(n)' <= to
    BY <1>5, <1>8 DEF Within
  <2>2. CASE n = last
    BY <1>1, <1>2, <2>1, <2>2
  <2>3. CASE n # last
    <3>1. n \in DOMAIN lines /\ start <= From(n)
      BY <1>1, <2>1, <2>3
    <3>2. IsMarker(n) => To(n) < start
      BY <3>1 DEF ContentInv, StartAtMarker
    <3> QED
      BY <1>1, <1>2, <3>1, <3>2
  <2> QED
    BY <2>2, <2>3
<1>9. \A r \in ranges' : r \in ranges \/ r = new
  BY <1>5
<1> QED
  BY <1>4, <1>6, <1>7, <1>8, <1>9 DEF BetweenMarkers

\* Lines that are in a range stay there; the others have to be looked at.
LEMMA CoveredStep ==
  ASSUME SplitInv, ContentInv, ~done, NEW l \in Lines, Read(l), ranges \subseteq ranges',
         \A n \in TextLines' : start <= From(n)' => \/ ~done' /\ start' <= From(n)'
                                                    \/ \E r \in ranges' : n \in Within(r)'
  PROVE  Covered'
<1>1. PICK last \in Nat \ {0} :
      /\ DOMAIN lines = 1 .. last - 1 /\ DOMAIN lines' = 1 .. last
      /\ \A n \in DOMAIN lines : From(n)' = From(n) /\ Class(n)' = Class(n)
      /\ From(last)' = lineStart
  BY ReadLine DEF SplitInv
<1>2. /\ lineStart \in Nat /\ start \in Nat /\ start <= lineStart
      /\ \A n \in DOMAIN lines : From(n) \in Nat
  BY LineType DEF SplitInv, TypeOK
<1> SUFFICES ASSUME NEW n \in TextLines', ~(start <= From(n)')
             PROVE  \E r \in ranges' : n \in Within(r)'
  BY DEF Covered
<1>3. n \in DOMAIN lines
  BY <1>1, <1>2 DEF TextLines
<1>4. n \in TextLines /\ ~(start <= From(n))
  BY <1>1, <1>3 DEF TextLines
<1>5. PICK r \in ranges : n \in Within(r)
  BY <1>4 DEF ContentInv, Covered
<1> QED
  BY <1>5, OldRange

\* A line with a newline.
LEMMA LineBreakContent ==
  ASSUME SplitInv, ContentInv, NEW l \in Lines, LineBreak(l)
  PROVE  ContentInv'
<1> DEFINE next == lineStart + l.len + 1
<1>0. /\ Read(l) /\ ~done /\ ~done' /\ lineStart' = next
      /\ lineStart \in Nat /\ start \in Nat /\ start <= lineStart /\ l.len \in Nat
  BY ReadType DEF LineBreak, SplitInv, TypeOK
<1>1. PICK last \in Nat \ {0} :
      /\ DOMAIN lines = 1 .. last - 1 /\ DOMAIN lines' = 1 .. last
      /\ \A n \in DOMAIN lines : From(n)' = From(n) /\ To(n)' = To(n) /\ IsMarker(n)' = IsMarker(n)
      /\ Class(last)' = l.class /\ From(last)' = lineStart /\ To(last)' = lineStart + l.len
      /\ IsMarker(last)' = IsSeparator(l)
  BY <1>0, ReadLine DEF SplitInv
<1>2. \A n \in DOMAIN lines : From(n) \in Nat /\ To(n) \in Nat /\ From(n) <= To(n) /\ To(n) < lineStart
  BY <1>0, LineType DEF SplitInv, ContentInv, Layout
<1>3. Layout'
  BY <1>0, ReadLayout
<1>4. last \in DOMAIN lines' /\ \A n \in DOMAIN lines' : n = last \/ n \in DOMAIN lines
  BY <1>1
<1>5. CASE IsSeparator(l)
  <2>1. ranges' = ranges \cup Cut /\ start' = next
    BY <1>0, <1>5 DEF LineBreak
  <2>2. StartAtMarker'
    <3>1. start' = To(last)' + 1
      BY <1>0, <1>1, <2>1
    <3>2. \A k \in DOMAIN lines' : To(k)' < start'
      BY <1>0, <1>1, <1>2, <1>4, <2>1
    <3> QED
      BY <1>1, <1>4, <1>5, <3>1, <3>2 DEF StartAtMarker
  <2>3. BetweenMarkers'
    <3>1. ranges' \subseteq ranges \cup {[from |-> start, to |-> lineStart]}
      BY <2>1 DEF Cut
    <3> QED
      BY <1>0, <1>5, <3>1, RangeContent
  <2>4. ASSUME NEW n \in TextLines', start <= From(n)'
        PROVE  \E r \in ranges' : n \in Within(r)'
    <3>1. n \in DOMAIN lines /\ n \in DOMAIN lines'
      <4>1. n \in DOMAIN lines' /\ Class(n)' \notin Markers
        BY <2>4 DEF TextLines
      <4>2. n # last
        BY <1>1, <1>5, <4>1 DEF IsSeparator
      <4> QED
        BY <1>4, <4>1, <4>2
    <3>2. start <= From(n) /\ From(n) <= To(n) /\ To(n) < lineStart
      BY <1>1, <1>2, <2>4, <3>1
    <3>3. PICK r : r = [from |-> start, to |-> lineStart]
      OBVIOUS
    <3>4. r \in ranges'
      BY <1>0, <1>2, <2>1, <3>1, <3>2, <3>3 DEF Cut
    <3>5. r.from <= From(n)' /\ To(n)' <= r.to
      BY <1>0, <1>1, <1>2, <3>1, <3>2, <3>3
    <3>6. n \in Within(r)'
      BY <3>1, <3>5 DEF Within
    <3> QED
      BY <3>4, <3>6
  <2>5. Covered'
    BY <1>0, <2>1, <2>4, CoveredStep
  <2> QED
    BY <1>3, <2>2, <2>3, <2>5 DEF ContentInv
<1>6. CASE ~IsSeparator(l)
  <2>1. ranges' = ranges /\ start' = start
    BY <1>6 DEF LineBreak
  <2>2. StartAtMarker'
    <3>1. /\ start = 0 \/ \E k \in DOMAIN lines : IsMarker(k) /\ start = To(k) + 1
          /\ \A k \in DOMAIN lines : IsMarker(k) => To(k) < start
      BY <1>0 DEF ContentInv, StartAtMarker
    <3>2. start' = 0 \/ \E k \in DOMAIN lines' : IsMarker(k)' /\ start' = To(k)' + 1
      BY <1>1, <2>1, <3>1
    <3>3. \A k \in DOMAIN lines' : IsMarker(k)' => To(k)' < start'
      BY <1>1, <1>4, <1>6, <2>1, <3>1
    <3> QED
      BY <3>2, <3>3 DEF StartAtMarker
  <2>3. BetweenMarkers'
    <3>1. ASSUME NEW r \in ranges
          PROVE  /\ r.from = 0 \/ \E k \in DOMAIN lines' : IsMarker(k)' /\ r.from = To(k)' + 1
                 /\ \E k \in DOMAIN lines' : IsMarker(k)' /\ r.to = From(k)'
                 /\ \A n \in Within(r)' : ~IsMarker(n)'
      <4>1. /\ r.from = 0 \/ \E k \in DOMAIN lines : IsMarker(k) /\ r.from = To(k) + 1
            /\ \E k \in DOMAIN lines : IsMarker(k) /\ r.to = From(k)
            /\ \A n \in Within(r) : ~IsMarker(n)
        BY <1>0 DEF ContentInv, BetweenMarkers
      <4>2. \A n \in Within(r)' : n \in Within(r) /\ n \in DOMAIN lines
        BY <1>0, OldRange DEF Within
      <4>3. \A n \in DOMAIN lines : n \in DOMAIN lines'
        BY <1>1
      <4> QED
        BY <1>1, <4>1, <4>2, <4>3
    <3> QED
      BY <2>1, <3>1 DEF BetweenMarkers
  <2>4. Covered'
    BY <1>0, <2>1, CoveredStep
  <2> QED
    BY <1>3, <2>2, <2>3, <2>4 DEF ContentInv
<1> QED
  BY <1>5, <1>6

\* The last line.
LEMMA EndOfTextContent ==
  ASSUME SplitInv, ContentInv, NEW l \in Lines, EndOfText(l)
  PROVE  ContentInv'
<1> DEFINE size == lineStart + l.len
<1>0. /\ Read(l) /\ ~done /\ done'
      /\ lineStart \in Nat /\ start \in Nat /\ start <= lineStart /\ l.len \in Nat
      /\ IsTerminator(l) => l.len >= 3
      /\ l.class # "blank" => l.len >= 1
  BY ReadType, LineAssumption DEF EndOfText, SplitInv, TypeOK
<1>1. PICK last \in Nat \ {0} :
      /\ DOMAIN lines = 1 .. last - 1 /\ DOMAIN lines' = 1 .. last
      /\ \A n \in DOMAIN lines : From(n)' = From(n) /\ To(n)' = To(n)
      /\ Class(last)' = l.class /\ From(last)' = lineStart /\ To(last)' = lineStart + l.len
  BY <1>0, ReadLine DEF SplitInv
<1>2. \A n \in DOMAIN lines : From(n) \in Nat /\ To(n) \in Nat /\ From(n) <= To(n) /\ To(n) < lineStart
  BY <1>0, LineType DEF SplitInv, ContentInv, Layout
<1>3. Layout'
  BY <1>0, ReadLayout
<1>4. StartAtMarker'
  BY <1>0 DEF StartAtMarker
<1>5. \A n \in DOMAIN lines' : n = last \/ n \in DOMAIN lines
  BY <1>1
<1>6. CASE IsSeparator(l)
  <2>1. ranges' = ranges \cup Cut
    BY <1>6 DEF EndOfText, IsSeparator, IsTerminator, Markers
  <2>2. BetweenMarkers'
    <3>1. ranges' \subseteq ranges \cup {[from |-> start, to |-> lineStart]}
      BY <2>1 DEF Cut
    <3> QED
      BY <1>0, <1>6, <3>1, RangeContent
  <2>3. ASSUME NEW n \in TextLines', start <= From(n)'
        PROVE  \E r \in ranges' : n \in Within(r)'
    <3>1. n \in DOMAIN lines /\ n \in DOMAIN lines'
      <4>1. n \in DOMAIN lines' /\ Class(n)' \notin Markers
        BY <2>3 DEF TextLines
      <4>2. n # last
        BY <1>1, <1>6, <4>1 DEF IsSeparator
      <4> QED
        BY <1>5, <4>1, <4>2
    <3>2. start <= From(n) /\ From(n) <= To(n) /\ To(n) < lineStart
      BY <1>1, <1>2, <2>3, <3>1
    <3>3. PICK r : r = [from |-> start, to |-> lineStart]
      OBVIOUS
    <3>4. r \in ranges'
      BY <1>0, <1>2, <2>1, <3>1, <3>2, <3>3 DEF Cut
    <3>5. r.from <= From(n)' /\ To(n)' <= r.to
      BY <1>0, <1>1, <1>2, <3>1, <3>2, <3>3
    <3>6. n \in Within(r)'
      BY <3>1, <3>5 DEF Within
    <3> QED
      BY <3>4, <3>6
  <2>4. Covered'
    BY <1>0, <2>1, <2>3, CoveredStep
  <2> QED
    BY <1>3, <1>4, <2>2, <2>4 DEF ContentInv
<1>7. CASE ~IsSeparator(l)
  <2>1. /\ ranges \subseteq ranges'
        /\ ranges' \subseteq ranges \cup {[from |-> start, to |-> size]}
        /\ start < size => [from |-> start, to |-> size] \in ranges'
    <3>1. CASE IsTerminator(l)
      BY <1>7, <3>1 DEF EndOfText, IsSeparator, IsTerminator
    <3>2. CASE ~IsTerminator(l)
      BY <1>7, <3>2 DEF EndOfText
    <3> QED
      BY <3>1, <3>2
  <2>2. BetweenMarkers'
    BY <1>0, <1>7, <2>1, RangeContent
  <2>3. ASSUME NEW n \in TextLines', start <= From(n)'
        PROVE  \E r \in ranges' : n \in Within(r)'
    <3>1. n \in DOMAIN lines' /\ Class(n)' # "blank"
      BY <2>3 DEF TextLines
    <3>2. start < size /\ To(n)' <= size
      <4>1. CASE n = last
        BY <1>0, <1>1, <2>3, <3>1, <4>1
      <4>2. CASE n # last
        <5>1. n \in DOMAIN lines
          BY <1>5, <3>1, <4>2
        <5> QED
          BY <1>0, <1>1, <1>2, <2>3, <5>1
      <4> QED
        BY <4>1, <4>2
    <3>3. PICK r : r = [from |-> start, to |-> size]
      OBVIOUS
    <3>4. n \in Within(r)'
      BY <2>3, <3>1, <3>2, <3>3 DEF Within
    <3> QED
      BY <2>1, <3>2, <3>3, <3>4
  <2>4. Covered'
    BY <1>0, <2>1, <2>3, CoveredStep
  <2> QED
    BY <1>3, <1>4, <2>2, <2>4 DEF ContentInv
<1> QED
  BY <1>6, <1>7

\* The ranges hold the documents, in every state of the scan.
LEMMA ContentInvariant == Spec => []ContentInv
<1>1. Init => ContentInv
  <2> SUFFICES ASSUME Init PROVE ContentInv
    OBVIOUS
  <2>1. DOMAIN lines = {} /\ ranges = {} /\ start = 0
    BY DEF Init
  <2> QED
    BY <2>1 DEF ContentInv, Layout, StartAtMarker, BetweenMarkers, Covered, TextLines
<1>2. SplitInv /\ ContentInv /\ [Next]_vars => ContentInv'
  <2> SUFFICES ASSUME SplitInv, ContentInv, [Next]_vars PROVE ContentInv'
    OBVIOUS
  <2>1. CASE UNCHANGED vars
    <3>1. \A n : /\ Class(n)' = Class(n) /\ From(n)' = From(n) /\ To(n)' = To(n)
                 /\ IsMarker(n)' = IsMarker(n)
      BY <2>1 DEF vars, Class, From, To, IsMarker
    <3>2. \A r : Within(r)' = Within(r)
      BY <2>1, <3>1 DEF vars, Within
    <3>3. TextLines' = TextLines
      BY <2>1, <3>1 DEF vars, TextLines
    <3>4. Layout' /\ StartAtMarker'
      BY <2>1, <3>1 DEF vars, ContentInv, Layout, StartAtMarker
    <3>5. BetweenMarkers' /\ Covered'
      BY <2>1, <3>1, <3>2, <3>3 DEF vars, ContentInv, BetweenMarkers, Covered
    <3> QED
      BY <3>4, <3>5 DEF ContentInv
  <2>2. CASE Next
    BY <2>1, <2>2, LineBreakContent, EndOfTextContent DEF Next, Finished
  <2> QED
    BY <2>1, <2>2
<1> QED
  BY <1>1, <1>2, SplitInvariant, PTL DEF Spec

\* Two lines of one range have no marker between them, two lines without one no
\* end of a range.
LEMMA RangesBetweenMarkers ==
  ASSUME SplitInv, ContentInv, NEW r \in ranges,
         NEW m \in TextLines, NEW n \in TextLines, m \in Within(r)
  PROVE  n \in Within(r) <=> SameMarkers(m, n)
<1>1. /\ m \in Nat /\ n \in Nat /\ m \in DOMAIN lines /\ n \in DOMAIN lines
      /\ ~IsMarker(m) /\ ~IsMarker(n)
  BY LineType DEF SplitInv, TextLines, IsMarker
<1>2. \A k \in DOMAIN lines : k \in Nat /\ k >= 1 /\ From(k) \in Nat /\ To(k) \in Nat /\ From(k) <= To(k)
  <2>1. DOMAIN lines = 1 .. Len(lines) /\ Len(lines) \in Nat
    BY DEF SplitInv, TypeOK
  <2> QED
    BY <2>1, LineType DEF SplitInv
<1>3. r.from \in Nat /\ r.to \in Nat /\ r.from <= From(m) /\ To(m) <= r.to
  BY DEF SplitInv, TypeOK, Within
<1>4. \A i, j \in DOMAIN lines : i < j => To(i) < From(j)
  BY DEF ContentInv, Layout
<1>5. \A i \in DOMAIN lines : \A k \in MarkersUpTo(i) : k \in DOMAIN lines /\ k <= i /\ IsMarker(k)
  BY <1>2 DEF MarkersUpTo, IsMarker, SplitInv, TypeOK
<1>6. \A i, k \in DOMAIN lines : IsMarker(k) /\ k <= i => k \in MarkersUpTo(i)
  BY <1>2 DEF MarkersUpTo, IsMarker
<1>7. ASSUME n \in Within(r)
      PROVE  SameMarkers(m, n)
  <2>1. ASSUME NEW i \in Within(r), NEW j \in Within(r), i \in DOMAIN lines, j \in DOMAIN lines,
               NEW k \in MarkersUpTo(i)
        PROVE  k \in MarkersUpTo(j)
    <3>1. k \in DOMAIN lines /\ k <= i /\ IsMarker(k)
      BY <1>5, <2>1
    <3>2. SUFFICES ASSUME ~(k <= j) PROVE FALSE
      BY <1>6, <2>1, <3>1
    <3>3. k < i
      <4>1. ~IsMarker(i)
        BY <2>1 DEF ContentInv, BetweenMarkers
      <4>2. k # i
        BY <3>1, <4>1
      <4> QED
        BY <1>2, <2>1, <3>1, <4>2
    <3>4. r.from <= From(k)
      <4>1. r.from <= From(j) /\ From(j) <= To(j) /\ To(j) < From(k)
        BY <1>2, <1>4, <2>1, <3>1, <3>2 DEF Within
      <4> QED
        BY <1>2, <1>3, <2>1, <3>1, <4>1
    <3>5. To(k) <= r.to
      <4>1. To(k) < From(i) /\ From(i) <= To(i) /\ To(i) <= r.to
        BY <1>2, <1>4, <2>1, <3>1, <3>3 DEF Within
      <4> QED
        BY <1>2, <1>3, <2>1, <3>1, <4>1
    <3>6. k \in Within(r)
      BY <3>1, <3>4, <3>5 DEF Within
    <3> QED
      BY <3>1, <3>6 DEF ContentInv, BetweenMarkers
  <2> QED
    BY <1>1, <1>7, <2>1 DEF SameMarkers
<1>8. ASSUME n \notin Within(r)
      PROVE  ~SameMarkers(m, n)
  <2>1. From(n) < r.from \/ r.to < To(n)
    BY <1>1, <1>2, <1>3, <1>8 DEF Within
  <2>2. CASE From(n) < r.from
    <3>1. PICK k \in DOMAIN lines : IsMarker(k) /\ r.from = To(k) + 1
      BY <1>1, <1>2, <2>2 DEF ContentInv, BetweenMarkers
    <3>2. ~(k <= n)
      <4>1. k # n
        BY <1>1, <3>1
      <4>2. ~(k < n)
        BY <1>1, <1>2, <1>3, <1>4, <2>2, <3>1
      <4> QED
        BY <1>1, <1>2, <3>1, <4>1, <4>2
    <3>3. k <= m
      <4>1. ~(m < k)
        <5>1. To(k) < From(m) /\ From(k) <= To(k) /\ From(m) <= To(m)
          BY <1>1, <1>2, <1>3, <3>1
        <5>2. m < k => To(m) < From(k)
          BY <1>1, <1>4
        <5> QED
          BY <1>1, <1>2, <5>1, <5>2
      <4> QED
        BY <1>1, <1>2, <4>1
    <3> QED
      BY <1>1, <1>5, <1>6, <3>1, <3>2, <3>3 DEF SameMarkers
  <2>3. CASE r.to < To(n)
    <3>1. PICK k \in DOMAIN lines : IsMarker(k) /\ r.to = From(k)
      BY <1>1, <1>2, <1>3, <2>3 DEF ContentInv, BetweenMarkers
    <3>2. k <= n
      <4>1. ~(n < k)
        BY <1>1, <1>2, <1>3, <1>4, <2>3, <3>1
      <4> QED
        BY <1>1, <1>2, <4>1
    <3>3. ~(k <= m)
      <4>1. k # m
        BY <1>1, <3>1
      <4>2. ~(k < m)
        <5>1. From(k) < To(k)
          BY <3>1, LineType DEF SplitInv
        <5>2. k < m => To(k) < From(m)
          BY <1>1, <1>4
        <5> QED
          BY <1>1, <1>2, <1>3, <3>1, <5>1, <5>2
      <4> QED
        BY <1>1, <1>2, <3>1, <4>1, <4>2
    <3> QED
      BY <1>1, <1>5, <1>6, <3>1, <3>2, <3>3 DEF SameMarkers
  <2> QED
    BY <2>1, <2>2, <2>3
<1> QED
  BY <1>7, <1>8

\* Lines between which the code has seen no marker have as many before them.
LEMMA MarkersBetween ==
  ASSUME TypeOK, NEW m \in TextLines, NEW n \in TextLines
  PROVE  SameMarkers(m, n) <=> \A k \in Between(m, n) : ~IsMarker(k)
<1>1. /\ m \in DOMAIN lines /\ n \in DOMAIN lines /\ ~IsMarker(m) /\ ~IsMarker(n)
      /\ DOMAIN lines = 1 .. Len(lines) /\ Len(lines) \in Nat
  BY DEF TextLines, IsMarker, TypeOK
<1>2. m \in Nat /\ n \in Nat /\ m <= Len(lines) /\ n <= Len(lines)
  BY <1>1
<1>3. ASSUME SameMarkers(m, n), NEW k \in Between(m, n), IsMarker(k)
      PROVE  FALSE
  <2>1. k \in DOMAIN lines /\ ((m < k /\ k < n) \/ (n < k /\ k < m))
    BY <1>3 DEF Between
  <2>2. k \in MarkersUpTo(m) <=> k <= m
    BY <1>1, <1>3, <2>1 DEF MarkersUpTo, IsMarker
  <2>3. k \in MarkersUpTo(n) <=> k <= n
    BY <1>1, <1>3, <2>1 DEF MarkersUpTo, IsMarker
  <2> QED
    BY <1>1, <1>2, <1>3, <2>1, <2>2, <2>3 DEF SameMarkers
<1>4. ASSUME \A k \in Between(m, n) : ~IsMarker(k), NEW i \in {m, n}, NEW j \in {m, n},
             NEW k \in MarkersUpTo(i)
      PROVE  k \in MarkersUpTo(j)
  <2>1. k \in 1 .. i /\ IsMarker(k) /\ k \in DOMAIN lines
    BY <1>1, <1>2, <1>4 DEF MarkersUpTo, IsMarker
  <2>2. k # i /\ k # j
    BY <1>1, <1>4, <2>1
  <2>3. ~(j < k)
    BY <1>2, <1>4, <2>1, <2>2 DEF Between
  <2> QED
    BY <1>2, <1>4, <2>1, <2>3 DEF MarkersUpTo, IsMarker
<1>5. ASSUME \A k \in Between(m, n) : ~IsMarker(k)
      PROVE  SameMarkers(m, n)
  BY <1>4, <1>5 DEF SameMarkers
<1> QED
  BY <1>3, <1>5

\* split_documents: outside the lines it takes for separators by mistake every
\* line is in a range; a separator ends a range, and nothing but a marker does.
THEOREM EveryLineKept == Spec => []LinesKept
<1>1. SplitInv /\ ContentInv => LinesKept
  <2> SUFFICES ASSUME SplitInv, ContentInv, done PROVE LinesKept
    BY DEF LinesKept
  <2>0. /\ \A n \in DocumentLines : Class(n) # "markedText" => n \in TextLines
        /\ \A n : Class(n) \in Separators => IsMarker(n)
    BY DEF DocumentLines, TextLines, Separators, Markers, IsMarker
  <2>1. ASSUME NEW n \in DocumentLines, Class(n) # "markedText"
        PROVE  \E r \in Documents : n \in Within(r)
    <3>1. PICK r \in ranges : n \in Within(r)
      BY <2>0, <2>1 DEF ContentInv, Covered
    <3>2. r \in Documents
      BY <2>1, <3>1 DEF Documents, IsBlank, DocumentLines
    <3> QED
      BY <3>2, <3>1
  <2>2. ASSUME NEW m \in DocumentLines, NEW n \in DocumentLines, NEW r \in Documents, m \in Within(r)
        PROVE  /\ n \in Within(r) => ~Separated(m, n)
               /\ /\ SameDocument(m, n) /\ Class(n) # "markedText"
                  /\ \A k \in Between(m, n) : Class(k) # "markedText"
                  => n \in Within(r)
    <3>1. r \in ranges
      BY DEF Documents
    <3>2. \A k \in DocumentLines : k \in Within(r) => k \in TextLines
      BY <3>1 DEF ContentInv, BetweenMarkers, DocumentLines, TextLines, IsMarker
    <3>3. m \in TextLines
      BY <2>2, <3>2
    <3>4. ASSUME n \in Within(r)
          PROVE  ~Separated(m, n)
      <4>1. n \in TextLines
        BY <3>2, <3>4
      <4>2. SameMarkers(m, n)
        BY <2>2, <3>1, <3>3, <3>4, <4>1, RangesBetweenMarkers
      <4>3. \A k \in Between(m, n) : ~IsMarker(k)
        BY <3>3, <4>1, <4>2, MarkersBetween DEF SplitInv
      <4> QED
        BY <2>0, <4>3 DEF Separated
    <3>5. ASSUME SameDocument(m, n), Class(n) # "markedText",
                 \A k \in Between(m, n) : Class(k) # "markedText"
          PROVE  n \in Within(r)
      <4>1. n \in TextLines
        BY <2>0, <3>5
      <4>2. \A k \in Between(m, n) : ~IsMarker(k)
        BY <3>5 DEF SameDocument, Separators, Markers, IsMarker
      <4>3. SameMarkers(m, n)
        BY <3>3, <4>1, <4>2, MarkersBetween DEF SplitInv
      <4> QED
        BY <2>2, <3>1, <3>3, <4>1, <4>3, RangesBetweenMarkers
    <3> QED
      BY <3>4, <3>5
  <2> QED
    BY <2>1, <2>2 DEF LinesKept
<1> QED
  BY <1>1, SplitInvariant, ContentInvariant, PTL

\* parse: a resource with one kind line, parted by separators from the others,
\* has a part of that kind, whatever is wrong with it or with those around it.
THEOREM PartsStandAlone == Spec => []BrokenStaysAlone
<1>1. SplitInv /\ LinesKept => BrokenStaysAlone
  <2> SUFFICES ASSUME SplitInv, LinesKept, done, NEW n \in DocumentLines, Class(n) = "kind",
                      \A m \in DocumentLines : Class(m) = "kind" => m = n \/ Separated(m, n)
               PROVE  \E p \in Parts : n \in Within(p.range) /\ p.kind = Kind(n)
    BY DEF BrokenStaysAlone
  <2>1. PICK r \in Documents : n \in Within(r)
    BY DEF LinesKept
  <2>2. \A m \in KindLines(r) : m \in DocumentLines /\ Class(m) = "kind" /\ m \in Within(r)
    BY DEF KindLines, DocumentLines, Within, Separators
  <2>3. \A m \in KindLines(r) : ~Separated(m, n)
    BY <2>1, <2>2 DEF LinesKept
  <2>4. KindLines(r) = {n}
    BY <2>1, <2>2, <2>3 DEF KindLines
  <2>5. n \in DOMAIN lines /\ n \in Nat /\ lines[n].line \in Lines
    BY LineType DEF SplitInv, DocumentLines
  <2>6. (CHOOSE k \in KindLines(r) : \A m \in KindLines(r) : m <= k) = n
    BY <2>4, <2>5
  <2>7. KindOf(r) = Kind(n) /\ Kind(n) # NoKind
    BY <2>4, <2>5, <2>6, LineAssumption DEF KindOf, Kind, Class
  <2>8. [range |-> r, kind |-> KindOf(r)] \in Parts
    BY <2>7 DEF Parts
  <2> QED
    BY <2>1, <2>7, <2>8
<1> QED
  BY <1>1, SplitInvariant, EveryLineKept, PTL

\* position_to_offset and part_at: a cursor on a line of a part, behind its last
\* character too, finds that part and no other.
THEOREM CursorFindsPart == Spec => []CursorInItsPart
<1>1. SplitInv /\ OnePartAt => CursorInItsPart
  <2> SUFFICES ASSUME SplitInv, OnePartAt, NEW p \in Parts, NEW n \in Within(p.range),
                      NEW character \in 0 .. lines[n].line.len + 1
               PROVE  PartsAt(Offset(n, character)) = {p}
    BY DEF CursorInItsPart
  <2> DEFINE offset == Offset(n, character)
  <2>1. /\ n \in DOMAIN lines /\ p.range.from <= From(n) /\ To(n) <= p.range.to
        /\ p.range \in [from : Nat, to : Nat]
    BY DEF Within, Parts, Documents, SplitInv, TypeOK
  <2>2. From(n) \in Nat /\ lines[n].line.len \in Nat /\ To(n) = From(n) + lines[n].line.len
    BY <2>1, LineType DEF SplitInv
  <2>3. offset \in Nat /\ From(n) <= offset /\ offset <= To(n)
    BY <2>2 DEF Offset
  <2>4. Contains(p, offset)
    BY <2>1, <2>2, <2>3 DEF Contains
  <2> HIDE DEF offset
  <2>5. \A q \in Parts : Contains(q, offset) => q = p
    BY <2>3, <2>4 DEF OnePartAt
  <2>6. p.range.from <= p.range.from
    BY <2>1
  <2>7. PartsAt(offset) = {p}
    BY <2>4, <2>5, <2>6 DEF PartsAt
  <2> QED
    BY <2>7 DEF offset
<1> QED
  BY <1>1, SplitInvariant, CursorHasOnePart, PTL

(***************************************************************************)
(* The line an issue is shown at.                                          *)
(***************************************************************************)
\* A set of natural numbers has a least member.
LEMMA LeastLine ==
  ASSUME NEW S \in SUBSET Nat, S # {}
  PROVE  \E i \in S : \A j \in S : i <= j
<1>1. PICK i \in S : \A j \in S : ~ (<<j, i>> \in OpToRel(<, Nat))
  BY NatLessThanWellFounded, WFMin
<1>2. ASSUME NEW j \in S
      PROVE  i <= j
  <2>1. j < i => <<j, i>> \in OpToRel(<, Nat)
    BY DEF OpToRel
  <2>2. ~ (j < i)
    BY <1>1, <2>1, Zenon
  <2> QED
    BY <2>2
<1> QED
  BY <1>2

\* One byte, the line break, stands between two lines.
Adjacent ==
  /\ \A n \in DOMAIN lines : From(n) = (IF n = 1 THEN 0 ELSE To(n - 1) + 1)
  /\ ~done => lineStart = (IF lines = <<>> THEN 0 ELSE To(Len(lines)) + 1)

\* A line read is put behind the last one.
LEMMA ReadAdjacent ==
  ASSUME TypeOK, Adjacent, ~done, NEW l \in Lines, Read(l),
         done' \/ lineStart' = lineStart + l.len + 1
  PROVE  Adjacent'
<1>1. PICK last \in Nat \ {0} :
      /\ last = Len(lines) + 1 /\ DOMAIN lines = 1 .. last - 1 /\ DOMAIN lines' = 1 .. last
      /\ \A n \in DOMAIN lines : From(n)' = From(n) /\ To(n)' = To(n)
      /\ From(last)' = lineStart /\ To(last)' = lineStart + l.len
  BY ReadLine
<1>2. /\ lines \in Seq([line : Lines, from : Nat])
      /\ lines' = Append(lines, [line |-> l, from |-> lineStart]) /\ lineStart \in Nat
  BY DEF TypeOK, Read
<1>3. lines' # <<>> /\ Len(lines') = last
  BY <1>1, <1>2
<1>4. ASSUME NEW n \in DOMAIN lines'
      PROVE  From(n)' = (IF n = 1 THEN 0 ELSE To(n - 1)' + 1)
  <2>1. CASE n = last
    <3>1. CASE n = 1
      <4>1. lines = <<>>
        BY <1>1, <1>2, <2>1, <3>1
      <4> QED
        BY <1>1, <2>1, <3>1, <4>1 DEF Adjacent
    <3>2. CASE n # 1
      <4>1. n - 1 \in DOMAIN lines /\ lines # <<>> /\ n - 1 = Len(lines)
        BY <1>1, <1>2, <2>1, <3>2
      <4>2. lineStart = To(n - 1) + 1
        BY <4>1 DEF Adjacent
      <4> QED
        BY <1>1, <2>1, <3>2, <4>1, <4>2
    <3> QED
      BY <3>1, <3>2
  <2>2. CASE n # last
    <3>1. n \in DOMAIN lines /\ (n = 1 \/ n - 1 \in DOMAIN lines)
      BY <1>1, <2>2
    <3> QED
      BY <1>1, <3>1 DEF Adjacent
  <2> QED
    BY <2>1, <2>2
<1>5. ~done' => lineStart' = To(last)' + 1
  BY <1>1
<1> QED
  BY <1>3, <1>4, <1>5 DEF Adjacent

\* The lines of a text fill it.
LEMMA AdjacentInvariant == Spec => []Adjacent
<1>1. Init => Adjacent
  <2> SUFFICES ASSUME Init PROVE Adjacent
    OBVIOUS
  <2>1. lines = <<>> /\ DOMAIN lines = {} /\ lineStart = 0
    BY DEF Init
  <2> QED
    BY <2>1 DEF Adjacent
<1>2. SplitInv /\ Adjacent /\ [Next]_vars => Adjacent'
  <2> SUFFICES ASSUME SplitInv, Adjacent, [Next]_vars PROVE Adjacent'
    OBVIOUS
  <2>1. CASE UNCHANGED vars
    <3>1. \A n : From(n)' = From(n) /\ To(n)' = To(n)
      BY <2>1 DEF vars, From, To
    <3> QED
      BY <2>1, <3>1 DEF vars, Adjacent
  <2>2. CASE Finished
    BY <2>1, <2>2 DEF Finished
  <2>3. ASSUME NEW l \in Lines, LineBreak(l) \/ EndOfText(l)
        PROVE  Adjacent'
    <3>1. ~done /\ Read(l) /\ (done' \/ lineStart' = lineStart + l.len + 1)
      BY <2>3 DEF LineBreak, EndOfText
    <3> QED
      BY <3>1, ReadAdjacent DEF SplitInv
  <2> QED
    BY <2>1, <2>2, <2>3 DEF Next
<1> QED
  BY <1>1, <1>2, SplitInvariant, PTL DEF Spec

\* From the beginning of one line to that of another there are as many breaks
\* as lines.
LEMMA BreaksBetween ==
  ASSUME SplitInv, ContentInv, NEW m \in DOMAIN lines, NEW n \in DOMAIN lines, m <= n
  PROVE  Breaks(From(m), From(n)) = n - m
<1>1. DOMAIN lines = 1 .. Len(lines) /\ Len(lines) \in Nat /\ m \in Nat /\ n \in Nat
  BY DEF SplitInv, TypeOK
<1>2. \A k \in DOMAIN lines : From(k) \in Nat /\ To(k) \in Nat /\ From(k) <= To(k)
  BY LineType DEF SplitInv
<1>3. \A i, j \in DOMAIN lines : i < j => To(i) < From(j)
  BY DEF ContentInv, Layout
<1>4. ASSUME NEW k \in DOMAIN lines
      PROVE  From(m) <= To(k) /\ To(k) < From(n) <=> k \in m .. n - 1
  <2>1. k \in Nat
    BY <1>1
  <2>2. CASE k < m
    BY <1>1, <1>2, <1>3, <2>1, <2>2
  <2>3. CASE n <= k
    <3>1. From(n) <= To(k)
      BY <1>1, <1>2, <1>3, <2>1, <2>3
    <3> QED
      BY <1>1, <1>2, <2>1, <2>3, <3>1
  <2>4. CASE m <= k /\ k < n
    <3>1. From(m) <= To(k) /\ To(k) < From(n)
      BY <1>1, <1>2, <1>3, <2>1, <2>4
    <3> QED
      BY <1>1, <2>1, <2>4, <3>1
  <2> QED
    BY <1>1, <2>1, <2>2, <2>3, <2>4
<1>5. m .. n - 1 \subseteq DOMAIN lines
  BY <1>1
<1>6. {k \in DOMAIN lines : From(m) <= To(k) /\ To(k) < From(n)} = m .. n - 1
  BY <1>4, <1>5
<1>7. Cardinality(m .. n - 1) = n - m
  <2>1. PICK last \in Int : last = n - 1 /\ m \in Int
    BY <1>1
  <2>2. Cardinality(m .. last) = IF m > last THEN 0 ELSE last - m + 1
    BY <2>1, FS_Interval, Zenon
  <2>3. Cardinality(m .. last) = n - m
    BY <1>1, <2>1, <2>2
  <2> QED
    BY <2>1, <2>3
<1> QED
  BY <1>6, <1>7 DEF Breaks

\* A range with a line in it begins where one of its lines does.
LEMMA FirstLine ==
  ASSUME SplitInv, ContentInv, Adjacent, NEW r \in ranges, NEW n \in Within(r)
  PROVE  \E f \in Within(r) : From(f) = r.from /\ \A k \in Within(r) : f <= k
<1>1. DOMAIN lines = 1 .. Len(lines) /\ Len(lines) \in Nat /\ n \in 1 .. Len(lines)
  BY DEF SplitInv, TypeOK, Within
<1>2. \A k \in DOMAIN lines : From(k) \in Nat /\ To(k) \in Nat /\ From(k) <= To(k)
  BY LineType DEF SplitInv
<1>3. \A i, j \in DOMAIN lines : i < j => To(i) < From(j)
  BY DEF ContentInv, Layout
<1>4. r.from \in Nat /\ r.to \in Nat /\ r.from <= From(n) /\ To(n) <= r.to
  BY DEF SplitInv, TypeOK, Within
<1>5. PICK f \in 1 .. n : From(f) = r.from
  <2>1. CASE r.from = 0
    <3>1. 1 \in DOMAIN lines /\ From(1) = 0
      BY <1>1 DEF Adjacent
    <3> QED
      BY <1>1, <2>1, <3>1
  <2>2. CASE r.from # 0
    <3>1. PICK k \in DOMAIN lines : r.from = To(k) + 1
      BY <2>2 DEF ContentInv, BetweenMarkers
    <3>2. k < n
      <4>1. n < k => To(n) < From(k)
        BY <1>1, <1>3
      <4>2. n # k
        BY <1>1, <1>2, <1>4, <3>1
      <4> QED
        BY <1>1, <1>2, <1>4, <3>1, <4>1, <4>2
    <3>3. k + 1 \in 1 .. n /\ k + 1 \in DOMAIN lines /\ k + 1 # 1 /\ k + 1 - 1 = k
      BY <1>1, <3>1, <3>2
    <3>4. From(k + 1) = To(k) + 1
      BY <3>3 DEF Adjacent
    <3> QED
      BY <3>1, <3>3, <3>4
  <2> QED
    BY <2>1, <2>2
<1>6. f \in DOMAIN lines /\ f \in Nat /\ f <= n
  BY <1>1, <1>5
<1>7. To(f) <= r.to
  <2>1. CASE f = n
    BY <1>4, <2>1
  <2>2. CASE f # n
    BY <1>1, <1>2, <1>3, <1>4, <1>6, <2>2
  <2> QED
    BY <2>1, <2>2
<1>8. f \in Within(r)
  BY <1>2, <1>4, <1>5, <1>6, <1>7 DEF Within
<1>9. ASSUME NEW k \in Within(r)
      PROVE  f <= k
  <2>1. k \in DOMAIN lines /\ k \in Nat /\ r.from <= From(k)
    BY <1>1 DEF Within
  <2>2. ~(k < f)
    BY <1>2, <1>3, <1>5, <1>6, <2>1
  <2> QED
    BY <1>6, <2>1, <2>2
<1> QED
  BY <1>5, <1>8, <1>9

\* locate_path: in every text, whatever the lines are, an issue of a part is
\* shown at a line of this part, and at one the key of the issue begins if the
\* part has any.
THEOREM IssueStaysInPart == Spec => []IssueShownInItsPart
<1>1. SplitInv /\ ContentInv /\ Adjacent => IssueShownInItsPart
  <2> SUFFICES ASSUME SplitInv, ContentInv, Adjacent, NEW p \in Parts, NEW key \in Keys
               PROVE  \E n \in Within(p.range) :
                        /\ Locate(p.range, key) + 1 = n
                        /\ HeadedBy(p.range, key) # {} => n \in HeadedBy(p.range, key)
    BY DEF IssueShownInItsPart
  <2>1. PICK r \in Documents : p.range = r
    BY DEF Parts
  <2>2. r \in ranges /\ Within(r) # {} /\ r.from \in Nat
    BY DEF Documents, IsBlank, SplitInv, TypeOK
  <2>3. PICK f \in Within(r) : From(f) = r.from /\ \A k \in Within(r) : f <= k
    BY <2>2, FirstLine
  <2>4. /\ DOMAIN lines = 1 .. Len(lines) /\ Len(lines) \in Nat
        /\ Within(r) \subseteq DOMAIN lines /\ HeadedBy(r, key) \subseteq Within(r)
    BY DEF SplitInv, TypeOK, Within, HeadedBy
  <2>5. f \in DOMAIN lines /\ f \in Nat /\ 1 \in DOMAIN lines /\ 1 <= f
    BY <2>3, <2>4
  <2>6. ByteToLine(r.from) = f - 1
    <3>1. From(1) = 0
      BY <2>5 DEF Adjacent
    <3>2. Breaks(From(1), From(f)) = f - 1
      BY <2>5, BreaksBetween
    <3> QED
      BY <2>3, <3>1, <3>2 DEF ByteToLine
  <2>7. CASE HeadedBy(r, key) = {}
    <3>1. Locate(r, key) + 1 = f
      BY <2>5, <2>6, <2>7 DEF Locate
    <3> QED
      BY <2>1, <2>3, <2>7, <3>1
  <2>8. CASE HeadedBy(r, key) # {}
    <3> DEFINE first == CHOOSE n \in HeadedBy(r, key) : \A m \in HeadedBy(r, key) : n <= m
    <3>1. HeadedBy(r, key) \in SUBSET Nat
      BY <2>4
    <3>2. \E n \in HeadedBy(r, key) : \A m \in HeadedBy(r, key) : n <= m
      BY <2>8, <3>1, LeastLine
    <3>3. first \in HeadedBy(r, key)
      BY <3>2
    <3>4. Locate(r, key) = ByteToLine(r.from) + Breaks(r.from, From(first))
      BY <2>8 DEF Locate
    <3> HIDE DEF first
    <3>5. first \in Within(r) /\ first \in DOMAIN lines /\ first \in Nat /\ f <= first
      BY <2>3, <2>4, <3>3
    <3>6. Breaks(r.from, From(first)) = first - f
      BY <2>3, <2>5, <3>5, BreaksBetween
    <3>7. Locate(r, key) + 1 = first
      BY <2>5, <2>6, <3>4, <3>5, <3>6
    <3> QED
      BY <2>1, <3>3, <3>5, <3>7
  <2> QED
    BY <2>7, <2>8
<1> QED
  BY <1>1, SplitInvariant, ContentInvariant, AdjacentInvariant, PTL

\* The types, of which the scan's bound on start is the part that matters.
THEOREM TypeSafety == Spec => []TypeOK
<1>1. SplitInv => TypeOK
  BY DEF SplitInv
<1> QED
  BY <1>1, SplitInvariant, PTL
=============================================================================
