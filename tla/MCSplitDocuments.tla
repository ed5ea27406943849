-------------------------- MODULE MCSplitDocuments --------------------------
(***************************************************************************)
(* Lines of every class for TLC; the lengths differ so that offsets do.    *)
(***************************************************************************)
EXTENDS SplitDocuments

Of(class, len) ==
  [class |-> class, len |-> len, kind |-> NoKind,
   heads |-> IF class \in {"field", "broken"} THEN {"field"} ELSE {}]
OfKind(kind) == [class |-> "kind", len |-> 2, kind |-> kind, heads |-> {"kind"}]

PlainLines == {Of("marker", 3), Of("field", 1), Of("comment", 1), Of("blank", 0)}
CommonLines ==
  PlainLines \cup {OfKind("Pod"), Of("broken", 1), Of("terminator", 3)}
AllLines ==
  CommonLines \cup {OfKind("Job"), Of("blank", 1), Of("markedComment", 4), Of("markedText", 4)}
=============================================================================
