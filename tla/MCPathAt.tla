------------------------------ MODULE MCPathAt ------------------------------
(***************************************************************************)
(* Lines for TLC, at three columns one or two apart.                       *)
(***************************************************************************)
EXTENDS PathAt

At(shapes, indents) ==
  [shape : shapes, indent : indents, gap : {1}, key : {"spec"}]

SomeLines == At({"key", "dash", "text", "blank"}, {0, 2})
AllLines == At(Shapes, {0, 1, 2}) \cup [shape : {"key"}, indent : {0, 2}, gap : {1}, key : {"name"}]
=============================================================================
