---------------------------- MODULE MCSchemaUse ----------------------------
(***************************************************************************)
(* Instances of SchemaUse.  The schemas are all combinations of a few      *)
(* shapes for the root and for three nodes below it, which stand at the    *)
(* ends of properties, items, combinators and $ref of each other.          *)
(***************************************************************************)
EXTENDS SchemaUse, TLC

MCNodes == {"root", "x", "y", "z", "meta", "str", "int"}

N == [ref |-> NoNode, properties |-> NoProperties, items |-> NoNode, additional |-> NoNode,
      children |-> <<>>, required |-> {}, types |-> {}]
Typed(type) == [N EXCEPT !.types = {type}]
Fields(f) == [N EXCEPT !.properties = f]
Closed(f) == [N EXCEPT !.properties = f, !.additional = Forbidden, !.types = {"object"}]
Ref(n) == [N EXCEPT !.ref = n]
Combined(c) == [N EXCEPT !.children = c]
CatchAll(n) == [N EXCEPT !.additional = n]
Array(n) == [N EXCEPT !.items = n, !.types = {"array"}]

Roots ==
  {[Closed(("metadata" :> "x") @@ ("a" :> "y")) EXCEPT !.required = {"a", "b"}],
   Ref("x"),
   Combined(<<"x", "y">>),
   [Fields("a" :> "str") EXCEPT !.children = <<"x", "y">>, !.additional = Forbidden, !.required = {"a"}],
   [Fields("metadata" :> "x") EXCEPT !.children = <<"y">>]}
Xs ==
  {Typed("object"),
   [Closed(("a" :> "str") @@ ("b" :> "int")) EXCEPT !.required = {"b"}],
   Combined(<<"z", "y">>),
   Ref("y"),
   [CatchAll("int") EXCEPT !.children = <<"z">>]}
Ys ==
  {Closed(("b" :> "str") @@ ("a" :> "int")),
   Array("z"),
   Ref("z"),
   Fields("a" :> "z")}
Zs == {Typed("number"), Fields("b" :> "int"), Ref("y")}

MCSchemas ==
  {("root" :> r) @@ ("x" :> x) @@ ("y" :> y) @@ ("z" :> z)
   @@ ("meta" :> Fields(("a" :> "str") @@ ("b" :> "z")))
   @@ ("str" :> Typed("string")) @@ ("int" :> Typed("integer")) :
     r \in Roots, x \in Xs, y \in Ys, z \in Zs}

Top == <<>> :> "object"

MCDocs ==
  {Top @@ (<<"a">> :> "null") @@ (<<"b">> :> "string"),
   Top @@ (<<"metadata">> :> "object") @@ (<<"metadata", "a">> :> "string")
       @@ (<<"metadata", "b">> :> "string") @@ (<<"a">> :> "tagged")
       @@ (<<"a", "b">> :> "string"),
   Top @@ (<<"a">> :> "array") @@ (<<"a", "[0]">> :> "object")
       @@ (<<"a", "[0]", "b">> :> "integer") @@ (<<"a", "[1]">> :> "integer")
       @@ (<<"b">> :> "integer"),
   Top @@ (<<"b">> :> "object") @@ (<<"b", "b">> :> "integer")
       @@ (<<"a">> :> "object") @@ (<<"a", "a">> :> "integer")}

MCPaths ==
  {<<>>, <<"metadata">>, <<"metadata", "a">>, <<"metadata", "b">>, <<"a">>, <<"b">>, <<"a", "a">>,
   <<"a", Index>>, <<"a", Index, "b">>}
=============================================================================
