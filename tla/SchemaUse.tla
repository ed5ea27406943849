------------------------------ MODULE SchemaUse ------------------------------
(***************************************************************************)
(* The three readers of a schema side by side: the validator walks a value *)
(* when its file is opened, and hover and completion then walk the schema  *)
(* at paths of that value.  The two walks are separate code and read       *)
(* combinators and $ref differently.                                       *)
(***************************************************************************)
EXTENDS SchemaWalk, Validate

vars == <<schema, walkVars, validateVars>>

Init == WalkInit /\ ValidateInit

Publish == \E u \in unchecked : WalkValue(u) /\ UNCHANGED walkVars

\* A request is handled after the diagnostics of the text it is about.
Request == unchecked = {} /\ WalkNext /\ UNCHANGED validateVars

Answered == pc = "done" /\ UNCHANGED vars

Next == Publish \/ Request \/ Answered

Spec == Init /\ [][Next]_vars
----------------------------------------------------------------------------
(***************************************************************************)
(* Properties.                                                             *)
(***************************************************************************)
SchemaPath(p) == [i \in DOMAIN p |-> IF p[i] \in Elements THEN Index ELSE p[i]]

\* What is inside a tagged value is not walked by the validator.
InTagged(q) == \E k \in 1 .. Len(q) : doc[SubSeq(q, 1, k - 1)] = "tagged"

\* The values of the document at the place that was asked about.
Here == {q \in DOMAIN doc : SchemaPath(q) = path /\ ~InTagged(q)}

Done(kind) == pc = "done" /\ ask = kind /\ base = Root /\ node # NoNode

\* JSON Schema's reading of "type", with the validator's leave to be empty.
Admits(types, type) ==
  \/ types = {}
  \/ type = "null"
  \/ YamlType(type) \in types
  \/ type = "integer" /\ "number" \in types

\* On a plain schema the validator complains of the type of a value if and
\* only if the value does not have the type that hover shows for it.
TypesAgree ==
  Plain /\ Done("hover") =>
    \A q \in Here : Issue(q, "type") \in issues <=> ~Admits(schema[node].types, doc[q])

\* On a plain schema completion and validator agree about the fields of a
\* mapping: flagged as unknown is what is not offered in a closed one, flagged
\* as missing what is offered as required.
FieldsAgree ==
  Plain /\ Done("completion") =>
    \A p \in Here : doc[p] = "object" =>
      /\ \A q \in MembersAt(p) :
           Issue(q, "unknown") \in issues <=>
             /\ schema[node].additional = Forbidden
             /\ \A c \in Candidates : c.name # Last(q)
      /\ \A c \in Candidates :
           Issue(Append(p, c.name), "missing") \in issues <=>
             c.required /\ Append(p, c.name) \notin DOMAIN doc

\* validate.rs:3-5: "primitive type mismatches.  Walks descendants
\* transparently through `allOf`/`oneOf`/`anyOf`": what a schema says itself of
\* the type of a field is checked, whether or not it has combinators as well.
OwnFieldsChecked ==
  unchecked = {} /\ schema[Root].ref = NoNode /\ doc[<<>>] = "object" =>
    \A k \in DOMAIN Properties(Root) :
      LET field == schema[Properties(Root)[k]]
      IN  /\ field.ref = NoNode /\ field.children = <<>>
          /\ <<k>> \in DOMAIN doc /\ ~Admits(field.types, doc[<<k>>])
          => Issue(<<k>>, "type") \in issues
=============================================================================
