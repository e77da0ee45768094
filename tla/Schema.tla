------------------------------- MODULE Schema --------------------------------
(***************************************************************************)
(* JSON documents, the events that a parser or a tree traversal makes of   *)
(* them, and what a schema means.                                          *)
(*                                                                         *)
(* A document is a tree.  The numbers are counted in halves, so that some  *)
(* of them are not integers; the value of a string only tells it from      *)
(* others.  The members of an object come in the order they are written.   *)
(*                                                                         *)
(* A schema is a function on the keywords it uses.  "type" is one type,    *)
(* "types" its array form; "items" is one schema, "itemList" the array     *)
(* form; a pattern of "patternProperties" is the set of the keys it        *)
(* matches.  "maximum" stands for the constraints of a scalar.             *)
(***************************************************************************)
EXTENDS Integers, Sequences, FiniteSets, SequencesExt, TLC

CONSTANT Definitions  (* the schema that each "ref" leads to               *)

Scalar(kind, value) == [kind |-> kind, value |-> value]
Arr(items) == [kind |-> "arr", items |-> items]
Obj(members) == [kind |-> "obj", members |-> members]

Anything == <<>>                      (* the schema without keywords: {}   *)
Forbidden == [forbidden |-> TRUE]     (* false, for additional elements    *)

Has(s, keyword) == keyword \in DOMAIN s

KeyAt(d, i) == d.members[i][1]
MemberAt(d, i) == d.members[i][2]
KeysOf(d) == {KeyAt(d, i) : i \in DOMAIN d.members}

HasDuplicates(items) ==
  \E i, j \in DOMAIN items : i < j /\ items[i] = items[j]

(* What the callbacks are told of a document, in order.  The end of an     *)
(* array carries the answer that has_array_duplicates will give, the end   *)
(* of an object the place of the object, where defaults will be put.       *)
RECURSIVE Events(_, _)
Events(d, at) ==
  CASE d.kind = "arr" ->
         <<[type |-> "arrStart"]>>
           \o FlattenSeq([i \in DOMAIN d.items |-> Events(d.items[i], Append(at, i))])
           \o <<[type |-> "arrEnd", dup |-> HasDuplicates(d.items)]>>
    [] d.kind = "obj" ->
         <<[type |-> "objStart"]>>
           \o FlattenSeq([i \in DOMAIN d.members |->
                <<[type |-> "key", key |-> KeyAt(d, i)]>>
                  \o Events(MemberAt(d, i), Append(at, i))])
           \o <<[type |-> "objEnd", at |-> at]>>
    [] OTHER -> <<[type |-> d.kind, value |-> d.value]>>

-----------------------------------------------------------------------------
(* What a schema means.                                                    *)

OfType(t, d) == t = d.kind \/ (t = "int" /\ d.kind = "num" /\ d.value % 2 = 0)

Additional(s, keyword) == IF Has(s, keyword) THEN s[keyword] ELSE Anything

(* The schema of the element at position i.                                *)
ItemSchema(s, i) ==
  IF Has(s, "items") THEN s.items
  ELSE IF Has(s, "itemList")
  THEN IF i <= Len(s.itemList) THEN s.itemList[i] ELSE Additional(s, "additionalItems")
  ELSE Anything

(* The schemas that a member may follow: one, or those of several patterns.*)
MemberSchemas(s, k) ==
  LET named == Has(s, "properties") /\ k \in DOMAIN s.properties
      matching == IF Has(s, "patternProperties")
                  THEN {p[2] : p \in {q \in s.patternProperties : k \in q[1]}} ELSE {}
  IN  IF named THEN {s.properties[k]}
      ELSE IF matching # {} THEN matching
      ELSE {Additional(s, "additionalProperties")}

RECURSIVE Valid(_, _)

ValidArr(s, d) ==
  /\ \A i \in DOMAIN d.items : Valid(ItemSchema(s, i), d.items[i])
  /\ Has(s, "maxItems") => Len(d.items) <= s.maxItems
  /\ Has(s, "minItems") => Len(d.items) >= s.minItems
  /\ Has(s, "uniqueItems") /\ s.uniqueItems => ~HasDuplicates(d.items)

ValidObj(s, d) ==
  /\ \A i \in DOMAIN d.members :
       \E t \in MemberSchemas(s, KeyAt(d, i)) : Valid(t, MemberAt(d, i))
  /\ Has(s, "required") => s.required \subseteq KeysOf(d)
  /\ Has(s, "maxProperties") => Cardinality(KeysOf(d)) <= s.maxProperties
  /\ Has(s, "minProperties") => Cardinality(KeysOf(d)) >= s.minProperties

ValidParts(s, d) ==
  /\ Has(s, "allOf") => \A i \in DOMAIN s.allOf : Valid(s.allOf[i], d)
  /\ Has(s, "anyOf") => \E i \in DOMAIN s.anyOf : Valid(s.anyOf[i], d)
  /\ Has(s, "oneOf") => Cardinality({i \in DOMAIN s.oneOf : Valid(s.oneOf[i], d)}) = 1
  /\ Has(s, "not") => \A i \in DOMAIN s["not"] : ~Valid(s["not"][i], d)
  /\ Has(s, "extends") => Valid(s.extends, d)

Valid(s, d) ==
  IF Has(s, "ref") THEN Valid(Definitions[s.ref], d)
  ELSE /\ ~Has(s, "forbidden")
       /\ Has(s, "type") => OfType(s.type, d)
       /\ Has(s, "types") => \E t \in s.types : OfType(t, d)
       /\ Has(s, "enum") => \E i \in DOMAIN s.enum : s.enum[i] = d
       /\ d.kind = "num" /\ Has(s, "maximum") => d.value <= s.maximum
       /\ d.kind = "arr" => ValidArr(s, d)
       /\ d.kind = "obj" => ValidObj(s, d)
       /\ ValidParts(s, d)

(* The members a document lacks and for which the schema has a default,    *)
(* each with the place of its object: for schemas without alternatives.    *)
HasDefault(s) == Has(IF Has(s, "ref") THEN Definitions[s.ref] ELSE s, "default")

RECURSIVE Missing(_, _, _)
Missing(s, d, at) ==
  IF Has(s, "ref") THEN Missing(Definitions[s.ref], d, at)
  ELSE (IF Has(s, "allOf") THEN UNION {Missing(s.allOf[i], d, at) : i \in DOMAIN s.allOf} ELSE {})
    \cup (IF Has(s, "extends") THEN Missing(s.extends, d, at) ELSE {})
    \cup (IF d.kind = "arr"
          THEN UNION {Missing(ItemSchema(s, i), d.items[i], Append(at, i)) : i \in DOMAIN d.items}
          ELSE {})
    \cup (IF d.kind = "obj"
          THEN UNION {UNION {Missing(t, MemberAt(d, i), Append(at, i)) :
                               t \in MemberSchemas(s, KeyAt(d, i))} : i \in DOMAIN d.members}
          ELSE {})
    \cup (IF d.kind = "obj" /\ Has(s, "properties")
          THEN {<<at, k>> : k \in {j \in DOMAIN s.properties :
                                     HasDefault(s.properties[j]) /\ j \notin KeysOf(d)}}
          ELSE {})

(* The schemas a schema is built from, "ref" not followed.                 *)
RECURSIVE Subschemas(_)
Subschemas(s) ==
  LET single == {s[w] : w \in {"items", "additionalItems", "additionalProperties", "extends"}
                                \cap DOMAIN s}
      listed == UNION {{s[w][i] : i \in DOMAIN s[w]} :
                       w \in {"itemList", "properties", "allOf", "anyOf", "oneOf", "not"}
                               \cap DOMAIN s}
      matched == IF Has(s, "patternProperties") THEN {p[2] : p \in s.patternProperties} ELSE {}
  IN  {s} \cup UNION {Subschemas(t) : t \in single \cup listed \cup matched}

Uses(s, keywords) == \E t \in Subschemas(s) : DOMAIN t \cap keywords # {}
=============================================================================
