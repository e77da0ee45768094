----------------------------- MODULE Validators ------------------------------
(***************************************************************************)
(* The validators that the schema parser builds of a schema.               *)
(*                                                                         *)
(* A validator is a function on its fields; v tells its class.  A keyword  *)
(* that says something of a validator (a Feature in the code) is offered   *)
(* to the validator of the type, which takes it, upgrades itself to a      *)
(* class that can take it, or ignores it.  Reference counts are left out.  *)
(***************************************************************************)
EXTENDS Schema

CONSTANT None  (* no validator                                             *)

Class(v) == [v |-> v]
With(node, field, x) == (field :> x) @@ node

Generic == Class("generic")      (* any one value                          *)
Opposite == Class("opposite")      (* follows one value, refuses every event *)

(* The shared instances that the names of types stand for.                 *)
Instance(type) ==
  CASE type = "arr" -> Class("arrays")
    [] type = "obj" -> Class("objects")
    [] OTHER -> Class(type)

TypesOf(types) == [v |-> "types", types |-> [t \in types |-> Instance(t)]]

(* combined_types_validator_fill_all_types: no integer beside the number.  *)
AllTypes == TypesOf({"null", "bool", "num", "str", "arr", "obj"})

(* The classes of the shared instances have no room for a feature.         *)
Upgraded(node) ==
  CASE node.v = "arrays" -> [v |-> "array", additionalItems |-> Generic]
    [] node.v = "objects" -> [v |-> "object", additionalProperties |-> Generic]
    [] OTHER -> node

ArrayFeatures == {"items", "itemList", "additionalItems", "maxItems", "minItems", "uniqueItems"}
ObjectFeatures == {"properties", "additionalProperties", "patternProperties",
                   "required", "maxProperties", "minProperties"}
NumberFeatures == {"maximum"}

(* Which validator of a set of types a feature is about.                   *)
Slot(node, feature) ==
  CASE feature \in ArrayFeatures -> "arr"
    [] feature \in ObjectFeatures -> "obj"
    [] OTHER -> IF "num" \in DOMAIN node.types THEN "num" ELSE "int"

(* The vtable of the combined types has no setters for the sizes of an     *)
(* array, nor for its unique elements.                                     *)
NotForwarded == {"maxItems", "minItems", "uniqueItems"}

Takes(node, feature) ==
  \/ node.v \in {"arrays", "array"} /\ feature \in ArrayFeatures
  \/ node.v \in {"objects", "object"} /\ feature \in ObjectFeatures
  \/ node.v \in {"num", "int"} /\ feature \in NumberFeatures
  \/ feature = "default"

RECURSIVE Apply(_, _, _)
Apply(node, feature, x) ==
  IF Takes(node, feature) THEN With(Upgraded(node), feature, x)
  ELSE IF /\ node.v = "types"
          /\ feature \notin NotForwarded
          /\ Slot(node, feature) \in DOMAIN node.types
  THEN [node EXCEPT !.types[Slot(node, feature)] = Apply(@, feature, x)]
  ELSE node

(* The validator of one value of an enumeration.                           *)
RECURSIVE Constant(_)
Constant(d) ==
  CASE d.kind = "arr" ->
         [v |-> "array", additionalItems |-> Generic,
          itemList |-> [i \in DOMAIN d.items |-> Constant(d.items[i])],
          maxItems |-> Len(d.items), minItems |-> Len(d.items)]
    [] d.kind = "obj" ->
         [v |-> "object", additionalProperties |-> None,
          properties |-> [k \in KeysOf(d) |->
            Constant(MemberAt(d, CHOOSE i \in DOMAIN d.members : KeyAt(d, i) = k))],
          maxProperties |-> Cardinality(KeysOf(d)), minProperties |-> Cardinality(KeysOf(d))]
    [] d.kind = "null" -> Class("null")
    [] OTHER -> With(Class(d.kind), "expected", d.value)

-----------------------------------------------------------------------------
(* From a schema to its validator: the features go to the validator of the *)
(* type, then that validator and the combinators become one.               *)

(* combined_validator_add_value prepends.                                  *)
Combined(v, parts) == [v |-> v, parts |-> Reverse(parts)]

(* A second validator makes an allOf of them all; "extends" makes another. *)
Combine(parts, extended) ==
  LET joined == CASE parts = <<>> -> <<>>
                  [] Len(parts) = 1 -> parts
                  [] OTHER -> <<Combined("allOf", parts)>>
  IN  IF extended # None THEN Combined("allOf", <<extended>> \o joined)
      ELSE IF joined = <<>> THEN Generic ELSE joined[1]

FeatureOrder ==
  <<"items", "itemList", "additionalItems", "maxItems", "minItems", "uniqueItems",
    "properties", "additionalProperties", "patternProperties", "required",
    "maxProperties", "minProperties", "maximum", "default">>
Features(s) == SelectSeq(FeatureOrder, LAMBDA f : Has(s, f))

Combinators(s) == SelectSeq(<<"allOf", "anyOf", "oneOf", "not">>, LAMBDA w : Has(s, w))

(* schema_parsing_set_validator: what "type" or "enum" said.               *)
TypeValidator(s) ==
  CASE Has(s, "type") -> Instance(s.type)
    [] Has(s, "types") -> TypesOf(s.types)
    [] Has(s, "enum") -> Combined("enum", [i \in DOMAIN s.enum |-> Constant(s.enum[i])])
    [] Features(s) # <<>> -> AllTypes
    [] OTHER -> None

RECURSIVE Compile(_)

FeatureValue(s, feature) ==
  CASE feature \in {"items", "additionalItems", "additionalProperties"} -> Compile(s[feature])
    [] feature \in {"itemList", "properties"} ->
         [i \in DOMAIN s[feature] |-> Compile(s[feature][i])]
    [] feature = "patternProperties" -> {<<p[1], Compile(p[2])>> : p \in s[feature]}
    [] OTHER -> s[feature]

Combinator(s, w) ==
  LET parts == [i \in DOMAIN s[w] |-> Compile(s[w][i])]
  IN  Combined(w, IF w = "not" THEN Append(parts, Opposite) ELSE parts)

Compile(s) ==
  CASE Has(s, "ref") -> [v |-> "ref", to |-> s.ref]
    [] Has(s, "forbidden") -> None
    [] OTHER ->
         LET typed == TypeValidator(s)
             based == FoldLeft(LAMBDA node, f : Apply(node, f, FeatureValue(s, f)),
                               typed, Features(s))
             combinators == [i \in DOMAIN Combinators(s) |-> Combinator(s, Combinators(s)[i])]
         IN  Combine((IF typed = None THEN <<>> ELSE <<based>>) \o combinators,
                     IF Has(s, "extends") THEN Compile(s.extends) ELSE None)

(* Whether building the validators of a schema calls                       *)
(* combined_validator_collect_errors, which Combine does for its allOf.    *)
CollectsErrors(s) ==
  \E t \in Subschemas(s) :
    Len(Combinators(t)) + (IF TypeValidator(t) = None THEN 0 ELSE 1) >= 2

(* validator_get_default: a reference has the default of its target.  The  *)
(* default of a schema with combinators is lost with the validator that    *)
(* got it.                                                                 *)
RECURSIVE DefaultOf(_)
DefaultOf(node) ==
  CASE node.v = "ref" -> DefaultOf(Compile(Definitions[node.to]))
    [] "default" \in DOMAIN node -> node.default
    [] OTHER -> None
=============================================================================
