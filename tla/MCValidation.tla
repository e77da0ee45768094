---------------------------- MODULE MCValidation -----------------------------
(***************************************************************************)
(* Documents and schemas for TLC.                                          *)
(***************************************************************************)
EXTENDS Validation

MCDefinitions ==
  [tree |-> [type |-> "obj", properties |-> [a |-> [ref |-> "tree"]],
             additionalProperties |-> [type |-> "num"]],
   filled |-> [type |-> "num", default |-> 1]]

-----------------------------------------------------------------------------
(* Documents: values, arrays of up to two of them, objects of up to two    *)
(* members in either order, and some deeper ones.                          *)
Half == Scalar("num", 1)
One == Scalar("num", 2)
Text == Scalar("str", 0)
Null == Scalar("null", 0)
Values == {Half, One, Text, Null}

Flat ==
  {Arr(<<>>), Obj(<<>>)}
    \cup {Arr(<<x>>) : x \in Values}
    \cup {Arr(<<x, y>>) : x \in {Half, One, Text}, y \in {Half, One, Text}}
    \cup {Obj(<< <<k, x>> >>) : k \in {"a", "b"}, x \in {One, Half, Text}}
    \cup {Obj(<< <<k, x>>, <<IF k = "a" THEN "b" ELSE "a", y>> >>) :
            k \in {"a", "b"}, x \in {One, Text}, y \in {One, Text}}

Small == {Arr(<<>>), Arr(<<One>>), Obj(<<>>), Obj(<< <<"a", One>> >>), Obj(<< <<"a", Text>> >>)}

Deep ==
  {Arr(<<x>>) : x \in Small}
    \cup {Obj(<< <<"a", x>> >>) : x \in Small}
    \cup {Obj(<< <<"a", x>>, <<"b", y>> >>) : x \in Small, y \in {One, Text}}
    \cup {Arr(<<One, x>>) : x \in Small}

MCDocuments == Values \cup Flat \cup Deep

-----------------------------------------------------------------------------
(* Schemas: every keyword by itself, then combinations.                    *)
Num == [type |-> "num"]
Str == [type |-> "str"]
Whole == [type |-> "int"]
Anys == [type |-> "obj"]
List == [type |-> "arr"]

Plain ==
  {Anything, Num, Str, Whole, Anys, List, [type |-> "null"],
   [types |-> {"num", "arr"}], [types |-> {"int", "str"}], [types |-> {"int", "num"}],
   [maximum |-> 1], [types |-> {"int", "obj"}, maximum |-> 1], [type |-> "num", maximum |-> 1],
   [enum |-> <<One, Text>>], [enum |-> <<Null, Arr(<<One>>), Obj(<< <<"a", One>> >>)>>]}

Arrays ==
  {[items |-> Num], [type |-> "arr", items |-> Anys], [items |-> List],
   [itemList |-> <<Num>>, additionalItems |-> Forbidden], [itemList |-> <<>>, additionalItems |-> Str],
   [itemList |-> <<Whole, Anys>>], [type |-> "arr", maxItems |-> 1], [type |-> "arr", minItems |-> 2],
   [type |-> "arr", uniqueItems |-> TRUE, items |-> Num],
   [type |-> "arr", maxItems |-> 1, minItems |-> 1, additionalItems |-> Forbidden]}

(* patternProperties only with additionalProperties FALSE: otherwise the   *)
(* code never looks at the patterns (object_validator.c:149-153), and that *)
(* is not what Valid says of them.                                         *)
Objects ==
  {[properties |-> [a |-> Num]], [type |-> "obj", required |-> {"a"}], [required |-> {"a", "b"}],
   [properties |-> [a |-> Num], additionalProperties |-> Forbidden],
   [additionalProperties |-> Num, properties |-> [b |-> Str]],
   [type |-> "obj", maxProperties |-> 1], [type |-> "obj", minProperties |-> 2],
   [patternProperties |-> {<<{"a"}, Num>>, <<{"a", "b"}, Str>>}, additionalProperties |-> Forbidden],
   [properties |-> [a |-> [type |-> "obj", properties |-> [a |-> Num]]]],
   [ref |-> "tree"]}

Filling ==
  {[properties |-> [a |-> [default |-> 1], b |-> [ref |-> "filled"]]],
   [type |-> "obj", properties |-> [b |-> [type |-> "str", default |-> 1]], required |-> {"a"}],
   [properties |-> [a |-> [type |-> "obj", default |-> 1,
                           properties |-> [b |-> [type |-> "num", default |-> 2]]]]],
   [items |-> [properties |-> [a |-> [type |-> "num", default |-> 1]]]],
   [allOf |-> <<[properties |-> [a |-> [default |-> 1]]],
                [properties |-> [b |-> [default |-> 1]], required |-> {"a"}]>>],
   [anyOf |-> <<[properties |-> [a |-> [default |-> 1]]], Anys>>]}

Operands ==
  {Num, Whole, Anys, [items |-> Num], [properties |-> [a |-> Num]],
   [type |-> "obj", required |-> {"a"}], [properties |-> [a |-> Str], additionalProperties |-> Num]}

Combinations ==
  {(w :> <<x, y>>) : w \in {"allOf", "anyOf", "oneOf"}, x \in Operands, y \in Operands}

(* "not" only of schemas that refuse a value at its first event, or in an  *)
(* array: of the members of an object see NotSchemas.                      *)
Negations ==
  {("not" :> <<x>>) : x \in {Anything, Num, List, Anys, [items |-> Num], [required |-> {"a"}]}}
    \cup {("not" :> <<Num, List>>)}

Nested ==
  {[properties |-> [a |-> (w :> <<x, Str>>)]] :
     w \in {"allOf", "anyOf", "oneOf"}, x \in {Num, Anys, [items |-> Num]}}
    \cup {[type |-> "arr", items |-> (w :> <<Num, [properties |-> [a |-> Num]]>>)] :
            w \in {"anyOf", "oneOf"}}
    \cup {[properties |-> [a |-> ("not" :> <<Num>>)]],
          [anyOf |-> <<[oneOf |-> <<Num, Anys>>], [allOf |-> <<List, [items |-> Num]>>]>>],
          [oneOf |-> <<[anyOf |-> <<Num, Str>>], ("not" :> <<Num>>)>>],
          [extends |-> [required |-> {"a"}], properties |-> [b |-> Num]],
          [extends |-> [type |-> "num"]],
          [type |-> "obj", anyOf |-> <<[required |-> {"a"}], [required |-> {"b"}]>>],
          [anyOf |-> <<Anys, Num>>, oneOf |-> <<[required |-> {"a"}], Num>>],
          [anyOf |-> <<[ref |-> "tree"], List>>]}

MCSchemas == Plain \cup Arrays \cup Objects \cup Filling \cup Combinations \cup Negations \cup Nested

(* "not" of a schema that an object fails to follow in one of its members. *)
NotSchemas == {("not" :> <<[properties |-> [a |-> Num]]>>), ("not" :> <<Num>>)}
=============================================================================
