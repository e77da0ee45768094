----------------------------- MODULE SchemaBuild -----------------------------
(***************************************************************************)
(* How a schema is built: the values on the stack of the schema parser     *)
(* (json_schema_grammar.y), the four passes over the validators that it    *)
(* made (schema_builder.c, schema_parsing.c, validator.c), and who counts  *)
(* which reference to them, until the schema is released.                  *)
(*                                                                         *)
(* The heap has everything that counts its references: validators,         *)
(* features, definitions and default values.  A node holds others in named *)
(* slots; what the slots mean to its class (which of them it releases,     *)
(* which the passes visit) is given below class by class.  The shared      *)
(* instances are not counted and hold nothing.                             *)
(*                                                                         *)
(* A frame is one nonterminal of the grammar whose value grows while       *)
(* tokens arrive.  Texts, limits and names are left out, but for the keys  *)
(* of properties and definitions, where the same key may come twice.       *)
(***************************************************************************)
EXTENDS Integers, FiniteSets, Sequences, SequencesExt

CONSTANTS
  None,
  Generic, Arrays, Objects, Numbers, Strings, Booleans, Nulls,
               (* the shared instances                                     *)
  Types,       (* those of them that "type" may name                       *)
  Plain,       (* the features without contents that a schema may have     *)
  Keys,        (* keys of properties, patterns and definitions             *)
  Tokens,      (* bound: the tokens that open or add something             *)
  Deepest,     (* bound: frames on the stack                               *)
  Widest,      (* bound: attributes of a schema, members of a list        *)
  Matching     (* how many patterns one key may match                      *)

VARIABLES
  heap,        (* what is alive                                            *)
  frames,      (* the parser's stack, the innermost first                  *)
  phase,       (* of the schema's life                                     *)
  root,        (* parser_ctxt.validator                                    *)
  schema,      (* jschema: its count, its validator, and what its          *)
               (* uri_resolver keeps                                       *)
  tokens,      (* so far                                                   *)
  matched      (* pattern_properties_validator of an object being checked  *)

buildVars == <<heap, frames, phase, root, schema, tokens, matched>>

Static == {Generic, Arrays, Objects, Numbers, Strings, Booleans, Nulls}

Slot(role, id) == [role |-> role, id |-> id, key |-> None]
KeyedSlot(role, id, key) == [role |-> role, id |-> id, key |-> key]

FreshId(h) == CHOOSE n \in 1 .. Cardinality(DOMAIN h) + 1 : n \notin DOMAIN h

Create(h, class, slots) ==
  LET id == FreshId(h)
  IN  [h |-> [n \in DOMAIN h \cup {id} |->
                IF n = id THEN [class |-> class, count |-> 1, slots |-> slots, collected |-> 0]
                ELSE h[n]],
       v |-> id]

-----------------------------------------------------------------------------
(* What the last reference to a node releases, class by class.             *)

ReleasedByParsing == {"definitions", "type", "extends", "combinator", "feature"}
ReleasedByDefinitions == {"element"}
ReleasedByReference == {"default"}
ReleasedByArray == {"items", "additional", "default"}
ReleasedByObject == {"properties", "patterns", "required", "additional", "default"}
ReleasedByTypes == {"part", "default"}
ReleasedByCombined == {"part", "default"}
ReleasedByNumber == {"default"}
ReleasedByString == {"regex", "default"}
ReleasedByBoolean == {"default"}
ReleasedByNull == {"default"}
ReleasedByGeneric == {"default"}
ReleasedByItems == {"element"}
ReleasedByProperties == {"element"}
ReleasedByPatterns == {"element"}
ReleasedByAdditional == {"element"}
ReleasedByPattern == {"regex"}
ReleasedByDefault == {"value"}

Released(class) ==
  CASE class = "parsing" -> ReleasedByParsing
    [] class = "definitions" -> ReleasedByDefinitions
    [] class = "reference" -> ReleasedByReference
    [] class = "array" -> ReleasedByArray
    [] class = "object" -> ReleasedByObject
    [] class = "types" -> ReleasedByTypes
    [] class = "combined" -> ReleasedByCombined
    [] class = "number" -> ReleasedByNumber
    [] class = "string" -> ReleasedByString
    [] class = "boolean" -> ReleasedByBoolean
    [] class = "null" -> ReleasedByNull
    [] class = "any" -> ReleasedByGeneric
    [] class = "items" -> ReleasedByItems
    [] class = "properties" -> ReleasedByProperties
    [] class = "patterns" -> ReleasedByPatterns
    [] class \in {"additionalItems", "additionalProperties"} -> ReleasedByAdditional
    [] class = "pattern" -> ReleasedByPattern
    [] class = "jvalue" -> ReleasedByDefault
    [] OTHER -> {}

(* validator_ref, feature_ref, jvalue_copy                                 *)
Ref(h, v) == IF v \in DOMAIN h THEN [h EXCEPT ![v].count = @ + 1] ELSE h

(* validator_unref, feature_unref, j_release                               *)
RECURSIVE Unref(_, _)
Unref(h, v) ==
  IF v \notin DOMAIN h THEN h
  ELSE IF h[v].count > 1 THEN [h EXCEPT ![v].count = @ - 1]
  ELSE FoldLeft(LAMBDA g, s : IF s.role \in Released(h[v].class) THEN Unref(g, s.id) ELSE g,
                [n \in DOMAIN h \ {v} |-> h[n]], h[v].slots)

In(node, role) == SelectSeq(node.slots, LAMBDA s : s.role = role)
Held(h, v, role) == IF In(h[v], role) = <<>> THEN None ELSE In(h[v], role)[1].id
Without(slots, role) == SelectSeq(slots, LAMBDA s : s.role # role)

(* A setter that drops what its slot had and puts x there.                 *)
Put(h, v, role, x) ==
  LET dropped == Unref(h, Held(h, v, role))
  IN [dropped EXCEPT ![v].slots =
        Without(@, role) \o IF x = None THEN <<>> ELSE <<Slot(role, x)>>]

(* The lists of the code grow at their heads.                              *)
Prepend(h, v, slot) == [h EXCEPT ![v].slots = <<slot>> \o @]

-----------------------------------------------------------------------------
(* Features meet validators.                                               *)

(* The features that a class has setters for.                              *)
TakenByArray == {"items", "additionalItems", "arrayLimit", "jvalue"}
TakenByObject ==
  {"properties", "patterns", "additionalProperties", "required", "objectLimit", "jvalue"}
TakenByNumber == {"numberLimit", "jvalue"}
TakenByString == {"stringLimit", "pattern", "jvalue"}
TakenByBoolean == {"jvalue"}
TakenByNull == {"jvalue"}
TakenByGeneric == {"jvalue"}
TakenByTypes == {"jvalue"}
TakenByCombined == {"jvalue"}

Taken(class) ==
  CASE class = "array" -> TakenByArray
    [] class = "object" -> TakenByObject
    [] class = "number" -> TakenByNumber
    [] class = "string" -> TakenByString
    [] class = "boolean" -> TakenByBoolean
    [] class = "null" -> TakenByNull
    [] class = "any" -> TakenByGeneric
    [] class = "types" -> TakenByTypes
    [] class = "combined" -> TakenByCombined

(* The class that a shared instance becomes to take a feature.             *)
Becomes(v) ==
  CASE v = Arrays -> "array" [] v = Objects -> "object" [] v = Numbers -> "number"
    [] v = Strings -> "string" [] v = Booleans -> "boolean" [] v = Nulls -> "null"
    [] v = Generic -> "any"

(* What a new validator has: an object lets additional properties be.      *)
NewSlots(class) == IF class = "object" THEN <<Slot("additional", Generic)>> ELSE <<>>

(* Not the code: the validator of additional elements is not counted.      *)
SetAdditionalUncounted(h, v, f) == Put(h, v, "additional", Held(h, f, "element"))

(* set_additional_items, _properties: the validator without its feature.   *)
SetAdditional(h, v, f) ==
  LET x == Held(h, f, "element") IN Put(Ref(h, x), v, "additional", x)

SetPattern(h, v, f) ==
  LET x == Held(h, f, "regex") IN Put(Ref(h, x), v, "regex", x)

SetDefault(h, v, f) ==
  LET x == Held(h, f, "value") IN Put(Ref(h, x), v, "default", x)

(* set_items, set_properties and others: the feature is kept.              *)
SetShared(h, v, f) == Put(Ref(h, f), v, h[f].class, f)

Set(h, v, f) ==
  CASE h[f].class \in {"additionalItems", "additionalProperties"} -> SetAdditional(h, v, f)
    [] h[f].class = "pattern" -> SetPattern(h, v, f)
    [] h[f].class = "jvalue" -> SetDefault(h, v, f)
    [] h[f].class \in {"items", "properties", "patterns", "required"} -> SetShared(h, v, f)
    [] OTHER -> h

(* A set of types passes a feature on to the type that it is about.        *)
PartFor(h, f, v) ==
  SelectInSeq(h[v].slots, LAMBDA s : s.role = "part" /\ h[f].class \in Taken(Becomes(s.key)))

(* feature_apply gives the validator that has taken the feature.           *)
RECURSIVE FeatureApply(_, _, _)
FeatureApply(h, f, v) ==
  IF v \in Static
  THEN IF h[f].class \in Taken(Becomes(v))
       THEN LET n == Create(h, Becomes(v), NewSlots(Becomes(v)))
            IN [h |-> Set(n.h, n.v, f), v |-> n.v]
       ELSE [h |-> h, v |-> v]
  ELSE IF h[f].class \in Taken(h[v].class) THEN [h |-> Set(h, v, f), v |-> v]
  ELSE IF h[v].class = "types" /\ PartFor(h, f, v) # 0
  THEN LET i == PartFor(h, f, v)
           r == FeatureApply(h, f, h[v].slots[i].id)
       IN  [h |-> [r.h EXCEPT ![v].slots[i].id = r.v], v |-> v]
  ELSE [h |-> h, v |-> v]

(* The slots of a set of types have the instance they began with for key.  *)
TypeSlots(types) == SetToSeq({KeyedSlot("part", t, t) : t \in types})

(* _apply_features                                                         *)
ApplyFeatures(h, s) ==
  LET all == Create(h, "types", TypeSlots(Static \ {Generic}))
      typed == IF In(h[s], "feature") # <<>> /\ Held(h, s, "type") = None
               THEN [all.h EXCEPT ![s].slots = @ \o <<Slot("type", all.v)>>] ELSE h
      step(g, slot) ==
        LET r == FeatureApply(g, slot.id, Held(g, s, "type"))
        IN  [r.h EXCEPT ![s].slots = Without(@, "type") \o <<Slot("type", r.v)>>]
  IN  FoldLeft(step, typed, In(h[s], "feature"))

(* _combine: what it moves from one owner to another is not counted.       *)
CombineParsing(h, s) ==
  LET node == h[s]
      parts == In(node, "type") \o In(node, "combinator")
      kept == SelectSeq(node.slots, LAMBDA t : t.role \in {"definitions", "feature"})
      asPart(slots) == [i \in DOMAIN slots |-> Slot("part", slots[i].id)]
      joined == IF Len(parts) > 1 THEN Create(h, "combined", asPart(Reverse(parts)))
                ELSE [h |-> h, v |-> IF parts = <<>> THEN None ELSE parts[1].id]
      extends == In(node, "extends")
      whole == IF extends # <<>>
               THEN Create(joined.h, "combined",
                           (IF joined.v = None THEN <<>> ELSE <<Slot("part", joined.v)>>)
                             \o asPart(extends))
               ELSE IF joined.v = None THEN [joined EXCEPT !.v = Generic] ELSE joined
  IN  [whole.h EXCEPT ![s].slots = kept \o <<Slot("type", whole.v)>>]

-----------------------------------------------------------------------------
(* The passes.                                                             *)

VisitedInParsing == <<"definitions", "type", "extends", "combinator">>
VisitedInDefinitions == <<"element">>
VisitedInArray == <<"additional", "items">>
VisitedInObject == <<"additional", "properties", "patterns">>
VisitedInTypes == <<"part">>
VisitedInCombined == <<"part">>
VisitedInItems == <<"element">>
VisitedInProperties == <<"element">>
VisitedInPatterns == <<"element">>

Visited(class) ==
  CASE class = "parsing" -> VisitedInParsing
    [] class = "definitions" -> VisitedInDefinitions
    [] class = "array" -> VisitedInArray
    [] class = "object" -> VisitedInObject
    [] class = "types" -> VisitedInTypes
    [] class = "combined" -> VisitedInCombined
    [] class = "items" -> VisitedInItems
    [] class = "properties" -> VisitedInProperties
    [] class = "patterns" -> VisitedInPatterns
    [] OTHER -> <<>>

(* The lists that are gone through but are no validators to the passes.    *)
Through == {"definitions", "items", "properties", "patterns"}

Parsing(h, v) == v \in DOMAIN h /\ h[v].class = "parsing"

Enter(pass, h, v) ==
  IF pass = "apply" /\ Parsing(h, v) THEN ApplyFeatures(h, v)
  ELSE IF pass = "collect" /\ v \in DOMAIN h /\ h[v].class = "reference"
  THEN [h EXCEPT ![v].collected = @ + 1]
  ELSE h

Combined(h, v) == IF Parsing(h, v) THEN CombineParsing(h, v) ELSE h

(* _finalize_parse asks for the node to be replaced by its type.           *)
Finalized(h, v) ==
  LET type == IF Parsing(h, v) THEN Held(h, v, "type") ELSE None
  IN  [h |-> Ref(h, type), new |-> type]

Exit(pass, h, v) ==
  CASE pass = "combine" -> [h |-> Combined(h, v), new |-> None]
    [] pass = "finalize" -> Finalized(h, v)
    [] OTHER -> [h |-> h, new |-> None]

RECURSIVE Visit(_, _, _)

VisitSlot(pass, h, v, i) ==
  LET c == h[v].slots[i].id
      left == Exit(pass, Visit(pass, Enter(pass, h, c), c), c)
  IN  IF h[v].slots[i].role \in Through THEN Visit(pass, h, c)
      ELSE IF left.new = None THEN left.h
      ELSE Unref([left.h EXCEPT ![v].slots[i].id = left.new], c)

(* validator_visit                                                         *)
Visit(pass, h, v) ==
  IF v \notin DOMAIN h THEN h
  ELSE LET all == [i \in DOMAIN h[v].slots |-> i]
           places(role) == SelectSeq(all, LAMBDA i : h[v].slots[i].role = role)
           roles == Visited(h[v].class)
       IN  FoldLeft(LAMBDA g, i : VisitSlot(pass, g, v, i), h,
                    FlattenSeq([r \in DOMAIN roles |-> places(roles[r])]))

(* uri_resolver_add_validator, for a fragment that is still free.          *)
Remember(c, fragment, v) ==
  IF \E e \in c.kept : e.fragment = fragment THEN c
  ELSE [h |-> Ref(c.h, v), kept |-> c.kept \cup {[fragment |-> fragment, v |-> v]}]

(* _collect_schemas, definitions_collect_schemas                           *)
RECURSIVE CollectFrom(_, _, _)
CollectFrom(c, fragment, v) ==
  IF ~Parsing(c.h, v) THEN Remember(c, fragment, v)
  ELSE LET own == Remember(c, fragment, Held(c.h, v, "type"))
           defs == Held(c.h, v, "definitions")
       IN  IF defs = None THEN own
           ELSE FoldLeft(LAMBDA g, s : CollectFrom(g, s.key, s.id), own, c.h[defs].slots)

-----------------------------------------------------------------------------
(* The grammar.  b holds the heap and the frames while a token is reduced. *)

Keyed == {"properties", "patterns", "definitions"}
Lists == {"combinator", "not"}
Additional == {"additionalItems", "additionalProperties"}

Frame(sym, kw) == [sym |-> sym, kw |-> kw, val |-> None, key |-> None]

Now == [h |-> heap, fs |-> frames, root |-> root]
Top(b) == Head(b.fs)
Popped(b) == [b EXCEPT !.fs = Tail(@)]

(* A ? A : xxx_new() of the frame's value.                                 *)
Having(b, class) ==
  IF Top(b).val # None THEN b
  ELSE LET n == Create(b.h, class, <<>>) IN [b EXCEPT !.h = n.h, !.fs[1].val = n.v]

(* schema_parsing_set_validator, _set_extends, _set_definitions            *)
SetInParsing(b, role, v) ==
  LET p == Having(b, "parsing") IN [p EXCEPT !.h = Put(p.h, Top(p).val, role, v)]

(* schema_parsing_add_feature, _add_combinator                             *)
AddToParsing(b, role, v) ==
  LET p == Having(b, "parsing") IN
  IF v = None THEN p ELSE [p EXCEPT !.h = Prepend(p.h, Top(p).val, Slot(role, v))]

AddFeature(b, class, slots) ==
  LET f == Create(b.h, class, slots) IN AddToParsing([b EXCEPT !.h = f.h], "feature", f.v)

(* object_properties_add_key_n: the table drops what the key had.          *)
AddProperty(b, v) ==
  LET o == Having(b, "properties")
      id == Top(o).val
      same == {s \in ToSet(o.h[id].slots) : s.key = Top(o).key}
      dropped == FoldSet(LAMBDA s, g : Unref(g, s.id), o.h, same)
  IN [o EXCEPT !.h = [dropped EXCEPT ![id].slots =
                        SelectSeq(@, LAMBDA s : s \notin same) \o <<KeyedSlot("element", v, Top(o).key)>>],
               !.fs[1].key = None]

AddKeyed(b, class, v) ==
  LET o == Having(b, class) IN
  [o EXCEPT !.h = Prepend(o.h, Top(o).val, KeyedSlot("element", v, Top(o).key)), !.fs[1].key = None]

AddPart(b, class, role, v) ==
  LET o == Having(b, class) IN [o EXCEPT !.h = Prepend(o.h, Top(o).val, Slot(role, v))]

(* A value goes to the rule that has been waiting for it.                  *)
Deliver(b, v) ==
  IF b.fs = <<>> THEN [b EXCEPT !.root = v]
  ELSE CASE Top(b).sym = "keyword" /\ Top(b).kw = "extends" -> SetInParsing(Popped(b), "extends", v)
         [] Top(b).sym = "keyword" -> AddFeature(Popped(b), Top(b).kw, <<Slot("element", v)>>)
         [] Top(b).sym = "properties" -> AddProperty(b, v)
         [] Top(b).sym \in {"patterns", "definitions"} -> AddKeyed(b, Top(b).sym, v)
         [] Top(b).sym = "items" -> AddPart(b, "items", "element", v)
         [] Top(b).sym \in {"list", "enum"} -> AddPart(b, "combined", "part", v)
         [] Top(b).sym = "enumArray" -> AddPart(b, "items", "element", v)

Token(b) ==
  /\ heap' = b.h
  /\ frames' = b.fs
  /\ root' = b.root
  /\ UNCHANGED <<phase, schema, matched>>

At(sym) == phase = "parsing" /\ frames # <<>> /\ Head(frames).sym = sym
MayOpen ==
  /\ tokens < Tokens
  /\ frames # <<>> /\ Head(frames).val \in DOMAIN heap => Len(heap[Head(frames).val].slots) < Widest
  /\ tokens' = tokens + 1
MayNest == MayOpen /\ Len(frames) < Deepest

OpenSchema ==
  /\ phase = "parsing"
  /\ MayNest
  /\ IF frames = <<>> THEN root = None
     ELSE \/ Head(frames).sym \in {"keyword", "items", "list"}
          \/ Head(frames).sym \in Keyed /\ Head(frames).key # None
  /\ Token([Now EXCEPT !.fs = <<Frame("attrs", None)>> \o @])

(* An object whose first key is $ref.                                      *)
ReferTo ==
  /\ At("attrs")
  /\ Head(frames).val = None
  /\ MayOpen
  /\ LET r == Create(heap, "reference", <<>>)
     IN Token(Deliver(Popped([Now EXCEPT !.h = r.h]), r.v))

CloseSchema ==
  /\ At("attrs")
  /\ LET b == IF Head(frames).val # None THEN Now ELSE SetInParsing(Now, "type", Generic)
     IN Token(Deliver(Popped(b), Top(b).val))
  /\ UNCHANGED tokens

SetType(t) ==
  /\ At("attrs")
  /\ MayOpen
  /\ Token(SetInParsing(Now, "type", t))

SetTypeList(types) ==
  /\ At("attrs")
  /\ MayOpen
  /\ LET n == Create(heap, "types", TypeSlots(types))
     IN Token(SetInParsing([Now EXCEPT !.h = n.h], "type", n.v))

(* Features without contents that others hold.                             *)
AddPlain(kind) ==
  /\ At("attrs")
  /\ MayOpen
  /\ kind \in Plain
  /\ Token(AddFeature(Now, kind, <<>>))

AddRequired == AddPlain("required")
AddObjectLimit == AddPlain("objectLimit")   (* maxProperties, minProperties   *)
AddArrayLimit == AddPlain("arrayLimit")     (* maxItems, minItems, uniqueItems *)
AddNumberLimit == AddPlain("numberLimit")   (* maximum, minimum, multipleOf    *)
AddStringLimit == AddPlain("stringLimit")   (* maxLength, minLength            *)

(* "pattern", that a regular expression is made of.                        *)
AddPattern ==
  /\ At("attrs")
  /\ MayOpen
  /\ LET r == Create(heap, "regex", <<>>)
     IN Token(AddFeature([Now EXCEPT !.h = r.h], "pattern", <<Slot("regex", r.v)>>))

AddDefault ==
  /\ At("attrs")
  /\ MayOpen
  /\ LET d == Create(heap, "value", <<>>)
     IN Token(AddFeature([Now EXCEPT !.h = d.h], "jvalue", <<Slot("value", d.v)>>))

(* "additionalProperties" or "additionalItems": true or false              *)
AddAdditional(kind, allowed) ==
  /\ At("attrs")
  /\ MayOpen
  /\ Token(AddFeature(Now, kind, IF allowed THEN <<Slot("element", Generic)>> ELSE <<>>))

OpenKeyword(kw) ==
  /\ At("attrs")
  /\ MayNest
  /\ Token([Now EXCEPT !.fs = <<Frame("keyword", kw)>> \o @])

OpenContainer(sym, kw) ==
  /\ At("attrs")
  /\ MayNest
  /\ Token([Now EXCEPT !.fs = <<Frame(sym, kw)>> \o @])

(* "items": [ and "extends": [                                             *)
OpenList ==
  /\ At("keyword")
  /\ Head(frames).kw \in {"items", "extends"}
  /\ Token([Now EXCEPT !.fs[1] = Frame(IF @.kw = "items" THEN "items" ELSE "list", @.kw)])
  /\ UNCHANGED tokens

NextKey(k) ==
  /\ phase = "parsing" /\ frames # <<>>
  /\ Head(frames).sym \in Keyed
  /\ Head(frames).key = None
  /\ Token([Now EXCEPT !.fs[1].key = k])
  /\ UNCHANGED tokens

CloseProperties ==
  /\ At("properties") /\ Head(frames).key = None
  /\ Token(AddToParsing(Popped(Now), "feature", Head(frames).val))
  /\ UNCHANGED tokens

CloseDefinitions ==
  /\ At("definitions") /\ Head(frames).key = None
  /\ Token(SetInParsing(Popped(Now), "definitions", Head(frames).val))
  /\ UNCHANGED tokens

(* An empty array is taken, as one that allows no items.                   *)
CloseItems ==
  /\ At("items")
  /\ Token(IF Head(frames).val = None THEN AddFeature(Popped(Now), "items", <<>>)
           ELSE AddToParsing(Popped(Now), "feature", Head(frames).val))
  /\ UNCHANGED tokens

(* Those that must not be empty are errors then (SyntaxError).             *)
ClosePatterns ==
  /\ At("patterns") /\ Head(frames).key = None /\ Head(frames).val # None
  /\ Token(AddToParsing(Popped(Now), "feature", Head(frames).val))
  /\ UNCHANGED tokens

CloseCombinator ==
  /\ At("list") /\ Head(frames).val # None
  /\ LET v == Head(frames).val
         h == IF Head(frames).kw = "not" THEN Prepend(heap, v, Slot("part", Generic)) ELSE heap
         b == [Popped(Now) EXCEPT !.h = h]
     IN Token(IF Head(frames).kw = "extends" THEN SetInParsing(b, "extends", v)
              ELSE AddToParsing(b, "combinator", v))
  /\ UNCHANGED tokens

CloseEnum ==
  /\ At("enum") /\ Head(frames).val # None
  /\ Token(SetInParsing(Popped(Now), "type", Head(frames).val))
  /\ UNCHANGED tokens

EnumValue ==
  /\ At("enum") \/ At("enumArray")
  /\ MayOpen
  /\ LET v == Create(heap, "string", <<>>) IN Token(Deliver([Now EXCEPT !.h = v.h], v.v))

(* A value that is an array (or, with properties for items, an object).    *)
OpenEnumArray ==
  /\ At("enum") \/ At("enumArray")
  /\ MayNest
  /\ Token(Having([Now EXCEPT !.fs = <<Frame("enumArray", None)>> \o @], "items"))

(* set_items counts the items, then the parser drops its own reference.    *)
CloseEnumArray ==
  /\ At("enumArray")
  /\ LET items == Head(frames).val
         a == Create(heap, "array", <<>>)
     IN Token(Deliver([Popped(Now) EXCEPT !.h = Unref(SetShared(a.h, a.v, items), items)], a.v))
  /\ UNCHANGED tokens

Tokenising ==
  \/ OpenSchema
  \/ ReferTo
  \/ CloseSchema
  \/ \E t \in Types : SetType(t)
  \/ \E types \in SUBSET Types \ {{}} : SetTypeList(types)
  \/ AddRequired
  \/ AddObjectLimit
  \/ AddArrayLimit
  \/ AddNumberLimit
  \/ AddStringLimit
  \/ AddPattern
  \/ AddDefault
  \/ \E kind \in Additional, allowed \in BOOLEAN : AddAdditional(kind, allowed)
  \/ \E kw \in {"extends", "items"} \cup Additional : OpenKeyword(kw)
  \/ \E sym \in Keyed \cup {"enum"} : OpenContainer(sym, None)
  \/ \E kw \in Lists : OpenContainer("list", kw)
  \/ OpenList
  \/ \E k \in Keys : NextKey(k)
  \/ CloseProperties
  \/ CloseDefinitions
  \/ CloseItems
  \/ ClosePatterns
  \/ CloseCombinator
  \/ CloseEnum
  \/ EnumValue
  \/ OpenEnumArray
  \/ CloseEnumArray

NoSchema == [count |-> 0, v |-> None, kept |-> {}]

(* The destructor of enum_list takes the address it is given on trust: an  *)
(* enumeration that fails within its first value has none.                 *)
EnumWithoutList(fs) == \E i \in 2 .. Len(fs) : fs[i].sym = "enum" /\ fs[i].val = None

(* jschema_builder_destroy of what could not be parsed, then the jschema.  *)
Destroy(b) ==
  /\ IF EnumWithoutList(b.fs)
     THEN phase' = "crashed" /\ UNCHANGED <<heap, frames, root>>
     ELSE /\ phase' = "done"
          /\ heap' = FoldLeft(LAMBDA g, f : Unref(g, f.val), Unref(b.h, b.root), b.fs)
          /\ frames' = <<>>
          /\ root' = None
  /\ UNCHANGED <<schema, tokens, matched>>

(* A syntax error, an empty list that must not be, the end of the text.    *)
SyntaxError == phase = "parsing" /\ Destroy(Now)

(* object_pattern_properties_add of a pattern that is no regex.            *)
RefusePattern ==
  /\ At("attrs") /\ Len(frames) > 1 /\ frames[2].sym = "patterns"
  /\ LET b == Having(Popped(Now), "patterns")
     IN Destroy([b EXCEPT !.h = Unref(@, Head(frames).val)])

(* Not the code: combined_validator_add_enum_value keeps no reference to a *)
(* value that it refuses, but leaves the caller's.                         *)
RefuseEnumValueLeak ==
  /\ At("enumArray") /\ frames[2].sym = "enum"
  /\ LET a == Create(heap, "array", <<Slot("items", Head(frames).val)>>)
     IN Destroy(Having([Popped(Now) EXCEPT !.h = a.h], "combined"))

(* combined_validator_add_enum_value of a value that is there already.     *)
RefuseEnumValue ==
  /\ At("enumArray") /\ frames[2].sym = "enum"
  /\ LET a == Create(heap, "array", <<Slot("items", Head(frames).val)>>)
         b == Having([Popped(Now) EXCEPT !.h = a.h], "combined")
     IN Destroy([b EXCEPT !.h = Unref(@, a.v)])

-----------------------------------------------------------------------------
(* From the last token to the release of the schema.                       *)

Pass(from, to) ==
  /\ phase = from
  /\ phase' = to
  /\ UNCHANGED <<frames, root, tokens, matched>>

LastToken ==
  /\ Pass("parsing", "apply")
  /\ frames = <<>> /\ root # None
  /\ UNCHANGED <<heap, schema>>

(* validator_apply_features, validator_combine, validator_collect_uri      *)
ApplyPass ==
  /\ Pass("apply", "combine")
  /\ heap' = Visit("apply", Enter("apply", heap, root), root)
  /\ UNCHANGED schema

CombinePass ==
  /\ Pass("combine", "collect")
  /\ heap' = Combined(Visit("combine", heap, root), root)
  /\ UNCHANGED schema

(* Not the code: the root itself is not entered.                           *)
CollectPassBelow ==
  /\ Pass("collect", "finalize")
  /\ LET c == CollectFrom([h |-> heap, kept |-> {}], None, root)
     IN /\ heap' = Visit("collect", c.h, root)
        /\ schema' = [schema EXCEPT !.kept = c.kept]

CollectPass ==
  /\ Pass("collect", "finalize")
  /\ LET c == CollectFrom([h |-> Enter("collect", heap, root), kept |-> {}], None, root)
     IN /\ heap' = Visit("collect", c.h, root)
        /\ schema' = [schema EXCEPT !.kept = c.kept]

(* validator_finalize_parse: a root that stays gets another reference.     *)
FinalizePass ==
  /\ Pass("finalize", "finish")
  /\ \E below \in {Visit("finalize", heap, root)} :
       LET left == Finalized(below, root)
           new == IF left.new = None THEN root ELSE left.new
       IN /\ heap' = IF left.new = None THEN Ref(left.h, root) ELSE left.h
          /\ schema' = [schema EXCEPT !.count = 1, !.v = new]

(* jschema_builder_destroy of what has been parsed.                        *)
Finish ==
  /\ phase = "finish"
  /\ heap' = Unref(heap, root)
  /\ root' = None
  /\ phase' = "loaded"
  /\ UNCHANGED <<frames, schema, tokens, matched>>

(* jschema_copy, jschema_release                                           *)
CopySchema ==
  /\ phase = "loaded" /\ schema.count = 1
  /\ schema' = [schema EXCEPT !.count = @ + 1]
  /\ UNCHANGED <<heap, frames, phase, root, tokens, matched>>

ReleaseSchema ==
  /\ phase = "loaded" /\ matched = None
  /\ IF schema.count > 1
     THEN schema' = [schema EXCEPT !.count = @ - 1] /\ UNCHANGED <<heap, phase>>
     ELSE /\ heap' = FoldSet(LAMBDA e, g : Unref(g, e.v), Unref(heap, schema.v), schema.kept)
          /\ schema' = NoSchema
          /\ phase' = "done"
  /\ UNCHANGED <<frames, root, tokens, matched>>

(* object_pattern_properties_find, and _obj_key dropping the last result.  *)
Find(h, o, which) ==
  LET ids == [i \in DOMAIN which |-> Slot("part", h[o].slots[which[i]].id)]
  IN IF Len(which) = 1 THEN [h |-> Ref(h, ids[1].id), v |-> ids[1].id]
     ELSE Create(h, "combined", ids)

(* Objects that look at their patterns: an object with a validator for     *)
(* additional properties, as it has unless these are forbidden, uses that. *)
Consulting ==
  {v \in DOMAIN heap :
     /\ heap[v].class = "object"
     /\ Held(heap, v, "patterns") # None
     /\ Held(heap, v, "additional") = None}

Matches(v) ==
  {w \in SeqOf(DOMAIN heap[Held(heap, v, "patterns")].slots, Matching) :
     w # <<>> /\ \A i, j \in DOMAIN w : i < j => w[i] < w[j]}

MatchKey(v, which) ==
  /\ phase = "loaded"
  /\ LET f == Find(heap, Held(heap, v, "patterns"), which)
     IN /\ heap' = Unref(f.h, matched)
        /\ matched' = f.v
  /\ UNCHANGED <<frames, phase, root, schema, tokens>>

(* _cleanup_state of the object                                            *)
LeaveObject ==
  /\ phase = "loaded" /\ matched # None
  /\ heap' = Unref(heap, matched)
  /\ matched' = None
  /\ UNCHANGED <<frames, phase, root, schema, tokens>>

BuildInit ==
  /\ heap = <<>>
  /\ frames = <<>>
  /\ phase = "parsing"
  /\ root = None
  /\ schema = NoSchema
  /\ tokens = 0
  /\ matched = None

BuildNext ==
  \/ Tokenising
  \/ SyntaxError
  \/ RefusePattern
  \/ RefuseEnumValue
  \/ LastToken
  \/ ApplyPass
  \/ CombinePass
  \/ CollectPass
  \/ FinalizePass
  \/ Finish
  \/ CopySchema
  \/ ReleaseSchema
  \/ \E v \in Consulting : \E which \in Matches(v) : MatchKey(v, which)
  \/ LeaveObject

BuildSpec == BuildInit /\ [][BuildNext]_buildVars

-----------------------------------------------------------------------------
(* Who holds n: slots of what is alive, the parser, the schema, and an     *)
(* object that is being checked.                                           *)
HeldSlots ==
  UNION {{<<m, i>> : i \in {i \in DOMAIN heap[m].slots :
                             heap[m].slots[i].role \in Released(heap[m].class)}} :
          m \in DOMAIN heap}

Times(b) == IF b THEN 1 ELSE 0

Holders(n, slots) ==
  Cardinality({p \in slots : heap[p[1]].slots[p[2]].id = n})
    + Cardinality({i \in DOMAIN frames : frames[i].val = n})
    + Cardinality({e \in schema.kept : e.v = n})
    + Times(root = n) + Times(schema.v = n) + Times(matched = n)

Pointed ==
  UNION {{heap[m].slots[i].id : i \in DOMAIN heap[m].slots} : m \in DOMAIN heap}
    \cup {frames[i].val : i \in DOMAIN frames}
    \cup {root, schema.v, matched} \cup {e.v : e \in schema.kept}

Alive(v) == v = None \/ v \in Static \/ v \in DOMAIN heap

(* Through every rule of the grammar, every pass over the validators,      *)
(* sharing of features between the parsed schema and the validators, and   *)
(* matches of patterns, each object's count is the number of those that    *)
(* will release it, and nothing holds what has been freed.  The finished   *)
(* validators stand when the parsed schemas they were made from go.        *)
ValidatorsCounted ==
  /\ LET slots == HeldSlots IN \A n \in DOMAIN heap : heap[n].count = Holders(n, slots)
  /\ \A v \in Pointed : Alive(v)

(* A schema that could not be parsed, at whichever token, and a schema     *)
(* that has been released by all its owners leave nothing behind.          *)
NothingLeft == phase = "done" => DOMAIN heap = {}

(* What a validation may get to from a set of validators.                  *)
HeldBy(ids) == UNION {{heap[m].slots[i].id : i \in DOMAIN heap[m].slots} : m \in ids}
Reachable ==
  LET grow[k \in 0 .. Cardinality(DOMAIN heap)] ==
        IF k = 0 THEN ({schema.v} \cup {e.v : e \in schema.kept}) \ (Static \cup {None})
        ELSE LET ids == grow[k - 1] IN ids \cup (HeldBy(ids) \ (Static \cup {None}))
  IN grow[Cardinality(DOMAIN heap)]

(* The passes reach every nested schema, wherever it stands (features that *)
(* were applied, combinators, definitions, shared lists): the finished     *)
(* validators have no parsed schema among them, and each reference has     *)
(* got its target exactly once.                                            *)
FinishedSchema ==
  phase = "loaded" =>
    \A n \in Reachable :
      /\ heap[n].class # "parsing"
      /\ heap[n].class = "reference" => heap[n].collected = 1

(* A validator that was got for a key and has been released again is still *)
(* in the schema it came from.                                             *)
SchemaStands == phase = "loaded" => \A v \in Pointed : Alive(v)
=============================================================================
