----------------------------- MODULE Validation ------------------------------
(***************************************************************************)
(* The validation engine: a stack of validators that is fed one event at a *)
(* time, from the streaming parser or from the traversal of a tree.        *)
(*                                                                         *)
(* A ValidationState is its stack, the innermost validator first, and the  *)
(* notifications that are heard: reports for error_func, fills for         *)
(* default_property_func.  A validator that pushes a context when it       *)
(* enters the stack (init_state) and pops it when it leaves has it in its  *)
(* frame here.  The combined validators own states of their own, one per   *)
(* part, and feed each event to all of them.                               *)
(*                                                                         *)
(* Whether combined validators silence their parts is a field of the       *)
(* vtable they all share: collecting is that field.                        *)
(***************************************************************************)
EXTENDS Validators

CONSTANTS
  Schemas,    (* the schemas that documents are validated with             *)
  Documents,  (* the documents                                             *)
  Keys        (* the names of the members that have a default              *)

VARIABLES
  collecting, (* combined_vtable.init_state is init_state_collect_errors   *)
  schema,     (* the schema in use                                         *)
  doc,        (* the document                                              *)
  todo,       (* its events that are still to come                         *)
  state,      (* the ValidationState                                       *)
  verdict,    (* "idle", "running", "accepted" or "refused"                *)
  said,       (* the client has been told of an error                      *)
  added,      (* the defaults handed out: place of the object, key         *)
  unwanted,   (* None, or the key of a default that the receiver refuses   *)
              (* and the keys of those that it is handed before            *)
  denied      (* it has refused one                                        *)

receiver == <<unwanted, denied>>
vars == <<collecting, schema, doc, todo, state, verdict, said, added, receiver>>

-----------------------------------------------------------------------------
(* The stack.                                                              *)

Empty(reports, fills) == [stack |-> <<>>, reports |-> reports, fills |-> fills]
Top(s) == s.stack[1].node
Context(s) == s.stack[1].ctx
Down(s) == [s EXCEPT !.stack = Tail(@)]
SetContext(s, ctx) == [s EXCEPT !.stack[1].ctx = ctx]

RECURSIVE Push(_, _)

(* Not the code: the parts speak even if the whole is silent.              *)
PartStatesLoud(node, s) ==
  [i \in DOMAIN node.parts |-> Push(Empty(TRUE, s.fills), node.parts[i])]

(* combined_validator.c: what the parts of a combined validator may say.   *)
PartStates(node, s) ==
  [i \in DOMAIN node.parts |->
     Push(Empty(s.reports /\ collecting, s.fills), node.parts[i])]

InitContext(node, s) ==
  CASE node.v \in {"generic", "opposite", "arrays", "objects"} -> 0
    [] node.v = "array" -> [started |-> FALSE, count |-> 0]
    [] node.v = "object" -> [started |-> FALSE, required |-> 0, count |-> 0, defaults |-> {}]
    [] node.v \in {"allOf", "anyOf", "oneOf", "not", "enum"} ->
         [states |-> PartStates(node, s), speaks |-> ~collecting]
    [] OTHER -> None

(* A reference pushes its target as well, and leaves with it.              *)
Push(s, node) ==
  LET pushed == [s EXCEPT !.stack = <<[node |-> node, ctx |-> InitContext(node, s)]>> \o @]
  IN  IF node.v = "ref" THEN Push(pushed, Compile(Definitions[node.to])) ELSE pushed

RECURSIVE Pop(_)
Pop(s) ==
  IF s.stack = <<>> THEN s
  ELSE IF Down(s).stack # <<>> /\ Top(Down(s)).v = "ref" THEN Pop(Down(s))
  ELSE Down(s)

(* What a check gives: its answer, the state it leaves, whether the client *)
(* heard of an error, the defaults that were handed out, and whether one   *)
(* was not taken.                                                          *)
Yes(s) == [ok |-> TRUE, s |-> s, said |-> FALSE, added |-> {}, denied |-> FALSE]
Refuse(s) == [ok |-> FALSE, s |-> Pop(s), said |-> s.reports, added |-> {}, denied |-> FALSE]

-----------------------------------------------------------------------------
(* The validators of single values and of any arrays and objects.          *)

Opening == {"arrStart", "objStart"}
Closing == {"arrEnd", "objEnd"}

(* Not the code: stays for the value after the one it followed.            *)
CheckGenericLate(e, s) ==
  LET depth == Context(s) IN
  CASE e.type \in Opening -> Yes(SetContext(s, depth + 1))
    [] e.type \in Closing ->
         Yes(IF depth = 0 THEN Pop(s) ELSE SetContext(s, depth - 1))
    [] OTHER -> Yes(IF depth = 0 THEN Pop(s) ELSE s)

(* A value, with all that is nested in it.                                 *)
CheckGeneric(e, s) ==
  LET depth == Context(s) IN
  CASE e.type \in Opening -> Yes(SetContext(s, depth + 1))
    [] e.type \in Closing ->
         Yes(IF depth \in {0, 1} THEN Pop(s) ELSE SetContext(s, depth - 1))
    [] OTHER -> Yes(IF depth = 0 THEN Pop(s) ELSE s)

CheckOpposite(e, s) == [CheckGeneric(e, s) EXCEPT !.ok = FALSE]

CheckScalar(e, s) ==
  LET n == Top(s)
      accepted ==
        /\ e.type = IF n.v = "int" THEN "num" ELSE n.v
        /\ n.v = "int" => e.value % 2 = 0
        /\ "expected" \in DOMAIN n => e.value = n.expected
        /\ "maximum" \in DOMAIN n => e.value <= n.maximum
  IN  IF accepted THEN Yes(Pop(s)) ELSE Refuse(s)

(* array_validator.c and object_validator.c, check_generic: only brackets  *)
(* of their own kind count.                                                *)
CheckNested(e, s, start, end) ==
  LET depth == Context(s) IN
  CASE e.type = start -> Yes(SetContext(s, depth + 1))
    [] e.type = end -> Yes(IF depth = 1 THEN Pop(s) ELSE SetContext(s, depth - 1))
    [] OTHER -> IF depth = 0 THEN Refuse(s) ELSE Yes(s)

-----------------------------------------------------------------------------
(* The validators that have validators of their own.                       *)

RECURSIVE Check(_, _)

(* _get_current_validator; count is that of the element in hand.           *)
ItemValidator(node, count) ==
  IF "items" \in DOMAIN node THEN node.items
  ELSE IF "itemList" \notin DOMAIN node THEN Generic
  ELSE IF count <= Len(node.itemList) THEN node.itemList[count]
  ELSE node.additionalItems

(* The element's validator gets the event that begins the element.  When   *)
(* it refuses it, one more validator leaves the stack.                     *)
CheckArray(e, s) ==
  LET n == Top(s)
      ctx == Context(s)
      tooShort == "minItems" \in DOMAIN n /\ ctx.count < n.minItems
      repeats == "uniqueItems" \in DOMAIN n /\ n.uniqueItems /\ e.dup
      count == ctx.count + 1
      tooLong == "maxItems" \in DOMAIN n /\ count > n.maxItems
      item == ItemValidator(n, count)
      r == Check(e, Push(SetContext(s, [ctx EXCEPT !.count = count]), item))
  IN  CASE ~ctx.started ->
             IF e.type = "arrStart" THEN Yes(SetContext(s, [ctx EXCEPT !.started = TRUE]))
             ELSE Refuse(s)
        [] ctx.started /\ e.type = "arrEnd" ->
             IF tooShort \/ repeats THEN Refuse(s) ELSE Yes(Pop(s))
        [] OTHER ->
             IF tooLong \/ item = None THEN Refuse(s)
             ELSE IF r.ok THEN r ELSE [r EXCEPT !.s = Pop(@)]

(* object_properties_gather_default                                        *)
DefaultsOf(node, s) ==
  IF s.fills /\ "properties" \in DOMAIN node
  THEN {k \in DOMAIN node.properties : DefaultOf(node.properties[k]) # None}
  ELSE {}

(* Properties by name, then additionalProperties, then the patterns; a key *)
(* that several patterns match makes an anyOf of theirs.                   *)
MemberValidator(node, k) ==
  LET matching == IF "patternProperties" \in DOMAIN node
                  THEN {p[2] : p \in {q \in node.patternProperties : k \in q[1]}} ELSE {}
  IN  CASE "properties" \in DOMAIN node /\ k \in DOMAIN node.properties -> node.properties[k]
        [] OTHER ->
             IF node.additionalProperties # None THEN node.additionalProperties
             ELSE CASE matching = {} -> None
                    [] Cardinality(matching) = 1 -> CHOOSE v \in matching : TRUE
                    [] OTHER -> Combined("anyOf", SetToSeq(matching))

(* Not the code: a key that was seen keeps its default.                    *)
CheckKeyForgetful(k, s) ==
  LET n == Top(s)
      ctx == Context(s)
      seen == [ctx EXCEPT
                !.required = @ + IF "required" \in DOMAIN n /\ k \in n.required THEN 1 ELSE 0,
                !.count = @ + 1]
      tooMany == "maxProperties" \in DOMAIN n /\ seen.count > n.maxProperties
      member == MemberValidator(n, k)
  IN  IF tooMany \/ member = None THEN Refuse(s) ELSE Yes(Push(SetContext(s, seen), member))

CheckKey(k, s) ==
  LET n == Top(s)
      ctx == Context(s)
      seen == [ctx EXCEPT
                !.required = @ + IF "required" \in DOMAIN n /\ k \in n.required THEN 1 ELSE 0,
                !.count = @ + 1,
                !.defaults = @ \ {k}]
      tooMany == "maxProperties" \in DOMAIN n /\ seen.count > n.maxProperties
      member == MemberValidator(n, k)
  IN  IF tooMany \/ member = None THEN Refuse(s) ELSE Yes(Push(SetContext(s, seen), member))

(* default_property_func answers false, because a callback of the client   *)
(* does: the validator gives up at once and in silence, and stays on the   *)
(* stack.  Which defaults came before is up to the hash table.             *)
Denied(at, s) ==
  [Yes(s) EXCEPT !.ok = FALSE, !.denied = TRUE,
                 !.added = {<<at, k>> : k \in Context(s).defaults \cap unwanted.after}]

CheckObjectEnd(at, s) ==
  LET n == Top(s)
      ctx == Context(s)
      tooFew == "minProperties" \in DOMAIN n /\ ctx.count < n.minProperties
      lacking == "required" \in DOMAIN n /\ ctx.required # Cardinality(n.required)
  IN  IF tooFew \/ lacking THEN Refuse(s)
      ELSE IF unwanted # None /\ unwanted.key \in ctx.defaults THEN Denied(at, s)
      ELSE [Yes(Pop(s)) EXCEPT !.added = {<<at, k>> : k \in ctx.defaults}]

(* An open object takes every event but its end for a key.  The others     *)
(* come only after a refusal; their text is no key that a schema names.    *)
KeyOf(e) == IF e.type = "key" THEN e.key ELSE "text"

CheckObject(e, s) ==
  CASE ~Context(s).started ->
         IF e.type = "objStart"
         THEN Yes(SetContext(s, [Context(s) EXCEPT !.started = TRUE,
                                                   !.defaults = DefaultsOf(Top(s), s)]))
         ELSE Refuse(s)
    [] Context(s).started /\ e.type = "objEnd" -> CheckObjectEnd(e.at, s)
    [] OTHER -> CheckKey(KeyOf(e), s)

(* combined_types_validator.c: the validator of the type takes over.       *)
CheckTypes(e, s) ==
  LET types == Top(s).types
      type == CASE e.type = "num" -> IF "num" \in DOMAIN types THEN "num" ELSE "int"
                [] e.type = "arrStart" -> "arr"
                [] e.type = "objStart" -> "obj"
                [] OTHER -> e.type
  IN  IF type \in DOMAIN types THEN Check(e, Push(Pop(s), types[type])) ELSE Refuse(s)

-----------------------------------------------------------------------------
(* The combined validators.  Each part is asked in turn, and some answers  *)
(* end the round: n parts have been asked.  What is left to follow the     *)
(* value are the states in left; with none left the validator is finished. *)

Asked(e, s) == [i \in DOMAIN Context(s).states |-> Check(e, Context(s).states[i])]
Done(r) == r.ok /\ r.s.stack = <<>>
StatesOf(rs) == [i \in DOMAIN rs |-> rs[i].s]

(* Not the code: parts that are silent, and a whole that is silent too.    *)
AnswerMute(s, rs, n, ok, left) ==
  [ok |-> ok,
   s |-> IF ok /\ left # <<>> THEN SetContext(s, [Context(s) EXCEPT !.states = left])
         ELSE Pop(s),
   said |-> \E i \in 1 .. n : rs[i].said,
   added |-> UNION {rs[i].added : i \in 1 .. n},
   denied |-> \E i \in 1 .. n : rs[i].denied]

Answer(s, rs, n, ok, left) ==
  [ok |-> ok,
   s |-> IF ok /\ left # <<>> THEN SetContext(s, [Context(s) EXCEPT !.states = left])
         ELSE Pop(s),
   said |-> \/ \E i \in 1 .. n : rs[i].said
            \/ ~ok /\ Context(s).speaks /\ s.reports,
   added |-> UNION {rs[i].added : i \in 1 .. n},
   denied |-> \E i \in 1 .. n : rs[i].denied]

CheckAllOf(e, s) ==
  LET rs == Asked(e, s)
      bad == SelectInSeq(rs, LAMBDA r : ~r.ok)
      following == \E i \in DOMAIN rs : rs[i].s.stack # <<>>
  IN  Answer(s, rs, IF bad = 0 THEN Len(rs) ELSE bad, bad = 0,
             IF following THEN StatesOf(rs) ELSE <<>>)

(* The first part that is done decides; one that refuses is dropped.       *)
CheckAnyOf(e, s) ==
  LET rs == Asked(e, s)
      won == SelectInSeq(rs, Done)
      kept == SelectSeq(rs, LAMBDA r : r.ok)
  IN  Answer(s, rs, IF won = 0 THEN Len(rs) ELSE won, kept # <<>>,
             IF won = 0 THEN StatesOf(kept) ELSE <<>>)

(* Not the code: content with the first part that is done.                 *)
CheckOneOfFirst(e, s) ==
  LET rs == Asked(e, s)
      won == SelectInSeq(rs, Done)
      kept == SelectSeq(rs, LAMBDA r : r.ok)
  IN  Answer(s, rs, IF won = 0 THEN Len(rs) ELSE won, kept # <<>>,
             IF won = 0 THEN StatesOf(kept) ELSE <<>>)

CheckOneOf(e, s) ==
  LET rs == Asked(e, s)
      won == {i \in DOMAIN rs : Done(rs[i])}
      second == {j \in won : Cardinality({i \in won : i <= j}) = 2}
      kept == SelectSeq(rs, LAMBDA r : r.ok)
  IN  Answer(s, rs, IF second = {} THEN Len(rs) ELSE CHOOSE j \in second : TRUE,
             second = {} /\ kept # <<>>,
             IF won = {} THEN StatesOf(kept) ELSE <<>>)

(* A part stays as long as its stack is not empty, refused or not.         *)
CheckNot(e, s) ==
  LET rs == Asked(e, s)
      won == SelectInSeq(rs, Done)
  IN  Answer(s, rs, IF won = 0 THEN Len(rs) ELSE won, won = 0,
             StatesOf(SelectSeq(rs, LAMBDA r : r.s.stack # <<>>)))

(* validation_check                                                        *)
Check(e, s) ==
  IF s.stack = <<>> THEN [Yes(s) EXCEPT !.ok = FALSE]
  ELSE LET v == Top(s).v IN
    CASE v = "generic" -> CheckGeneric(e, s)
      [] v = "opposite" -> CheckOpposite(e, s)
      [] v = "arrays" -> CheckNested(e, s, "arrStart", "arrEnd")
      [] v = "objects" -> CheckNested(e, s, "objStart", "objEnd")
      [] v = "array" -> CheckArray(e, s)
      [] v = "object" -> CheckObject(e, s)
      [] v = "types" -> CheckTypes(e, s)
      [] v = "allOf" -> CheckAllOf(e, s)
      [] v \in {"anyOf", "enum"} -> CheckAnyOf(e, s)
      [] v = "oneOf" -> CheckOneOf(e, s)
      [] v = "not" -> CheckNot(e, s)
      [] OTHER -> CheckScalar(e, s)

-----------------------------------------------------------------------------
(* Schemas are parsed, documents are validated.                            *)

Init ==
  /\ collecting = FALSE
  /\ schema = Anything /\ doc = None /\ todo = <<>>
  /\ state = Empty(TRUE, FALSE)
  /\ verdict = "idle" /\ said = FALSE /\ added = {}
  /\ unwanted = None /\ denied = FALSE

(* jschema_builder_finish for the schema that the next document will use.  *)
LoadSchema(s) ==
  /\ verdict = "idle"
  /\ schema' = s
  /\ collecting' = (collecting \/ CollectsErrors(s))
  /\ verdict' = "loaded"
  /\ UNCHANGED <<doc, todo, state, said, added, receiver>>

Switching == {s \in Schemas : CollectsErrors(s)}

(* Some other part of the program parses a schema, at any time.            *)
LoadAnother ==
  /\ ~collecting
  /\ Switching # {}
  /\ collecting' = TRUE
  /\ UNCHANGED <<schema, doc, todo, state, verdict, said, added, receiver>>

Picky == UNION {[key : {k}, after : SUBSET (Keys \ {k})] : k \in Keys}

(* A parser, or jvalue_apply_schema, fills in defaults; jvalue_validate    *)
(* does not.                                                               *)
Begin(d, fills, w) ==
  /\ verdict = "loaded"
  /\ doc' = d /\ todo' = Events(d, <<>>)
  /\ state' = Push(Empty(TRUE, fills), Compile(schema))
  /\ verdict' = "running"
  /\ unwanted' = w
  /\ UNCHANGED <<collecting, schema, said, added, denied>>

Feed ==
  /\ verdict = "running" /\ todo # <<>>
  /\ LET r == Check(Head(todo), state) IN
     /\ state' = r.s
     /\ said' = (said \/ r.said)
     /\ added' = added \cup r.added
     /\ denied' = (denied \/ r.denied)
     /\ verdict' = IF r.ok THEN "running" ELSE "refused"
  /\ todo' = Tail(todo)
  /\ UNCHANGED <<collecting, schema, doc, unwanted>>

Complete ==
  /\ verdict = "running" /\ todo = <<>>
  /\ verdict' = "accepted"
  /\ UNCHANGED <<collecting, schema, doc, todo, state, said, added, receiver>>

(* validation_state_clear, and the next document may have another schema.  *)
Close ==
  /\ verdict \in {"accepted", "refused"}
  /\ schema' = Anything /\ doc' = None /\ todo' = <<>>
  /\ state' = Empty(TRUE, FALSE)
  /\ verdict' = "idle" /\ said' = FALSE /\ added' = {}
  /\ unwanted' = None /\ denied' = FALSE
  /\ UNCHANGED collecting

(* Without a default in the schema it is all one whether they are filled.  *)
Next ==
  \/ \E s \in Schemas : LoadSchema(s)
  \/ LoadAnother
  \/ \E d \in Documents : Begin(d, FALSE, None)
  \/ \E d \in Documents, w \in Picky \cup {None} :
       Begin(d, TRUE, w) /\ Uses(schema, {"default", "ref"})
  \/ Feed
  \/ Complete
  \/ Close

Spec == Init /\ [][Next]_vars

-----------------------------------------------------------------------------
(* Properties.                                                             *)

Depth(s) == Len(s.stack)

RECURSIVE StateOK(_)
StateOK(s) ==
  /\ s.reports \in BOOLEAN /\ s.fills \in BOOLEAN
  /\ \A i \in 1 .. Depth(s) :
       LET f == s.stack[i] IN
       CASE f.node.v \in {"generic", "opposite", "arrays", "objects"} -> f.ctx \in Nat
         [] f.node.v = "array" -> f.ctx.started \in BOOLEAN /\ f.ctx.count \in Nat
         [] f.node.v = "object" -> f.ctx.required <= f.ctx.count
         [] f.node.v \in {"allOf", "anyOf", "oneOf", "not", "enum"} ->
              /\ f.ctx.states # <<>>
              /\ \A j \in DOMAIN f.ctx.states :
                   /\ StateOK(f.ctx.states[j])
                   /\ f.ctx.states[j].reports => s.reports /\ ~f.ctx.speaks
         [] OTHER -> f.ctx = None

(* Every frame has the context its validator expects, no bracket is        *)
(* closed that was not opened (the casts of validation_state_get_context   *)
(* rest on it), and of a combined validator either the whole or its parts  *)
(* may speak, the parts only if the state they are in may.                 *)
TypeOK ==
  /\ verdict \in {"idle", "loaded", "running", "accepted", "refused"}
  /\ collecting \in BOOLEAN /\ said \in BOOLEAN
  /\ StateOK(state)

(* A document is accepted if and only if it has the shape that its schema  *)
(* describes: feeding events to a stack of validators that follow several  *)
(* alternatives at once comes to the same as reading the whole tree.  A    *)
(* receiver that does not take a default can have a good document refused, *)
(* never a bad one accepted (as long as no default stands below a oneOf or *)
(* a not, which take its refusal for a part that does not match).          *)
VerdictMatchesSchema ==
  /\ verdict = "accepted" => Valid(schema, doc)
  /\ verdict = "refused" => ~Valid(schema, doc) \/ denied

(* Part of it by itself, as the comments of combined_validator.c and of    *)
(* validator_check have it: a part of "not" that did not match is done     *)
(* with, it is pointless to go on with it.  So a document is only refused  *)
(* when some part matches it.                                              *)
NotOfRefused ==
  verdict = "refused" /\ Has(schema, "not") =>
    \E i \in DOMAIN schema["not"] : Valid(schema["not"][i], doc)

(* The last validator leaves the stack at the last event of the document,  *)
(* neither before it (validation_check would refuse what follows) nor      *)
(* after it (nothing would have judged the document when it is accepted).  *)
EndsWithDocument ==
  /\ verdict = "running" => (Depth(state) = 0 <=> todo = <<>>)
  /\ verdict = "accepted" => Depth(state) = 0

(* The client hears of an error if and only if the document is refused, as *)
(* long as no schema has switched the combined validators: alternatives    *)
(* that fail beside one that holds are silent, refusals never are, unless  *)
(* it is the client that did not take a default.                           *)
ToldIfRefused ==
  ~collecting => /\ verdict = "refused" => said \/ denied
                 /\ verdict \in {"running", "accepted"} => ~said

(* When a document is accepted, exactly the members it lacks and that have *)
(* a default have been handed out, each to its own object (the counts of   *)
(* defaults that object_validator.c keeps, through references, nested      *)
(* objects and the parts of an allOf): one that is not taken is never      *)
(* passed over.  Schemas with alternatives are excepted: an alternative    *)
(* may hand out a default before it fails.                                 *)
DefaultsFilled ==
  verdict = "accepted" /\ ~Uses(schema, {"anyOf", "oneOf", "not"}) =>
    added = IF state.fills THEN Missing(schema, doc, <<>>) ELSE {}
=============================================================================
