------------------------------ MODULE GenStream ------------------------------
(***************************************************************************)
(* jvalue_stringify and its relatives (jvalue_tostring.c): a value is      *)
(* walked (jtraverse.c), each callback tells the stream (jgen_stream.c),   *)
(* the stream tells yajl's generator, and the text that comes out is kept  *)
(* in the value, in m_string, until the next text or the value's end.      *)
(*                                                                         *)
(* A text is a sequence of tokens.  Threads stringify values that may      *)
(* share parts, one callback at a time.  Two threads never stringify one   *)
(* value together and nobody changes a value that is being walked: the     *)
(* code has no lock for either.  Streams are opened with TOP_None only.    *)
(***************************************************************************)
EXTENDS Integers, Sequences, FiniteSets
LOCAL INSTANCE Functions

CONSTANTS
  GenValues,      (* value -> [kind, text, items]: text of a scalar, the   *)
                  (* items of a container as [key, value]                  *)
  GenConstants,   (* the values that are never released: JNULL and others  *)
  Stringified,    (* the values that clients stringify                     *)
  Stringifiers,   (* threads                                               *)
  YajlMaxDepth    (* YAJL_MAX_DEPTH: how many states yajl's generator has  *)

VARIABLES
  genAsked,    (* thread -> the value it stringifies                       *)
  genTodo,     (* thread -> what jvalue_traverse has still to tell         *)
  genStream,   (* thread -> yajl's generator: its states and its buffer    *)
  genString,   (* value -> m_string: its text, and its destructor is set   *)
  genHeld,     (* value -> the text its client was given last              *)
  genHeap      (* the texts allocated: whose, which of those, its tokens   *)

genVars == <<genAsked, genTodo, genStream, genString, genHeld, genHeap>>

NoJValue == "none"

Kind(v) == GenValues[v].kind
Items(v) == GenValues[v].items
IsContainer(v) == Kind(v) \in {"object", "array"}

(* Items are sequences of values.  Values hold each other less deep than   *)
(* yajl's generator has states for: what it does with deeper ones (it says *)
(* so and the stream does not listen) is not modelled.                     *)
ASSUME GenValuesAssumption ==
  /\ Stringified \subseteq DOMAIN GenValues
  /\ NoJValue \notin Stringified
  /\ YajlMaxDepth \in Nat
  /\ \A v \in DOMAIN GenValues :
       IsContainer(v) => Items(v) \in Seq({Items(v)[i] : i \in DOMAIN Items(v)})
  /\ \E depth \in [DOMAIN GenValues -> 0 .. YajlMaxDepth - 1] :
       \A v \in DOMAIN GenValues :
         IsContainer(v) =>
           /\ depth[v] > 0
           /\ \A i \in DOMAIN Items(v) :
                Items(v)[i].value \in DOMAIN GenValues /\ depth[Items(v)[i].value] < depth[v]

NoText == [of |-> NoJValue, number |-> 0, tokens |-> <<>>]
ReleasedText == [text |-> NoText, destructor |-> FALSE, gone |-> TRUE]

(***************************************************************************)
(* yajl's generator, external: a stack of states, the innermost first. It  *)
(* refuses what cannot come next and says so, but the stream ignores every *)
(* status: what is refused is missing from the text.                       *)
(***************************************************************************)
NewGenerator == [states |-> <<"start">>, tokens |-> <<>>]

After ==
  [start |-> "complete", complete |-> "complete",
   map_start |-> "map_val", map_val |-> "map_key", map_key |-> "map_val",
   array_start |-> "in_array", in_array |-> "in_array"]

Separator(state) ==
  CASE state \in {"map_key", "in_array"} -> <<",">>
    [] state = "map_val" -> <<":">>
    [] OTHER -> <<>>

Accepts(g, isString) ==
  /\ Head(g.states) # "complete"
  /\ Head(g.states) \in {"map_start", "map_key"} => isString

Moved(states) == <<After[Head(states)]>> \o Tail(states)

Atom(g, token, isString) ==
  IF ~Accepts(g, isString) THEN g
  ELSE [states |-> Moved(g.states),
        tokens |-> g.tokens \o Separator(Head(g.states)) \o <<token>>]

OpenWith(g, state, token) ==
  IF ~Accepts(g, FALSE) THEN g
  ELSE [states |-> <<state>> \o g.states,
        tokens |-> g.tokens \o Separator(Head(g.states)) \o <<token>>]

CloseWith(g, token) ==
  [states |-> Moved(Tail(g.states)), tokens |-> Append(g.tokens, token)]

(***************************************************************************)
(* The stream's functions                                                  *)
(***************************************************************************)
BeginObject(g) == OpenWith(g, "map_start", "{")
KeyObject(g, key) == Atom(g, key, TRUE)
EndObject(g) == CloseWith(g, "}")
BeginArray(g) == OpenWith(g, "array_start", "[")
EndArray(g) == CloseWith(g, "]")
Val(g, v) == Atom(g, GenValues[v].text, Kind(v) = "string")

(***************************************************************************)
(* jvalue_traverse: what is left to tell, in the order of the calls.       *)
(***************************************************************************)
Tell(what, of) == [what |-> what, of |-> of]

(* jkeyvalue_traverse: the key, and then the value.                        *)
KeyValue(item) == Tell("member", item)

(* An object tells its members in the order of its table: in any.          *)
Orders(v) ==
  IF Kind(v) = "array" THEN {[i \in DOMAIN Items(v) |-> i]}
  ELSE {order \in [DOMAIN Items(v) -> DOMAIN Items(v)] : IsInjective(order)}

TraverseObject(v, order) ==
  [i \in DOMAIN Items(v) |-> KeyValue(Items(v)[order[i]])] \o <<Tell("end object", v)>>

TraverseArray(v) ==
  [i \in DOMAIN Items(v) |-> Tell("value", Items(v)[i].value)] \o <<Tell("end array", v)>>

(* One call of the walk: what it tells the stream, and what it leaves.     *)
ValueCallback(g, v) ==
  IF Kind(v) = "object" THEN BeginObject(g)
  ELSE IF Kind(v) = "array" THEN BeginArray(g)
  ELSE Val(g, v)

Callback(g, tell) ==
  CASE tell.what = "member" -> KeyObject(g, tell.of.key)
    [] tell.what = "value" -> ValueCallback(g, tell.of)
    [] tell.what = "end object" -> EndObject(g)
    [] tell.what = "end array" -> EndArray(g)

Deeper(tell) ==
  IF tell.what = "member" THEN {<<Tell("value", tell.of.value)>>}
  ELSE IF tell.what # "value" \/ ~IsContainer(tell.of) THEN {<<>>}
  ELSE IF Kind(tell.of) = "array" THEN {TraverseArray(tell.of)}
  ELSE {TraverseObject(tell.of, order) : order \in Orders(tell.of)}

Traverse(t) ==
  /\ genTodo[t] # <<>>
  /\ \E deeper \in Deeper(Head(genTodo[t])) :
       /\ genStream' = [genStream EXCEPT ![t] = Callback(@, Head(genTodo[t]))]
       /\ genTodo' = [genTodo EXCEPT ![t] = deeper \o Tail(@)]
  /\ UNCHANGED <<genAsked, genString, genHeld, genHeap>>

(***************************************************************************)
(* jvalue_tostring_internal                                                *)
(***************************************************************************)
(* _jbuffer_free: the text goes, the destructor too; the pointer stays.    *)
(* Faulty: the destructor stays.                                           *)
DestroyedOnly(buffer) == buffer
Destroyed(buffer) == [buffer EXCEPT !.destructor = FALSE]

FreeString(v) ==
  IF genString[v].destructor
  THEN /\ genHeap' = genHeap \ {genString[v].text}
       /\ genString' = [genString EXCEPT ![v] = Destroyed(@)]
  ELSE UNCHANGED <<genHeap, genString>>

(* The earlier text goes first, whatever becomes of the call.              *)
Ask(t, v) ==
  /\ genAsked[t] = NoJValue
  /\ \A u \in Stringifiers : genAsked[u] # v
  /\ ~genString[v].gone
  /\ FreeString(v)
  /\ genHeld' = [genHeld EXCEPT ![v] = NoText]

Stringify(t, v) ==
  /\ Ask(t, v)
  /\ genAsked' = [genAsked EXCEPT ![t] = v]
  /\ genStream' = [genStream EXCEPT ![t] = NewGenerator]
  /\ genTodo' = [genTodo EXCEPT ![t] = <<Tell("value", v)>>]

(* The schema refuses the value, or there is no memory for a stream.       *)
StringifyFails(t, v) ==
  /\ Ask(t, v)
  /\ UNCHANGED <<genAsked, genStream, genTodo>>

Numbers(v) == {text.number : text \in {other \in genHeap : other.of = v}}

FinishStream(t) ==
  LET v == genAsked[t]
      fresh == CHOOSE n \in 1 .. 1 + Cardinality(genHeap) : n \notin Numbers(v)
      text == [of |-> v, number |-> fresh, tokens |-> genStream[t].tokens]
  IN /\ v # NoJValue
     /\ genTodo[t] = <<>>
     /\ genHeap' = genHeap \cup {text}
     /\ genString' = [genString EXCEPT ![v] = [text |-> text, destructor |-> TRUE, gone |-> FALSE]]
     /\ genHeld' = [genHeld EXCEPT ![v] = text]
     /\ genAsked' = [genAsked EXCEPT ![t] = NoJValue]
     /\ genStream' = [genStream EXCEPT ![t] = NewGenerator]
     /\ UNCHANGED genTodo

(* The last j_release of a value, which frees its text.                    *)
ReleaseValue(v) ==
  /\ v \notin GenConstants
  /\ \A t \in Stringifiers : genAsked[t] # v
  /\ ~genString[v].gone
  /\ genHeap' = IF genString[v].destructor THEN genHeap \ {genString[v].text} ELSE genHeap
  /\ genString' = [genString EXCEPT ![v] = ReleasedText]
  /\ genHeld' = [genHeld EXCEPT ![v] = NoText]
  /\ UNCHANGED <<genAsked, genTodo, genStream>>

InitGenerator ==
  /\ genAsked = [t \in Stringifiers |-> NoJValue]
  /\ genTodo = [t \in Stringifiers |-> <<>>]
  /\ genStream = [t \in Stringifiers |-> NewGenerator]
  /\ genString = [v \in Stringified |-> [text |-> NoText, destructor |-> FALSE, gone |-> FALSE]]
  /\ genHeld = [v \in Stringified |-> NoText]
  /\ genHeap = {}

GeneratorSteps ==
  \/ \E t \in Stringifiers :
       \/ Traverse(t)
       \/ FinishStream(t)
       \/ \E v \in Stringified : Stringify(t, v) \/ StringifyFails(t, v)
  \/ \E v \in Stringified : ReleaseValue(v)

(***************************************************************************)
(* Properties                                                              *)
(***************************************************************************)
(* The lists of the first n pieces, each of which may be any of several.   *)
Comma(n) == IF n = 1 THEN <<>> ELSE <<",">>

ListsBy(lists, pieces, n) ==
  IF n = 0 THEN {<<>>}
  ELSE {before \o Comma(n) \o piece : before \in lists[n - 1], piece \in pieces[n]}

Lists(pieces) ==
  LET lists[n \in 0 .. Len(pieces)] == ListsBy(lists, pieces, n) IN lists

(* What may stand for each item of v, when texts has what says its value.  *)
Label(v, item) == IF Kind(v) = "object" THEN <<item.key, ":">> ELSE <<>>

Pieces(texts, v, order) ==
  [n \in DOMAIN Items(v) |->
     {Label(v, Items(v)[order[n]]) \o text : text \in texts[Items(v)[order[n]].value]}]

Opening(v) == IF Kind(v) = "object" THEN "{" ELSE "["
Closing(v) == IF Kind(v) = "object" THEN "}" ELSE "]"

(* The texts that say v.                                                   *)
TextsBy(texts, v) ==
  IF ~IsContainer(v) THEN {<<GenValues[v].text>>}
  ELSE UNION {{<<Opening(v)>> \o list \o <<Closing(v)>> :
                 list \in Lists(Pieces(texts, v, order))[Len(Items(v))]} : order \in Orders(v)}

TextsOf[v \in DOMAIN GenValues] == TextsBy(TextsOf, v)

(* A text that a client was given says the whole of its value and stands   *)
(* until the client stringifies or releases the value again; no destructor *)
(* is left for a text that is gone (it would be freed twice), and no text  *)
(* stays behind without one, when calls fail and threads walk shared parts.*)
TextsStand ==
  /\ \A v \in Stringified :
       /\ genHeld[v] # NoText => genHeld[v] \in genHeap /\ genHeld[v].tokens \in TextsOf[v]
       /\ genString[v].destructor => genString[v].text \in genHeap
  /\ \A text \in genHeap : \E v \in Stringified : genString[v].destructor /\ genString[v].text = text
=============================================================================
