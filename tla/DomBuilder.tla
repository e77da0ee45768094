----------------------------- MODULE DomBuilder ------------------------------
(***************************************************************************)
(* The DOM parser of jparse_stream.c: yajl's callbacks build a tree of     *)
(* values by calls of the API that JValueGraph models.  A client feeds     *)
(* text, fetches the result when it likes, and deinitialises the parser    *)
(* when it likes, in the middle of a document too.                         *)
(*                                                                         *)
(* DomInfo records form a stack.  The record at level context is the       *)
(* innermost; m_value of a record is the container that the record above   *)
(* it fills, or the pending key in the innermost one.  m_prev is the level *)
(* below; level 0 is topLevelContext.                                      *)
(*                                                                         *)
(* A variable of the program that owns a reference is a handle of          *)
(* JValueGraph; mValue, fresh and copied say which.  A callback makes one  *)
(* API call per step, and the releases of a call come before the next.     *)
(*                                                                         *)
(* yajl is external: its state says which tokens the grammar allows.       *)
(* Validation may refuse any token (my_bounce_...), and adds members that  *)
(* have a default when an object closes.                                   *)
(***************************************************************************)
EXTENDS JValueGraph, Sequences, SequencesExt

CONSTANTS
  Text,       (* the contents of string values, which are never interned   *)
  MaxDepth,   (* bound on the nesting of containers                        *)
  MaxResults  (* bound on the results the client holds at a time           *)

ASSUME DomAssumption ==
  /\ Text \in Names
  /\ MaxDepth \in Nat /\ MaxResults \in Nat
  /\ None \notin Handles

Keys == Names \ {Text}
Levels == 0 .. MaxDepth

VARIABLES
  pc,         (* where the client or the running callback is               *)
  context,    (* the level of ctxt->context                                *)
  mValue,     (* m_value of each level                                     *)
  given,      (* what dom_object_key was called with for the pending key   *)
  fresh,      (* jnum, jstr or newParent of the running callback           *)
  copied,     (* the copy of newParent on its way into its parent          *)
  yajl,       (* what yajl expects in each open container                  *)
  status,     (* "reading", "complete", or how the parse failed            *)
  defaultsAt, (* the level of the object that receives defaults, or 0      *)
  results     (* what the client got from jdomparser_get_result            *)

domVars ==
  <<pc, context, mValue, given, fresh, copied, yajl, status, defaultsAt, results>>

DomInit ==
  /\ Init
  /\ pc = "none"
  /\ context = 0
  /\ mValue = [d \in Levels |-> None]
  /\ given = None
  /\ fresh = None /\ copied = None
  /\ yajl = <<>>
  /\ status = "reading"
  /\ defaultsAt = 0
  /\ results = {}

(* Which handle a variable takes is of no importance: the first that is    *)
(* free.                                                                   *)
Takes(h) == handle[h] = None /\ h = CHOOSE g \in Handles : handle[g] = None

Held(d) == handle[mValue[d]]
Parent == Held(context - 1)      (* data->m_prev->m_value                   *)

(* jdomparser_feed may have returned: after any token, but not in the      *)
(* middle of a callback or of the defaults of an object.                   *)
InClient == pc = "feed" /\ (defaultsAt = 0 \/ status = "improper")

-----------------------------------------------------------------------------
(* yajl *)

ValueAllowed ==
  /\ pc = "feed" /\ status = "reading"
  /\ yajl # <<>> => Last(yajl) \in {"value", "array"}
  /\ context > 0 /\ Is(Parent, "array") => size[Parent] < MaxSize

(* A value has begun: in an object a key follows it.                       *)
Expect(s) ==
  IF s # <<>> /\ Last(s) = "value" THEN Append(Front(s), "key") ELSE s

StatusAfter(s) == IF s = <<>> THEN "complete" ELSE "reading"

(* A closing brace is refused although defaults have been inserted: one    *)
(* validator of several has handed them out when another says no.          *)
RefusesDefaults ==
  pc = "feed" /\ defaultsAt > 0 /\ Len(yajl) = defaultsAt /\ Last(yajl) = "key"

(* A syntax error, or validation_check refuses the token.  Either is final *)
(* for yajl.  The tokens of a default are not validated.                   *)
ParseError ==
  /\ InClient \/ RefusesDefaults
  /\ Quiet
  /\ status \in {"reading", "complete"}
  /\ status' = "error"
  /\ defaultsAt' = 0
  /\ UNCHANGED <<vars, pc, context, mValue, given, fresh, copied, yajl, results>>

(* A callback returns 1, or 0.                                             *)
Proceed == pc' = "feed" /\ UNCHANGED status
Improper == pc' = "feed" /\ status' = "improper"

-----------------------------------------------------------------------------
(* Values *)

AtTop == context = 0 /\ mValue[0] = None
InArray(d) == d > 0 /\ mValue[d] = None /\ Is(Held(d - 1), "array")
UnderKey(d) == d > 0 /\ mValue[d] # None /\ Is(Held(d), "string") /\ Is(Held(d - 1), "object")

(* dom_null, dom_boolean, dom_number and dom_string make a value ...       *)
MakeLeaf(h) ==
  /\ ValueAllowed /\ Takes(h)
  /\ TakeConst(h) \/ \E b \in Blocks : CreateString(h, b, Text)
  /\ fresh' = h
  /\ pc' = "place"
  /\ yajl' = Expect(yajl)
  /\ status' = StatusAfter(yajl)
  /\ UNCHANGED <<context, mValue, given, copied, defaultsAt, results>>

(* ... and put it where it belongs, or release it.                         *)
PlaceLeaf ==
  /\ pc = "place"
  /\ fresh' = None /\ given' = None
  /\ \/ /\ AtTop /\ Quiet
        /\ mValue' = [mValue EXCEPT ![0] = fresh]
        /\ Proceed /\ UNCHANGED vars
     \/ /\ InArray(context)
        /\ ArrayAppend(Parent, fresh)
        /\ Proceed /\ UNCHANGED mValue
     \/ /\ UnderKey(context)
        /\ ObjectPut(Parent, mValue[context], fresh)
        /\ mValue' = [mValue EXCEPT ![context] = None]
        /\ Proceed
     \/ /\ ~AtTop /\ ~InArray(context) /\ ~UnderKey(context)
        /\ Release(fresh)
        /\ Improper /\ UNCHANGED mValue
  /\ UNCHANGED <<context, copied, yajl, defaultsAt, results>>

-----------------------------------------------------------------------------
(* Containers *)

(* dom_object_start and dom_array_start: the new record is linked before   *)
(* the container has a place.                                              *)
Start(k, h, b) ==
  /\ ValueAllowed /\ Len(yajl) < MaxDepth /\ Takes(h)
  /\ \/ k = "object" /\ CreateObject(h, b)
     \/ k = "array" /\ CreateArray(h, b)
  /\ context' = context + 1
  /\ \/ /\ context = 0
        /\ mValue' = [mValue EXCEPT ![0] = h]
        /\ pc' = "feed"
        /\ UNCHANGED fresh
     \/ /\ context > 0
        /\ fresh' = h
        /\ pc' = "copy"
        /\ UNCHANGED mValue
  /\ yajl' = Append(Expect(yajl), IF k = "object" THEN "key" ELSE "array")
  /\ UNCHANGED <<given, copied, status, defaultsAt, results>>

(* One reference for the parent, the other stays with the record.          *)
CopyContainer(h) ==
  /\ pc = "copy" /\ Takes(h)
  /\ \/ /\ InArray(context - 1) \/ UnderKey(context - 1)
        /\ Copy(handle[fresh], h)
        /\ copied' = h
        /\ pc' = "attach"
        /\ UNCHANGED <<fresh, status>>
     \/ /\ ~InArray(context - 1) /\ ~UnderKey(context - 1)
        /\ Release(fresh)
        /\ fresh' = None
        /\ Improper /\ UNCHANGED copied
  /\ UNCHANGED <<context, mValue, given, yajl, defaultsAt, results>>

(* Faulty: m_value is overwritten before the key is taken from it.         *)
AttachSwapped ==
  /\ pc = "attach"
  /\ \/ InArray(context - 1) /\ ArrayAppend(Held(context - 2), copied)
     \/ UnderKey(context - 1) /\ ObjectPut(Held(context - 2), fresh, copied)
  /\ mValue' = [mValue EXCEPT ![context - 1] = fresh]
  /\ fresh' = None /\ copied' = None /\ given' = None
  /\ pc' = "feed"
  /\ UNCHANGED <<context, yajl, status, defaultsAt, results>>

Attach ==
  /\ pc = "attach"
  /\ \/ /\ InArray(context - 1)
        /\ ArrayAppend(Held(context - 2), copied)
     \/ /\ UnderKey(context - 1)
        /\ ObjectPut(Held(context - 2), mValue[context - 1], copied)
  /\ mValue' = [mValue EXCEPT ![context - 1] = fresh]
  /\ fresh' = None /\ copied' = None /\ given' = None
  /\ pc' = "feed"
  /\ UNCHANGED <<context, yajl, status, defaultsAt, results>>

Interned(n) == {b \in Blocks : Is(b, "string") /\ text[b] = n}

(* Faulty: any key that is in use will do.                                 *)
LookupAny(n, h) ==
  \/ \E m \in Keys : \E b \in Interned(m) : LookupKey(b, h)
  \/ (\A m \in Keys : Interned(m) = {}) /\ \E b \in Blocks : CreateString(h, b, n)

(* keyDictionaryLookup: the key others use, or a new one.                  *)
Lookup(n, h) ==
  \/ \E b \in Interned(n) : LookupKey(b, h)
  \/ Interned(n) = {} /\ \E b \in Blocks : CreateString(h, b, n)

TakesKey == context > 0 /\ mValue[context] = None /\ Is(Parent, "object")

(* dom_object_key.                                                         *)
Key(n, h) ==
  \/ /\ TakesKey
     /\ Lookup(n, h)
     /\ mValue' = [mValue EXCEPT ![context] = h]
     /\ given' = n
     /\ Proceed
  \/ /\ ~TakesKey /\ Quiet
     /\ Improper /\ UNCHANGED <<vars, mValue, given>>

KeyAllowed == pc = "feed" /\ status = "reading" /\ yajl # <<>> /\ Last(yajl) = "key"

(* Keys of the text, and those inside a default value.                     *)
ObjectKey(n, h) ==
  /\ KeyAllowed /\ Takes(h)
  /\ defaultsAt = 0 \/ Len(yajl) > defaultsAt
  /\ Key(n, h)
  /\ yajl' = Append(Front(yajl), "value")
  /\ UNCHANGED <<context, fresh, copied, defaultsAt, results>>

(* Before the closing brace validation adds members that have a default;   *)
(* of two validators with a default for one name both do.                  *)
DefaultProperty(n, h) ==
  /\ KeyAllowed /\ Takes(h)
  /\ defaultsAt = 0 \/ Len(yajl) = defaultsAt
  /\ Key(n, h)
  /\ defaultsAt' = Len(yajl)
  /\ yajl' = Append(Front(yajl), "value")
  /\ UNCHANGED <<context, fresh, copied, results>>

Closes(k) ==
  /\ pc = "feed" /\ status = "reading" /\ yajl # <<>>
  /\ Last(yajl) = IF k = "object" THEN "key" ELSE "array"

(* Faulty: the record below keeps pointing to the container.               *)
EndKeepingValue(k) ==
  /\ Closes(k)
  /\ mValue[context] = None /\ Is(Parent, k)
  /\ context' = context - 1
  /\ \/ context = 1 /\ Quiet /\ UNCHANGED vars
     \/ context > 1 /\ Release(mValue[context - 1])
  /\ status' = StatusAfter(Front(yajl))
  /\ yajl' = Front(yajl)
  /\ defaultsAt' = IF defaultsAt = Len(yajl) THEN 0 ELSE defaultsAt
  /\ UNCHANGED <<pc, mValue, given, fresh, copied, results>>

(* dom_object_end and dom_array_end: the record goes, and with it the      *)
(* reference of the record below, unless that is the outermost: its        *)
(* container is the result.                                                *)
End(k) ==
  /\ Closes(k)
  /\ \/ /\ mValue[context] = None /\ Is(Parent, k)
        /\ context' = context - 1
        /\ \/ context = 1 /\ Quiet /\ UNCHANGED <<vars, mValue>>
           \/ /\ context > 1
              /\ Release(mValue[context - 1])
              /\ mValue' = [mValue EXCEPT ![context - 1] = None]
        /\ status' = StatusAfter(Front(yajl))
     \/ /\ ~(mValue[context] = None /\ Is(Parent, k)) /\ Quiet
        /\ status' = "improper"
        /\ UNCHANGED <<vars, context, mValue>>
  /\ yajl' = Front(yajl)
  /\ defaultsAt' = IF defaultsAt = Len(yajl) THEN 0 ELSE defaultsAt
  /\ UNCHANGED <<pc, given, fresh, copied, results>>

-----------------------------------------------------------------------------
(* The client *)

(* jdomparser_init, on its own or inside jdom_create.                      *)
InitParser ==
  /\ pc = "none" /\ Quiet
  /\ pc' = "feed"
  /\ yajl' = <<>> /\ status' = "reading"
  /\ UNCHANGED <<vars, context, mValue, given, fresh, copied, defaultsAt, results>>

(* jsaxparser_end of an incomplete document; it changes nothing else.      *)
EndOfInput ==
  /\ InClient /\ Quiet
  /\ status = "reading"
  /\ status' = "error"
  /\ UNCHANGED <<vars, pc, context, mValue, given, fresh, copied, yajl, defaultsAt, results>>

(* jdomparser_get_result, between two calls of jdomparser_feed or after    *)
(* the last.                                                               *)
GetResult(h) ==
  /\ InClient /\ Takes(h)
  /\ mValue[0] # None
  /\ Cardinality(results) < MaxResults
  /\ Copy(Held(0), h)
  /\ results' = results \cup {h}
  /\ UNCHANGED <<pc, context, mValue, given, fresh, copied, yajl, status, defaultsAt>>

ReleaseResult(h) ==
  /\ pc = "none" \/ InClient
  /\ h \in results
  /\ Release(h)
  /\ results' = results \ {h}
  /\ UNCHANGED <<pc, context, mValue, given, fresh, copied, yajl, status, defaultsAt>>

(* jdomparser_deinit.                                                      *)
Deinit ==
  /\ InClient /\ Quiet
  /\ pc' = "cleanup" /\ given' = None
  /\ UNCHANGED <<vars, context, mValue, fresh, copied, yajl, status, defaultsAt, results>>

(* Faulty: clean-up forgets the record of the parser.                      *)
CleanupShort ==
  /\ pc = "cleanup" /\ Quiet
  /\ \/ (mValue[context] = None \/ context = 0) /\ UNCHANGED vars
     \/ mValue[context] # None /\ context > 0 /\ Release(mValue[context])
  /\ mValue' = [mValue EXCEPT ![context] = None]
  /\ \/ context = 0 /\ pc' = "none" /\ UNCHANGED context
     \/ context > 0 /\ context' = context - 1 /\ UNCHANGED pc
  /\ UNCHANGED <<given, fresh, copied, yajl, status, defaultsAt, results>>

(* Faulty: clean-up does not stop at the record of the parser.             *)
CleanupPastTop ==
  /\ pc = "cleanup" /\ Quiet
  /\ \/ mValue[context] = None /\ UNCHANGED vars
     \/ mValue[context] # None /\ Release(mValue[context])
  /\ mValue' = [mValue EXCEPT ![context] = None]
  /\ context' = context - 1
  /\ UNCHANGED <<pc, given, fresh, copied, yajl, status, defaultsAt, results>>

(* dom_cleanup releases the records from the innermost on, then the one of *)
(* the parser.                                                             *)
Cleanup ==
  /\ pc = "cleanup" /\ Quiet
  /\ \/ mValue[context] = None /\ UNCHANGED vars
     \/ mValue[context] # None /\ Release(mValue[context])
  /\ mValue' = [mValue EXCEPT ![context] = None]
  /\ \/ context = 0 /\ pc' = "none" /\ UNCHANGED context
     \/ context > 0 /\ context' = context - 1 /\ UNCHANGED pc
  /\ UNCHANGED <<given, fresh, copied, yajl, status, defaultsAt, results>>

-----------------------------------------------------------------------------

Callback ==
  \/ PlaceLeaf \/ Attach
  \/ \E h \in Handles : MakeLeaf(h) \/ CopyContainer(h)
  \/ \E k \in {"object", "array"}, h \in Handles, b \in Blocks : Start(k, h, b)
  \/ \E n \in Keys, h \in Handles : ObjectKey(n, h) \/ DefaultProperty(n, h)
  \/ \E k \in {"object", "array"} : End(k)

Client ==
  \/ InitParser \/ ParseError \/ EndOfInput \/ Deinit \/ Cleanup
  \/ \E h \in Handles : GetResult(h) \/ ReleaseResult(h)

DomNext == Callback \/ Client \/ (Releasing /\ UNCHANGED domVars)

DomSpec == DomInit /\ [][DomNext]_<<vars, domVars>>
-----------------------------------------------------------------------------
(* Properties *)

DomTypeOK ==
  /\ pc \in {"none", "feed", "place", "copy", "attach", "cleanup"}
  /\ context \in Levels
  /\ mValue \in [Levels -> Handles \cup {None}]
  /\ given \in Keys \cup {None}
  /\ fresh \in Handles \cup {None} /\ copied \in Handles \cup {None}
  /\ yajl \in Seq({"key", "value", "array"}) /\ Len(yajl) <= MaxDepth
  /\ status \in {"reading", "complete", "error", "improper"}
  /\ defaultsAt \in Levels
  /\ results \subseteq Handles

(* The stack of records follows yajl's grammar: no callback ever comes     *)
(* upon its "Improper place ..." error, a NULL m_prev or an assertion,     *)
(* however containers, defaults and replaced members are nested.           *)
CallbacksFit == status # "improper"

(* The containers that are being filled are those at the levels below      *)
(* Depth: a new one counts when it has a place.                            *)
Depth == IF pc \in {"copy", "attach"} THEN context - 1 ELSE context

(* A container that is being filled is alive and hangs in the one below    *)
(* it, so that nothing is parsed into a tree that the result leaves out,   *)
(* whichever members replace one another meanwhile.                        *)
OpenContainersLinked ==
  \A d \in 1 .. Depth - 1 : Held(d) \in Contents(Held(d - 1)) \ {Const}

(* After jdomparser_deinit, whenever it is called, and the release of all  *)
(* results no block of any document is left.                               *)
AllReleased == pc = "none" /\ Quiet /\ results = {} => \A b \in Blocks : kind[b] = "free"

(* jparse_stream.h:320: "Root jvalue for parsed JSON or jinvalid if any    *)
(* error occured".                                                         *)
ErrorGivesInvalid ==
  [][\A h \in Handles : status = "error" /\ GetResult(h) => handle'[h] = Const]_<<vars, domVars>>
=============================================================================
