------------------------------ MODULE CxxParser ------------------------------
(***************************************************************************)
(* The parsers of the C++ binding (JParser.cpp, JDomParser.cpp): one       *)
(* object, a JDomParser ("dom") or a client's subclass of JParser ("sax"), *)
(* its C parser, the schemas, error handlers and documents around it.      *)
(* Texts are fed in pieces; what a piece does to the C parser (yajl and    *)
(* the validators, see Validation and SaxErrors) is an outcome.            *)
(*                                                                         *)
(* A client calls feed and end only while a text is read, and destroys an  *)
(* error handler only when the parse it was given for is over.  Behaviour  *)
(* the language leaves undefined ends the program: it is kept as a fault,  *)
(* with what the object was then.                                          *)
(***************************************************************************)
EXTENDS Integers

CONSTANTS CxxSchemas,   (* schemas of the client, all with references       *)
          CxxHandlers,  (* its error handlers                               *)
          CxxDocs       (* names for the documents alive                    *)

AllSchema == "all"          (* static: it is never released                 *)
NoOne == "no one"
NoDocument == "no document" (* m_dom is null, or there is no result         *)

ASSUME CxxNamesAssumption ==
  /\ NoOne \notin CxxSchemas \cup CxxHandlers /\ AllSchema \notin CxxSchemas
  /\ NoDocument \notin CxxDocs

VARIABLES
  cxx,         (* the object                                               *)
  cxxC,        (* the C parser in its memory                               *)
  cxxSchemas,  (* schemas the client holds                                 *)
  cxxAlive,    (* error handlers the client has not destroyed              *)
  cxxRefs,     (* m_refCnt of each document                                *)
  cxxCopies,   (* documents the client holds, by getDom                    *)
  cxxCall,     (* the last call, its outcome and answer, and what it told  *)
  cxxFault     (* undefined behaviour, and what the object was             *)

cxxVars == <<cxx, cxxC, cxxSchemas, cxxAlive, cxxRefs, cxxCopies, cxxCall, cxxFault>>

(* memory is raw between allocation and init; unresolved and swapped       *)
(* remember a begin that said no and a schema changed under the C parser.  *)
NoObject ==
  [kind |-> "none", old |-> FALSE, memory |-> "none", phase |-> "idle",
   schema |-> AllSchema, handler |-> NoOne, dom |-> NoDocument,
   unresolved |-> FALSE, swapped |-> FALSE]

(* The C parser: whose validators are on its stack, whether containers of  *)
(* its DOM are open and an m_error is set (both dangle once it is not      *)
(* live), whether the text is read to its end and the document it made.    *)
NoCParser ==
  [api |-> "new", live |-> FALSE, using |-> NoOne, open |-> FALSE, error |-> FALSE,
   done |-> FALSE, result |-> NoDocument]

Calls(name, outcome, answer, told) ==
  [name |-> name, outcome |-> outcome, answer |-> answer, told |-> told]
NoCall == Calls("none", "none", TRUE, {})
NoFault == [what |-> "none", object |-> NoObject, api |-> "new"]

Bit01(b) == IF b THEN 1 ELSE 0
Acquired(refs, d) == [e \in CxxDocs |-> refs[e] + Bit01(e = d)]
Dropped(refs, d) == [e \in CxxDocs |-> refs[e] - Bit01(e = d)]

(* A temporary JValue that owns d is assigned to m_dom and destroyed.      *)
Assigned(refs, old, d) == Dropped(Dropped(Acquired(refs, d), old), d)

NewDocs == {d \in CxxDocs : cxxRefs[d] = 0}

(***************************************************************************)
(* jdomparser_deinit, jsaxparser_deinit: of memory that was never          *)
(* initialised, of a parser that is not live (open containers and m_error  *)
(* are freed again), with validators of a schema nobody holds.             *)
(***************************************************************************)
SchemaStands(s, object) == s \in cxxSchemas \cup {AllSchema, object.schema, NoOne}

DeinitFault(object) ==
  IF object.memory = "raw" THEN "raw memory"
  ELSE IF object.memory = "none" THEN "none"
  ELSE IF ~cxxC.live /\ (cxxC.open \/ cxxC.error) THEN "freed twice"
  ELSE IF ~SchemaStands(cxxC.using, object) THEN "validators freed"
  ELSE "none"

(* The object as the deinit of a call finds it.                            *)
(* Faulty: begin takes the new schema first, as reset does.                *)
FoundByBegin(call, s) == IF call = "begin" THEN [cxx EXCEPT !.schema = s] ELSE cxx

FoundBy(call, s) ==
  IF call = "reset with schema" THEN [cxx EXCEPT !.schema = s, !.swapped = TRUE] ELSE cxx

(* What is left in the memory of a C parser.                               *)
Deinit(c) == [c EXCEPT !.live = FALSE, !.using = NoOne, !.done = FALSE, !.result = NoDocument]
Started(api, s) == [NoCParser EXCEPT !.api = api, !.live = TRUE, !.using = s]

(* The object with a new C parser, or with what is left of the last one.   *)
Reads(object, s, h) ==
  [object EXCEPT !.memory = "used", !.phase = "reading", !.schema = s, !.handler = h,
                 !.unresolved = FALSE, !.swapped = FALSE]
SaysNo(object, s, h) ==
  [object EXCEPT !.memory = IF @ = "used" THEN "used" ELSE "raw", !.phase = "over",
                 !.schema = s, !.handler = h, !.unresolved = TRUE, !.swapped = FALSE]

(* The program ends.                                                       *)
Fault(what, object) ==
  /\ cxxFault' = [what |-> what, object |-> object, api |-> cxxC.api]
  /\ cxx' = NoObject
  /\ cxxC' = NoCParser
  /\ cxxSchemas' = {}
  /\ cxxAlive' = {}
  /\ cxxRefs' = [d \in CxxDocs |-> 0]
  /\ cxxCopies' = {}
  /\ cxxCall' = NoCall

(***************************************************************************)
(* Constructors: by default, of a schema, and of a resolver, which makes   *)
(* the references of a schema resolved when a parse begins.                *)
(***************************************************************************)
Schemas == cxxSchemas \cup {AllSchema}
Handlers == cxxAlive \cup {NoOne}

CxxCreate(kind, old, s) ==
  /\ cxx.kind = "none"
  /\ old => s = AllSchema
  /\ cxx' = [NoObject EXCEPT !.kind = kind, !.old = old, !.schema = s]
  /\ cxxCall' = NoCall
  /\ cxxFault' = NoFault
  /\ UNCHANGED <<cxxC, cxxSchemas, cxxAlive, cxxRefs, cxxCopies>>

(* begin: memory is allocated or deinitialised before anything can fail.   *)
CxxBegin(s, h, resolves) ==
  LET resolved == cxx.old /\ s # AllSchema => resolves
  IN /\ cxx.kind # "none"
     /\ DeinitFault(FoundBy("begin", s)) = "none"
     /\ cxx' = IF resolved THEN Reads(cxx, s, h) ELSE SaysNo(cxx, s, h)
     /\ cxxC' = IF resolved THEN Started("old", s) ELSE Deinit(cxxC)
     /\ cxxRefs' = Dropped(cxxRefs, cxxC.result)
     /\ cxxCall' = Calls("begin", "none", resolved, {})
     /\ UNCHANGED <<cxxSchemas, cxxAlive, cxxCopies, cxxFault>>

(* reset: m_errors stays as it was.                                        *)
CxxReset(call, s) ==
  /\ cxx.kind # "none"
  /\ DeinitFault(FoundBy(call, s)) = "none"
  /\ cxx' = Reads(cxx, s, cxx.handler)
  /\ cxxC' = Started("new", s)
  /\ cxxRefs' = Dropped(cxxRefs, cxxC.result)
  /\ cxxCall' = Calls("reset", "none", TRUE, {})
  /\ UNCHANGED <<cxxSchemas, cxxAlive, cxxCopies, cxxFault>>

CxxDestroy ==
  /\ cxx.kind # "none"
  /\ DeinitFault(FoundBy("destroy", cxx.schema)) = "none"
  /\ cxx' = NoObject
  /\ cxxC' = NoCParser
  /\ cxxRefs' = Dropped(Dropped(cxxRefs, cxxC.result), cxx.dom)
  /\ cxxCall' = NoCall
  /\ UNCHANGED <<cxxSchemas, cxxAlive, cxxCopies, cxxFault>>

CxxCrash ==
  \E call \in {"begin", "reset", "reset with schema", "destroy"}, s \in Schemas :
    LET found == FoundBy(call, s)
    IN /\ cxx.kind # "none"
       /\ DeinitFault(found) # "none"
       /\ Fault(DeinitFault(found), found)

(***************************************************************************)
(* Feeding.  A schema refuses, a callback of a client's subclass says no   *)
(* (or a number is not converted), or the syntax is broken; a number is    *)
(* only read when the text ends.                                           *)
(***************************************************************************)
Refusals(kind) == {"refused", "syntax"} \cup IF kind = "sax" THEN {"cancelled"} ELSE {}

CxxOutcomes(call) ==
  IF cxxC.done THEN IF call = "end" THEN {"goes on"} ELSE {"goes on", "syntax"}
  ELSE {"done"} \cup Refusals(cxx.kind) \cup IF call = "end" THEN {} ELSE {"goes on"}

Failed(outcome) == outcome \notin {"goes on", "done"}

(* The validators a failing text leaves on the stack, and containers.      *)
UsingAfter(outcome) ==
  IF outcome = "done" THEN {NoOne}
  ELSE IF outcome \in {"refused", "cancelled"} THEN {cxxC.using, NoOne}
  ELSE {cxxC.using}

OpenAfter(outcome) ==
  IF cxx.kind = "sax" \/ outcome = "done" THEN {FALSE}
  ELSE IF outcome = "goes on" /\ ~cxxC.done THEN BOOLEAN
  ELSE {cxxC.open}

Results(outcome) ==
  IF outcome = "done" /\ cxx.kind = "dom" THEN NewDocs ELSE {cxxC.result}

(* The callbacks of prepareCErrorCallbacks; a schema's refusal is told     *)
(* before yajl's.  The ones of jsaxparser_init tell nobody.                *)
ToldByC(api, outcome) ==
  IF api = "old" /\ Failed(outcome)
  THEN {"misc"} \cup IF outcome = "refused" THEN {"schema"} ELSE {}
  ELSE {}

(* feed(const JInput&) and JParser tell nothing of their own.              *)
ToldBy(call, outcome) ==
  ToldByC(cxxC.api, outcome)
    \cup IF Failed(outcome) /\ cxx.kind = "dom" /\ call \in {"feed", "end"}
         THEN {"parseFailed"} ELSE {}

Hears(told) == IF cxx.handler = NoOne THEN {} ELSE told

(* JParser hands its callbacks itself for a JErrorHandler.                 *)
TellFault(call, outcome) ==
  IF cxx.kind = "sax" /\ ToldByC(cxxC.api, outcome) # {} THEN "not a handler"
  ELSE IF Hears(ToldBy(call, outcome)) # {} /\ cxx.handler \notin cxxAlive
       THEN "handler destroyed"
  ELSE "none"

(* feed, feed(const JInput&), end; JDomParser's end takes the document.    *)
CxxFeed(call) ==
  \E outcome \in CxxOutcomes(call) :
    /\ cxx.phase = "reading"
    /\ TellFault(call, outcome) = "none"
    /\ \E using \in UsingAfter(outcome), open \in OpenAfter(outcome), d \in Results(outcome) :
         LET made == outcome = "done" /\ cxx.kind = "dom"
             taken == call = "end" /\ ~Failed(outcome) /\ cxx.kind = "dom"
             refs == IF made THEN Acquired(cxxRefs, d) ELSE cxxRefs
         IN /\ cxxC' = [cxxC EXCEPT !.using = using, !.open = open, !.result = d,
                                    !.done = @ \/ outcome = "done",
                                    !.error = @ \/ Failed(outcome)]
            /\ cxx' = [cxx EXCEPT !.phase = IF Failed(outcome) \/ call = "end"
                                            THEN "over" ELSE @,
                                  !.dom = IF taken THEN d ELSE @]
            /\ cxxRefs' = IF taken THEN Assigned(Acquired(refs, d), cxx.dom, d) ELSE refs
    /\ cxxCall' = Calls(call, outcome, ~Failed(outcome), Hears(ToldBy(call, outcome)))
    /\ UNCHANGED <<cxxSchemas, cxxAlive, cxxCopies, cxxFault>>

CxxFeedFaults(call) ==
  \E outcome \in CxxOutcomes(call) :
    /\ cxx.phase = "reading"
    /\ TellFault(call, outcome) # "none"
    /\ Fault(TellFault(call, outcome), cxx)

(***************************************************************************)
(* Whole texts.  JDomParser::parse is begin or reset, feed and end; so is  *)
(* JParser's with a string, but on a C parser of the stack, zeroed.        *)
(* A text it does not take is told to what is no handler (TellFault).      *)
(* JParser::parse(const JInput&) leaves the object alone.                  *)
(***************************************************************************)
SaxParse(s, h, resolves) ==
  LET resolved == cxx.old /\ s # AllSchema => resolves
  IN /\ cxx.kind = "sax" /\ cxx.phase # "reading"
     /\ cxx' = [cxx EXCEPT !.schema = s, !.handler = h, !.swapped = TRUE]
     /\ cxxCall' = Calls("parse", "none", resolved, {})
     /\ UNCHANGED <<cxxC, cxxSchemas, cxxAlive, cxxRefs, cxxCopies, cxxFault>>

SaxParseFaults ==
  /\ cxx.kind = "sax" /\ cxx.phase # "reading"
  /\ Fault("not a handler", cxx)

(* parseFile: whatever the answer, the older document goes; a file that    *)
(* holds null is taken for a failure.                                      *)
ParseFile(h, outcome) ==
  LET answer == outcome = "done"
      told == ToldByC("old", IF outcome \in {"unopened", "null"} THEN "goes on" ELSE outcome)
                \cup IF answer THEN {} ELSE {"parseFailed"}
  IN /\ cxx.kind = "dom" /\ cxx.phase # "reading"
     /\ outcome \in {"unopened", "null", "done", "refused", "syntax"}
     /\ \E d \in IF answer THEN NewDocs ELSE {NoDocument} :
          /\ cxx' = [cxx EXCEPT !.handler = h, !.dom = d]
          /\ cxxRefs' = Assigned(Acquired(cxxRefs, d), cxx.dom, d)
     /\ cxxCall' = Calls("parseFile", outcome, answer, IF h = NoOne THEN {} ELSE told)
     /\ UNCHANGED <<cxxC, cxxSchemas, cxxAlive, cxxCopies, cxxFault>>

(***************************************************************************)
(* The client's values: documents, schemas and handlers.                   *)
(***************************************************************************)
GetDom ==
  /\ cxx.dom \notin cxxCopies \cup {NoDocument}
  /\ cxxCopies' = cxxCopies \cup {cxx.dom}
  /\ cxxRefs' = Acquired(cxxRefs, cxx.dom)
  /\ UNCHANGED <<cxx, cxxC, cxxSchemas, cxxAlive, cxxCall, cxxFault>>

DropDom(d) ==
  /\ d \in cxxCopies
  /\ cxxCopies' = cxxCopies \ {d}
  /\ cxxRefs' = Dropped(cxxRefs, d)
  /\ UNCHANGED <<cxx, cxxC, cxxSchemas, cxxAlive, cxxCall, cxxFault>>

HoldSchema(s) ==
  /\ s \notin cxxSchemas \cup {cxx.schema, cxxC.using}
  /\ cxxSchemas' = cxxSchemas \cup {s}
  /\ UNCHANGED <<cxx, cxxC, cxxAlive, cxxRefs, cxxCopies, cxxCall, cxxFault>>

DropSchema(s) ==
  /\ s \in cxxSchemas
  /\ cxxSchemas' = cxxSchemas \ {s}
  /\ UNCHANGED <<cxx, cxxC, cxxAlive, cxxRefs, cxxCopies, cxxCall, cxxFault>>

MakeHandler(h) ==
  /\ h \notin cxxAlive \cup {cxx.handler}
  /\ cxxAlive' = cxxAlive \cup {h}
  /\ UNCHANGED <<cxx, cxxC, cxxSchemas, cxxRefs, cxxCopies, cxxCall, cxxFault>>

DropHandler(h) ==
  /\ h \in cxxAlive
  /\ h = cxx.handler => cxx.phase # "reading" \/ cxxC.api = "new"
  /\ cxxAlive' = cxxAlive \ {h}
  /\ UNCHANGED <<cxx, cxxC, cxxSchemas, cxxRefs, cxxCopies, cxxCall, cxxFault>>

InitCxx ==
  /\ cxx = NoObject
  /\ cxxC = NoCParser
  /\ cxxSchemas = {}
  /\ cxxAlive = {}
  /\ cxxRefs = [d \in CxxDocs |-> 0]
  /\ cxxCopies = {}
  /\ cxxCall = NoCall
  /\ cxxFault = NoFault

CxxNext ==
  \/ \E kind \in {"sax", "dom"}, old \in BOOLEAN, s \in Schemas : CxxCreate(kind, old, s)
  \/ \E s \in Schemas, h \in Handlers, resolves \in BOOLEAN :
       CxxBegin(s, h, resolves) \/ SaxParse(s, h, resolves)
  \/ CxxReset("reset", cxx.schema)
  \/ \E s \in Schemas : CxxReset("reset with schema", s)
  \/ CxxDestroy
  \/ CxxCrash
  \/ \E call \in {"feed", "feed input", "end"} : CxxFeed(call) \/ CxxFeedFaults(call)
  \/ SaxParseFaults
  \/ \E h \in Handlers, outcome \in {"unopened", "null", "done", "refused", "syntax"} :
       ParseFile(h, outcome)
  \/ GetDom
  \/ \E d \in CxxDocs : DropDom(d)
  \/ \E s \in CxxSchemas : HoldSchema(s) \/ DropSchema(s)
  \/ \E h \in CxxHandlers : MakeHandler(h) \/ DropHandler(h)

CxxSpec == InitCxx /\ [][CxxNext]_cxxVars

(* Types, memory and phase: a C parser that reads is live and in memory    *)
(* that was initialised; only a begin that said no leaves it otherwise.    *)
(* Without a document there is no result, and none is made twice.          *)
CxxObjects ==
  [kind : {"none", "sax", "dom"}, old : BOOLEAN, memory : {"none", "raw", "used"},
   phase : {"idle", "reading", "over"}, schema : CxxSchemas \cup {AllSchema},
   handler : CxxHandlers \cup {NoOne}, dom : CxxDocs \cup {NoDocument},
   unresolved : BOOLEAN, swapped : BOOLEAN]
CxxCParsers ==
  [api : {"new", "old"}, live : BOOLEAN, using : CxxSchemas \cup {AllSchema, NoOne},
   open : BOOLEAN, error : BOOLEAN, done : BOOLEAN, result : CxxDocs \cup {NoDocument}]

CxxTypeOK ==
  /\ cxx \in CxxObjects
  /\ cxxC \in CxxCParsers
  /\ cxxSchemas \subseteq CxxSchemas
  /\ cxxAlive \subseteq CxxHandlers
  /\ cxxRefs \in [CxxDocs -> Int]
  /\ cxxCopies \subseteq CxxDocs

CParserFits(object, c, alive) ==
  /\ object.kind = "none" => object = NoObject
  /\ object.memory # "used" => c = NoCParser
  /\ object.memory = "raw" \/ (object.memory = "used" /\ ~c.live) => object.unresolved
  /\ object.phase = "reading" => c.live
  /\ c.using # NoOne /\ ~object.swapped => c.using = object.schema
  /\ object.phase = "reading" /\ c.api = "old" => object.handler \in alive \cup {NoOne}
  /\ c.result # NoDocument <=> c.done /\ object.kind = "dom"
  /\ object.kind # "dom" => object.dom = NoDocument

CParserOfObject == CParserFits(cxx, cxxC, cxxAlive)

(* The documents: one reference each for the C parser, m_dom and a client  *)
(* that asked; after a parse that went well m_dom is what it made.         *)
DocumentsHeld ==
  /\ \A d \in CxxDocs :
       cxxRefs[d] = Bit01(d = cxx.dom) + Bit01(d = cxxC.result) + Bit01(d \in cxxCopies)
  /\ cxxCall.name = "end" /\ cxxCall.answer /\ cxx.kind = "dom"
       => cxx.dom = cxxC.result /\ cxx.dom # NoDocument

(* Memory, validators and handlers are those of living things, except that *)
(* a begin whose references do not resolve leaves the C parser             *)
(* deinitialised, reset(schema) and JParser::parse release the schema the  *)
(* C parser still uses, the handler of the last begin is still called      *)
(* after a reset, and JParser's callbacks mistake it for a handler.        *)
FaultsNamed ==
  LET f == cxxFault
  IN /\ f.what \in {"raw memory", "freed twice"} => f.object.unresolved
     /\ f.what = "validators freed" => f.object.swapped
     /\ f.what = "handler destroyed" => f.api = "new"
     /\ f.what = "not a handler" => f.object.kind = "sax"

(* Only a call that says no tells; the handler hears of every failure of a *)
(* parse that was begun, and of the schema's refusals as such.  After a    *)
(* reset it hears only that the parse has failed.                          *)
FailuresTold ==
  /\ cxxCall.told # {} => ~cxxCall.answer /\ cxx.handler # NoOne
  /\ cxxCall.name \in {"feed", "feed input", "end"} /\ cxx.handler # NoOne /\ ~cxxCall.answer
       => /\ cxxCall.name # "feed input" /\ cxx.kind = "dom" => "parseFailed" \in cxxCall.told
          /\ cxxC.api = "old"
               => /\ "misc" \in cxxCall.told
                  /\ "schema" \in cxxCall.told <=> cxxCall.outcome = "refused"
          /\ cxxC.api = "new" => cxxCall.told \subseteq {"parseFailed"}

(* What a client of the binding relies on, over any sequence of calls.     *)
CxxParserStands == DocumentsHeld /\ FaultsNamed /\ FailuresTold

CxxIInv == CxxTypeOK /\ CParserOfObject /\ CxxParserStands
=============================================================================
