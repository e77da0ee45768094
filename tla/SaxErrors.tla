------------------------------ MODULE SaxErrors ------------------------------
(***************************************************************************)
(* How a SAX parser reports what goes wrong (jparse_stream.c, jerror.c):   *)
(* parsers of both interfaces, fed in pieces by a client of their own      *)
(* (jsaxparser_new, jsaxparser_create) or whole (jsax_parse_with_callbacks,*)
(* jsax_parse_ex).  A piece of text passes, is refused by the schema or by *)
(* a callback of the client, or breaks the syntax; what the pieces hold is *)
(* of no matter here, and which refusals of a schema are told is in        *)
(* Validation.  Error handlers of clients have their m_unknown set: the    *)
(* code calls it without looking.                                          *)
(***************************************************************************)
EXTENDS Integers

VARIABLES
  sax,         (* the parser: its interface, the client's error handler,   *)
               (* yajl's state, m_error, and the texts in schemaError      *)
               (* and yajlError: 1, or 0 for NULL                          *)
  saxCalls,    (* who feeds it: "pieces" or "whole", "nobody" without one  *)
  saxAnswer,   (* what the last feed or end has returned                   *)
  saxEnded,    (* jsaxparser_end has been called                           *)
  saxReason,   (* what went wrong first                                    *)
  saxGiven,    (* *err of the client                                       *)
  saxTexts     (* texts and errors allocated, of each kind                 *)

saxVars == <<sax, saxCalls, saxAnswer, saxEnded, saxReason, saxGiven, saxTexts>>

NoError == "none"
Bit(b) == IF b THEN 1 ELSE 0

(***************************************************************************)
(* Errors.  A change of the parser carries the texts along.                *)
(***************************************************************************)
With(s, texts) == [parser |-> s, texts |-> texts]

(* Faulty: the last error is reported, over the first.                     *)
SetErrorAgain(w, type) ==
  With([w.parser EXCEPT !.error = type], [w.texts EXCEPT !.error = @ + 1])

(* jerror_set, jerror_set_formatted: the first error stays.                *)
SetError(w, type) ==
  IF w.parser.error # NoError THEN w
  ELSE With([w.parser EXCEPT !.error = type], [w.texts EXCEPT !.error = @ + 1])

JerrSchema(w) == SetError(w, "schema")

(* The older text goes; the client is told as well, its answer ignored.    *)
ErrSchema(w) ==
  With([w.parser EXCEPT !.schemaError = 1],
       [w.texts EXCEPT !.schema = @ - w.parser.schemaError + 1])

ValidationError(w) ==
  IF w.parser.api = "new" THEN JerrSchema(w) ELSE ErrSchema(w)

(***************************************************************************)
(* yajl, external: whatever fails, it fails for good.                      *)
(***************************************************************************)
YajlStatus(s, outcome) ==
  IF s.yajl = "broken" \/ outcome = "syntax" THEN "error"
  ELSE IF outcome = "passes" THEN "ok" ELSE "client_canceled"

Outcomes(s) ==
  IF s.yajl = "broken" THEN {"syntax"} ELSE {"passes", "schema", "callback", "syntax"}

Parsed(w, outcome) ==
  LET told == IF outcome = "schema" THEN ValidationError(w) ELSE w
  IN With([told.parser EXCEPT
             !.yajl = IF YajlStatus(w.parser, outcome) = "ok" THEN @ ELSE "broken"],
          told.texts)

(* handle_yajl_error: the text of the error is made and freed again.       *)
Handled(s, status) ==
  status = "ok" \/ (s.api = "old" /\ s.unknown = "continues")

(* jsaxparser_process_error                                                *)
ProcessError(w) ==
  SetError(With([w.parser EXCEPT !.yajlError = 1],
                [w.texts EXCEPT !.yajl = @ - w.parser.yajlError + 1]),
           "syntax")

(***************************************************************************)
(* The parser                                                              *)
(***************************************************************************)
NoParser ==
  [api |-> "new", unknown |-> "absent", yajl |-> "reading",
   schemaError |-> 0, yajlError |-> 0, error |-> NoError]

SaxCreate(calls, api, unknown) ==
  /\ saxCalls = "nobody"
  /\ api = "new" => unknown = "absent"
  /\ sax' = [NoParser EXCEPT !.api = api, !.unknown = unknown]
  /\ saxCalls' = calls
  /\ saxAnswer' = TRUE
  /\ saxEnded' = FALSE
  /\ saxReason' = NoError
  /\ UNCHANGED <<saxGiven, saxTexts>>

Take(outcome) ==
  LET status == YajlStatus(sax, outcome)
      fed == Parsed(With(sax, saxTexts), outcome)
      answer == Handled(sax, status)
      after == IF answer THEN fed ELSE ProcessError(fed)
  IN /\ outcome \in Outcomes(sax)
     /\ sax' = after.parser
     /\ saxTexts' = after.texts
     /\ saxAnswer' = answer
     /\ saxReason' = IF outcome = "passes" \/ saxReason # NoError THEN saxReason ELSE outcome
     /\ UNCHANGED saxGiven

(* A client of its own may go on after an error.                           *)
SaxFeed ==
  /\ saxCalls = "pieces"
  /\ ~saxEnded
  /\ \E outcome \in Outcomes(sax) : Take(outcome)
  /\ UNCHANGED <<saxCalls, saxEnded>>

SaxEnd ==
  /\ saxCalls = "pieces"
  /\ ~saxEnded
  /\ \E outcome \in Outcomes(sax) : Take(outcome)
  /\ saxEnded' = TRUE
  /\ UNCHANGED saxCalls

(* jsax_parse_internal: one feed, and the end if it went well.             *)
FeedWhole ==
  /\ saxCalls = "whole"
  /\ \E outcome \in Outcomes(sax) : Take(outcome)
  /\ saxCalls' = "whole, fed"
  /\ UNCHANGED saxEnded

EndWhole ==
  /\ saxCalls = "whole, fed"
  /\ saxAnswer /\ ~saxEnded
  /\ \E outcome \in Outcomes(sax) : Take(outcome)
  /\ saxEnded' = TRUE
  /\ UNCHANGED saxCalls

(* jsaxparser_deinit; the parser is released or its frame is left.         *)
SaxDeinit(s, texts) ==
  /\ saxTexts' = [yajl |-> texts.yajl - s.yajlError,
                  schema |-> texts.schema - s.schemaError,
                  error |-> texts.error - Bit(s.error # NoError)]
  /\ sax' = NoParser
  /\ saxCalls' = "nobody"
  /\ saxAnswer' = TRUE
  /\ saxEnded' = FALSE
  /\ saxReason' = NoError

SaxRelease ==
  /\ saxCalls = "pieces"
  /\ SaxDeinit(sax, saxTexts)
  /\ UNCHANGED saxGiven

(* The error of a failed parse becomes the client's, if it asked for one   *)
(* and has none yet.  The older interface keeps its errors to itself.      *)
LeaveWhole ==
  /\ saxCalls = "whole, fed"
  /\ saxEnded \/ ~saxAnswer
  /\ \E asks \in BOOLEAN :
       LET gives == asks /\ sax.api = "new" /\ ~saxAnswer /\ saxGiven = NoError
       IN /\ saxGiven' = IF gives THEN sax.error ELSE saxGiven
          /\ SaxDeinit([sax EXCEPT !.error = IF gives THEN NoError ELSE @], saxTexts)

(* jerror_free                                                             *)
FreeError ==
  /\ saxGiven # NoError
  /\ saxGiven' = NoError
  /\ saxTexts' = [saxTexts EXCEPT !.error = @ - 1]
  /\ UNCHANGED <<sax, saxCalls, saxAnswer, saxEnded, saxReason>>

(* jsaxparser_get_error: which text a client reads, NoError for NULL.      *)
GetError ==
  IF sax.schemaError = 1 THEN "schemaError"
  ELSE IF sax.yajlError = 1 THEN "yajlError"
  ELSE sax.error

InitSax ==
  /\ sax = NoParser
  /\ saxCalls = "nobody"
  /\ saxAnswer = TRUE
  /\ saxEnded = FALSE
  /\ saxReason = NoError
  /\ saxGiven = NoError
  /\ saxTexts = [yajl |-> 0, schema |-> 0, error |-> 0]

SaxNext ==
  \/ \E calls \in {"pieces", "whole"}, api \in {"new", "old"},
        unknown \in {"absent", "stops", "continues"} : SaxCreate(calls, api, unknown)
  \/ SaxFeed \/ SaxEnd \/ SaxRelease
  \/ FeedWhole \/ EndWhole \/ LeaveWhole
  \/ FreeError
SaxSpec == InitSax /\ [][SaxNext]_saxVars

(* A call that says no leaves a text for jsaxparser_get_error, and the     *)
(* error that is kept is the first one and of its kind: what the schema    *)
(* refused is not reported as bad syntax (the older interface has only one *)
(* kind).  A parse that said yes at its end has met no error, unless the   *)
(* client's handler wished to continue.  No text is left behind or freed   *)
(* twice, and the error given to the client stays its own.                 *)
ErrorsTold ==
  /\ ~saxAnswer =>
       /\ GetError # NoError
       /\ sax.error = IF saxReason = "schema" /\ sax.api = "new" THEN "schema" ELSE "syntax"
  /\ saxEnded /\ saxAnswer /\ sax.unknown # "continues" => saxReason = NoError
  /\ saxTexts = [yajl |-> sax.yajlError, schema |-> sax.schemaError,
                 error |-> Bit(sax.error # NoError) + Bit(saxGiven # NoError)]
=============================================================================
