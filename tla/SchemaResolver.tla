--------------------------- MODULE SchemaResolver ----------------------------
(***************************************************************************)
(* How a schema finds the schemas it refers to: the table of documents and *)
(* their fragments (uri_resolver.c), the stack of base URIs while a parsed *)
(* schema is searched for references and definitions (uri_scope.c and the  *)
(* collect_uri pass of validator.c), the loop that asks the client for     *)
(* documents (jschema.c), and references looking up their target when they *)
(* are first used (reference.c).                                           *)
(*                                                                         *)
(* A URI is a document and a fragment; the document of a reference within  *)
(* its document is Here.  Names are taken as equal when they are after     *)
(* normalisation.  A schema text is what the pass meets, in its order:     *)
(*   id     the root's "id", or NoId                                       *)
(*   defs   the fragments under the root's "definitions"                   *)
(*   visit  the nodes below the root: "enter" and "exit" of one with an id *)
(*          of its own, "ref" of a reference, with its URI; around are the *)
(*          ids of the nodes that this happens in, the outermost first     *)
(* A reference that cannot be parsed as a URI is left out.                 *)
(***************************************************************************)
EXTENDS Integers, FiniteSets, Sequences, SequencesExt

CONSTANTS
  Files,    (* the documents a client can supply                           *)
  Worlds,   (* texts for all of them: a set of functions from Files        *)
  First     (* the document the client loads itself                        *)

Here == ""             (* no document in a URI                             *)
RootFragment == "#"    (* ROOT_FRAGMENT                                    *)
Relative == "relative:"  (* URI_SCHEME_RELATIVE                            *)
NoId == [doc |-> Here, frag |-> "none"]
NotFound == [file |-> "none", frag |-> "none"]

ASSUME FirstAssumption == First \in Files /\ Here \notin Files /\ Relative \notin Files

Uri(doc, frag) == [doc |-> doc, frag |-> frag, absolute |-> FALSE]

(* A text does not use the scheme that the library keeps for itself.       *)
IsUri(u) == u = Uri(u.doc, u.frag) /\ u.doc # Relative

(* What the node that follows in a visit is in.                            *)
AroundNext(node) ==
  CASE node.do = "enter" -> Append(node.around, node.uri)
    [] node.do = "exit"  -> SubSeq(node.around, 1, Len(node.around) - 1)
    [] node.do = "ref"   -> node.around

IsNode(node) ==
  /\ node.do \in {"enter", "exit", "ref"}
  /\ IsUri(node.uri)
  /\ node.around \in Seq({node.around[i] : i \in DOMAIN node.around})
  /\ \A i \in DOMAIN node.around : IsUri(node.around[i])
  /\ node.do = "exit" => node.around # <<>>

(* A visit is that of a tree: what is entered last is left first.          *)
IsVisit(visit) ==
  /\ visit \in Seq({visit[n] : n \in DOMAIN visit})
  /\ \A n \in DOMAIN visit :
       /\ IsNode(visit[n])
       /\ visit[n].around = IF n = 1 THEN <<>> ELSE AroundNext(visit[n - 1])

ASSUME WorldsAssumption ==
  \A w \in Worlds : \A f \in Files :
    (w[f].id = NoId \/ IsUri(w[f].id)) /\ IsVisit(w[f].visit)

VARIABLES
  world,      (* the texts of the documents                                *)
  table,      (* u->documents of the client's schema: for each document    *)
              (* the key it is stored under and its fragments              *)
  refs,       (* the references in all validators of the schema            *)
  link,       (* r->validator of those that have been followed             *)
  at,         (* where jschema_resolve_internal is                         *)
  asked,      (* document_to_resolve                                       *)
  previous,   (* the key of prev_document_to_resolve                       *)
  source,     (* the schema the client's callback returned                 *)
  inRecursion,  (* m_inRecursion of the client's resolver                  *)
  own,        (* the kind of root scope the client's schema was parsed with *)
  scopes,     (* the documents supplied, each with the kind of its scope   *)
  missing     (* the client could not supply a document                    *)

resolverVars == <<world, table, refs, link, at, asked, previous, source,
                  inRecursion, own, scopes, missing>>

-----------------------------------------------------------------------------
(* URIs and scopes *)

(* The URI a schema is parsed under.                                       *)
RootScope(f, kind) ==
  CASE kind = "relative" -> [doc |-> Relative, frag |-> RootFragment, absolute |-> TRUE]
    [] kind = "uri"      -> [doc |-> f, frag |-> RootFragment, absolute |-> TRUE]
    [] kind = "path"     -> [doc |-> f, frag |-> RootFragment, absolute |-> FALSE]

(* uriAddBaseUri, which fails when the base has no scheme.                 *)
AddBase(u, base) ==
  IF ~base.absolute THEN u
  ELSE IF u.doc = Here THEN [base EXCEPT !.frag = u.frag]
  ELSE [u EXCEPT !.absolute = TRUE]

(* The base of what comes next, in a stack that grows to the right.        *)
Scope(stack) == stack[Len(stack)]

(* uri_scope_push_uri; what has no base is its own.                        *)
PushUri(stack, u) == Append(stack, IF stack = <<>> THEN u ELSE AddBase(u, Scope(stack)))

(* Faulty: the scope is not left.                                          *)
PopUriNever(stack) == stack

PopUri(stack) == IF stack = <<>> THEN stack ELSE SubSeq(stack, 1, Len(stack) - 1)

-----------------------------------------------------------------------------
(* The table of documents *)

NoFragments == <<>>

(* f, and g where f has nothing: @@ in a form that the proofs can expand.  *)
Over(f, g) == [x \in DOMAIN f \cup DOMAIN g |-> IF x \in DOMAIN f THEN f[x] ELSE g[x]]

(* uri_resolver_add_document: the key is that of the first time.  A key is *)
(* a string of its own for each schema.                                    *)
AddDocuments(t, docs, f) ==
  [doc \in DOMAIN t \cup docs |->
     IF doc \in DOMAIN t THEN t[doc] ELSE [key |-> <<f, doc>>, frags |-> NoFragments]]


(* uri_resolver_add_validator: the first validator of a fragment stays.    *)
AddValidators(t, doc, frags, f) ==
  [d \in DOMAIN t \cup {doc} |->
     IF d # doc THEN t[d]
     ELSE IF doc \in DOMAIN t THEN [key |-> t[doc].key, frags |-> Over(t[doc].frags, frags)]
     ELSE [key |-> <<f, doc>>, frags |-> frags]]


LookupValidator(t, doc, frag) ==
  IF doc \in DOMAIN t /\ frag \in DOMAIN t[doc].frags THEN t[doc].frags[frag] ELSE NotFound

IsEmpty(t, doc) == DOMAIN t[doc].frags = {}

Unresolved(t) == {doc \in DOMAIN t : IsEmpty(t, doc)}

-----------------------------------------------------------------------------
(* validator_collect_uri *)

(* collect_schemas of the root and of its definitions.                     *)
CollectSchemas(f, text, base) ==
  LET root == AddValidators(NoFragments, base.doc,
                            [x \in {base.frag} |-> [file |-> f, frag |-> RootFragment]], f)
      home == AddBase(Uri(Here, RootFragment), base).doc
  IN IF text.defs = {} THEN root
     ELSE AddValidators(root, home, [d \in text.defs |-> [file |-> f, frag |-> d]], f)

EnterId(stack, id) == IF id = NoId THEN stack ELSE PushUri(stack, id)

ExitId(stack, id) == IF id = NoId THEN stack ELSE PopUri(stack)

(* The stack of bases that the root of a text leaves.                      *)
RootBases(f, text, kind) == EnterId(PushUri(<<>>, RootScope(f, kind)), text.id)

(* The visit of a node, and the stacks after each node of a visit.         *)
After(stack, node) ==
  CASE node.do = "enter" -> EnterId(stack, node.uri)
    [] node.do = "exit"  -> ExitId(stack, node.uri)
    [] node.do = "ref"   -> stack

Bases(stack, visit) ==
  LET after[n \in 0..Len(visit)] == IF n = 0 THEN stack ELSE After(after[n - 1], visit[n])
  IN after

(* _collect_uri_enter of a reference pushes its target, to see where it    *)
(* leads from here, and pops it.                                           *)
Collect(f, text, kind) ==
  LET stack == RootBases(f, text, kind)
      bases == Bases(stack, text.visit)
      target(n) == Scope(PushUri(bases[n - 1], text.visit[n].uri))
      referring == {n \in DOMAIN text.visit : text.visit[n].do = "ref"}
  IN [table |-> AddDocuments(CollectSchemas(f, text, Scope(stack)),
                             {target(n).doc : n \in referring}, f),
      refs |-> {[file |-> f, node |-> n, doc |-> target(n).doc, frag |-> target(n).frag] :
                  n \in referring}]

(* The kinds of root scope a client uses: jschema_parse and jschema_create *)
(* give a relative one, jschema_parse_file the path, jschema_parse_file_   *)
(* resolve the file's URI.                                                 *)
Kinds == {"relative", "uri", "path"}

(* jschema_parse_internal, before it resolves anything.                    *)
Parsed(f, kind) == Collect(f, world[f], kind)

-----------------------------------------------------------------------------
(* jschema_resolve *)

NoDocument == "no document"
NoKey == <<>>
NoSource == [table |-> NoFragments, refs |-> {}, file |-> First]

ResolverIdle ==
  /\ link = <<>>
  /\ at = "start"
  /\ asked = NoDocument
  /\ previous = NoKey
  /\ source = NoSource
  /\ inRecursion = 0
  /\ scopes = {}
  /\ missing = FALSE

InitResolver ==
  /\ world \in Worlds
  /\ \E kind \in Kinds :
       LET c == Parsed(First, kind) IN
       /\ table = c.table
       /\ refs = c.refs
       /\ own = kind
  /\ ResolverIdle

StartResolving ==
  /\ at = "start"
  /\ at' = IF inRecursion = 0 THEN "loop" ELSE "resolved"
  /\ inRecursion' = IF inRecursion = 0 THEN 1 ELSE inRecursion
  /\ UNCHANGED <<world, table, refs, link, asked, previous, source, own, scopes, missing>>

(* uri_resolver_get_unresolved: any document without fragments, in the     *)
(* order of the hash table.  The same key twice in a row ends the loop.    *)
NextDocument(doc) ==
  /\ at = "loop"
  /\ doc \in Unresolved(table)
  /\ at' = IF table[doc].key = previous THEN "failed" ELSE "ask"
  /\ asked' = doc
  /\ previous' = table[doc].key
  /\ UNCHANGED <<world, table, refs, link, source, inRecursion, own, scopes, missing>>

AllResolved ==
  /\ at = "loop"
  /\ Unresolved(table) = {}
  /\ at' = "resolved"
  /\ UNCHANGED <<world, table, refs, link, asked, previous, source, inRecursion, own, scopes, missing>>

(* m_resolve: the client finds the document and parses it.  If it gives    *)
(* the parser the same resolver, jschema_resolve_internal sees that it is  *)
(* within a recursion and leaves the references of the new schema alone.   *)
ClientSupplies(kind) ==
  /\ at = "ask"
  /\ asked \in Files
  /\ \E c \in {Parsed(asked, kind)} :
        source' = [table |-> c.table, refs |-> c.refs, file |-> asked]
  /\ scopes' = scopes \cup {<<asked, kind>>}
  /\ at' = "steal"
  /\ UNCHANGED <<world, table, refs, link, asked, previous, inRecursion, own, missing>>

ClientFails ==
  /\ at = "ask"
  /\ at' = "failed"
  /\ missing' = TRUE
  /\ UNCHANGED <<world, table, refs, link, asked, previous, source, inRecursion, own, scopes>>

(* uri_resolver_steal_documents.  A document that has fragments on both    *)
(* sides ends it: what follows in the order of the hash table stays behind *)
(* and goes with the source.                                               *)
Stealable(t, s) == {doc \in DOMAIN s \ {Here} : doc \notin DOMAIN t \/ IsEmpty(t, doc)}

Conflicts(t, s) ==
  {doc \in DOMAIN s \ {Here} : doc \in DOMAIN t /\ ~IsEmpty(t, doc) /\ ~IsEmpty(s, doc)}

Stolen(t, s) ==
  IF Conflicts(t, s) = {} THEN {Stealable(t, s)} ELSE SUBSET Stealable(t, s)

StealDocuments ==
  /\ at = "steal"
  /\ \E docs \in Stolen(table, source.table) :
       table' = Over([doc \in docs |-> source.table[doc]], table)
  /\ refs' = refs \cup source.refs
  /\ at' = "name"
  /\ UNCHANGED <<world, link, asked, previous, source, inRecursion, own, scopes, missing>>

(* Faulty: the document is known under the names of its own text only.     *)
NameDocumentNot ==
  /\ at = "name"
  /\ source' = NoSource
  /\ at' = "loop"
  /\ UNCHANGED <<world, table, refs, link, asked, previous, inRecursion, own, scopes, missing>>

(* The rest of resolve_document: the root under the name it was asked for. *)
NameDocument ==
  /\ at = "name"
  /\ table' = AddValidators(table, asked,
                            [x \in {RootFragment} |-> [file |-> source.file, frag |-> RootFragment]],
                            First)
  /\ source' = NoSource
  /\ at' = "loop"
  /\ UNCHANGED <<world, refs, link, asked, previous, inRecursion, own, scopes, missing>>

(* _resolve_reference, when a validation meets it: found once, a target    *)
(* is kept.                                                                *)
FollowReference(r) ==
  /\ at \in {"start", "resolved"}
  /\ r \in refs
  /\ r \notin DOMAIN link
  /\ LookupValidator(table, r.doc, r.frag) # NotFound
  /\ link' = Over(link, [x \in {r} |-> LookupValidator(table, r.doc, r.frag)])
  /\ UNCHANGED <<world, table, refs, at, asked, previous, source, inRecursion, own, scopes, missing>>

Resolving ==
  \/ StartResolving
  \/ \E doc \in DOMAIN table : NextDocument(doc)
  \/ AllResolved
  \/ \E kind \in Kinds : ClientSupplies(kind)
  \/ ClientFails
  \/ StealDocuments
  \/ NameDocument

ResolverNext == Resolving \/ \E r \in refs : FollowReference(r)

ResolverSpec == InitResolver /\ [][ResolverNext]_resolverVars /\ WF_resolverVars(Resolving)

-----------------------------------------------------------------------------
(* jschema_resolve ends, whatever schemas the client supplies under        *)
(* whatever names: every round gives the document it asked for a fragment. *)
ResolveEnds == at = "loop" ~> at \in {"resolved", "failed"}

(* It says false only if the client could not supply a document: the test  *)
(* for "the same broken schema" refuses none that the client did supply.   *)
(* When it says true every document has been supplied.                     *)
ResolveAnswers ==
  /\ at = "failed" => missing
  /\ at = "resolved" => Unresolved(table) = {}

(* What references mean.  The base of a node is the nearest id around it   *)
(* that names a document, or the document itself.                          *)
Naming(node) == {i \in DOMAIN node.around : node.around[i].doc # Here}

MeantDocument(f, node) ==
  IF node.uri.doc # Here THEN node.uri.doc
  ELSE IF Naming(node) # {} THEN node.around[Max(Naming(node))].doc
  ELSE f

Has(f, frag) == frag = RootFragment \/ frag \in world[f].defs

Meant(r) ==
  LET node == world[r.file].visit[r.node]
      f == MeantDocument(r.file, node)
      frag == node.uri.frag
  IN IF Has(f, frag) THEN [file |-> f, frag |-> frag] ELSE NotFound

(* Every schema is the document that it is asked for by, by the scope it   *)
(* was parsed with or by an id of its own; the client's own schema may     *)
(* also be the one without a name.                                         *)
Base(f, kind) == Scope(RootBases(f, world[f], kind))

Disciplined ==
  /\ Base(First, own) \in {RootScope(First, "uri"), RootScope(First, "relative")}
  /\ \A s \in scopes : Base(s[1], s[2]) = RootScope(s[1], "uri")

(* After a jschema_resolve that said true every reference, in whichever    *)
(* schema and under whichever nested id, finds exactly the part of the     *)
(* document it means, and nothing when there is no such part; and no       *)
(* reference followed before or since leads anywhere else.  Of schemas     *)
(* that are parsed under a relative scope, a path or another's name,       *)
(* documents are mixed up (Conflicts) or left behind (Here).               *)
ReferencesFind ==
  Disciplined =>
    /\ at = "resolved" =>
         \A r \in refs : LookupValidator(table, r.doc, r.frag) = Meant(r)
    /\ \A r \in DOMAIN link : link[r] = Meant(r)

-----------------------------------------------------------------------------
(* Why they hold: the inductive invariant                                  *)

(* A key tells the document; the one asked for is empty until it is named, *)
(* and never again, so no key can come twice.                              *)
HasKey(t, doc) == t[doc] = [key |-> <<t[doc].key[1], doc>>, frags |-> t[doc].frags]

LoopInv ==
  /\ at \in {"start", "loop", "ask", "steal", "name", "resolved", "failed"}
  /\ world \in Worlds
  /\ \A doc \in DOMAIN table : HasKey(table, doc)
  /\ \A doc \in DOMAIN source.table : HasKey(source.table, doc)
  /\ previous = NoKey \/ previous = <<previous[1], asked>>
  /\ at = "start" => inRecursion = 0 /\ previous = NoKey
  /\ at \in {"ask", "steal"} => asked \in DOMAIN table /\ IsEmpty(table, asked)
  /\ at \in {"steal", "name"} => asked \in Files
  /\ at = "loop" /\ previous # NoKey => asked \in DOMAIN table /\ ~IsEmpty(table, asked)
  /\ at = "failed" => missing
  /\ at = "resolved" => Unresolved(table) = {}

(* The text that a document in the table is of.                            *)
TextOf(doc) == IF doc = Relative THEN First ELSE doc

Whole(t, doc) ==
  /\ TextOf(doc) \in Files
  /\ t[doc].frags = [frag \in {RootFragment} \cup world[TextOf(doc)].defs |->
                       [file |-> TextOf(doc), frag |-> frag]]

LeadsTo(r, t) ==
  /\ r.file \in Files
  /\ r.node \in DOMAIN world[r.file].visit
  /\ r.frag = world[r.file].visit[r.node].uri.frag
  /\ r.doc \in DOMAIN t
  /\ TextOf(r.doc) = MeantDocument(r.file, world[r.file].visit[r.node])

(* With discipline a document is there in full or not at all, and what the *)
(* client supplies holds nothing of any other.                             *)
WholeInv ==
  /\ \A doc \in DOMAIN table : IsEmpty(table, doc) \/ Whole(table, doc)
  /\ \A r \in refs : LeadsTo(r, table)
  /\ \A r \in DOMAIN link : link[r] = Meant(r)
  /\ at = "steal" =>
       /\ source.file = asked
       /\ asked \in DOMAIN source.table /\ Whole(source.table, asked)
       /\ \A doc \in DOMAIN source.table : doc # Here /\ (doc = asked \/ IsEmpty(source.table, doc))
       /\ \A r \in source.refs : LeadsTo(r, source.table)
  /\ at = "name" => source.file = asked /\ asked \in DOMAIN table /\ Whole(table, asked)

IInv == LoopInv /\ (Disciplined => WholeInv)

=============================================================================
