-------------------------------- MODULE JQuery --------------------------------
(***************************************************************************)
(* Queries over a document (selectors/): the actions of the grammar that   *)
(* build a chain of queries, the generators that walk the document         *)
(* (jquery_generators.c), the selectors that filter its values             *)
(* (jquery_selectors.c, expression.c), and jquery_init and jquery_next     *)
(* (jquery.c).                                                             *)
(*                                                                         *)
(* A query and its parents are a sequence, the root query first, the one   *)
(* the client holds last; a jquery_pair is that sequence.  Selectors keep  *)
(* queries of their own in ctxt, with generators that survive from one     *)
(* value to the next.  A search result is a value with its index, its key  *)
(* and up, the results of its ancestors: in the code up is a pointer into  *)
(* the generator above, which is why the results of a generator get it     *)
(* from the generators around them at the moment they are asked.           *)
(***************************************************************************)
EXTENDS Integers, Sequences

CONSTANTS
  Nodes,      (* the values of all documents: a positive number has its    *)
              (* type, its value, and kids, a sequence of [key, node]      *)
  Documents,  (* the roots                                                 *)
  Questions,  (* the queries asked, as syntax                              *)
  Restarts    (* bound: documents a query is started on again              *)

VARIABLES asked,      (* the query as it is written                        *)
          query,      (* the chain built for it, <<>> if it is refused     *)
          target,     (* the document of the last jquery_init              *)
          yields,     (* what jquery_next has returned since               *)
          depleted,   (* it has returned nothing                           *)
          restarts, early   (* restarted, and while values were left       *)

queryVars == <<asked, query, target, yields, depleted, restarts, early>>

NoValue == 0
NoKey == ""

Type(n) == IF n = NoValue THEN "null" ELSE Nodes[n].type
Kids(n) == IF n = NoValue THEN <<>> ELSE Nodes[n].kids
IsArray(n) == Type(n) = "array"
IsObject(n) == Type(n) = "object"

(* Scalars count by their value, booleans as 0 and 1, strings in the order *)
(* of strcmp; containers are equal to themselves only.                     *)
Scalar(type, value) == [type |-> type, value |-> value]
Valued(n) == Scalar(Type(n), IF n = NoValue THEN 0 ELSE Nodes[n].value)
InvalidValue == [type |-> "null", value |-> -1]

Equal(a, b) == a.type = b.type /\ (a.type = "null" \/ a.value = b.value)

(***************************************************************************)
(* Generators                                                              *)
(***************************************************************************)
Result(value, index, key) == [value |-> value, index |-> index, key |-> key]
Nothing == Result(NoValue, 0, NoKey)

Generator(json, type) ==
  [json |-> json, up |-> <<>>, type |-> type, at |-> 0, selfReturned |-> FALSE, next |-> <<>>]

(* Faulty: a generator that has returned its value once never does again.  *)
ResetKeepsSelf(g, json, up) ==
  [g EXCEPT !.json = json, !.up = up, !.at = 0]

(* The generators below stay as they are.                                  *)
Reset(g, json, up) ==
  [g EXCEPT !.json = json, !.up = up, !.at = 0, !.selfReturned = FALSE]

Found(g, json, up) == [gen |-> g, json |-> json, up |-> up]

(* The next child feeds the generator below.                               *)
NextChild(g) ==
  LET kid == Kids(g.json.value)[g.at + 1]
      json == IF IsArray(g.json.value) THEN Result(kid.node, g.at, NoKey)
              ELSE Result(kid.node, -1, kid.key)
  IN [g EXCEPT !.at = @ + 1,
               !.next = <<IF g.next = <<>> THEN Generator(json, "recursive")
                          ELSE Reset(g.next[1], json, <<>>)>>]

RECURSIVE GeneratorNext(_, _)
GeneratorNext(g, up) ==
  IF ~g.selfReturned
  THEN Found([g EXCEPT !.selfReturned = TRUE], g.json, up)
  ELSE IF g.type = "self"
  THEN Found(g, Nothing, up)
  ELSE LET below == IF g.next = <<>> THEN Found(<<>>, Nothing, <<>>)
                    ELSE GeneratorNext(g.next[1], <<g.json>> \o up)
           gone == IF g.next = <<>> THEN g ELSE [g EXCEPT !.next = <<below.gen>>]
       IN IF below.json.value # NoValue
          THEN Found(gone, below.json, below.up)
          ELSE IF g.at < Len(Kids(g.json.value))
          THEN GeneratorNext(NextChild(gone), up)
          ELSE Found(gone, Nothing, up)

(***************************************************************************)
(* Expressions of :expr                                                    *)
(***************************************************************************)
IsTrue(v) ==
  /\ v # InvalidValue
  /\ v.type \in {"boolean", "number"} => v.value # 0

FromBool(b) == Scalar("boolean", IF b THEN 1 ELSE 0)

(* A comparison of values of different types, or of containers, is         *)
(* neither true nor false.                                                 *)
Less(a, b, orEqual) ==
  IF a.type # b.type THEN InvalidValue
  ELSE IF a.type \in {"boolean", "number", "string"}
  THEN FromBool(IF orEqual THEN a.value <= b.value ELSE a.value < b.value)
  ELSE IF Equal(a, b) THEN FromBool(orEqual) ELSE InvalidValue

Compose(op, a, b) ==
  CASE op = "=" -> FromBool(Equal(a, b))
    [] op = "!=" -> FromBool(~Equal(a, b))
    [] op = "<" -> Less(a, b, FALSE)
    [] op = ">" -> Less(b, a, FALSE)
    [] op = "<=" -> Less(a, b, TRUE)
    [] op = ">=" -> Less(b, a, TRUE)
    [] op = "&&" -> FromBool(IsTrue(a) /\ IsTrue(b))
    [] op = "||" -> FromBool(IsTrue(a) \/ IsTrue(b))

RECURSIVE Eval(_, _)
Eval(ex, x) ==
  CASE ex.is = "x" -> x
    [] ex.is = "val" -> ex.val
    [] ex.is = "binop" -> Compose(ex.op, Eval(ex.left, x), Eval(ex.right, x))

(***************************************************************************)
(* Chains of queries and their selectors                                   *)
(***************************************************************************)
NewQuery(sel, ctxt, type) ==
  [sel |-> sel, ctxt |-> ctxt, gen |-> Generator(Nothing, type)]

(* jquery_internal_init: only the root query starts with the value.        *)
InternalInit(chain, json, up) ==
  [i \in DOMAIN chain |->
     [chain[i] EXCEPT !.gen = IF i = 1 THEN Reset(@, json, up) ELSE Reset(@, Nothing, <<>>)]]

Selected(ok, ctxt) == [ok |-> ok, ctxt |-> ctxt]

Contains(n, strings) == Type(n) = "string" /\ Nodes[n].value \in strings

NthChild(json, up, index) ==
  /\ up # <<>>
  /\ IsArray(up[1].value)
  /\ json.index = IF index >= 1 THEN index - 1 ELSE Len(Kids(up[1].value)) + index

Children(json) ==
  [i \in DOMAIN Kids(json.value) |->
     LET kid == Kids(json.value)[i]
     IN IF IsArray(json.value) THEN Result(kid.node, i - 1, NoKey)
        ELSE Result(kid.node, -1, kid.key)]

IsOther(json, sibling, parent) ==
  IF IsObject(parent.value) THEN sibling.key # json.key ELSE sibling.index # json.index

RECURSIVE Select(_, _, _, _), InternalNext(_), AnyOf(_, _)

(* Starts the query on one candidate after the other until it finds one.   *)
AnyOf(chain, candidates) ==
  IF candidates = <<>> THEN Selected(FALSE, chain)
  ELSE LET first == candidates[1]
           next == InternalNext(InternalInit(chain, first.json, first.up))
       IN IF next.json.value # NoValue THEN Selected(TRUE, next.query)
          ELSE AnyOf(next.query, Tail(candidates))

At(json, up) == [json |-> json, up |-> up]

Parents(up) == [i \in DOMAIN up |-> At(up[i], SubSeq(up, i + 1, Len(up)))]

Siblings(json, up) ==
  SelectSeq([i \in DOMAIN Children(up[1]) |-> At(Children(up[1])[i], up)],
            LAMBDA c : IsOther(json, c.json, up[1]))

Select(sel, ctxt, json, up) ==
  CASE sel = "all" -> Selected(TRUE, ctxt)
    [] sel = "root" -> Selected(up = <<>>, ctxt)
    [] sel = "type" -> Selected(Type(json.value) = ctxt, ctxt)
    [] sel = "key" -> Selected(json.key = ctxt, ctxt)
    [] sel = "contains" -> Selected(Contains(json.value, ctxt), ctxt)
    [] sel = "value" -> Selected(Equal(Valued(json.value), ctxt), ctxt)
    [] sel = "expr" -> Selected(IsTrue(Eval(ctxt, Valued(json.value))), ctxt)
    [] sel = "empty" -> Selected(/\ Type(json.value) \in {"array", "object"}
                                 /\ Kids(json.value) = <<>>, ctxt)
    [] sel = "only" -> Selected(/\ up # <<>>
                                /\ IsArray(up[1].value)
                                /\ Len(Kids(up[1].value)) = 1, ctxt)
    [] sel = "nth" -> Selected(NthChild(json, up, ctxt), ctxt)
    [] sel = "has" -> AnyOf(ctxt, <<At(Result(json.value, 0, NoKey), <<>>)>>)
    [] sel = "parent" -> IF up = <<>> THEN Selected(FALSE, ctxt)
                         ELSE AnyOf(ctxt, <<Parents(up)[1]>>)
    [] sel = "ancestor" -> AnyOf(ctxt, Parents(up))
    [] sel = "sibling" -> IF up = <<>> THEN Selected(FALSE, ctxt)
                          ELSE AnyOf(ctxt, Siblings(json, up))
    [] sel = "or" -> LET one == AnyOf(ctxt[1], <<At(json, up)>>)
                         two == AnyOf(ctxt[2], <<At(json, up)>>)
                     IN IF one.ok THEN Selected(TRUE, <<one.ctxt, ctxt[2]>>)
                        ELSE Selected(two.ok, <<one.ctxt, two.ctxt>>)

(* Asks the generator, and the parent for another value when that is done. *)
InternalNext(chain) ==
  LET last == chain[Len(chain)]
      above == SubSeq(chain, 1, Len(chain) - 1)
      found == GeneratorNext(last.gen, last.gen.up)
      asks == [last EXCEPT !.gen = found.gen]
  IN IF found.json.value # NoValue
     THEN LET selected == Select(last.sel, last.ctxt, found.json, found.up)
              told == Append(above, [asks EXCEPT !.ctxt = selected.ctxt])
          IN IF selected.ok THEN [query |-> told, json |-> found.json, up |-> found.up]
             ELSE InternalNext(told)
     ELSE IF above = <<>>
     THEN [query |-> <<asks>>, json |-> Nothing, up |-> <<>>]
     ELSE LET next == InternalNext(above)
          IN IF next.json.value # NoValue
             THEN InternalNext(Append(next.query,
                    [asks EXCEPT !.gen = Reset(@, next.json, next.up)]))
             ELSE [query |-> Append(next.query, asks), json |-> Nothing, up |-> <<>>]

(***************************************************************************)
(* The grammar: what its actions make of the syntax.                       *)
(***************************************************************************)
All(type) == NewQuery("all", <<>>, type)

RECURSIVE Group(_), Selector(_), Simple(_), Pseudo(_)

Pseudo(p) ==
  CASE p.is \in {"root", "only", "empty"} -> <<NewQuery(p.is, <<>>, "self")>>
    [] p.is = "nth" -> <<NewQuery("nth", p.index, "self")>>
    [] p.is = "contains" -> <<NewQuery("contains", p.strings, "self")>>
    [] p.is = "val" -> <<NewQuery("value", p.val, "self")>>
    [] p.is = "has" -> <<NewQuery("has", <<All("recursive")>> \o Group(p.group), "self")>>
    [] p.is = "expr" -> <<NewQuery("expr", p.expr, "recursive")>>

Class(key) == IF key = "*" THEN <<All("self")>> ELSE <<NewQuery("key", key, "self")>>

(* A class is the parent of its pseudo class.                              *)
Key(s) ==
  IF s.class = NoKey THEN Pseudo(s.pseudo)
  ELSE IF s.pseudo.is = "none" THEN Class(s.class)
  ELSE Class(s.class) \o Pseudo(s.pseudo)

HasKey(s) == s.class # NoKey \/ s.pseudo.is # "none"

(* The type pulls the root query of the key: a pseudo class behind a class *)
(* is not part of the chain any more.                                      *)
TypeAndKey(type, key) == <<key[1], NewQuery("type", type, "self")>>

Simple(s) ==
  CASE s.type = "any" -> Key(s)
    [] s.type # "any" /\ HasKey(s) -> TypeAndKey(s.type, Key(s))
    [] OTHER -> <<NewQuery("type", s.type, "self")>>

(* A combinator pulls the right side and keeps the left one for its check. *)
Combinator(op, left, right) == Append(right, NewQuery(op, left, "self"))

Selector(s) ==
  IF s.is = "simple" THEN Simple(s)
  ELSE Combinator(s.is, Selector(s.left), Simple(s.right))

Group(g) ==
  IF g.is = "or" THEN <<NewQuery("or", <<Group(g.first), Selector(g.second)>>, "self")>>
  ELSE Selector(g)

(* An index must not be 0.                                                 *)
RECURSIVE WellFormed(_)
WellFormed(g) ==
  CASE g.is = "or" -> WellFormed(g.first) /\ WellFormed(g.second)
    [] g.is = "simple" -> /\ g.pseudo.is = "nth" => g.pseudo.index # 0
                          /\ g.pseudo.is = "has" => WellFormed(g.pseudo.group)
    [] OTHER -> WellFormed(g.left) /\ WellFormed(g.right)

(* jquery_create: a recursive query feeds the rest with all values.        *)
Create(g) == IF WellFormed(g) THEN <<All("recursive")>> \o Group(g) ELSE <<>>

(***************************************************************************)
(* The client                                                              *)
(***************************************************************************)
StartOn(chain, document) == InternalInit(chain, Result(document, 0, NoKey), <<>>)

InitQuery ==
  /\ asked \in Questions
  /\ target \in Documents
  /\ query = StartOn(Create(asked), target)
  /\ yields = <<>>
  /\ depleted = FALSE
  /\ restarts = 0
  /\ early = FALSE

NextValue ==
  /\ query # <<>>
  /\ LET next == InternalNext(query)
     IN /\ query' = next.query
        /\ yields' = IF next.json.value = NoValue THEN yields
                     ELSE Append(yields, next.json.value)
        /\ depleted' = (next.json.value = NoValue)
  /\ UNCHANGED <<asked, target, restarts, early>>

(* jquery_init on another document, which leaves the first one alive.      *)
Restart ==
  /\ query # <<>>
  /\ restarts < Restarts
  /\ restarts' = restarts + 1
  /\ early' = (early \/ ~depleted)
  /\ target' \in Documents
  /\ query' = StartOn(query, target')
  /\ yields' = <<>>
  /\ depleted' = FALSE
  /\ UNCHANGED asked

(* The client holds NULL.                                                  *)
Refused == query = <<>> /\ UNCHANGED queryVars

QueryNext == NextValue \/ Restart \/ Refused

(***************************************************************************)
(* What a query asks for, from the text alone: n is a value in the         *)
(* document that starts at root.                                           *)
(***************************************************************************)
ParentOf ==
  [n \in DOMAIN Nodes |->
     IF n \in Documents THEN NoValue
     ELSE CHOOSE p \in DOMAIN Nodes : \E i \in DOMAIN Kids(p) : Kids(p)[i].node = n]

PositionOf ==
  [n \in DOMAIN Nodes |->
     IF n \in Documents THEN 0
     ELSE CHOOSE i \in DOMAIN Kids(ParentOf[n]) : Kids(ParentOf[n])[i].node = n]

BelowOf ==
  [root \in DOMAIN Nodes |->
     LET f[n \in DOMAIN Nodes] == n = root \/ (n \notin Documents /\ f[ParentOf[n]])
     IN {n \in DOMAIN Nodes : f[n]}]

RECURSIVE Matches(_, _, _)

MatchesPseudo(n, p, root) ==
  LET listed == n # root /\ IsArray(ParentOf[n])
      count == Len(Kids(ParentOf[n]))
  IN CASE p.is = "none" -> TRUE
       [] p.is = "root" -> n = root
       [] p.is = "only" -> listed /\ count = 1
       [] p.is = "empty" -> Type(n) \in {"array", "object"} /\ Kids(n) = <<>>
       [] p.is = "nth" -> listed /\ PositionOf[n] = IF p.index > 0 THEN p.index
                                                   ELSE count + 1 + p.index
       [] p.is = "contains" -> Type(n) = "string" /\ Nodes[n].value \in p.strings
       [] p.is = "val" -> Equal(Valued(n), p.val)
       [] p.is = "has" -> \E m \in BelowOf[n] : Matches(m, p.group, n)
       [] p.is = "expr" -> IsTrue(Eval(p.expr, Valued(n)))

Matches(n, g, root) ==
  CASE g.is = "or" -> Matches(n, g.first, root) \/ Matches(n, g.second, root)
    [] g.is = "simple" ->
         /\ g.type \in {"any", Type(n)}
         /\ g.class \in {NoKey, "*"}
              \/ (n # root /\ IsObject(ParentOf[n]) /\ Kids(ParentOf[n])[PositionOf[n]].key = g.class)
         /\ MatchesPseudo(n, g.pseudo, root)
    [] g.is = "parent" ->
         n # root /\ Matches(n, g.right, root) /\ Matches(ParentOf[n], g.left, root)
    [] g.is = "ancestor" ->
         /\ Matches(n, g.right, root)
         /\ \E m \in BelowOf[root] \ {n} : n \in BelowOf[m] /\ Matches(m, g.left, root)
    [] g.is = "sibling" ->
         /\ n # root
         /\ Matches(n, g.right, root)
         /\ \E i \in DOMAIN Kids(ParentOf[n]) :
              i # PositionOf[n] /\ Matches(Kids(ParentOf[n])[i].node, g.left, root)

(* Queries that may select more: the generator of `has` still holds values *)
(* of an earlier candidate, :expr looks at all values below as well, and a *)
(* pseudo class behind a type and a class is dropped.                      *)
RECURSIVE Loose(_)
Loose(g) ==
  CASE g.is = "or" -> Loose(g.first) \/ Loose(g.second)
    [] g.is = "simple" -> \/ g.pseudo.is \in {"has", "expr"}
                          \/ g.type # "any" /\ g.class # NoKey /\ g.pseudo.is # "none"
    [] OTHER -> Loose(g.left) \/ Loose(g.right)

(* The recursive generator of :expr meets a value once for every value     *)
(* above it.                                                               *)
RECURSIVE Repeats(_)
Repeats(g) ==
  CASE g.is = "or" -> FALSE
    [] g.is = "simple" -> g.pseudo.is = "expr"
    [] OTHER -> Repeats(g.right)

(* A query that is followed to its end has returned every value of the     *)
(* document that it asks for, each of them once and in the order of the    *)
(* document, and none besides (jquery_init, jquery_next).  Once and        *)
(* nothing besides hold for queries that do not repeat and are not loose,  *)
(* and if the query was not started while it had values left of another    *)
(* document; that all values are returned holds for all.                   *)
QueryAnswered ==
  query # <<>> =>
    /\ depleted => \A n \in BelowOf[target] :
                     Matches(n, asked, target) => \E i \in DOMAIN yields : yields[i] = n
    /\ ~Repeats(asked) /\ ~early =>
         \A i, j \in DOMAIN yields : i < j => yields[i] < yields[j]
    /\ ~Loose(asked) /\ ~early =>
         \A i \in DOMAIN yields : yields[i] \in BelowOf[target] /\ Matches(yields[i], asked, target)
=============================================================================
