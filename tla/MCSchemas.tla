------------------------------ MODULE MCSchemas ------------------------------
(***************************************************************************)
(* Schemas for TLC: a behaviour is either about how schemas find each      *)
(* other (part "resolver") or about how one is built (part "build").       *)
(***************************************************************************)
EXTENDS SchemaResolver, SchemaBuild

VARIABLE part

D == "#/definitions/d"

RefTo(doc, frag) == [do |-> "ref", uri |-> Uri(doc, frag), around |-> <<>>]

(* Something below a node with an id of its own, and something after it.   *)
Nested(id, inner, outer) ==
  LET node(do, around) == [do |-> do, uri |-> Uri(id, RootFragment), around |-> around]
      within == <<Uri(id, RootFragment)>>
  IN <<node("enter", <<>>), [inner EXCEPT !.around = within], node("exit", within), outer>>

(* An id that names a document and, within it, one that does not.          *)
Deeper(id, inner) ==
  LET outer == Uri(id, RootFragment)
      named == Uri(Here, "#name")
      node(do, uri, around) == [do |-> do, uri |-> uri, around |-> around]
  IN <<node("enter", outer, <<>>), node("enter", named, <<outer>>),
       [inner EXCEPT !.around = <<outer, named>>],
       node("exit", named, <<outer, named>>), node("exit", outer, <<outer>>)>>

Text(defs, visit) == [id |-> NoId, defs |-> defs, visit |-> visit]

TextsOfA ==
  {Text({D}, v) :
     v \in {<<RefTo(Here, D)>>, <<RefTo("B", RootFragment)>>, <<RefTo("B", D), RefTo("C", D)>>,
            Nested("B", RefTo(Here, D), RefTo(Here, D)), Nested("C", RefTo("B", D), RefTo(Here, D)),
            Nested("C", RefTo(Here, RootFragment), RefTo("B", RootFragment)),
            Deeper("B", RefTo(Here, D))}}
    \cup {Text({}, <<RefTo(Here, RootFragment), RefTo("B", D)>>)}

TextsOfB ==
  {Text(defs, v) :
     defs \in {{}, {D}},
     v \in {<<>>, <<RefTo(Here, D)>>, <<RefTo("C", RootFragment), RefTo("A", D)>>,
            Nested("A", RefTo(Here, D), RefTo("C", D))}}
    \cup {[Text({D}, <<RefTo("A", D)>>) EXCEPT !.id = Uri("C", RootFragment)]}

TextsOfC ==
  {[Text({D}, <<>>) EXCEPT !.id = Uri("C", RootFragment)],
   Text({D}, <<>>), Text({}, <<RefTo("B", D)>>)}

MCWorlds ==
  {[f \in Files |-> CASE f = "A" -> a [] f = "B" -> b [] f = "C" -> c] :
     a \in TextsOfA, b \in TextsOfB, c \in TextsOfC}

ResolverAsleep ==
  /\ world = [f \in Files |-> Text({}, <<>>)] /\ table = <<>> /\ refs = {} /\ own = "uri"
  /\ ResolverIdle

Init ==
  \/ part = "resolver" /\ InitResolver /\ BuildInit
  \/ part = "build" /\ BuildInit /\ ResolverAsleep

ResolverStep == part = "resolver" /\ Resolving /\ UNCHANGED <<part, buildVars>>
FollowStep ==
  part = "resolver" /\ (\E r \in refs : FollowReference(r)) /\ UNCHANGED <<part, buildVars>>
BuildStep == part = "build" /\ BuildNext /\ UNCHANGED <<part, resolverVars>>

Next == ResolverStep \/ FollowStep \/ BuildStep

Spec ==
  Init /\ [][Next]_<<part, resolverVars, buildVars>> /\ WF_<<part, resolverVars, buildVars>>(ResolverStep)
=============================================================================
