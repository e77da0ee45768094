------------------------------- MODULE MCParts -------------------------------
(***************************************************************************)
(* Instances for TLC of the components that stand on their own: the three  *)
(* allocators, splicing, the order of values, the numbers, the queries,    *)
(* the generator, the errors of parsers and the parsers of C++.  They      *)
(* share no state: a behaviour is about one of them, and the others keep   *)
(* still.                                                                  *)
(***************************************************************************)
EXTENDS ParserMemPool, ParserPool, DomStringPool, ArraySplice, NumConversion, JQuery,
  GenStream, SaxErrors, JValueOrder, CxxParser, TLC

(* Splicing: of empty, short and longer arrays, which may share elements.  *)
MCFillings == {<<>>, <<1>>, <<3, 1, 2>>}
MCManners == [array2 : ArrayNames, ownership : Ownerships]

(* Queries: three documents, [[1, 2], "b"], {"a": {"a": true}, "b": [null]} *)
(* and [{}, {"a": "a", "b": 0}].                                           *)
Value(type, v, kids) == [type |-> type, value |-> v, kids |-> kids]
Item(n) == [key |-> NoKey, node |-> n]
Member(key, n) == [key |-> key, node |-> n]

MCNodes == <<
  Value("array", 1, <<Item(2), Item(5)>>),
  Value("array", 2, <<Item(3), Item(4)>>),
  Value("number", 1, <<>>),
  Value("number", 2, <<>>),
  Value("string", 2, <<>>),
  Value("object", 6, <<Member("a", 7), Member("b", 9)>>),
  Value("object", 7, <<Member("a", 8)>>),
  Value("boolean", 1, <<>>),
  Value("array", 9, <<Item(10)>>),
  Value("null", 0, <<>>),
  Value("array", 11, <<Item(12), Item(13)>>),
  Value("object", 12, <<>>),
  Value("object", 13, <<Member("a", 14), Member("b", 15)>>),
  Value("string", 1, <<>>),
  Value("number", 0, <<>>) >>

MCDocuments == {1, 6, 11}

(* The syntax: selectors, pseudo classes, expressions and combinators.     *)
Word(is) == [is |-> is]
None == Word("none")
Sel(type, class, pseudo) ==
  [is |-> "simple", type |-> type, class |-> class, pseudo |-> pseudo]
OfType(type) == Sel(type, NoKey, None)
OfClass(class) == Sel("any", class, None)
OfPseudo(pseudo) == Sel("any", NoKey, pseudo)
NthOf(index) == [is |-> "nth", index |-> index]
HasOf(group) == OfPseudo([is |-> "has", group |-> group])
ExprOf(expr) == OfPseudo([is |-> "expr", expr |-> expr])
Or(first, second) == [is |-> "or", first |-> first, second |-> second]
Combined(op, left, right) == [is |-> op, left |-> left, right |-> right]
Combinators == {"parent", "ancestor", "sibling"}

X == Word("x")
Const(type, v) == [is |-> "val", val |-> Scalar(type, v)]
Binop(op, left, right) == [is |-> "binop", op |-> op, left |-> left, right |-> right]

Pseudos ==
  {Word("root"), Word("only"), Word("empty"),
   [is |-> "contains", strings |-> {2}], [is |-> "val", val |-> Scalar("number", 1)]}
    \cup {NthOf(index) : index \in {-1, 0, 2}}

Expressions ==
  {X,
   Binop("||", Binop(">", X, Const("number", 1)), Binop("=", X, Const("string", 1))),
   Binop("&&", Binop("<=", X, Const("number", 1)), Binop("!=", X, Const("number", 0))),
   Binop("<", X, Const("boolean", 1)),
   Binop(">=", X, Const("number", 1))}

Simples ==
  {OfType(type) : type \in {"array", "number", "string"}}
    \cup {OfClass(class) : class \in {"a", "*"}}
    \cup {OfPseudo(pseudo) : pseudo \in Pseudos}
    \cup {Sel("object", "a", None), Sel("string", "a", None), Sel("number", NoKey, NthOf(2)),
          Sel("any", "b", Word("empty")), Sel("any", "b", Word("only"))}

Few == {OfType("array"), OfType("number"), OfClass("a"), OfClass("*"),
        Sel("object", "a", None), OfPseudo(Word("root")), OfPseudo(NthOf(2))}

Pairs == {Combined(op, left, right) : op \in Combinators, left \in Few, right \in Few}

Chains ==
  {Combined(op, Combined(inner, OfClass("*"), middle), OfClass("*")) :
     op \in Combinators, inner \in Combinators, middle \in Few}

Groups ==
  {Or(first, second) :
     first \in {OfType("number"), HasOf(OfType("string")),
                Combined("sibling", OfType("number"), OfClass("*"))},
     second \in Few}

Nested ==
  {HasOf(group) : group \in Simples \cup Groups
                    \cup {Combined("parent", OfPseudo(Word("root")), OfClass("a"))}}

Expressed ==
  {ExprOf(expr) : expr \in Expressions}
    \cup {Sel("any", "a", [is |-> "expr", expr |-> Binop(">", X, Const("number", 0))]),
          Sel("object", "a", Word("empty"))}
    \cup {Combined(op, left, OfClass("*")) :
            op \in Combinators,
            left \in {HasOf(OfType("number")), ExprOf(Binop(">", X, Const("number", 1)))}}

MCQuestions == Simples \cup Pairs \cup Chains \cup Groups \cup Nested \cup Expressed

(* The generator: {"a": ["text", null, {}], "b": 1.5} and parts of it.      *)
Leaf(kind, text) == [kind |-> kind, text |-> text, items |-> <<>>]
Branch(kind, items) == [kind |-> kind, text |-> "", items |-> items]
Entry(key, value) == [key |-> key, value |-> value]

MCGenValues ==
  [document |-> Branch("object", <<Entry("'a'", "list"), Entry("'b'", "real")>>),
   list |-> Branch("array", <<Entry("", "word"), Entry("", "null"), Entry("", "empty")>>),
   empty |-> Branch("object", <<>>),
   word |-> Leaf("string", "'text'"),
   real |-> Leaf("number", "1.5"),
   null |-> Leaf("null", "null")]

(* Values: the two null values, a boolean, numbers that are equal, the     *)
(* empty string, two strings of which one begins like the other, in the    *)
(* same buffer, and containers that begin alike or have keys in common.    *)
(* Of the numbers, 3 stands for 2^53 + 1, which a double rounds to 2^53.   *)
Node(type, rank, float, place, items) ==
  [type |-> type, rank |-> rank, float |-> float, at |-> place, items |-> items]
Plain(type, rank, place) == Node(type, rank, FALSE, place, <<>>)
Double(rank, place) == Node(JV_NUM, rank, TRUE, place, <<>>)
Holding(type, items) == Node(type, 0, FALSE, 0, items)

MCAsDouble == [n \in 0..4 |-> IF n = 3 THEN 2 ELSE n]

MCTable == <<
  Plain(JV_NULL, 0, 0),
  Plain(JV_NULL, 1, 0),
  Plain(JV_BOOL, 1, 0),
  Plain(JV_NUM, 2, 4),
  Double(2, 5),
  Plain(JV_STR, 0, 0),
  Plain(JV_STR, 2, 7),
  Plain(JV_STR, 1, 7),
  Holding(JV_ARRAY, <<4>>),
  Holding(JV_ARRAY, <<5, 8, 1>>),
  Holding(JV_OBJECT, 1 :> 5 @@ 3 :> 9),
  Holding(JV_OBJECT, 2 :> 4 @@ 3 :> 11),
  Plain(JV_NUM, 3, 13),
  Holding(JV_ARRAY, <<13>>)>>

MCTables == {<<>>, MCTable}

VARIABLE part   (* the component that runs                                 *)

vars == <<part, memVars, poolVars, stringVars, spliceVars, numVars, queryVars, genVars, saxVars,
          orderVars, cxxVars>>

Init ==
  /\ part \in {"memory", "parsers", "strings", "splice", "numbers", "queries", "texts", "errors",
              "values", "binding"}
  /\ InitPool
  /\ InitParsers
  /\ InitStrings
  /\ InitSplice
  /\ part = "splice" \/ (spShould = [a \in ArrayNames |-> <<>>] /\ ~spChecked)
  /\ part = "numbers" \/ numType = "raw"
  /\ InitNumbers
  /\ part = "queries" \/ (asked = OfPseudo(NthOf(0)) /\ target = 1)
  /\ InitQuery
  /\ InitGenerator
  /\ InitSax
  /\ part = "values" \/ vals = <<>>
  /\ InitOrder
  /\ InitCxx

Next ==
  \/ /\ part = "memory" /\ MemNext
     /\ UNCHANGED <<part, poolVars, stringVars, spliceVars, numVars,
                    queryVars, genVars, saxVars, orderVars, cxxVars>>
  \/ /\ part = "parsers" /\ ParsersNext
     /\ UNCHANGED <<part, memVars, stringVars, spliceVars, numVars,
                    queryVars, genVars, saxVars, orderVars, cxxVars>>
  \/ /\ part = "strings" /\ StringsNext
     /\ UNCHANGED <<part, memVars, poolVars, spliceVars, numVars,
                    queryVars, genVars, saxVars, orderVars, cxxVars>>
  \/ /\ part = "splice" /\ SpliceNext
     /\ UNCHANGED <<part, memVars, poolVars, stringVars, numVars,
                    queryVars, genVars, saxVars, orderVars, cxxVars>>
  \/ /\ part = "numbers" /\ NumbersNext
     /\ UNCHANGED <<part, memVars, poolVars, stringVars, spliceVars,
                    queryVars, genVars, saxVars, orderVars, cxxVars>>
  \/ /\ part = "queries" /\ QueryNext
     /\ UNCHANGED <<part, memVars, poolVars, stringVars, spliceVars,
                    numVars, genVars, saxVars, orderVars, cxxVars>>
  \/ /\ part = "texts" /\ GeneratorSteps
     /\ UNCHANGED <<part, memVars, poolVars, stringVars, spliceVars,
                    numVars, queryVars, saxVars, orderVars, cxxVars>>
  \/ /\ part = "errors" /\ SaxNext
     /\ UNCHANGED <<part, memVars, poolVars, stringVars, spliceVars,
                    numVars, queryVars, genVars, orderVars, cxxVars>>
  \/ /\ part = "values" /\ OrderNext
     /\ UNCHANGED <<part, memVars, poolVars, stringVars, spliceVars,
                    numVars, queryVars, genVars, saxVars, cxxVars>>
  \/ /\ part = "binding" /\ CxxNext
     /\ UNCHANGED <<part, memVars, poolVars, stringVars, spliceVars,
                    numVars, queryVars, genVars, saxVars, orderVars>>

Spec == Init /\ [][Next]_vars

(* Nothing tells two chunks apart.                                         *)
Symmetry == Permutations(Chunks)
=============================================================================
