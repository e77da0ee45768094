------------------------------ MODULE DomTree --------------------------------
(***************************************************************************)
(* The tree in memory, read as the document it stands for: DomBuilder      *)
(* implements Document.                                                    *)
(***************************************************************************)
EXTENDS DomBuilder

(* A name is a string, and never NULL.                                     *)
ASSUME NamesAssumption == None \notin Names

Docs == INSTANCE Document WITH Leaves <- {Const, Text}, open <- <<>>, doc <- <<>>

(* What a container holds, by position or by name.                         *)
Items(b) ==
  IF kind[b] = "array" THEN [i \in 1 .. size[b] |-> elem[<<b, i - 1>>]]
  ELSE [n \in {m \in Names : keyOf[<<b, m>>] # None} |-> value[<<b, n>>]]

Container(v) == Is(v, "array") \/ Is(v, "object")

(* The tree of v, when trees has those of what v holds.                    *)
TreeBy(trees, v) ==
  IF Container(v)
  THEN Docs!Tree(kind[v], None, [i \in DOMAIN Items(v) |-> trees[Items(v)[i]]])
  ELSE Docs!Leaf(IF v = Const THEN Const ELSE text[v])

TreeOf(root) == LET tree[v \in Values] == TreeBy(tree, v) IN tree[root]

(* The container that is next in the stack is where a tree has its hole.   *)
Inner(d) == IF d + 1 < Depth THEN Held(d + 1) ELSE None

PendingKey(d) == IF d + 1 = Depth /\ mValue[d + 1] # None THEN given ELSE None

OpenItems(b, hole) ==
  [i \in DOMAIN Items(b) |-> IF Items(b)[i] = hole THEN Docs!Hole ELSE TreeOf(Items(b)[i])]

OpenContainer(d) ==
  Docs!Frame(kind[Held(d)], OpenItems(Held(d), Inner(d)), PendingKey(d))

Building == pc \notin {"none", "cleanup"}

Open == [i \in 1 .. (IF Building THEN Depth ELSE 0) |-> OpenContainer(i - 1)]

Built ==
  IF Building /\ context = 0 /\ mValue[0] # None THEN TreeOf(Held(0)) ELSE Docs!Nothing

Abstract == INSTANCE Document WITH Leaves <- {Const, Text}, open <- Open, doc <- Built

(* At every moment the tree under construction, with the shared keys, the  *)
(* replaced members and the inserted defaults, is what the tokens so far   *)
(* denote, and a finished one never changes.                               *)
ImplementsDocument == Abstract!Spec
-----------------------------------------------------------------------------
(* Why it does: the parts of an invariant beyond that of DomBuilder.       *)

(* Arrays of a document have no gaps.                                      *)
Packed ==
  \A b \in Blocks : kind[b] = "array" => \A i \in 0 .. size[b] - 1 : elem[<<b, i>>] # None

(* The containers being filled are held where the document has them, and   *)
(* nowhere else; one that has no place yet is held by none.                *)
Chained ==
  /\ \A d \in 0 .. Depth - 1, b \in Blocks :
       Held(d) \in Contents(b) => d > 0 /\ b = Held(d - 1)
  /\ pc \in {"copy", "attach"} => \A b \in Blocks : handle[fresh] \notin Contents(b)

(* A key that waits for its value spells what the text had; a string that  *)
(* waits for its place is none of the keys.                                *)
TokensKept ==
  /\ pc = "place" /\ handle[fresh] \in Blocks => text[handle[fresh]] = Text
  /\ Building /\ Depth > 0 /\ mValue[Depth] # None => given \in Keys /\ text[Held(Depth)] = given

TreeInv == Packed /\ Chained /\ TokensKept
=============================================================================
