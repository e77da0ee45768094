------------------------------ MODULE Document -------------------------------
(***************************************************************************)
(* The document a sequence of JSON tokens denotes, as a value: no memory,  *)
(* no references, no validation.  DomBuilder implements this module.       *)
(***************************************************************************)
EXTENDS Sequences, SequencesExt

CONSTANTS
  Keys,     (* names of object members                                     *)
  Leaves,   (* values that are not containers                              *)
  None

VARIABLES
  open,     (* the containers not yet closed, outermost first              *)
  doc       (* the complete document, or Nothing                           *)

vars == <<open, doc>>

Tree(k, t, its) == [kind |-> k, leaf |-> t, items |-> its]
Leaf(v) == Tree("leaf", v, <<>>)
Hole == Tree("open", None, <<>>)      (* where the next open container goes *)
Nothing == Tree("nothing", None, <<>>)

Frame(k, its, n) == [kind |-> k, items |-> its, key |-> n]
Whole(f) == Tree(f.kind, None, f.items)

Init == open = <<>> /\ doc = Nothing

(* A value goes behind the last element or under the pending key, where it *)
(* replaces an earlier member of that name.                                *)
Accepts(f) == f.kind = "array" \/ f.key # None

Put(f, v) ==
  IF f.kind = "array"
  THEN Frame("array", Append(f.items, v), None)
  ELSE Frame("object", [n \in DOMAIN f.items \cup {f.key} |->
                          IF n = f.key THEN v ELSE f.items[n]], None)

Fill(f, v) == [f EXCEPT !.items = [i \in DOMAIN @ |-> IF @[i] = Hole THEN v ELSE @[i]]]

Value(v) ==
  \/ /\ open = <<>> /\ doc = Nothing
     /\ doc' = Leaf(v)
     /\ UNCHANGED open
  \/ /\ open # <<>> /\ Accepts(Last(open))
     /\ open' = Append(Front(open), Put(Last(open), Leaf(v)))
     /\ UNCHANGED doc

Open(k) ==
  /\ \/ /\ open = <<>> /\ doc = Nothing
        /\ open' = <<Frame(k, <<>>, None)>>
     \/ /\ open # <<>> /\ Accepts(Last(open))
        /\ open' = Front(open) \o <<Put(Last(open), Hole), Frame(k, <<>>, None)>>
  /\ UNCHANGED doc

Key(n) ==
  /\ open # <<>> /\ Last(open).kind = "object" /\ Last(open).key = None
  /\ open' = Append(Front(open), [Last(open) EXCEPT !.key = n])
  /\ UNCHANGED doc

Close ==
  /\ open # <<>> /\ Last(open).key = None
  /\ \/ /\ Len(open) = 1
        /\ doc' = Whole(Last(open))
        /\ open' = <<>>
     \/ /\ Len(open) > 1
        /\ open' = Append(Front(Front(open)), Fill(Last(Front(open)), Whole(Last(open))))
        /\ UNCHANGED doc

Discard == open' = <<>> /\ doc' = Nothing

Next ==
  \/ \E v \in Leaves : Value(v)
  \/ \E k \in {"object", "array"} : Open(k)
  \/ \E n \in Keys : Key(n)
  \/ Close
  \/ Discard

Spec == Init /\ [][Next]_vars
=============================================================================
