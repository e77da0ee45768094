----------------------------- MODULE ArraySplice -----------------------------
(***************************************************************************)
(* jarray_splice of jobject.c with what it is made of: jarray_put_unsafe,  *)
(* jarray_remove_unsafe and jarray_insert, slot by slot.  Two arrays hold  *)
(* references to scalars; an array is its slots and its size, and the      *)
(* slots behind the size may hold what nobody finds any more.              *)
(*                                                                         *)
(* The loops assert that the indices are in bounds; a build for release    *)
(* leaves the assertions out, any other stops where one fails.             *)
(***************************************************************************)
EXTENDS Integers, Sequences, FiniteSets

CONSTANTS Elements,     (* the scalars in the arrays                       *)
          Fillings,     (* what an array holds in the beginning            *)
          Manners,      (* [array2, ownership] of the splices              *)
          Capacity,     (* slots of an array                               *)
          Splices       (* bound: splices of a behaviour                   *)

ArrayNames == {"array", "other"}
Ownerships == {"copy", "transfer", "nochange"}
NoElement == 0

ASSUME CapacityAssumption == Capacity \in Nat

ASSUME ElementsAssumption == NoElement \notin Elements

ASSUME FillingsAssumption ==
  \A s \in Fillings : s \in Seq(Elements) /\ Len(s) <= Capacity

ASSUME MannersAssumption == Manners \subseteq [array2 : ArrayNames, ownership : Ownerships]

VARIABLES spArrays,     (* of each array the slots and the size            *)
          spRefs,       (* m_refCnt of each element                        *)
          spLoop,       (* the splice in progress                          *)
          spShould,     (* what the arrays should hold                     *)
          spDone,       (* splices so far                                  *)
          spChecked,    (* the build has assertions                        *)
          spLent,       (* of each element the slots that SPLICE_NOCHANGE  *)
                        (* has filled: references nobody has counted       *)
          spTorn,       (* a transfer took elements in front of others     *)
          spEntangled   (* a splice has read an array it was changing      *)

spliceVars ==
  <<spArrays, spRefs, spLoop, spShould, spDone, spChecked, spLent, spTorn, spEntangled>>

Indices == 0..(Capacity - 1)

Filled(s) == [slot |-> [i \in Indices |-> IF i < Len(s) THEN s[i + 1] ELSE NoElement],
              size |-> Len(s)]
Contents(a) == [i \in 1..a.size |-> a.slot[i - 1]]

InBounds(a, index) == 0 <= index /\ index < a.size

(***************************************************************************)
(* The helpers work on memory: the arrays and the counts.                  *)
(***************************************************************************)
Memory == [arrays |-> spArrays, refs |-> spRefs]

ReleaseElement(mem, e) ==
  IF e = NoElement THEN mem ELSE [mem EXCEPT !.refs[e] = @ - 1]

CopyElement(mem, e) ==
  IF e = NoElement THEN mem ELSE [mem EXCEPT !.refs[e] = @ + 1]

(* What the slot held is released.                                         *)
PutUnsafe(mem, a, index, e) ==
  [ReleaseElement(mem, mem.arrays[a].slot[index]) EXCEPT
     !.arrays[a].slot[index] = e,
     !.arrays[a].size = IF index >= @ THEN index + 1 ELSE @]

(* Faulty: the last slot keeps the element that has moved down.            *)
RemoveUnsafeKeepsLast(mem, a, index) ==
  [ReleaseElement(mem, mem.arrays[a].slot[index]) EXCEPT
     !.arrays[a].slot = [i \in Indices |->
        IF i >= index /\ i < mem.arrays[a].size - 1 THEN @[i + 1] ELSE @[i]],
     !.arrays[a].size = @ - 1]

MovedDown(slot, index, count) ==
  [i \in Indices |->
     CASE i < index \/ i >= count -> slot[i]
       [] i >= index /\ i < count - 1 -> slot[i + 1]
       [] OTHER -> NoElement]

RemoveUnsafe(mem, a, index) ==
  [ReleaseElement(mem, mem.arrays[a].slot[index]) EXCEPT
     !.arrays[a].slot = MovedDown(@, index, mem.arrays[a].size),
     !.arrays[a].size = @ - 1]

MovedUp(slot, index, last, e) ==
  [i \in Indices |->
     CASE i > last \/ (i < index /\ i < last) -> slot[i]
       [] i <= last /\ i > index -> slot[i - 1]
       [] OTHER -> e]

(* An index behind the end appends.                                        *)
InsertElement(mem, a, index, e) ==
  LET grown == PutUnsafe(mem, a, mem.arrays[a].size, NoElement)
  IN [grown EXCEPT !.arrays[a].slot = MovedUp(@, index, grown.arrays[a].size - 1, e)]

(* The element j of array2, and what is left behind.                       *)
TakeElement(mem, s) ==
  LET e == mem.arrays[s.array2].slot[s.j]
  IN CASE s.ownership = "transfer" ->
            [mem EXCEPT !.arrays[s.array2].slot[s.j] = NoElement,
                        !.arrays[s.array2].size = @ - 1]
       [] s.ownership = "nochange" -> mem
       [] s.ownership = "copy" -> CopyElement(mem, e)

(***************************************************************************)
(* jarray_splice                                                           *)
(***************************************************************************)
NoLoop == [step |-> "idle"]

InitSplice ==
  \E fill \in [ArrayNames -> Fillings] :
    /\ spArrays = [a \in ArrayNames |-> Filled(fill[a])]
    /\ spRefs = [e \in Elements |->
                   Cardinality({x \in ArrayNames \X Indices :
                                  Filled(fill[x[1]]).slot[x[2]] = e})]
    /\ spShould = fill
    /\ spLoop = NoLoop
    /\ spDone = 0
    /\ spChecked \in BOOLEAN
    /\ spLent = [e \in Elements |-> 0]
    /\ spTorn = FALSE
    /\ spEntangled = FALSE

(* What the arguments ask for.                                             *)
Spliced(s, index, toRemove, piece) ==
  LET front == IF index > Len(s) THEN Len(s) ELSE index
  IN SubSeq(s, 1, front) \o piece \o SubSeq(s, front + toRemove + 1, Len(s))

Kept(s, begin, end) == SubSeq(s, 1, begin) \o SubSeq(s, end + 1, Len(s))

Asked(index, toRemove, manner, begin, end) ==
  LET piece == SubSeq(spShould[manner.array2], begin + 1, end)
      left == [spShould EXCEPT ![manner.array2] =
                 IF manner.ownership = "transfer" THEN Kept(@, begin, end) ELSE @]
  IN [left EXCEPT !["array"] = Spliced(@, index, toRemove, piece)]

Arguments(index, toRemove, manner, begin, end) ==
  /\ toRemove > 0 => /\ InBounds(spArrays["array"], index)
                     /\ InBounds(spArrays["array"], index + toRemove - 1)
  /\ begin < end
  /\ InBounds(spArrays[manner.array2], begin)
  /\ InBounds(spArrays[manner.array2], end - 1)
  /\ toRemove >= 0

(* The elements are scalars, which pass the check for cycles.  Wrong       *)
(* arguments are refused without a change.  A client that has let a        *)
(* reference go uncounted has to see to it first.                          *)
StartSplice ==
  /\ spLoop = NoLoop
  /\ spDone < Splices
  /\ ~spTorn
  /\ \A e \in Elements : spLent[e] = 0
  /\ \E manner \in Manners, toRemove \in 0..Capacity, begin, end \in 0..Capacity,
        index \in -1..Capacity :
       LET first == IF toRemove = 0 /\ index < 0 THEN 0 ELSE index
       IN /\ Arguments(first, toRemove, manner, begin, end)
          /\ spArrays["array"].size + end - begin <= Capacity
          /\ spLoop' = [step |-> "overlap", i |-> first, j |-> begin, end |-> end,
                        removable |-> toRemove, array2 |-> manner.array2,
                        ownership |-> manner.ownership]
          /\ spShould' = Asked(first, toRemove, manner, begin, end)
          /\ spTorn' = (/\ manner.ownership = "transfer"
                        /\ end < spArrays[manner.array2].size \/ manner.array2 = "array")
          /\ spEntangled' = (spEntangled \/ manner.array2 = "array")
  /\ spDone' = spDone + 1
  /\ UNCHANGED <<spArrays, spRefs, spChecked, spLent>>

Continue(mem, loop) ==
  /\ spArrays' = mem.arrays
  /\ spRefs' = mem.refs
  /\ spLoop' = loop
  /\ UNCHANGED <<spShould, spDone, spChecked, spTorn, spEntangled>>

Element == spArrays[spLoop.array2].slot[spLoop.j]

Lending ==
  IF spLoop.ownership = "nochange" THEN [spLent EXCEPT ![Element] = @ + 1] ELSE spLent

(* What both loops assert of the indices.                                  *)
IndicesValid ==
  /\ spLoop.removable > 0 => InBounds(spArrays["array"], spLoop.i)
  /\ InBounds(spArrays[spLoop.array2], spLoop.j)

(* Elements replace those to be removed.                                   *)
Replace ==
  /\ spLoop.step = "overlap"
  /\ spLoop.removable > 0
  /\ spLoop.j < spLoop.end
  /\ spChecked => IndicesValid
  /\ spLent' = Lending
  /\ Continue(PutUnsafe(TakeElement(Memory, spLoop), "array", spLoop.i, Element),
              [spLoop EXCEPT !.i = @ + 1, !.j = @ + 1, !.removable = @ - 1])

RemoveSurplus ==
  /\ spLoop.step \in {"overlap", "remove"}
  /\ spLoop.removable > 0
  /\ spLoop.j = spLoop.end
  /\ UNCHANGED spLent
  /\ Continue(RemoveUnsafe(Memory, "array", spLoop.i),
              [spLoop EXCEPT !.step = "remove", !.removable = @ - 1])

InsertRest ==
  /\ spLoop.step \in {"overlap", "insert"}
  /\ spLoop.removable = 0
  /\ spLoop.j < spLoop.end
  /\ spChecked => IndicesValid
  /\ spLent' = Lending
  /\ Continue(InsertElement(TakeElement(Memory, spLoop), "array", spLoop.i, Element),
              [spLoop EXCEPT !.step = "insert", !.i = @ + 1, !.j = @ + 1])

EndSplice ==
  /\ spLoop # NoLoop
  /\ spLoop.removable = 0
  /\ spLoop.j = spLoop.end
  /\ UNCHANGED spLent
  /\ Continue(Memory, NoLoop)

(* An assertion fails (jobject.c:1323, 1357): the program stops in the     *)
(* middle of the loop.  Each element transferred makes array2 one shorter  *)
(* while the index goes up, so it comes to that half way through any       *)
(* transfer of several elements at the end.                                *)
Abort ==
  /\ spLoop.step \in {"overlap", "insert"}
  /\ spLoop.j < spLoop.end
  /\ spChecked /\ ~IndicesValid
  /\ UNCHANGED spLent
  /\ Continue(Memory, [spLoop EXCEPT !.step = "aborted"])

(* The client may stop, or has been stopped.                               *)
Leave == spLoop.step \in {"idle", "aborted"} /\ UNCHANGED spliceVars

SpliceNext ==
  \/ StartSplice \/ Replace \/ RemoveSurplus \/ InsertRest \/ EndSplice \/ Abort \/ Leave

(***************************************************************************)
(* Properties                                                              *)
(***************************************************************************)
Held(e) ==
  Cardinality({x \in ArrayNames \X Indices : spArrays[x[1]].slot[x[2]] = e})

(* When a splice is done, array holds what was in front of the index, the  *)
(* elements asked for and what was behind those removed, array2 what is    *)
(* left of it, and every element is counted once for each slot that holds  *)
(* it, but for the slots that SPLICE_NOCHANGE has filled: none will be     *)
(* freed while an array holds it, none is lost when both are released      *)
(* (jarray_splice).  A transfer from the front of array2 or of an array    *)
(* into itself leaves a gap and is excepted; an array spliced into itself  *)
(* keeps the counts, not the order.  No assertion stops a splice that does *)
(* not transfer.                                                           *)
SplicedAsAsked ==
  /\ spLoop = NoLoop /\ ~spTorn =>
       /\ \A e \in Elements : spRefs[e] + spLent[e] = Held(e)
       /\ \A a \in ArrayNames : \A i \in Indices :
            i >= spArrays[a].size => spArrays[a].slot[i] = NoElement
       /\ ~spEntangled => \A a \in ArrayNames : Contents(spArrays[a]) = spShould[a]
  /\ spLoop.step = "aborted" => spLoop.ownership = "transfer"

(***************************************************************************)
(* Why it holds: the inductive invariant                                   *)
(***************************************************************************)
SpliceTyped ==
  /\ spArrays \in [ArrayNames -> [slot : [Indices -> Elements \cup {NoElement}], size : 0..Capacity]]
  /\ spRefs \in [Elements -> Int]
  /\ spLent \in [Elements -> Nat]
  /\ spEntangled \in BOOLEAN
  /\ ~spEntangled => spShould \in [ArrayNames -> Seq(Elements)]

Size(a) == spArrays[a].size
ToCome == spLoop.end - spLoop.j     (* elements still to be taken          *)
Transferring == spLoop # NoLoop /\ spLoop.ownership = "transfer"

LoopSteps == {"overlap", "remove", "insert", "aborted"}

(* There is an element for each one to be removed, room for those to come, *)
(* and array2 still holds them.                                            *)
LoopFits ==
  /\ spLoop \in [step : LoopSteps, i : Nat, j : Nat, end : Nat,
                 removable : Nat, array2 : ArrayNames, ownership : Ownerships]
  /\ spLoop.j <= spLoop.end /\ spLoop.end <= Capacity
  /\ spLoop.removable > 0 => spLoop.i + spLoop.removable <= Size("array")
  /\ Size("array") + ToCome <= Capacity
  /\ spLoop.ownership # "transfer" /\ ToCome > 0 => spLoop.end <= Size(spLoop.array2)
  /\ Transferring => spLoop.array2 = "other" /\ ToCome <= Size("other") /\ Size("other") <= spLoop.end
  /\ spLoop.array2 = "array" => spEntangled
  /\ spLoop.step = "aborted" => spLoop.ownership = "transfer"

(* What a transfer has taken leaves a gap in front of the rest of it.      *)
Present(a) ==
  IF Transferring /\ a = "other"
  THEN 0..(Size(a) - ToCome - 1) \cup spLoop.j..(spLoop.end - 1)
  ELSE 0..(Size(a) - 1)

(* What the splice is still to do makes of the arrays what was asked for.  *)
Ahead ==
  LET front == IF spLoop.i > Size("array") THEN Size("array") ELSE spLoop.i
      length == Size("array") - spLoop.removable + ToCome
      left == IF Transferring THEN Size("other") - ToCome ELSE Size("other")
  IN /\ Len(spShould["array"]) = length
     /\ \A x \in 0..(length - 1) :
          spShould["array"][x + 1] =
            IF x < front THEN spArrays["array"].slot[x]
            ELSE IF x < front + ToCome THEN spArrays["other"].slot[spLoop.j + (x - front)]
            ELSE spArrays["array"].slot[x - ToCome + spLoop.removable]
     /\ Len(spShould["other"]) = left
     /\ \A x \in 0..(left - 1) : spShould["other"][x + 1] = spArrays["other"].slot[x]

Counted == \A e \in Elements : spRefs[e] + spLent[e] = Held(e)

OnlyPresent ==
  \A a \in ArrayNames : \A i \in Indices : spArrays[a].slot[i] # NoElement <=> i \in Present(a)

Promised ==
  ~spEntangled =>
    IF spLoop = NoLoop THEN \A a \in ArrayNames : Contents(spArrays[a]) = spShould[a]
    ELSE Ahead

SpliceHolds == SpliceTyped /\ (spLoop = NoLoop \/ LoopFits) /\ Counted /\ OnlyPresent /\ Promised

TornLoops ==
  [step : LoopSteps, i : Int, j : Int, end : Int, removable : Int, array2 : ArrayNames,
   ownership : {"transfer"}]

SpliceIInv == IF spTorn THEN spLoop \in TornLoops \cup {NoLoop} ELSE SpliceHolds
=============================================================================
