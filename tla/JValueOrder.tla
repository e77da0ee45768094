----------------------------- MODULE JValueOrder -----------------------------
(***************************************************************************)
(* Comparing and duplicating values (jobject.c: jvalue_compare,            *)
(* jvalue_equal, jvalue_duplicate and what they call).                     *)
(*                                                                         *)
(* vals lists the values there are: whatever a container holds was made    *)
(* before it, so it has a smaller number, as in memory without cycles.     *)
(* The items of an array are a function of 1, 2 ..., those of an object a  *)
(* function of its keys.  Texts are numbered in the order of memcmp and    *)
(* length, numbers in their order (NumConversion has their conversions);   *)
(* AsDouble rounds an int64_t to the double that C compares in its place.  *)
(***************************************************************************)
EXTENDS Integers, FiniteSets, Sequences

CONSTANTS
  GivenTables,   \* the values to start with, as tables like vals
  Ranks,         \* the numbers
  AsDouble,      \* the double an int64_t becomes: not every number is one
  Duplications   \* bound: how often jvalue_duplicate is called

ASSUME RoundingAssumption ==
  /\ Ranks \subseteq Int /\ AsDouble \in [Ranks -> Ranks]
  /\ \A m, n \in Ranks : m <= n => AsDouble[m] <= AsDouble[n]

VARIABLES
  vals,          \* the values: [type, rank, float, at, items]
  copies         \* what jvalue_duplicate answered: [of, by, before]

orderVars == <<vals, copies>>

(* JValueType                                                              *)
JV_NULL == 0
JV_BOOL == 1
JV_NUM == 2
JV_STR == 3
JV_ARRAY == 4
JV_OBJECT == 5

-----------------------------------------------------------------------------
(* The values                                                              *)

Values == 1..Len(vals)

(* rank tells JNULL (1) from JINVALID (0), true from false, and orders     *)
(* numbers, texts and keys.  float tells the numbers that are compared as  *)
(* doubles, NUM_FLOAT and the texts that are no int64_t, from those that   *)
(* are compared as int64_t; rank is then what the double is.  at says      *)
(* which value's buffer holds the bytes of a string: its own, or with      *)
(* jstring_create_nocopy another's; 0 is the buffer of JEMPTY_STR.         *)
IsNode(v, n) ==
  /\ v = [type |-> v.type, rank |-> v.rank, float |-> v.float, at |-> v.at, items |-> v.items]
  /\ v.type \in JV_NULL..JV_OBJECT /\ v.rank \in Int /\ v.at \in 0..n
  /\ v.float \in BOOLEAN
  /\ v.type = JV_NUM => v.rank \in Ranks /\ (v.float => AsDouble[v.rank] = v.rank)
  /\ DOMAIN v.items \in SUBSET Int /\ IsFiniteSet(DOMAIN v.items)
  /\ v.items \in [DOMAIN v.items -> 1..(n - 1)]
  /\ v.type = JV_ARRAY => \E size \in 0..(n - 1) : DOMAIN v.items = 1..size
  /\ v.type \notin {JV_ARRAY, JV_OBJECT} => DOMAIN v.items = {}

IsTable(table) ==
  /\ Len(table) \in Nat
  /\ table = [n \in 1..Len(table) |-> table[n]]
  /\ \A n \in 1..Len(table) : IsNode(table[n], n)

ASSUME TablesAssumption == \A table \in GivenTables : IsTable(table)

(* jis_const: one value each, which is never copied                        *)
IsConst(x) ==
  \/ vals[x].type \in {JV_NULL, JV_BOOL}
  \/ vals[x].type = JV_STR /\ vals[x].at = 0

ItemCount(x) == Cardinality(DOMAIN vals[x].items)

-----------------------------------------------------------------------------
(* Comparing                                                               *)

Lesser(n, m) == IF n < m THEN n ELSE m

(* A loop that forgets the lengths: a list would equal its beginnings.     *)
LexicographicBeginnings(results, n, m) ==
  LET differ == {i \in 1..Lesser(n, m) : results[i] # 0}
  IN  IF differ = {} THEN 0
      ELSE results[CHOOSE i \in differ : \A j \in differ : i <= j]

(* What the loops over two lists answer: the first difference, or else the *)
(* difference of the lengths.                                              *)
Lexicographic(results, n, m) ==
  LET differ == {i \in 1..Lesser(n, m) : results[i] # 0}
  IN  IF differ = {}
      THEN n - m
      ELSE results[CHOOSE i \in differ : \A j \in differ : i <= j]

(* qsort of the keys by qsort_helper                                       *)
SortedKeys(keys) ==
  CHOOSE s \in [1..Cardinality(keys) -> keys] :
    /\ \A i, j \in 1..Cardinality(keys) : i < j => s[i] < s[j]
    /\ \A k \in keys : \E i \in 1..Cardinality(keys) : s[i] = k

CompareRanks(a, b) == IF a > b THEN 1 ELSE IF a < b THEN -1 ELSE 0

(* jnumber_compare: C compares an int64_t with a double as doubles.        *)
CompareNumbers(v, w) ==
  IF v.float = w.float THEN CompareRanks(v.rank, w.rank)
  ELSE CompareRanks(AsDouble[v.rank], AsDouble[w.rank])

CompareStrings(a, b) == a - b

CompareArrays(compare, a, b) ==
  Lexicographic(
    [i \in 1..Lesser(ItemCount(a), ItemCount(b)) |-> compare[<<vals[a].items[i], vals[b].items[i]>>]],
    ItemCount(a), ItemCount(b))

CompareObjects(compare, a, b) ==
  LET keysA == SortedKeys(DOMAIN vals[a].items)
      keysB == SortedKeys(DOMAIN vals[b].items)
  IN  Lexicographic(
        [i \in 1..Lesser(ItemCount(a), ItemCount(b)) |->
           IF CompareStrings(keysA[i], keysB[i]) # 0
           THEN CompareStrings(keysA[i], keysB[i])
           ELSE compare[<<vals[a].items[keysA[i]], vals[b].items[keysB[i]]>>]],
        ItemCount(a), ItemCount(b))

(* jvalue_compare, where compare answers for what containers hold          *)
CompareBy(compare, a, b) ==
  LET v == vals[a]
      w == vals[b]
  IN  IF a = b THEN 0
      ELSE IF v.type # w.type THEN v.type - w.type
      ELSE IF v.type = JV_NUM THEN CompareNumbers(v, w)
      ELSE IF v.type = JV_ARRAY THEN CompareArrays(compare, a, b)
      ELSE IF v.type = JV_OBJECT THEN CompareObjects(compare, a, b)
      ELSE CompareStrings(v.rank, w.rank)   \* and the null values and booleans

CompareValues[ab \in Values \X Values] == CompareBy(CompareValues, ab[1], ab[2])

(* jvalue_equal: a buffer that is the same is not read, nor is the length. *)
EqualArrays(equal, a, b) ==
  ItemCount(a) = ItemCount(b) /\ \A i \in 1..ItemCount(a) : equal[<<vals[a].items[i], vals[b].items[i]>>]

EqualObjects(equal, a, b) ==
  /\ ItemCount(a) = ItemCount(b)
  /\ \A k \in DOMAIN vals[a].items :
       k \in DOMAIN vals[b].items /\ equal[<<vals[a].items[k], vals[b].items[k]>>]

EqualStrings(v, w) == v.at = w.at \/ v.rank = w.rank

EqualBy(equal, a, b) ==
  LET v == vals[a]
      w == vals[b]
  IN  \/ a = b
      \/ v.type = w.type /\ v.type = JV_NULL
      \/ v.type = w.type /\ v.type = JV_BOOL /\ v.rank = w.rank
      \/ v.type = w.type /\ v.type = JV_NUM /\ CompareNumbers(v, w) = 0
      \/ v.type = w.type /\ v.type = JV_STR /\ EqualStrings(v, w)
      \/ v.type = w.type /\ v.type = JV_ARRAY /\ EqualArrays(equal, a, b)
      \/ v.type = w.type /\ v.type = JV_OBJECT /\ EqualObjects(equal, a, b)

EqualValues[ab \in Values \X Values] == EqualBy(EqualValues, ab[1], ab[2])
-----------------------------------------------------------------------------
(* Duplicating                                                             *)

HeldBy(x) == {vals[x].items[i] : i \in DOMAIN vals[x].items}

(* What can be reached from x                                              *)
Below[x \in Values] == {x} \cup UNION {Below[y] : y \in HeldBy(x)}

(* The copy of the value x when there are n values: a constant stands for  *)
(* itself, anything else gets memory of its own.  (Where x is held twice,  *)
(* the code makes two such copies.)                                        *)
CopyOf(x, n) == IF IsConst(x) THEN x ELSE n + x

CopiedNode(x, n) ==
  [type |-> vals[x].type, rank |-> vals[x].rank, float |-> vals[x].float, at |-> n + x,
   items |-> [i \in DOMAIN vals[x].items |-> CopyOf(vals[x].items[i], n)]]

(* A number that no value has                                              *)
Unused == [type |-> JV_NULL, rank |-> 0, float |-> FALSE, at |-> 0, items |-> <<>>]

InitOrder ==
  /\ vals \in GivenTables
  /\ copies = {}

Duplicate(x) ==
  /\ Cardinality(copies) < Duplications
  /\ LET n == Len(vals)
     IN  /\ copies' = copies \cup {[of |-> x, by |-> CopyOf(x, n), before |-> n]}
         /\ vals' = IF IsConst(x) THEN vals
                    ELSE [y \in 1..(n + x) |->
                            IF y <= n THEN vals[y]
                            ELSE IF y - n \in Below[x] /\ ~IsConst(y - n) THEN CopiedNode(y - n, n)
                            ELSE Unused]

(* jvalue_compare and jvalue_equal read only.                              *)
AskOrder == UNCHANGED orderVars

OrderNext ==
  \/ \E x \in Values : Duplicate(x)
  \/ AskOrder

OrderSpec == InitOrder /\ [][OrderNext]_orderVars

-----------------------------------------------------------------------------
(* Properties                                                              *)

(* Two numbers of which one is an int64_t too long for a double, and the   *)
(* other the double it is rounded to: they compare as equal.  2^53 and     *)
(* 2^53 + 1 do so with the double 2^53, and not with each other: of        *)
(* blurred numbers there is not the one order that jobject.h:126 promises. *)
Blurred(x, y) ==
  /\ vals[x].type = JV_NUM /\ vals[y].type = JV_NUM
  /\ vals[x].rank # vals[y].rank
  /\ CompareNumbers(vals[x], vals[y]) = 0

Sharp(S) == \A x, y \in S : ~Blurred(x, y)

(* jvalue_compare answers the opposite when asked the other way round, and *)
(* orders all values among which no two numbers are blurred: what is not   *)
(* greater than something not greater is not greater (the rules of         *)
(* ordering of jobject.h:127).                                             *)
Ordered ==
  LET compare == [ab \in Values \X Values |-> CompareValues[ab]]
  IN  /\ \A a, b \in Values : compare[<<a, b>>] < 0 <=> compare[<<b, a>>] > 0
      /\ \A a, b, c \in Values :
           compare[<<a, b>>] <= 0 /\ compare[<<b, c>>] <= 0 /\ compare[<<a, c>>] > 0 =>
             ~Sharp(Below[a] \cup Below[b] \cup Below[c])

(* Where jvalue_equal and jvalue_compare differ: JNULL and JINVALID, and   *)
(* strings of different length at the same place of a buffer.              *)
Confused(x, y) ==
  /\ vals[x].type = vals[y].type
  /\ vals[x].rank # vals[y].rank
  /\ \/ vals[x].type = JV_NULL
     \/ vals[x].type = JV_STR /\ vals[x].at = vals[y].at

(* Values are equal if and only if they compare as equal, whatever they    *)
(* hold, unless they hold what jvalue_equal confuses.                      *)
EqualsAgree ==
  LET compare == [ab \in Values \X Values |-> CompareValues[ab]]
      equal == [ab \in Values \X Values |-> EqualValues[ab]]
  IN  \A a, b \in Values :
        /\ compare[<<a, b>>] = 0 => equal[<<a, b>>]
        /\ equal[<<a, b>>] => \/ compare[<<a, b>>] = 0
                          \/ \E x \in Below[a], y \in Below[b] : Confused(x, y)

(* A duplicate is equal to the original, and nothing in it but constants   *)
(* was there before, so modifications of the one are not seen in the other *)
(* (jobject.h:102).                                                        *)
CopiesStand ==
  \A c \in copies :
    /\ CompareValues[<<c.of, c.by>>] = 0 /\ EqualValues[<<c.of, c.by>>]
    /\ \A x \in Below[c.by] : x > c.before \/ IsConst(x)

(* What a duplicate was made of still holds for it: the copy of whatever   *)
(* the original holds, constants apart, is at the same distance.           *)
Mirrors(c) ==
  /\ c.before \in Nat /\ c.before <= Len(vals) /\ c.of \in 1..c.before
  /\ c.by = CopyOf(c.of, c.before)
  /\ \A x \in Below[c.of] :
       IsConst(x) \/ (c.before + x \in Values /\ vals[c.before + x] = CopiedNode(x, c.before))

(* The inductive invariant                                                 *)
OrderIInv == IsTable(vals) /\ \A c \in copies : Mirrors(c)

(* Values have one order, equality agrees with it, and duplicates are      *)
(* equal and apart.                                                        *)
ValuesOrdered == Ordered /\ EqualsAgree /\ CopiesStand
=============================================================================
