---------------------------- MODULE NumConversion ----------------------------
(***************************************************************************)
(* Numbers of JSON texts: numberParse and the functions called from it,    *)
(* which read a text character by character into a fraction, a decimal     *)
(* exponent and flags (num_conversion.c), the conversions of the result to *)
(* int64, int32 and double, the accessors jnumber_get_* and the comparison *)
(* jnumber_compare (jobject.c).                                            *)
(*                                                                         *)
(* The widths are parameters: Width stands for the 64 bits of fraction and *)
(* result, IntWidth for the 32 bits of an int, ExpWidth for the 64 bits of *)
(* the exponent (smaller, so that short texts reach its end), Mantissa for *)
(* DBL_MANT_DIG, LongMantissa for LDBL_MANT_DIG (64 on x86, 53 where the   *)
(* compiler takes long double for double).  A double is an integer count   *)
(* of 2^-Scale, the smallest number it tells from 0; Infinity stands above *)
(* all of them.  Tolerance counts of 2^-Scale stand for the 1e-9 by which  *)
(* a double may miss an integer that is told for exact.                    *)
(*                                                                         *)
(* A status is the set of its flags, CONV_OK the empty one.  odd notes in  *)
(* which of the ways listed at Told the code has left arithmetic behind;   *)
(* no step reads it.                                                       *)
(***************************************************************************)
EXTENDS Integers, Sequences, FiniteSets

CONSTANTS Width, IntWidth, ExpWidth, Mantissa, LongMantissa, Scale, Tolerance,
          Digits,       (* the digits of the texts                         *)
          TextLength    (* bound: characters of a text                     *)

ASSUME WidthsAssumption ==
  /\ Width \in Nat /\ Mantissa \in Nat
  /\ 10 * 2^(Mantissa + 1) <= 2^Width
  /\ IntWidth \in 2..(Width - 1)
  /\ ExpWidth \in Nat
  /\ LongMantissa \in Nat /\ LongMantissa >= Mantissa
  /\ Scale \in Nat
  /\ 2^(Width + Scale + 1) < 10^9
  /\ Tolerance \in Nat /\ 2 * Tolerance < 2^Scale
  /\ Digits \subseteq 0..9
  /\ TextLength \in 0..Width

VARIABLES numType,    (* m_type of the number: "raw", "int" or "float"     *)
          numText,    (* the text of a raw number, as far as it is read    *)
          numParse,   (* what numberParse has made of it                   *)
          numNative   (* the value of a number of the other types          *)

numVars == <<numType, numText, numParse, numNative>>

IMax == 2^(Width - 1) - 1
IMin == -IMax - 1
UMax == 2^Width - 1
EMax == 2^(ExpWidth - 1) - 1
EMin == -EMax - 1
IntMax == 2^(IntWidth - 1) - 1
IntMin == -IntMax - 1
ExactInDouble == 2^Mantissa - 1
MinExp == Mantissa - Scale

Quantum == 2^Scale
Infinity == 4 * (UMax + 1) * Quantum

(* Division of C: towards zero.                                            *)
Quotient(a, b) == IF a < 0 THEN -((-a) \div b) ELSE a \div b

Power[k \in 0..9] == IF k = 0 THEN 1 ELSE 10 * Power[k - 1]

(* Characters: a digit is its value, the others their codes.               *)
Plus == 43
Minus == 45
Dot == 46
E == 101

Sign(n) == IF n > 0 THEN 1 ELSE IF n < 0 THEN -1 ELSE 0

(***************************************************************************)
(* numberParse: p is the state between two characters.                     *)
(***************************************************************************)
Start == [phase |-> "start", value |-> 0, exp |-> 0, sign |-> 1, flags |-> {},
          base |-> 10, zeroes |-> 0, expSign |-> 1, expValue |-> 0, odd |-> {}]

NotANumber(p) == [p EXCEPT !.phase = "ended", !.flags = {"notANum"}]

NonZero == Digits \ {0}

(* The exponent does not fit: the number is infinite or 0.                 *)
ExpOverflow(p) ==
  IF p.exp > 0
  THEN [p EXCEPT !.phase = "ended", !.value = UMax, !.exp = EMax, !.expValue = 0,
                 !.flags = {IF p.sign < 0 THEN "negOverflow" ELSE "posOverflow"},
                 !.odd = IF p.value = 0 THEN @ \cup {"zeroOverflows"} ELSE @]
  ELSE [p EXCEPT !.phase = "ended", !.value = 0, !.exp = 0, !.expValue = 0,
                 !.flags = {"precisionLoss"}]

Exponent(p) == p.exp + p.expSign * p.expValue

(* Signed overflow wraps.                                                  *)
ExpDigit(p, d) ==
  LET next == p.expValue * 10 + d
  IN IF Exponent(p) < Quotient(EMin + d, 10) \/ Exponent(p) > Quotient(EMax - d, 10)
     THEN ExpOverflow([p EXCEPT !.exp = Exponent(p)])
     ELSE [p EXCEPT !.phase = "exp",
                    !.expValue = IF next > EMax THEN next - 2 * (EMax + 1) ELSE next,
                    !.odd = IF next > EMax THEN @ \cup {"expWraps"} ELSE @]

ParseExp(p, c) ==
  IF c \in Digits
  THEN ExpDigit(p, c)
  ELSE IF c \in {Minus, Plus} /\ p.phase = "expFirst"
  THEN [p EXCEPT !.phase = "expSigned", !.expSign = IF c = Minus THEN -1 ELSE 1]
  ELSE NotANumber(p)

ToExp(p) == [p EXCEPT !.phase = "expFirst"]

(* Digits behind the dot that do not fit any more.                         *)
ParseDecimalLoss(p, c) ==
  IF c \in Digits
  THEN [p EXCEPT !.phase = "decimalLoss",
                 !.flags = IF c # 0 THEN @ \cup {"precisionLoss"} ELSE @]
  ELSE IF c = E THEN ToExp(p) ELSE NotANumber(p)

(* Digits before the dot that do not fit any more.                         *)
ParseIntegerExp(p, c) ==
  IF c \in Digits
  THEN [p EXCEPT !.phase = "integerExp", !.exp = @ + 1,
                 !.flags = IF c # 0 THEN @ \cup {"precisionLoss"} ELSE @]
  ELSE IF c = Dot THEN [p EXCEPT !.phase = "decimalLossFirst"]
  ELSE IF c = E THEN ToExp(p) ELSE NotANumber(p)

(* The product base * 10 of an int64_t, which wraps.                       *)
TimesTen(p) ==
  [p EXCEPT !.zeroes = @ + 1,
            !.base = (@ * 10) % (UMax + 1),
            !.odd = IF p.base * 10 > IMax THEN @ \cup {"wraps"} ELSE @]

(* A base that has wrapped to 0 would be a division by 0: that takes as    *)
(* many zeroes as Width, more than TextLength.                             *)
TooBig(p) == p.value > UMax \div p.base

CutDecimals(p) ==
  [p EXCEPT !.phase = "decimalLoss",
            !.odd = IF p.zeroes > 0 THEN @ \cup {"cutBehindZeroes"} ELSE @]

(* Zeroes at the end of the integer move from exponent to value.           *)
Realigned(p) ==
  LET stops == {k \in 0..p.exp :
                  k = p.exp \/ p.value * Power[k] > UMax \div p.base}
      k == CHOOSE k \in stops : \A l \in stops : k <= l
      q == [p EXCEPT !.value = @ * Power[k], !.exp = @ - k]
  IN IF q.exp > 0 THEN CutDecimals(q) ELSE [q EXCEPT !.phase = "decimal"]

(* Faulty: the zeroes in front of the digit are forgotten.                 *)
DecimalDigitNoZeroes(p, d) ==
  [p EXCEPT !.value = @ * p.base + d, !.exp = @ - 1, !.base = 10, !.zeroes = 0]

DecimalDigit(p, d) ==
  LET next == p.value * p.base + d
  IN [p EXCEPT !.value = next % (UMax + 1),
               !.exp = @ - (p.zeroes + 1),
               !.base = 10, !.zeroes = 0,
               !.odd = IF next > UMax THEN @ \cup {"wraps"} ELSE @]

ParseDecimal(p, c) ==
  IF TooBig(p) THEN ParseDecimalLoss(CutDecimals(p), c)
  ELSE IF c = 0 THEN TimesTen(p)
  ELSE IF c \in Digits THEN DecimalDigit(p, c)
  ELSE IF c = E THEN ToExp(p) ELSE NotANumber(p)

ParseLeadingZeroes(p, c) ==
  IF c = 0 THEN TimesTen(p)
  ELSE LET q == IF c \in NonZero THEN Realigned(p) ELSE [p EXCEPT !.phase = "decimal"]
       IN IF q.phase = "decimalLoss" THEN ParseDecimalLoss(q, c) ELSE ParseDecimal(q, c)

(* The integer is over: its last zeroes are the exponent.                  *)
LeaveInteger(p, phase) ==
  [p EXCEPT !.phase = phase, !.exp = p.zeroes, !.zeroes = 0, !.base = 10]

CutInteger(p) ==
  [LeaveInteger(p, "integerExp") EXCEPT
     !.odd = IF p.zeroes > 0 THEN @ \cup {"cutBehindZeroes"} ELSE @]

ParseInteger(p, c) ==
  IF c = 0
  THEN IF TooBig(p) \/ p.base > IMax \div 10
       THEN ParseIntegerExp(CutInteger(p), c)
       ELSE [p EXCEPT !.zeroes = @ + 1, !.base = @ * 10]
  ELSE IF c \in Digits
  THEN IF p.value > (UMax - c) \div p.base
       THEN ParseIntegerExp(CutInteger(p), c)
       ELSE [p EXCEPT !.value = @ * p.base + c, !.zeroes = 0, !.base = 10]
  ELSE IF c = Dot THEN LeaveInteger(p, "leadingZeroes")
  ELSE IF c = E THEN LeaveInteger(p, "expFirst") ELSE NotANumber(p)

ParseFirst(p, c) ==
  IF c \in Digits THEN [p EXCEPT !.phase = "integer", !.value = c]
  ELSE IF c \in {Minus, Plus} /\ p.phase = "start"
  THEN [p EXCEPT !.phase = "signed", !.sign = IF c = Minus THEN -1 ELSE 1]
  ELSE NotANumber(p)

(* One more character; what has ended reads none.                          *)
Parse(p, c) ==
  CASE p.phase \in {"start", "signed"} -> ParseFirst(p, c)
    [] p.phase = "integer" -> ParseInteger(p, c)
    [] p.phase = "integerExp" -> ParseIntegerExp(p, c)
    [] p.phase = "leadingZeroes" -> ParseLeadingZeroes(p, c)
    [] p.phase = "decimal" -> ParseDecimal(p, c)
    [] p.phase \in {"decimalLossFirst", "decimalLoss"} -> ParseDecimalLoss(p, c)
    [] p.phase \in {"expFirst", "expSigned", "exp"} -> ParseExp(p, c)
    [] p.phase = "ended" -> p

(* The components when the text ends here.  Behind zeroes that follow the  *)
(* dot the code looks at the byte behind the text, which may be a digit.   *)
Components(p) ==
  CASE p.phase \in {"start", "signed", "decimalLossFirst", "expSigned"} -> {NotANumber(p)}
    [] p.phase = "integer" -> {LeaveInteger(p, "ended")}
    [] p.phase = "leadingZeroes" -> {p, Realigned(p)}
    [] OTHER -> {[p EXCEPT !.exp = Exponent(p)]}

(***************************************************************************)
(* Conversions: the answer has a status and a result.                      *)
(***************************************************************************)
Answer(status, result) == [status |-> status, result |-> result]

Saturated(sign) ==
  IF sign > 0 THEN Answer({"posOverflow"}, IMax) ELSE Answer({"negOverflow"}, IMin)

Shift(n, k) == IF k > 9 THEN 0 ELSE n \div Power[k]

Raised(n, k) == IF n = 0 THEN 0 ELSE n * Power[k]

FitsShifted(n, k, limit) == n = 0 \/ (n <= limit /\ k <= 4 /\ n * Power[k] <= limit)

(* jstr_to_i64, from the components on.                                    *)
ToI64(c) ==
  LET fraction == IF c.exp < 0 THEN Shift(c.value, -c.exp) ELSE c.value
      exp == IF c.exp < 0 THEN 0 ELSE c.exp
      limit == IF c.sign > 0 THEN IMax ELSE IMax + 1
      flags == IF c.exp < 0 THEN c.flags \cup {"precisionLoss"} ELSE c.flags
  IN IF c.flags = {"notANum"}
     THEN Answer({"notANum"}, 0)
     ELSE IF ("precisionLoss" \in c.flags /\ c.exp > 0) \/ ~FitsShifted(fraction, exp, limit)
     THEN Saturated(c.sign)
     ELSE Answer(flags, c.sign * Raised(fraction, exp))

I64ToI32(n) ==
  IF n > IntMax THEN Answer({"posOverflow"}, IntMax)
  ELSE IF n < IntMin THEN Answer({"negOverflow"}, IntMin)
  ELSE Answer({}, n)

ToI32(c) ==
  LET big == ToI64(c)
      small == I64ToI32(big.result)
  IN IF big.status = {"notANum"} THEN big
     ELSE IF small.status # {} THEN small
     ELSE Answer(big.status, small.result)

(* n / d rounded to a mantissa of so many bits, ties to even.              *)
NearestOf(bits, n, d) ==
  LET shift == CHOOSE s \in 0..(LongMantissa + 2 * Width + Scale) :
                 /\ n \div d < 2^(bits + s)
                 /\ s = 0 \/ n \div d >= 2^(bits + s - 1)
      unit == d * 2^shift
      floor == n \div unit
      rest == 2 * (n % unit)
      up == rest > unit \/ (rest = unit /\ floor % 2 = 1)
  IN (IF up THEN floor + 1 ELSE floor) * 2^shift

Nearest(n, d) ==
  LET result == NearestOf(Mantissa, n, d)
  IN IF result >= Infinity THEN Infinity ELSE result

Long(n, d) == NearestOf(LongMantissa, n, d)

(* A long double below 10^0 counts 2^-LongScale: all of its bits count in  *)
(* whatever power of ten a double can still tell from 0.                   *)
LongScale == LongMantissa + Width + Scale

(* n * powl(10, exp) in long double, n >= 0, and the double made of that:  *)
(* power, product and result are rounded one after the other (powl itself  *)
(* is taken to round to nearest).                                          *)
Rounded(n, exp) ==
  IF n = 0 \/ exp < -9 THEN 0
  ELSE IF exp < 0
  THEN IF Power[-exp] > 2^(Width + Scale + 1) THEN 0
       ELSE Nearest(Long(Long(n, 1) * Long(2^LongScale, Power[-exp]), 1), 2^(LongScale - Scale))
  ELSE IF exp > 3 \/ n * Power[exp] >= 4 * (UMax + 1) THEN Infinity
  ELSE Nearest(Long(Long(n, 1) * Long(Power[exp], 1), 1) * Quantum, 1)

ToDouble(c) ==
  LET result == c.sign * Rounded(c.value, c.exp)
      loss == IF c.value > ExactInDouble \/ c.exp < MinExp THEN {"precisionLoss"} ELSE {}
  IN IF c.flags = {"notANum"} THEN Answer({"notANum"}, 0)
     ELSE IF c.flags \cap {"posOverflow", "negOverflow"} # {}
     THEN Answer(c.flags, c.sign * Infinity)
     ELSE IF result = c.sign * Infinity
     THEN Answer({IF c.sign > 0 THEN "posOverflow" ELSE "negOverflow"}, result)
     ELSE Answer(c.flags \cup loss, result)

I64AsDouble(n) == Sign(n) * Nearest(Sign(n) * n * Quantum, 1)

I64ToDouble(n) ==
  Answer(IF n > ExactInDouble \/ n < -ExactInDouble THEN {"precisionLoss"} ELSE {},
         I64AsDouble(n))

(* A cast of C; out of range it is undefined.                              *)
Cast(v, min, max) ==
  IF Quotient(v, Quantum) \in min..max THEN {Quotient(v, Quantum)} ELSE {min, max}

(* The whole number is told for exact within the tolerance.                *)
WholeOf(v, r) ==
  Answer(IF r * Quantum - v \in -Tolerance..Tolerance THEN {} ELSE {"precisionLoss"}, r)

DoubleToI32(v) ==
  IF v > IntMax * Quantum THEN {Answer({"posOverflow"}, IntMax)}
  ELSE IF v < IntMin * Quantum THEN {Answer({"negOverflow"}, IntMin)}
  ELSE {WholeOf(v, r) : r \in Cast(v, IntMin, IntMax)}

DoubleToI64(v) ==
  IF v > I64AsDouble(IMax) THEN {Answer({"posOverflow"}, IMax)}
  ELSE IF v < IMin * Quantum THEN {Answer({"negOverflow"}, IMin)}
  ELSE IF v > ExactInDouble * Quantum \/ v < -ExactInDouble * Quantum
  THEN {Answer({"precisionLoss"}, r) : r \in Cast(v, IMin, IMax)}
  ELSE {WholeOf(v, r) : r \in Cast(v, IMin, IMax)}

(***************************************************************************)
(* Numbers of all types: what jnumber_get_* may answer, and comparison.    *)
(***************************************************************************)
Raw(c) == [type |-> "raw", is |-> c]
Native(type, n) == [type |-> type, is |-> n]

GetI32(n) ==
  CASE n.type = "float" -> DoubleToI32(n.is)
    [] n.type = "int" -> {I64ToI32(n.is)}
    [] n.type = "raw" -> {ToI32(n.is)}

GetI64(n) ==
  CASE n.type = "float" -> DoubleToI64(n.is)
    [] n.type = "int" -> {Answer({}, n.is)}
    [] n.type = "raw" -> {ToI64(n.is)}

GetF64(n) ==
  CASE n.type = "float" -> Answer({}, n.is)
    [] n.type = "int" -> I64ToDouble(n.is)
    [] n.type = "raw" -> ToDouble(n.is)

(* Faulty: the status of the conversion is not looked at.                  *)
CompareI64Blindly(n, i) ==
  CASE n.type = "float" -> Sign(n.is - I64AsDouble(i))
    [] n.type = "int" -> Sign(n.is - i)
    [] n.type = "raw" -> Sign(ToI64(n.is).result - i)

(* Comparing an int64_t with a double makes a double of it.                *)
CompareI64(n, i) ==
  LET exact == ToI64(n.is)
  IN CASE n.type = "float" -> Sign(n.is - I64AsDouble(i))
       [] n.type = "int" -> Sign(n.is - i)
       [] n.type = "raw" -> IF exact.status = {} THEN Sign(exact.result - i)
                            ELSE Sign(ToDouble(n.is).result - I64AsDouble(i))

CompareF64(n, v) ==
  LET exact == ToI64(n.is)
  IN CASE n.type = "float" -> Sign(n.is - v)
       [] n.type = "int" -> Sign(I64AsDouble(n.is) - v)
       [] n.type = "raw" -> IF exact.status = {} THEN Sign(I64AsDouble(exact.result) - v)
                            ELSE Sign(ToDouble(n.is).result - v)

Compare(a, b) ==
  CASE b.type = "float" -> CompareF64(a, b.is)
    [] b.type = "int" -> CompareI64(a, b.is)
    [] b.type = "raw" -> IF ToI64(b.is).status = {} THEN CompareI64(a, ToI64(b.is).result)
                         ELSE CompareF64(a, ToDouble(b.is).result)

(***************************************************************************)
(* The numbers: all of the native types, and texts that grow.              *)
(***************************************************************************)
Floats == {v \in {m * 2^s : m \in 0..ExactInDouble, s \in 0..(Width + Scale)} : v < Infinity}

SignedFloats == Floats \cup {-v : v \in Floats}

InitNumbers ==
  \/ /\ numType = "raw"
     /\ numText = <<>>
     /\ numParse = Start
     /\ numNative = 0
  \/ /\ numText = <<>>
     /\ numParse = Start
     /\ \/ numType = "int" /\ numNative \in IMin..IMax
        \/ numType = "float" /\ numNative \in SignedFloats

(* JSON has no zero in front of another digit.                             *)
NoLeadingZero(text, c) ==
  ~(c \in Digits /\ text # <<>> /\ text[Len(text)] = 0
      /\ (Len(text) = 1 \/ (Len(text) = 2 /\ text[1] \in {Minus, Plus})))

ReadCharacter ==
  /\ numType = "raw"
  /\ numParse.phase # "ended"
  /\ Len(numText) < TextLength
  /\ \E c \in Digits \cup {Dot, E, Minus} :
       /\ NoLeadingZero(numText, c)
       /\ numText' = Append(numText, c)
       /\ numParse' = Parse(numParse, c)
  /\ UNCHANGED <<numType, numNative>>

(* jnumber_get_* and jnumber_compare change nothing.                       *)
Convert == UNCHANGED numVars

NumbersNext == ReadCharacter \/ Convert

(***************************************************************************)
(* What the text says: digits * 10^exp, with the sign apart.               *)
(***************************************************************************)
Position(text, c) ==
  LET places == {i \in 1..Len(text) : text[i] = c}
  IN IF places = {} THEN Len(text) + 1 ELSE CHOOSE i \in places : \A j \in places : i <= j

NumberOf(digits) ==
  LET f[i \in 0..Len(digits)] == IF i = 0 THEN 0
                                 ELSE IF digits[i] \in 0..9 THEN 10 * f[i - 1] + digits[i]
                                 ELSE f[i - 1]
  IN f[Len(digits)]

Meaning(text) ==
  LET e == Position(text, E)
      plain == SubSeq(text, 1, e - 1)
      power == SubSeq(text, e + 1, Len(text))
      dot == Position(plain, Dot)
      behind == IF dot > Len(plain) THEN 0 ELSE Len(plain) - dot
  IN [sign |-> IF text[1] = Minus THEN -1 ELSE 1,
      digits |-> NumberOf(plain),
      exp |-> NumberOf(power) * (IF power # <<>> /\ power[1] = Minus THEN -1 ELSE 1) - behind]

(* The whole part of the number, saturated, and whether it is all of it.   *)
Whole(n) ==
  IF n.exp <= 0 THEN Shift(n.digits, -n.exp)
  ELSE IF FitsShifted(n.digits, n.exp, UMax) THEN Raised(n.digits, n.exp)
  ELSE UMax

IsWhole(n) == n.digits = 0 \/ n.exp >= 0 \/ (-n.exp <= 9 /\ n.digits % Power[-n.exp] = 0)

(* How the number of a text stands to v counts of 2^-Scale.                *)
Order(n, v) ==
  LET count == IF n.exp >= 0 THEN IF FitsShifted(n.digits, n.exp, 4 * UMax)
                                  THEN Raised(n.digits, n.exp) * Quantum ELSE Infinity
               ELSE IF n.exp < -9 THEN 0 ELSE (n.digits * Quantum) \div Power[-n.exp]
      more == n.exp < 0 /\ n.digits # 0 /\ (n.exp < -9 \/ (n.digits * Quantum) % Power[-n.exp] # 0)
  IN IF n.sign * v < 0 THEN n.sign
     ELSE n.sign * (IF count = n.sign * v THEN IF more THEN 1 ELSE 0
                    ELSE Sign(count - n.sign * v))

(* v is the number of the text or one of the two doubles next to it.       *)
NextTo(n, v) ==
  /\ v \in SignedFloats
  /\ \A w \in SignedFloats : /\ w > v => Order(n, w) < 0
                            /\ w < v => Order(n, w) > 0

(***************************************************************************)
(* Properties                                                              *)
(***************************************************************************)
RightInteger(n, a, min, max) ==
  LET value == n.sign * Whole(n)
  IN CASE a.status = {} -> IsWhole(n) /\ a.result = value
       [] a.status = {"precisionLoss"} -> a.result = value
       [] a.status = {"posOverflow"} -> value > max /\ a.result = max
       [] a.status = {"negOverflow"} -> value < min /\ a.result = min
       [] OTHER -> FALSE

RightDouble(n, a) ==
  CASE a.status = {} -> NextTo(n, a.result)
    [] a.status = {"precisionLoss"} -> NextTo(n, a.result)
    [] a.status = {"posOverflow"} ->
         a.result = Infinity /\ \A w \in Floats : Order(n, w) > 0
    [] a.status = {"negOverflow"} ->
         a.result = -Infinity /\ \A w \in Floats : Order(n, -w) < 0
    [] OTHER -> FALSE

ToldNative(v, answers, min, max) ==
  \A a \in answers :
    CASE a.status = {} -> a.result * Quantum - v \in -Tolerance..Tolerance
      [] a.status = {"precisionLoss"} ->
           a.result = Quotient(v, Quantum) \/ Quotient(v, Quantum) \notin min..max
      [] a.status = {"posOverflow"} -> v > max * Quantum /\ a.result = max
      [] a.status = {"negOverflow"} -> v < min * Quantum /\ a.result = min
      [] OTHER -> FALSE

(* The status of a conversion tells the truth.  Of a text, CONV_OK means   *)
(* that the integer is the number, a precision loss that it is the whole   *)
(* part of it; the double is the number or next to it, with both.  Of a    *)
(* double, CONV_OK means that the integer is within the tolerance, which   *)
(* is less than the "accurate value" of jobject.h:1150 and 1197.  An       *)
(* overflow means that the number really is out of range, and the result   *)
(* is the end of the range (jstr_to_i32, jstr_to_i64, jstr_to_double and   *)
(* their counterparts for numbers that are no texts).  Excepted are the    *)
(* texts in whose reading the code has met one of:                         *)
(*   wraps            digits behind the dot exceed the fraction, or the    *)
(*                    zeroes behind it the product base                    *)
(*   cutBehindZeroes  digits behind zeroes no longer fit: what is left of  *)
(*                    the number is short of the width                     *)
(*   expWraps         decimals and exponent together exceed the exponent   *)
(*   zeroOverflows    0 with an exponent that does not fit                 *)
NumberTold ==
  IF numType = "raw"
  THEN \A c \in Components(numParse) :
         \/ c.flags = {"notANum"}
         \/ c.odd # {}
         \/ LET n == Meaning(numText)
            IN /\ RightInteger(n, ToI64(c), IMin, IMax)
               /\ RightInteger(n, ToI32(c), IntMin, IntMax)
               /\ RightDouble(n, ToDouble(c))
  ELSE LET n == Native(numType, numNative)
           v == IF numType = "int" THEN numNative * Quantum ELSE numNative
       IN /\ ToldNative(v, GetI64(n), IMin, IMax)
          /\ ToldNative(v, GetI32(n), IntMin, IntMax)
          /\ GetF64(n).status = {} => GetF64(n).result = v

(* Numbers to compare with: of both native types, around the ends of int   *)
(* and of what a double tells apart.                                       *)
Others ==
  {Native("int", i) : i \in {IMin, -1, 0, 2, ExactInDouble + 2, IMax}} \cup
  {Native("float", v) : v \in {-Quantum, 0, Quantum \div 2, 2 * Quantum, I64AsDouble(IMax)}}

Between(n, v) ==
  {w \in SignedFloats :
     \/ w < v /\ Order(n, w) < 0
     \/ w > v /\ Order(n, w) > 0}

(* Comparison never turns the order of two numbers around, and takes two   *)
(* numbers for equal only if they round to the same double, with at most   *)
(* that one between them, whatever types they have and from whichever side *)
(* they are compared (jnumber_compare).  A text is excepted as above.      *)
NumbersOrdered ==
  numType = "raw" =>
    \A c \in Components(numParse) : \A other \in Others :
      \/ c.flags = {"notANum"}
      \/ c.odd # {}
      \/ LET n == Meaning(numText)
             v == IF other.type = "int" THEN other.is * Quantum ELSE other.is
             verdict == Compare(Raw(c), other)
         IN /\ verdict # 0 => verdict = Order(n, v)
            /\ verdict = 0 => Cardinality(Between(n, v)) <= 1
            /\ Compare(other, Raw(c)) = -verdict
=============================================================================
