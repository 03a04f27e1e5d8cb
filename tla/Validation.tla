----------------------------- MODULE Validation -----------------------------
(***************************************************************************)
(* The rules of a field and the value it gets (server/validation.c).       *)
(* A text is what the rules look at: its length, the integer it spells if  *)
(* it is one, and the formats whose validator accepts it (a format that    *)
(* has none accepts every text).  A JSON number counts in tenths.          *)
(*                                                                         *)
(* A field has no `pattern': parseApiFields stores type, required, format, *)
(* range and length and passes over any other word (parser.c), so the test *)
(* of validate.match.pattern in validateField can only meet the bytes of a *)
(* range, with which it shares memory (ast.h); IsDefined excludes that.    *)
(***************************************************************************)
EXTENDS Integers, FiniteSets

CONSTANTS
  None,      \* no value, no format, no type
  NotANumber,
  IntBits,   \* widths of int and long
  LongBits

ASSUME ValidationAssumption ==
  /\ IntBits \in Nat \ {0} /\ LongBits \in Nat \ {0} /\ IntBits <= LongBits
  /\ NotANumber \notin Int

\* A property of the rules, 0 or None if it is not given.
Field(type, required) ==
  [type |-> type, required |-> required, min |-> 0, max |-> 0,
   minLength |-> 0, maxLength |-> 0, format |-> None]

Text(length, number, matches) ==
  [kind |-> "text", length |-> length, number |-> number, matches |-> matches]
Number(tenths, matches) == [kind |-> "number", tenths |-> tenths, matches |-> matches]
Other == [kind |-> "other"]     \* a JSON value that is neither
NotJson == [kind |-> "broken"]   \* text that is not JSON

-----------------------------------------------------------------------------
Width(bits) == -2^(bits - 1) .. 2^(bits - 1) - 1

\* atoi: strtol stops at the limits of long; int keeps the low bits.
Atoi(n) ==
  LET least == -2^(LongBits - 1)
      most  == 2^(LongBits - 1) - 1
      long  == IF n < least THEN least ELSE IF n > most THEN most ELSE n
  IN ((long + 2^(IntBits - 1)) % 2^IntBits) - 2^(IntBits - 1)

validateLength(field, text) ==
  field.minLength > 0 \/ field.maxLength > 0 =>
    field.minLength <= text.length /\ text.length <= field.maxLength

\* Mutant: the test of the upper bound is missing.
inRange_NoMax(field, n) ==
  field.min # 0 \/ field.max # 0 => field.min <= Atoi(n)

inRange(field, n) ==
  field.min # 0 \/ field.max # 0 => field.min <= Atoi(n) /\ Atoi(n) <= field.max

validateField(field, text) ==
  IF text = None THEN ~field.required
  ELSE /\ field.type = "string" =>
            /\ validateLength(field, text)
            /\ field.format \in text.matches \cup {None}
       /\ field.type = "number" =>
            text.number # NotANumber /\ inRange(field, text.number)

Abs(n) == IF n < 0 THEN -n ELSE n

\* printf's "%.0f": the nearest integer, and of two the even one.
Rounded(tenths) ==
  LET floor == tenths \div 10
      rest  == tenths % 10
  IN IF rest > 5 \/ (rest = 5 /\ floor % 2 = 1) THEN floor + 1 ELSE floor

\* The number of characters of an integer.
Digits(n) == 1 + Cardinality({d \in 1..8 : 10^d <= Abs(n)})
Printed(v) ==
  LET n == Rounded(v.tenths)
  IN Text(Digits(n) + IF v.tenths < 0 THEN 1 ELSE 0, n, v.matches)

\* What validateJsonFields looks at: a value of another type is not there.
TextOf(v) ==
  IF v = None \/ v.kind = "other" THEN None
  ELSE IF v.kind = "number" THEN Printed(v) ELSE v

(* What the constants of a site may be *)

(* validateField compares the type, so there must be one; a range on a     *)
(* text makes it read the two integers as the pointer of a pattern.  What  *)
(* follows is undefined, and nothing is said of such a field.              *)
IsDefined(field) ==
  /\ field.type # None
  /\ field.type = "string" => field.min = 0 /\ field.max = 0

IsRules(field) ==
  /\ IsDefined(field)
  /\ {field.min, field.max, field.minLength, field.maxLength} \subseteq Int
IsText(v) ==
  /\ v.kind = "text" /\ v = Text(v.length, v.number, v.matches)
  /\ v.length \in Nat /\ v.number \in Int \cup {NotANumber}
IsNumber(v) ==
  /\ v.kind = "number" /\ v = Number(v.tenths, v.matches)
  /\ v.tenths \in Int /\ Printed(v) # None

-----------------------------------------------------------------------------
(* What the rules mean, for a value that is there; `required' asks no more *)
(* than that it is: an empty text is refused by a length only.             *)

\* In tenths.
Amount(v) == IF v.kind = "number" THEN v.tenths
             ELSE IF v.number = NotANumber THEN NotANumber ELSE 10 * v.number

Characters(v) == IF v.kind = "number" THEN Printed(v).length ELSE v.length

\* The number, which may be `slack' tenths beside the range.
NumberObeys(field, v, slack) ==
  /\ Amount(v) # NotANumber
  /\ field.min # 0 \/ field.max # 0 =>
       10 * field.min - slack <= Amount(v) /\ Amount(v) <= 10 * field.max + slack

Obeys(field, v, slack) ==
  /\ field.type = "string" =>
       /\ field.minLength <= Characters(v)
       /\ field.maxLength > 0 => Characters(v) <= field.maxLength
       /\ field.format # None => field.format \in v.matches
  /\ field.type = "number" => NumberObeys(field, v, slack)

\* An int can hold the number that is compared.
IsInt(v) == TextOf(v).number = NotANumber \/ TextOf(v).number \in Width(IntBits)
=============================================================================
