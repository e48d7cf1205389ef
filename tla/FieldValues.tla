---------------------------- MODULE FieldValues ----------------------------
(***************************************************************************)
(* What a person types into a field of an invoice and what the server      *)
(* stores of it: CORRECTABLE_FIELDS of invoices.service.ts with its parsers *)
(* of dates and money.                                                     *)
(*                                                                         *)
(* A typed amount is its groups of digits and the separators between them: *)
(* 1.500,5 is <<1, 500, 5>> with <<"point", "comma">>, where a group keeps *)
(* how many digits it has (len) and their value (val).  A stored amount    *)
(* counts cents; a stored date is year * 10000 + month * 100 + day.        *)
(* A text is its word, whether it is in small letters, and whether blanks  *)
(* were typed around it.  Blanks and currency signs in an amount and       *)
(* blanks around a date, which the parsers drop first, are left out.       *)
(***************************************************************************)
EXTENDS Integers, Sequences, SequencesExt

CONSTANT Refused   \* BadRequestException

FieldKind ==
  [field \in {"invoiceNumber", "poNumber", "referenceNumber", "vendorTaxId", "currency",
              "invoiceDate", "dueDate", "supplyDate", "subtotal", "taxAmount", "totalAmount"} |->
     CASE field \in {"invoiceDate", "dueDate", "supplyDate"}    -> "date"
       [] field \in {"subtotal", "taxAmount", "totalAmount"}    -> "money"
       [] OTHER                                                 -> "text"]

-----------------------------------------------------------------------------
(* Money.                                                                  *)

Digits(groups) ==
  LET read[i \in 0..Len(groups)] ==
        IF i = 0 THEN [len |-> 0, val |-> 0]
        ELSE [len |-> read[i - 1].len + groups[i].len,
              val |-> read[i - 1].val * 10^groups[i].len + groups[i].val]
  IN  read[Len(groups)]

\* integerPart and decimalPart as the rules split them, or Refused.
SplitAt(t, at) == [integer |-> Digits(SubSeq(t.groups, 1, at)), decimal |-> t.groups[at + 1]]
Whole(t)       == [integer |-> Digits(t.groups), decimal |-> [len |-> 0, val |-> 0]]

\* Mutant: the last separator is a decimal point, with decimals cut to two.
SplitDecimal(t) ==
  IF t.seps = <<>> THEN Whole(t) ELSE
  LET s == SplitAt(t, Len(t.seps)) IN
  [s EXCEPT !.decimal = IF @.len <= 2 THEN @ ELSE [len |-> 2, val |-> @.val \div 10^(@.len - 2)]]

Split(t) ==
  LET n == Len(t.seps)  after == t.groups[n + 1] IN
  CASE n = 0                                -> Whole(t)
    [] n > 0 /\ Cardinality(ToSet(t.seps)) = 2 -> SplitAt(t, n)
    [] n > 1 /\ Cardinality(ToSet(t.seps)) = 1 -> Whole(t)
    [] n = 1 /\ after.len >= 3              -> Refused
    [] OTHER                                -> SplitAt(t, 1)

parseMoneyOrThrow(t) ==
  LET s == Split(t) IN
  IF s = Refused \/ s.integer.len = 0 \/ s.decimal.len > 2 THEN Refused
  ELSE (IF t.negative THEN -1 ELSE 1)
       * (s.integer.val * 100 + s.decimal.val * 10^(2 - s.decimal.len))

-----------------------------------------------------------------------------
(* Dates: ISO, or day first.                                               *)

Leap(y) == y % 4 = 0 /\ (y % 100 # 0 \/ y % 400 = 0)
DaysIn(y, mo) ==
  CASE mo = 2 -> IF Leap(y) THEN 29 ELSE 28
    [] mo \in {4, 6, 9, 11} -> 30
    [] OTHER -> 31

\* Date.UTC moves the years 0 to 99 to the last century, which is refused like any
\* other date that rolls over.
buildDateOrThrow(y, mo, d) ==
  IF y >= 100 /\ mo \in 1..12 /\ d \in 1..DaysIn(y, mo)
  THEN y * 10000 + mo * 100 + d ELSE Refused

parseDateOrThrow(t) ==
  CASE t.form = "YYYY-MM-DD" -> buildDateOrThrow(t.parts[1], t.parts[2], t.parts[3])
    [] t.form = "DD/MM/YYYY" -> buildDateOrThrow(t.parts[3], t.parts[2], t.parts[1])
    [] OTHER                 -> Refused

-----------------------------------------------------------------------------
\* Trimmed; the code of a currency in capitals.
parseText(field, t) == [word |-> t.word, small |-> t.small /\ field # "currency"]

Parse(field, t) ==
  CASE FieldKind[field] = "money" -> parseMoneyOrThrow(t)
    [] FieldKind[field] = "date"  -> parseDateOrThrow(t)
    [] FieldKind[field] = "text"  -> parseText(field, t)

-----------------------------------------------------------------------------
(* How people write: an amount, of either sign, with either decimal mark,  *)
(* its thousands apart or not, and as many decimals as it needs or more; a *)
(* date in ISO form or day first; a text with blanks around it or not, and *)
(* the code of a currency in letters of either case.                       *)

Group(len, val) == [len |-> len, val |-> val]
NumberLen(n) == CHOOSE k \in 1..9 : n < 10^k /\ (k = 1 \/ n >= 10^(k - 1))

\* The groups of three of n, most significant first.
Thousands(n) ==
  IF n < 1000 THEN <<Group(NumberLen(n), n)>>
  ELSE IF n < 1000000
  THEN <<Group(NumberLen(n \div 1000), n \div 1000), Group(3, n % 1000)>>
  ELSE <<Group(NumberLen(n \div 1000000), n \div 1000000),
         Group(3, (n \div 1000) % 1000), Group(3, n % 1000)>>

Magnitude(cents) == IF cents < 0 THEN -cents ELSE cents

WrittenAmount(cents, mark, apart, places) ==
  LET whole  == Magnitude(cents) \div 100
      groups == IF apart THEN Thousands(whole) ELSE <<Group(NumberLen(whole), whole)>>
      other  == IF mark = "point" THEN "comma" ELSE "point"
      seps   == [i \in 1..(Len(groups) - 1) |-> other]
      tail   == (Magnitude(cents) % 100) \div 10^(2 - places)
  IN  [negative |-> cents < 0,
       groups |-> IF places = 0 THEN groups ELSE groups \o <<Group(places, tail)>>,
       seps   |-> IF places = 0 THEN seps ELSE seps \o <<mark>>]

\* All ways to write the amount without losing cents.
Amounts(cents) ==
  {WrittenAmount(cents, mark, apart, places) :
     mark \in {"point", "comma"}, apart \in BOOLEAN,
     places \in {k \in 0..2 : (Magnitude(cents) % 100) % 10^(2 - k) = 0}}

Dates(y, mo, d) ==
  {[form |-> "YYYY-MM-DD", parts |-> <<y, mo, d>>], [form |-> "DD/MM/YYYY", parts |-> <<d, mo, y>>]}

\* A stored text is [word, small].
Texts(field, meant) ==
  {[word |-> meant.word, small |-> small, blanks |-> blanks] :
     small \in {b \in BOOLEAN : b = meant.small \/ field = "currency"}, blanks \in BOOLEAN}

\* The texts that mean a value; whole euros have up to nine digits.
Written(field, meant) ==
  CASE FieldKind[field] = "text"
         /\ meant \in [word : STRING, small : BOOLEAN] /\ (field = "currency" => ~meant.small) ->
         Texts(field, meant)
    [] FieldKind[field] = "date" /\ meant \in Nat ->
         Dates(meant \div 10000, (meant \div 100) % 100, meant % 100)
    [] FieldKind[field] = "money" /\ meant \in Int /\ Magnitude(meant) \div 100 < 10^9 ->
         Amounts(meant)
    [] OTHER -> {}

-----------------------------------------------------------------------------
(* What the code does not keep; see the README.                            *)

\* A day written month first is stored as that day or refused.
MonthFirstAsMeant ==
  \A mo \in 1..12, d \in 1..31 :
    parseDateOrThrow([form |-> "DD/MM/YYYY", parts |-> <<mo, d, 2026>>])
      \in {2026 * 10000 + mo * 100 + d, Refused}
=============================================================================
