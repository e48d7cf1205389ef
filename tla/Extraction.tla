----------------------------- MODULE Extraction -----------------------------
(***************************************************************************)
(* From a document to doubts: the answer of the language model, the        *)
(* arithmetic cross-check of extraction-service/main.py, and what of it    *)
(* the backend sends to a person (extraction-client.service.ts).           *)
(*                                                                         *)
(* Amounts are in cents, confidences in per cent.                          *)
(***************************************************************************)
EXTENDS Integers, Sequences, SequencesExt

CONSTANT Null   \* the value of a field that is not on the document

Amounts  == {"subtotal", "taxAmount", "totalAmount"}
Required == Amounts \cup {"invoiceNumber", "invoiceDate", "currency", "vendorName"}
Optional == {"poNumber", "referenceNumber", "dueDate", "supplyDate", "vendorTaxId", "bankDetails"}
Header   == Required \cup Optional

\* An extraction is a value and a confidence for each header field, and a total
\* and a confidence for each line item.
Value(e, f) == e.fields[f].value
Known(e, f) == Value(e, f) # Null

\* The shape the prompt asks for and the checks rely on.
Parsed(e) ==
  /\ e.lines = [i \in DOMAIN e.lines |-> e.lines[i]]
  /\ \A f \in Header : LET x == e.fields[f] IN
       x = [value |-> x.value, confidence |-> x.confidence] /\ x.confidence \in Int

-----------------------------------------------------------------------------
(* The extraction service.                                                 *)

\* A reply of the model: prose before, JSON in a code fence or not, prose after.
\* strip_code_fence looks for a fence at the very start; only inside one it skips
\* to the first brace and stops at the last.
Unwrapped(reply) ==
  IF ~reply.before /\ (reply.fenced \/ ~reply.after) THEN reply.json ELSE Null

\* Mutant of Cap: a doubtful answer is made more certain.
CapMax(x, c) == [x EXCEPT !.confidence = IF @ > c THEN @ ELSE c]

Cap(x, c) == [x EXCEPT !.confidence = IF @ < c THEN @ ELSE c]

Apart(a, b, cents) == a - b > cents \/ b - a > cents
LineSum(lines) == FoldLeft(LAMBDA sum, li : sum + li.total, 0, lines)

TotalsDisagree(e) ==
  /\ \A f \in Amounts : Known(e, f)
  /\ Apart(Value(e, "subtotal") + Value(e, "taxAmount"), Value(e, "totalAmount"), 2)

\* A line without a total ends this check without a word.
LinesDisagree(e) ==
  /\ Known(e, "subtotal") /\ e.lines # <<>>
  /\ \A i \in DOMAIN e.lines : e.lines[i].total # Null
  /\ Apart(LineSum(e.lines), Value(e, "subtotal"), 5)

\* Confidence is lowered where the arithmetic contradicts it, never raised.
CrossCheck(e) ==
  [fields |-> [f \in Header |->
     LET totals == IF TotalsDisagree(e) /\ f \in Amounts THEN Cap(e.fields[f], 40) ELSE e.fields[f]
     IN  IF LinesDisagree(e) /\ f = "subtotal" THEN Cap(totals, 50) ELSE totals],
   lines |-> [i \in DOMAIN e.lines |->
     IF LinesDisagree(e) THEN Cap(e.lines[i], 60) ELSE e.lines[i]]]

\* POST /extract; Null stands for every error answer.
Extract(reply) == IF Unwrapped(reply) = Null THEN Null ELSE CrossCheck(Unwrapped(reply))

-----------------------------------------------------------------------------
(* The backend.                                                            *)

Threshold == 90
Doubtful(x) == x.confidence < Threshold

\* An optional field is doubtful only where there is a value to doubt.
FieldsNeedingReview(e) ==
  {f \in Required : Doubtful(e.fields[f])}
    \cup {f \in Optional : Known(e, f) /\ Doubtful(e.fields[f])}
LinesNeedingReview(e) == {i \in DOMAIN e.lines : Doubtful(e.lines[i])}
NeedsReview(e) == FieldsNeedingReview(e) # {} \/ LinesNeedingReview(e) # {}

\* fieldConfidence: what is present gets an entry, except the bank details.
FieldConfidence(e) ==
  [f \in Required \cup {g \in Optional \ {"bankDetails"} : Known(e, g)} |-> e.fields[f].confidence]
LowConfidenceFields(e) ==
  {f \in DOMAIN FieldConfidence(e) : FieldConfidence(e)[f] < Threshold}
=============================================================================
