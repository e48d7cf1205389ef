------------------------------ MODULE S4Invoice ------------------------------
(***************************************************************************)
(* The supplier invoice payload of S/4HANA (s4-supplier-invoice.ts).  Pure.*)
(*                                                                         *)
(* A key is [name, len], what it says and how many characters it has.      *)
(* Amounts and quantities are in ten-thousandths, the scale of the columns *)
(* they come from, and go out in hundredths.  NoCode is an absent tax code *)
(* or cost centre.                                                         *)
(*                                                                         *)
(* A posting is [company, currency, supplier, number, gross, tax, poLines, *)
(* glLines]; a PO line [po, line, amount, quantity], a G/L line [account,  *)
(* centre, amount, taxCode].                                               *)
(***************************************************************************)
EXTENDS Integers, Sequences

CONSTANTS NoCode,
          Unmappable   \* S4MappingError

\* The specification's maxLength of each field.
S4FieldLimits ==
  [CompanyCode |-> 4, DocumentCurrency |-> 5, InvoicingParty |-> 10,
   SupplierInvoiceIDByInvcgParty |-> 16, PurchaseOrder |-> 10, PurchaseOrderItem |-> 5,
   TaxCode |-> 2, GLAccount |-> 10, CostCenter |-> 10,
   SupplierInvoiceItemPurOrdRef |-> 6, SupplierInvoiceItemGLAcct |-> 4]

\* fit refuses what is too long instead of cutting it.
Fits(key, field) == key.len <= S4FieldLimits[field]

\* toFixed(2): the nearest; which way an exact half goes depends on its binary fraction.
Hundredths(x) == CHOOSE h \in {x \div 100, x \div 100 + 1} : 100 * h - x \in -50..50

\* A number written out and padded with zeros on the left.
DigitsOf(n) == CHOOSE k \in 1..9 : n < 10^k /\ (k = 1 \/ n >= 10^(k - 1))
Padded(n, width) == [name |-> n, len |-> IF DigitsOf(n) > width THEN DigitsOf(n) ELSE width]
ItemNo(i, field) == Padded(i, S4FieldLimits[field])

-----------------------------------------------------------------------------
\* The tax code of the first G/L line that has one.
HasTaxCode(line) == line.taxCode # NoCode
TaxedLines(p)    == {i \in DOMAIN p.glLines : HasTaxCode(p.glLines[i])}
HeaderTaxCode(p) ==
  IF TaxedLines(p) = {} THEN NoCode
  ELSE p.glLines[CHOOSE i \in TaxedLines(p) : \A j \in TaxedLines(p) : i <= j].taxCode

\* taxCodeFor: a PO line has no code of its own, and SAP requires one.
TaxCodeFor(p) == IF TaxedLines(p) = {} THEN Unmappable ELSE HeaderTaxCode(p)

PoItem(p, i) ==
  LET line == p.poLines[i]
  IN  [item |-> ItemNo(i, "SupplierInvoiceItemPurOrdRef"), po |-> line.po,
       poItem |-> Padded(line.line, 5), taxCode |-> TaxCodeFor(p),
       amount |-> Hundredths(line.amount), quantity |-> Hundredths(line.quantity)]

GlItem(p, i) ==
  LET line == p.glLines[i]
  IN  [item |-> ItemNo(i, "SupplierInvoiceItemGLAcct"), account |-> line.account,
       debitCredit |-> IF line.amount >= 0 THEN "S" ELSE "H",
       taxCode |-> line.taxCode, centre |-> line.centre, amount |-> Hundredths(line.amount)]

HeaderFits(p) ==
  /\ Fits(p.company, "CompanyCode") /\ Fits(p.currency, "DocumentCurrency")
  /\ Fits(p.supplier, "InvoicingParty") /\ Fits(p.number, "SupplierInvoiceIDByInvcgParty")
PoLineFits(p, line) ==
  /\ TaxCodeFor(p) # Unmappable /\ Fits(TaxCodeFor(p), "TaxCode")
  /\ Fits(line.po, "PurchaseOrder") /\ Fits(Padded(line.line, 5), "PurchaseOrderItem")
GlLineFits(line) ==
  /\ Fits(line.account, "GLAccount")
  /\ line.taxCode # NoCode => Fits(line.taxCode, "TaxCode")
  /\ line.centre # NoCode => Fits(line.centre, "CostCenter")

Mappable(p) ==
  /\ p.poLines # <<>> \/ p.glLines # <<>>
  /\ HeaderFits(p)
  /\ \A i \in DOMAIN p.poLines : PoLineFits(p, p.poLines[i])
  /\ \A i \in DOMAIN p.glLines : GlLineFits(p.glLines[i])

\* buildSupplierInvoicePayload: the whole payload or S4MappingError.
BuildSupplierInvoicePayload(p) ==
  IF ~Mappable(p) THEN Unmappable
  ELSE [company |-> p.company, currency |-> p.currency, supplier |-> p.supplier,
        number |-> p.number, gross |-> Hundredths(p.gross),
        poItems |-> [i \in DOMAIN p.poLines |-> PoItem(p, i)],
        glItems |-> [i \in DOMAIN p.glLines |-> GlItem(p, i)],
        tax |-> IF HeaderTaxCode(p) = NoCode THEN <<>>
                ELSE <<[taxCode |-> HeaderTaxCode(p), amount |-> Hundredths(p.tax)]>>]

\* postActionQuery: a document number alone identifies nothing.
PostActionQuery(number, year) ==
  IF number = NoCode \/ year = NoCode THEN Unmappable ELSE [number |-> number, year |-> year]
=============================================================================
