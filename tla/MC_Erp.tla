-------------------------------- MODULE MC_Erp --------------------------------
(***************************************************************************)
(* A connection, room for another, and two operations at once on them or   *)
(* on a client that posts; and the payload of a posting, which no state of *)
(* the client depends on, checked over bounded invoices.                   *)
(***************************************************************************)
EXTENDS ErpProperties, S4Invoice, TLC

Config(kind, key, user, password, secret) ==
  [f \in Fields |-> CASE f = "baseUrl"  -> "https" [] f = "authKind" -> kind
                      [] f = "apiKey"   -> key     [] f = "user"     -> user
                      [] f = "password" -> password [] OTHER         -> secret]
MCFirstConfig == [erp |-> Config("apiKey", "k1", "u1", "p1", Blank)]
MCNewConfigs == {Config("oauth2", Blank, Blank, Blank, "s1"),
                 Config("basic", "k1", "u1", Blank, Blank),
                 Config("apiKey", "dots", Blank, Blank, Blank)}
MCPatches == {[authKind |-> "basic"], [password |-> Blank], [apiKey |-> "k2", baseUrl |-> "https2"]}
Operations == Permutations(Call)

-----------------------------------------------------------------------------
Key(n)     == [name |-> "key", len |-> n]
Posting(number, codes, orders, account, amount) ==
  [company |-> Key(4), currency |-> Key(3), supplier |-> Key(10), number |-> Key(number),
   gross |-> 1190000, tax |-> 190000,
   poLines |-> [i \in 1..orders |-> [po |-> Key(10), line |-> 10 * i, amount |-> amount, quantity |-> 12345]],
   glLines |-> [i \in DOMAIN codes |-> [account |-> Key(account), centre |-> NoCode,
                                       amount |-> amount, taxCode |-> codes[i]]]]
TaxCodes == {NoCode, [name |-> "V1", len |-> 2], [name |-> "V0", len |-> 2]}
Postings == {Posting(number, codes, orders, account, amount) :
               number \in {16, 17}, codes \in UNION {[1..n -> TaxCodes] : n \in 0..2},
               orders \in 0..2, account \in {10, 11}, amount \in {-150, 149}}

\* The reference: what is refused is an invoice without lines, with a key longer than SAP's
\* field, or with an order's line and no tax code anywhere; and a payload is complete.
ASSUME PayloadIsWholeOrRefused ==
  \A p \in Postings :
    LET payload == BuildSupplierInvoicePayload(p)
        lines   == Len(p.poLines) + Len(p.glLines)
        coded   == \E i \in DOMAIN p.glLines : p.glLines[i].taxCode # NoCode
    IN  /\ payload = Unmappable <=> \/ lines = 0
                                    \/ p.number.len = 17
                                    \/ p.glLines # <<>> /\ p.glLines[1].account.len = 11
                                    \/ p.poLines # <<>> /\ ~coded
        /\ payload # Unmappable =>
             /\ Len(payload.poItems) + Len(payload.glItems) = lines
             /\ payload.tax # <<>> <=> coded

\* Amounts go out to the nearest cent, and an item number with more digits than its field
\* is neither cut nor refused.
ASSUME NumbersWritten ==
  /\ Hundredths(149) = 1 /\ Hundredths(151) = 2 /\ Hundredths(-151) = -2 /\ Hundredths(0) = 0
  /\ ItemNo(1, "SupplierInvoiceItemPurOrdRef").len = 6
  /\ ItemNo(9999, "SupplierInvoiceItemGLAcct").len = 4 /\ ItemNo(10000, "SupplierInvoiceItemGLAcct").len = 5
=============================================================================
