-------------------------- MODULE MC_InboundMailbox --------------------------
(***************************************************************************)
(* A mailbox of two messages: one with no Message-ID, the other with two   *)
(* documents, a signature image and three files refused for type or size.  *)
(***************************************************************************)
EXTENDS MailboxProperties, TLC

File(part, type, size, noise) == [part |-> part, type |-> type, size |-> size, noise |-> noise]
Parts == {File(1, "image/png", 1, FALSE), File(2, "application/pdf", 2, TRUE),
          File(3, "image/png", 1, TRUE),
          File(4, "application/pdf", 0, FALSE), File(5, "application/zip", 1, FALSE),
          File(6, "application/pdf", 21, FALSE)}

MCIdOf     == <<"none", "a">>
MCAttached == <<{}, Parts>>

MCWord    == {"The", "Acme", "ACME", "S.A.", ",", "&", "Co"}
MCLetters == [w \in MCWord |-> CASE w = "The" -> "the" [] w \in {"Acme", "ACME"} -> "acme"
                [] w = "S.A." -> "sa" [] w = "Co" -> "co" [] OTHER -> ""]

\* An answer the model is sure of: one line, the given net and gross amounts.
Says(number, name, net, gross) ==
  LET value == [f \in Header |->
        CASE f = "invoiceNumber" -> number [] f = "vendorName" -> name
          [] f = "subtotal" -> net [] f = "taxAmount" -> 19 [] f = "totalAmount" -> gross
          [] f \in {"invoiceDate", "currency"} -> "read" [] OTHER -> Null]
  IN  [fields |-> [f \in Header |->
         [value |-> value[f], confidence |-> IF value[f] = Null THEN 0 ELSE 95]],
       lines |-> <<[total |-> 100, confidence |-> 95]>>]
Plain(e) == [before |-> FALSE, fenced |-> FALSE, after |-> FALSE, json |-> e]

\* The first document is read in full or not at all; the second repeats its number
\* under another spelling of the supplier, or its net amount is wrong; a file that is
\* uploaded repeats it as well.
MCReply   == {"first", "again", "wrong", "prose"}
MCText    == [r \in MCReply |->
  CASE r = "first" -> Plain(Says("n1", <<"The", "Acme", ",", "S.A.">>, 100, 119))
    [] r = "again" -> [Plain(Says("n1", <<"ACME", "Co", "&", "Co">>, 102, 121))
                         EXCEPT !.fenced = TRUE, !.after = TRUE]
    [] r = "wrong" -> Plain(Says("n1", <<"ACME">>, 106, 119))
    [] OTHER -> [Plain(Says("n1", <<"ACME">>, 100, 119)) EXCEPT !.fenced = TRUE, !.before = TRUE]]
MCReplies == (1 :> {"first"}) @@ (2 :> {"again", "wrong", "prose"}) @@ (7 :> {"first", "again"})
=============================================================================
