---------------------------- MODULE VendorNames ----------------------------
(***************************************************************************)
(* When two spellings are one supplier: vendor-name.ts.                    *)
(*                                                                         *)
(* A printed name is a sequence of printed words; Letters gives what is    *)
(* left of one in lower case without accents, dots and apostrophes ("S.A." *)
(* is "sa"), or NoLetters of a comma or a dash.                            *)
(***************************************************************************)
EXTENDS Naturals, Sequences, SequencesExt

CONSTANTS Word,       \* printed words
          Letters,    \* Letters[w]
          NoLetters

ASSUME LettersAssumption == Letters \in [Word -> STRING] /\ NoLetters \in STRING

\* The legal forms, in the order they are tried, and the words left dangling
\* when one is gone.  All the others are single words as these are.
LegalSuffixes == <<
  <<"sociedad", "limitada">>, <<"sociedad", "anonima">>, <<"slu">>, <<"sl">>, <<"sa">>,
  <<"srl">>, <<"spa">>, <<"bv">>, <<"gmbh", "und", "co", "kg">>, <<"gmbh", "co", "kg">>,
  <<"gmbh">>, <<"ag">>, <<"kg">>, <<"limited">>, <<"ltd">>, <<"inc">>, <<"company">>, <<"co">>,
  <<"zoo">>, <<"sp", "z", "oo">> >>
TrailingConnectives == << <<"and">>, <<"und">>, <<"y">>, <<"e">> >>
Strippable == LegalSuffixes \o TrailingConnectives

\* One pass: the first suffix that ends the name goes, unless it is the name.
StripOnce(s) ==
  LET hits == {k \in DOMAIN Strippable : IsSuffix(Strippable[k], s)}
      x    == Strippable[CHOOSE k \in hits : \A j \in hits : k <= j]
  IN  IF hits = {} \/ x = s THEN s ELSE SubSeq(s, 1, Len(s) - Len(x))

\* Passes until nothing changes; each takes a word at least.
StripTrailingLegalSuffixes(s) ==
  LET Pass[n \in 0..Len(s)] == IF n = 0 THEN s ELSE StripOnce(Pass[n - 1])
  IN  Pass[Len(s)]

Folded(name) ==
  LET letters == [i \in DOMAIN name |-> IF name[i] = "&" THEN "and" ELSE Letters[name[i]]]
  IN  SelectSeq(letters, LAMBDA w : w # NoLetters)

WithoutArticle(s) == IF Len(s) > 1 /\ Head(s) = "the" THEN Tail(s) ELSE s

\* The empty sequence: a name without identity, which resolves to no vendor.
NormaliseVendorName(name) == StripTrailingLegalSuffixes(WithoutArticle(Folded(name)))

IsSameVendorName(a, b) ==
  NormaliseVendorName(a) # <<>> /\ NormaliseVendorName(a) = NormaliseVendorName(b)
=============================================================================
