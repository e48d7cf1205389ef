--------------------------- MODULE ApprovalRound ---------------------------
(***************************************************************************)
(* What the approval engine promises about one invoice: approval happens   *)
(* in rounds, one open at a time.  While a round is open people are asked, *)
(* answer, hand the question on or are let off; it closes once, when       *)
(* nobody is being asked any more, and it closes approved only if somebody *)
(* said yes in that very round, or its policy waives the question.  A      *)
(* withdrawn round keeps no question open and passes no answer on to the   *)
(* next.                                                                   *)
(***************************************************************************)
EXTENDS Naturals

VARIABLES round,   \* rounds opened so far
          result,  \* of the latest round
          waived,  \* its policy has a way to approval that asks nobody
          asked,   \* questions open in it
          yes      \* questions answered yes in it

vars == <<round, result, waived, asked, yes>>

Init == round = 0 /\ result = "none" /\ waived = FALSE /\ asked = {} /\ yes = {}

\* A new round starts with no question and no answer.
Open == /\ result # "open"
        /\ round' = round + 1
        /\ result' = "open"
        /\ waived' \in BOOLEAN
        /\ asked' = {} /\ yes' = {}

\* Questions nobody was asked before are put to people.
Ask == /\ result = "open"
       /\ asked \subseteq asked'
       /\ asked' \cap yes = {}
       /\ UNCHANGED <<round, result, waived, yes>>

\* Open questions are answered no, handed on, skipped or cancelled.
Drop == /\ result = "open"
        /\ asked' \subseteq asked
        /\ UNCHANGED <<round, result, waived, yes>>

\* One open question is answered yes.
Consent == /\ result = "open"
           /\ \E q \in asked : asked' = asked \ {q} /\ yes' = yes \cup {q}
           /\ UNCHANGED <<round, result, waived>>

Close == /\ result = "open"
         /\ asked = {}
         /\ \/ result' = "approved" /\ (waived \/ yes # {})
            \/ result' \in {"rejected", "withdrawn"}
         /\ UNCHANGED <<round, waived, asked, yes>>

Next == Open \/ Ask \/ Drop \/ Consent \/ Close

Spec == Init /\ [][Next]_vars
=============================================================================
