---------------------------- MODULE MailDelivery ----------------------------
(***************************************************************************)
(* What the mailbox promises of a message, without polls, crashes or       *)
(* copies: its documents become invoices, it is answered once with a list  *)
(* of those that did not, and only then it leaves the mailbox.             *)
(***************************************************************************)
EXTENDS Naturals

CONSTANTS Message, NoId, IdOf, DocumentsOf

VARIABLES settled,  \* documents with an invoice that somebody can act on
          answers,  \* what was answered: message id and failed documents
          gone      \* messages no poll sees again

dvars == <<settled, answers, gone>>

DeliveryInit == settled = {} /\ answers = {} /\ gone = {}

Settle ==
  \E m \in Message : \E d \in DocumentsOf[m] :
    settled' = settled \cup {d} /\ UNCHANGED <<answers, gone>>

Answer ==
  \E m \in Message : \E failed \in SUBSET DocumentsOf[m] :
    /\ IdOf[m] # NoId /\ \A a \in answers : a.id # IdOf[m]
    /\ DocumentsOf[m] \subseteq settled \cup failed
    /\ answers' = answers \cup {[id |-> IdOf[m], failed |-> failed]}
    /\ UNCHANGED <<settled, gone>>

Leave ==
  \E ms \in SUBSET Message :
    /\ \A m \in ms : \E a \in answers : a.id = IdOf[m]
    /\ gone' = gone \cup ms
    /\ UNCHANGED <<settled, answers>>

DeliveryNext == Settle \/ Answer \/ Leave
DeliverySpec == DeliveryInit /\ [][DeliveryNext]_dvars
=============================================================================
