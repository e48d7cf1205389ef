------------------------------ MODULE Authority ------------------------------
(***************************************************************************)
(* The decisions of access, pure: the Chart of Authority                   *)
(* (approval-authority.ts), whom a verified token belongs to               *)
(* (identity-link.ts), and which roles reach which route.                  *)
(*                                                                         *)
(* A grant is [user, type, currency, from, to, since, until]; Unset in type, *)
(* since or until is the null of the column.  A request is [total,         *)
(* currency, type, at], None where the invoice has no value.               *)
(***************************************************************************)
EXTENDS Naturals, FiniteSets

CONSTANTS Unset, None

InForce(g, at) ==
  /\ g.since = Unset \/ at >= g.since
  /\ g.until = Unset \/ at <= g.until

InBand(g, total) == total >= g.from /\ total <= g.to

Covers(g, user, r) ==
  /\ g.user = user /\ InForce(g, r.at) /\ g.currency = r.currency
  /\ g.type = Unset \/ g.type = r.type
  /\ r.total # None /\ InBand(g, r.total)

\* authoriseApproval: the verdict, or what fell short.
AuthoriseApproval(grants, user, r) ==
  LET mine       == {g \in grants : g.user = user}
      inForce    == {g \in mine : InForce(g, r.at)}
      sameMoney  == {g \in inForce : g.currency = r.currency}
      applicable == {g \in sameMoney : g.type = Unset \/ g.type = r.type}
  IN  CASE r.total = None                        -> "no total"
        [] r.currency = None                     -> "no currency"
        [] mine = {}                             -> "no authority"
        [] \E g \in mine : Covers(g, user, r)    -> "authorised"
        [] inForce = {}                          -> "not in force"
        [] sameMoney = {}                        -> "other currency"
        [] applicable = {}                       -> "other type"
        [] OTHER                                 -> "above the limit"

\* whoCanApprove, asked by an administrator when an invoice is stuck.
WhoCanApprove(grants, r) == {g.user : g \in {h \in grants : Covers(h, h.user, r)}}

-----------------------------------------------------------------------------
(* decideLink.  A token is [identity, email, verified], identity standing  *)
(* for issuer and subject; a row is [tenant, email, role, active, sso].    *)

EmailVerified(claim) == claim \in {"TRUE", "true"}   \* the boolean, or the string

Reject  == [kind |-> "REJECT"]
Only(S) == CHOOSE x \in S : TRUE

\* bySubject and byEmail are sets of rows, each with the id of its user.
DecideLink(token, bySubject, byEmail) ==
  CASE Cardinality(bySubject) > 1            -> Reject
    [] Cardinality(bySubject) = 1            ->
         IF Only(bySubject).active THEN [kind |-> "MATCHED", user |-> Only(bySubject)] ELSE Reject
    [] token.email = None                    -> Reject
    [] ~EmailVerified(token.verified)        -> Reject
    [] Cardinality(byEmail) # 1              -> Reject   \* nobody, or two tenants
    [] ~Only(byEmail).active                 -> Reject
    [] Only(byEmail).sso # None              -> Reject
    [] OTHER                                 -> [kind |-> "BIND_SUBJECT", user |-> Only(byEmail)]

ROLES == {"AP_CLERK", "AP_MANAGER", "APPROVER", "CONTROLLER", "ADMIN"}

\* The guard's metadata of the routes modelled here.
RequiredRoles(kind) ==
  IF kind = "approve" THEN {"APPROVER", "AP_MANAGER", "CONTROLLER"} ELSE {"ADMIN"}
=============================================================================
