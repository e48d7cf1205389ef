-------------------------- MODULE TenantProperties --------------------------
(***************************************************************************)
(* What is promised of a tenant's users and of its workflow, however the   *)
(* requests of administrators and of people signing in overlap.            *)
(***************************************************************************)
EXTENDS Definitions

\* Rows have their types and the unique keys hold: one user per tenant and email, one
\* per identity, one definition per name and version, one published.
TenantTypeOK ==
  /\ users \in [UserId -> User \cup {NoUser}] /\ defs \in Seq(Definition)
  /\ \A u, v \in Known : u # v =>
       /\ users[u].tenant # users[v].tenant \/ users[u].email # users[v].email
       /\ users[u].sso # None => users[u].sso # users[v].sso
  /\ \A d, e \in DOMAIN defs : d # e =>
       defs[d].name # defs[e].name \/ defs[d].version # defs[e].version
  /\ Cardinality(Published) <= 1
  /\ grants \subseteq Grant /\ enforced \in BOOLEAN /\ overlap \in BOOLEAN /\ ops \in 0..MaxOps

\* Whoever acts as a user signed in with the one identity bound to that user: of two
\* first logins to one invited account the second is refused, and nothing that happens
\* to a request later gives its user to somebody else.
ActsAsOwner ==
  \A w \in Worker :
    req[w].me # NoUser /\ ~At(w, "bind") => users[req[w].me.id].sso = req[w].token.identity

\* "lock a tenant out of its own configuration with no way back in": some active
\* administrator is left, unless one is stripped while an update that strips another is
\* past its checks: it counted the first among those left, or its target was no
\* administrator yet when it was read.
AdminLeft ==
  overlap \/ \A u \in DOMAIN Seed :
    Seed[u].role = "ADMIN" /\ Seed[u].active => Administrators(Seed[u].tenant) # {}

\* "a silent hole an invoice could fall into": a tenant that routes its invoices stops
\* doing so only by retiring the definition on purpose, never while publishing another.
NeverUnrouted ==
  [][Published # {} /\ Published' = {} => \E w \in Worker : At(w, "retireRow") /\ RetireRow(w)]_tvars

\* publishDefinition takes rows in two statements, so publications can wait for one
\* another in a circle, which PostgreSQL breaks by failing one of them.  It takes one that
\* has been overtaken: if each saw, in its first UPDATE, what is published now, there is
\* no circle.
CircleOvertaken ==
  \A S \in SUBSET Worker : Stuck(S) => \E u \in S : req[u].seen # Published

\* No request waits for ever for another's transaction: a circle of them is broken, and
\* nothing else keeps a transaction from its end.
RequestsEnd == \A w \in Worker : req[w].pc # "idle" ~> req[w].pc = "idle"

-----------------------------------------------------------------------------
(* What the comments say and the code does not do.                         *)

\* "A retired definition cannot be republished"
RetiredForGood ==
  [][\A d \in DOMAIN defs : defs[d].status = "RETIRED" => defs'[d].status = "RETIRED"]_tvars

\* "the last admin": without the proviso of AdminLeft.
AlwaysAnAdmin == AdminLeft /\ ~overlap

\* An administrator is never refused by a deadlock: without the proviso of CircleOvertaken.
NoCircle == \A S \in SUBSET Worker : ~Stuck(S)

\* "enabling enforcement would block every approval in this tenant"
SomebodyMayApprove == enforced => grants # {}
=============================================================================
