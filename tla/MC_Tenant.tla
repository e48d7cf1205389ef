------------------------------ MODULE MC_Tenant ------------------------------
(***************************************************************************)
(* A tenant with two administrators, one of whom has never signed in, and  *)
(* an approver; another tenant with a user of the invited email.           *)
(***************************************************************************)
EXTENDS TenantProperties, TLC

Person(tenant, email, role, sso) ==
  [tenant |-> tenant, email |-> email, role |-> role, active |-> TRUE, sso |-> sso]
MCSeed == [ann |-> Person("home", "ann", "ADMIN", "sub-ann"), bob |-> Person("home", "bob", "ADMIN", None),
           cy |-> Person("home", "cy", "APPROVER", "sub-cy"), far |-> Person("away", "new", "AP_CLERK", None)]
Sub(identity, email, verified) == [identity |-> identity, email |-> email, verified |-> verified]
Ann == Sub("sub-ann", "ann", "TRUE")
Bob == Sub("sub-bob", "bob", "true")
Two == Sub("sub-two", "bob", "TRUE")   \* a second identity with Bob's email
Cy  == Sub("sub-cy", None, None)
New == Sub("sub-new", "new", "TRUE")
Odd == Sub("sub-odd", "bob", "1")      \* an email nobody verified

Band(from, to) == [user |-> "cy", type |-> "INVOICE", currency |-> "EUR", from |-> from, to |-> to,
                   since |-> Unset, until |-> 5]
MCGrant == {Band(0, 10), Band(9, 8)}
Ask(total) == [total |-> total, currency |-> "EUR", type |-> "INVOICE", at |-> 3]

Update(target, role, active) ==
  [kind |-> "updateUser", target |-> target, role |-> role, active |-> active]
By(token, asked) == {[token |-> token, op |-> o] : o \in asked}
MCRequest ==
  By(Ann, {[kind |-> "createUser", email |-> "new", role |-> "APPROVER"],
           Update("ann", Unset, FALSE), Update("bob", Unset, FALSE), Update("bob", "ADMIN", TRUE),
           Update("far", "ADMIN", Unset), Update("cy", "ADMIN", Unset), Update("cy", "AP_CLERK", Unset),
           [kind |-> "createGrant", grant |-> Band(0, 10)], [kind |-> "createGrant", grant |-> Band(9, 8)],
           [kind |-> "removeGrant", grant |-> Band(0, 10)], [kind |-> "setEnforcement", enabled |-> TRUE],
           [kind |-> "createDefinition", name |-> "main"],
           [kind |-> "publishDefinition", def |-> 2], [kind |-> "publishDefinition", def |-> 3],
           [kind |-> "retireDefinition", def |-> 2]})
  \cup By(Bob, {Update("ann", "APPROVER", Unset), [kind |-> "publishDefinition", def |-> 2],
                [kind |-> "createDefinition", name |-> "main"],
                [kind |-> "createUser", email |-> "new", role |-> "APPROVER"]})
  \cup By(Two, {Update("ann", Unset, FALSE)})
  \cup By(Cy, {[kind |-> "approve", request |-> Ask(10)], [kind |-> "approve", request |-> Ask(11)]})
  \cup By(New, {[kind |-> "approve", request |-> Ask(10)]})
  \cup By(Odd, {[kind |-> "publishDefinition", def |-> 3]})
MCFirstDefs == <<[name |-> "main", version |-> 1, status |-> "PUBLISHED"],
                 [name |-> "main", version |-> 2, status |-> "DRAFT"],
                 [name |-> "other", version |-> 1, status |-> "DRAFT"]>>
=============================================================================
