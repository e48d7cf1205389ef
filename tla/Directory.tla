------------------------------ MODULE Directory ------------------------------
(***************************************************************************)
(* Users, sign-in and the Chart of Authority: auth.guard.ts,               *)
(* auth.service.ts, users.controller.ts, authorities.controller.ts, and    *)
(* the engine's check of an approval limit.                                *)
(*                                                                         *)
(* A request first signs in, then runs its handler: req[w].pc is the       *)
(* statement it executes next, the rest of the record its locals.  The     *)
(* principal it acts as is the row read at sign-in, whatever becomes of    *)
(* that row meanwhile.                                                     *)
(***************************************************************************)
EXTENDS Authority

CONSTANTS
  Worker,   \* requests in flight
  UserId,
  Tenant,   \* tenants
  Email, Identity,
  Seed,     \* the users there at first
  NoUser,   \* a row not inserted yet
  Request,  \* what is asked of the API: by a verified token, kind and arguments
  Grant,    \* rows the Chart of Authority may have
  MaxOps    \* bound on requests

\* The rows of users; the argument of a request has passed the DTO's validation.
User == [tenant : Tenant, email : Email, role : ROLES, active : BOOLEAN, sso : Identity \cup {None}]

ASSUME DirectoryAssumption ==
  /\ NoUser \notin Tenant /\ NoUser \notin User /\ None \notin Identity /\ MaxOps \in Nat
  /\ DOMAIN Seed \subseteq UserId /\ Seed \in [DOMAIN Seed -> User]
  /\ \A u, v \in DOMAIN Seed : u # v =>
       /\ Seed[u].tenant # Seed[v].tenant \/ Seed[u].email # Seed[v].email
       /\ Seed[u].sso # None => Seed[u].sso # Seed[v].sso
  /\ Unset \notin ROLES /\ Unset \notin BOOLEAN
\* What a route asks for, after its DTO is validated.
Kind == {"createUser", "updateUser", "createGrant", "removeGrant", "setEnforcement", "approve",
         "createDefinition", "publishDefinition", "retireDefinition"}
ASSUME RequestAssumption == \A r \in Request : LET op == r.op IN
  /\ r.token.identity \in Identity /\ op.kind \in Kind
  /\ op.kind = "createUser" => op.email \in Email /\ op.role \in ROLES
  /\ op.kind = "updateUser" =>
       op.target \in UserId /\ op.role \in ROLES \cup {Unset} /\ op.active \in BOOLEAN \cup {Unset}
  /\ op.kind = "createGrant" => op.grant \in Grant
  /\ op.kind = "setEnforcement" => op.enabled \in BOOLEAN

VARIABLES users,     \* the table, by id
          grants,    \* the table approval_authorities
          enforced,  \* tenants.enforceApprovalLimits
          req,       \* the requests in flight
          overlap,   \* an administrator was stripped while another was about to be
          ops

directory == <<users, grants, enforced, overlap>>

Known  == {u \in UserId : users[u] # NoUser}
Row(u) == [id |-> u, tenant |-> users[u].tenant, email |-> users[u].email,
           role |-> users[u].role, active |-> users[u].active, sso |-> users[u].sso]

Resting == [pc |-> "idle", token |-> None, op |-> None, by |-> {}, me |-> NoUser,
            target |-> NoUser, version |-> 0, seen |-> {}, locked |-> {}]
At(w, l)   == req[w].pc = l
Set(w, r)  == req' = [req EXCEPT ![w] = r]
Goto(w, l) == Set(w, [req[w] EXCEPT !.pc = l])
Ends(w)    == Set(w, Resting)
Asked(w)   == req[w].op
Home(w)    == req[w].me.tenant

-----------------------------------------------------------------------------
(* canActivate and resolvePrincipal.                                       *)

Start(w) ==
  /\ At(w, "idle") /\ ops < MaxOps /\ ops' = ops + 1
  /\ \E r \in Request : Set(w, [Resting EXCEPT !.pc = "subject", !.token = r.token, !.op = r.op])
  /\ UNCHANGED directory

FindBySubject(w) ==
  /\ At(w, "subject")
  /\ Set(w, [req[w] EXCEPT !.pc = "email",
       !.by = {Row(u) : u \in {v \in Known : users[v].sso = req[w].token.identity}}])
  /\ UNCHANGED <<directory, ops>>

\* The role of the row, never of the token, opens the handler.
Admit(r, row) ==
  IF row.role \in RequiredRoles(r.op.kind)
  THEN [r EXCEPT !.pc = r.op.kind, !.by = {}, !.me = row]
  ELSE Resting

\* The email is looked up across tenants, and the two reads are decided on.
ResolvePrincipal(w) ==
  /\ At(w, "email")
  /\ LET byEmail == {Row(u) : u \in {v \in Known : users[v].email = req[w].token.email}}
         link == DecideLink(req[w].token, req[w].by, byEmail)
     IN  Set(w, CASE link.kind = "MATCHED"      -> Admit(req[w], link.user)
                  [] link.kind = "BIND_SUBJECT" -> [req[w] EXCEPT !.pc = "bind", !.me = link.user]
                  [] OTHER                      -> Resting)
  /\ UNCHANGED <<directory, ops>>

\* Mutant of BindSubject: without WHERE sso_subject IS NULL.
BindSubjectOver(w) ==
  /\ At(w, "bind")
  /\ users' = [users EXCEPT ![req[w].me.id].sso = req[w].token.identity]
  /\ Set(w, Admit(req[w], [req[w].me EXCEPT !.sso = req[w].token.identity]))
  /\ UNCHANGED <<grants, enforced, overlap, ops>>

\* First login: the row is claimed if it is still unclaimed and nobody else has this
\* identity; otherwise the caller is refused.
BindSubject(w) ==
  /\ At(w, "bind")
  /\ LET u == req[w].me.id
         identity == req[w].token.identity
     IN  IF users[u].sso = None /\ \A v \in Known : users[v].sso # identity
         THEN /\ users' = [users EXCEPT ![u].sso = identity]
              /\ Set(w, Admit(req[w], [req[w].me EXCEPT !.sso = identity]))
         ELSE Ends(w) /\ UNCHANGED users
  /\ UNCHANGED <<grants, enforced, overlap, ops>>

-----------------------------------------------------------------------------
(* AdminUsersController.                                                   *)

Taken(tenant, email) ==
  \E u \in Known : users[u].tenant = tenant /\ users[u].email = email

CreateUser(w) ==
  /\ At(w, "createUser")
  /\ IF Taken(Home(w), Asked(w).email) THEN Ends(w) ELSE Goto(w, "insertUser")
  /\ UNCHANGED <<directory, ops>>

\* A shell an identity binds to later; the unique (tenant, email) refuses a second.
InsertUser(w) ==
  /\ At(w, "insertUser")
  /\ IF Taken(Home(w), Asked(w).email) THEN UNCHANGED users
     ELSE \E u \in UserId \ Known :
            users' = [users EXCEPT ![u] = [tenant |-> Home(w), email |-> Asked(w).email,
                                           role |-> Asked(w).role, active |-> TRUE, sso |-> None]]
  /\ Ends(w)
  /\ UNCHANGED <<grants, enforced, overlap, ops>>

\* An update is [target, role, active], Unset where the field is not sent.
TakesAccess(op)  == op.role \notin {Unset, "ADMIN"} \/ op.active = FALSE
Demotes(op, row) == TakesAccess(op) /\ row.role = "ADMIN"

\* Nobody takes the administrator's role from themselves.
ReadTarget(w) ==
  /\ At(w, "updateUser")
  /\ LET u == Asked(w).target
         self == u = req[w].me.id
     IN  IF \/ u \notin Known \/ users[u].tenant # Home(w)
            \/ self /\ TakesAccess(Asked(w))
         THEN Ends(w)
         ELSE Set(w, [req[w] EXCEPT !.target = Row(u),
                !.pc = IF Demotes(Asked(w), Row(u)) THEN "others" ELSE "writeUser"])
  /\ UNCHANGED <<directory, ops>>

Administrators(t) ==
  {u \in Known : users[u].tenant = t /\ users[u].role = "ADMIN" /\ users[u].active}

\* Mutant of LastAdmin: deactivated administrators count.
LastAdminInactive(w) ==
  /\ At(w, "others")
  /\ LET others == {u \in Known : users[u].tenant = Home(w) /\ users[u].role = "ADMIN"}
     IN  IF others \ {req[w].target.id} = {}
         THEN Ends(w) ELSE Goto(w, "writeUser")
  /\ UNCHANGED <<directory, ops>>

\* ... nor from the last one who has it.
LastAdmin(w) ==
  /\ At(w, "others")
  /\ IF Administrators(Home(w)) \ {req[w].target.id} = {}
     THEN Ends(w) ELSE Goto(w, "writeUser")
  /\ UNCHANGED <<directory, ops>>

Or(sent, old) == IF sent = Unset THEN old ELSE sent

\* Past its checks, and about to take an administrator's access.
Strips(w) ==
  At(w, "writeUser") /\ TakesAccess(Asked(w)) /\ Asked(w).target \in Administrators(Home(w))

WriteUser(w) ==
  /\ At(w, "writeUser")
  /\ LET u == Asked(w).target
     IN  users' = [users EXCEPT ![u].role = Or(Asked(w).role, @), ![u].active = Or(Asked(w).active, @)]
  /\ overlap' = \/ overlap
                \/ Strips(w) /\ \E v \in Worker \ {w} : Strips(v) /\ Home(v) = Home(w)
  /\ Ends(w)
  /\ UNCHANGED <<grants, enforced, ops>>

-----------------------------------------------------------------------------
(* AdminAuthoritiesController.                                             *)

\* A band that can never match is refused.
CreateGrant(w) ==
  /\ At(w, "createGrant")
  /\ LET g == Asked(w).grant
     IN  IF g.user \in Known /\ users[g.user].tenant = Home(w) /\ g.to >= g.from
         THEN Goto(w, "insertGrant") ELSE Ends(w)
  /\ UNCHANGED <<directory, ops>>

InsertGrant(w) ==
  /\ At(w, "insertGrant")
  /\ grants' = grants \cup {Asked(w).grant}
  /\ Ends(w)
  /\ UNCHANGED <<users, enforced, overlap, ops>>

RemoveGrant(w) ==
  /\ At(w, "removeGrant")
  /\ grants' = grants \ {Asked(w).grant}
  /\ Ends(w)
  /\ UNCHANGED <<users, enforced, overlap, ops>>

\* Not with an empty table.
SetEnforcement(w) ==
  /\ At(w, "setEnforcement")
  /\ IF Asked(w).enabled /\ grants = {} THEN Ends(w) ELSE Goto(w, "writeEnforced")
  /\ UNCHANGED <<directory, ops>>

WriteEnforced(w) ==
  /\ At(w, "writeEnforced")
  /\ enforced' = Asked(w).enabled
  /\ Ends(w)
  /\ UNCHANGED <<users, grants, overlap, ops>>

-----------------------------------------------------------------------------
(* assertHasApprovalAuthority, of the principal who decides.               *)

Approve(w) ==
  /\ At(w, "approve")
  /\ Goto(w, IF enforced THEN "limits" ELSE "decide")
  /\ UNCHANGED <<directory, ops>>

CheckLimits(w) ==
  /\ At(w, "limits")
  /\ IF AuthoriseApproval(grants, req[w].me.id, Asked(w).request) = "authorised"
     THEN Goto(w, "decide") ELSE Ends(w)
  /\ UNCHANGED <<directory, ops>>

\* The rest of the decision is ApprovalEngine's.
Decide(w) ==
  /\ At(w, "decide")
  /\ Ends(w)
  /\ UNCHANGED <<directory, ops>>

-----------------------------------------------------------------------------
DirectoryInit ==
  /\ users = [u \in UserId |-> IF u \in DOMAIN Seed THEN Seed[u] ELSE NoUser]
  /\ grants = {} /\ enforced = FALSE /\ overlap = FALSE /\ ops = 0
  /\ req = [w \in Worker |-> Resting]

SignIn(w) == FindBySubject(w) \/ ResolvePrincipal(w) \/ BindSubject(w)

Handler(w) ==
  \/ CreateUser(w) \/ InsertUser(w) \/ ReadTarget(w) \/ LastAdmin(w) \/ WriteUser(w)
  \/ CreateGrant(w) \/ InsertGrant(w) \/ RemoveGrant(w)
  \/ SetEnforcement(w) \/ WriteEnforced(w)
  \/ Approve(w) \/ CheckLimits(w) \/ Decide(w)
=============================================================================
