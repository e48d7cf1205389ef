---------------------------- MODULE TenantProofs ----------------------------
(***************************************************************************)
(* What is promised of a tenant, for any users, identities, definitions    *)
(* and any number of requests at once.                                     *)
(***************************************************************************)
EXTENDS TenantProperties, FiniteSetTheorems, WellFoundedInduction, TLAPS

SignInLabel == {"subject", "email", "bind"}
Inside == Kind \cup {"insertUser", "others", "writeUser", "insertGrant", "writeEnforced", "limits",
                     "decide", "insertDefinition", "retireOld", "lockOld", "publishRow", "publishEntry",
                     "commit", "retireRow"}

\* The route whose handler is at a statement.
Route(l) ==
  CASE l \in {"createUser", "insertUser"}                 -> "createUser"
    [] l \in {"updateUser", "others", "writeUser"}        -> "updateUser"
    [] l \in {"createGrant", "insertGrant"}               -> "createGrant"
    [] l = "removeGrant"                                  -> "removeGrant"
    [] l \in {"setEnforcement", "writeEnforced"}          -> "setEnforcement"
    [] l \in {"approve", "limits", "decide"}              -> "approve"
    [] l \in {"createDefinition", "insertDefinition"}     -> "createDefinition"
    [] l \in {"retireDefinition", "retireRow"}            -> "retireDefinition"
    [] OTHER                                              -> "publishDefinition"

\* A row of users with its id.
Line == [id : UserId, tenant : Tenant, email : Email, role : ROLES, active : BOOLEAN,
         sso : Identity \cup {None}]

Local ==
  [pc : {"idle"} \cup SignInLabel \cup Inside, token : {r.token : r \in Request} \cup {None},
   op : {r.op : r \in Request} \cup {None}, by : SUBSET Line, me : Line \cup {NoUser},
   target : Line \cup {NoUser}, version : Nat, seen : SUBSET Nat, locked : SUBSET Nat]

\* The locals of a request: what it asks, and as whom it acts once it is signed in.
Job ==
  {q \in Local :
     /\ q.pc # "idle" => \E r \in Request : q.token = r.token /\ q.op = r.op
     /\ q.pc \in {"idle", "subject", "email"} => q.me = NoUser
     /\ q.pc \in Inside \cup {"bind"} => q.me \in Line
     /\ q.pc \in Inside => q.op.kind = Route(q.pc)}

Typed ==
  /\ users \in [UserId -> User \cup {NoUser}] /\ defs \in Seq(Definition)
  /\ grants \subseteq Grant /\ enforced \in BOOLEAN /\ overlap \in BOOLEAN /\ ops \in 0..MaxOps
  /\ req \in [Worker -> Job]

\* What a request knows of rows stays true: rows are never deleted, move to no other
\* tenant and are bound to an identity once.
Sound(q) ==
  /\ q.pc = "email" => \A b \in q.by :
       b.id \in Known /\ users[b.id].tenant = b.tenant /\ users[b.id].sso = q.token.identity
  /\ q.pc \in Inside \cup {"bind"} => q.me.id \in Known /\ users[q.me.id].tenant = q.me.tenant
  /\ q.pc \in Inside => users[q.me.id].sso = q.token.identity
  /\ q.pc \in {"others", "writeUser"} =>
       /\ q.op.target \in Known /\ users[q.op.target].tenant = q.me.tenant
       /\ q.target.id = q.op.target

Signed == Typed /\ \A w \in Worker : Sound(req[w])

-----------------------------------------------------------------------------
(* Data.                                                                   *)

LEMMA RestingJob == Resting \in Job /\ Resting.pc = "idle" /\ Sound(Resting)
  BY DEF Resting, Job, Local, Inside, Kind, Sound, SignInLabel

LEMMA Lines == ASSUME Typed, NEW u \in Known  PROVE Row(u) \in Line /\ Row(u).id = u /\ users[u] \in User
  <1>1. u \in UserId /\ users[u] \in User
    BY DEF Known, Typed
  <1> QED
    BY <1>1 DEF Row, Line, User

LEMMA Locals ==
  ASSUME Typed, NEW w \in Worker
  PROVE  req[w] \in Job /\ req[w] \in Local
  BY DEF Typed, Job

\* Of a token no identity is missing, and its request passed the DTO.
LEMMA Asks ==
  ASSUME Typed, NEW w \in Worker, req[w].pc # "idle"
  PROVE  \E r \in Request : Asked(w) = r.op /\ req[w].token = r.token /\ r.token.identity \in Identity
  BY Locals, RequestAssumption DEF Asked, Job

\* The next statement of the same handler.
LEMMA GotoJob ==
  ASSUME Typed, NEW w \in Worker, req[w].pc \in Inside, NEW l \in Inside, Route(l) = Route(req[w].pc)
  PROVE  LET q == [req[w] EXCEPT !.pc = l]
         IN  /\ q \in Job /\ q.pc = l /\ q.op = req[w].op /\ q.me = req[w].me
             /\ q.token = req[w].token /\ q.target = req[w].target /\ q.locked = req[w].locked
  <1>1. req[w] \in Job /\ req[w] \in Local /\ req[w].pc # "idle" /\ l # "idle"
    BY Locals DEF Inside, Kind
  <1> DEFINE q == [req[w] EXCEPT !.pc = l]
  <1>2. /\ q \in Local /\ q.pc = l /\ q.op = req[w].op /\ q.me = req[w].me
        /\ q.token = req[w].token /\ q.target = req[w].target /\ q.locked = req[w].locked
    BY <1>1 DEF Local
  <1>3. l \notin {"idle", "subject", "email"}
    BY DEF Inside, Kind
  <1> HIDE DEF q
  <1>4. q \in Job
    BY <1>1, <1>2, <1>3 DEF Job
  <1> QED
    BY <1>2, <1>4 DEF q


\* Whom decideLink links to.
LEMMA LinksTo ==
  ASSUME NEW token, NEW bySubject, NEW byEmail, NEW link, link = DecideLink(token, bySubject, byEmail)
  PROVE  /\ link.kind = "MATCHED" => link.user \in bySubject
         /\ link.kind = "BIND_SUBJECT" => link.user \in byEmail
  <1>1. \A S : Cardinality(S) = 1 => Only(S) \in S
    <2> SUFFICES ASSUME NEW S, Cardinality(S) = 1  PROVE Only(S) \in S
      OBVIOUS
    <2>1. S # {}
      BY FS_EmptySet
    <2> QED
      BY <2>1 DEF Only
  <1>2. CASE Cardinality(bySubject) > 1
    BY <1>2 DEF DecideLink, Reject
  <1>3. CASE Cardinality(bySubject) = 1
    BY <1>1, <1>3 DEF DecideLink, Reject
  <1>4. CASE /\ ~(Cardinality(bySubject) > 1) /\ Cardinality(bySubject) # 1
             /\ token.email = None \/ ~EmailVerified(token.verified) \/ Cardinality(byEmail) # 1
    BY <1>4 DEF DecideLink, Reject
  <1>5. CASE /\ ~(Cardinality(bySubject) > 1) /\ Cardinality(bySubject) # 1
             /\ ~(token.email = None) /\ EmailVerified(token.verified) /\ Cardinality(byEmail) = 1
    BY <1>1, <1>5 DEF DecideLink, Reject
  <1> QED
    BY <1>2, <1>3, <1>4, <1>5

LEMMA Least ==
  ASSUME NEW ns, ns \subseteq Nat, ns # {}
  PROVE  \E n \in ns : \A k \in ns : n <= k
  <1>1. PICK n \in ns : \A k \in ns : ~(<<k, n>> \in OpToRel(<, Nat))
    BY NatLessThanWellFounded, WFMin, Zenon
  <1>2. ASSUME NEW k \in ns, ~(n <= k)  PROVE FALSE
    <2>1. k \in Nat /\ n \in Nat /\ k < n
      BY <1>2
    <2>2. <<k, n>> \in OpToRel(<, Nat)
      BY <2>1 DEF OpToRel
    <2> QED
      BY <1>1, <2>2
  <1> QED
    BY <1>2

LEMMA NewestIn ==
  ASSUME NEW S, S \subseteq Nat, 0 \in S, NEW b \in Nat, \A v \in S : v <= b
  PROVE  Newest(S) \in S
  <1> DEFINE bounds == {n \in Nat : \A v \in S : v <= n}
  <1>1. PICK l \in bounds : \A n \in bounds : l <= n
    <2>1. b \in bounds /\ bounds \subseteq Nat
      OBVIOUS
    <2> HIDE DEF bounds
    <2> QED
      BY <2>1, Least
  <1>2. l \in S
    <2> SUFFICES ASSUME l \notin S  PROVE FALSE
      OBVIOUS
    <2>1. l # 0 /\ l - 1 \in Nat
      BY <1>1
    <2>2. \A v \in S : v <= l - 1
      BY <1>1, <2>1
    <2>3. l - 1 \in bounds
      BY <2>1, <2>2
    <2> QED
      BY <1>1, <2>1, <2>3
  <1> QED
    BY <1>1, <1>2 DEF Newest

\* The first prefix without a bound would have one.
LEMMA Bounded ==
  ASSUME NEW n \in Nat, NEW f \in [1..n -> Nat]
  PROVE  \E b \in Nat : \A d \in 1..n : f[d] <= b
  <1> DEFINE Within(m) == \E b \in Nat : \A d \in 1..m : f[d] <= b
             wild == {m \in 0..n : ~Within(m)}
  <1>1. wild = {}
    <2> SUFFICES ASSUME wild # {}  PROVE FALSE
      OBVIOUS
    <2>0. wild \subseteq Nat
      OBVIOUS
    <2>1. PICK m \in wild : \A k \in wild : m <= k
      <3> HIDE DEF wild
      <3> QED
        BY <2>0, Least
    <2>2. m \in 0..n /\ ~Within(m)
      OBVIOUS
    <2>3. Within(0)
      <3>1. \A d \in 1..0 : f[d] <= 0
        OBVIOUS
      <3> QED
        BY <3>1
    <2> HIDE DEF Within
    <2>4. m # 0
      BY <2>2, <2>3
    <2>5. m - 1 \in 0..n /\ (~Within(m - 1) => m - 1 \in wild)
      BY <2>2, <2>4
    <2> HIDE DEF wild
    <2>6. Within(m - 1)
      <3> SUFFICES ASSUME ~Within(m - 1)  PROVE FALSE
        OBVIOUS
      <3>1. m - 1 \in wild
        BY <2>5
      <3>2. m <= m - 1
        BY <2>1, <3>1
      <3> QED
        BY <2>2, <3>2
    <2>7. PICK b \in Nat : \A d \in 1..(m - 1) : f[d] <= b
      BY <2>6 DEF Within
    <2>8. m \in 1..n /\ f[m] \in Nat
      BY <2>2, <2>4
    <2>9. PICK c \in Nat : b <= c /\ f[m] <= c
      <3>1. CASE b <= f[m]
        BY <2>8, <3>1
      <3>2. CASE f[m] <= b
        BY <2>8, <3>2
      <3> QED
        BY <2>8, <3>1, <3>2
    <2>10. ASSUME NEW d \in 1..m  PROVE f[d] <= c
      <3>1. CASE d = m
        BY <2>9, <3>1
      <3>2. CASE d # m
        <4>1. d \in 1..(m - 1) /\ d \in 1..n
          BY <2>2, <2>10, <3>2
        <4>2. f[d] <= b /\ f[d] \in Nat
          BY <2>7, <4>1
        <4> QED
          BY <2>9, <4>2
      <3> QED
        BY <3>1, <3>2
    <2>11. Within(m)
      BY <2>9, <2>10 DEF Within
    <2> QED
      BY <2>2, <2>11
  <1> HIDE DEF Within
  <1>2. Within(n)
    BY <1>1
  <1> QED
    BY <1>2 DEF Within

LEMMA NextVersion ==
  ASSUME defs \in Seq(Definition), NEW name
  PROVE  Newest({0} \cup {defs[d].version : d \in {e \in DOMAIN defs : defs[e].name = name}}) + 1 \in Nat
  <1> DEFINE S == {0} \cup {defs[d].version : d \in {e \in DOMAIN defs : defs[e].name = name}}
             f == [d \in 1..Len(defs) |-> defs[d].version]
  <1>1. Len(defs) \in Nat /\ DOMAIN defs = 1..Len(defs) /\ \A d \in DOMAIN defs : defs[d] \in Definition
    OBVIOUS
  <1>2. f \in [1..Len(defs) -> Nat]
    BY <1>1 DEF Definition
  <1>3. PICK b \in Nat : \A d \in 1..Len(defs) : f[d] <= b
    <2> HIDE DEF f
    <2> QED
      BY <1>1, <1>2, Bounded
  <1>4. S \subseteq Nat /\ 0 \in S /\ \A v \in S : v <= b
    BY <1>1, <1>3 DEF Definition
  <1> HIDE DEF S
  <1>5. Newest(S) \in Nat
    BY <1>4, NewestIn
  <1> QED
    BY <1>5 DEF S

-----------------------------------------------------------------------------
(* Sign-in: ActsAsOwner.                                                   *)

\* What a step does to the rows of users.
Keeps ==
  /\ users' \in [UserId -> User \cup {NoUser}]
  /\ \A u \in Known : /\ u \in Known' /\ users'[u].tenant = users[u].tenant
                      /\ users[u].sso # None => users'[u].sso = users[u].sso

LEMMA SoundKept ==
  ASSUME Typed, Keeps, NEW q \in Job, Sound(q)
  PROVE  Sound(q)'
  <1>1. q.pc # "idle" => q.token.identity # None
    BY RequestAssumption, DirectoryAssumption DEF Job
  <1>2. \A u \in Known : users[u].sso = q.token.identity /\ q.pc # "idle" => users'[u].sso = users[u].sso
    BY <1>1 DEF Keeps
  <1>3. "idle" \notin Inside
    BY DEF Inside, Kind
  <1> QED
    BY <1>2, <1>3 DEF Sound, Keeps

LEMMA KeepsSame == ASSUME Typed, UNCHANGED users  PROVE Keeps
  BY DEF Typed, Keeps, Known

Moves(w) == Keeps /\ \E q \in Job : Set(w, q) /\ Sound(q)'

LEMMA MovesSigned ==
  ASSUME Signed, NEW w \in Worker, Moves(w)
  PROVE  req' \in [Worker -> Job] /\ \A v \in Worker : Sound(req[v])'
  <1>1. PICK q \in Job : Set(w, q) /\ Sound(q)'
    BY DEF Moves
  <1>2. req' \in [Worker -> Job]
    BY <1>1 DEF Signed, Typed, Set
  <1>3. ASSUME NEW v \in Worker, v # w  PROVE Sound(req[v])'
    <2>1. PICK r \in Job : r = req[v] /\ Sound(r)
      BY Locals DEF Signed
    <2>2. Sound(r)'
      BY <2>1, SoundKept DEF Moves, Signed
    <2>3. req'[v] = r
      BY <1>1, <1>3, <2>1 DEF Signed, Typed, Set
    <2> QED
      BY <2>2, <2>3
  <1>4. req'[w] = q
    BY <1>1 DEF Signed, Typed, Set
  <1>5. Sound(req[w])'
    BY <1>1, <1>4
  <1> QED
    BY <1>2, <1>3, <1>5

LEMMA EndMoves ==
  ASSUME Typed, Keeps, NEW w \in Worker, Ends(w)
  PROVE  Moves(w)
  <1>1. Sound(Resting)'
    BY DEF Sound, Resting, Inside, Kind
  <1> QED
    BY <1>1, RestingJob DEF Ends, Moves

LEMMA GotoMoves ==
  ASSUME Signed, UNCHANGED users, NEW w \in Worker, req[w].pc \in Inside,
         NEW l \in Inside \ {"others", "writeUser"}, Route(l) = Route(req[w].pc), Goto(w, l)
  PROVE  Moves(w)
  <1>1. PICK q \in Job : /\ Set(w, q) /\ q.pc = l /\ q.me = req[w].me /\ q.token = req[w].token
    BY GotoJob DEF Signed, Goto
  <1>2. Sound(req[w])
    BY DEF Signed
  <1>3. Sound(q)
    BY <1>1, <1>2 DEF Sound, Inside, Kind
  <1>4. Keeps
    BY KeepsSame DEF Signed
  <1> QED
    BY <1>1, <1>3, <1>4, SoundKept DEF Moves, Signed


LEMMA StartMoves ==
  ASSUME Signed, NEW w \in Worker, Start(w)
  PROVE  Moves(w) /\ ops' \in 0..MaxOps
  <1>1. Keeps
    BY KeepsSame DEF Start, directory, Signed
  <1>2. PICK r \in Request : Set(w, [Resting EXCEPT !.pc = "subject", !.token = r.token, !.op = r.op])
    BY DEF Start
  <1> DEFINE q == [Resting EXCEPT !.pc = "subject", !.token = r.token, !.op = r.op]
  <1>3. q \in Local /\ q.pc = "subject" /\ q.token = r.token /\ q.op = r.op /\ q.me = NoUser
    BY RestingJob DEF Job, Local, Resting, SignInLabel
  <1> HIDE DEF q
  <1>4. q.pc \notin Inside
    BY <1>3 DEF Inside, Kind
  <1>5. q \in Job /\ Sound(q)'
    BY <1>3, <1>4 DEF Job, Sound
  <1>6. ops' \in 0..MaxOps
    BY DirectoryAssumption DEF Start, Signed, Typed
  <1> QED
    BY <1>1, <1>2, <1>5, <1>6 DEF Moves, q

LEMMA FindMoves ==
  ASSUME Signed, NEW w \in Worker, FindBySubject(w)
  PROVE  Moves(w)
  <1> DEFINE rows == {Row(u) : u \in {v \in Known : users[v].sso = req[w].token.identity}}
             q == [req[w] EXCEPT !.pc = "email", !.by = rows]
  <1>1. Typed /\ Keeps /\ UNCHANGED users /\ req[w] \in Job /\ req[w] \in Local /\ req[w].pc = "subject"
    BY KeepsSame, Locals DEF Signed, FindBySubject, directory, At
  <1>2. rows \subseteq Line
    BY <1>1, Lines
  <1>3. \A b \in rows : b.id \in Known /\ users[b.id].tenant = b.tenant
                        /\ users[b.id].sso = req[w].token.identity
    BY DEF Row
  <1>4. Set(w, q)
    BY DEF FindBySubject
  <1> HIDE DEF rows
  <1>5. /\ q \in Local /\ q.pc = "email" /\ q.token = req[w].token /\ q.op = req[w].op
        /\ q.me = req[w].me /\ q.by = rows
    BY <1>1, <1>2 DEF Local, SignInLabel
  <1> HIDE DEF q
  <1>6. "email" \notin Inside
    BY DEF Inside, Kind
  <1>7. q \in Job /\ Sound(q)
    BY <1>1, <1>3, <1>5, <1>6 DEF Job, Sound
  <1> QED
    BY <1>1, <1>4, <1>7, SoundKept DEF Moves

LEMMA AdmitMoves ==
  ASSUME Signed, Keeps, NEW w \in Worker, req[w].pc \in {"email", "bind"}, NEW row \in Line,
         row.id \in Known', users'[row.id].tenant = row.tenant,
         users'[row.id].sso = req[w].token.identity, Set(w, Admit(req[w], row))
  PROVE  Moves(w)
  <1>0. req[w] \in Job /\ req[w] \in Local /\ req[w].pc # "idle"
    BY Locals DEF Signed
  <1>1. CASE row.role \notin RequiredRoles(req[w].op.kind)
    BY <1>1, EndMoves DEF Admit, Ends, Signed
  <1>2. CASE row.role \in RequiredRoles(req[w].op.kind)
    <2> DEFINE q == [req[w] EXCEPT !.pc = req[w].op.kind, !.by = {}, !.me = row]
    <2>1. req[w].op.kind \in Kind
      BY <1>0, RequestAssumption DEF Job
    <2>2. /\ q \in Local /\ q.pc = req[w].op.kind /\ q.me = row /\ q.op = req[w].op
          /\ q.token = req[w].token
      BY <1>0, <2>1 DEF Local, Inside
    <2>3. Set(w, q)
      BY <1>2 DEF Admit
    <2> HIDE DEF q
    <2>4. /\ q.pc \in Inside /\ q.op.kind = Route(q.pc)
          /\ q.pc \notin {"idle", "subject", "email", "others", "writeUser"}
      BY <2>1, <2>2 DEF Inside, Kind, Route
    <2>5. q \in Job
      BY <1>0, <2>2, <2>4 DEF Job
    <2>6. PICK c \in Job : c = q /\ c.me = row /\ c.token = req[w].token
      BY <2>2, <2>5
    <2>7. Sound(c)'
      BY <2>4, <2>6 DEF Sound
    <2> QED
      BY <2>3, <2>6, <2>7 DEF Moves
  <1> QED
    BY <1>1, <1>2

LEMMA ResolveMoves ==
  ASSUME Signed, NEW w \in Worker, ResolvePrincipal(w)
  PROVE  Moves(w)
  <1> DEFINE byEmail == {Row(u) : u \in {v \in Known : users[v].email = req[w].token.email}}
  <1>1. /\ Typed /\ Keeps /\ UNCHANGED users /\ req[w] \in Job /\ req[w] \in Local
        /\ req[w].pc = "email" /\ Sound(req[w])
    BY KeepsSame, Locals DEF Signed, ResolvePrincipal, directory, At
  <1>2. PICK link : /\ link = DecideLink(req[w].token, req[w].by, byEmail)
                    /\ Set(w, CASE link.kind = "MATCHED"      -> Admit(req[w], link.user)
                                [] link.kind = "BIND_SUBJECT" -> [req[w] EXCEPT !.pc = "bind", !.me = link.user]
                                [] OTHER                      -> Resting)
    BY DEF ResolvePrincipal
  <1>3. /\ link.kind = "MATCHED" => link.user \in req[w].by
        /\ link.kind = "BIND_SUBJECT" => link.user \in byEmail
    BY <1>2, LinksTo
  <1>4. CASE link.kind = "MATCHED"
    <2>1. link.user \in Line
      BY <1>1, <1>3, <1>4 DEF Local
    <2>2. /\ link.user.id \in Known' /\ users'[link.user.id].tenant = link.user.tenant
          /\ users'[link.user.id].sso = req[w].token.identity
      BY <1>1, <1>3, <1>4 DEF Sound, Known
    <2>3. Set(w, Admit(req[w], link.user))
      BY <1>2, <1>4
    <2> QED
      BY <1>1, <2>1, <2>2, <2>3, AdmitMoves
  <1>5. CASE link.kind = "BIND_SUBJECT"
    <2>1. PICK u \in Known : link.user = Row(u)
      BY <1>3, <1>5
    <2>2. Row(u) \in Line /\ Row(u).id = u /\ Row(u).tenant = users[u].tenant
      BY <1>1, Lines DEF Row
    <2> DEFINE q == [req[w] EXCEPT !.pc = "bind", !.me = Row(u)]
    <2>3. Set(w, q)
      BY <1>2, <1>5, <2>1
    <2>4. q \in Local /\ q.pc = "bind" /\ q.me = Row(u) /\ q.op = req[w].op /\ q.token = req[w].token
      BY <1>1, <2>2 DEF Local, SignInLabel
    <2> HIDE DEF q
    <2>5. "bind" \notin Inside
      BY DEF Inside, Kind
    <2>6. q \in Job /\ Sound(q)
      BY <1>1, <2>2, <2>4, <2>5 DEF Job, Sound
    <2> QED
      BY <1>1, <2>3, <2>6, SoundKept DEF Moves
  <1>6. CASE link.kind \notin {"MATCHED", "BIND_SUBJECT"}
    BY <1>1, <1>2, <1>6, EndMoves DEF Ends
  <1> QED
    BY <1>4, <1>5, <1>6

\* Of two first logins the second finds the row bound.
LEMMA BindMoves ==
  ASSUME Signed, NEW w \in Worker, BindSubject(w)
  PROVE  Moves(w) /\ users' \in [UserId -> User \cup {NoUser}]
  <1> DEFINE u == req[w].me.id  identity == req[w].token.identity
  <1>1. /\ Typed /\ req[w] \in Job /\ req[w] \in Local /\ req[w].pc = "bind" /\ Sound(req[w])
        /\ req[w].me \in Line
    BY Locals DEF Signed, BindSubject, At, Job
  <1>2. u \in Known /\ users[u] \in User /\ users[u].tenant = req[w].me.tenant /\ identity \in Identity
    BY <1>1, Lines, Asks DEF Sound
  <1>3. CASE UNCHANGED users /\ Ends(w)
    BY <1>1, <1>3, KeepsSame, EndMoves DEF Typed
  <1>4. CASE /\ users[u].sso = None /\ users' = [users EXCEPT ![u].sso = identity]
             /\ Set(w, Admit(req[w], [req[w].me EXCEPT !.sso = identity]))
    <2> DEFINE row == [users[u] EXCEPT !.sso = identity]
               me == [req[w].me EXCEPT !.sso = identity]
    <2>1. row \in User /\ row.tenant = users[u].tenant /\ row.sso = identity /\ row # NoUser
      BY <1>2, DirectoryAssumption DEF User
    <2>2. me \in Line /\ me.id = u /\ me.tenant = req[w].me.tenant
      BY <1>1, <1>2 DEF Line
    <2>3. users' = [users EXCEPT ![u] = row]
      BY <1>4
    <2> HIDE DEF row
    <2>4. u \in UserId /\ users'[u] = row /\ \A v \in UserId : v # u => users'[v] = users[v]
      BY <1>1, <1>2, <2>3 DEF Typed, Known
    <2>5. users' \in [UserId -> User \cup {NoUser}]
      BY <1>1, <2>1, <2>3 DEF Typed
    <2>6. Keeps
      BY <1>4, <2>1, <2>4, <2>5 DEF Keeps, Known
    <2>7. u \in Known'
      BY <2>1, <2>4 DEF Known
    <2>8. Set(w, Admit(req[w], me))
      BY <1>4
    <2> HIDE DEF me
    <2> QED
      BY <1>1, <1>2, <2>1, <2>2, <2>4, <2>5, <2>6, <2>7, <2>8, AdmitMoves
  <1> QED
    BY <1>3, <1>4 DEF BindSubject


-----------------------------------------------------------------------------
(* The handlers.                                                           *)

LEMMA InsideMoves ==
  ASSUME Signed, UNCHANGED users, NEW w \in Worker, req[w].pc \in Inside, NEW q \in Local, Set(w, q),
         q.pc \in Inside \ {"others", "writeUser"}, Route(q.pc) = Route(req[w].pc),
         q.me = req[w].me, q.token = req[w].token, q.op = req[w].op
  PROVE  Moves(w)
  <1>1. Typed /\ Keeps /\ req[w] \in Job /\ Sound(req[w]) /\ req[w].pc # "idle"
    BY KeepsSame, Locals DEF Signed, Inside, Kind
  <1>2. q.pc \notin {"idle", "subject", "email"}
    BY DEF Inside, Kind
  <1>3. q \in Job /\ Sound(q)
    BY <1>1, <1>2 DEF Job, Sound
  <1> QED
    BY <1>1, <1>3, SoundKept DEF Moves

LEMMA GrantsMove ==
  ASSUME Signed, NEW w \in Worker,
         \/ CreateUser(w) \/ CreateGrant(w) \/ InsertGrant(w) \/ RemoveGrant(w)
         \/ SetEnforcement(w) \/ WriteEnforced(w) \/ Approve(w) \/ CheckLimits(w) \/ Decide(w)
         \/ PublishDefinition(w) \/ RetireDefinition(w)
         \/ InsertDefinition(w) \/ Commit(w) \/ RetireRow(w)
  PROVE  Moves(w)
  <1>1. UNCHANGED users
    BY DEF CreateUser, CreateGrant, InsertGrant, RemoveGrant, SetEnforcement, WriteEnforced, Approve,
           CheckLimits, Decide, PublishDefinition, RetireDefinition, InsertDefinition, Commit,
           RetireRow, directory, rest
  <1>2. \/ Ends(w)
        \/ /\ req[w].pc \in Inside
           /\ \E l \in Inside \ {"others", "writeUser"} : Route(l) = Route(req[w].pc) /\ Goto(w, l)
    <2>1. CASE CreateUser(w) \/ CreateGrant(w) \/ SetEnforcement(w)
      BY <2>1 DEF CreateUser, CreateGrant, SetEnforcement, At, Inside, Kind, Route
    <2>2. CASE Approve(w) \/ CheckLimits(w)
      BY <2>2 DEF Approve, CheckLimits, At, Inside, Kind, Route
    <2>3. CASE PublishDefinition(w) \/ RetireDefinition(w)
      BY <2>3 DEF PublishDefinition, RetireDefinition, At, Inside, Kind, Route
    <2>4. CASE \/ InsertGrant(w) \/ RemoveGrant(w) \/ WriteEnforced(w) \/ Decide(w)
               \/ InsertDefinition(w) \/ Commit(w) \/ RetireRow(w)
      BY <2>4, Zenon DEF InsertGrant, RemoveGrant, WriteEnforced, Decide, InsertDefinition, Commit, RetireRow
    <2> QED
      BY <2>1, <2>2, <2>3, <2>4
  <1>3. Typed /\ Keeps
    BY <1>1, KeepsSame DEF Signed
  <1> QED
    BY <1>1, <1>2, <1>3, EndMoves, GotoMoves

\* The statements of a publication: where they lead and what they change.
Leads(w, l, seen, locked) ==
  \E q \in Local : /\ Set(w, q) /\ q.pc = l /\ q.seen = seen /\ q.locked = locked
                   /\ q.me = req[w].me /\ q.token = req[w].token /\ q.op = req[w].op

LEMMA LaneSteps ==
  ASSUME Typed, NEW w \in Worker
  PROVE  /\ PublishDefinition(w) => Ends(w) \/ Leads(w, "retireOld", req[w].seen, req[w].locked)
         /\ RetireOld(w) => Leads(w, "lockOld", Published, req[w].locked)
         /\ LockOld(w) => Leads(w, "publishRow", req[w].seen, req[w].seen)
         /\ PublishRow(w) => Leads(w, "publishEntry", req[w].seen, req[w].locked \cup {Asked(w).def})
         /\ PublishEntry(w) => Ends(w) \/ Leads(w, "commit", req[w].seen, req[w].locked)
  <1>0. req[w] \in Local /\ req[w] \in Job /\ Published \subseteq Nat
    BY Locals DEF Published, Typed
  <1>1. ASSUME NEW l \in Inside, Goto(w, l)  PROVE Leads(w, l, req[w].seen, req[w].locked)
    <2> DEFINE q == [req[w] EXCEPT !.pc = l]
    <2>1. /\ q \in Local /\ q.pc = l /\ q.seen = req[w].seen /\ q.locked = req[w].locked
          /\ q.me = req[w].me /\ q.token = req[w].token /\ q.op = req[w].op
      BY <1>0 DEF Local
    <2>2. Set(w, q)
      BY <1>1 DEF Goto
    <2> HIDE DEF q
    <2> QED
      BY <2>1, <2>2 DEF Leads
  <1>2. ASSUME RetireOld(w)  PROVE Leads(w, "lockOld", Published, req[w].locked)
    <2> DEFINE q == [req[w] EXCEPT !.pc = "lockOld", !.seen = Published]
    <2>1. /\ q \in Local /\ q.pc = "lockOld" /\ q.seen = Published /\ q.locked = req[w].locked
          /\ q.me = req[w].me /\ q.token = req[w].token /\ q.op = req[w].op
      BY <1>0 DEF Local, Inside
    <2>2. Set(w, q)
      BY <1>2 DEF RetireOld
    <2> HIDE DEF q
    <2> QED
      BY <2>1, <2>2 DEF Leads
  <1>3. ASSUME LockOld(w)  PROVE Leads(w, "publishRow", req[w].seen, req[w].seen)
    <2> DEFINE q == [req[w] EXCEPT !.pc = "publishRow", !.locked = req[w].seen]
    <2>1. /\ q \in Local /\ q.pc = "publishRow" /\ q.seen = req[w].seen /\ q.locked = req[w].seen
          /\ q.me = req[w].me /\ q.token = req[w].token /\ q.op = req[w].op
      BY <1>0 DEF Local, Inside
    <2>2. Set(w, q)
      BY <1>3 DEF LockOld
    <2> HIDE DEF q
    <2> QED
      BY <2>1, <2>2 DEF Leads
  <1>4. ASSUME PublishRow(w)
        PROVE  Leads(w, "publishEntry", req[w].seen, req[w].locked \cup {Asked(w).def})
    <2>0. req[w].pc = "publishRow"
      BY <1>4 DEF PublishRow, At
    <2>1. PICK r \in Request : Asked(w) = r.op
      BY <2>0, Asks
    <2>2. r.op.kind = "publishDefinition"
      BY <1>0, <2>0, <2>1 DEF Job, Inside, Route, Asked, Kind
    <2>3. Asked(w).def \in Nat
      BY <2>1, <2>2, DefinitionsAssumption
    <2> DEFINE q == [req[w] EXCEPT !.pc = "publishEntry", !.locked = @ \cup {Asked(w).def}]
    <2>4. /\ q \in Local /\ q.pc = "publishEntry" /\ q.seen = req[w].seen
          /\ q.locked = req[w].locked \cup {Asked(w).def}
          /\ q.me = req[w].me /\ q.token = req[w].token /\ q.op = req[w].op
      BY <1>0, <2>3 DEF Local, Inside
    <2>5. Set(w, q)
      BY <1>4 DEF PublishRow
    <2> HIDE DEF q
    <2> QED
      BY <2>4, <2>5 DEF Leads
  <1>5. "retireOld" \in Inside /\ "commit" \in Inside
    BY DEF Inside
  <1> QED
    BY <1>1, <1>2, <1>3, <1>4, <1>5, Zenon DEF PublishDefinition, PublishEntry

LEMMA DefinitionsMove ==
  ASSUME Signed, NEW w \in Worker,
         \/ CreateDefinition(w) \/ RetireOld(w) \/ LockOld(w) \/ PublishRow(w) \/ PublishEntry(w)
         \/ Deadlock(w)
  PROVE  Moves(w)
  <1>1. UNCHANGED users /\ Typed /\ Keeps /\ req[w] \in Local /\ defs \in Seq(Definition)
    BY KeepsSame, Locals
       DEF CreateDefinition, RetireOld, LockOld, PublishRow, PublishEntry, Deadlock, directory, rest, Signed, Typed
  <1>3. CASE CreateDefinition(w)
    <2>1. PICK n \in Nat : Set(w, [req[w] EXCEPT !.pc = "insertDefinition", !.version = n])
      BY <1>1, <1>3, NextVersion DEF CreateDefinition
    <2> DEFINE q == [req[w] EXCEPT !.pc = "insertDefinition", !.version = n]
    <2>2. /\ q \in Local /\ q.pc = "insertDefinition" /\ q.me = req[w].me /\ q.token = req[w].token
          /\ q.op = req[w].op
      BY <1>1 DEF Local, Inside
    <2>3. Set(w, q)
      BY <2>1
    <2> HIDE DEF q
    <2>4. req[w].pc \in Inside /\ q.pc \in Inside /\ Route(q.pc) = Route(req[w].pc)
          /\ q.pc \notin {"others", "writeUser"}
      BY <1>3, <2>2 DEF CreateDefinition, At, Inside, Kind, Route
    <2> QED
      BY <1>1, <2>2, <2>3, <2>4, InsideMoves
  <1>4. ASSUME NEW l \in {"lockOld", "publishRow", "publishEntry", "commit"}, NEW seen, NEW locked,
               Leads(w, l, seen, locked), req[w].pc \in {"retireOld", "lockOld", "publishRow", "publishEntry"}
        PROVE  Moves(w)
    <2>1. PICK q \in Local : /\ Set(w, q) /\ q.pc = l
                             /\ q.me = req[w].me /\ q.token = req[w].token /\ q.op = req[w].op
      BY <1>4 DEF Leads
    <2>2. req[w].pc \in Inside /\ q.pc \in Inside /\ Route(q.pc) = Route(req[w].pc)
          /\ q.pc \notin {"others", "writeUser"}
      BY <1>4, <2>1 DEF Inside, Kind, Route
    <2> QED
      BY <1>1, <2>1, <2>2, InsideMoves
  <1>5. CASE Ends(w)
    BY <1>1, <1>5, EndMoves
  <1>6. CASE (RetireOld(w) \/ LockOld(w) \/ PublishRow(w) \/ PublishEntry(w)) /\ ~Ends(w)
    <2>1. req[w].pc \in {"retireOld", "lockOld", "publishRow", "publishEntry"}
      BY <1>6 DEF RetireOld, LockOld, PublishRow, PublishEntry, At
    <2>2. \E l \in {"lockOld", "publishRow", "publishEntry", "commit"} : \E seen, locked : Leads(w, l, seen, locked)
      BY <1>1, <1>6, LaneSteps, Zenon
    <2> QED
      BY <1>4, <2>1, <2>2, Zenon
  <1>7. CASE Deadlock(w)
    BY <1>5, <1>7 DEF Deadlock
  <1> QED
    BY <1>3, <1>5, <1>6, <1>7


LEMMA TargetMoves ==
  ASSUME Signed, NEW w \in Worker, ReadTarget(w)
  PROVE  Moves(w)
  <1> DEFINE u == Asked(w).target
  <1>1. /\ UNCHANGED users /\ Typed /\ Keeps /\ req[w] \in Local /\ req[w] \in Job /\ Sound(req[w])
        /\ req[w].pc = "updateUser"
    BY KeepsSame, Locals DEF ReadTarget, directory, Signed, At
  <1>2. CASE Ends(w)
    BY <1>1, <1>2, EndMoves
  <1>3. ASSUME u \in Known, users[u].tenant = Home(w), NEW l \in {"others", "writeUser"},
               Set(w, [req[w] EXCEPT !.target = Row(u), !.pc = l])
        PROVE  Moves(w)
    <2> DEFINE q == [req[w] EXCEPT !.target = Row(u), !.pc = l]
    <2>1. Row(u) \in Line /\ Row(u).id = u
      BY <1>1, <1>3, Lines
    <2>2. /\ q \in Local /\ q.pc = l /\ q.me = req[w].me /\ q.token = req[w].token
          /\ q.op = req[w].op /\ q.target = Row(u)
      BY <1>1, <2>1 DEF Local, Inside
    <2> HIDE DEF q
    <2>3. /\ req[w].pc \in Inside /\ q.pc \in Inside /\ Route(q.pc) = Route(req[w].pc)
          /\ q.pc \notin {"idle", "subject", "email"} /\ req[w].pc # "idle"
      BY <1>1, <2>2 DEF Inside, Kind, Route
    <2>4. q \in Job /\ Sound(q)
      BY <1>1, <1>3, <2>1, <2>2, <2>3 DEF Job, Sound, Asked, Home
    <2> QED
      BY <1>1, <1>3, <2>4, SoundKept DEF Moves, q
  <1>4. Ends(w) \/ /\ u \in Known /\ users[u].tenant = Home(w)
                   /\ \E l \in {"others", "writeUser"} : Set(w, [req[w] EXCEPT !.target = Row(u), !.pc = l])
    BY DEF ReadTarget
  <1> QED
    BY <1>2, <1>3, <1>4

LEMMA LastMoves ==
  ASSUME Signed, NEW w \in Worker, LastAdmin(w)
  PROVE  Moves(w)
  <1>1. /\ UNCHANGED users /\ Typed /\ Keeps /\ Sound(req[w]) /\ req[w].pc = "others"
        /\ req[w].pc \in Inside
    BY KeepsSame DEF LastAdmin, directory, Signed, At, Inside
  <1>2. CASE Ends(w)
    BY <1>1, <1>2, EndMoves
  <1>3. CASE Goto(w, "writeUser")
    <2> DEFINE q == [req[w] EXCEPT !.pc = "writeUser"]
    <2>1. "writeUser" \in Inside /\ Route("writeUser") = Route(req[w].pc)
      BY <1>1 DEF Inside, Route
    <2>2. /\ q \in Job /\ q.pc = "writeUser" /\ q.op = req[w].op /\ q.me = req[w].me
          /\ q.token = req[w].token /\ q.target = req[w].target
      BY <1>1, <2>1, GotoJob
    <2> HIDE DEF q
    <2>3. Sound(q)
      BY <1>1, <2>2 DEF Sound
    <2> QED
      BY <1>1, <1>3, <2>2, <2>3, SoundKept DEF Moves, Goto, q
  <1> QED
    BY <1>2, <1>3 DEF LastAdmin

\* The row is a shell: nobody's identity, in the tenant of whoever invites.
LEMMA InsertMoves ==
  ASSUME Signed, NEW w \in Worker, InsertUser(w)
  PROVE  /\ Moves(w) /\ users' \in [UserId -> User \cup {NoUser}]
         /\ \A u \in Known : users'[u] = users[u]
  <1>1. Typed /\ Ends(w) /\ req[w] \in Job /\ req[w].pc = "insertUser" /\ req[w].me \in Line
    BY Locals DEF Signed, InsertUser, At, Job, Inside
  <1>2. CASE UNCHANGED users
    BY <1>1, <1>2, KeepsSame, EndMoves DEF Typed
  <1>3. CASE ~UNCHANGED users
    <2> DEFINE row == [tenant |-> Home(w), email |-> Asked(w).email, role |-> Asked(w).role,
                       active |-> TRUE, sso |-> None]
    <2>1. PICK u \in UserId \ Known : users' = [users EXCEPT ![u] = row]
      BY <1>3 DEF InsertUser
    <2>2. PICK r \in Request : Asked(w) = r.op
      BY <1>1, Asks
    <2>3. r.op.kind = "createUser"
      BY <1>1, <2>2 DEF Job, Inside, Route, Asked, Kind
    <2>4. row \in User
      BY <1>1, <2>2, <2>3, RequestAssumption DEF User, Line, Home
    <2> HIDE DEF row
    <2>5. users' \in [UserId -> User \cup {NoUser}] /\ \A v \in Known : users'[v] = users[v]
      BY <1>1, <2>1, <2>4 DEF Typed, Known
    <2>6. Keeps
      BY <2>5 DEF Keeps, Known
    <2> QED
      BY <1>1, <2>5, <2>6, EndMoves
  <1> QED
    BY <1>2, <1>3

\* An update changes role and activity, of what is sent.
LEMMA WriteMoves ==
  ASSUME Signed, NEW w \in Worker, WriteUser(w)
  PROVE  LET u == Asked(w).target  role == Or(Asked(w).role, users[u].role)
             active == Or(Asked(w).active, users[u].active)
         IN  /\ Moves(w) /\ users' \in [UserId -> User \cup {NoUser}]
             /\ u \in Known /\ users[u].tenant = Home(w)
             /\ users'[u].role = role /\ users'[u].active = active
             /\ users'[u].tenant = users[u].tenant /\ users'[u].email = users[u].email
             /\ users'[u].sso = users[u].sso /\ users'[u] # NoUser
             /\ \A v \in UserId : v # u => users'[v] = users[v]
  <1> DEFINE u == Asked(w).target
             role == Or(Asked(w).role, users[u].role)
             active == Or(Asked(w).active, users[u].active)
             row == [users[u] EXCEPT !.role = role, !.active = active]
  <1>1. /\ Typed /\ Ends(w) /\ req[w] \in Job /\ Sound(req[w]) /\ req[w].pc = "writeUser"
    BY Locals DEF Signed, WriteUser, At
  <1>2. u \in Known /\ users[u] \in User /\ users[u].tenant = Home(w)
    BY <1>1, Lines DEF Sound, Asked, Home
  <1>3. PICK r \in Request : Asked(w) = r.op
    BY <1>1, Asks
  <1>4. r.op.kind = "updateUser"
    BY <1>1, <1>3 DEF Job, Inside, Route, Asked, Kind
  <1>5. r.op.role \in ROLES \cup {Unset} /\ r.op.active \in BOOLEAN \cup {Unset}
    BY <1>4, RequestAssumption
  <1>6. role \in ROLES
    BY <1>2, <1>3, <1>5 DEF Or, User
  <1>7. active \in BOOLEAN
    BY <1>2, <1>3, <1>5 DEF Or, User
  <1>8. users' = [users EXCEPT ![u] = row]
    BY <1>1, <1>2 DEF WriteUser, Typed, Known
  <1> HIDE DEF role, active
  <1>9. /\ row \in User /\ row.role = role /\ row.active = active /\ row.tenant = users[u].tenant
        /\ row.email = users[u].email /\ row.sso = users[u].sso
    BY <1>2, <1>6, <1>7 DEF User
  <1>10. row # NoUser
    BY <1>9, DirectoryAssumption
  <1> HIDE DEF row
  <1>11. /\ users' \in [UserId -> User \cup {NoUser}] /\ users'[u] = row
         /\ \A v \in UserId : v # u => users'[v] = users[v]
    BY <1>1, <1>2, <1>8, <1>9 DEF Typed, Known
  <1>12. Keeps
    BY <1>2, <1>9, <1>10, <1>11 DEF Keeps, Known
  <1>13. Moves(w)
    BY <1>1, <1>12, EndMoves
  <1> QED
    BY <1>2, <1>9, <1>10, <1>11, <1>13 DEF role, active


LEMMA AllMove ==
  ASSUME Signed, NEW w \in Worker, Start(w) \/ SignIn(w) \/ Handler(w) \/ Publishing(w)
  PROVE  Moves(w)
  BY StartMoves, FindMoves, ResolveMoves, BindMoves, GrantsMove, DefinitionsMove, TargetMoves, LastMoves,
     InsertMoves, WriteMoves DEF SignIn, Handler, Publishing

\* The other tables.
Tables ==
  /\ defs \in Seq(Definition) /\ grants \subseteq Grant
  /\ enforced \in BOOLEAN /\ overlap \in BOOLEAN /\ ops \in 0..MaxOps

LEMMA GrantTables ==
  ASSUME Signed, NEW w \in Worker, InsertGrant(w) \/ RemoveGrant(w) \/ WriteEnforced(w), UNCHANGED defs
  PROVE  Tables'
  <1>1. Typed /\ Tables /\ req[w] \in Job
    BY Locals DEF Signed, Typed, Tables
  <1>2. CASE InsertGrant(w)
    <2>1. req[w].pc = "insertGrant"
      BY <1>2 DEF InsertGrant, At
    <2>2. PICK r \in Request : Asked(w) = r.op
      BY <1>1, <2>1, Asks
    <2>3. r.op.kind = "createGrant"
      BY <1>1, <2>1, <2>2 DEF Job, Inside, Route, Asked
    <2>4. grants' \subseteq Grant
      BY <1>1, <1>2, <2>2, <2>3, RequestAssumption DEF InsertGrant, Tables
    <2>5. UNCHANGED <<enforced, overlap, ops>>
      BY <1>2 DEF InsertGrant
    <2> QED
      BY <1>1, <2>4, <2>5, Zenon DEF Tables
  <1>3. CASE RemoveGrant(w)
    <2>1. grants' \subseteq Grant
      BY <1>1, <1>3 DEF RemoveGrant, Tables
    <2>2. UNCHANGED <<enforced, overlap, ops>>
      BY <1>3 DEF RemoveGrant
    <2> QED
      BY <1>1, <2>1, <2>2, Zenon DEF Tables
  <1>4. CASE WriteEnforced(w)
    <2>1. req[w].pc = "writeEnforced"
      BY <1>4 DEF WriteEnforced, At
    <2>2. PICK r \in Request : Asked(w) = r.op
      BY <1>1, <2>1, Asks
    <2>3. r.op.kind = "setEnforcement"
      BY <1>1, <2>1, <2>2 DEF Job, Inside, Route, Asked
    <2>4. r.op.enabled \in BOOLEAN
      BY <2>3, RequestAssumption
    <2>5. enforced' = r.op.enabled /\ UNCHANGED <<grants, overlap, ops>>
      BY <1>4, <2>2, Zenon DEF WriteEnforced
    <2>6. enforced' \in BOOLEAN
      BY <2>4, <2>5, Zenon
    <2> QED
      BY <1>1, <2>5, <2>6, Zenon DEF Tables
  <1> QED
    BY <1>2, <1>3, <1>4

LEMMA DefinitionTables ==
  ASSUME Signed, NEW w \in Worker, InsertDefinition(w) \/ Commit(w) \/ RetireRow(w)
  PROVE  /\ Tables'
         /\ RetireRow(w) => DOMAIN defs' = DOMAIN defs
         /\ Commit(w) => DOMAIN defs' = DOMAIN defs
  <1>0. Typed /\ Tables /\ req[w] \in Job /\ req[w] \in Local /\ defs \in Seq(Definition)
    BY Locals DEF Signed, Typed, Tables
  <1>1. UNCHANGED <<grants, enforced, overlap, ops>>
    BY DEF InsertDefinition, Commit, RetireRow, rest, directory
  <1>2. CASE InsertDefinition(w)
    <2>1. req[w].pc = "insertDefinition"
      BY <1>2 DEF InsertDefinition, At
    <2>2. PICK r \in Request : Asked(w) = r.op
      BY <1>0, <2>1, Asks
    <2>3. r.op.kind = "createDefinition"
      BY <1>0, <2>1, <2>2 DEF Job, Inside, Route, Asked
    <2> DEFINE row == [name |-> Asked(w).name, version |-> req[w].version, status |-> "DRAFT"]
    <2>4. row \in Definition
      BY <1>0, <2>2, <2>3, DefinitionsAssumption DEF Definition, Status, Local
    <2>5. defs' = defs \/ defs' = Append(defs, row)
      BY <1>2, Zenon DEF InsertDefinition
    <2> HIDE DEF row
    <2>6. defs' \in Seq(Definition)
      BY <1>0, <2>4, <2>5
    <2>7. ~RetireRow(w) /\ ~Commit(w)
      BY <2>1 DEF RetireRow, Commit, At
    <2> QED
      BY <1>0, <1>1, <2>6, <2>7, Zenon DEF Tables
  <1>3. CASE RetireRow(w) \/ Commit(w)
    <2>1. DOMAIN defs = 1..Len(defs) /\ Len(defs) \in Nat /\ \A d \in DOMAIN defs : defs[d] \in Definition
      BY <1>0
    <2>2. \A d \in DOMAIN defs, s \in Status : [defs[d] EXCEPT !.status = s] \in Definition
      BY <2>1 DEF Definition
    <2>3. defs' \in [DOMAIN defs -> Definition]
      <3>1. CASE RetireRow(w)
        BY <2>1, <2>2, <3>1 DEF RetireRow, Status
      <3>2. CASE Commit(w)
        BY <2>1, <2>2, <3>2 DEF Commit, Status
      <3> QED
        BY <1>3, <3>1, <3>2
    <2>4. defs' \in Seq(Definition) /\ DOMAIN defs' = DOMAIN defs
      BY <2>1, <2>3
    <2> QED
      BY <1>0, <1>1, <2>4, Zenon DEF Tables
  <1> QED
    BY <1>2, <1>3

LEMMA StepTables ==
  ASSUME Signed, [Next]_tvars
  PROVE  Tables'
  <1>0. Typed /\ Tables
    BY DEF Signed, Typed, Tables
  <1>1. CASE UNCHANGED tvars
    <2>1. UNCHANGED <<defs, grants, enforced, overlap, ops>>
      BY <1>1 DEF tvars, directory
    <2> QED
      BY <1>0, <2>1, Zenon DEF Tables
  <1>2. ASSUME NEW w \in Worker, Start(w), UNCHANGED defs  PROVE Tables'
    <2>1. UNCHANGED <<defs, grants, enforced, overlap>>
      BY <1>2 DEF Start, directory
    <2>2. ops' \in 0..MaxOps
      BY <1>2, StartMoves
    <2> QED
      BY <1>0, <2>1, <2>2, Zenon DEF Tables
  <1>3. ASSUME NEW w \in Worker, UNCHANGED defs,
               \/ SignIn(w) \/ CreateUser(w) \/ InsertUser(w) \/ ReadTarget(w) \/ LastAdmin(w)
               \/ CreateGrant(w) \/ SetEnforcement(w) \/ Approve(w) \/ CheckLimits(w) \/ Decide(w)
        PROVE  Tables'
    <2>1. UNCHANGED <<grants, enforced, overlap, ops>>
      BY <1>3, Zenon DEF SignIn, FindBySubject, ResolvePrincipal, BindSubject, CreateUser, InsertUser,
         ReadTarget, LastAdmin, CreateGrant, SetEnforcement, Approve, CheckLimits, Decide, directory
    <2> QED
      BY <1>0, <1>3, <2>1, Zenon DEF Tables
  <1>4. ASSUME NEW w \in Worker, UNCHANGED defs, WriteUser(w)  PROVE Tables'
    <2>1. UNCHANGED <<grants, enforced, ops>>
      BY <1>4, Zenon DEF WriteUser
    <2>2. overlap' \in BOOLEAN
      BY <1>4, Zenon DEF WriteUser
    <2> QED
      BY <1>0, <1>4, <2>1, <2>2, Zenon DEF Tables
  <1>5. ASSUME NEW w \in Worker,
               \/ CreateDefinition(w) \/ PublishDefinition(w) \/ RetireOld(w) \/ LockOld(w)
               \/ PublishRow(w) \/ PublishEntry(w) \/ Deadlock(w) \/ RetireDefinition(w)
        PROVE  Tables'
    <2>1. UNCHANGED <<defs, grants, enforced, overlap, ops>>
      BY <1>5, Zenon DEF CreateDefinition, PublishDefinition, RetireOld, LockOld, PublishRow,
         PublishEntry, Deadlock, RetireDefinition, rest, directory
    <2> QED
      BY <1>0, <2>1, Zenon DEF Tables
  <1> QED
    BY <1>1, <1>2, <1>3, <1>4, <1>5, GrantTables, DefinitionTables, Zenon DEF Next, Statement, Handler, Publishing

LEMMA StepSigned ==
  ASSUME Signed, [Next]_tvars  PROVE Signed'
  <1>1. CASE UNCHANGED tvars
    <2>1. UNCHANGED <<users, defs, grants, enforced, overlap, ops, req>>
      BY <1>1 DEF tvars, directory
    <2>2. Typed'
      BY <2>1, Zenon DEF Signed, Typed
    <2>3. \A w \in Worker : Sound(req[w])'
      BY <2>1 DEF Signed, Sound, Known
    <2> QED
      BY <2>2, <2>3 DEF Signed
  <1>2. CASE \E w \in Worker : Start(w) \/ SignIn(w) \/ Handler(w) \/ Publishing(w)
    <2>1. PICK w \in Worker : Moves(w)
      BY <1>2, AllMove
    <2>2. req' \in [Worker -> Job] /\ \A v \in Worker : Sound(req[v])'
      BY <2>1, MovesSigned
    <2>3. users' \in [UserId -> User \cup {NoUser}]
      BY <2>1 DEF Moves, Keeps
    <2>4. Tables'
      BY StepTables
    <2>5. Typed'
      BY <2>2, <2>3, <2>4, Zenon DEF Typed, Tables
    <2> QED
      BY <2>2, <2>5 DEF Signed
  <1> QED
    BY <1>1, <1>2 DEF Next, Statement

LEMMA InitSigned == ASSUME Init  PROVE Signed
  <1>1. users \in [UserId -> User \cup {NoUser}]
    BY DirectoryAssumption DEF Init, DirectoryInit
  <1>2. /\ defs \in Seq(Definition) /\ grants \subseteq Grant /\ ops \in 0..MaxOps
        /\ req \in [Worker -> Job] /\ \A w \in Worker : req[w] = Resting
    BY DefinitionsAssumption, DirectoryAssumption, RestingJob DEF Init, DirectoryInit
  <1>3. enforced \in BOOLEAN /\ overlap \in BOOLEAN
    BY Zenon DEF Init, DirectoryInit
  <1>4. Typed
    BY <1>1, <1>2, <1>3, Zenon DEF Typed
  <1>5. \A w \in Worker : Sound(req[w])
    BY <1>2, RestingJob
  <1> QED
    BY <1>4, <1>5 DEF Signed

LEMMA SpecSigned == Spec => []Signed
  <1>1. Signed /\ [Next]_tvars => Signed'
    BY StepSigned
  <1> QED
    BY <1>1, InitSigned, PTL DEF Spec

\* Whoever acts as a user holds the one identity bound to that user: a first login that
\* comes second is refused, and no binding is ever replaced (auth.service.ts, bindSubject).
THEOREM SpecActsAsOwner == Spec => []ActsAsOwner
  <1>1. Signed => ActsAsOwner
    <2> SUFFICES ASSUME Signed, NEW w \in Worker, req[w].me # NoUser, req[w].pc # "bind"
                 PROVE  users[req[w].me.id].sso = req[w].token.identity
      BY DEF ActsAsOwner, At
    <2>1. req[w] \in Job /\ req[w] \in Local /\ Sound(req[w])
      BY Locals DEF Signed
    <2>2. req[w].pc \in Inside
      BY <2>1 DEF Job, Local, SignInLabel
    <2> QED
      BY <2>1, <2>2 DEF Sound
  <1> QED
    BY <1>1, SpecSigned, PTL


\* Every other step leads to a statement that has nothing staged.
Lane == {"retireOld", "lockOld", "publishRow", "publishEntry", "commit"}
Elsewhere(w, q) == q.pc \notin Lane \cup {"writeUser"} /\ q.locked \in {req[w].locked, {}}

LEMMA Lands ==
  ASSUME Signed, NEW w \in Worker,
         \/ Start(w) \/ SignIn(w) \/ CreateUser(w) \/ InsertUser(w)
         \/ CreateGrant(w) \/ InsertGrant(w) \/ RemoveGrant(w)
         \/ SetEnforcement(w) \/ WriteEnforced(w) \/ Approve(w) \/ CheckLimits(w) \/ Decide(w)
         \/ CreateDefinition(w) \/ InsertDefinition(w) \/ Commit(w) \/ Deadlock(w)
         \/ RetireDefinition(w) \/ RetireRow(w)
  PROVE  \E q : Set(w, q) /\ Elsewhere(w, q)
  <1>0. Typed /\ req[w] \in Local
    BY Locals DEF Signed
  <1>1. CASE Ends(w)
    <2>1. Elsewhere(w, Resting)
      BY DEF Elsewhere, Resting, Lane
    <2> QED
      BY <1>1, <2>1, Zenon DEF Ends
  <1>2. ASSUME NEW l, l \notin Lane \cup {"writeUser"}, Goto(w, l)
        PROVE  \E q : Set(w, q) /\ Elsewhere(w, q)
    <2> DEFINE q == [req[w] EXCEPT !.pc = l]
    <2>1. q.pc = l /\ q.locked = req[w].locked
      BY <1>0 DEF Local
    <2>2. Set(w, q)
      BY <1>2 DEF Goto
    <2> HIDE DEF q
    <2> QED
      BY <1>2, <2>1, <2>2 DEF Elsewhere
  <1>3. CASE Start(w)
    <2>1. PICK r \in Request :
            Set(w, [Resting EXCEPT !.pc = "subject", !.token = r.token, !.op = r.op])
      BY <1>3 DEF Start
    <2> DEFINE q == [Resting EXCEPT !.pc = "subject", !.token = r.token, !.op = r.op]
    <2>2. q.pc = "subject" /\ q.locked = {} /\ Set(w, q)
      BY <2>1 DEF Resting
    <2> HIDE DEF q
    <2> QED
      BY <2>2 DEF Elsewhere, Lane
  <1>4. CASE FindBySubject(w)
    <2>1. PICK s : Set(w, [req[w] EXCEPT !.pc = "email", !.by = s])
      BY <1>4 DEF FindBySubject
    <2> DEFINE q == [req[w] EXCEPT !.pc = "email", !.by = s]
    <2>2. q.pc = "email" /\ q.locked = req[w].locked
      BY <1>0 DEF Local
    <2>3. Set(w, q)
      BY <2>1
    <2> HIDE DEF q
    <2> QED
      BY <2>2, <2>3 DEF Elsewhere, Lane
  <1>5. ASSUME NEW row, Set(w, Admit(req[w], row)), req[w].pc # "idle"
        PROVE  \E q : Set(w, q) /\ Elsewhere(w, q)
    <2>1. PICK r \in Request : Asked(w) = r.op
      BY <1>0, <1>5, Asks
    <2>2. req[w].op.kind \in Kind
      BY <2>1, RequestAssumption DEF Asked
    <2>3. Elsewhere(w, Admit(req[w], row))
      BY <1>0, <2>2 DEF Elsewhere, Lane, Admit, Resting, Local, Kind
    <2> QED
      BY <1>5, <2>3
  <1>6. CASE BindSubject(w) \/ ResolvePrincipal(w)
    <2>1. req[w].pc # "idle"
      BY <1>6 DEF BindSubject, ResolvePrincipal, At
    <2>2. \/ \E row : Set(w, Admit(req[w], row))
          \/ \E row : Set(w, [req[w] EXCEPT !.pc = "bind", !.me = row])
          \/ Ends(w)
      <3>1. CASE BindSubject(w)
        BY <3>1 DEF BindSubject
      <3>2. CASE ResolvePrincipal(w)
        <4>1. PICK link : Set(w, CASE link.kind = "MATCHED"      -> Admit(req[w], link.user)
                                   [] link.kind = "BIND_SUBJECT" -> [req[w] EXCEPT !.pc = "bind", !.me = link.user]
                                   [] OTHER                      -> Resting)
          BY <3>2 DEF ResolvePrincipal
        <4> QED
          BY <4>1 DEF Ends
      <3> QED
        BY <1>6, <3>1, <3>2
    <2>3. ASSUME NEW row, Set(w, [req[w] EXCEPT !.pc = "bind", !.me = row])
          PROVE  \E q : Set(w, q) /\ Elsewhere(w, q)
      <3> DEFINE q == [req[w] EXCEPT !.pc = "bind", !.me = row]
      <3>1. q.pc = "bind" /\ q.locked = req[w].locked
        BY <1>0 DEF Local
      <3>2. Set(w, q)
        BY <2>3
      <3> HIDE DEF q
      <3> QED
        BY <3>1, <3>2 DEF Elsewhere, Lane
    <2> QED
      BY <1>1, <1>5, <2>1, <2>2, <2>3
  <1>7. CASE CreateDefinition(w)
    <2>1. PICK n : Set(w, [req[w] EXCEPT !.pc = "insertDefinition", !.version = n])
      BY <1>7, Zenon DEF CreateDefinition
    <2> DEFINE q == [req[w] EXCEPT !.pc = "insertDefinition", !.version = n]
    <2>2. q.pc = "insertDefinition" /\ q.locked = req[w].locked
      BY <1>0 DEF Local
    <2>3. Set(w, q)
      BY <2>1
    <2> HIDE DEF q
    <2> QED
      BY <2>2, <2>3 DEF Elsewhere, Lane
  <1>8. CASE CreateUser(w) \/ CreateGrant(w) \/ SetEnforcement(w) \/ Approve(w) \/ CheckLimits(w)
    BY <1>1, <1>2, <1>8, Zenon DEF Lane, CreateUser, CreateGrant, SetEnforcement, Approve, CheckLimits
  <1>9. CASE RetireDefinition(w)
    BY <1>1, <1>2, <1>9, Zenon DEF Lane, RetireDefinition
  <1>10. CASE \/ InsertUser(w) \/ InsertGrant(w) \/ RemoveGrant(w) \/ WriteEnforced(w) \/ Decide(w)
              \/ InsertDefinition(w) \/ Commit(w) \/ Deadlock(w) \/ RetireRow(w)
    BY <1>1, <1>10, Zenon DEF InsertUser, InsertGrant, RemoveGrant, WriteEnforced, Decide,
       InsertDefinition, Commit, Deadlock, RetireRow
  <1> QED
    BY <1>3, <1>4, <1>6, <1>7, <1>8, <1>9, <1>10, Zenon DEF SignIn

-----------------------------------------------------------------------------
(* AdminLeft.                                                              *)

\* The tenants with an administrator at first.
Manned == {Seed[u].tenant : u \in {v \in DOMAIN Seed : Seed[v].role = "ADMIN" /\ Seed[v].active}}

\* An update that is past its checks, and takes somebody's access, leaves another
\* administrator: the check counted one, or its target was none.
Spares(q) ==
  q.pc = "writeUser" /\ TakesAccess(q.op) /\ q.me.tenant \in Manned =>
    Administrators(q.me.tenant) \ {q.op.target} # {}

Guarded ==
  \/ overlap
  \/ /\ \A t \in Manned : Administrators(t) # {}
     /\ \A w \in Worker : Spares(req[w])

\* Nobody loses the role, and the request that moves does not reach its write.
LEMMA MoreAdministrators ==
  ASSUME Signed, Guarded, NEW w \in Worker, NEW q, Set(w, q), q.pc # "writeUser", UNCHANGED overlap,
         \A t : Administrators(t) \subseteq Administrators(t)'
  PROVE  Guarded'
  <1>1. CASE overlap
    BY <1>1, Zenon DEF Guarded
  <1>2. CASE ~overlap
    <2>1. (\A t \in Manned : Administrators(t) # {}) /\ \A v \in Worker : Spares(req[v])
      BY <1>2, Zenon DEF Guarded
    <2>2. \A t \in Manned : Administrators(t)' # {}
      BY <2>1
    <2>3. ASSUME NEW v \in Worker  PROVE Spares(req[v])'
      <3>1. CASE v = w
        BY <3>1 DEF Spares, Set, Signed, Typed
      <3>2. CASE v # w
        <4>1. PICK r : r = req[v] /\ Spares(r)
          BY <2>1
        <4>2. Spares(r)'
          <5> SUFFICES ASSUME r.pc = "writeUser", TakesAccess(r.op), r.me.tenant \in Manned
                       PROVE  Administrators(r.me.tenant)' \ {r.op.target} # {}
            BY DEF Spares
          <5>1. Administrators(r.me.tenant) \ {r.op.target} # {}
            BY <4>1 DEF Spares
          <5> QED
            BY <5>1
        <4>3. req'[v] = r
          BY <3>2, <4>1 DEF Set, Signed, Typed
        <4> QED
          BY <4>2, <4>3
      <3> QED
        BY <3>1, <3>2
    <2> QED
      BY <2>2, <2>3, Zenon DEF Guarded
  <1> QED
    BY <1>1, <1>2


\* The steps that neither take access nor get ready to.
LEMMA HarmlessSteps ==
  ASSUME Signed, Guarded, NEW w \in Worker,
         \/ Start(w) \/ SignIn(w) \/ Publishing(w) \/ CreateUser(w) \/ InsertUser(w)
         \/ CreateGrant(w) \/ InsertGrant(w) \/ RemoveGrant(w)
         \/ SetEnforcement(w) \/ WriteEnforced(w) \/ Approve(w) \/ CheckLimits(w) \/ Decide(w)
  PROVE  Guarded'
  <1>0. Typed /\ req[w] \in Local
    BY Locals DEF Signed
  <1>1. UNCHANGED overlap
    BY Zenon DEF Start, SignIn, FindBySubject, ResolvePrincipal, BindSubject, Publishing, CreateDefinition,
       InsertDefinition, PublishDefinition, RetireOld, LockOld, PublishRow, PublishEntry, Commit, Deadlock, RetireDefinition,
       RetireRow, CreateUser, InsertUser, CreateGrant, InsertGrant, RemoveGrant, SetEnforcement,
       WriteEnforced, Approve, CheckLimits, Decide, directory, rest
  <1>2. \A t : Administrators(t) \subseteq Administrators(t)'
    <2>1. CASE UNCHANGED users
      BY <2>1 DEF Administrators, Known
    <2>2. CASE InsertUser(w)
      <3>1. \A u \in Known : users'[u] = users[u]
        BY <2>2, InsertMoves
      <3> QED
        BY <3>1 DEF Administrators, Known
    <2>3. CASE BindSubject(w) /\ ~UNCHANGED users
      <3>1. PICK i : users' = [users EXCEPT ![req[w].me.id].sso = i]
        BY <2>3 DEF BindSubject
      <3>2. Sound(req[w]) /\ req[w].pc = "bind"
        BY <2>3 DEF Signed, BindSubject, At
      <3>3. PICK u \in Known : u = req[w].me.id
        BY <3>2 DEF Sound
      <3>4. users[u] \in User /\ u \in UserId
        BY <1>0, <3>3, Lines DEF Known
      <3> DEFINE row == [users[u] EXCEPT !.sso = i]
      <3>5. row.tenant = users[u].tenant /\ row.role = users[u].role /\ row.active = users[u].active
        BY <3>4 DEF User
      <3>6. users' = [users EXCEPT ![u] = row]
        BY <3>1, <3>3
      <3> HIDE DEF row
      <3>7. users'[u] = row /\ \A v \in UserId : v # u => users'[v] = users[v]
        BY <1>0, <3>4, <3>6 DEF Typed
      <3>8. u \in Known'
        BY <2>3, <3>3, BindMoves DEF Moves, Keeps
      <3> QED
        BY <3>5, <3>7, <3>8 DEF Administrators, Known
    <2>4. UNCHANGED users \/ InsertUser(w) \/ BindSubject(w)
      BY Zenon DEF Start, SignIn, FindBySubject, ResolvePrincipal, Publishing, CreateDefinition,
         InsertDefinition, PublishDefinition, RetireOld, LockOld, PublishRow, PublishEntry, Commit, Deadlock, RetireDefinition,
         RetireRow, CreateUser, CreateGrant, InsertGrant, RemoveGrant, SetEnforcement,
         WriteEnforced, Approve, CheckLimits, Decide, directory, rest
    <2> QED
      BY <2>1, <2>2, <2>3, <2>4
  <1>3. PICK q : Set(w, q) /\ q.pc # "writeUser"
    <2>1. CASE Ends(w)
      BY <2>1 DEF Ends, Resting
    <2>2. ASSUME NEW l \in Lane, NEW seen, NEW locked, Leads(w, l, seen, locked)
          PROVE  \E q : Set(w, q) /\ q.pc # "writeUser"
      BY <2>2 DEF Leads, Lane
    <2>3. CASE PublishDefinition(w) \/ RetireOld(w) \/ LockOld(w) \/ PublishRow(w) \/ PublishEntry(w)
      <3>1. "retireOld" \in Lane /\ "lockOld" \in Lane /\ "publishRow" \in Lane /\ "publishEntry" \in Lane
            /\ "commit" \in Lane
        BY DEF Lane
      <3> QED
        BY <1>0, <2>1, <2>2, <2>3, <3>1, LaneSteps, Zenon
    <2>4. CASE ~(PublishDefinition(w) \/ RetireOld(w) \/ LockOld(w) \/ PublishRow(w) \/ PublishEntry(w))
      <3>1. \E q : Set(w, q) /\ Elsewhere(w, q)
        BY <2>4, Lands, Zenon DEF Publishing
      <3> QED
        BY <3>1 DEF Elsewhere
    <2> QED
      BY <2>3, <2>4, Zenon
  <1> QED
    BY <1>1, <1>2, <1>3, MoreAdministrators

\* With the users as they are, only what the request itself gets ready to do matters.
LEMMA SparesKept ==
  ASSUME Signed, Guarded, NEW w \in Worker, NEW q, Set(w, q), overlap \/ Spares(q),
         UNCHANGED <<users, overlap>>
  PROVE  Guarded'
  <1>1. CASE overlap
    BY <1>1, Zenon DEF Guarded
  <1>2. CASE ~overlap
    <2>1. (\A t \in Manned : Administrators(t) # {}) /\ (\A v \in Worker : Spares(req[v])) /\ Spares(q)
      BY <1>2, Zenon DEF Guarded
    <2>2. \A t : Administrators(t)' = Administrators(t)
      BY DEF Administrators, Known
    <2>3. ASSUME NEW v \in Worker  PROVE Spares(req[v])'
      <3>1. PICK r : r = req'[v] /\ Spares(r)
        BY <2>1 DEF Set, Signed, Typed
      <3>2. Spares(r)'
        BY <2>2, <3>1 DEF Spares
      <3> QED
        BY <3>1, <3>2
    <2> QED
      BY <2>1, <2>2, <2>3, Zenon DEF Guarded
  <1> QED
    BY <1>1, <1>2

LEMMA TargetSpares ==
  ASSUME Signed, Guarded, NEW w \in Worker, ReadTarget(w)  PROVE Guarded'
  <1> DEFINE u == Asked(w).target
  <1>1. req[w] \in Local /\ UNCHANGED <<users, overlap>>
    BY Locals, Zenon DEF Signed, ReadTarget, directory
  <1>2. CASE Ends(w)
    <2>1. Spares(Resting)
      BY DEF Spares, Resting
    <2> QED
      BY <1>1, <1>2, <2>1, SparesKept, Zenon DEF Ends
  <1>3. CASE ~Ends(w)
    <2>1. PICK l : /\ l = IF Demotes(Asked(w), Row(u)) THEN "others" ELSE "writeUser"
                   /\ Set(w, [req[w] EXCEPT !.target = Row(u), !.pc = l])
      BY <1>3 DEF ReadTarget
    <2> DEFINE q == [req[w] EXCEPT !.target = Row(u), !.pc = l]
    <2>2. q.pc = l /\ q.op = req[w].op /\ q.me = req[w].me
      BY <1>1 DEF Local
    <2>3. Set(w, q)
      BY <2>1
    <2> HIDE DEF q
    <2>4. CASE ~overlap
      <3>1. \A t \in Manned : Administrators(t) # {}
        BY <2>4, Zenon DEF Guarded
      <3> SUFFICES ASSUME q.pc = "writeUser", TakesAccess(q.op), q.me.tenant \in Manned
                   PROVE  Administrators(q.me.tenant) \ {q.op.target} # {}
        BY <1>1, <2>3, SparesKept, Zenon DEF Spares
      <3>2. Row(u).role # "ADMIN"
        BY <2>1, <2>2 DEF Demotes, Asked
      <3>3. q.op.target \notin Administrators(q.me.tenant)
        BY <2>2, <3>2 DEF Administrators, Row, Asked
      <3> QED
        BY <3>1, <3>3
    <2> QED
      BY <1>1, <2>3, <2>4, SparesKept, Zenon
  <1> QED
    BY <1>2, <1>3

LEMMA LastSpares ==
  ASSUME Signed, Guarded, NEW w \in Worker, LastAdmin(w)  PROVE Guarded'
  <1>1. /\ req[w] \in Local /\ Sound(req[w]) /\ req[w].pc = "others" /\ UNCHANGED <<users, overlap>>
    BY Locals, Zenon DEF Signed, LastAdmin, directory, At
  <1>2. CASE Ends(w)
    <2>1. Spares(Resting)
      BY DEF Spares, Resting
    <2> QED
      BY <1>1, <1>2, <2>1, SparesKept, Zenon DEF Ends
  <1>3. CASE Goto(w, "writeUser") /\ Administrators(Home(w)) \ {req[w].target.id} # {}
    <2> DEFINE q == [req[w] EXCEPT !.pc = "writeUser"]
    <2>1. q.op = req[w].op /\ q.me = req[w].me
      BY <1>1 DEF Local
    <2>2. Set(w, q)
      BY <1>3 DEF Goto
    <2> HIDE DEF q
    <2>3. Spares(q)
      BY <1>1, <1>3, <2>1 DEF Spares, Sound, Home
    <2> QED
      BY <1>1, <2>2, <2>3, SparesKept, Zenon
  <1> QED
    BY <1>2, <1>3 DEF LastAdmin

\* An update takes access from its target alone, and from it only if it asks for that.
LEMMA Strippers ==
  ASSUME Signed, NEW w \in Worker, WriteUser(w), NEW t
  PROVE  /\ Administrators(t) \ {Asked(w).target} \subseteq Administrators(t)'
         /\ ~Strips(w) => Administrators(t) \subseteq Administrators(t)'
         /\ t # Home(w) => Administrators(t) \subseteq Administrators(t)'
  <1> DEFINE u == Asked(w).target
  <1>1. /\ u \in Known /\ users[u].tenant = Home(w) /\ users'[u].tenant = users[u].tenant
        /\ users'[u].role = Or(Asked(w).role, users[u].role)
        /\ users'[u].active = Or(Asked(w).active, users[u].active)
        /\ users'[u] # NoUser /\ \A v \in UserId : v # u => users'[v] = users[v]
    BY WriteMoves
  <1>2. ASSUME NEW a \in Administrators(t), a # u  PROVE a \in Administrators(t)'
    BY <1>1, <1>2 DEF Administrators, Known
  <1>3. ASSUME u \in Administrators(t), ~TakesAccess(Asked(w))  PROVE u \in Administrators(t)'
    <2>1. users[u].tenant = t /\ users[u].role = "ADMIN" /\ users[u].active
      BY <1>3 DEF Administrators
    <2>2. Asked(w).role \in {Unset, "ADMIN"} /\ Asked(w).active # FALSE
      BY <1>3, Zenon DEF TakesAccess
    <2>3. users'[u].role = "ADMIN"
      BY <1>1, <2>1, <2>2 DEF Or
    <2>4. req[w].pc = "writeUser" /\ Typed /\ req[w] \in Job
      BY Locals DEF WriteUser, At, Signed
    <2>5. PICK r \in Request : Asked(w) = r.op
      BY <2>4, Asks
    <2>6. r.op.active \in BOOLEAN \cup {Unset}
      BY <2>4, <2>5, RequestAssumption DEF Job, Inside, Route, Asked
    <2>7. Asked(w).active = Unset \/ Asked(w).active = TRUE
      BY <2>2, <2>5, <2>6, Zenon
    <2>8. users'[u].active
      BY <1>1, <2>1, <2>7 DEF Or
    <2> QED
      BY <1>1, <2>1, <2>3, <2>8 DEF Administrators, Known
  <1>4. Strips(w) \/ u \notin Administrators(Home(w)) \/ ~TakesAccess(Asked(w))
    BY DEF Strips, WriteUser
  <1>5. u \in Administrators(t) => t = Home(w)
    BY <1>1 DEF Administrators
  <1> QED
    BY <1>2, <1>3, <1>4, <1>5

LEMMA WriteSpares ==
  ASSUME Signed, Guarded, NEW w \in Worker, WriteUser(w)  PROVE Guarded'
  <1> DEFINE u == Asked(w).target
             t == Home(w)
             Together == \E v \in Worker \ {w} : Strips(v) /\ Home(v) = Home(w)
  <1>1. overlap' = (overlap \/ (Strips(w) /\ Together)) /\ Ends(w) /\ Spares(Resting)
    BY Zenon DEF WriteUser, Spares, Resting
  <1>2. CASE overlap \/ (Strips(w) /\ Together)
    BY <1>1, <1>2, Zenon DEF Guarded
  <1>3. CASE ~overlap /\ ~Strips(w)
    <2>1. UNCHANGED overlap
      BY <1>1, <1>3, Zenon DEF WriteUser, Typed, Signed
    <2>2. \A x : Administrators(x) \subseteq Administrators(x)'
      BY <1>3, Strippers
    <2>3. Set(w, Resting) /\ Resting.pc # "writeUser"
      BY <1>1 DEF Ends, Resting
    <2> QED
      BY <2>1, <2>2, <2>3, MoreAdministrators
  <1>4. CASE ~overlap /\ Strips(w) /\ ~Together
    <2>1. (\A x \in Manned : Administrators(x) # {}) /\ \A v \in Worker : Spares(req[v])
      BY <1>4, Zenon DEF Guarded
    <2>2. \A x : /\ Administrators(x) \ {u} \subseteq Administrators(x)'
                 /\ x # t => Administrators(x) \subseteq Administrators(x)'
      BY Strippers
    <2>3. t \in Manned => Administrators(t) \ {u} # {}
      <3>1. Spares(req[w])
        BY <2>1
      <3> QED
        BY <1>4, <3>1 DEF Spares, Strips, Home, Asked, At
    <2>4. \A x \in Manned : Administrators(x)' # {}
      BY <2>1, <2>2, <2>3
    <2>5. ASSUME NEW v \in Worker  PROVE Spares(req[v])'
      <3>1. CASE v = w
        BY <1>1, <3>1 DEF Spares, Ends, Set, Resting, Signed, Typed
      <3>2. CASE v # w
        <4>1. PICK r : r = req[v] /\ Spares(r)
          BY <2>1
        <4>2. req'[v] = r
          BY <1>1, <3>2, <4>1 DEF Ends, Set, Signed, Typed
        <4>3. Spares(r)'
          <5> SUFFICES ASSUME r.pc = "writeUser", TakesAccess(r.op), r.me.tenant \in Manned
                       PROVE  Administrators(r.me.tenant)' \ {r.op.target} # {}
            BY DEF Spares
          <5>1. Administrators(r.me.tenant) \ {r.op.target} # {}
            BY <4>1 DEF Spares
          <5>2. CASE r.me.tenant # t
            BY <2>2, <5>1, <5>2
          <5>3. CASE r.me.tenant = t
            <6>1. ~Strips(v)
              BY <1>4, <3>2, <4>1, <5>3 DEF Home
            <6>2. r.op.target \notin Administrators(t)
              BY <4>1, <5>3, <6>1 DEF Strips, At, Asked, Home
            <6>3. PICK a : a \in Administrators(t) /\ a # u
              BY <2>3, <5>3
            <6> QED
              BY <2>2, <5>3, <6>2, <6>3
          <5> QED
            BY <5>2, <5>3
        <4> QED
          BY <4>2, <4>3
      <3> QED
        BY <3>1, <3>2
    <2> QED
      BY <2>4, <2>5, Zenon DEF Guarded
  <1> QED
    BY <1>2, <1>3, <1>4

LEMMA StepGuarded ==
  ASSUME Signed, Guarded, [Next]_tvars  PROVE Guarded'
  <1>1. CASE UNCHANGED tvars
    <2>1. UNCHANGED <<users, req, overlap>>
      BY <1>1 DEF tvars, directory
    <2>2. CASE overlap
      BY <2>1, <2>2, Zenon DEF Guarded
    <2>3. CASE ~overlap
      <3>1. (\A t \in Manned : Administrators(t) # {}) /\ \A v \in Worker : Spares(req[v])
        BY <2>3, Zenon DEF Guarded
      <3>2. \A t : Administrators(t)' = Administrators(t)
        BY <2>1 DEF Administrators, Known
      <3>3. \A v \in Worker : Spares(req[v])'
        BY <2>1, <3>1, <3>2 DEF Spares
      <3> QED
        BY <3>1, <3>2, <3>3, Zenon DEF Guarded
    <2> QED
      BY <2>2, <2>3
  <1>2. CASE \E w \in Worker : Start(w) \/ SignIn(w) \/ Handler(w) \/ Publishing(w)
    BY <1>2, HarmlessSteps, TargetSpares, LastSpares, WriteSpares, Zenon DEF Handler
  <1> QED
    BY <1>1, <1>2, Zenon DEF Next, Statement

LEMMA InitGuarded == ASSUME Init  PROVE Guarded
  <1>1. /\ users = [u \in UserId |-> IF u \in DOMAIN Seed THEN Seed[u] ELSE NoUser]
        /\ req = [w \in Worker |-> Resting]
    BY Zenon DEF Init, DirectoryInit
  <1>2. \A t \in Manned : Administrators(t) # {}
    BY <1>1, DirectoryAssumption DEF Manned, Administrators, Known
  <1>3. \A w \in Worker : Spares(req[w])
    BY <1>1 DEF Spares, Resting
  <1> QED
    BY <1>2, <1>3, Zenon DEF Guarded

\* A tenant keeps an active administrator, however many updates overlap, unless one is
\* stripped while another update that strips one of the same tenant is past its checks
\* (users.controller.ts, update).
THEOREM SpecAdminLeft == Spec => []AdminLeft
  <1>1. Signed /\ Guarded /\ [Next]_tvars => Guarded'
    BY StepGuarded
  <1>2. Guarded => AdminLeft
    BY Zenon DEF Guarded, AdminLeft, Manned
  <1> QED
    BY <1>1, <1>2, InitGuarded, SpecSigned, PTL DEF Spec


-----------------------------------------------------------------------------
(* The published definition.                                               *)

\* What a publication knows of the definitions; a row is staged only by one that has
\* reached its second update.
Staged(q) ==
  /\ q.locked \subseteq DOMAIN defs
  /\ q.pc \notin {"publishRow", "publishEntry", "commit"} => q.locked = {}
  /\ q.pc \in Lane => q.op.def \in DOMAIN defs
  /\ q.pc \in {"lockOld", "publishRow"} => q.seen \subseteq DOMAIN defs
  /\ q.pc = "publishRow" => q.locked = q.seen
  /\ q.pc = "publishEntry" => q.locked = q.seen \cup {q.op.def}
  /\ q.pc = "commit" => q.op.def \in q.locked /\ Published \subseteq q.locked

Held ==
  /\ \A w \in Worker : Staged(req[w])
  /\ \A v, w \in Worker : req[v].pc = "commit" /\ req[w].pc = "commit" => v = w
  /\ \A d, e \in Published : d = e

\* Steps that publish nothing and do not reach a commit.
LEMMA HeldKept ==
  ASSUME Signed, Held, NEW w \in Worker, NEW q, Set(w, q), q.pc # "commit",
         DOMAIN defs \subseteq DOMAIN defs', Published' \subseteq Published, Staged(q)'
  PROVE  Held'
  <1>1. req'[w] = q /\ \A v \in Worker : v # w => req'[v] = req[v]
    BY DEF Set, Signed, Typed
  <1>2. ASSUME NEW v \in Worker  PROVE Staged(req[v])'
    <2>1. CASE v = w
      BY <1>1, <2>1
    <2>2. CASE v # w
      <3>1. PICK r : r = req[v] /\ Staged(r)
        BY DEF Held
      <3>2. Staged(r)'
        BY <3>1 DEF Staged
      <3> QED
        BY <1>1, <2>2, <3>1, <3>2
    <2> QED
      BY <2>1, <2>2
  <1> QED
    BY <1>1, <1>2 DEF Held

\* An UPDATE of one row, the insertion of a draft.
LEMMA TableSteps ==
  ASSUME Signed, NEW w \in Worker, RetireRow(w) \/ InsertDefinition(w)
  PROVE  /\ DOMAIN defs \subseteq DOMAIN defs' /\ Published' \subseteq Published
         /\ InsertDefinition(w) => Published \subseteq Published'
  <1>1. defs \in Seq(Definition)
    BY DEF Signed, Typed
  <1>2. CASE RetireRow(w)
    <2>1. \A d \in DOMAIN defs : d # Asked(w).def => defs'[d] = defs[d]
      BY <1>1, <1>2 DEF RetireRow
    <2>2. ASSUME Asked(w).def \in DOMAIN defs  PROVE defs'[Asked(w).def].status = "RETIRED"
      <3> DEFINE d == Asked(w).def  row == [defs[d] EXCEPT !.status = "RETIRED"]
      <3>1. defs[d] \in Definition
        BY <1>1, <2>2
      <3>2. row.status = "RETIRED"
        BY <3>1 DEF Definition
      <3>3. defs' = [defs EXCEPT ![d] = row]
        BY <1>2 DEF RetireRow
      <3> HIDE DEF row
      <3> QED
        BY <1>1, <2>2, <3>2, <3>3
    <2>3. DOMAIN defs' = DOMAIN defs
      BY <1>2, DefinitionTables
    <2>4. ~InsertDefinition(w)
      BY <1>2 DEF RetireRow, InsertDefinition, At
    <2> QED
      BY <2>1, <2>2, <2>3, <2>4 DEF Published
  <1>3. CASE InsertDefinition(w)
    <2>1. PICK row : row.status = "DRAFT" /\ (defs' = defs \/ defs' = Append(defs, row))
      BY <1>3 DEF InsertDefinition
    <2>2. CASE defs' = defs
      BY <2>2 DEF Published
    <2>3. CASE defs' = Append(defs, row)
      <3>1. /\ DOMAIN defs = 1..Len(defs) /\ Len(defs) \in Nat /\ DOMAIN defs' = 1..(Len(defs) + 1)
            /\ defs'[Len(defs) + 1] = row /\ \A d \in DOMAIN defs : defs'[d] = defs[d]
        BY <1>1, <2>3
      <3>2. \A d \in DOMAIN defs' : d \in DOMAIN defs \/ d = Len(defs) + 1
        BY <3>1
      <3> QED
        BY <2>1, <3>1, <3>2 DEF Published
    <2> QED
      BY <2>1, <2>2, <2>3
  <1> QED
    BY <1>2, <1>3

\* Every step but those of a publication leads out of the publishing statements and has
\* nothing more staged.
LEMMA StepElsewhere ==
  ASSUME Signed, NEW w \in Worker,
         \/ UNCHANGED defs /\ (Start(w) \/ SignIn(w) \/ Handler(w))
         \/ CreateDefinition(w) \/ InsertDefinition(w) \/ RetireDefinition(w) \/ RetireRow(w)
  PROVE  \E q : Set(w, q) /\ q.pc \notin Lane /\ q.locked \in {req[w].locked, {}}
  <1>0. req[w] \in Local
    BY Locals DEF Signed
  <1>1. CASE ReadTarget(w) \/ LastAdmin(w) \/ WriteUser(w)
    <2>1. CASE Ends(w)
      <3>1. Resting.pc \notin Lane /\ Resting.locked = {}
        BY DEF Resting, Lane
      <3> QED
        BY <2>1, <3>1, Zenon DEF Ends
    <2>2. CASE LastAdmin(w) /\ Goto(w, "writeUser")
      <3> DEFINE q == [req[w] EXCEPT !.pc = "writeUser"]
      <3>1. q.pc = "writeUser" /\ q.locked = req[w].locked
        BY <1>0 DEF Local
      <3>2. Set(w, q)
        BY <2>2 DEF Goto
      <3> HIDE DEF q
      <3> QED
        BY <3>1, <3>2 DEF Lane
    <2>3. CASE ReadTarget(w) /\ ~Ends(w)
      <3> DEFINE row == Row(Asked(w).target)
      <3>1. PICK l \in {"others", "writeUser"} : Set(w, [req[w] EXCEPT !.target = row, !.pc = l])
        BY <2>3 DEF ReadTarget
      <3> DEFINE q == [req[w] EXCEPT !.target = row, !.pc = l]
      <3>2. q.pc = l /\ q.locked = req[w].locked
        BY <1>0 DEF Local
      <3>3. Set(w, q)
        BY <3>1
      <3> HIDE DEF q
      <3> QED
        BY <3>2, <3>3 DEF Lane
    <2> QED
      BY <1>1, <2>1, <2>2, <2>3, Zenon DEF LastAdmin, WriteUser
  <1>2. CASE ~(ReadTarget(w) \/ LastAdmin(w) \/ WriteUser(w))
    <2>1. \E q : Set(w, q) /\ Elsewhere(w, q)
      BY <1>2, Lands, Zenon DEF Handler
    <2> QED
      BY <2>1 DEF Elsewhere
  <1> QED
    BY <1>1, <1>2, Zenon

LEMMA StepHeldElsewhere ==
  ASSUME Signed, Held, NEW w \in Worker,
         \/ UNCHANGED defs /\ (Start(w) \/ SignIn(w) \/ Handler(w))
         \/ CreateDefinition(w) \/ InsertDefinition(w) \/ RetireDefinition(w) \/ RetireRow(w)
  PROVE  Held'
  <1>0. Typed /\ req[w] \in Local /\ Staged(req[w])
    BY Locals DEF Signed, Held
  <1>1. DOMAIN defs \subseteq DOMAIN defs' /\ Published' \subseteq Published
    <2>1. CASE UNCHANGED defs
      BY <2>1 DEF Published
    <2>2. CASE ~UNCHANGED defs
      BY <2>2, TableSteps, Zenon DEF CreateDefinition, RetireDefinition
    <2> QED
      BY <2>1, <2>2
  <1>2. PICK q : Set(w, q) /\ q.pc \notin Lane /\ q.locked \in {req[w].locked, {}}
    BY StepElsewhere
  <1>3. req[w].pc \notin {"publishRow", "publishEntry", "commit"}
    BY DEF Start, SignIn, FindBySubject, ResolvePrincipal, BindSubject, Handler, CreateUser, InsertUser,
       ReadTarget, LastAdmin, WriteUser, CreateGrant, InsertGrant, RemoveGrant, SetEnforcement,
       WriteEnforced, Approve, CheckLimits, Decide, CreateDefinition, InsertDefinition,
       RetireDefinition, RetireRow, At
  <1>4. q.locked = {}
    BY <1>0, <1>2, <1>3 DEF Staged
  <1>5. Staged(q)'
    BY <1>2, <1>4 DEF Staged, Lane
  <1> QED
    BY <1>1, <1>2, <1>5, HeldKept DEF Lane

\* The statements before the commit: what they find staged by nobody, they stage.
LEMMA StepHeldLane ==
  ASSUME Signed, Held, NEW w \in Worker,
         \/ PublishDefinition(w) \/ RetireOld(w) \/ LockOld(w) \/ PublishRow(w) \/ PublishEntry(w)
         \/ Deadlock(w)
  PROVE  Held'
  <1>0. Typed /\ req[w] \in Local /\ Staged(req[w]) /\ UNCHANGED defs
    BY Locals, Zenon DEF Signed, Held, PublishDefinition, RetireOld, LockOld, PublishRow, PublishEntry, Deadlock
  <1>1. CASE Ends(w)
    <2>1. Staged(Resting)'
      BY DEF Staged, Resting, Lane
    <2>2. Set(w, Resting) /\ Resting.pc # "commit"
      BY <1>1 DEF Ends, Resting
    <2> QED
      BY <1>0, <2>1, <2>2, HeldKept DEF Published
  <1>2. CASE PublishDefinition(w) /\ ~Ends(w)
    <2>1. PICK q : Set(w, q) /\ q.pc = "retireOld" /\ q.locked = req[w].locked /\ q.op = req[w].op
      BY <1>0, <1>2, LaneSteps DEF Leads
    <2>2. Asked(w).def \in DOMAIN defs /\ req[w].pc = "publishDefinition"
      BY <1>2 DEF PublishDefinition, At
    <2>3. Staged(q)'
      BY <1>0, <2>1, <2>2 DEF Staged, Asked
    <2> QED
      BY <1>0, <2>1, <2>3, HeldKept DEF Published
  <1>3. CASE RetireOld(w)
    <2>1. PICK q : /\ Set(w, q) /\ q.pc = "lockOld" /\ q.seen = Published /\ q.locked = req[w].locked
                   /\ q.op = req[w].op
      BY <1>0, <1>3, LaneSteps DEF Leads
    <2>2. req[w].pc = "retireOld"
      BY <1>3 DEF RetireOld, At
    <2>3. Staged(q)'
      BY <1>0, <2>1, <2>2 DEF Staged, Lane, Published
    <2> QED
      BY <1>0, <2>1, <2>3, HeldKept DEF Published
  <1>4. CASE LockOld(w)
    <2>1. PICK q : /\ Set(w, q) /\ q.pc = "publishRow" /\ q.op = req[w].op
                   /\ q.seen = req[w].seen /\ q.locked = req[w].seen
      BY <1>0, <1>4, LaneSteps DEF Leads
    <2>2. req[w].pc = "lockOld"
      BY <1>4 DEF LockOld, At
    <2>3. Staged(q)'
      BY <1>0, <2>1, <2>2 DEF Staged, Lane
    <2> QED
      BY <1>0, <2>1, <2>3, HeldKept DEF Published
  <1>5. CASE PublishRow(w)
    <2>1. PICK q : /\ Set(w, q) /\ q.pc = "publishEntry" /\ q.op = req[w].op
                   /\ q.seen = req[w].seen /\ q.locked = req[w].locked \cup {req[w].op.def}
      BY <1>0, <1>5, LaneSteps DEF Leads, Asked
    <2>2. req[w].pc = "publishRow"
      BY <1>5 DEF PublishRow, At
    <2>3. Staged(q)'
      BY <1>0, <2>1, <2>2 DEF Staged, Lane
    <2> QED
      BY <1>0, <2>1, <2>3, HeldKept DEF Published
  <1>6. CASE PublishEntry(w) /\ ~Ends(w)
    <2>1. PICK q : Set(w, q) /\ q.pc = "commit" /\ q.op = req[w].op /\ q.locked = req[w].locked
      BY <1>0, <1>6, LaneSteps DEF Leads
    <2>2. /\ req[w].pc = "publishEntry" /\ Published \subseteq req[w].locked
          /\ \A v \in Worker \ {w} : req[v].pc # "commit"
      BY <1>6 DEF PublishEntry, At, InDoubt
    <2>3. Staged(q)'
      BY <1>0, <2>1, <2>2 DEF Staged, Lane, Published
    <2>5. req'[w] = q /\ \A v \in Worker : v # w => req'[v] = req[v]
      BY <1>0, <2>1 DEF Set, Typed
    <2>6. ASSUME NEW v \in Worker  PROVE Staged(req[v])'
      <3>1. CASE v = w
        BY <2>3, <2>5, <3>1
      <3>2. CASE v # w
        <4>1. PICK r : r = req[v] /\ Staged(r)
          BY DEF Held
        <4>2. Staged(r)'
          BY <1>0, <4>1 DEF Staged, Published
        <4> QED
          BY <2>5, <3>2, <4>1, <4>2
      <3> QED
        BY <3>1, <3>2
    <2>7. \A v, x \in Worker : req'[v].pc = "commit" /\ req'[x].pc = "commit" => v = x
      BY <2>1, <2>2, <2>5
    <2> QED
      BY <1>0, <2>6, <2>7 DEF Held, Published
  <1> QED
    BY <1>1, <1>2, <1>3, <1>4, <1>5, <1>6, Zenon DEF Deadlock

\* Whoever commits is alone at it, and has staged what was published.
LEMMA StepHeldCommit ==
  ASSUME Signed, Held, NEW w \in Worker, Commit(w)
  PROVE  Held' /\ Published' = {Asked(w).def}
  <1> DEFINE d == Asked(w).def
  <1>0. /\ Typed /\ req[w] \in Local /\ Staged(req[w]) /\ req[w].pc = "commit" /\ defs \in Seq(Definition)
        /\ Ends(w)
    BY Locals DEF Signed, Held, Commit, At, Typed
  <1>1. d \in DOMAIN defs /\ Published \subseteq req[w].locked
    BY <1>0 DEF Staged, Lane, Asked
  <1>2. DOMAIN defs' = DOMAIN defs
    BY DefinitionTables
  <1>3. Published' = {d}
    <2>1. \A e \in DOMAIN defs : \A s \in Status : [defs[e] EXCEPT !.status = s].status = s
      BY <1>0 DEF Definition
    <2>2. defs'[d].status = "PUBLISHED"
      BY <1>1, <2>1 DEF Commit, Status
    <2>3. ASSUME NEW e \in DOMAIN defs, e # d  PROVE defs'[e].status # "PUBLISHED"
      <3>1. CASE e \in req[w].locked
        BY <2>1, <2>3, <3>1 DEF Commit, Status
      <3>2. CASE e \notin req[w].locked
        BY <1>1, <2>3, <3>2 DEF Commit, Published
      <3> QED
        BY <3>1, <3>2
    <2> QED
      BY <1>1, <1>2, <2>2, <2>3 DEF Published
  <1>4. /\ req'[w] = Resting /\ Resting.pc = "idle" /\ Resting.locked = {}
        /\ \A v \in Worker : v # w => req'[v] = req[v] /\ req[v].pc # "commit"
    BY <1>0 DEF Ends, Set, Typed, Resting, Held
  <1>5. ASSUME NEW v \in Worker  PROVE Staged(req[v])'
    <2>1. CASE v = w
      BY <1>4, <2>1 DEF Staged, Lane
    <2>2. CASE v # w
      <3>1. PICK r : r = req[v] /\ Staged(r) /\ r.pc # "commit"
        BY <1>4, <2>2 DEF Held
      <3>2. Staged(r)'
        BY <1>2, <3>1 DEF Staged
      <3> QED
        BY <1>4, <2>2, <3>1, <3>2
    <2> QED
      BY <2>1, <2>2
  <1>6. \A v \in Worker : req'[v].pc # "commit"
    BY <1>4
  <1> QED
    BY <1>3, <1>5, <1>6 DEF Held

LEMMA StepHeld ==
  ASSUME Signed, Held, [Next]_tvars  PROVE Held'
  <1>1. CASE UNCHANGED tvars
    BY <1>1 DEF tvars, Held, Staged, Published
  <1>2. CASE \E w \in Worker : \/ UNCHANGED defs /\ (Start(w) \/ SignIn(w) \/ Handler(w))
                               \/ Publishing(w)
    BY <1>2, StepHeldElsewhere, StepHeldLane, StepHeldCommit, Zenon DEF Publishing
  <1> QED
    BY <1>1, <1>2, Zenon DEF Next, Statement

LEMMA InitHeld == ASSUME Init  PROVE Held
  <1>1. req = [w \in Worker |-> Resting] /\ defs = FirstDefs
    BY Zenon DEF Init, DirectoryInit
  <1>2. \A w \in Worker : Staged(req[w]) /\ req[w].pc # "commit"
    BY <1>1 DEF Staged, Resting, Lane
  <1>3. \A d, e \in Published : d = e
    BY <1>1, DefinitionsAssumption DEF Published
  <1> QED
    BY <1>2, <1>3 DEF Held

LEMMA SpecHeld == Spec => []Held
  <1>1. Signed /\ Held /\ [Next]_tvars => Held'
    BY StepHeld
  <1> QED
    BY <1>1, InitHeld, SpecSigned, PTL DEF Spec

\* A tenant that routes its invoices stops doing so only by retiring the definition: a
\* commit publishes one row as it retires the other (publishDefinition and
\* retireDefinition of workflow-engine.service.ts).
THEOREM SpecNeverUnrouted == Spec => NeverUnrouted
  <1>1. ASSUME Signed, Held, [Next]_tvars
        PROVE  [Published # {} /\ Published' = {} => \E w \in Worker : At(w, "retireRow") /\ RetireRow(w)]_tvars
    <2>1. CASE UNCHANGED tvars
      BY <2>1, Zenon
    <2>2. ASSUME Published # {}, Published' = {}, NEW w \in Worker,
                 UNCHANGED defs \/ Publishing(w)
          PROVE  At(w, "retireRow") /\ RetireRow(w)
      <3>1. ~UNCHANGED defs
        BY <2>2 DEF Published
      <3>2. InsertDefinition(w) \/ Commit(w) \/ RetireRow(w)
        BY <2>2, <3>1, Zenon DEF Publishing, CreateDefinition, PublishDefinition, RetireOld, LockOld,
           PublishRow, PublishEntry, Deadlock, RetireDefinition
      <3>3. ~InsertDefinition(w)
        BY <1>1, <2>2, TableSteps
      <3>4. ~Commit(w)
        BY <1>1, <2>2, StepHeldCommit
      <3> QED
        BY <3>2, <3>3, <3>4 DEF RetireRow
    <2> QED
      BY <1>1, <2>1, <2>2 DEF Next, Statement
  <1> QED
    BY <1>1, SpecSigned, SpecHeld, PTL DEF Spec, NeverUnrouted

-----------------------------------------------------------------------------
(* Waiting for one another.  No row is taken by two transactions, and those *)
(* that wait with rows taken have what they saw published.                 *)

Disjoint == \A v, w \in Worker : v # w => req[v].locked \cap req[w].locked = {}

\* A statement that takes no row, or only rows nobody has.
LEMMA DisjointKept ==
  ASSUME Signed, Disjoint, NEW w \in Worker, NEW q, NEW rows, Set(w, q), Free(w, rows),
         q.locked \subseteq req[w].locked \cup rows
  PROVE  Disjoint'
  <1>1. req'[w] = q /\ \A v \in Worker : v # w => req'[v] = req[v]
    BY DEF Set, Signed, Typed
  <1>2. ASSUME NEW v \in Worker, v # w  PROVE req[v].locked \cap q.locked = {}
    BY <1>2 DEF Disjoint, Free
  <1>3. ASSUME NEW u \in Worker, NEW v \in Worker, u # v  PROVE req'[u].locked \cap req'[v].locked = {}
    BY <1>1, <1>2, <1>3 DEF Disjoint
  <1> QED
    BY <1>3 DEF Disjoint

LEMMA StepDisjoint ==
  ASSUME Signed, Disjoint, NEW w \in Worker,
         \/ UNCHANGED defs /\ (Start(w) \/ SignIn(w) \/ Handler(w))
         \/ Publishing(w)
  PROVE  Disjoint'
  <1>0. Typed /\ Free(w, {})
    BY DEF Signed, Free
  <1>1. ASSUME NEW q, Set(w, q), q.locked \in {req[w].locked, {}}  PROVE Disjoint'
    <2>1. q.locked \subseteq req[w].locked \cup {}
      BY <1>1
    <2> QED
      BY <1>0, <1>1, <2>1, DisjointKept
  <1>2. CASE Ends(w)
    <2>1. Set(w, Resting) /\ Resting.locked = {}
      BY <1>2 DEF Ends, Resting
    <2> QED
      BY <1>1, <2>1
  <1>3. CASE (PublishDefinition(w) \/ RetireOld(w) \/ PublishEntry(w)) /\ ~Ends(w)
    <2>1. PICK q : Set(w, q) /\ q.locked = req[w].locked
      BY <1>0, <1>3, LaneSteps DEF Leads
    <2> QED
      BY <1>1, <2>1
  <1>4. CASE LockOld(w)
    <2>1. PICK q : Set(w, q) /\ q.locked = req[w].seen
      BY <1>0, <1>4, LaneSteps DEF Leads
    <2>2. Free(w, req[w].seen)
      BY <1>4 DEF LockOld
    <2> QED
      BY <2>1, <2>2, DisjointKept
  <1>5. CASE PublishRow(w)
    <2>1. PICK q : Set(w, q) /\ q.locked = req[w].locked \cup {Asked(w).def}
      BY <1>0, <1>5, LaneSteps DEF Leads
    <2>2. Free(w, {Asked(w).def})
      BY <1>5 DEF PublishRow
    <2> QED
      BY <2>1, <2>2, DisjointKept
  <1>6. CASE \/ UNCHANGED defs /\ (Start(w) \/ SignIn(w) \/ Handler(w))
             \/ CreateDefinition(w) \/ InsertDefinition(w) \/ RetireDefinition(w) \/ RetireRow(w)
    <2>1. \E q : Set(w, q) /\ q.pc \notin Lane /\ q.locked \in {req[w].locked, {}}
      BY <1>6, StepElsewhere
    <2> QED
      BY <1>1, <2>1
  <1>7. Commit(w) \/ Deadlock(w) => Ends(w)
    BY Zenon DEF Commit, Deadlock
  <1> QED
    BY <1>2, <1>3, <1>4, <1>5, <1>6, <1>7, Zenon DEF Publishing

\* A circle of publications that wait for one another, however many they are, takes one
\* that was overtaken.  Whoever waits with rows taken has taken what it saw; if that is
\* what is published, one transaction has it, and with nothing published nobody waits for
\* an entry of the index, so whoever is waited for runs (publishDefinition).
THEOREM SpecCircleOvertaken == Spec => []CircleOvertaken
  <1>1. Init => Disjoint
    <2> SUFFICES ASSUME Init  PROVE Disjoint
      OBVIOUS
    <2>1. req = [w \in Worker |-> Resting] /\ Resting.locked = {}
      BY Zenon DEF Init, DirectoryInit, Resting
    <2> QED
      BY <2>1 DEF Disjoint
  <1>2. Signed /\ Disjoint /\ [Next]_tvars => Disjoint'
    <2> SUFFICES ASSUME Signed, Disjoint, [Next]_tvars  PROVE Disjoint'
      OBVIOUS
    <2>1. CASE UNCHANGED tvars
      BY <2>1 DEF tvars, Disjoint
    <2>2. CASE \E w \in Worker : \/ UNCHANGED defs /\ (Start(w) \/ SignIn(w) \/ Handler(w))
                                 \/ Publishing(w)
      BY <2>2, StepDisjoint, Zenon
    <2> QED
      BY <2>1, <2>2, Zenon DEF Next, Statement
  <1>3. Held /\ Disjoint => CircleOvertaken
    <2> SUFFICES ASSUME Held, Disjoint, NEW S \in SUBSET Worker, Stuck(S),
                        \A u \in S : req[u].seen = Published
                 PROVE  FALSE
      BY DEF CircleOvertaken
    <2>1. ASSUME NEW u \in S, NEW v \in S, Waits(u, v)
          PROVE  /\ At(v, "publishRow") \/ At(v, "publishEntry")
                 /\ Published \subseteq req[v].locked
      <3>1. v \in Worker /\ Staged(req[v]) /\ \E x \in S : Waits(v, x)
        BY DEF Held, Stuck
      <3>2. At(v, "lockOld") \/ At(v, "publishRow") \/ At(v, "publishEntry") \/ At(v, "retireRow")
        BY <3>1 DEF Waits
      <3>3. req[v].locked # {}
        BY <2>1, <3>2 DEF Waits, InDoubt, At
      <3> QED
        BY <3>1, <3>2, <3>3 DEF Staged, At
    <2>2. PICK u \in S, v \in S, x \in S, y \in S : Waits(u, v) /\ Waits(v, x) /\ Waits(x, y)
      BY DEF Stuck
    <2>3. Published = {}
      <3>1. v # x /\ v \in Worker /\ x \in Worker
        BY <2>2 DEF Waits
      <3> QED
        BY <2>1, <2>2, <3>1 DEF Disjoint
    <2>4. ASSUME NEW r \in S, NEW s \in S, Waits(r, s), At(r, "publishEntry"),
                 \E z \in S : Waits(s, z)
          PROVE  FALSE
      <3>1. InDoubt(s)
        BY <2>4 DEF Waits, At
      <3>2. ~At(s, "commit")
        BY <2>4 DEF Waits, At
      <3> QED
        BY <2>3, <3>1, <3>2 DEF InDoubt
    <2>5. At(v, "publishRow") /\ At(x, "publishRow")
      <3>1. \E z \in S : Waits(y, z)
        BY DEF Stuck
      <3> QED
        BY <2>1, <2>2, <2>4, <3>1
    <2>6. Asked(v).def \in req[x].locked
      BY <2>2, <2>5 DEF Waits, At
    <2>7. req[x].locked = Published
      BY <2>5 DEF Held, Staged, At
    <2> QED
      BY <2>3, <2>6, <2>7
  <1> QED
    BY <1>1, <1>2, <1>3, SpecSigned, SpecHeld, PTL DEF Spec

-----------------------------------------------------------------------------
(* The unique keys.                                                        *)

Keys ==
  \A u, v \in Known : u # v =>
    /\ users[u].tenant # users[v].tenant \/ users[u].email # users[v].email
    /\ users[u].sso # None => users[u].sso # users[v].sso

Versions ==
  \A d, e \in DOMAIN defs : d # e =>
    defs[d].name # defs[e].name \/ defs[d].version # defs[e].version

LEMMA StepKeys ==
  ASSUME Signed, Keys, NEW w \in Worker, Start(w) \/ SignIn(w) \/ Handler(w) \/ Publishing(w)
  PROVE  Keys'
  <1>1. CASE UNCHANGED users
    BY <1>1 DEF Keys, Known
  <1>2. CASE InsertUser(w) /\ ~UNCHANGED users
    <2> DEFINE row == [tenant |-> Home(w), email |-> Asked(w).email, role |-> Asked(w).role,
                       active |-> TRUE, sso |-> None]
    <2>1. PICK u \in UserId \ Known : users' = [users EXCEPT ![u] = row]
      BY <1>2 DEF InsertUser
    <2>2. \A v \in Known : users[v].tenant # Home(w) \/ users[v].email # Asked(w).email
      BY <1>2 DEF InsertUser, Taken
    <2>3. row.tenant = Home(w) /\ row.email = Asked(w).email /\ row.sso = None
      OBVIOUS
    <2> HIDE DEF row
    <2>4. users'[u] = row /\ \A v \in UserId : v # u => users'[v] = users[v]
      BY <2>1 DEF Signed, Typed
    <2>5. \A v \in Known' : v = u \/ v \in Known
      BY <2>4 DEF Known
    <2>6. Known \subseteq UserId
      BY DEF Known
    <2> QED
      BY <2>1, <2>2, <2>3, <2>4, <2>5, <2>6 DEF Keys
  <1>3. CASE BindSubject(w) /\ ~UNCHANGED users
    <2>1. PICK u, identity :
            /\ users' = [users EXCEPT ![u].sso = identity] /\ u = req[w].me.id
            /\ \A v \in Known : users[v].sso # identity
      BY <1>3 DEF BindSubject
    <2>2. u \in Known /\ users[u] \in User
      <3>1. Sound(req[w]) /\ req[w].pc = "bind"
        BY <1>3 DEF Signed, BindSubject, At
      <3> QED
        BY <2>1, <3>1, Lines DEF Sound, Signed
    <2> DEFINE row == [users[u] EXCEPT !.sso = identity]
    <2>3. row.tenant = users[u].tenant /\ row.email = users[u].email /\ row.sso = identity
      BY <2>2 DEF User
    <2>4. users' = [users EXCEPT ![u] = row]
      BY <2>1
    <2> HIDE DEF row
    <2>5. u \in UserId /\ users'[u] = row /\ \A v \in UserId : v # u => users'[v] = users[v]
      BY <2>2, <2>4 DEF Signed, Typed, Known
    <2>6. Known' \subseteq Known
      BY <2>2, <2>5 DEF Known
    <2>7. Known \subseteq UserId
      BY DEF Known
    <2> QED
      BY <2>1, <2>2, <2>3, <2>5, <2>6, <2>7 DEF Keys
  <1>4. CASE WriteUser(w)
    <2>1. PICK u \in Known :
            /\ users'[u].tenant = users[u].tenant /\ users'[u].email = users[u].email
            /\ users'[u].sso = users[u].sso
            /\ \A v \in UserId : v # u => users'[v] = users[v]
      BY <1>4, WriteMoves
    <2>2. Known' \subseteq Known /\ Known \subseteq UserId
      BY <2>1 DEF Known
    <2>3. \A v \in Known : /\ users'[v].tenant = users[v].tenant /\ users'[v].email = users[v].email
                           /\ users'[v].sso = users[v].sso
      BY <2>1, <2>2
    <2> QED
      BY <2>2, <2>3 DEF Keys
  <1>5. UNCHANGED users \/ InsertUser(w) \/ BindSubject(w) \/ WriteUser(w)
    BY Zenon DEF Start, SignIn, FindBySubject, ResolvePrincipal, Handler, CreateUser, ReadTarget, LastAdmin,
       CreateGrant, InsertGrant, RemoveGrant, SetEnforcement, WriteEnforced, Approve, CheckLimits, Decide,
       Publishing, CreateDefinition, InsertDefinition, PublishDefinition, RetireOld, LockOld, PublishRow,
       PublishEntry, Commit, Deadlock, RetireDefinition, RetireRow, directory, rest
  <1> QED
    BY <1>1, <1>2, <1>3, <1>4, <1>5

LEMMA StepVersions ==
  ASSUME Signed, Versions, NEW w \in Worker, UNCHANGED defs \/ Publishing(w)
  PROVE  Versions'
  <1>0. defs \in Seq(Definition)
    BY DEF Signed, Typed
  <1>1. CASE UNCHANGED defs
    BY <1>1 DEF Versions
  <1>2. CASE InsertDefinition(w) /\ ~UNCHANGED defs
    <2>1. PICK row : /\ defs' = Append(defs, row)
                     /\ \A d \in DOMAIN defs : defs[d].name # row.name \/ defs[d].version # row.version
      BY <1>2 DEF InsertDefinition
    <2>2. /\ DOMAIN defs = 1..Len(defs) /\ Len(defs) \in Nat /\ DOMAIN defs' = 1..(Len(defs) + 1)
          /\ defs'[Len(defs) + 1] = row /\ \A d \in DOMAIN defs : defs'[d] = defs[d]
      BY <1>0, <2>1
    <2>3. \A d \in DOMAIN defs' : d \in DOMAIN defs \/ d = Len(defs) + 1
      BY <2>2
    <2>4. ASSUME NEW d \in DOMAIN defs', NEW e \in DOMAIN defs', d # e
          PROVE  defs'[d].name # defs'[e].name \/ defs'[d].version # defs'[e].version
      <3>1. CASE d \in DOMAIN defs /\ e \in DOMAIN defs
        BY <2>2, <2>4, <3>1 DEF Versions
      <3>2. CASE d \in DOMAIN defs /\ e = Len(defs) + 1
        BY <2>1, <2>2, <3>2
      <3>3. CASE d = Len(defs) + 1 /\ e \in DOMAIN defs
        BY <2>1, <2>2, <3>3
      <3> QED
        BY <2>3, <2>4, <3>1, <3>2, <3>3
    <2> QED
      BY <2>4 DEF Versions
  <1>3. CASE RetireRow(w) \/ Commit(w)
    <2>1. DOMAIN defs' = DOMAIN defs
      BY <1>3, DefinitionTables
    <2>2. \A d \in DOMAIN defs, s \in Status :
            LET row == [defs[d] EXCEPT !.status = s] IN row.name = defs[d].name /\ row.version = defs[d].version
      BY <1>0 DEF Definition
    <2>3. \A d \in DOMAIN defs : \E s \in Status : defs'[d] = defs[d] \/ defs'[d] = [defs[d] EXCEPT !.status = s]
      <3>1. CASE RetireRow(w)
        BY <1>0, <3>1 DEF RetireRow, Status
      <3>2. CASE Commit(w)
        BY <1>0, <3>2 DEF Commit, Status
      <3> QED
        BY <1>3, <3>1, <3>2
    <2>4. \A d \in DOMAIN defs : defs'[d].name = defs[d].name /\ defs'[d].version = defs[d].version
      BY <2>2, <2>3
    <2> QED
      BY <2>1, <2>4 DEF Versions
  <1>4. UNCHANGED defs \/ InsertDefinition(w) \/ RetireRow(w) \/ Commit(w)
    BY Zenon DEF Publishing, CreateDefinition, PublishDefinition, RetireOld, LockOld, PublishRow,
       PublishEntry, Deadlock, RetireDefinition
  <1> QED
    BY <1>1, <1>2, <1>3, <1>4

\* Rows keep their types and the unique keys hold, also of whoever loses a race for one;
\* one definition is published.
THEOREM SpecTenantTypeOK == Spec => []TenantTypeOK
  <1>1. Init => Keys /\ Versions
    <2> SUFFICES ASSUME Init  PROVE Keys /\ Versions
      OBVIOUS
    <2>1. /\ users = [u \in UserId |-> IF u \in DOMAIN Seed THEN Seed[u] ELSE NoUser]
          /\ defs = FirstDefs
      BY Zenon DEF Init, DirectoryInit
    <2> QED
      BY <2>1, DirectoryAssumption, DefinitionsAssumption DEF Keys, Versions, Known
  <1>2. Signed /\ Keys /\ Versions /\ [Next]_tvars => Keys' /\ Versions'
    <2>1. CASE UNCHANGED tvars
      BY <2>1 DEF tvars, directory, Keys, Versions, Known
    <2>2. ASSUME Signed, Keys, Versions, NEW w \in Worker,
                 (UNCHANGED defs /\ (Start(w) \/ SignIn(w) \/ Handler(w))) \/ Publishing(w)
          PROVE  Keys' /\ Versions'
      BY <2>2, StepKeys, StepVersions
    <2> QED
      BY <2>1, <2>2, Zenon DEF Next, Statement
  <1>3. Signed /\ Held /\ Keys /\ Versions => TenantTypeOK
    <2> SUFFICES ASSUME Signed, Held, Keys, Versions  PROVE TenantTypeOK
      OBVIOUS
    <2>1. Cardinality(Published) <= 1
      <3>1. CASE Published = {}
        BY <3>1, FS_EmptySet
      <3>2. CASE \E d : Published = {d}
        BY <3>2, FS_Singleton
      <3>3. Published = {} \/ \E d : Published = {d}
        BY DEF Held
      <3> QED
        BY <3>1, <3>2, <3>3
    <2>2. /\ users \in [UserId -> User \cup {NoUser}] /\ defs \in Seq(Definition)
          /\ grants \subseteq Grant /\ enforced \in BOOLEAN /\ overlap \in BOOLEAN /\ ops \in 0..MaxOps
      BY Zenon DEF Signed, Typed
    <2> QED
      BY <2>1, <2>2, Zenon DEF TenantTypeOK, Keys, Versions
  <1> QED
    BY <1>1, <1>2, <1>3, SpecSigned, SpecHeld, PTL DEF Spec
=============================================================================
