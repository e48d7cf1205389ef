----------------------------- MODULE Definitions -----------------------------
(***************************************************************************)
(* The versions of a tenant's workflow (createDefinition,                  *)
(* publishDefinition and retireDefinition of the engine), on top of the    *)
(* directory whose sign-in every request passes.                           *)
(*                                                                         *)
(* publishDefinition is the one transaction of the program: its writes are *)
(* staged in req[w].locked, whose rows others wait for, and appear at the  *)
(* commit.  An UPDATE looks for its rows when it starts (req[w].seen) and  *)
(* looks at each again once it holds its lock.                             *)
(***************************************************************************)
EXTENDS Directory, Sequences

CONSTANTS Name,        \* names of definitions
          FirstDefs    \* the definitions there at first

Status     == {"DRAFT", "PUBLISHED", "RETIRED"}
Definition == [name : Name, version : Nat, status : Status]

ASSUME DefinitionsAssumption ==
  /\ FirstDefs \in Seq(Definition)
  /\ \A d, e \in DOMAIN FirstDefs : d # e =>
       /\ FirstDefs[d].name # FirstDefs[e].name \/ FirstDefs[d].version # FirstDefs[e].version
       /\ FirstDefs[d].status # "PUBLISHED" \/ FirstDefs[e].status # "PUBLISHED"
  /\ \A r \in Request :
       /\ r.op.kind = "createDefinition" => r.op.name \in Name
       /\ r.op.kind \in {"publishDefinition", "retireDefinition"} => r.op.def \in Nat

VARIABLE defs        \* the table workflow_definitions, in order

tvars == <<directory, req, ops, defs>>
rest  == <<directory, ops>>

Published == {d \in DOMAIN defs : defs[d].status = "PUBLISHED"}
Newest(S) == CHOOSE v \in S : \A u \in S : u <= v
Free(w, rows) == \A v \in Worker \ {w} : req[v].locked \cap rows = {}

-----------------------------------------------------------------------------
\* The next version of the name is read, then inserted.
CreateDefinition(w) ==
  /\ At(w, "createDefinition")
  /\ LET versions == {0} \cup {defs[d].version : d \in {e \in DOMAIN defs : defs[e].name = Asked(w).name}}
     IN  Set(w, [req[w] EXCEPT !.pc = "insertDefinition", !.version = Newest(versions) + 1])
  /\ UNCHANGED <<rest, defs>>

\* Unique (tenant, name, version): the slower of two is refused.
InsertDefinition(w) ==
  /\ At(w, "insertDefinition")
  /\ LET row == [name |-> Asked(w).name, version |-> req[w].version, status |-> "DRAFT"]
     IN  defs' = IF \E d \in DOMAIN defs : defs[d].name = row.name /\ defs[d].version = row.version
                 THEN defs ELSE Append(defs, row)
  /\ Ends(w)
  /\ UNCHANGED rest

-----------------------------------------------------------------------------
PublishDefinition(w) ==
  /\ At(w, "publishDefinition")
  /\ LET d == Asked(w).def
     IN  IF d \in DOMAIN defs /\ defs[d].status = "DRAFT" THEN Goto(w, "retireOld") ELSE Ends(w)
  /\ UNCHANGED <<rest, defs>>

\* The first UPDATE of the transaction finds what is published.
RetireOld(w) ==
  /\ At(w, "retireOld")
  /\ Set(w, [req[w] EXCEPT !.pc = "lockOld", !.seen = Published])
  /\ UNCHANGED <<rest, defs>>

\* Mutant of LockOld: no transaction, the first UPDATE is seen by everybody.
LockOldPlain(w) ==
  /\ At(w, "lockOld") /\ Free(w, req[w].seen)
  /\ defs' = [d \in DOMAIN defs |-> IF d \in req[w].seen \cap Published
                                    THEN [defs[d] EXCEPT !.status = "RETIRED"] ELSE defs[d]]
  /\ Goto(w, "publishRow")
  /\ UNCHANGED rest

\* Mutant of LockOld: the row is taken although another transaction has it.
LockOldBusy(w) ==
  /\ At(w, "lockOld")
  /\ Set(w, [req[w] EXCEPT !.pc = "publishRow", !.locked = req[w].seen])
  /\ UNCHANGED <<rest, defs>>

\* A row that is published no longer is left as it is, but locked as well.
LockOld(w) ==
  /\ At(w, "lockOld") /\ Free(w, req[w].seen)
  /\ Set(w, [req[w] EXCEPT !.pc = "publishRow", !.locked = req[w].seen])
  /\ UNCHANGED <<rest, defs>>

\* The second UPDATE has its row before it sees to the partial unique index.
PublishRow(w) ==
  /\ At(w, "publishRow") /\ Free(w, {Asked(w).def})
  /\ Set(w, [req[w] EXCEPT !.pc = "publishEntry", !.locked = @ \cup {Asked(w).def}])
  /\ UNCHANGED <<rest, defs>>

\* An entry of that index is in doubt while its row is about to be retired or is about
\* to be published.
InDoubt(v) == At(v, "commit") \/ req[v].locked \cap Published # {}

\* Mutant of PublishEntry: a rolled back transaction keeps its row.
PublishEntryHeld(w) ==
  /\ At(w, "publishEntry") /\ \A v \in Worker \ {w} : ~InDoubt(v)
  /\ IF Published \subseteq req[w].locked THEN Goto(w, "commit")
     ELSE Set(w, [Resting EXCEPT !.locked = {Asked(w).def}])
  /\ UNCHANGED <<rest, defs>>

\* It waits for whoever has an entry in doubt; with another published row there, the
\* transaction is rolled back.
PublishEntry(w) ==
  /\ At(w, "publishEntry") /\ \A v \in Worker \ {w} : ~InDoubt(v)
  /\ IF Published \subseteq req[w].locked THEN Goto(w, "commit") ELSE Ends(w)
  /\ UNCHANGED <<rest, defs>>

Commit(w) ==
  /\ At(w, "commit")
  /\ defs' = [d \in DOMAIN defs |->
       IF d = Asked(w).def THEN [defs[d] EXCEPT !.status = "PUBLISHED"]
       ELSE IF d \in req[w].locked THEN [defs[d] EXCEPT !.status = "RETIRED"] ELSE defs[d]]
  /\ Ends(w)
  /\ UNCHANGED rest

\* Whatever its status.
RetireDefinition(w) ==
  /\ At(w, "retireDefinition")
  /\ IF Asked(w).def \in DOMAIN defs THEN Goto(w, "retireRow") ELSE Ends(w)
  /\ UNCHANGED <<rest, defs>>

RetireRow(w) ==
  /\ At(w, "retireRow") /\ Free(w, {Asked(w).def})
  /\ defs' = [defs EXCEPT ![Asked(w).def].status = "RETIRED"]
  /\ Ends(w)
  /\ UNCHANGED rest

-----------------------------------------------------------------------------
(* Transactions that wait for one another.                                 *)

\* A statement of w finds a row it needs, or an entry of the index, in v's hands.
Waits(w, v) ==
  /\ v # w
  /\ \/ At(w, "lockOld") /\ req[v].locked \cap req[w].seen # {}
     \/ At(w, "publishRow") /\ Asked(w).def \in req[v].locked
     \/ At(w, "publishEntry") /\ InDoubt(v)
     \/ At(w, "retireRow") /\ Asked(w).def \in req[v].locked

\* Everybody in S waits for somebody in it.
Stuck(S) == S # {} /\ \A u \in S : \E v \in S : Waits(u, v)

\* PostgreSQL aborts one that others in the circle wait for: the request fails.
Deadlock(w) ==
  /\ \E S \in SUBSET Worker : w \in S /\ Stuck(S) /\ \E u \in S : Waits(u, w)
  /\ Ends(w)
  /\ UNCHANGED <<rest, defs>>

-----------------------------------------------------------------------------
Init == DirectoryInit /\ defs = FirstDefs

Publishing(w) ==
  \/ CreateDefinition(w) \/ InsertDefinition(w)
  \/ PublishDefinition(w) \/ RetireOld(w) \/ LockOld(w) \/ PublishRow(w) \/ PublishEntry(w)
  \/ Commit(w) \/ Deadlock(w)
  \/ RetireDefinition(w) \/ RetireRow(w)

Statement(w) ==
  \/ (SignIn(w) \/ Handler(w)) /\ UNCHANGED defs
  \/ Publishing(w)

Next == \E w \in Worker : \/ Start(w) /\ UNCHANGED defs
                         \/ Statement(w)

Spec == Init /\ [][Next]_tvars

\* A request runs on as long as the process lives.
FairSpec == Spec /\ \A w \in Worker : WF_tvars(Statement(w))
=============================================================================
