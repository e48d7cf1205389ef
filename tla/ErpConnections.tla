---------------------------- MODULE ErpConnections ----------------------------
(***************************************************************************)
(* Connections to an ERP (erp-connections.service.ts): their configuration *)
(* with its secrets (credential-crypto.ts), the test and the sync that     *)
(* each build a client of their own on it.                                 *)
(*                                                                         *)
(* A configuration maps fields to values, Blank where a field is not set.  *)
(* What a sync does with the orders it fetched is the module Orders'.      *)
(***************************************************************************)
EXTENDS S4Client

CONSTANTS
  Conn,         \* ids of rows
  Blank,
  Placeholder,  \* what a client is shown in place of a secret
  FirstConfig,  \* of the connections there at first
  NewConfigs,   \* configurations a connection may be created with
  Patches       \* fields and values an update may send

Fields  == {"baseUrl", "authKind", "apiKey", "user", "password", "clientSecret"}
Secrets == {"clientSecret", "password", "apiKey"}

VARIABLES row,   \* the table erp_connections, by id: what it encrypts, what came of the last
                 \* test, and (made) the configuration it was created with
          job    \* of each call: the row it read, what it is about to write

evars == <<svars, row, job>>

NoJob == [pc |-> "idle", conn |-> Blank, config |-> Blank, patch |-> Blank]
Doing(c, l) == job[c].pc = l
Rests(c)    == job' = [job EXCEPT ![c] = [NoJob EXCEPT !.pc = "over"]]
Step(c, l, i, x, p) == job' = [job EXCEPT ![c] = [pc |-> l, conn |-> i, config |-> x, patch |-> p]]

Stored(config) == [config |-> config, made |-> config, tested |-> "never", synced |-> FALSE]

\* assertUsable.
Needs(kind) ==
  CASE kind = "apiKey" -> {"apiKey"}
    [] kind = "basic"  -> {"user", "password"}
    [] kind = "oauth2" -> {"clientSecret"}   \* with tokenUrl and clientId, never patched here
    [] OTHER           -> Fields
Workable(config) ==
  /\ config.baseUrl # Blank
  /\ config.authKind \in {"apiKey", "basic", "oauth2"}
  /\ \A f \in Needs(config.authKind) : config[f] # Blank

\* Each operation may have a client of its own.  The connections there were accepted.
ASSUME ErpAssumption ==
  /\ Call \subseteq Client
  /\ \A i \in DOMAIN FirstConfig : Workable(FirstConfig[i])

\* redactConfig, and its inverse on the way in: a placeholder leaves the secret alone.
Redact(config) ==
  [f \in Fields |-> IF f \in Secrets /\ config[f] # Blank THEN Placeholder ELSE config[f]]
Shown(config, patch) ==
  [f \in Fields |-> IF f \in DOMAIN patch THEN patch[f] ELSE Redact(config)[f]]
Merge(config, patch) ==
  [f \in Fields |-> IF f \in DOMAIN patch /\ ~(f \in Secrets /\ patch[f] = Placeholder)
                    THEN patch[f] ELSE config[f]]

-----------------------------------------------------------------------------
\* No placeholder is looked for: one that is sent is encrypted like any other secret.
Create(c) ==
  /\ Doing(c, "idle") /\ In(c, "idle")
  /\ \E i \in Conn \ DOMAIN row, config \in NewConfigs :
       row' = IF Workable(config)
              THEN [j \in DOMAIN row \cup {i} |-> IF j = i THEN Stored(config) ELSE row[j]]
              ELSE row
  /\ Rests(c) /\ UNCHANGED svars

\* Reads the row and merges what is sent, on its own or within the object a client was
\* shown; refused if the result could never work.
Update(c) ==
  /\ Doing(c, "idle") /\ In(c, "idle")
  /\ \E i \in DOMAIN row, p \in Patches :
       \E sent \in {p, Shown(row[i].config, p)} :
          LET merged == Merge(row[i].config, sent)
          IN  IF Workable(merged) THEN Step(c, "write", i, merged, sent) ELSE Rests(c)
  /\ UNCHANGED <<svars, row>>

\* Mutant of WriteConfig: only the fields sent, into whatever the row holds by now.
WriteFields(c) ==
  /\ Doing(c, "write")
  /\ row' = [row EXCEPT ![job[c].conn].config = Merge(@, job[c].patch)]
  /\ Rests(c) /\ UNCHANGED svars

\* All fields, over whatever another update has written meanwhile.
WriteConfig(c) ==
  /\ Doing(c, "write")
  /\ row' = [row EXCEPT ![job[c].conn].config = job[c].config]
  /\ Rests(c) /\ UNCHANGED svars

\* resolveS4Auth: a key or a password goes along as it is, an OAuth token is asked for.
Keyed(config) == config.authKind \in {"apiKey", "basic"}

\* testConnection and syncPurchaseOrders: a client for the row as it is now.
Reach(c, l) ==
  /\ Doing(c, "idle")
  /\ \E i \in DOMAIN row : /\ Step(c, l, i, row[i].config, Blank)
                          /\ GetRaw(c, c, Keyed(row[i].config))
  /\ UNCHANGED row
Test(c) == Reach(c, "test")
Sync(c) == Reach(c, "sync")

RecordTest(c) ==
  /\ Doing(c, "test") /\ In(c, "done")
  /\ row' = [row EXCEPT ![job[c].conn].tested = call[c].result]
  /\ Rests(c) /\ UNCHANGED svars

\* lastSyncAt, only after a read that succeeded.
RecordSync(c) ==
  /\ Doing(c, "sync") /\ In(c, "done")
  /\ row' = IF call[c].result = "ok" THEN [row EXCEPT ![job[c].conn].synced = TRUE] ELSE row
  /\ Rests(c) /\ UNCHANGED svars

-----------------------------------------------------------------------------
Init ==
  /\ ClientInit
  /\ row = [i \in DOMAIN FirstConfig |-> Stored(FirstConfig[i])]
  /\ job = [c \in Call |-> NoJob]

Next ==
  \/ \E c \in Call :
       \/ Create(c) \/ Update(c) \/ WriteConfig(c)
       \/ Test(c) \/ Sync(c) \/ RecordTest(c) \/ RecordSync(c)
       \/ Working(c) /\ UNCHANGED <<row, job>>
       \/ \E k \in Client \ Call : Doing(c, "idle") /\ Post(c, k) /\ UNCHANGED <<row, job>>
  \/ World /\ UNCHANGED <<row, job>>

Spec == Init /\ [][Next]_evars
=============================================================================
