---------------------------- MODULE ErpProperties ----------------------------
(***************************************************************************)
(* What is promised of the connections to an ERP, whatever the network,    *)
(* the service and concurrent administrators do.                           *)
(***************************************************************************)
EXTENDS ErpConnections

\* "Retrying a posting blindly is how duplicate accounting documents get created": one
\* call to post creates at most one document, whichever answers are lost, late or errors
\* and whenever the session expires.
OneDocument == \A c \in Call : docs[c] <= 1

\* A token granted for longer than the margin, whose answer took no longer than the margin
\* leaves beside the timeout of a request.
Timely(t) == t.life > Margin /\ (t.believed - t.dies) + Timeout <= Margin

\* "a token that expires in flight produces a 401 on a posting call": no request arrives
\* with a dead token, reused or fresh and the request delayed as far as it may be, if the
\* token was timely.
TokenOutlivesRequest == \A f \in flight : Timely(f.token) => f.token.dies > now

\* "Refuses a config that could never work", and "writing it back verbatim would replace a
\* real secret with bullet characters": every stored configuration has what its way to sign
\* in needs, and no update, however updates overlap, puts a placeholder where the
\* connection was not created with one.
ConnectionUsable ==
  \A i \in DOMAIN row :
    /\ Workable(row[i].config)
    /\ \A f \in Secrets : row[i].config[f] = Placeholder => row[i].made[f] = Placeholder

-----------------------------------------------------------------------------
(* What the code does not do.                                              *)

\* "guessing long costs a 401 mid-posting": a request never arrives with a dead token.  The
\* endpoint is waited for untimed, and the life is counted from its answer.
TokenNeverDead == \A f \in flight : f.token.dies > now

\* No stored secret is a placeholder.  A connection may be created with one.
NoPlaceholderStored ==
  \A i \in DOMAIN row, f \in Secrets : row[i].config[f] # Placeholder

\* "is this working survives": the last test speaks of the configuration stored.  An
\* update keeps the outcome of the test of what it replaced.
TestDescribes ==
  [][\A i \in DOMAIN row : row[i].tested = "ok" =>
       row'[i].tested # "ok" \/ row'[i].config = row[i].config]_evars

\* Two updates of different fields both take.
UpdateLost ==
  [][\A c \in Call, i \in DOMAIN row : WriteConfig(c) /\ job[c].conn = i =>
       \A f \in Fields \ DOMAIN job[c].patch : row'[i].config[f] = row[i].config[f]]_evars
=============================================================================
