------------------------------- MODULE S4Client -------------------------------
(***************************************************************************)
(* The transport to S/4HANA (s4-client.ts) with its OAuth token            *)
(* (s4-auth.ts), and as much of the service on the other side as they can  *)
(* see: tokens that die, sessions that expire, documents that are created, *)
(* requests and replies that are lost.                                     *)
(*                                                                         *)
(* A call is one invocation of getRaw or post; call[c].pc is the await it  *)
(* stands at and call[c].goal the request it is about to send.  A client   *)
(* keeps a token and a session for all its calls.  Time is counted in      *)
(* units of 30 seconds, the timeout of a request; the token endpoint has   *)
(* none, and may take as long as it likes.                                 *)
(***************************************************************************)
EXTENDS Integers

CONSTANTS
  Call, Client,
  NoSession, NoToken,
  Life,      \* lifetimes the token endpoint may grant
  Margin,    \* a token this close to its end is not used
  Timeout,   \* of a request
  MaxTime,
  MaxSession \* bound on sessions opened

ASSUME S4Assumption ==
  /\ Margin \in Nat /\ Timeout \in Nat /\ MaxTime \in Nat /\ Life \subseteq Nat
  /\ MaxSession \in Nat /\ NoSession \notin 1..MaxSession

VARIABLES now,
          token,   \* of each client: its life, when it dies, and when the client thinks it does
          csrf,    \* of each client: its session with the service
          call,
          flight,  \* requests on their way, with the token they carry
          reply,   \* answers on their way
          live,    \* sessions the service still honours
          opened,  \* number of sessions opened
          docs     \* documents created for each call

clients == <<token, csrf>>
service == <<live, opened, docs>>
svars   == <<now, token, csrf, call, flight, reply, live, opened, docs>>

Status == {"ok", "required", "error", "unauthorised"}
Idle   == [pc |-> "idle", client |-> NoToken, keyed |-> FALSE, goal |-> "get", session |-> NoSession,
           retried |-> FALSE, since |-> 0, result |-> "none"]

In(c, l)  == call[c].pc = l
Becomes(c, r) == call' = [call EXCEPT ![c] = r]
Fails(c)  == Becomes(c, [call[c] EXCEPT !.pc = "done", !.result = "failed"])
Returns(c) == Becomes(c, [call[c] EXCEPT !.pc = "done", !.result = "ok"])

-----------------------------------------------------------------------------
(* The client.                                                             *)

GetRaw(c, k, keyed) ==
  /\ In(c, "idle")
  /\ Becomes(c, [Idle EXCEPT !.pc = "auth", !.client = k, !.keyed = keyed])
  /\ UNCHANGED <<now, clients, flight, reply, service>>

Post(c, k) ==
  /\ In(c, "idle")
  /\ Becomes(c, [Idle EXCEPT !.pc = "session", !.client = k])
  /\ UNCHANGED <<now, clients, flight, reply, service>>

\* A write needs the token and the cookies of one session.
UseSession(c) ==
  /\ In(c, "session")
  /\ LET s == csrf[call[c].client]
     IN  Becomes(c, [call[c] EXCEPT !.pc = "auth", !.session = s,
                                    !.goal = IF s = NoSession THEN "fetch" ELSE "post"])
  /\ UNCHANGED <<now, clients, flight, reply, service>>

Send(c, t) ==
  /\ Becomes(c, [call[c] EXCEPT !.pc = "wait", !.since = now])
  /\ flight' = flight \cup {[call |-> c, goal |-> call[c].goal, session |-> call[c].session,
                            token |-> t, sent |-> now]}

\* Mutant of Usable: no margin.
UsableToTheEnd(t) == t # NoToken /\ t.believed > now

Usable(t) == t # NoToken /\ t.believed - Margin > now

\* An API key or a password goes along as it is.
Forever == LET never == MaxTime + Timeout + 1 IN [life |-> never, dies |-> never, believed |-> never]

Authenticate(c) ==
  /\ In(c, "auth")
  /\ LET t == token[call[c].client]
     IN  IF call[c].keyed THEN Send(c, Forever)
         ELSE IF Usable(t) THEN Send(c, t)
         ELSE Becomes(c, [call[c] EXCEPT !.pc = "token", !.since = now]) /\ UNCHANGED flight
  /\ UNCHANGED <<now, clients, reply, service>>

\* The answer arrives now, the token was granted some time since it was asked for, and
\* its life is counted from the arrival.
TokenGranted(c) ==
  /\ In(c, "token")
  /\ \E life \in Life, granted \in call[c].since..now :
       LET t == [life |-> life, dies |-> granted + life, believed |-> now + life]
       IN  token' = [token EXCEPT ![call[c].client] = t] /\ Send(c, t)
  /\ UNCHANGED <<now, csrf, reply, service>>

TokenRefused(c) ==
  /\ In(c, "token") /\ Fails(c)
  /\ UNCHANGED <<now, clients, flight, reply, service>>

\* Aborted by the timer, or the connection broke: the request may have been served.
GivesUp(c) ==
  /\ In(c, "wait") /\ Fails(c)
  /\ UNCHANGED <<now, clients, flight, reply, service>>

Hears(c, r) == In(c, "wait") /\ r \in reply /\ r.call = c /\ reply' = reply \ {r}

FetchCsrf(c, r) ==
  /\ Hears(c, r) /\ call[c].goal = "fetch"
  /\ IF r.session = NoSession THEN Fails(c) /\ UNCHANGED csrf
     ELSE /\ csrf' = [csrf EXCEPT ![call[c].client] = r.session]
          /\ Becomes(c, [call[c] EXCEPT !.pc = "auth", !.goal = "post", !.session = r.session])
  /\ UNCHANGED <<now, token, flight, service>>

\* Mutant of Retry: whatever went wrong.
RetryAlways(c, r) ==
  /\ Hears(c, r) /\ call[c].goal = "post" /\ r.status # "ok" /\ ~call[c].retried
  /\ csrf' = [csrf EXCEPT ![call[c].client] = NoSession]
  /\ Becomes(c, [call[c] EXCEPT !.pc = "session", !.retried = TRUE])
  /\ UNCHANGED <<now, token, flight, service>>

\* "retries once if SAP says the token expired".
Retry(c, r) ==
  /\ Hears(c, r) /\ call[c].goal = "post" /\ r.status = "required" /\ ~call[c].retried
  /\ csrf' = [csrf EXCEPT ![call[c].client] = NoSession]
  /\ Becomes(c, [call[c] EXCEPT !.pc = "session", !.retried = TRUE])
  /\ UNCHANGED <<now, token, flight, service>>

\* Everything else is returned or raised.
Answer(c, r) ==
  /\ Hears(c, r) /\ call[c].goal # "fetch"
  /\ r.status = "required" => call[c].retried
  /\ IF r.status = "ok" THEN Returns(c) ELSE Fails(c)
  /\ UNCHANGED <<now, clients, flight, service>>

-----------------------------------------------------------------------------
(* The network and the service.                                            *)

Says(f, status, s) ==
  /\ flight' = flight \ {f}
  /\ reply' = reply \cup {[call |-> f.call, status |-> status, session |-> s]}

RefusesToken(f) ==
  /\ f.token.dies <= now
  /\ Says(f, "unauthorised", NoSession) /\ UNCHANGED service

ServesRead(f) ==
  /\ f.token.dies > now /\ f.goal = "get"
  /\ \E status \in {"ok", "error"} : Says(f, status, NoSession)
  /\ UNCHANGED service

OpensSession(f) ==
  /\ f.token.dies > now /\ f.goal = "fetch"
  /\ \/ /\ opened < MaxSession
        /\ opened' = opened + 1 /\ live' = live \cup {opened + 1}
        /\ Says(f, "ok", opened + 1)
     \/ Says(f, "error", NoSession) /\ UNCHANGED <<opened, live>>
  /\ UNCHANGED docs

\* The document may exist although the answer is an error.
ServesWrite(f) ==
  /\ f.token.dies > now /\ f.goal = "post"
  /\ IF f.session \in live
     THEN \/ /\ docs' = [docs EXCEPT ![f.call] = @ + 1]
             /\ \E status \in {"ok", "error"} : Says(f, status, NoSession)
          \/ Says(f, "error", NoSession) /\ UNCHANGED docs
     ELSE Says(f, "required", NoSession) /\ UNCHANGED docs
  /\ UNCHANGED <<live, opened>>

Receives(f) ==
  /\ RefusesToken(f) \/ ServesRead(f) \/ OpensSession(f) \/ ServesWrite(f)
  /\ UNCHANGED <<now, clients, call>>

Loses(f) == flight' = flight \ {f} /\ UNCHANGED <<now, clients, call, reply, service>>

SessionExpires(s) ==
  /\ live' = live \ {s}
  /\ UNCHANGED <<now, clients, call, flight, reply, opened, docs>>

\* A request is aborted at its timeout; a token is waited for untimed.
Tick ==
  /\ now < MaxTime /\ now' = now + 1
  /\ \A f \in flight : now < f.sent + Timeout
  /\ \A c \in Call : /\ In(c, "wait")  => now < call[c].since + Timeout
                     /\ ~In(c, "session") /\ ~In(c, "auth")
  /\ UNCHANGED <<clients, call, flight, reply, service>>

-----------------------------------------------------------------------------
ClientInit ==
  /\ now = 0 /\ token = [k \in Client |-> NoToken] /\ csrf = [k \in Client |-> NoSession]
  /\ call = [c \in Call |-> Idle] /\ flight = {} /\ reply = {}
  /\ live = {} /\ opened = 0 /\ docs = [c \in Call |-> 0]

Working(c) ==
  \/ UseSession(c) \/ Authenticate(c) \/ TokenGranted(c) \/ TokenRefused(c) \/ GivesUp(c)
  \/ \E r \in reply : FetchCsrf(c, r) \/ Retry(c, r) \/ Answer(c, r)

World ==
  \/ \E f \in flight : Receives(f) \/ Loses(f)
  \/ \E s \in live : SessionExpires(s)
  \/ Tick

ClientNext == (\E c \in Call : Working(c) \/ \E k \in Client : GetRaw(c, k, FALSE) \/ Post(c, k)) \/ World

ClientSpec == ClientInit /\ [][ClientNext]_svars
=============================================================================
