------------------------------ MODULE ErpProofs ------------------------------
(***************************************************************************)
(* What is promised of the connections to an ERP, for any number of calls, *)
(* clients, sessions and connections, and any lifetimes and latencies of   *)
(* tokens.                                                                 *)
(***************************************************************************)
EXTENDS ErpProperties, S4Invoice, TLAPS

Goal    == {"get", "fetch", "post"}
Session == (1..MaxSession) \cup {NoSession}
CallRow == [pc : {"idle", "session", "auth", "token", "wait", "done"}, client : Client \cup {NoToken},
            keyed : BOOLEAN, goal : Goal, session : Session, retried : BOOLEAN, since : Nat,
            result : {"none", "ok", "failed"}]
Granted == [life : Nat, dies : Nat, believed : Nat]
Request == [call : Call, goal : Goal, session : Session, token : Granted, sent : Nat]
Reply   == [call : Call, status : Status, session : Session]
Token   == {NoToken} \cup Granted

Typed ==
  /\ now \in Nat /\ now <= MaxTime
  /\ token \in [Client -> Token] /\ csrf \in [Client -> Session]
  /\ call \in [Call -> CallRow]
  /\ \A c \in Call : call[c].pc # "idle" => call[c].client \in Client
  /\ flight \subseteq Request /\ reply \subseteq Reply
  /\ live \subseteq 1..MaxSession /\ opened \in Nat /\ opened <= MaxSession
  /\ docs \in [Call -> Nat]

\* What a step of Next is to the transport.
ClientStep ==
  \/ UNCHANGED svars
  \/ \E c \in Call, k \in Client, keyed \in BOOLEAN : GetRaw(c, k, keyed)
  \/ \E c \in Call, k \in Client : Post(c, k)
  \/ \E c \in Call : Working(c)
  \/ World

LEMMA NextOnClient ==
  ASSUME [Next]_evars  PROVE ClientStep
  <1>1. CASE UNCHANGED evars
    BY <1>1 DEF evars, ClientStep
  <1>2. ASSUME NEW c \in Call, \/ Create(c) \/ Update(c) \/ WriteConfig(c) \/ RecordTest(c) \/ RecordSync(c)
        PROVE  UNCHANGED svars
    BY <1>2 DEF Create, Update, WriteConfig, RecordTest, RecordSync
  <1>3. ASSUME NEW c \in Call, Test(c) \/ Sync(c)
        PROVE  \E k \in Client, keyed \in BOOLEAN : GetRaw(c, k, keyed)
    <2>1. c \in Client
      BY ErpAssumption
    <2>2. PICK i \in DOMAIN row : GetRaw(c, c, Keyed(row[i].config))
      BY <1>3 DEF Test, Sync, Reach
    <2>3. Keyed(row[i].config) \in BOOLEAN
      BY DEF Keyed
    <2> QED
      BY <2>1, <2>2, <2>3
  <1>4. ASSUME NEW c \in Call, NEW k \in Client \ Call, Post(c, k)
        PROVE  \E d \in Call, j \in Client : Post(d, j)
    BY <1>4
  <1> QED
    BY <1>1, <1>2, <1>3, <1>4 DEF Next, ClientStep

-----------------------------------------------------------------------------
(* Types.                                                                  *)

LEMMA ForeverGranted ==
  ASSUME Typed  PROVE Forever \in Granted /\ now + Timeout < Forever.dies
  BY S4Assumption DEF Typed, Forever, Granted

\* A token just granted; what is believed of it is late by what the answer took.
Fresh(life, granted) == [life |-> life, dies |-> granted + life, believed |-> now + life]

LEMMA FreshGranted ==
  ASSUME Typed, NEW c \in Call, NEW life \in Life, NEW granted \in call[c].since..now
  PROVE  Fresh(life, granted) \in Granted
  <1>1. call[c].since \in Nat /\ life \in Nat /\ now \in Nat
    BY S4Assumption DEF Typed, CallRow
  <1> QED
    BY <1>1 DEF Fresh, Granted

LEMMA InitTyped ==
  ASSUME Init  PROVE Typed
  <1> USE S4Assumption
  <1>1. Idle \in CallRow
    BY DEF Idle, CallRow, Goal, Session
  <1>2. call \in [Call -> CallRow] /\ \A c \in Call : call[c].pc = "idle"
    BY <1>1 DEF Init, ClientInit, Idle
  <1>3. token \in [Client -> Token] /\ csrf \in [Client -> Session] /\ docs \in [Call -> Nat]
    BY DEF Init, ClientInit, Token, Session
  <1>4. now \in Nat /\ now <= MaxTime /\ opened \in Nat /\ opened <= MaxSession
    BY DEF Init, ClientInit
  <1>5. flight \subseteq Request /\ reply \subseteq Reply /\ live \subseteq 1..MaxSession
    BY DEF Init, ClientInit
  <1> QED
    BY <1>2, <1>3, <1>4, <1>5 DEF Typed

LEMMA BecomesTyped ==
  ASSUME Typed, NEW c \in Call, NEW r \in CallRow, r.client \in Client, Becomes(c, r)
  PROVE  /\ call' \in [Call -> CallRow]
         /\ \A d \in Call : call'[d].pc # "idle" => call'[d].client \in Client
  BY DEF Typed, Becomes

LEMMA RequestTyped ==
  ASSUME Typed, NEW c \in Call, In(c, "auth") \/ In(c, "token") , NEW t \in Granted, Send(c, t)
  PROVE  /\ call' \in [Call -> CallRow]
         /\ \A d \in Call : call'[d].pc # "idle" => call'[d].client \in Client
         /\ flight' \subseteq Request
  <1> DEFINE r == [call[c] EXCEPT !.pc = "wait", !.since = now]
  <1>1. call[c] \in CallRow /\ call[c].client \in Client
    BY DEF Typed, In
  <1>2. r \in CallRow /\ r.client \in Client
    BY <1>1 DEF CallRow, Typed
  <1>3. Becomes(c, r)
    BY DEF Send
  <1>4. [call |-> c, goal |-> call[c].goal, session |-> call[c].session, token |-> t, sent |-> now] \in Request
    BY <1>1 DEF Request, CallRow, Typed
  <1> HIDE DEF r
  <1> QED
    BY <1>2, <1>3, <1>4, BecomesTyped DEF Send, Typed

LEMMA StepTyped ==
  ASSUME Typed, ClientStep  PROVE Typed'
  <1> USE S4Assumption
  <1>0. \A c \in Call : call[c] \in CallRow
    BY DEF Typed
  <1>1. CASE UNCHANGED svars
    BY <1>1 DEF svars, Typed
  <1>2. ASSUME NEW c \in Call, NEW k \in Client, NEW keyed \in BOOLEAN, GetRaw(c, k, keyed)
        PROVE  Typed'
    <2> DEFINE r == [Idle EXCEPT !.pc = "auth", !.client = k, !.keyed = keyed]
    <2>1. r \in CallRow /\ r.client \in Client
      BY DEF Idle, CallRow, Goal, Session
    <2>2. Becomes(c, r)
      BY <1>2 DEF GetRaw
    <2> HIDE DEF r
    <2> QED
      BY <1>2, <2>1, <2>2, BecomesTyped DEF GetRaw, Typed, clients, service
  <1>3. ASSUME NEW c \in Call, NEW k \in Client, Post(c, k)
        PROVE  Typed'
    <2> DEFINE r == [Idle EXCEPT !.pc = "session", !.client = k]
    <2>1. r \in CallRow /\ r.client \in Client
      BY DEF Idle, CallRow, Goal, Session
    <2>2. Becomes(c, r)
      BY <1>3 DEF Post
    <2> HIDE DEF r
    <2> QED
      BY <1>3, <2>1, <2>2, BecomesTyped DEF Post, Typed, clients, service
  <1>4. ASSUME NEW c \in Call, UseSession(c)
        PROVE  Typed'
    <2> DEFINE s == csrf[call[c].client]
               r == [call[c] EXCEPT !.pc = "auth", !.session = s,
                                    !.goal = IF s = NoSession THEN "fetch" ELSE "post"]
    <2>1. call[c].client \in Client /\ s \in Session
      BY <1>4 DEF UseSession, In, Typed
    <2>2. r \in CallRow /\ r.client \in Client
      BY <1>0, <2>1 DEF CallRow, Goal
    <2>3. Becomes(c, r)
      BY <1>4 DEF UseSession
    <2> HIDE DEF r
    <2> QED
      BY <1>4, <2>2, <2>3, BecomesTyped DEF UseSession, Typed, clients, service
  <1>5. ASSUME NEW c \in Call, Authenticate(c)
        PROVE  Typed'
    <2> DEFINE t == token[call[c].client]
    <2>1. In(c, "auth") /\ call[c].client \in Client /\ t \in Token
      BY <1>5 DEF Authenticate, In, Typed
    <2>2. CASE call[c].keyed
      <3>1. Send(c, Forever) /\ Forever \in Granted
        BY <1>5, <2>2, ForeverGranted DEF Authenticate
      <3> QED
        BY <1>5, <2>1, <3>1, RequestTyped DEF Authenticate, Typed, clients, service
    <2>3. CASE ~call[c].keyed /\ Usable(t)
      <3>1. Send(c, t) /\ t \in Granted
        BY <1>5, <2>1, <2>3 DEF Authenticate, Usable, Token
      <3> QED
        BY <1>5, <2>1, <3>1, RequestTyped DEF Authenticate, Typed, clients, service
    <2>4. CASE ~call[c].keyed /\ ~Usable(t)
      <3> DEFINE r == [call[c] EXCEPT !.pc = "token", !.since = now]
      <3>1. r \in CallRow /\ r.client \in Client
        BY <1>0, <2>1 DEF CallRow, Typed
      <3>2. Becomes(c, r) /\ UNCHANGED flight
        BY <1>5, <2>4 DEF Authenticate
      <3> HIDE DEF r
      <3> QED
        BY <1>5, <3>1, <3>2, BecomesTyped DEF Authenticate, Typed, clients, service
    <2> QED
      BY <2>2, <2>3, <2>4
  <1>6. ASSUME NEW c \in Call, TokenGranted(c)
        PROVE  Typed'
    <2>1. PICK life \in Life, granted \in call[c].since..now :
            /\ token' = [token EXCEPT ![call[c].client] = Fresh(life, granted)]
            /\ Send(c, Fresh(life, granted))
      BY <1>6 DEF TokenGranted, Fresh
    <2>2. Fresh(life, granted) \in Granted /\ In(c, "token")
      BY <1>6, FreshGranted DEF TokenGranted
    <2>3. token' \in [Client -> Token]
      BY <2>1, <2>2 DEF Typed, Token
    <2> QED
      BY <1>6, <2>1, <2>2, <2>3, RequestTyped DEF TokenGranted, Typed, service
  <1>7. ASSUME NEW c \in Call, TokenRefused(c) \/ GivesUp(c)
        PROVE  Typed'
    <2> DEFINE r == [call[c] EXCEPT !.pc = "done", !.result = "failed"]
    <2>1. call[c].client \in Client
      BY <1>7 DEF TokenRefused, GivesUp, In, Typed
    <2>2. r \in CallRow /\ r.client \in Client
      BY <1>0, <2>1 DEF CallRow
    <2>3. Becomes(c, r)
      BY <1>7 DEF TokenRefused, GivesUp, Fails
    <2> HIDE DEF r
    <2> QED
      BY <1>7, <2>2, <2>3, BecomesTyped DEF TokenRefused, GivesUp, Typed, clients, service
  <1>8. ASSUME NEW c \in Call, NEW r \in reply, FetchCsrf(c, r) \/ Retry(c, r) \/ Answer(c, r)
        PROVE  Typed'
    <2>1. /\ call[c].client \in Client /\ r.session \in Session
          /\ reply' \subseteq Reply /\ call[c] \in CallRow
      BY <1>0, <1>8 DEF FetchCsrf, Retry, Answer, Hears, In, Typed, Reply
    <2> DEFINE failed == [call[c] EXCEPT !.pc = "done", !.result = "failed"]
               served == [call[c] EXCEPT !.pc = "done", !.result = "ok"]
               again  == [call[c] EXCEPT !.pc = "session", !.retried = TRUE]
               armed  == [call[c] EXCEPT !.pc = "auth", !.goal = "post", !.session = r.session]
    <2>2. \A x \in {failed, served, again, armed} : x \in CallRow /\ x.client \in Client
      BY <2>1 DEF CallRow, Goal
    <2>3. \/ Becomes(c, failed) \/ Becomes(c, served) \/ Becomes(c, again) \/ Becomes(c, armed)
      BY <1>8 DEF FetchCsrf, Retry, Answer, Fails, Returns
    <2> HIDE DEF failed, served, again, armed
    <2>4. /\ call' \in [Call -> CallRow]
          /\ \A d \in Call : call'[d].pc # "idle" => call'[d].client \in Client
      BY <2>2, <2>3, BecomesTyped
    <2>5. csrf' \in [Client -> Session]
      BY <1>8, <2>1 DEF FetchCsrf, Retry, Answer, Typed, Session, clients
    <2> QED
      BY <1>8, <2>1, <2>4, <2>5 DEF FetchCsrf, Retry, Answer, Typed, clients, service
  <1>9. ASSUME NEW f \in flight, Receives(f)
        PROVE  Typed'
    <2>1. f \in Request
      BY DEF Typed
    <2>2. \A status \in Status, s \in Session :
            [call |-> f.call, status |-> status, session |-> s] \in Reply
      BY <2>1 DEF Request, Reply
    <2>3. NoSession \in Session /\ {"ok", "error", "required", "unauthorised"} \subseteq Status
      BY DEF Session, Status
    <2>4. CASE RefusesToken(f) \/ ServesRead(f)
      BY <1>9, <2>2, <2>3, <2>4 DEF Receives, RefusesToken, ServesRead, Says, Typed, clients, service
    <2>5. CASE OpensSession(f)
      <3>1. opened < MaxSession => opened + 1 \in 1..MaxSession /\ opened + 1 \in Session
        BY DEF Typed, Session
      <3>2. flight' \subseteq Request /\ reply' \subseteq Reply
        BY <2>2, <2>3, <2>5, <3>1 DEF OpensSession, Says, Typed
      <3>3. live' \subseteq 1..MaxSession /\ opened' \in Nat /\ opened' <= MaxSession
        <4>1. CASE opened < MaxSession /\ opened' = opened + 1 /\ live' = live \cup {opened + 1}
          <5>1. opened \in Nat /\ MaxSession \in Nat /\ live \subseteq 1..MaxSession
            BY DEF Typed
          <5>2. opened' \in Nat /\ opened' <= MaxSession
            BY <4>1, <5>1
          <5>3. live' \subseteq 1..MaxSession
            BY <3>1, <4>1, <5>1
          <5> QED
            BY <5>2, <5>3
        <4>2. CASE opened' = opened /\ live' = live
          BY <4>2 DEF Typed
        <4> QED
          BY <2>5, <4>1, <4>2 DEF OpensSession
      <3>4. UNCHANGED <<now, token, csrf, call, docs>>
        BY <1>9, <2>5 DEF Receives, OpensSession, clients
      <3> QED
        BY <3>2, <3>3, <3>4 DEF Typed
    <2>6. CASE ServesWrite(f)
      <3>1. docs' \in [Call -> Nat]
        BY <2>6, <2>1 DEF ServesWrite, Typed, Request
      <3>2. flight' \subseteq Request /\ reply' \subseteq Reply
        BY <2>6, <2>2, <2>3 DEF ServesWrite, Says, Typed
      <3> QED
        BY <1>9, <2>6, <3>1, <3>2 DEF Receives, ServesWrite, Typed, clients
    <2> QED
      BY <1>9, <2>4, <2>5, <2>6 DEF Receives
  <1>10. ASSUME NEW f \in flight, Loses(f)
         PROVE  Typed'
    BY <1>10 DEF Loses, Typed, clients, service
  <1>11. ASSUME NEW s \in live, SessionExpires(s)
         PROVE  Typed'
    BY <1>11 DEF SessionExpires, Typed, clients
  <1>12. ASSUME Tick
         PROVE  Typed'
    BY <1>12 DEF Tick, Typed, clients, service
  <1> QED
    BY <1>1, <1>2, <1>3, <1>4, <1>5, <1>6, <1>7, <1>8, <1>9, <1>10, <1>11, <1>12
    DEF ClientStep, Working, World

LEMMA SpecTyped == Spec => []Typed
  <1>1. Init => Typed
    BY InitTyped
  <1>2. Typed /\ [Next]_evars => Typed'
    BY NextOnClient, StepTyped
  <1> QED
    BY <1>1, <1>2, PTL DEF Spec

-----------------------------------------------------------------------------
(* A token lives as long as the request it goes with.                      *)

\* A request leaves with a token that outlives it, if the token was timely: one that is
\* reused is believed to have more than the margin left, and believed too late by what its
\* answer took; a fresh one has its whole life less that.
Timing ==
  \A f \in flight : /\ now <= f.sent + Timeout
                    /\ Timely(f.token) => f.sent + Timeout < f.token.dies

LEMMA TimelyOutlives ==
  ASSUME Typed, NEW t \in Granted, Timely(t), t.believed > now + Margin
  PROVE  now + Timeout < t.dies
  <1>1. /\ t.believed \in Nat /\ t.dies \in Nat /\ now \in Nat
        /\ (t.believed - t.dies) + Timeout <= Margin
    BY DEF Granted, Timely, Typed
  <1> QED
    BY <1>1, S4Assumption

\* Only the sent request is new, and it leaves now.
LEMMA SendTimed ==
  ASSUME Typed, Timing, NEW c \in Call, NEW t \in Granted, Timely(t) => now + Timeout < t.dies,
         Send(c, t), now' = now
  PROVE  Timing'
  <1> DEFINE new == [call |-> c, goal |-> call[c].goal, session |-> call[c].session,
                     token |-> t, sent |-> now]
  <1>1. flight' = flight \cup {new} /\ new.sent = now /\ new.token = t
    BY DEF Send
  <1>2. now <= now + Timeout
    BY S4Assumption DEF Typed
  <1> HIDE DEF new
  <1>3. \A f \in flight' : f = new \/ f \in flight
    BY <1>1
  <1> QED
    BY <1>1, <1>2, <1>3 DEF Timing, Timely

LEMMA FewerTimed ==
  ASSUME Timing, now' = now, flight' \subseteq flight  PROVE Timing'
  BY DEF Timing, Timely

LEMMA StepTimed ==
  ASSUME Typed, Timing, ClientStep  PROVE Timing'
  <1>1. CASE UNCHANGED svars
    BY <1>1, FewerTimed DEF svars
  <1>2. ASSUME NEW c \in Call, NEW k \in Client, NEW keyed \in BOOLEAN, GetRaw(c, k, keyed) \/ Post(c, k)
        PROVE  Timing'
    BY <1>2, FewerTimed DEF GetRaw, Post
  <1>3. ASSUME NEW c \in Call, UseSession(c) \/ TokenRefused(c) \/ GivesUp(c)
        PROVE  Timing'
    BY <1>3, FewerTimed DEF UseSession, TokenRefused, GivesUp
  <1>4. ASSUME NEW c \in Call, Authenticate(c)
        PROVE  Timing'
    <2> DEFINE t == token[call[c].client]
    <2>1. now' = now /\ t \in Token
      BY <1>4 DEF Authenticate, In, Typed
    <2>2. CASE call[c].keyed
      BY <1>4, <2>1, <2>2, ForeverGranted, SendTimed DEF Authenticate
    <2>3. CASE ~call[c].keyed /\ Usable(t)
      <3>1. Send(c, t) /\ t \in Granted /\ t.believed - Margin > now
        BY <1>4, <2>1, <2>3 DEF Authenticate, Usable, Token
      <3>2. t.believed > now + Margin
        <4>1. t.believed \in Nat /\ now \in Nat /\ Margin \in Nat
          BY <3>1, S4Assumption DEF Granted, Typed
        <4> QED
          BY <3>1, <4>1
      <3> HIDE DEF t
      <3>3. Timely(t) => now + Timeout < t.dies
        BY <3>1, <3>2, TimelyOutlives
      <3> QED
        BY <2>1, <3>1, <3>3, SendTimed
    <2>4. CASE ~call[c].keyed /\ ~Usable(t)
      BY <1>4, <2>1, <2>4, FewerTimed DEF Authenticate
    <2> QED
      BY <2>2, <2>3, <2>4
  <1>5. ASSUME NEW c \in Call, TokenGranted(c)
        PROVE  Timing'
    <2>1. PICK life \in Life, granted \in call[c].since..now : Send(c, Fresh(life, granted))
      BY <1>5 DEF TokenGranted, Fresh
    <2>2. now' = now /\ Fresh(life, granted) \in Granted
      BY <1>5, FreshGranted DEF TokenGranted
    <2>3. Timely(Fresh(life, granted)) => Fresh(life, granted).believed > now + Margin
      <3>1. life \in Nat /\ now \in Nat /\ Margin \in Nat
        BY S4Assumption DEF Typed
      <3>2. Fresh(life, granted).life = life /\ Fresh(life, granted).believed = now + life
        BY DEF Fresh
      <3>3. Timely(Fresh(life, granted)) => life > Margin
        BY <3>2 DEF Timely
      <3> QED
        BY <3>1, <3>2, <3>3
    <2>4. Timely(Fresh(life, granted)) => now + Timeout < Fresh(life, granted).dies
      BY <2>2, <2>3, TimelyOutlives
    <2> QED
      BY <2>1, <2>2, <2>4, SendTimed
  <1>6. ASSUME NEW c \in Call, NEW r \in reply, FetchCsrf(c, r) \/ Retry(c, r) \/ Answer(c, r)
        PROVE  Timing'
    BY <1>6, FewerTimed DEF FetchCsrf, Retry, Answer
  <1>7. ASSUME NEW f \in flight, Receives(f) \/ Loses(f)
        PROVE  Timing'
    <2>1. flight' \subseteq flight /\ now' = now
      BY <1>7 DEF Receives, Loses, RefusesToken, ServesRead, OpensSession, ServesWrite, Says
    <2> QED
      BY <2>1, FewerTimed
  <1>8. ASSUME NEW s \in live, SessionExpires(s)
        PROVE  Timing'
    BY <1>8, FewerTimed DEF SessionExpires
  <1>9. ASSUME Tick
        PROVE  Timing'
    <2>1. \A f \in flight : f.sent \in Nat /\ now + 1 <= f.sent + Timeout
      BY <1>9, S4Assumption DEF Tick, Typed, Request
    <2>2. now' = now + 1 /\ flight' = flight
      BY <1>9 DEF Tick
    <2> QED
      BY <2>1, <2>2 DEF Timing, Timely
  <1> QED
    BY <1>1, <1>2, <1>3, <1>4, <1>5, <1>6, <1>7, <1>8, <1>9 DEF ClientStep, Working, World

\* No request arrives with a dead token if its token was timely: the margin of s4-auth.ts
\* covers what the token's answer took and the timeout of a request together.  The code
\* bounds only the second, so an answer that took longer is outside the statement.
THEOREM SpecTokenOutlivesRequest == Spec => []TokenOutlivesRequest
  <1>1. Init => Timing
    BY DEF Init, ClientInit, Timing
  <1>2. Typed /\ Timing /\ [Next]_evars => Timing'
    BY NextOnClient, StepTimed
  <1>3. Typed /\ Timing => TokenOutlivesRequest
    <2> SUFFICES ASSUME Typed, Timing, NEW f \in flight, Timely(f.token)
                 PROVE  f.token.dies > now
      BY DEF TokenOutlivesRequest
    <2>1. f.sent \in Nat /\ f.token.dies \in Nat /\ now \in Nat
      BY DEF Typed, Request, Granted
    <2>2. now <= f.sent + Timeout /\ f.sent + Timeout < f.token.dies
      BY DEF Timing
    <2> QED
      BY <2>1, <2>2, S4Assumption
  <1> QED
    BY <1>1, <1>2, <1>3, SpecTyped, PTL DEF Spec

-----------------------------------------------------------------------------
(* A posting creates one document at most.                                 *)

\* The call has a request out, or is over and may have left one behind.
Out(c) == call[c].pc \in {"wait", "done"}

\* A call has one message on its way at most, and a document only once no request of it is
\* left and the answer, if there is one yet, ends it.
OneMessage ==
  /\ \A c \in Call : docs[c] <= 1 /\ (~Out(c) => docs[c] = 0)
  /\ \A f \in flight : Out(f.call) /\ docs[f.call] = 0 /\ f.goal = call[f.call].goal
  /\ \A r \in reply : /\ Out(r.call)
                      /\ r.status = "required" \/ call[r.call].goal = "fetch" => docs[r.call] = 0
  /\ \A f, g \in flight : f.call = g.call => f = g
  /\ \A q, r \in reply : q.call = r.call => q = r
  /\ \A f \in flight, r \in reply : f.call # r.call

\* A call with nothing out does something that sends nothing.
LEMMA QuietStep ==
  ASSUME Typed, OneMessage, NEW c \in Call, ~Out(c), NEW x \in CallRow, Becomes(c, x),
         UNCHANGED <<flight, reply, docs>>
  PROVE  OneMessage'
  <1>1. \A d \in Call : d # c => call'[d] = call[d]
    BY DEF Typed, Becomes
  <1>2. \A f \in flight : f.call \in Call /\ f.call # c
    BY DEF Typed, OneMessage, Request
  <1>3. \A r \in reply : r.call \in Call /\ r.call # c
    BY DEF Typed, OneMessage, Reply
  <1>4. \A d \in Call : docs'[d] <= 1 /\ (~Out(d)' => docs'[d] = 0)
    BY <1>1 DEF OneMessage, Out
  <1>5. \A f \in flight' : Out(f.call)' /\ docs'[f.call] = 0 /\ f.goal = call'[f.call].goal
    BY <1>1, <1>2 DEF OneMessage, Out
  <1>6. \A r \in reply' : /\ Out(r.call)'
                          /\ r.status = "required" \/ call'[r.call].goal = "fetch" => docs'[r.call] = 0
    BY <1>1, <1>3 DEF OneMessage, Out
  <1> QED
    BY <1>4, <1>5, <1>6 DEF OneMessage

LEMMA SendsOne ==
  ASSUME Typed, OneMessage, NEW c \in Call, ~Out(c), NEW t \in Granted, Send(c, t),
         UNCHANGED <<reply, docs>>
  PROVE  OneMessage'
  <1> DEFINE x == [call[c] EXCEPT !.pc = "wait", !.since = now]
             m == [call |-> c, goal |-> call[c].goal, session |-> call[c].session,
                   token |-> t, sent |-> now]
  <1>1. x.pc = "wait" /\ x.goal = call[c].goal /\ call' = [call EXCEPT ![c] = x]
    BY DEF Send, Becomes, Typed, CallRow
  <1>2. m.call = c /\ m.goal = call[c].goal /\ flight' = flight \cup {m}
    BY DEF Send
  <1> HIDE DEF x, m
  <1>3. /\ \A d \in Call : d # c => call'[d] = call[d]
        /\ call'[c].goal = call[c].goal /\ Out(c)'
    BY <1>1 DEF Typed, Out
  <1>4. \A f \in flight : f.call \in Call /\ f.call # c
    BY DEF Typed, OneMessage, Request
  <1>5. \A r \in reply : r.call \in Call /\ r.call # c
    BY DEF Typed, OneMessage, Reply
  <1>6. docs[c] = 0
    BY DEF OneMessage
  <1>7. \A d \in Call : docs'[d] <= 1 /\ (~Out(d)' => docs'[d] = 0)
    BY <1>3 DEF OneMessage, Out
  <1>8. \A f \in flight' : Out(f.call)' /\ docs'[f.call] = 0 /\ f.goal = call'[f.call].goal
    <2>1. \A f \in flight : Out(f.call)' /\ docs'[f.call] = 0 /\ f.goal = call'[f.call].goal
      BY <1>3, <1>4 DEF OneMessage, Out
    <2> QED
      BY <1>2, <1>3, <1>6, <2>1
  <1>9. \A r \in reply' : /\ Out(r.call)'
                          /\ r.status = "required" \/ call'[r.call].goal = "fetch" => docs'[r.call] = 0
    BY <1>3, <1>5 DEF OneMessage, Out
  <1>10. \A f, g \in flight' : f.call = g.call => f = g
    BY <1>2, <1>4 DEF OneMessage
  <1>11. \A f \in flight', r \in reply' : f.call # r.call
    BY <1>2, <1>5 DEF OneMessage
  <1> QED
    BY <1>7, <1>8, <1>9, <1>10, <1>11 DEF OneMessage

\* A call takes its answer and goes on only if no document is there.
LEMMA HearsOne ==
  ASSUME Typed, OneMessage, NEW c \in Call, NEW r \in reply, Hears(c, r),
         NEW x \in CallRow, Becomes(c, x), x.pc = "done" \/ docs[c] = 0,
         UNCHANGED <<flight, docs>>
  PROVE  OneMessage'
  <1>1. \A d \in Call : d # c => call'[d] = call[d]
    BY DEF Typed, Becomes
  <1>2. r.call = c /\ reply' = reply \ {r} /\ call'[c] = x
    BY DEF Hears, Becomes, Typed
  <1>3. \A f \in flight : f.call \in Call /\ f.call # c
    BY <1>2 DEF Typed, OneMessage, Request
  <1>4. \A q \in reply' : q.call \in Call /\ q.call # c /\ q \in reply
    BY <1>2 DEF Typed, OneMessage, Reply
  <1>5. \A d \in Call : docs'[d] <= 1 /\ (~Out(d)' => docs'[d] = 0)
    BY <1>1, <1>2 DEF OneMessage, Out
  <1>6. \A f \in flight' : Out(f.call)' /\ docs'[f.call] = 0 /\ f.goal = call'[f.call].goal
    BY <1>1, <1>3 DEF OneMessage, Out
  <1>7. \A q \in reply' : /\ Out(q.call)'
                          /\ q.status = "required" \/ call'[q.call].goal = "fetch" => docs'[q.call] = 0
    BY <1>1, <1>4 DEF OneMessage, Out
  <1> QED
    BY <1>4, <1>5, <1>6, <1>7 DEF OneMessage

\* The service answers a request; only to one for a document may it create one, and then
\* it does not say that the session is missing.
LEMMA SaysOne ==
  ASSUME Typed, OneMessage, NEW f \in flight, NEW status \in Status, NEW s \in Session,
         Says(f, status, s), call' = call,
         \/ docs' = docs
         \/ docs' = [docs EXCEPT ![f.call] = @ + 1] /\ f.goal = "post" /\ status # "required"
  PROVE  OneMessage'
  <1> DEFINE m == [call |-> f.call, status |-> status, session |-> s]
  <1>1. flight' = flight \ {f} /\ reply' = reply \cup {m} /\ m.call = f.call /\ m.status = status
    BY DEF Says
  <1> HIDE DEF m
  <1>2. f.call \in Call /\ docs[f.call] = 0 /\ f.goal = call[f.call].goal /\ Out(f.call)
    BY DEF Typed, OneMessage, Request
  <1>3. /\ \A d \in Call : d # f.call => docs'[d] = docs[d]
        /\ docs'[f.call] \in {0, 1}
        /\ f.goal = "fetch" \/ status = "required" => docs'[f.call] = 0
    BY <1>2 DEF Typed
  <1>4. \A g \in flight' : g \in flight /\ g.call \in Call /\ g.call # f.call
    BY <1>1 DEF Typed, OneMessage, Request
  <1>5. \A r \in reply : r.call \in Call /\ r.call # f.call
    BY DEF Typed, OneMessage, Reply
  <1>6. \A d \in Call : docs'[d] <= 1 /\ (~Out(d)' => docs'[d] = 0)
    <2>1. \A d \in Call : Out(d)' <=> Out(d)
      BY DEF Out
    <2>2. docs'[f.call] <= 1 /\ Out(f.call)'
      BY <1>2, <1>3, <2>1
    <2> QED
      BY <1>3, <2>1, <2>2 DEF OneMessage
  <1>7. \A g \in flight' : Out(g.call)' /\ docs'[g.call] = 0 /\ g.goal = call'[g.call].goal
    BY <1>3, <1>4 DEF OneMessage, Out
  <1>8. \A r \in reply' : /\ Out(r.call)'
                          /\ r.status = "required" \/ call'[r.call].goal = "fetch" => docs'[r.call] = 0
    <2>1. \A r \in reply : /\ Out(r.call)'
                           /\ r.status = "required" \/ call'[r.call].goal = "fetch" => docs'[r.call] = 0
      BY <1>3, <1>5 DEF OneMessage, Out
    <2>2. Out(m.call)' /\ (m.status = "required" \/ call'[m.call].goal = "fetch" => docs'[m.call] = 0)
      BY <1>1, <1>2, <1>3 DEF Out
    <2> QED
      BY <1>1, <2>1, <2>2
  <1>9. \A q, r \in reply' : q.call = r.call => q = r
    BY <1>1, <1>5 DEF OneMessage
  <1>10. \A g \in flight', r \in reply' : g.call # r.call
    BY <1>1, <1>4 DEF OneMessage
  <1>11. \A g, h \in flight' : g.call = h.call => g = h
    BY <1>4 DEF OneMessage
  <1> QED
    BY <1>6, <1>7, <1>8, <1>9, <1>10, <1>11 DEF OneMessage

\* Messages that do not arrive, and steps of no call.
LEMMA FewerMessages ==
  ASSUME OneMessage, flight' \subseteq flight, UNCHANGED <<call, reply, docs>>
  PROVE  OneMessage'
  BY DEF OneMessage, Out

LEMMA StepOne ==
  ASSUME Typed, OneMessage, ClientStep  PROVE OneMessage'
  <1> USE S4Assumption
  <1>0. \A c \in Call : call[c] \in CallRow
    BY DEF Typed
  <1>1. CASE UNCHANGED svars
    BY <1>1, FewerMessages DEF svars
  <1>2. ASSUME NEW c \in Call, NEW k \in Client, NEW keyed \in BOOLEAN, GetRaw(c, k, keyed)
        PROVE  OneMessage'
    <2> DEFINE x == [Idle EXCEPT !.pc = "auth", !.client = k, !.keyed = keyed]
    <2>1. x \in CallRow
      BY DEF Idle, CallRow, Goal, Session
    <2>2. Becomes(c, x) /\ ~Out(c) /\ UNCHANGED <<flight, reply, docs>>
      BY <1>2 DEF GetRaw, In, Out, service
    <2> HIDE DEF x
    <2> QED
      BY <2>1, <2>2, QuietStep
  <1>3. ASSUME NEW c \in Call, NEW k \in Client, Post(c, k)
        PROVE  OneMessage'
    <2> DEFINE x == [Idle EXCEPT !.pc = "session", !.client = k]
    <2>1. x \in CallRow
      BY DEF Idle, CallRow, Goal, Session
    <2>2. Becomes(c, x) /\ ~Out(c) /\ UNCHANGED <<flight, reply, docs>>
      BY <1>3 DEF Post, In, Out, service
    <2> HIDE DEF x
    <2> QED
      BY <2>1, <2>2, QuietStep
  <1>4. ASSUME NEW c \in Call, UseSession(c)
        PROVE  OneMessage'
    <2> DEFINE s == csrf[call[c].client]
               x == [call[c] EXCEPT !.pc = "auth", !.session = s,
                                    !.goal = IF s = NoSession THEN "fetch" ELSE "post"]
    <2>1. s \in Session
      BY <1>4 DEF UseSession, In, Typed
    <2>2. x \in CallRow
      BY <1>0, <2>1 DEF CallRow, Goal
    <2>3. Becomes(c, x) /\ ~Out(c) /\ UNCHANGED <<flight, reply, docs>>
      BY <1>4 DEF UseSession, In, Out, service
    <2> HIDE DEF x
    <2> QED
      BY <2>2, <2>3, QuietStep
  <1>5. ASSUME NEW c \in Call, Authenticate(c)
        PROVE  OneMessage'
    <2> DEFINE t == token[call[c].client]
               x == [call[c] EXCEPT !.pc = "token", !.since = now]
    <2>1. ~Out(c) /\ UNCHANGED <<reply, docs>> /\ t \in Token
      BY <1>5 DEF Authenticate, In, Out, service, Typed
    <2>2. CASE call[c].keyed
      <3>1. Send(c, Forever) /\ Forever \in Granted
        BY <1>5, <2>2, ForeverGranted DEF Authenticate
      <3> QED
        BY <2>1, <3>1, SendsOne
    <2>3. CASE ~call[c].keyed /\ Usable(t)
      <3>1. Send(c, t) /\ t \in Granted
        BY <1>5, <2>1, <2>3 DEF Authenticate, Usable, Token
      <3> QED
        BY <2>1, <3>1, SendsOne
    <2>4. CASE ~call[c].keyed /\ ~Usable(t)
      <3>1. x \in CallRow
        BY <1>0 DEF CallRow, Typed
      <3>2. Becomes(c, x) /\ UNCHANGED flight
        BY <1>5, <2>4 DEF Authenticate
      <3> HIDE DEF x
      <3> QED
        BY <2>1, <3>1, <3>2, QuietStep
    <2> QED
      BY <2>2, <2>3, <2>4
  <1>6. ASSUME NEW c \in Call, TokenGranted(c)
        PROVE  OneMessage'
    <2>1. PICK life \in Life, granted \in call[c].since..now : Send(c, Fresh(life, granted))
      BY <1>6 DEF TokenGranted, Fresh
    <2>2. Fresh(life, granted) \in Granted
      BY FreshGranted
    <2>3. ~Out(c) /\ UNCHANGED <<reply, docs>>
      BY <1>6 DEF TokenGranted, In, Out, service
    <2> QED
      BY <2>1, <2>2, <2>3, SendsOne
  <1>7. ASSUME NEW c \in Call, TokenRefused(c) \/ GivesUp(c)
        PROVE  OneMessage'
    <2> DEFINE x == [call[c] EXCEPT !.pc = "done", !.result = "failed"]
    <2>1. x \in CallRow /\ x.goal = call[c].goal /\ x.pc = "done"
      BY <1>0 DEF CallRow
    <2>2. Becomes(c, x) /\ UNCHANGED <<flight, reply, docs>>
      BY <1>7 DEF TokenRefused, GivesUp, Fails, service
    <2>3. TokenRefused(c) => ~Out(c)
      BY DEF TokenRefused, In, Out
    <2> HIDE DEF x
    <2>4. CASE ~Out(c)
      BY <2>1, <2>2, <2>4, QuietStep
    <2>5. CASE Out(c)
      <3>1. \A d \in Call : call'[d].goal = call[d].goal /\ (Out(d)' <=> Out(d))
        BY <2>1, <2>2, <2>5 DEF Typed, Becomes, Out
      <3>2. /\ \A f \in flight : f.call \in Call
            /\ \A r \in reply : r.call \in Call
        BY DEF Typed, Request, Reply
      <3> QED
        BY <2>2, <3>1, <3>2 DEF OneMessage
    <2> QED
      BY <2>4, <2>5
  <1>8. ASSUME NEW c \in Call, NEW r \in reply, FetchCsrf(c, r) \/ Retry(c, r) \/ Answer(c, r)
        PROVE  OneMessage'
    <2> DEFINE failed == [call[c] EXCEPT !.pc = "done", !.result = "failed"]
               served == [call[c] EXCEPT !.pc = "done", !.result = "ok"]
               again  == [call[c] EXCEPT !.pc = "session", !.retried = TRUE]
               armed  == [call[c] EXCEPT !.pc = "auth", !.goal = "post", !.session = r.session]
    <2>1. /\ Hears(c, r) /\ UNCHANGED <<flight, docs>>
          /\ \/ Becomes(c, failed) \/ Becomes(c, served)
             \/ Becomes(c, again) /\ r.status = "required"
             \/ Becomes(c, armed) /\ call[c].goal = "fetch"
      BY <1>8 DEF FetchCsrf, Retry, Answer, Fails, Returns, service
    <2>2. r.session \in Session
      BY DEF Typed, Reply
    <2>3. \A x \in {failed, served, again, armed} : x \in CallRow
      BY <1>0, <2>2 DEF CallRow, Goal
    <2>4. failed.pc = "done" /\ served.pc = "done"
      BY <1>0 DEF CallRow
    <2>5. r.status = "required" \/ call[c].goal = "fetch" => docs[c] = 0
      BY <2>1 DEF Hears, OneMessage
    <2> HIDE DEF failed, served, again, armed
    <2> QED
      BY <2>1, <2>3, <2>4, <2>5, HearsOne
  <1>9. ASSUME NEW f \in flight, Receives(f)
        PROVE  OneMessage'
    <2>1. f \in Request /\ call' = call /\ NoSession \in Session
      BY <1>9 DEF Receives, Typed, Session
    <2>2. CASE RefusesToken(f)
      BY <2>1, <2>2, SaysOne DEF RefusesToken, Status, service
    <2>3. CASE ServesRead(f)
      BY <2>1, <2>3, SaysOne DEF ServesRead, Status, service
    <2>4. CASE OpensSession(f)
      <3>1. opened < MaxSession => opened + 1 \in Session
        BY DEF Typed, Session
      <3>2. docs' = docs /\ \E s \in Session, status \in {"ok", "error"} : Says(f, status, s)
        BY <2>1, <2>4, <3>1 DEF OpensSession
      <3> QED
        BY <2>1, <3>2, SaysOne DEF Status
    <2>5. CASE ServesWrite(f)
      BY <2>1, <2>5, SaysOne DEF ServesWrite, Status
    <2> QED
      BY <1>9, <2>2, <2>3, <2>4, <2>5 DEF Receives
  <1>10. ASSUME NEW f \in flight, Loses(f)
         PROVE  OneMessage'
    BY <1>10, FewerMessages DEF Loses, service
  <1>11. ASSUME NEW s \in live, SessionExpires(s)
         PROVE  OneMessage'
    BY <1>11, FewerMessages DEF SessionExpires
  <1>12. ASSUME Tick
         PROVE  OneMessage'
    BY <1>12, FewerMessages DEF Tick, service
  <1> QED
    BY <1>1, <1>2, <1>3, <1>4, <1>5, <1>6, <1>7, <1>8, <1>9, <1>10, <1>11, <1>12
    DEF ClientStep, Working, World

\* One call to post creates one document at most, whichever answers are lost, late or
\* errors: the single retry of s4-client.ts only follows an answer that nothing was created.
THEOREM SpecOneDocument == Spec => []OneDocument
  <1>1. Init => OneMessage
    BY DEF Init, ClientInit, OneMessage, Out, Idle
  <1>2. Typed /\ OneMessage /\ [Next]_evars => OneMessage'
    BY NextOnClient, StepOne
  <1>3. OneMessage => OneDocument
    BY DEF OneMessage, OneDocument
  <1> QED
    BY <1>1, <1>2, <1>3, SpecTyped, PTL DEF Spec

-----------------------------------------------------------------------------
(* Every stored configuration can sign in.                                 *)

\* No secret is a placeholder but where the connection was created with one.
Known(config, made) == \A f \in Secrets : config[f] = Placeholder => made[f] = Placeholder

Good(r) == /\ r = [config |-> r.config, made |-> r.made, tested |-> r.tested, synced |-> r.synced]
           /\ Workable(r.config) /\ Known(r.config, r.made)
Busy(c) == job[c].pc \in {"write", "test", "sync"}

\* What the row i may be given.
Suits(config, i) == Workable(config) /\ Known(config, row[i].made)

\* What an operation found is still there, and what an update is about to write was
\* checked, although the row it was merged with may have changed since: what it was
\* created with has not.
RowsSound ==
  /\ row = [i \in DOMAIN row |-> row[i]] /\ job = [c \in Call |-> job[c]]
  /\ \A i \in DOMAIN row : Good(row[i])
  /\ \A c \in Call : Busy(c) => job[c].conn \in DOMAIN row
  /\ \A c \in Call : Doing(c, "write") => Suits(job[c].config, job[c].conn)

\* A merge of what was sent keeps the secret where a placeholder was sent back.
LEMMA MergeKeepsSecrets ==
  ASSUME NEW config, NEW sent, NEW made, Known(config, made)
  PROVE  Known(Merge(config, sent), made)
  BY DEF Known, Merge, Fields, Secrets

LEMMA GoodEdited ==
  ASSUME NEW r, Good(r), NEW v
  PROVE  /\ Good([r EXCEPT !.tested = v]) /\ [r EXCEPT !.tested = v].made = r.made
         /\ Good([r EXCEPT !.synced = v]) /\ [r EXCEPT !.synced = v].made = r.made
         /\ Workable(v) /\ Known(v, r.made) => Good([r EXCEPT !.config = v])
         /\ [r EXCEPT !.config = v].made = r.made
  <1>1. /\ r = [config |-> r.config, made |-> r.made, tested |-> r.tested, synced |-> r.synced]
        /\ Workable(r.config) /\ Known(r.config, r.made)
    BY DEF Good
  <1>2. [r EXCEPT !.tested = v] = [config |-> r.config, made |-> r.made, tested |-> v, synced |-> r.synced]
    BY <1>1
  <1>3. [r EXCEPT !.synced = v] = [config |-> r.config, made |-> r.made, tested |-> r.tested, synced |-> v]
    BY <1>1
  <1>4. [r EXCEPT !.config = v] = [config |-> v, made |-> r.made, tested |-> r.tested, synced |-> r.synced]
    BY <1>1
  <1> QED
    BY <1>1, <1>2, <1>3, <1>4 DEF Good

LEMMA Edited ==
  ASSUME RowsSound, NEW i \in DOMAIN row, NEW r
  PROVE  [row EXCEPT ![i] = r] = [j \in DOMAIN row \cup {i} |-> IF j = i THEN r ELSE row[j]]
  <1>1. DOMAIN row \cup {i} = DOMAIN row
    OBVIOUS
  <1> QED
    BY <1>1 DEF RowsSound

\* A row is written or created, and its writer rests.
LEMMA RowWritten ==
  ASSUME RowsSound, NEW c \in Call, NEW i, NEW r, Good(r),
         i \in DOMAIN row => r.made = row[i].made,
         row' = [j \in DOMAIN row \cup {i} |-> IF j = i THEN r ELSE row[j]], Rests(c)
  PROVE  RowsSound'
  <1>1. DOMAIN row' = DOMAIN row \cup {i} /\ \A j \in DOMAIN row' : row'[j] = IF j = i THEN r ELSE row[j]
    OBVIOUS
  <1>2. \A d \in Call : d # c => job'[d] = job[d]
    BY DEF RowsSound, Rests
  <1>3. job'[c].pc = "over"
    BY DEF RowsSound, Rests, NoJob
  <1>4. row' = [j \in DOMAIN row' |-> row'[j]] /\ job' = [d \in Call |-> job'[d]]
    BY DEF RowsSound, Rests
  <1>5. \A j \in DOMAIN row' : Good(row'[j])
    BY <1>1 DEF RowsSound
  <1>6. \A d \in Call : Busy(d)' => job'[d].conn \in DOMAIN row'
    BY <1>1, <1>2, <1>3 DEF RowsSound, Busy
  <1>7. ASSUME NEW d \in Call, Doing(d, "write")'
        PROVE  Suits(job[d].config, job[d].conn)'
    <2>1. d # c /\ job'[d] = job[d] /\ Doing(d, "write")
      BY <1>2, <1>3, <1>7 DEF Doing
    <2>2. job[d].conn \in DOMAIN row /\ Suits(job[d].config, job[d].conn)
      BY <2>1 DEF RowsSound, Doing, Busy
    <2>3. row'[job[d].conn].made = row[job[d].conn].made
      BY <1>1, <2>2
    <2> QED
      BY <2>1, <2>2, <2>3 DEF Suits, Workable, Known
  <1> QED
    BY <1>4, <1>5, <1>6, <1>7 DEF RowsSound, Good, Known, Suits, Busy

\* An operation takes a step of its own.
LEMMA JobStepped ==
  ASSUME RowsSound, row' = row, NEW c \in Call, NEW x, job' = [job EXCEPT ![c] = x],
         x.pc \in {"write", "test", "sync"} => x.conn \in DOMAIN row,
         x.pc = "write" => Suits(x.config, x.conn)
  PROVE  RowsSound'
  <1>1. /\ job'[c] = x /\ \A d \in Call : d # c => job'[d] = job[d]
        /\ job' = [d \in Call |-> job'[d]]
    BY DEF RowsSound
  <1>2. \A d \in Call : Busy(d)' => job'[d].conn \in DOMAIN row
    BY <1>1 DEF RowsSound, Busy
  <1>3. \A d \in Call : Doing(d, "write")' => Suits(job'[d].config, job'[d].conn)
    BY <1>1 DEF RowsSound, Doing
  <1> QED
    BY <1>1, <1>2, <1>3 DEF RowsSound, Good, Known, Suits, Busy

LEMMA StepSound ==
  ASSUME RowsSound, [Next]_evars  PROVE RowsSound'
  <1>1. CASE UNCHANGED <<row, job>>
    BY <1>1 DEF RowsSound, Good, Known, Suits, Busy, Doing
  <1>2. ASSUME NEW c \in Call, Create(c)
        PROVE  RowsSound'
    <2>1. PICK i \in Conn \ DOMAIN row, config \in NewConfigs :
            row' = IF Workable(config)
                   THEN [j \in DOMAIN row \cup {i} |-> IF j = i THEN Stored(config) ELSE row[j]]
                   ELSE row
      BY <1>2 DEF Create
    <2>2. CASE Workable(config)
      <3>1. Good(Stored(config))
        BY <2>2 DEF Good, Stored, Known
      <3> DEFINE r == Stored(config)
      <3>2. row' = [j \in DOMAIN row \cup {i} |-> IF j = i THEN r ELSE row[j]] /\ Good(r)
        BY <2>1, <2>2, <3>1
      <3> HIDE DEF r
      <3> QED
        BY <1>2, <3>2, RowWritten DEF Create
    <2>3. CASE ~Workable(config)
      BY <1>2, <2>1, <2>3, JobStepped DEF Create, Rests, NoJob
    <2> QED
      BY <2>2, <2>3
  <1>3. ASSUME NEW c \in Call, Update(c)
        PROVE  RowsSound'
    <2>1. PICK i \in DOMAIN row, p \in Patches :
            \E sent \in {p, Shown(row[i].config, p)} :
               LET merged == Merge(row[i].config, sent)
               IN  IF Workable(merged) THEN Step(c, "write", i, merged, sent) ELSE Rests(c)
      BY <1>3 DEF Update
    <2>2. PICK sent :
            IF Workable(Merge(row[i].config, sent)) THEN Step(c, "write", i, Merge(row[i].config, sent), sent)
            ELSE Rests(c)
      BY <2>1
    <2>3. Good(row[i]) /\ row' = row
      BY <1>3, <2>1 DEF RowsSound, Update
    <2> DEFINE merged == Merge(row[i].config, sent)
    <2>4. CASE Workable(merged)
      <3>1. Suits(merged, i)
        BY <2>3, <2>4, MergeKeepsSecrets DEF Good, Suits
      <3>2. job' = [job EXCEPT ![c] = [pc |-> "write", conn |-> i, config |-> merged, patch |-> sent]]
        BY <2>2, <2>4 DEF Step
      <3> HIDE DEF merged
      <3> QED
        BY <2>1, <2>3, <3>1, <3>2, JobStepped
    <2>5. CASE ~Workable(merged)
      BY <2>2, <2>3, <2>5, JobStepped DEF Rests, NoJob
    <2> QED
      BY <2>4, <2>5
  <1>4. ASSUME NEW c \in Call, WriteConfig(c)
        PROVE  RowsSound'
    <2> DEFINE i == job[c].conn
               r == [row[i] EXCEPT !.config = job[c].config]
    <2>1. i \in DOMAIN row /\ Good(row[i]) /\ Suits(job[c].config, i)
      BY <1>4 DEF WriteConfig, RowsSound, Busy, Doing
    <2>2. Good(r) /\ r.made = row[i].made
      BY <2>1, GoodEdited DEF Suits
    <2>3. row' = [row EXCEPT ![i] = r] /\ Rests(c)
      BY <1>4 DEF WriteConfig
    <2>4. row' = [j \in DOMAIN row \cup {i} |-> IF j = i THEN r ELSE row[j]]
      BY <2>1, <2>3, Edited
    <2> HIDE DEF i, r
    <2> QED
      BY <2>1, <2>2, <2>3, <2>4, RowWritten
  <1>5. ASSUME NEW c \in Call, RecordTest(c) \/ RecordSync(c)
        PROVE  RowsSound'
    <2> DEFINE i == job[c].conn
               tested == [row[i] EXCEPT !.tested = call[c].result]
               synced == [row[i] EXCEPT !.synced = TRUE]
    <2>1. i \in DOMAIN row /\ Good(row[i])
      BY <1>5 DEF RecordTest, RecordSync, RowsSound, Busy, Doing
    <2>2. /\ Good(tested) /\ tested.made = row[i].made
          /\ Good(synced) /\ synced.made = row[i].made
      BY <2>1, GoodEdited
    <2>3. /\ Rests(c)
          /\ row' = [row EXCEPT ![i] = tested] \/ row' = [row EXCEPT ![i] = synced] \/ row' = row
      BY <1>5 DEF RecordTest, RecordSync
    <2> HIDE DEF i, tested, synced
    <2>4. CASE row' = row
      BY <2>3, <2>4, JobStepped DEF Rests, NoJob
    <2>5. ASSUME NEW r, r \in {tested, synced}, row' = [row EXCEPT ![i] = r]
          PROVE  RowsSound'
      <3>1. row' = [j \in DOMAIN row \cup {i} |-> IF j = i THEN r ELSE row[j]]
        BY <2>1, <2>5, Edited
      <3> QED
        BY <2>1, <2>2, <2>3, <2>5, <3>1, RowWritten
    <2> QED
      BY <2>3, <2>4, <2>5
  <1>6. ASSUME NEW c \in Call, Test(c) \/ Sync(c)
        PROVE  RowsSound'
    <2>1. PICK l \in {"test", "sync"}, i \in DOMAIN row : Step(c, l, i, row[i].config, Blank)
      BY <1>6 DEF Test, Sync, Reach
    <2>2. Good(row[i]) /\ row' = row
      BY <1>6, <2>1 DEF RowsSound, Test, Sync, Reach
    <2> QED
      BY <2>1, <2>2, JobStepped DEF Step
  <1> QED
    BY <1>1, <1>2, <1>3, <1>4, <1>5, <1>6 DEF Next, evars

\* Every stored configuration has what its way to sign in needs, and no update puts a
\* placeholder where the connection was not created with one, however updates overlap.
THEOREM SpecConnectionUsable == Spec => []ConnectionUsable
  <1>1. Init => RowsSound
    <2> SUFFICES ASSUME Init PROVE RowsSound
      OBVIOUS
    <2>1. DOMAIN row = DOMAIN FirstConfig /\ \A i \in DOMAIN row : row[i] = Stored(FirstConfig[i])
      BY DEF Init
    <2>2. \A i \in DOMAIN FirstConfig : Good(Stored(FirstConfig[i]))
      BY ErpAssumption DEF Good, Stored, Known
    <2>3. \A i \in DOMAIN row : Good(row[i])
      BY <2>1, <2>2
    <2>4. \A c \in Call : job[c].pc = "idle"
      BY DEF Init, NoJob
    <2> QED
      BY <2>3, <2>4 DEF Init, RowsSound, Busy, Doing
  <1>2. RowsSound /\ [Next]_evars => RowsSound'
    BY StepSound
  <1>3. RowsSound => ConnectionUsable
    BY DEF RowsSound, Good, Known, ConnectionUsable
  <1> QED
    BY <1>1, <1>2, <1>3, PTL DEF Spec
-----------------------------------------------------------------------------
(* What the mapping of a posting onto S/4HANA means for every posting: the *)
(* hard part is the tax code, which a purchase-order line does not carry.  *)

\* A posting that maps has a G/L line with a tax code as soon as it has a PO line.
LEMMA PoLineNeedsTaxedLine ==
  ASSUME NEW p, NEW i \in DOMAIN p.poLines, Mappable(p)
  PROVE  TaxedLines(p) # {}
  <1>1. PoLineFits(p, p.poLines[i])
    BY DEF Mappable
  <1>2. TaxCodeFor(p) # Unmappable
    BY <1>1 DEF PoLineFits
  <1> QED
    BY <1>2 DEF TaxCodeFor

\* An invoice that is all purchase order and no G/L line cannot be posted to S/4HANA
\* at all: taxCodeFor finds no code and the mapping fails as a whole.
THEOREM PurchaseOrderOnlyIsRefused ==
  ASSUME NEW S, NEW p, p.poLines \in Seq(S), p.poLines # <<>>, p.glLines = <<>>
  PROVE  BuildSupplierInvoicePayload(p) = Unmappable
  <1>1. 1 \in DOMAIN p.poLines
    OBVIOUS
  <1>2. TaxedLines(p) = {}
    BY DEF TaxedLines
  <1>3. ~Mappable(p)
    BY <1>1, <1>2, PoLineNeedsTaxedLine
  <1> QED
    BY <1>3 DEF BuildSupplierInvoicePayload

\* One document, one tax code for all that comes from orders: whatever the rates printed
\* on the lines, every PO line and the tax block carry the code of the first G/L line
\* that has one.
THEOREM OneTaxCode ==
  ASSUME NEW p, Mappable(p)
  PROVE  LET payload == BuildSupplierInvoicePayload(p)
         IN  \A i \in DOMAIN payload.poItems : payload.poItems[i].taxCode = HeaderTaxCode(p)
  <1> DEFINE payload == BuildSupplierInvoicePayload(p)
  <1>1. payload.poItems = [i \in DOMAIN p.poLines |-> PoItem(p, i)]
    BY DEF BuildSupplierInvoicePayload
  <1>2. ASSUME NEW i \in DOMAIN p.poLines
        PROVE  PoItem(p, i).taxCode = HeaderTaxCode(p)
    <2>1. TaxedLines(p) # {}
      BY PoLineNeedsTaxedLine
    <2>2. TaxCodeFor(p) = HeaderTaxCode(p)
      BY <2>1 DEF TaxCodeFor
    <2> QED
      BY <2>2 DEF PoItem
  <1> HIDE DEF payload
  <1>3. \A i \in DOMAIN payload.poItems : payload.poItems[i].taxCode = HeaderTaxCode(p)
    BY <1>1, <1>2
  <1> QED
    BY <1>3 DEF payload

\* Nothing is cut: every key of a payload is the posting's own and within its limit.
THEOREM NothingIsCut ==
  ASSUME NEW p, Mappable(p)
  PROVE  LET payload == BuildSupplierInvoicePayload(p)
         IN  /\ payload.number = p.number /\ payload.number.len <= 16
             /\ payload.supplier = p.supplier /\ payload.supplier.len <= 10
             /\ \A i \in DOMAIN p.poLines :
                  payload.poItems[i].po = p.poLines[i].po /\ p.poLines[i].po.len <= 10
             /\ \A i \in DOMAIN p.glLines :
                  payload.glItems[i].account = p.glLines[i].account /\ p.glLines[i].account.len <= 10
  <1> DEFINE payload == BuildSupplierInvoicePayload(p)
  <1>1. /\ payload.number = p.number /\ payload.supplier = p.supplier
        /\ payload.poItems = [i \in DOMAIN p.poLines |-> PoItem(p, i)]
        /\ payload.glItems = [i \in DOMAIN p.glLines |-> GlItem(p, i)]
    BY DEF BuildSupplierInvoicePayload
  <1>2. p.number.len <= 16 /\ p.supplier.len <= 10
    BY DEF Mappable, HeaderFits, Fits, S4FieldLimits
  <1>3. ASSUME NEW i \in DOMAIN p.poLines
        PROVE  PoItem(p, i).po = p.poLines[i].po /\ p.poLines[i].po.len <= 10
    BY DEF PoItem, Mappable, PoLineFits, Fits, S4FieldLimits
  <1>4. ASSUME NEW i \in DOMAIN p.glLines
        PROVE  GlItem(p, i).account = p.glLines[i].account /\ p.glLines[i].account.len <= 10
    BY DEF GlItem, Mappable, GlLineFits, Fits, S4FieldLimits
  <1> HIDE DEF payload
  <1>5. /\ payload.number = p.number /\ payload.number.len <= 16
        /\ payload.supplier = p.supplier /\ payload.supplier.len <= 10
        /\ \A i \in DOMAIN p.poLines :
             payload.poItems[i].po = p.poLines[i].po /\ p.poLines[i].po.len <= 10
        /\ \A i \in DOMAIN p.glLines :
             payload.glItems[i].account = p.glLines[i].account /\ p.glLines[i].account.len <= 10
    BY <1>1, <1>2, <1>3, <1>4
  <1> QED
    BY <1>5 DEF payload
=============================================================================
