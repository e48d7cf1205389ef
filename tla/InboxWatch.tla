----------------------------- MODULE InboxWatch -----------------------------
(***************************************************************************)
(* One tab of the workspace: who is signed in (App.tsx, session of         *)
(* client.ts) and the watch on that person's queue (useInboxWatch.ts).     *)
(*                                                                         *)
(* Every await is a point where the tab may do something else: a sign-in   *)
(* request, GET /auth/me and each poll of the queue are therefore sent,    *)
(* answered by the server and received in separate steps, and two polls    *)
(* may be received in the opposite order.  The server answers for the      *)
(* user of the token a request was sent with.                              *)
(***************************************************************************)
EXTENDS FiniteSets, Naturals

CONSTANTS
  User,        \* accounts
  Step,        \* approval steps
  Owner,       \* Owner[s]: whom step s asks
  Poll,        \* polls that may be in flight together
  NoUser,      \* nobody
  NoAnswer,    \* a poll the server has not answered
  Unseen,      \* seen.current before the first look: null
  MaxSubmits,  \* bound on sign-in requests
  MaxLosses    \* bound on failed requests

ASSUME WatchAssumption ==
  /\ Owner \in [Step -> User] /\ NoUser \notin User
  /\ MaxSubmits \in Nat /\ MaxLosses \in Nat

VARIABLES
  step,        \* step[s]: "future", "waiting" for its owner, or "gone"
  submits,     \* sign-in requests in flight, by the account they name
  token,       \* whose token localStorage holds
  signedIn,    \* the App's state of that name
  asking,      \* whose token the GET /auth/me in flight carries
  me,          \* who the screen says is signed in
  polls,       \* polls[p]: [of, answer] of a poll the current watch waits for
  seen,        \* the step ids of the latest look
  waiting,     \* the number on the badge
  announced,   \* steps a toast has been shown for
  submitted,   \* how many sign-in requests there were
  losses       \* how many requests failed

session == <<submits, token, signedIn, asking, me, submitted>>
watch   == <<polls, seen, waiting, announced>>
tvars   == <<step, session, watch, losses>>

Idle == [of |-> NoUser, answer |-> NoAnswer]
Queue(u) == {s \in Step : step[s] = "waiting" /\ Owner[s] = u}

TabInit ==
  /\ step = [s \in Step |-> "future"]
  /\ submits = [u \in User |-> 0] /\ token = NoUser /\ signedIn = FALSE
  /\ asking = NoUser /\ me = NoUser
  /\ polls = [p \in Poll |-> Idle] /\ seen = Unseen /\ waiting = 0 /\ announced = {}
  /\ submitted = 0 /\ losses = 0

-----------------------------------------------------------------------------
(* The workflow creates steps and closes them, whatever the tab does.      *)

StepArrives(s) ==
  /\ step[s] = "future"
  /\ step' = [step EXCEPT ![s] = "waiting"]
  /\ UNCHANGED <<session, watch, losses>>

StepLeaves(s) ==
  /\ step[s] = "waiting"
  /\ step' = [step EXCEPT ![s] = "gone"]
  /\ UNCHANGED <<session, watch, losses>>

-----------------------------------------------------------------------------
(* Signing in and out.                                                     *)

\* The button is disabled while a request is in flight; Enter is not.
Submit(u) ==
  /\ ~signedIn /\ submitted < MaxSubmits
  /\ submits' = [submits EXCEPT ![u] = @ + 1] /\ submitted' = submitted + 1
  /\ UNCHANGED <<step, token, signedIn, asking, me, watch, losses>>

\* A token arrives.  The effect on [signedIn] asks who one is when it turns true;
\* an answer to an earlier submit only replaces the token.
TokenArrives(u) ==
  /\ submits[u] > 0
  /\ submits' = [submits EXCEPT ![u] = @ - 1]
  /\ token' = u /\ signedIn' = TRUE
  /\ asking' = IF signedIn THEN asking ELSE u
  /\ UNCHANGED <<step, me, watch, submitted, losses>>

SubmitFails(u) ==
  /\ submits[u] > 0 /\ losses < MaxLosses
  /\ submits' = [submits EXCEPT ![u] = @ - 1] /\ losses' = losses + 1
  /\ UNCHANGED <<step, token, signedIn, asking, me, submitted, watch>>

\* The effect on [approverId]: the watch before it stops, so what it still waits for
\* is dropped; the new one forgets what was seen and polls at once.
Watch(u) ==
  /\ seen' = Unseen
  /\ \E p \in Poll : polls' = [q \in Poll |-> IF q = p THEN [of |-> token, answer |-> NoAnswer]
                                                       ELSE Idle]
Unwatch == polls' = [p \in Poll |-> Idle] /\ UNCHANGED seen

\* The sign-in is pending until the answer; a late one is not told apart.
MeAnswers ==
  /\ asking # NoUser
  /\ me' = asking /\ asking' = NoUser
  /\ Watch(asking)
  /\ UNCHANGED <<step, submits, token, signedIn, submitted, waiting, announced, losses>>

MeFails ==
  /\ asking # NoUser /\ losses < MaxLosses
  /\ token' = NoUser /\ signedIn' = FALSE /\ asking' = NoUser /\ losses' = losses + 1
  /\ UNCHANGED <<step, submits, me, submitted, watch>>

\* Mutant: the name stays on the screen.
SignOutKeepsName ==
  /\ signedIn /\ me # NoUser
  /\ token' = NoUser /\ signedIn' = FALSE
  /\ UNCHANGED <<step, submits, asking, me, submitted, watch, losses>>

\* The button is part of the identity panel, which needs somebody to name.
SignOut ==
  /\ signedIn /\ me # NoUser
  /\ token' = NoUser /\ signedIn' = FALSE /\ me' = NoUser
  /\ Unwatch
  /\ UNCHANGED <<step, submits, asking, submitted, waiting, announced, losses>>

-----------------------------------------------------------------------------
(* The watch: a poll at once, one every 15 s, and one whenever a screen    *)
(* changed the queue.                                                      *)

PollStarts(p) ==
  /\ me # NoUser /\ polls[p] = Idle /\ token # NoUser
  /\ polls' = [polls EXCEPT ![p] = [of |-> token, answer |-> NoAnswer]]
  /\ UNCHANGED <<step, session, seen, waiting, announced, losses>>

ServerAnswers(p) ==
  /\ polls[p].of # NoUser /\ polls[p].answer = NoAnswer
  /\ polls' = [polls EXCEPT ![p].answer = Queue(polls[p].of)]
  /\ UNCHANGED <<step, session, seen, waiting, announced, losses>>

\* Mutant: counts are compared, not ids.
FreshCount(items) ==
  IF seen = Unseen \/ Cardinality(items) > Cardinality(seen) THEN items ELSE {}

Fresh(items) == IF seen = Unseen THEN items ELSE items \ seen

PollLands(p) ==
  /\ polls[p].answer # NoAnswer
  /\ LET items == polls[p].answer IN
       /\ waiting' = Cardinality(items)
       /\ announced' = announced \cup Fresh(items)
       /\ seen' = items
  /\ polls' = [polls EXCEPT ![p] = Idle]
  /\ UNCHANGED <<step, session, losses>>

\* "A failed poll is not worth a toast; the next one will catch up."
PollFails(p) ==
  /\ polls[p].of # NoUser /\ losses < MaxLosses
  /\ polls' = [polls EXCEPT ![p] = Idle] /\ losses' = losses + 1
  /\ UNCHANGED <<step, session, seen, waiting, announced>>

-----------------------------------------------------------------------------
TabNext ==
  \/ \E s \in Step : StepArrives(s) \/ StepLeaves(s)
  \/ \E u \in User : Submit(u) \/ TokenArrives(u) \/ SubmitFails(u)
  \/ MeAnswers \/ MeFails \/ SignOut
  \/ \E p \in Poll : PollStarts(p) \/ ServerAnswers(p) \/ PollLands(p) \/ PollFails(p)

TabSpec == TabInit /\ [][TabNext]_tvars

\* Requests end, and the timer ticks as long as the tab is open.
Fairness ==
  /\ WF_tvars(MeAnswers)
  /\ \A u \in User : WF_tvars(TokenArrives(u))
  /\ \A p \in Poll : WF_tvars(PollStarts(p)) /\ WF_tvars(ServerAnswers(p)) /\ WF_tvars(PollLands(p))
FairSpec == TabSpec /\ Fairness
=============================================================================
