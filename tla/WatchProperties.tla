--------------------------- MODULE WatchProperties ---------------------------
(***************************************************************************)
(* What the workspace promises about the person in front of it.            *)
(***************************************************************************)
EXTENDS InboxWatch

\* "It compares step ids, not counts": a step that waits for the person signed in, for
\* as long as the tab is theirs, is announced, although polls fail, overtake each
\* other, and may each find as many steps as the one before.
Watching(s) == step[s] = "waiting" /\ me = Owner[s] /\ token = Owner[s]
EveryArrivalAnnounced == \A s \in Step : <>[]Watching(s) => <>(s \in announced)

\* "Who you are, as the server sees it": the name on the screen, or the one being asked
\* for, is that of the token every request carries.  Only the late answer to an earlier
\* submit of the sign-in form can part them.
Named  == IF me # NoUser THEN me ELSE asking
Agrees == signedIn => Named = token
NameFollowsToken == [][Agrees /\ ~Agrees' => signedIn /\ signedIn' /\ token' # token]_tvars

-----------------------------------------------------------------------------
(* What the code does not keep; see the README.                            *)

\* The screen names the account that acts: fails when Enter is pressed twice with two
\* addresses and the first answer comes last.
AlwaysAgrees == Agrees

\* The badge counts the queue of whoever is signed in: fails after a change of user,
\* until the first poll, and after a poll that was overtaken, until the next.
BadgeIsMine == signedIn /\ me # NoUser /\ seen # Unseen => waiting = Cardinality(Queue(me))

=============================================================================
