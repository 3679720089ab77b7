---------------------------- MODULE MCEnrolment -----------------------------
(***************************************************************************)
(* Small instances of Enrolment for TLC.  Ann (1) owns the red team, bob   *)
(* (2) is in it, eve (3) has no team; dan (4) and fay (5) may register.    *)
(***************************************************************************)
EXTENDS Enrolment, TLC

CONSTANTS red, c1, x

MCUsers == 1..5
MCRequests == 1..3
Peopled == [teams |-> {red}, member |-> [u \in 1..5 |-> IF u <= 2 THEN red ELSE NoTeam],
            owners |-> {1}, alone |-> {3}]
Empty == [teams |-> {}, member |-> [u \in 1..5 |-> NoTeam], owners |-> {}, alone |-> {}]
MCWorlds == {Peopled, Empty}
MCMaxUses == c1 :> 1

Ask(kind, u, v, invitation) ==
  [kind |-> kind, user |-> u, target |-> v, invite |-> invitation, name |-> x,
   code |-> IF kind = "register" THEN c1 ELSE NoCode]

Menu ==
  <<Ask("register", 4, 4, red), Ask("register", 5, 5, red), Ask("create", 2, 2, red),
    Ask("create", 3, 3, red), Ask("rotate", 1, 1, red), Ask("leave", 1, 1, red), Ask("leave", 2, 2, red),
    Ask("transfer", 1, 2, red), Ask("transfer", 2, 1, red), Ask("remove", 1, 2, red),
    Ask("join", 2, 2, red), Ask("join", 3, 3, red)>>

\* Three lines of the menu in its order, since requests are interchangeable.
\* The invitation of a request to join is the first one or another request's.
Order ==
  \E line \in [Requests -> DOMAIN Menu], of \in [Requests -> Teams] :
    /\ line[1] <= line[2] /\ line[2] <= line[3]
    /\ \A r \in Requests :
         of[r] # red => /\ Menu[line[r]].kind = "join"
                        /\ Menu[line[of[r]]].kind \in {"create", "rotate", "remove"}
    /\ \A r \in Requests :
         Menu[line[r]].kind = "create" /\ Menu[line[r]].user = 2 =>
           \E q \in Requests : Menu[line[q]].kind = "leave" /\ Menu[line[q]].user = 2
    /\ call = [r \in Requests |-> [Menu[line[r]] EXCEPT !.invite = of[r]]]

(***************************************************************************)
(* Three team changes while the event is in registration, or registrations *)
(* with at most one change of teams, some of them in an empty event.  Bob  *)
(* creates a team only where he also leaves one.                           *)
(***************************************************************************)
Changing == \A r \in Requests : call[r].kind # "register"

MCInit ==
  /\ Order
  /\ Init
  /\ \/ /\ Changing /\ registered # {}
        /\ state = "registration" /\ window = "open" /\ mode = "team"
        /\ access = "code" /\ codes[c1] = "good"
     \/ /\ registered # {} \/ \A r \in Requests : call[r].kind = "register"
        /\ \E r \in Requests : \A q \in Requests \ {r} : call[q].kind = "register"
        /\ state = "registration" /\ window = "open" /\ codes[c1] = "good"

\* Access and codes mean nothing to team changes, and the end of the event
\* refuses them where the end of registration does.
MCNext ==
  \/ \E r \in Requests : Step(r) \/ Abort(r)
  \/ AdvanceEvent
  \/ SetTeamMode
  \/ ~ Changing /\ SetAccess
  \/ ~ Changing /\ ClockTick
  \/ \E c \in Codes : ~ Changing /\ ChangeCode(c)
  \/ \E u \in Users : SetStatus(u) \/ RotateCredentials(u)

MCSpec == MCInit /\ [][MCNext]_vars

\* Two users without a team who create one, of the same name.
TwoAlone == {[teams |-> {}, member |-> [u \in Users |-> NoTeam], owners |-> {}, alone |-> Users]}
TwoCreations == {Ask("create", u, u, red) : u \in Users}

\* At most three requests and interventions of administrators or the clock
\* together.
Interventions ==
  Cardinality(registered \ active) + Cardinality(revoked)
    + (IF state = "registration" THEN 0 ELSE 1) + (IF window = "open" THEN 0 ELSE 1)
    + (IF codes[c1] = "good" THEN 0 ELSE 1)

FewInterventions == Interventions + Cardinality({r \in Requests : pc[r] # "arrive"}) <= 3

=============================================================================
