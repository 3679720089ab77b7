---------------------------- MODULE Submissions -----------------------------
(***************************************************************************)
(* submit_flag (routes_participant.py) as concurrent PostgreSQL            *)
(* transactions under READ COMMITTED.  A request is one HTTP call; its     *)
(* program counter names the statement it is about to execute.  Row locks  *)
(* are taken in the order Event (FOR SHARE), User, Membership, Team,       *)
(* Challenge (FOR UPDATE), and are held until the transaction ends, so who *)
(* holds the first four is read off the program counters.                  *)
(*                                                                         *)
(* The transactions that compete with a submission hold the rows they      *)
(* change exclusively from their first read to their commit, so each of    *)
(* them is one action, enabled when no submission holds such a row.        *)
(***************************************************************************)
EXTENDS Naturals, FiniteSets

CONSTANTS
  Users, Teams, Challenges, Keys, Flags,
  Requests,               \* one element per HTTP request
  Calls,                  \* what a request may ask for
  Settings,               \* what an administrator may set a challenge to
  RegexChallenges,        \* those graded by a regex under a time limit
  NoTeam,
  MaxChallengeAttempts,   \* MAX_CHALLENGE_ATTEMPTS (limits.py)
  MaxTeamEventAttempts    \* MAX_SUBMISSIONS_PER_TEAM_EVENT (limits.py)

Setting == [flag : Flags, max_attempts : 0..MaxChallengeAttempts,
            shown : {"hidden", "scheduled", "shown", "deleted"},
            requires : SUBSET Challenges]

Refusals == {"unauthorized", "closed", "team_required", "rate_limited",
             "team_membership_changed", "challenge_not_found", "already_solved",
             "attempt_limit_reached", "lost"}

\* A row of a table is named by the request that inserted it, so a request
\* must be told apart from the refusals.
ASSUME SubmissionsAssumption ==
  /\ IsFiniteSet(Requests)
  /\ Requests \cap (Refusals \union {"none"}) = {}
  /\ Calls \subseteq [user : Users, challenge : Challenges, key : Keys, flag : Flags]
  /\ MaxChallengeAttempts \in Nat
  /\ MaxTeamEventAttempts \in Nat
  /\ Settings \subseteq Setting
  /\ NoTeam \notin Teams

VARIABLES
  pc,               \* the statement each request is about to execute
  call,             \* what each request asks for
  team,             \* the team read by the unlocked Membership query
  correct,          \* the last comparison with the challenge's flag
  ordinal,          \* the number of solves counted when awarding points
  lockedChallenge,  \* the requests that hold their Challenge row FOR UPDATE
  reply,            \* the answer: "none", a refusal, or the row it reports
  stored,           \* the requests whose Submission (and Solve) is committed
  member,           \* memberships: the team of a user
  active,           \* the users with User.active
  revoked,          \* the requests whose SessionToken is no longer valid
  state,            \* Event.state
  window,           \* the clock against Event.start_at and Event.end_at
  challenges        \* the Challenge columns that grading reads

progress == <<pc, reply>>
judgement == <<team, correct, ordinal>>
accounts == <<member, active, revoked>>
rules == <<state, window, challenges>>
vars == <<pc, call, team, correct, ordinal, lockedChallenge, reply, stored,
          member, active, revoked, state, window, challenges>>

EVENT_STATES == <<"draft", "registration", "live", "frozen", "ended", "archived">>

Labels == {"arrive", "event", "membership", "replay", "user", "member", "team",
           "judge", "challenge", "insert", "recheck", "commit", "done"}

-----------------------------------------------------------------------------
(* Who holds which row *)

\* The row that was inserted refers to its Challenge, which it therefore holds
\* FOR KEY SHARE until the transaction ends.
HoldsKeyAt == {"recheck", "commit"}
HoldsTeamAt == {"judge", "challenge", "insert", "recheck", "commit"}
HoldsMemberAt == HoldsTeamAt \union {"team"}
HoldsUserAt == HoldsMemberAt \union {"member"}
HoldsEventAt == HoldsUserAt \union {"membership", "replay", "user"}

\* Mutants: a FOR UPDATE, or the FOR SHARE, that was forgotten.
NothingLocked == TRUE
RowFree(row) == TRUE

EventFree == \A q \in Requests : pc[q] \notin HoldsEventAt

UserFree(u) == \A q \in Requests : call[q].user = u => pc[q] \notin HoldsUserAt

TeamFree(t) == \A q \in Requests : team[q] = t => pc[q] \notin HoldsTeamAt

\* Nobody holds the Challenge FOR UPDATE, and nobody FOR KEY SHARE.
ChallengeFree(c) ==
  \A q \in Requests :
     call[q].challenge = c => q \notin lockedChallenge /\ pc[q] \notin HoldsKeyAt

-----------------------------------------------------------------------------
(* What a query returns *)

Attempts(t, c) == {q \in stored : team[q] = t /\ call[q].challenge = c}

TeamAttempts(t) == {q \in stored : team[q] = t}

SolvesOf(c) == {q \in stored : correct[q] /\ call[q].challenge = c}

Solved(t, c) == \E q \in SolvesOf(c) : team[q] = t

\* The Submission with the request's team, challenge and idempotency key.
SameKey(r) == {q \in Attempts(team[r], call[r].challenge) : call[q].key = call[r].key}

Limit(c) ==
  LET own == challenges[c].max_attempts
  IN  IF own = 0 \/ own > MaxChallengeAttempts THEN MaxChallengeAttempts ELSE own

Accessible(t, c) ==
  /\ challenges[c].shown = "shown"
  /\ \A p \in challenges[c].requires : Solved(t, p)

SubmissionsOpen == state \in {"live", "frozen"} /\ window = "open"

SessionValid(r) == call[r].user \in active /\ r \notin revoked

\* What comparing the flag may say: a regex can also run out of time.
Comparison(r) ==
  LET c == call[r].challenge
  IN  (IF call[r].flag = challenges[c].flag THEN {TRUE} ELSE {FALSE})
        \union (IF c \in RegexChallenges THEN {FALSE} ELSE {})

-----------------------------------------------------------------------------
(* The steps of a request *)

Proceed(r, here, next) ==
  /\ pc[r] = here
  /\ pc' = [pc EXCEPT ![r] = next]
  /\ UNCHANGED <<call, reply, stored, accounts, rules>>

\* Mutant: a connection goes back to its pool without a rollback.
AnswerOnly(r, here, answer) ==
  /\ pc[r] = here
  /\ pc' = [pc EXCEPT ![r] = "done"]
  /\ reply' = [reply EXCEPT ![r] = answer]
  /\ UNCHANGED <<call, judgement, lockedChallenge, accounts, rules>>

\* Every answer ends the transaction, by commit or by rollback.
Answer(r, here, answer) ==
  /\ pc[r] = here
  /\ pc' = [pc EXCEPT ![r] = "done"]
  /\ reply' = [reply EXCEPT ![r] = answer]
  /\ lockedChallenge' = lockedChallenge \ {r}
  /\ UNCHANGED <<call, judgement, accounts, rules>>

Authenticate(r) ==
  \/ /\ call[r].user \in active
     /\ Proceed(r, "arrive", "event")
     /\ UNCHANGED <<judgement, lockedChallenge>>
  \/ /\ call[r].user \notin active
     /\ Answer(r, "arrive", "unauthorized")
     /\ UNCHANGED stored

\* FOR SHARE: granted at once, the exclusive holders being single actions.
LockEvent(r) ==
  \/ /\ SubmissionsOpen
     /\ Proceed(r, "event", "membership")
     /\ UNCHANGED <<judgement, lockedChallenge>>
  \/ /\ ~ SubmissionsOpen
     /\ Answer(r, "event", "closed")
     /\ UNCHANGED stored

ReadMembership(r) ==
  LET t == member[call[r].user]
  IN  \/ /\ t # NoTeam
         /\ team' = [team EXCEPT ![r] = t]
         /\ Proceed(r, "membership", "replay")
         /\ UNCHANGED <<correct, ordinal, lockedChallenge>>
      \/ /\ t = NoTeam
         /\ Answer(r, "membership", "team_required")
         /\ UNCHANGED stored

\* The unlocked look at the idempotency key, then the Redis rate limits.
CheckReplay(r) ==
  \/ /\ \E q \in SameKey(r) : Answer(r, "replay", q)
     /\ UNCHANGED stored
  \/ /\ SameKey(r) = {}
     /\ Proceed(r, "replay", "user")
     /\ UNCHANGED <<judgement, lockedChallenge>>
  \/ /\ SameKey(r) = {}
     /\ Answer(r, "replay", "rate_limited")
     /\ UNCHANGED stored

\* Mutant: the user's row is locked, the session is not looked at again.
LockUserOnly(r) ==
  /\ UserFree(call[r].user)
  /\ Proceed(r, "user", "member")
  /\ UNCHANGED <<judgement, lockedChallenge>>

\* SELECT ... FOR UPDATE, then require_user a second time under that lock.
LockUser(r) ==
  /\ UserFree(call[r].user)
  /\ \/ /\ SessionValid(r)
        /\ Proceed(r, "user", "member")
        /\ UNCHANGED <<judgement, lockedChallenge>>
     \/ /\ ~ SessionValid(r)
        /\ Answer(r, "user", "unauthorized")
        /\ UNCHANGED stored

\* Whoever changes a membership locks its User first, so this never waits.
LockMembership(r) ==
  IF member[call[r].user] = team[r]
  THEN /\ Proceed(r, "member", "team")
       /\ UNCHANGED <<judgement, lockedChallenge>>
  ELSE /\ Answer(r, "member", "team_membership_changed")
       /\ UNCHANGED stored

\* Mutant: no second look at the idempotency key.
LockTeamOnly(r) ==
  /\ TeamFree(team[r])
  /\ Proceed(r, "team", "judge")
  /\ UNCHANGED <<judgement, lockedChallenge>>

\* SELECT ... FOR UPDATE, then the second look at the idempotency key.
LockTeam(r) ==
  /\ TeamFree(team[r])
  /\ \/ /\ SameKey(r) = {}
        /\ Proceed(r, "team", "judge")
        /\ UNCHANGED <<judgement, lockedChallenge>>
     \/ /\ \E q \in SameKey(r) : Answer(r, "team", q)
        /\ UNCHANGED stored

CapsReached(r) ==
  \/ Cardinality(Attempts(team[r], call[r].challenge)) >= Limit(call[r].challenge)
  \/ Cardinality(TeamAttempts(team[r])) >= MaxTeamEventAttempts

\* Why the attempt is not graded, in the order of the code's tests.
Obstacle(r) ==
  LET c == call[r].challenge
  IN  IF ~ Accessible(team[r], c) THEN "challenge_not_found"
      ELSE IF Solved(team[r], c) THEN "already_solved"
      ELSE IF CapsReached(r) THEN "attempt_limit_reached"
      ELSE "none"

\* Reads Challenge unlocked: only a match goes on to lock the row.
Judge(r) ==
  \/ /\ Obstacle(r) # "none"
     /\ Answer(r, "judge", Obstacle(r))
     /\ UNCHANGED stored
  \/ /\ Obstacle(r) = "none"
     /\ \E match \in Comparison(r) :
          /\ correct' = [correct EXCEPT ![r] = match]
          /\ Proceed(r, "judge", IF match THEN "challenge" ELSE "insert")
     /\ UNCHANGED <<team, ordinal, lockedChallenge>>

\* Mutant: the challenge is read again without FOR UPDATE.
ReadChallenge(r) ==
  /\ \E match \in Comparison(r) : correct' = [correct EXCEPT ![r] = match]
  /\ Proceed(r, "challenge", "insert")
  /\ UNCHANGED <<team, ordinal, lockedChallenge>>

\* FOR UPDATE with populate_existing, then the comparison again.
LockChallenge(r) ==
  /\ ChallengeFree(call[r].challenge)
  /\ lockedChallenge' = lockedChallenge \union {r}
  /\ \E match \in Comparison(r) : correct' = [correct EXCEPT ![r] = match]
  /\ Proceed(r, "challenge", "insert")
  /\ UNCHANGED <<team, ordinal>>

\* The unique indexes of Submission (key) and Solve (team and challenge).
Clash(q, r) ==
  /\ team[q] = team[r] /\ call[q].challenge = call[r].challenge
  /\ \/ call[q].key = call[r].key
     \/ correct[q] /\ correct[r]

Beaten(r) == \E q \in stored : Clash(q, r)

\* What the IntegrityError handler finds after its rollback.
Winner(r) ==
  IF Solved(team[r], call[r].challenge) THEN {"already_solved"} ELSE SameKey(r)

\* The flush takes FOR KEY SHARE on the Challenge it refers to, which waits for
\* another's FOR UPDATE but for no other key share; it waits for an uncommitted
\* row it clashes with, and a committed one makes it fail.
Insert(r) ==
  /\ \A q \in lockedChallenge \ {r} : call[q].challenge # call[r].challenge
  /\ ~ \E q \in Requests : Clash(q, r) /\ pc[q] \in HoldsKeyAt
  /\ IF Beaten(r)
     THEN /\ \E answer \in Winner(r) : Answer(r, "insert", answer)
          /\ UNCHANGED stored
     ELSE /\ ordinal' = [ordinal EXCEPT ![r] =
                           IF correct[r] THEN Cardinality(SolvesOf(call[r].challenge)) + 1
                                         ELSE 0]
          /\ Proceed(r, "insert", "recheck")
          /\ UNCHANGED <<team, correct, lockedChallenge>>

\* The wall-clock gates once more; the share lock pins Event.state.
Recheck(r) ==
  \/ /\ SubmissionsOpen
     /\ Proceed(r, "recheck", "commit")
     /\ UNCHANGED <<judgement, lockedChallenge>>
  \/ /\ ~ SubmissionsOpen
     /\ Answer(r, "recheck", "closed")
     /\ UNCHANGED stored

\* The client may never see the answer of a commit that took place.
Commit(r) ==
  /\ stored' = stored \union {r}
  /\ \E answer \in {r, "lost"} : Answer(r, "commit", answer)

\* A lock_timeout, a failed query, a lost connection or a killed worker.
Abort(r) ==
  \E here \in HoldsEventAt \union {"event"} :
     Answer(r, here, "lost") /\ UNCHANGED stored

Step(r) ==
  \/ Authenticate(r)
  \/ LockEvent(r)
  \/ ReadMembership(r)
  \/ CheckReplay(r)
  \/ LockUser(r)
  \/ LockMembership(r)
  \/ LockTeam(r)
  \/ Judge(r)
  \/ LockChallenge(r)
  \/ Insert(r)
  \/ Recheck(r)
  \/ Commit(r)

-----------------------------------------------------------------------------
(* The transactions that compete with a submission *)

Untouched == UNCHANGED <<pc, call, judgement, lockedChallenge, reply, stored>>

\* update_event: a new state has to be exactly the next one.
AdvanceEvent ==
  /\ EventFree
  /\ \E i \in 1..5 : state = EVENT_STATES[i] /\ state' = EVENT_STATES[i + 1]
  /\ UNCHANGED <<accounts, window, challenges>>
  /\ Untouched

\* start_at and end_at pass, whatever locks are held.
ClockTick ==
  /\ window # "over"
  /\ window' = IF window = "before" THEN "open" ELSE "over"
  /\ UNCHANGED <<accounts, state, challenges>>
  /\ Untouched

Existing == {c \in Challenges : challenges[c].shown # "deleted"}

\* The Event row FOR UPDATE, assert_event_mutable, and the Challenge FOR UPDATE.
Editable(c) == EventFree /\ ChallengeFree(c) /\ state # "archived" /\ c \in Existing

\* Mutant: max_attempts is not validated against its upper bound.
UpdateChallengeUnchecked(c) ==
  /\ Editable(c)
  /\ \E new \in Settings :
       challenges' = [challenges EXCEPT ![c] =
                        [new EXCEPT !.max_attempts = @ + MaxChallengeAttempts]]
  /\ UNCHANGED <<accounts, state, window>>
  /\ Untouched

\* update_challenge, set_visibility and import-challenge.  The prerequisites may
\* change with attempts stored; that they form no circle is Catalogue's subject.
UpdateChallenge(c) ==
  /\ Editable(c)
  /\ \E new \in Settings :
       /\ new.requires \subseteq Existing \ {c}
       /\ challenges' = [challenges EXCEPT ![c] = new]
  /\ UNCHANGED <<accounts, state, window>>
  /\ Untouched

\* The foreign keys cascade: to the attempts, and to the prerequisites of others.
Erase(c) ==
  /\ stored' = {q \in stored : call[q].challenge # c}
  /\ challenges' = [d \in Challenges |->
                      IF d = c THEN [challenges[d] EXCEPT !.shown = "deleted"]
                      ELSE [challenges[d] EXCEPT !.requires = @ \ {c}]]
  /\ UNCHANGED <<pc, call, judgement, lockedChallenge, reply, accounts, state, window>>

\* Mutant: a challenge is deleted with the attempts made on it.
DeleteWithAttempts(c) == Editable(c) /\ Erase(c)

\* delete_challenge: refused once anybody has an attempt on the challenge.
DeleteChallenge(c) ==
  /\ Editable(c)
  /\ \A q \in stored : call[q].challenge # c
  /\ Erase(c)

\* visible_at passes, whatever locks are held.
Reveal(c) ==
  /\ challenges[c].shown = "scheduled"
  /\ challenges' = [challenges EXCEPT ![c].shown = "shown"]
  /\ UNCHANGED <<accounts, state, window>>
  /\ Untouched

InFlightOf(u) == {r \in Requests : call[r].user = u /\ pc[r] \notin {"arrive", "done"}}

\* update_user_status with active = false: every session goes with it.
Suspend(u) ==
  /\ UserFree(u)
  /\ u \in active
  /\ active' = active \ {u}
  /\ revoked' = revoked \union InFlightOf(u)
  /\ UNCHANGED <<member, rules>>
  /\ Untouched

Reactivate(u) ==
  /\ UserFree(u)
  /\ u \notin active
  /\ active' = active \union {u}
  /\ UNCHANGED <<member, revoked, rules>>
  /\ Untouched

\* change_password, and the set-password command.
RotateCredentials(u) ==
  /\ UserFree(u)
  /\ InFlightOf(u) # {}
  /\ revoked' = revoked \union InFlightOf(u)
  /\ UNCHANGED <<member, active, rules>>
  /\ Untouched

\* logout takes only the caller's session away.
LogOut(r) ==
  /\ UserFree(call[r].user)
  /\ r \in InFlightOf(call[r].user)
  /\ revoked' = revoked \union {r}
  /\ UNCHANGED <<member, active, rules>>
  /\ Untouched

\* _ensure_team_changes_open, and the lock on the acting User.
TeamChangesOpen(u) ==
  /\ state = "registration" /\ window # "over"
  /\ u \in active /\ UserFree(u)

JoinTeam(u, t) ==
  /\ TeamChangesOpen(u) /\ TeamFree(t)
  /\ member[u] = NoTeam
  /\ member' = [member EXCEPT ![u] = t]
  /\ UNCHANGED <<active, revoked, rules>>
  /\ Untouched

\* leave_team, and remove_member on behalf of the owner.
LeaveTeam(u) ==
  /\ TeamChangesOpen(u)
  /\ member[u] # NoTeam /\ TeamFree(member[u])
  /\ ~ \E q \in stored : call[q].user = u /\ team[q] = member[u]
  /\ member' = [member EXCEPT ![u] = NoTeam]
  /\ UNCHANGED <<active, revoked, rules>>
  /\ Untouched

Compete ==
  \/ AdvanceEvent
  \/ ClockTick
  \/ \E c \in Challenges : UpdateChallenge(c) \/ DeleteChallenge(c) \/ Reveal(c)
  \/ \E u \in Users : \/ Suspend(u)
                      \/ Reactivate(u)
                      \/ RotateCredentials(u)
                      \/ LeaveTeam(u)
                      \/ \E t \in Teams : JoinTeam(u, t)
  \/ \E r \in Requests : LogOut(r)

-----------------------------------------------------------------------------

Init ==
  /\ pc = [r \in Requests |-> "arrive"]
  /\ call \in [Requests -> Calls]
  /\ team = [r \in Requests |-> NoTeam]
  /\ correct = [r \in Requests |-> FALSE]
  /\ ordinal = [r \in Requests |-> 0]
  /\ lockedChallenge = {}
  /\ reply = [r \in Requests |-> "none"]
  /\ stored = {}
  /\ member \in [Users -> Teams \union {NoTeam}]
  /\ active = Users
  /\ revoked = {}
  /\ state = "registration"
  /\ window \in {"before", "open"}
  /\ challenges \in [Challenges -> Settings]
  /\ \A c \in Challenges : c \notin challenges[c].requires

Next ==
  \/ \E r \in Requests : Step(r) \/ Abort(r)
  \/ Compete

Spec == Init /\ [][Next]_vars

\* A request runs in a server thread of its own until it has an answer.
RequestsRun == \A r \in Requests : WF_vars(Step(r) /\ pc[r] # "arrive")

FairSpec == Spec /\ RequestsRun

-----------------------------------------------------------------------------
(* Properties *)

TypeOK ==
  /\ pc \in [Requests -> Labels]
  /\ call \in [Requests -> Calls]
  /\ team \in [Requests -> Teams \union {NoTeam}]
  /\ correct \in [Requests -> BOOLEAN]
  /\ ordinal \in [Requests -> Nat]
  /\ lockedChallenge \subseteq Requests
  /\ reply \in [Requests -> Requests \union Refusals \union {"none"}]
  /\ stored \subseteq Requests
  /\ member \in [Users -> Teams \union {NoTeam}]
  /\ active \subseteq Users
  /\ revoked \subseteq Requests
  /\ state \in {EVENT_STATES[i] : i \in 1..6}
  /\ window \in {"before", "open", "over"}
  /\ challenges \in [Challenges -> Setting]

(***************************************************************************)
(* submit_flag grades as if attempts were graded one at a time: whatever   *)
(* the interleaving of requests, clock and administrators, each commit     *)
(* appends one attempt that the ledger allows at that moment, with the     *)
(* number of the solve it is, and nothing else touches the ledger.         *)
(***************************************************************************)
Row(r) == [team |-> team[r], challenge |-> call[r].challenge, key |-> call[r].key,
           flag |-> call[r].flag, correct |-> correct[r], ordinal |-> ordinal[r]]

Ledger == INSTANCE SubmissionLedger WITH rows <- {Row(r) : r \in stored}

LedgerImplemented == Ledger!Spec

(***************************************************************************)
(* The handler for IntegrityError and the test for a membership changed    *)
(* under the request's feet are backstops: the row locks and the event     *)
(* state keep every request from needing them, so no attempt that passed   *)
(* its checks is turned away by them.                                      *)
(***************************************************************************)
BackstopsUnused ==
  \A r \in Requests :
    /\ pc[r] = "insert" => ~ Beaten(r)
    /\ pc[r] = "member" => member[call[r].user] = team[r]

(***************************************************************************)
(* A retry with the idempotency key of a stored attempt is never graded    *)
(* again, and is told about exactly that attempt, whoever of the team      *)
(* sends it and whatever became of the first answer.                       *)
(***************************************************************************)
GradedOnce ==
  \A r \in Requests :
    /\ pc[r] \in HoldsTeamAt => SameKey(r) = {}
    /\ reply[r] \in Requests => reply[r] \in SameKey(r)

(***************************************************************************)
(* An attempt is stored only for a user who at that moment is active, in   *)
(* a session nobody has revoked, and in the team the attempt counts for:   *)
(* suspension, credential rotation and logout wait for the attempt or      *)
(* prevent it ("an in-flight request cannot make one final submission").   *)
(***************************************************************************)
StoredByTheEntitled ==
  [][\A r \in stored' \ stored : SessionValid(r) /\ member[call[r].user] = team[r]]_vars

(***************************************************************************)
(* Every request is answered: the order in which submit_flag takes its     *)
(* locks leaves no requests waiting for each other, although no lock       *)
(* timeout is assumed to fire.                                             *)
(***************************************************************************)
AllAnswered == \A r \in Requests : pc[r] = "event" ~> pc[r] = "done"

\* What keeps a request waiting: a row that q holds, has inserted, or refers to.
WaitsFor(r, q) ==
  \/ pc[r] = "user" /\ pc[q] \in HoldsUserAt /\ call[q].user = call[r].user
  \/ pc[r] = "team" /\ pc[q] \in HoldsTeamAt /\ team[q] = team[r]
  \/ pc[r] \in {"challenge", "insert"} /\ q \in lockedChallenge \ {r}
       /\ call[q].challenge = call[r].challenge
  \/ pc[r] = "challenge" /\ pc[q] \in HoldsKeyAt /\ call[q].challenge = call[r].challenge
  \/ pc[r] = "insert" /\ pc[q] \in HoldsKeyAt /\ Clash(q, r)

(***************************************************************************)
(* Whatever set of requests one looks at, one of them waits for none of    *)
(* the others, and nobody waits for a request that has ended: requests for *)
(* rival, repeated and unrelated attempts take their rows in one order,    *)
(* the key share that an inserted attempt takes on its Challenge included. *)
(***************************************************************************)
NoCircularWait ==
  /\ \A r, q \in Requests : WaitsFor(r, q) => pc[q] \in HoldsEventAt
  /\ \A S \in SUBSET Requests :
       S # {} => \E r \in S : \A q \in S : ~ WaitsFor(r, q)

=============================================================================
