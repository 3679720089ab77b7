----------------------------- MODULE Enrolment ------------------------------
(***************************************************************************)
(* Registration (routes_auth.py) and team changes (routes_teams.py) as     *)
(* concurrent PostgreSQL transactions.  A registration locks the Event FOR *)
(* UPDATE, then its RegistrationCode; a team change locks the Event FOR    *)
(* SHARE, then User rows in the order of their ids, Memberships and a Team *)
(* FOR UPDATE.  Locks are held until the transaction ends.                 *)
(*                                                                         *)
(* What administrators do holds the rows it changes exclusively from its   *)
(* first read to its commit, so each such transaction is one action.       *)
(***************************************************************************)
EXTENDS Naturals, Sequences, FiniteSets

CONSTANTS
  Users,            \* accounts there are or may be, numbered like their ids
  Admins,           \* those with User.role = "admin", which always exist
  Codes, NoCode,    \* registration codes
  Names,            \* team names
  Requests,         \* one element per HTTP request
  Calls,            \* what a request may ask for
  FirstTeams, NoTeam,
  Worlds,           \* to begin with: [teams, member, owners, alone (without a team)]
  Submitted,        \* the users with submissions of an earlier event
  MaxUses,          \* RegistrationCode.max_uses
  MaxMembers,       \* MAX_MEMBERS_PER_TEAM (limits.py)
  MaxChanges,       \* MAX_TEAM_MUTATIONS_PER_USER_EVENT
  MaxParticipants   \* MAX_PARTICIPANT_USERS

\* A team, and an invitation to one, is named by the request that made it.
Teams == FirstTeams \union Requests

TeamKinds == {"create", "join", "rotate", "transfer", "remove", "leave"}

Call == [kind : TeamKinds \union {"register"}, user : Users, target : Users,
         invite : Teams, name : Names, code : Codes \union {NoCode}]

ASSUME EnrolmentAssumption ==
  /\ Users \subseteq Nat /\ IsFiniteSet(Users)
  /\ Admins \subseteq Users
  /\ NoCode \notin Codes
  /\ IsFiniteSet(Requests)
  /\ Calls \subseteq Call
  /\ NoTeam \notin Teams /\ FirstTeams \cap Requests = {}
  /\ \A w \in Worlds :
       /\ w.teams \subseteq FirstTeams
       /\ w.member \in [Users -> w.teams \union {NoTeam}]
       /\ w.owners \subseteq {u \in Users : w.member[u] # NoTeam}
       /\ w.alone \subseteq {u \in Users : w.member[u] = NoTeam}
       /\ \A t \in w.teams :
            LET team == {u \in Users : w.member[u] = t}
            IN  Cardinality(team) <= MaxMembers /\ \E u \in Users : team \cap w.owners = {u}
       /\ Cardinality({u \in Users : w.member[u] # NoTeam} \union w.alone) <= MaxParticipants
  /\ Submitted \subseteq Users
  /\ MaxUses \in [Codes -> Nat]
  /\ MaxMembers \in Nat \ {0} /\ MaxChanges \in Nat /\ MaxParticipants \in Nat

VARIABLES
  pc,               \* the statement each request is about to execute
  call,             \* what each request asks for
  held,             \* the User rows it holds FOR UPDATE
  seat,             \* the team of its user, or NoTeam, as read under that lock
  room,             \* the Team row it holds until its commit
  team_mode,        \* Event.team_mode as it read it with the Event lock
  gate, uses,       \* the RegistrationCode row, likewise, and its use_count
  reply,            \* its answer
  registered, active,
  revoked,          \* the requests whose credentials have changed
  member, owners,   \* the Membership table
  teams, invite,    \* the Team table: its rows and their invitations
  state, mode, access, window,   \* the Event row, and the clock against it
  codes, use_count, \* the RegistrationCode table
  history           \* the committed registrations and team changes in order

local == <<held, seat, room, team_mode, gate, uses>>
accounts == <<registered, active>>
tables == <<accounts, member, owners, teams, invite, use_count, history>>
event == <<state, mode, access, window>>
vars == <<pc, call, held, seat, room, team_mode, gate, uses, reply, registered, active, revoked,
          member, owners, teams, invite, state, mode, access, window,
          codes, use_count, history>>

Labels == {"arrive", "event", "code", "user", "seat", "name", "flush", "team",
           "commit", "done"}

-----------------------------------------------------------------------------
(* Who holds which row *)

Changes(r) == call[r].kind # "register"

HoldsEvent(r) == pc[r] \notin {"arrive", "event", "done"}

\* Mutant: register reads the Event without FOR UPDATE.
EventFreeOfChanges == \A q \in Requests : HoldsEvent(q) => ~ Changes(q)

EventFree == \A q \in Requests : ~ HoldsEvent(q)

EventNotExclusive == \A q \in Requests : HoldsEvent(q) => Changes(q)

\* Mutant: the row is selected without FOR UPDATE.
RowFree(row) == TRUE

UserFree(u) == \A q \in Requests : u \notin held[q]

TeamFree(t) == \A q \in Requests : room[q] = t => pc[q] # "commit"

CodeFree(c) == \A q \in Requests : gate[q] = c => pc[q] # "commit"

-----------------------------------------------------------------------------
(* What a query returns *)

Mates(t) == {u \in Users : member[u] = t}

Participants == registered \ Admins

NameTaken(n) == \E t \in teams \cap Requests : call[t].kind = "create" /\ call[t].name = n

\* state_allows_registration: the state, registration_at and end_at.
RegistrationOpen == state = "registration" /\ window = "open"

CodeGood(c) == access = "code" =>
  /\ c \in Codes
  /\ codes[c] = "good" /\ use_count[c] < MaxUses[c]

Admitted(r) ==
  /\ RegistrationOpen
  /\ CodeGood(call[r].code)
  /\ call[r].user \notin registered
  /\ Cardinality(Participants) < MaxParticipants

\* The audit rows of the user's team changes in this event.
ChangesOf(u) ==
  {i \in 1..Len(history) : call[history[i]].kind \in TeamKinds /\ call[history[i]].user = u}

Entitled(r) == call[r].user \in active /\ r \notin revoked

Wanted(r) ==
  IF call[r].kind \in {"transfer", "remove"} THEN {call[r].user, call[r].target}
  ELSE {call[r].user}

-----------------------------------------------------------------------------
(* The steps of a request *)

\* Every answer ends the transaction, by commit or by rollback.
Answer(r, here, answer) ==
  /\ pc[r] = here
  /\ pc' = [pc EXCEPT ![r] = "done"]
  /\ reply' = [reply EXCEPT ![r] = answer]
  /\ held' = [held EXCEPT ![r] = {}]
  /\ UNCHANGED <<call, seat, room, team_mode, gate, uses, revoked, event, codes>>

Refuse(r, here) == Answer(r, here, "refused") /\ UNCHANGED tables

Proceed(r, here, next) ==
  /\ pc[r] = here
  /\ pc' = [pc EXCEPT ![r] = next]
  /\ UNCHANGED <<call, reply, revoked, event, codes, tables>>

\* require_user, or the checks of register that come before Argon2; the rate
\* limits and Argon2 may refuse as well.
Arrive(r) ==
  LET known == IF Changes(r) THEN call[r].user \in active ELSE Admitted(r)
  IN  \/ known /\ Proceed(r, "arrive", "event") /\ UNCHANGED local
      \/ Refuse(r, "arrive")

\* _ensure_team_changes_open, or the second look of register at the event.
LockEvent(r) ==
  LET open == RegistrationOpen /\ (Changes(r) => mode = "team")
  IN  /\ IF Changes(r) THEN EventNotExclusive ELSE EventFree
      /\ \/ /\ open
            /\ team_mode' = [team_mode EXCEPT ![r] = mode]
            /\ Proceed(r, "event", IF Changes(r) THEN "user" ELSE "code")
            /\ UNCHANGED <<held, seat, room, gate, uses>>
         \/ ~ open /\ Refuse(r, "event")

\* Mutant: what was checked before Argon2 is not checked again.
LockCodeUnchecked(r) ==
  LET c == IF access = "code" THEN call[r].code ELSE NoCode
  IN  /\ c # NoCode => CodeFree(c)
      /\ gate' = [gate EXCEPT ![r] = c]
      /\ uses' = [uses EXCEPT ![r] = IF c = NoCode THEN 0 ELSE use_count[c]]
      /\ Proceed(r, "code", "commit")
      /\ UNCHANGED <<held, seat, room, team_mode>>

\* _registration_code_or_denied FOR UPDATE, the account and the seats.
LockCode(r) ==
  LET c == IF access = "code" THEN call[r].code ELSE NoCode
  IN  /\ c # NoCode => CodeFree(c)
      /\ \/ /\ Admitted(r)
            /\ gate' = [gate EXCEPT ![r] = c]
            /\ uses' = [uses EXCEPT ![r] = IF c = NoCode THEN 0 ELSE use_count[c]]
            /\ Proceed(r, "code", "commit")
            /\ UNCHANGED <<held, seat, room, team_mode>>
         \/ ~ Admitted(r) /\ Refuse(r, "code")

\* Mutant: the acting user's row first, then the target's.
ActorFirst(r) ==
  IF call[r].user \notin held[r] THEN {call[r].user} ELSE Wanted(r) \ held[r]

\* ORDER BY User.id FOR UPDATE.
NextUser(r) ==
  {u \in Wanted(r) \ held[r] : \A v \in Wanted(r) \ held[r] : u <= v}

LockUser(r) ==
  /\ \E u \in NextUser(r) :
       /\ UserFree(u)
       /\ held' = [held EXCEPT ![r] = @ \union {u}]
  /\ Proceed(r, "user", "user")
  /\ UNCHANGED <<seat, room, team_mode, gate, uses>>

\* Mutant: the session is not looked at again under the lock.
CheckLimitOnly(r) ==
  /\ Wanted(r) \subseteq held[r]
  /\ \/ /\ Cardinality(ChangesOf(call[r].user)) < MaxChanges
        /\ Proceed(r, "user", "seat")
        /\ UNCHANGED local
     \/ /\ Cardinality(ChangesOf(call[r].user)) >= MaxChanges
        /\ Refuse(r, "user")

\* The session once more, and _assert_lifetime_limit.
CheckActor(r) ==
  LET fine == Entitled(r) /\ Cardinality(ChangesOf(call[r].user)) < MaxChanges
  IN  /\ Wanted(r) \subseteq held[r]
      /\ \/ fine /\ Proceed(r, "user", "seat") /\ UNCHANGED local
         \/ ~ fine /\ Refuse(r, "user")

\* Whoever changes a membership holds its User, so this never waits.
LockMembership(r) ==
  LET t == member[call[r].user]
      starts == call[r].kind \in {"create", "join"}
  IN  \/ /\ (t = NoTeam) = starts
         /\ seat' = [seat EXCEPT ![r] = t]
         /\ Proceed(r, "seat", IF call[r].kind = "create" THEN "name" ELSE "team")
         /\ UNCHANGED <<held, room, team_mode, gate, uses>>
      \/ (t = NoTeam) # starts /\ Refuse(r, "seat")

\* create_team looks whether the name is taken, without a lock.
CheckName(r) ==
  \/ /\ ~ NameTaken(call[r].name)
     /\ Proceed(r, "name", "flush")
     /\ UNCHANGED local
  \/ NameTaken(call[r].name) /\ Refuse(r, "name")

\* The INSERT of the Team waits for one of the same name to be committed; then
\* uq_teams_name_ci makes it fail, outside the try block of create_team.
FlushTeam(r) ==
  /\ \A q \in Requests :
       call[q].kind = "create" /\ call[q].name = call[r].name => pc[q] # "commit"
  /\ \/ /\ ~ NameTaken(call[r].name)
        /\ Proceed(r, "flush", "commit")
        /\ UNCHANGED local
     \/ /\ NameTaken(call[r].name)
        /\ Answer(r, "flush", "internal_error") /\ UNCHANGED tables

\* The Team row a request asks for: by invitation, or by its membership.
RoomsFor(r) ==
  IF call[r].kind = "join" THEN {t \in teams : invite[t] = call[r].invite}
  ELSE teams \cap {seat[r]}

\* What is checked once the Team is locked.
Allowed(r, t) ==
  LET u == call[r].user
      v == call[r].target
      managed == u \in owners /\ u # v /\ member[v] = t /\ v \notin owners
  IN  CASE call[r].kind = "join" -> Cardinality(Mates(t)) < MaxMembers
        [] call[r].kind = "rotate" -> u \in owners
        [] call[r].kind = "transfer" -> managed /\ v \in active /\ v \notin Admins
        [] call[r].kind = "remove" -> managed /\ v \notin Submitted
        [] call[r].kind = "leave" ->
             /\ u \in owners => Mates(t) = {u} /\ Mates(t) \cap Submitted = {}
             /\ u \notin Submitted

LockTeam(r) ==
  \/ \E t \in RoomsFor(r) :
       /\ TeamFree(t)
       /\ \/ /\ Allowed(r, t)
             /\ room' = [room EXCEPT ![r] = t]
             /\ Proceed(r, "team", "commit")
             /\ UNCHANGED <<held, seat, team_mode, gate, uses>>
          \/ ~ Allowed(r, t) /\ Refuse(r, "team")
  \/ RoomsFor(r) = {} /\ Refuse(r, "team")

\* register goes by the mode of the Event row it has locked.
Founds(r) ==
  \/ call[r].kind = "create"
  \/ call[r].kind = "register" /\ team_mode[r] = "individual"

Dissolves(r) == call[r].kind = "leave" /\ call[r].user \in owners

\* Mutant: remove_member leaves the invitation as it is.
RotatesOnDemand(r) == call[r].kind = "rotate"

Rotates(r) == call[r].kind \in {"rotate", "remove"}

\* The rows a request adds, changes or deletes.
Commit(r) ==
  LET u == call[r].user
      v == call[r].target
      k == call[r].kind
      t == room[r]
  IN  /\ Answer(r, "commit", "ok")
      /\ member' = CASE Founds(r) -> [member EXCEPT ![u] = r]
                     [] k = "join" -> [member EXCEPT ![u] = t]
                     [] k = "leave" -> [member EXCEPT ![u] = NoTeam]
                     [] k = "remove" -> [member EXCEPT ![v] = NoTeam]
                     [] OTHER -> member
      /\ owners' = CASE Founds(r) -> owners \union {u}
                     [] k = "leave" -> owners \ {u}
                     [] k = "transfer" -> (owners \ {u}) \union {v}
                     [] OTHER -> owners
      /\ teams' = CASE Founds(r) -> teams \union {r}
                    [] Dissolves(r) -> teams \ {t}
                    [] OTHER -> teams
      /\ invite' = CASE Founds(r) -> [invite EXCEPT ![r] = r]
                     [] Rotates(r) -> [invite EXCEPT ![t] = r]
                     [] OTHER -> invite
      /\ registered' = IF Changes(r) THEN registered ELSE registered \union {u}
      /\ active' = IF Changes(r) THEN active ELSE active \union {u}
      /\ use_count' = IF gate[r] = NoCode THEN use_count
                      ELSE [use_count EXCEPT ![gate[r]] = uses[r] + 1]
      /\ history' = Append(history, r)

\* A lock_timeout, a failed query, a lost connection or a killed worker.
Abort(r) == pc[r] \notin {"arrive", "done"} /\ Refuse(r, pc[r])

Step(r) ==
  \/ Arrive(r)
  \/ LockEvent(r)
  \/ LockCode(r)
  \/ LockUser(r)
  \/ CheckActor(r)
  \/ LockMembership(r)
  \/ CheckName(r)
  \/ FlushTeam(r)
  \/ LockTeam(r)
  \/ Commit(r)

-----------------------------------------------------------------------------
(* What administrators and the clock do meanwhile *)

Untouched == UNCHANGED <<pc, call, local, reply, registered, member, owners, teams, invite,
                         use_count, history>>

\* update_event with a new state.
AdvanceEvent ==
  /\ EventFree
  /\ state' = CASE state = "draft" -> "registration" [] state = "registration" -> "live"
                [] OTHER -> state
  /\ state' # state
  /\ UNCHANGED <<mode, access, window, active, revoked, codes>>
  /\ Untouched

\* update_event with a new team_mode.
SetTeamMode ==
  /\ EventFree
  /\ Participants = {}
  /\ \A u \in Users : member[u] = NoTeam
  /\ mode' = IF mode = "team" THEN "individual" ELSE "team"
  /\ UNCHANGED <<state, access, window, active, revoked, codes>>
  /\ Untouched

\* update_event with a new registration_access_mode.
SetAccess ==
  /\ EventFree
  /\ access' = IF access = "code" THEN "open" ELSE "code"
  /\ UNCHANGED <<state, mode, window, active, revoked, codes>>
  /\ Untouched

\* registration_at and end_at pass, whatever locks are held.
ClockTick ==
  /\ window # "over"
  /\ window' = IF window = "before" THEN "open" ELSE "over"
  /\ UNCHANGED <<state, mode, access, active, revoked, codes>>
  /\ Untouched

\* create_registration_code, revoke_registration_code, and expires_at.
ChangeCode(c) ==
  /\ \/ codes[c] = "absent" /\ EventFree /\ codes' = [codes EXCEPT ![c] = "good"]
     \/ codes[c] = "good" /\ EventFree /\ codes' = [codes EXCEPT ![c] = "revoked"]
     \/ codes[c] = "good" /\ codes' = [codes EXCEPT ![c] = "expired"]
  /\ UNCHANGED <<event, active, revoked>>
  /\ Untouched

InFlightOf(u) == {r \in Requests : call[r].user = u /\ pc[r] \notin {"arrive", "done"}}

\* update_user_status.
SetStatus(u) ==
  /\ UserFree(u) /\ u \in Participants
  /\ active' = IF u \in active THEN active \ {u} ELSE active \union {u}
  /\ revoked' = IF u \in active THEN revoked \union InFlightOf(u) ELSE revoked
  /\ UNCHANGED <<event, codes>>
  /\ Untouched

\* change_password, and the set-password command.
RotateCredentials(u) ==
  /\ UserFree(u) /\ InFlightOf(u) # {} /\ u \in registered
  /\ revoked' = revoked \union InFlightOf(u)
  /\ UNCHANGED <<active, event, codes>>
  /\ Untouched

Administer ==
  \/ AdvanceEvent
  \/ SetTeamMode
  \/ SetAccess
  \/ ClockTick
  \/ \E c \in Codes : ChangeCode(c)
  \/ \E u \in Users : SetStatus(u) \/ RotateCredentials(u)

-----------------------------------------------------------------------------

Init ==
  /\ pc = [r \in Requests |-> "arrive"]
  /\ call \in [Requests -> Calls]
  /\ held = [r \in Requests |-> {}]
  /\ seat = [r \in Requests |-> NoTeam]
  /\ room = [r \in Requests |-> NoTeam]
  /\ team_mode = [r \in Requests |-> "team"]
  /\ gate = [r \in Requests |-> NoCode]
  /\ uses = [r \in Requests |-> 0]
  /\ reply = [r \in Requests |-> "none"]
  /\ \E w \in Worlds :
       /\ member = w.member /\ owners = w.owners /\ teams = w.teams
       /\ registered = Admins \union {u \in Users : w.member[u] # NoTeam} \union w.alone
  /\ active = registered
  /\ revoked = {}
  /\ invite = [t \in Teams |-> t]
  /\ state \in {"draft", "registration"}
  /\ mode \in {"team", "individual"}
  /\ mode = "individual" => Participants = {}
  /\ access \in {"open", "code"}
  /\ window \in {"before", "open"}
  /\ codes \in [Codes -> {"absent", "good"}]
  /\ use_count = [c \in Codes |-> 0]
  /\ history = <<>>

Next ==
  \/ \E r \in Requests : Step(r) \/ Abort(r)
  \/ Administer

Spec == Init /\ [][Next]_vars

-----------------------------------------------------------------------------
(* Properties *)

(***************************************************************************)
(* The type invariant, with the constraints the database has: a membership *)
(* refers to a team, and a code is not used more often than it may be.     *)
(***************************************************************************)
TypeOK ==
  /\ pc \in [Requests -> Labels]
  /\ call \in [Requests -> Calls]
  /\ held \in [Requests -> SUBSET Users]
  /\ seat \in [Requests -> Teams \union {NoTeam}]
  /\ room \in [Requests -> Teams \union {NoTeam}]
  /\ team_mode \in [Requests -> {"team", "individual"}]
  /\ gate \in [Requests -> Codes \union {NoCode}]
  /\ uses \in [Requests -> Nat]
  /\ reply \in [Requests -> {"none", "refused", "internal_error", "ok"}]
  /\ registered \subseteq Users /\ active \subseteq registered
  /\ revoked \subseteq Requests
  /\ member \in [Users -> teams \union {NoTeam}]
  /\ owners \subseteq {u \in Users : member[u] # NoTeam}
  /\ teams \subseteq Teams /\ invite \in [Teams -> Teams]
  /\ state \in {"draft", "registration", "live"}
  /\ mode \in {"team", "individual"}
  /\ access \in {"open", "code"}
  /\ window \in {"before", "open", "over"}
  /\ codes \in [Codes -> {"absent", "good", "revoked", "expired"}]
  /\ use_count \in [Codes -> Nat] /\ \A c \in Codes : use_count[c] <= MaxUses[c]
  /\ history \in Seq(Requests)

(***************************************************************************)
(* Whatever the interleaving of registrations, team changes and            *)
(* administrators, the memberships change as the roster specification      *)
(* allows: no team without its one owner, none over its size, although     *)
(* each request decides on rows it read before others committed.           *)
(***************************************************************************)
TeamRoster == INSTANCE Roster

RosterImplemented == TeamRoster!Spec

(***************************************************************************)
(* A code's use_count is the number of accounts registered with it, and    *)
(* there are never more participants than MAX_PARTICIPANT_USERS: the last  *)
(* use and the last seat go to one of the registrations that saw them free *)
(* before Argon2.                                                          *)
(***************************************************************************)
Registrations == {i \in 1..Len(history) : ~ Changes(history[i])}

SeatsAndUsesCapped ==
  /\ Cardinality(Participants) <= MaxParticipants
  /\ \A c \in Codes :
       use_count[c] = Cardinality({i \in Registrations : gate[history[i]] = c})

(***************************************************************************)
(* In individual mode every participant owns a team of one: a registration *)
(* goes by the mode it has read, which cannot change before its commit.    *)
(***************************************************************************)
IndividualsAlone ==
  mode = "individual" =>
    \A u \in Participants : u \in owners /\ Mates(member[u]) = {u}

(***************************************************************************)
(* Whoever was removed from a team comes back only with an invitation that *)
(* was made by the removal or after it ("revoking membership without       *)
(* rotating it would let the removed account immediately rejoin").         *)
(***************************************************************************)
Before(q, r) == \E i, j \in 1..Len(history) : i < j /\ history[i] = q /\ history[j] = r

RemovedStayOut ==
  \A q, r \in Requests :
    /\ call[q].kind = "remove" /\ call[r].kind = "join"
    /\ call[q].target = call[r].user /\ room[q] = room[r] /\ Before(q, r)
    => call[r].invite \notin FirstTeams /\ ~ Before(call[r].invite, q)

(***************************************************************************)
(* Nobody changes teams more than MAX_TEAM_MUTATIONS_PER_USER_EVENT times, *)
(* although the limit is counted in audit rows before the row of the       *)
(* change itself is written.                                               *)
(***************************************************************************)
ChangesCapped == \A u \in Users : Cardinality(ChangesOf(u)) <= MaxChanges

(***************************************************************************)
(* A registration or a team change is committed only while the event is in *)
(* registration, and a team change only by a user who is active and whose  *)
(* credentials have not changed since the request was admitted.            *)
(***************************************************************************)
EnrolledByTheEntitled ==
  [][\A r \in Requests :
       history' = Append(history, r)
         => state = "registration" /\ (Changes(r) => Entitled(r))]_vars

(***************************************************************************)
(* The locks are taken in an order in which requests never wait for each   *)
(* other in a circle: some request in flight can always go on.             *)
(***************************************************************************)
NobodyStuck ==
  LET flying == {r \in Requests : pc[r] \notin {"arrive", "done"}}
  IN  flying # {} => \E r \in flying : ENABLED Step(r)

\* What keeps a request waiting: a row that q holds, or has inserted.
WaitsFor(r, q) ==
  \/ pc[r] = "event" /\ HoldsEvent(q) /\ ~ (Changes(q) /\ Changes(r))
  \/ pc[r] = "code" /\ access = "code" /\ call[r].code # NoCode
       /\ pc[q] = "commit" /\ gate[q] = call[r].code
  \/ pc[r] = "user" /\ NextUser(r) \cap held[q] # {}
  \/ pc[r] = "flush" /\ call[q].kind = "create" /\ call[q].name = call[r].name
       /\ pc[q] = "commit"
  \/ pc[r] = "team" /\ pc[q] = "commit" /\ room[q] \in RoomsFor(r)

(***************************************************************************)
(* Whatever set of requests one looks at, one of them waits for none of    *)
(* the others, and nobody waits for a request that has ended: waiting      *)
(* always ends in a request that can go on.  About the canonical order of  *)
(* the locks of routes_auth.py and routes_teams.py.                        *)
(***************************************************************************)
NoCircularWait ==
  LET waiting == {r \in Requests : \E q \in Requests : WaitsFor(r, q)}
  IN  /\ \A r \in waiting, q \in Requests :
           WaitsFor(r, q) => pc[q] \notin {"arrive", "done"}
      /\ \A S \in SUBSET waiting :
           S # {} => \E r \in S : \A q \in S : ~ WaitsFor(r, q)

(***************************************************************************)
(* "App-level event locking serializes normal registration/team flows";    *)
(* the unique indexes are the defence for every other writer.              *)
(***************************************************************************)
IndexesAreBackstops == \A r \in Requests : reply[r] # "internal_error"

=============================================================================
