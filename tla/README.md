# TLA+ models of CTFnight

CTFnight is a server for capture-the-flag contests: a FastAPI application
(`src/backend/src/alpha`) over PostgreSQL (READ COMMITTED, explicit row locks)
and Redis (rate limits, the scoreboard cache), with a browser client
(`src/frontend`) and operation scripts. Every request runs in a server thread of
its own and in a database transaction of its own; there are several workers.
All coordination goes through PostgreSQL rows and Redis keys, and that
coordination is what these modules are about.

Paths below are relative to `src/backend/src/alpha` unless they say otherwise.

## Inventory

| Component | State | Operations | Interacts through | What is hard |
|---|---|---|---|---|
| Flag submission (`routes_participant.py` 195-512) | `Submission`, `Solve`, `ScoreEvent` rows | `submit_flag` | row locks on Event, User, Membership, Team, Challenge; rate limits; scoreboard invalidation | retries, rival attempts, caps, moderation and event end while an attempt is graded, lock order |
| Public scoreboard (`routes_participant.py` 515-589, `services.py` 377-497, `store.py`) | payload envelope, generation counter, build lease per phase, all in Redis | `GET /scoreboard`; invalidation after a solve or an admin change | Redis; reads `Event` and `Solve` without locks | stale payloads, builders that outlive their lease, failing invalidations, the freeze |
| Event lifecycle (`routes_admin.py` 157-203, `services.py` 29-163) | `Event.state`, `freeze_at`, times | `update_event` | Event FOR UPDATE against everyone's FOR SHARE | transitions against requests in flight, wall-clock gates |
| Challenge administration (`routes_admin.py` 337-495, `cli.py` 224-300) | `Challenge`, prerequisites | create, update, delete, visibility, import | Event FOR UPDATE, Challenge FOR UPDATE | edits while attempts are graded, cycles, frozen scoring |
| User moderation (`routes_admin.py` 680-748) | `User.active`, `credential_version`, sessions | `update_user_status` | User FOR UPDATE | requests authenticated before the suspension |
| Credentials and sessions (`routes_auth.py`, `dependencies.py`, `security.py`) | password hash, `credential_version`, `SessionToken` | login, logout, change password, `set-password` | User lock, then SessionToken | verification outside the transaction, session cap |
| Registration (`routes_auth.py` 202-330, `routes_admin.py` 231-319) | `RegistrationCode`, `User`, individual teams | register, create and revoke codes | Event FOR UPDATE, code FOR UPDATE | use counts, participant limit |
| Teams (`routes_teams.py`) | `Team`, `Membership`, audit count | create, join, rotate, transfer, remove, leave | Event FOR SHARE, sorted User locks, Membership, Team | ownership, size, lifetime limit, lock order with foreign keys |
| Rate limits (`store.py` 41-186 and the `_check_*_rate` functions) | counters with a window | `check_rate` | Redis script | windows, several limits in a row |
| Scoring and prerequisites (`services.py` 294-368) | none | `dynamic_points`, `load_prerequisites` | called under locks | rounding, acyclicity |
| Journal (`services.py` 166-291) | `AuditEvent`, `OutboxEvent` | add, add coalesced | rows written in every transaction | concurrent coalescing |
| Deployment gate (`src/scripts/deployment-manifest.py`, `security-scan.sh`, `src/Makefile`) | manifest file, canonical tags, running containers | `make build`, `make up`, `make import-challenge` | one `flock`, the Docker daemon, the source tree | edits and moved tags during a gate of many minutes, failures half-way, kills |
| Browser client (`src/frontend/src/api/client.ts`) | CSRF token, its pending fetch | calls to the API | HTTP | reset against a late answer |
| Middleware, configuration, schemas, migrations, other scripts | - | - | - | not modelled, see the end |

What makes each correct: an attempt is graded exactly once, as if alone, for
somebody entitled to it, and answered; a scoreboard never hides a solve it
should show or shows one it should hide, and never stays busy; a transition of
the event is seen by everything that depends on the state; credentials that were
withdrawn give no further access; codes, seats, teams and counters respect their
limits under concurrency; team ownership survives every sequence of changes; no
sequence of edits of the challenges locks the teams out, and a final ranking
stays; nothing is deployed that no gate has approved.

## Modules

| Module | Role |
|---|---|
| `SubmissionLedger` | abstract: graded attempts are appended one at a time to a ledger that allows them |
| `Submissions` | `submit_flag`, one action per statement, and the transactions that compete with it |
| `MCSubmissions` | its instances for TLC |
| `SubmissionsProofs` | types, lock invariants, entitlement, replay, lock order, progress, what answers mean: theorems |
| `LedgerProofs` | `Submissions` implements `SubmissionLedger`; what the ledger adds up to: theorems |
| `Scoreboard` | readers, solvers and the editor of the event around the database and Redis |
| `MCScoreboard` | its instances for TLC |
| `ScoreboardProofs` | types, the lease, the generation, the freeze, stale boards: theorems |
| `Credentials` | login, logout, change of password, reset, suspension as concurrent transactions, with the session cap and the coalesced journal rows |
| `MCCredentials` | its instance for TLC |
| `CredentialsProofs` | all its properties, what answers mean and that the loop ends: theorems |
| `Roster` | abstract: memberships and owners change one at a time |
| `Enrolment` | registration and the six team changes as concurrent transactions, with what administrators and the clock do |
| `MCEnrolment` | its instances for TLC |
| `EnrolmentProofs` | all its properties but `NobodyStuck`: theorems, among them that `Enrolment` implements `Roster` |
| `Catalogue` | creation, edit, import, deletion and visibility of challenges, points and the final ranking |
| `MCCatalogue` | its instance for TLC |
| `CatalogueProofs` | all its properties, the points rule and the prerequisite check: theorems |
| `Deployment` | the security gate, its manifest, and the recipes that start containers |
| `MCDeployment` | its instance for TLC |
| `DeploymentProofs` | all its properties, the lock and the end of recipes: theorems |
| `FiniteFacts` | lemmas on finite sets and on sums over them that the proofs share |

Modules do not share variables, but what one does statement by statement another
may take as one step: `Submissions` has the whole path of an attempt and takes a
suspension or a team change as one transaction; `Credentials` and `Enrolment`
take those apart; to `Catalogue` an attempt is one step. Each of these shortcuts
rests on the row lock that the shortened transaction holds from its first read
to its commit.

### Submissions

A request has a program counter `pc` that names the statement it executes next;
a step of the model is one SQL statement (with the Python up to the next one).
The path is `arrive` (require_user), `event` (FOR SHARE and the time gates),
`membership`, `replay` (idempotency key and rate limits), `user`, `member`,
`team` (the FOR UPDATE locks and what is checked again under each), `judge`
(accessible, solved, caps, comparison), `challenge` (lock and second comparison,
only for a match), `insert`, `recheck`, `commit`, `done`.

Locks are held until the transaction ends, so who holds Event, User, Membership and
Team is a function of `pc` (`HoldsEventAt` and so on); the Challenge lock is a set
of its own, and whoever has inserted a row holds the KEY SHARE of its foreign key on
the Challenge until it ends (`HoldsKeyAt`). A transaction that changes one of these
rows takes the row exclusively before it reads anything that matters and keeps it
until its commit: it is one action, enabled when no submission holds the row. That
includes `update_event`, `update_challenge`, `delete_challenge`, `set_visibility`,
`update_user_status`, `change_password`, `logout`, `join_team`, `leave_team`,
`remove_member` and the two commands of `cli.py`. The clock is not a transaction:
`ClockTick` and `Reveal` happen whatever is locked.

Data is reduced to what the properties tell apart. A Submission row is named by
the request that inserted it. A flag is compared, never hashed; a regex
challenge may also answer "no match" to the right flag, because its matcher has a
time limit. The points of a solve are represented by its ordinal, which decides
them (`challenge_points`). `rate_limited` stands for every refusal before the
locks. `Abort` may end a transaction at any statement: lock_timeout,
statement_timeout, a lost connection, a dead worker; `Commit` may lose the answer
of a commit that took place. A challenge is edited as a whole (`Setting`): flag, cap,
visibility and prerequisites, these with or without attempts stored. That they form
no circle is the subject of `Catalogue`. A deleted challenge keeps its name and takes
nothing with it but its edges, since `delete_challenge` refuses when an attempt is
stored; `Erase` has the cascade all the same.

`Insert` waits for an uncommitted row it would clash with and for another
transaction's FOR UPDATE on the Challenge row it refers to (the foreign key needs
KEY SHARE), and models the IntegrityError handler for a committed one. In the other
direction `ChallengeFree` makes FOR UPDATE wait for everybody's KEY SHARE. Key shares
do not exclude each other.

### Scoreboard

A solver is the transaction of a correct submission from its FOR SHARE to the
last DEL after its commit; the editor is `update_event`; a reader is one GET.
Each call to Redis is a step and may fail; what fails is logged (after a commit)
or answered with 503 (in a reader), as in the code. A reader's or solver's
worker may die at any step. `Tick` advances a clock of ticks; a solve gets the
tick of its flush and is strictly later than what was stamped before. Leases and
payloads may expire at any moment, which covers any ratio between 45 s, the 1-60 s
of `scoreboard_cache_seconds` and the time a build takes.

A board is the set of solves it counts with the cutoff and the event revision it
was built from: the ranking is a function of those. `archived` is left out, where
the endpoint behaves as in `ended`. Changes to challenges also invalidate the
cache, by the steps of `BumpForEdit` and `DeleteForEdit`; a board's dependence on
challenge data is not modelled.

A reader takes the Event row (`ReadEvent`, line 517) and the time (`ReadClock`, line
520) in two steps: an edit may commit and a `freeze_at` pass between them. What it
builds carries the revision of its row. The clock also moves inside an edit, between
the checks and the commit.

### Credentials

A request goes through `arrive` (the User row is read, without a lock),
`verify` (Argon2), `lock` (User FOR UPDATE and the comparison with what was
verified; login and change_password go back to `verify` at most `MaxTries`
times), `write` (the statements under the lock) and `commit`. `users` holds the
hash as a word and a salt: a re-hash at login changes the salt alone. A session
carries the password that was given for it, which the code does not store: it is
there to say what a withdrawn password must not leave behind. `journal` has the
coalesced audit rows, of which two concurrent writers might make two. A refusal
by the Argon2 slots or a rate limit, a lost connection or a dead worker may end a
request at any statement; a commit may lose its answer. The modelled commands
are `set-password` of `cli.py` and `update_user_status`.

### Enrolment and Roster

Registrations lock the Event FOR UPDATE and look at everything a second time after
Argon2; team changes lock the Event FOR SHARE, then the User rows of everybody they
concern in the order of their ids, then Membership and Team. `pc` names the next
statement, `held` the User rows, `room` the Team row, `gate` the code, `team_mode`
the mode of the Event row it has locked: `register` goes by that. A team, and an
invitation, is named by the request that made it, so that "no older than the
removal" can be said. `history` is the sequence of committed requests: the audit
rows that the lifetime limit counts. An administrator's transaction locks the Event
or the User exclusively from its first read to its commit and is one action.
`Roster` keeps only who is in which team and who owns one.

Foreign-key locks are not modelled here: a suspension also touches the row of
the administrator who orders it, so an administrator who is in a team can meet a
team change in the other order; PostgreSQL or `lock_timeout` ends one of the two.

### Catalogue

An edit (create, update, delete, visibility of `routes_admin.py`, import-challenge
of `cli.py`) holds the Event row FOR UPDATE from `Begin` to `CommitEdit`,
`CommitDeletion` or `Abandon`; only the clock moves meanwhile, and so a scheduled
freeze can pass. The model has the checks in between: the scoring rule,
`load_prerequisites` with its walk of the stored graph, the lock on scoring,
deletion only without attempts. `dynamic_points`, with Python's and PostgreSQL's
rounding of a half to the even number, and the rank of a solve give the scores.
`visible_at` is folded into `visible` (`Submissions` has its passing). No route
writes awards.

### Deployment

A job is one run of `make`. Contents stand for their digests; `source` is one of
the contents that the deployment inputs can have, and an edit may bring an earlier
one back. A gate snapshots the source, revokes the manifest, audits, renders
the Compose graph, builds, inspects and scans each image, verifies tags and
source again and publishes; `make up` verifies a manifest or, where that fails for
whatever reason, runs a gate, starts the containers one by one and verifies what
runs; its trap stops the services when that fails, and that stop may fail or
reach some of the services only (`End`: the label `unstopped`), since the recipe
tolerates it and `compose.sh` reads the `.env` as it then is.

All take one `flock` without waiting. Its descriptor is inherited. When the shell of
a recipe is killed (`Kill`) no trap runs, and the command it waited for goes on under
the lock: `Leftover` has those whose effects others can see (revoking, building,
starting, comparing and publishing), and `detached` stands for any other. The lock is
free when that command has ended (`OrphanEnds`). `reach` holds the labels at which a
process is there to take the step.

Every command may fail (`Abort`). `Edit`, `Retag`, `Advise`, `Expire` and `Kill` are
what happens around the recipes (`Disturb`). `restored` is no state of the system: it
remembers the gates under which an edit brought back the content they began with.
`make stop`, `down` and `restart` take no lock and are left out. It is assumed that one content builds one
image. `make import-challenge` does not look at its one-off container afterwards, and
nothing is claimed of it.

## Runs

All constants that bound a run are in its `.cfg`; every run finishes.

| Run | Instance | Checks |
|---|---|---|
| `grading` | 3 requests drawn from 4 calls, 2 teammates and a rival, one regex challenge, caps of 1 and 2, crashes, event end | `LedgerImplemented`, `BackstopsUnused`, `GradedOnce`, `NoCircularWait` |
| `moderation` | 2 requests, one user, a challenge and one that requires it or comes to, all competing transactions | `TypeOK`, `LedgerImplemented`, `StoredByTheEntitled` |
| `submission_liveness` | 3 fixed requests for one solve, no symmetry | `AllAnswered` |
| `scoreboard_cache` | 2 readers, 1 solve, no edits, 2 ticks | `ServedBoardsAreFresh`, `LeaseProtectsItsOwner`, `StaleBoardsGoAway` |
| `scoreboard_freeze` | 1 reader, 1 solve, 2 edits, 3 ticks | `TypeOK`, `FreezeHidesLaterSolves`, `FrozenStandingsSettle` |
| `scoreboard_stale_event` | 1 reader, 1 edit | finds `ServedBoardsHaveCurrentEvent` violated |
| `scoreboard_freeze_race` | 2 edits, 2 ticks | finds `FreezeAtIsLocked` violated |
| `credentials` | 3 requests of one user drawn from 7 calls, 2 of 2 sessions open, 2 tries | `TypeOK`, `NoWithdrawnPassword`, `NoSessionOfTheSuspended`, `SessionsCapped`, `LoggedOut`, `JournalCounts`, `NoPasswordRestored` |
| `enrolment` | 3 requests drawn from 12 lines, a team of two and a loner or an empty event, teams of 2, 2 changes, 4 seats, a code for one | `TypeOK`, `SeatsAndUsesCapped`, `IndividualsAlone`, `RemovedStayOut`, `ChangesCapped`, `NobodyStuck`, `NoCircularWait`, `RosterImplemented`, `EnrolledByTheEntitled` |
| `enrolment_names` | 2 users create teams of one name | finds `IndexesAreBackstops` violated |
| `deployment` | 2 jobs, a built and a pinned image, 2 contents, 3 disturbances | `TypeOK`, `ApprovalStands`, `PublishedIsOfOneSource`, `NothingUnapprovedLeftRunning`, `SuccessIsExact` |
| `catalogue` | 3 challenges, 2 teams, a fixed, a dynamic and an invalid rule | `TypeOK`, `NobodyLockedOut`, `FrozenRankingIsFinal`, `SolvingPays` |

Why these sizes are enough to meet the cases. A cap of one with two attempts of a
team reaches the cap; a cap of two per event is reached over two challenges or
with a wrong flag; the third request is the rival whose solve changes the
ordinal, or the retry that arrives after the first answer was lost. Two requests
are enough in `moderation` because each competing transaction disturbs one
request at a time, and the second request exists to satisfy the prerequisite. Two
readers are a builder and the one that takes over its lease; one solve is enough
there, since the safety theorems hold for any number. Two edits are one
that moves `freeze_at` and one that enters the freeze. `grading` and
`moderation` check the same refinement against different neighbours, since all
of them at once would be out of TLC's reach; the proof below has no such split.

Three requests on one account are a victim, the one that changes the row under it
and a third that changes it back or fills the last session slot; with both slots
taken every login has to delete a session. In `enrolment` two users per scarce thing
(the last use of the code, the last seat, the place in a team, the row of an owner)
meet, the third request undoes or repeats what the first did, and the invitation of
a join is the first one or one that another request of the run makes.
`FewInterventions` allows three requests and interventions of administrators or the
clock together, and `MCNext` leaves out of the team changes what they do not depend
on (access, codes, the end of the event); requests are interchangeable, so they take
their lines of the menu in order, and bob creates a team only where he also leaves
one; the state of the event only moves on from draft to registration to live. In
`catalogue` three challenges make an indirect cycle and three solves go beyond the
decay; `FewAtOnce` keeps apart what does not meet (hidden and merely tried
challenges, points and long chains of prerequisites). In `deployment` two jobs are a
gate and the deployment it may disturb. Three disturbances (`MaxDisturbances`) are
enough to move a tag or the inputs away and back with something in between, or to
edit under a recipe that is then killed; two contents (`LastSource` = 1) are the one
a gate began with and another. The theorems below have none of these bounds.

Deadlock checking is off in every run, because requests, solves, edits
and jobs are finite in number and a behaviour in which all of them are answered
ends. `AllAnswered`, `NobodyStuck` and `NoCircularWait` are what excludes a deadlock
between requests. `NobodyStuck` says that among the team changes and registrations
in flight there is always one whose next statement need not wait (ENABLED).
`NoCircularWait` says it of the row locks: `WaitsFor` reads off the statement a
request is at which others it has to wait for, in no set of requests does
everybody wait for another of the set, and nobody waits for a request that has
not started or is answered. It is the form that can be proved, and the stronger
one, since a set of requests that wait for each other while others get on
violates it too.

`GradingArrivals` in `grading` is a state constraint that leaves out requests
that arrive before the event is live: these are refused at once.

### Fairness

`RequestsRun` is weak fairness of each request's own next step once it has
arrived: a thread of the server runs until it has an answer, and PostgreSQL
grants a lock that is free. Nothing is assumed about clients (a request need not
arrive), about administrators or about failures; `Abort` and the lock timeout
are possible but never assumed to rescue anyone. Weak fairness is enough although
requests compete for locks because there are finitely many of them.

`Expiry` is weak fairness of Redis dropping a key whose time is over. No
fairness is assumed of readers, solvers, the editor or the clock.

## Findings

* `scoreboard_stale_event`. `scoreboard` reads the Event row
  (`routes_participant.py` 517) before the generation it publishes under (562), so
  an edit of the event between the two is not noticed: a board of the old row (also
  one that shows solves later than the `freeze_at` the edit has set, or than the old
  one, if that passes before line 520 takes the time) is published under the new
  generation and served until it expires (at most `scoreboard_cache_seconds`).
  `NobodyRestoresStaleEvents` proves that no such board is made again once the
  requests that had read the event before the edit, and their payloads, are gone.
  `src/ARCHITECTURE.md` 293-294 promises that a payload that raced is not published.
* `scoreboard_freeze_race`. `update_event` checks that the freeze has not started
  (`routes_admin.py` 166) and commits later (198) without checking again; if
  `freeze_at` passes in between, the edit still moves it. `src/ARCHITECTURE.md` 272
  says `freeze_at` is locked once the freeze has started. What
  `FrozenStandingsSettle` says of a freeze by hand does not depend on it, nor does
  `FreezeHidesLaterSolves`, which compares with the `freeze_at` of the row as it is.
* `enrolment_names`. `create_team` looks for the name under the Event's FOR SHARE
  lock, which two creations hold together; the flush of the second
  (`routes_teams.py` 212) then fails on `uq_teams_name_ci` outside of the `try` that
  turns an IntegrityError into a conflict, and the request ends as 500
  `internal_error`. `models.py` 87-88 says that event locking serialises these flows
  and the indexes defend against every other writer.

Two divergences have no run. The comment at `routes_participant.py` 386 says
incorrect attempts never take the contended lock on the challenge row. Their
INSERT takes FOR KEY SHARE on that row through the foreign key and keeps it to the
commit: it waits for a correct attempt's FOR UPDATE, and a correct attempt waits for
it (`Insert`, `ChallengeFree`). The comment at `security-scan.sh` 126-128 says the
second digest closes "source/env drift during a long-running gate": it does, but for
an edit that is undone before the second digest is taken. The manifest of such a gate
may name images of the content in between, and so `PublishedIsOfOneSource` excepts
the gates in `restored`.

`FrozenRankingIsFinal` in `catalogue` is about a freeze by hand and the end of the
event: a scheduled freeze can pass between the check and the commit of an edit, as
in `scoreboard_freeze_race`.

## Proofs

`SubmissionsProofs` and `LedgerProofs` prove, for any finite set of requests and
any users, teams, challenges, settings and caps (`SubmissionsAssumption` is all
that is assumed of the constants):

| Theorem | States |
|---|---|
| `TypeCorrect` | `Spec => []TypeOK` |
| `LocksPreemptBackstops` | `Spec => []BackstopsUnused` |
| `RetriesReplay` | `Spec => []GradedOnce` |
| `OnlyTheEntitledStore` | `Spec => StoredByTheEntitled` |
| `LocksAreOrdered` | `Spec => []NoCircularWait` |
| `RequestsAdvance` | `Spec => [][\A r \in Requests : Advances(r)]_vars` |
| `GradingIsSerial` | `Spec => LedgerImplemented`, the refinement of `SubmissionLedger` |
| `LedgerAddsUp` | `Spec => []Accounts` |
| `AnswersCanBeReliedOn` | `Spec => []TrueAnswers` |
| `SomebodyCanGoOn` | `Spec => [](InFlight # {} => \E r \in InFlight : CanGoOn(r))` |

The argument has four layers, each an invariant that the next one needs:

1. `LockInv`: the row locks exclude. Holding the Event row pins the state to
   live or frozen; two requests never hold the same User, Team or Challenge; a
   request about to insert a correct attempt holds its Challenge.
2. `EntitledInv`: under its User lock a request's session is valid, and the team
   it read without a lock is its user's team. The second half needs no lock: team
   changes are closed whenever a request holds the Event row.
3. `RowInv`: under the Team lock nothing stored has the request's key, and from
   the judgement on its team has not solved the challenge; only the holder of a
   Team row can store an attempt of that team. `GradedOnce` and
   `BackstopsUnused` follow.
4. `GradeInv`: what the judgement found still holds at the commit. No obstacle
   arises, since the caps and solves of the team are under the Team lock and the
   challenge is only edited when nobody holds the Event row; the flag matched
   under the Challenge lock is the challenge's flag; the counted ordinal is the
   next one, since another solve of the challenge would need its lock. Stored
   attempts do not clash, so the ledger's rows are the stored attempts one for
   one and the cardinalities agree (`RowsAreAttempts`).

`GradingIsSerial` then maps a commit to `Append` (`CommitAppends`) and every other
step to a stutter of the ledger (`OthersKeepLedger`).

`LedgerAddsUp` draws the sums from the same invariant. `Accounts` says that the
solves of a challenge have the places 1, 2, 3 and so on, each once, and belong to
different teams (`PlacesExact`), and that no team has more attempts stored than
`MAX_CHALLENGE_ATTEMPTS` for a challenge and `MAX_SUBMISSIONS_PER_TEAM_EVENT` in
all, although an administrator may move a challenge's own limit up and down
between them (`CapsKept`). A commit takes the next place and finds room under both
caps, because `GradeInv` says so at that moment; a deletion takes no attempt with it
(`DeletionKeepsRows`). Nothing of this kind holds of prerequisites: an administrator may
add one to a challenge that has been solved. They are tested when an attempt is graded,
which is what the ledger says.

`LocksAreOrdered` needs only the types and `LockInv`. A request that waits does so
for one that is further on (`WaitsForward`): at `user` for one past it, at `team`
for one past that, at `challenge` and `insert` for one that holds its Challenge, for
update or in key share, or has an uncommitted row it clashes with. Whoever is past
`insert` waits for nothing. `challenge` and `insert` can wait for `insert`, but only for
the holder of a Challenge, which waits for nobody but a request past it.
So a set in which everybody waits has nobody at `insert` with its Challenge, then
nobody at `challenge` or `insert`, then nobody at `team`, then nobody.

`RequestsAdvance` is the other safety half of `AllAnswered`: every step of a request
leads to a later statement (`Stage`), no other transaction moves it, its row is
stored by its commit alone, and an answer stays. `SomebodyCanGoOn` is the third: of
the requests in flight there is one that waits for none, by `NoCircularWait`, and
nothing but those `WaitsFor` names can keep it from its next statement
(`WaitingIsAll`). `CanGoOn` is the guards of the statements; TLC found it equal to
ENABLED for every request in flight of the instance of `grading`.

`AnswersCanBeReliedOn` is what a client may conclude (`TrueAnswers`): a refusal has
cost no attempt, a reported attempt is stored under the key that was sent, and
"already solved" is said only to a team that has the solve, whichever of the
judgement, the IntegrityError handler or the rows found after the rollback said it.

`ScoreboardProofs` proves, for any number of readers and solves and any bounds
(`ScoreboardAssumption`), with a clock that moves between any two steps:

| Theorem | States |
|---|---|
| `TypeCorrect` | `Spec => []TypeOK` |
| `LeaseExcludes` | `Spec => []LeaseProtectsItsOwner` |
| `PublishedBoardsAreComplete` | `Spec => []ServedBoardsAreFresh` |
| `StandingsBecomeFinal` | `Spec => FrozenStandingsSettle` |
| `FreezeHides` | `Spec => []FreezeHidesLaterSolves` |
| `NobodyRestoresStaleBoards` | `Spec => [](OnRecord(s) => []OnRecord(s))`, for each solve |
| `NobodyRestoresStaleEvents` | `Spec => [](Known(v) => []Known(v))`, for each revision |

* `TypeOK` needs `DraftInv`: the row `update_event` is about to commit has a
  `freeze_at` that has passed unless the event stays live, and it keeps the
  `freeze_at` of a frozen event. A TLC run sees this only for the few ticks it has.
* `LeaseProtectsItsOwner` is inductive given the types. The one thing that
  matters is that a reader takes a lease only when it is free and releases one
  only when it is its own (`LeaseTaken`).
* `ServedBoardsAreFresh` is about the cache alone and says nothing of builders, so
  it is strengthened twice. `CommitInv`: a solve's INCR comes after its commit.
  `GenerationInv`: nobody knows a generation that is still to come, and a board
  built under the generation that is still current covers every solve whose INCR
  has been executed, in its builder's hands as well as in the cache. A later INCR
  makes all existing boards ones of an earlier generation (`Increments`). The
  lease plays no part in the argument: it saves work, the generation protects.
* `FrozenStandingsSettle` has two halves. Once `freeze_at` has passed, a new solve is
  stamped later than it (`SettlesStep`): so the standings behind the freeze gain only
  the solves that were in flight, and of these there are never more. That is all
  that can be said of a scheduled freeze, which waits for nobody. A freeze by hand
  rests on `FreezeInv` too: a solve in flight while the event is frozen by hand is
  later than `freeze_at`, because the edit that froze it waited for the share locks of
  the solves flushed before; so these standings do not change at all.
* `FreezeHidesLaterSolves` speaks of payloads built from the Event row as it is. A
  revision has one row, since `update_event` counts it up under its lock
  (`RevisionInv`), so what a reader holds of the current revision is the current row
  (`Current`), however long ago it was read. A reader that finds its row frozen, at
  whatever instant, cuts at the `freeze_at` of that row, and no other files a payload
  as frozen (`RowInv`); a board shows only committed solves up to its cutoff
  (`BoardInv`). No assumption about the clock or about moved freezes is needed. For
  payloads of an older row nothing of the kind holds (`scoreboard_stale_event`); what
  holds is `NobodyRestoresStaleEvents`.
* `NobodyRestoresStaleBoards` is the safety half of `StaleBoardsGoAway`. A solve is
  `OnRecord` when it is committed and no board lacks it, neither a cached one nor one
  in a builder's hands. A builder reads the committed solves in one statement, so
  no new board lacks the solve, and what a builder publishes or carries on is a
  board that was there before (`ReaderCarries`). What remains for fairness is that
  the boards there were at the commit go: cached ones expire, and a builder publishes
  its board once at most. `NobodyRestoresStaleEvents` is the same for a revision of
  the event that every reader and every board has reached (`Known`).

`CredentialsProofs` proves all seven properties of `Credentials` for any users,
passwords, requests and limits: `TypeCorrect`, `PasswordsAreWithdrawn`,
`SuspensionsLockOut`, `SessionsAreCapped`, `LogoutsLast`, `JournalIsExact` and
`PasswordsStayReplaced`. The invariant says of the tables that every session was
opened with its user's current password and that its user is active (`Current`),
which is stronger than the properties and true because every change of either
deletes all sessions; and of each request between its lock and its commit, that
what it read is still so (`Relied`): the row, the password it verified, the
sessions it will delete, the room it has found, the journal row it will replace.
`Exclusive` (one request per User row) is why it is still so, and `OthersStay` says
it once for all steps.

Two more theorems are about the loop of `login` and `change_password`.
`RequestsAdvance`: each step leads to a later statement or uses up one of the
`MaxTries` rounds, so the loop ends whatever the others do. `AnswersMeanWhatTheySay`:
a refusal has stored nothing, a success is committed, and `credential_changed` is
said only to a request that lost to `MaxTries` committed transactions which wrote a
new hash, `Rehashers`. For that, each round is charged to a commit of its own
(`RoundsLost`): a hash that differs from the one that was read has a commit that is
not charged yet, since the set of `Rehashers` grows with every change of the hash
(`RehashersGrow`).

`EnrolmentProofs` proves, for any users, teams, codes, limits and requests, and any
well-formed world to begin with (`EnrolmentAssumption`):

| Theorem | States |
|---|---|
| `TypeCorrect` | `Spec => []TypeOK` |
| `TeamsFollowTheRoster` | `Spec => RosterImplemented`, the refinement of `Roster` |
| `SeatsAndUsesStayCapped` | `Spec => []SeatsAndUsesCapped` |
| `IndividualsStayAlone` | `Spec => []IndividualsAlone` |
| `RemovalsLast` | `Spec => []RemovedStayOut` |
| `ChangesStayCapped` | `Spec => []ChangesCapped` |
| `OnlyTheEntitledEnrol` | `Spec => EnrolledByTheEntitled` |
| `LocksAreOrdered` | `Spec => []NoCircularWait` |
| `RequestsAdvance` | `Spec => [][\A r \in Requests : Advances(r)]_vars` |
| `SomebodyCanGoOn` | `Spec => [](InFlight # {} => \E r \in InFlight : CanGoOn(r))` |
| `TeamsStayInForm` | `Spec => []TeamsInForm` |

The invariant has the same shape. `Exclusive`: a registration in flight is alone,
and no two requests hold a User or a Team. `Seated`, `Roomed` and `Welcome`: what a
request has read under its locks is still so at its commit. `People`: every team
has members, one owner and its size; `Past`: a request is in the history once,
and the invitation of a team is no older than the last removal from it. A step
that only reads keeps all of it (`ReadingStep`). A commit is put into one of seven
forms (`CommitCases`); it touches only the users it holds and its own team
(`CommitApart`), so the others keep what they rely on (`CommitOthers`); it is a step
of the roster (`CommitIsRosterStep`), and steps of the roster keep teams in form
(`RosterKeepsForm`).

For `LocksAreOrdered` one invariant comes on top, `Ordered`: while a request locks
users, those it holds come before those it still wants. Whoever waits, waits for a
request at its commit, or at `user` for one that holds the very row it wants next,
or at `event` for one past it (`WaitsForward`). In a set in which everybody waits
somebody is at `user`; of those, take the one that wants the greatest id next:
whoever holds that row wants a greater one still (`NoCircle`). `RequestsAdvance` says
that each step leads to a later statement or locks one user more of the two there
are at most. `SomebodyCanGoOn` is `NobodyStuck` with ENABLED spelled out: `CanGoOn` is
what the next statement of a request asks of the locks, which TLC found equal to
ENABLED for every request in flight of the instance of `enrolment`. While a request
has users left to lock, one of them is next (`SomeoneIsNext`), and whoever waits for
nobody can go on (`WaitingIsAll`).

`TeamsStayInForm` puts what `Roster` promises, and what it leaves open, as a state
predicate: whoever is in a team is registered, and no team of the table is empty,
ownerless, owned twice or over its size.

`DeploymentProofs` proves all five properties of `Deployment`, and two theorems
more, for any images, jobs, contents and numbers of disturbances:

| Theorem | States |
|---|---|
| `TypeCorrect` | `Spec => []TypeOK` |
| `ApprovalsStand` | `Spec => []ApprovalStands` |
| `ManifestsAreConsistent` | `Spec => PublishedIsOfOneSource` |
| `UnapprovedIsStopped` | `Spec => []NothingUnapprovedLeftRunning` |
| `SuccessesAreExact` | `Spec => SuccessIsExact` |
| `LockIsNeverLeft` | `Spec => []LockIsHeld` |
| `RecipesEnd` | `Spec => [][\A j \in Jobs : Advances(j)]_vars` |

The invariant says of the world what a manifest in force vouches for (`Approving`) and
that what runs is cleared unless some recipe is in the middle of a start, was killed
there or has failed to stop it (`LeftClean`); and of a job in the middle of its recipe,
or of what is left of it, that it holds the lock, that what its gate has inspected is
there and, if nobody has restored its snapshot and the inputs still are what it began
with, of that snapshot (`Gated`), and that the manifest it has read is the one in force
(`Read`). An edit that leaves the snapshot ends `Undisturbed`, and only one that
restores it could bring it back: that is why `restored` is remembered.

Three things are said with their exceptions. Of a gate under which an edit was undone
nothing is claimed about the one source of its manifest. After a kill in the middle of
a start, or a stop that failed, nothing is claimed about what runs. And the lock is
given up with the last process of a recipe: `LockIsHeld` says that whoever is at work
holds it and that it is held only by a recipe at work or by a command that a killed
one has left behind (`Kept`).

`RecipesEnd` orders the parts of a recipe, a verification by what it is
for (`Rank`): each step leads to a later part or takes one image off the list of a
loop. So a recipe ends after a bounded number of its steps, `make up` falls back
to a gate once, and the lock is free again when its last process has ended.

`CatalogueProofs` proves all four properties of `Catalogue`, for any challenges,
teams and scoring rules:

| Theorem | States |
|---|---|
| `TypeCorrect` | `Spec => []TypeOK` |
| `CatalogueStaysOpen` | `Spec => []NobodyLockedOut` |
| `RankingIsFinal` | `Spec => FrozenRankingIsFinal` |
| `SolvesPay` | `Spec => SolvingPays` |
| `PrerequisiteCheckIsExact` | `Spec => []` for any challenge and `ids`: `LoadPrerequisites` accepts `ids` iff they exist and the graph with them has no cycle |
| `PointsFollowTheRule` | for any valid rule and numbers of solves: the values of `challenge_points` |

* `NobodyLockedOut`: a prerequisite graph is well-founded if every set of challenges
  has one without prerequisites in the set; an edit is checked against the stored
  graph, which nothing changes until it commits (`Checked`), and new edges from a
  challenge that none of them reaches leave the graph well-founded (`NewEdges`).
  `PrerequisiteCheckIsExact` has the converse too: if the challenge is reached from one
  of `ids`, the challenges bound to it have none without a prerequisite among them, so
  the check refuses nothing that would do no harm.
* `FrozenRankingIsFinal` needs that what `assert_scoring_mutable` and
  `delete_challenge` found still holds at the commit of the edit (`Locked`): the
  state of the event cannot have changed under its lock, and a challenge that is
  deleted has no solves. Then nothing a score is computed from moves
  (`FrozenInputs`), and a function of the same inputs is the same (`SameInputs`).
* `SolvingPays` is arithmetic. `Round` is Python's and PostgreSQL's: the nearest
  integer, a half to the even one (`RoundExact`), and therefore monotone
  (`RoundMonotone`); so more solves never raise the points of a challenge
  (`PointsFall`, `WorthFalls`), which stay between minimum and initial and have
  come down to the minimum after `decay` solves (`PointsFollowTheRule`), and the
  solver gains a positive number for what it had nothing for. A sum of terms
  each of which falls or stays, with one new positive term, is what
  `SumMonotone` and `SumAdd` are about: the solver's other solves are of other
  challenges and keep their worth.

`FiniteFacts` has what these proofs share. Induction over the subsets of a finite set
takes an operator as a parameter in the library and cannot be used, but its
first-order form can: the strict-subset relation is well-founded, so a set of
counterexamples has a least one (`LeastSubset`). From that follow the greatest
element of a finite set of integers (`GreatestElement`, used for the order of
the User rows) and what `SumFunction` of the community modules computes
(`SumsExist` and `SumsUnique` for its recursion, `SumAdd`, `SumMonotone`). That is
why `Score` is written with `SumFunction` and not with a RECURSIVE operator.

Every invariant and action property that a passing run checks is also a theorem, but
for `NobodyStuck`, which speaks of ENABLED; `NoCircularWait` and `SomebodyCanGoOn` are its
provable counterparts. Only model-checked, too: `AllAnswered` and `StaleBoardsGoAway`,
which hold under fairness and are out of the prover's reach; for both the theorems
above leave to the runs just that what may happen and has to happen happens.

## Not modelled

* Middleware (`main.py`), configuration, schemas and error texts treat one request
  or value and keep no shared state. Migrations define data.
* Rate limits are a possible refusal in every module that has them; their windows
  and counters (a Redis script that is atomic by itself) are not modelled.
* The journal is modelled where it can go wrong, in its coalesced rows; plain rows
  are only appended, and nothing in the repository reads the outbox.
* `bootstrap` and `seed-demo` of `cli.py` run on an empty database, before there is
  anybody to disturb.
* Of the scripts, backup, recovery of roles and of an administrator's password and
  `validate-compose-security.py` are sequential and keep nothing between runs;
  `compose.sh` wraps a command.
* That an abandoned build lease goes away is Redis's expiry and nothing else; no
  property repeats that assumption.
* Of the outbox rows, that of `add_coalesced_outbox` would go like `journal`.
* A payload cached before an import-challenge that changes points is served until
  it expires, since the command does not increment the generation; `Scoreboard` has
  no challenge data. `total_entries` of the public scoreboard comes from a second
  statement under READ COMMITTED and may disagree with the entries by a solve
  that commits in between.
* Pages of the browser client are presentation; the single-flight CSRF token of
  `client.ts` is small and not modelled yet.
* SQLite, used by the unit tests, ignores row locks; the models are of PostgreSQL.
* Names, descriptions, categories and the order of the event's four times are data
  that no property here depends on.

## Plan

Done: `Submissions` with `SubmissionLedger`, `Scoreboard`, `Credentials`, `Enrolment`
with `Roster`, `Catalogue` and `Deployment`, each with its proofs.

Left, in this order:

1. `LockOrder`: PostgreSQL's lock modes with foreign-key KEY SHARE on all rows, as
   `Submissions` has it on the Challenge, across submissions, team changes,
   moderation and update_event; freedom from deadlock as a ranking of the rows, for
   any number of requests.
2. `RateLimit` and `CsrfClient`, small machines of their own.
