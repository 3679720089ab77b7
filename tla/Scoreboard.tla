----------------------------- MODULE Scoreboard -----------------------------
(***************************************************************************)
(* The public scoreboard: what the database says, what Redis remembers of  *)
(* it, and the requests between them.  Solvers are the transactions of     *)
(* correct submissions, the editor is update_event, and a reader is one    *)
(* GET /scoreboard.  Every call to the store is a step of its own and can  *)
(* fail; a worker can die between any two steps.                           *)
(*                                                                         *)
(* Timestamps are ticks of one clock.  Rows are reduced to what a board    *)
(* depends on: a solve to its solved_at, the event to its state, freeze_at *)
(* and a revision number for everything else an edit may change.           *)
(***************************************************************************)
EXTENDS Naturals, FiniteSets

CONSTANTS
  Readers, Solvers,
  Free,              \* no reader holds the lease, no payload is cached
  MaxTime,           \* bound: the last tick of the clock
  MaxEdits           \* bound: how often update_event succeeds

ASSUME ScoreboardAssumption ==
  /\ MaxTime \in Nat /\ MaxEdits \in Nat
  /\ Free \notin Readers

Time == 0..MaxTime
Never == MaxTime + 1     \* freeze_at IS NULL: later than every instant
Phases == {"live", "frozen", "final"}

VARIABLES
  clock,
  event,         \* the committed Event row
  solved_at,     \* Solve.solved_at, set when the row is flushed
  committed,     \* the solvers whose transaction has committed
  solver,        \* what each solver is about to do
  editor,        \* what update_event is about to do
  draft,         \* the row update_event is about to commit
  generation,    \* scoreboard:<event>:generation
  cache,         \* scoreboard:<event>:public:<phase>
  lease,         \* scoreboard:<event>:build:<phase>
  bumped,        \* the solvers whose INCR has been executed
  announced,     \* the last revision whose INCR has been executed
  lapsed,        \* the readers whose lease has run out
  reader,        \* what each reader is about to do
  seen           \* what each reader has read and built

database == <<clock, event, solved_at, committed>>
readers == <<reader, seen>>
redis == <<generation, cache, lease, lapsed>>
vars == <<clock, event, solved_at, committed, solver, editor, draft, generation, cache,
          lease, bumped, announced, lapsed, reader, seen>>

-----------------------------------------------------------------------------
(* The rules of services.py *)

IsFrozen(e, now) == e.state = "frozen" \/ (e.state = "live" /\ e.freeze_at <= now)

\* scoreboard_freeze_locked: the freeze can no longer be moved.
FreezeLocked(e, now) == IsFrozen(e, now) \/ e.state = "ended"

\* Mutant: one cache key for all phases.
OnePhase(e, now) == "live"

Phase(e, now) ==
  IF e.state = "ended" THEN "final" ELSE IF IsFrozen(e, now) THEN "frozen" ELSE "live"

Cutoff(e, now) == IF IsFrozen(e, now) THEN e.freeze_at ELSE Never

\* public_scoreboard: the ranking is a function of the solves it counts.
Board(revision, cutoff) ==
  [revision |-> revision, cutoff |-> cutoff,
   solves |-> {s \in committed : solved_at[s] <= cutoff}]

-----------------------------------------------------------------------------
(* A correct submission, from its Event FOR SHARE on *)

\* Mutant: a submission that reads its Event row without FOR SHARE.
NothingShared == FALSE

ShareHeld == \E s \in Solvers : solver[s] \in {"insert", "commit"}

LockEvent(s) ==
  /\ solver[s] = "lock" /\ editor # "commit"
  /\ event.state \in {"live", "frozen"}
  /\ solver' = [solver EXCEPT ![s] = "insert"]
  /\ UNCHANGED <<database, editor, draft, bumped, announced, redis, readers>>

\* Mutant: a solve is stamped with the moment its request arrived.
InsertAsArrived(s) ==
  /\ solver[s] = "insert"
  /\ \E arrival \in 0..clock : solved_at' = [solved_at EXCEPT ![s] = arrival]
  /\ solver' = [solver EXCEPT ![s] = "commit"]
  /\ UNCHANGED <<clock, event, committed, editor, draft, bumped, announced, redis, readers>>

\* utcnow() is later than every timestamp taken before.
InsertSolve(s) ==
  /\ solver[s] = "insert" /\ clock < MaxTime
  /\ clock' = clock + 1
  /\ solved_at' = [solved_at EXCEPT ![s] = clock + 1]
  /\ solver' = [solver EXCEPT ![s] = "commit"]
  /\ UNCHANGED <<event, committed, editor, draft, bumped, announced, redis, readers>>

CommitSolve(s) ==
  /\ solver[s] = "commit"
  /\ committed' = committed \union {s}
  /\ solver' = [solver EXCEPT ![s] = "bump"]
  /\ UNCHANGED <<clock, event, solved_at, editor, draft, bumped, announced, redis, readers>>

\* An INCR or a DEL that fails is logged and the next one is tried.
BumpForSolve(s) ==
  /\ solver[s] = "bump"
  /\ solver' = [solver EXCEPT ![s] = "delete"]
  /\ \/ generation' = generation + 1 /\ bumped' = bumped \union {s}
     \/ UNCHANGED <<generation, bumped>>
  /\ UNCHANGED <<database, editor, draft, announced, cache, lease, lapsed, readers>>

\* Each of the three DELs, "live", "frozen" and "final", may fail.
DropPayloads ==
  \E dropped \in SUBSET Phases :
    cache' = [phase \in Phases |-> IF phase \in dropped THEN Free ELSE cache[phase]]

DeleteForSolve(s) ==
  /\ solver[s] = "delete"
  /\ solver' = [solver EXCEPT ![s] = "done"]
  /\ DropPayloads
  /\ UNCHANGED <<database, editor, draft, bumped, announced, generation, lease, lapsed, readers>>

\* A rollback before the commit, or a worker that dies after it.
AbandonSolve(s) ==
  /\ solver[s] \notin {"lock", "done"}
  /\ solver' = [solver EXCEPT ![s] = "done"]
  /\ solved_at' = IF s \in committed THEN solved_at ELSE [solved_at EXCEPT ![s] = 0]
  /\ UNCHANGED <<clock, event, committed, editor, draft, bumped, announced, redis, readers>>

-----------------------------------------------------------------------------
(* update_event *)

\* Mutant: entering the freeze leaves freeze_at as it is.
EditedAsAsked(state, freeze_at) ==
  [state |-> state, freeze_at |-> freeze_at, revision |-> event.revision + 1]

\* values["state"] and values["freeze_at"]; entering the freeze pulls a later
\* freeze_at back to the present.
Edited(state, freeze_at) ==
  [state |-> state,
   freeze_at |-> IF state = "frozen" /\ freeze_at > clock THEN clock ELSE freeze_at,
   revision |-> event.revision + 1]

Transitions == {<<"live", "live">>, <<"live", "frozen">>, <<"frozen", "frozen">>,
                <<"frozen", "ended">>, <<"ended", "ended">>}

\* Event FOR UPDATE, granted once no share lock is held, and every check.
BeginEdit ==
  /\ editor = "idle" /\ ~ ShareHeld
  /\ event.revision < MaxEdits
  /\ \E state \in {"live", "frozen", "ended"}, freeze_at \in Time \union {Never} :
       /\ <<event.state, state>> \in Transitions
       /\ freeze_at # event.freeze_at => ~ FreezeLocked(event, clock)
       /\ draft' = Edited(state, freeze_at)
  /\ editor' = "commit"
  /\ UNCHANGED <<database, solver, bumped, announced, redis, readers>>

CommitEdit ==
  /\ editor = "commit"
  /\ event' = draft
  /\ editor' = "bump"
  /\ UNCHANGED <<clock, solved_at, committed, solver, draft, bumped, announced, redis, readers>>

BumpForEdit ==
  /\ editor = "bump"
  /\ editor' = "delete"
  /\ \/ generation' = generation + 1 /\ announced' = event.revision
     \/ UNCHANGED <<generation, announced>>
  /\ UNCHANGED <<database, solver, draft, bumped, cache, lease, lapsed, readers>>

DeleteForEdit ==
  /\ editor = "delete"
  /\ editor' = "idle"
  /\ DropPayloads
  /\ UNCHANGED <<database, solver, draft, bumped, announced, generation, lease, lapsed, readers>>

AbandonEdit ==
  /\ editor # "idle"
  /\ editor' = "idle"
  /\ draft' = event
  /\ UNCHANGED <<database, solver, bumped, announced, redis, readers>>

-----------------------------------------------------------------------------
(* GET /scoreboard *)

\* What a reader makes of the Event row it holds, once it has its instant.
View(row, now) ==
  [row |-> row, phase |-> Phase(row, now), cutoff |-> Cutoff(row, now),
   known |-> 0, board |-> Free]

\* What it knows before it has read anything, and after its answer.
Nothing == [row |-> [state |-> "live", freeze_at |-> 0, revision |-> 0],
            phase |-> "live", cutoff |-> 0, known |-> 0, board |-> Free]

PhaseOf(r) == seen[r].phase

Hit(r) == cache[PhaseOf(r)] # Free /\ cache[PhaseOf(r)].generation = seen[r].known

\* All that matters to a reader once it only has its lease to release.
Settled(r) == [seen EXCEPT ![r] = [Nothing EXCEPT !.phase = PhaseOf(r)]]

Goto(r, next) ==
  /\ reader' = [reader EXCEPT ![r] = next]
  /\ UNCHANGED <<database, solver, editor, draft, bumped, announced>>

Finish(r) ==
  /\ Goto(r, "done")
  /\ seen' = [seen EXCEPT ![r] = Nothing]
  /\ lapsed' = lapsed \ {r}
  /\ UNCHANGED <<generation, cache>>

\* current_event without a lock.
ReadEvent(r) ==
  /\ reader[r] = "event"
  /\ seen' = [seen EXCEPT ![r].row = event]
  /\ Goto(r, "clock")
  /\ UNCHANGED redis

\* Mutant: the phase and the cutoff are those of two different instants.
ReadClockTwice(r) ==
  /\ reader[r] = "clock"
  /\ \E later \in clock..MaxTime :
       seen' = [seen EXCEPT ![r] =
                  [View(@.row, clock) EXCEPT !.phase = Phase(seen[r].row, later)]]
  /\ Goto(r, "counter")
  /\ UNCHANGED redis

\* utcnow(), by when the row may have been replaced and its freeze begun.
ReadClock(r) ==
  /\ reader[r] = "clock"
  /\ seen' = [seen EXCEPT ![r] = View(@.row, clock)]
  /\ Goto(r, "counter")
  /\ UNCHANGED redis

(***************************************************************************)
(* get_counter followed by get_json occurs three times: before the lease,  *)
(* after losing it, and after winning it.                                  *)
(***************************************************************************)
GetCounter(r) ==
  /\ \/ reader[r] = "counter" /\ Goto(r, "json")
     \/ reader[r] = "lost counter" /\ Goto(r, "lost json")
     \/ reader[r] = "own counter" /\ Goto(r, "own json")
  /\ seen' = [seen EXCEPT ![r].known = generation]
  /\ UNCHANGED redis

\* A payload of another generation counts as absent; a hit is returned, and
\* a reader that lost the lease answers 503 scoreboard_busy without one.
GetJson(r) ==
  \/ /\ \/ reader[r] = "json" /\ Hit(r)
        \/ reader[r] = "lost json"
     /\ Finish(r)
     /\ UNCHANGED lease
  \/ /\ \/ reader[r] = "json" /\ ~ Hit(r) /\ Goto(r, "lease")
        \/ reader[r] = "own json" /\ ~ Hit(r) /\ Goto(r, "build")
     /\ UNCHANGED <<redis, seen>>
  \/ /\ reader[r] = "own json" /\ Hit(r) /\ Goto(r, "release")
     /\ seen' = Settled(r)
     /\ UNCHANGED redis

\* SET NX EX with a random token: the reader's name.
AcquireLease(r) ==
  /\ reader[r] = "lease"
  /\ \/ /\ lease[PhaseOf(r)] = Free
        /\ lease' = [lease EXCEPT ![PhaseOf(r)] = r]
        /\ Goto(r, "own counter")
     \/ /\ lease[PhaseOf(r)] # Free
        /\ Goto(r, "lost counter")
        /\ UNCHANGED lease
  /\ UNCHANGED <<generation, cache, lapsed, seen>>

\* public_scoreboard with the Event row and the instant of the first steps.
Build(r) ==
  /\ reader[r] = "build"
  /\ seen' = [seen EXCEPT ![r].board = Board(seen[r].row.revision, seen[r].cutoff)]
  /\ Goto(r, "verify")
  /\ UNCHANGED redis

\* 503 scoreboard_changed unless the generation is still the same.
Verify(r) ==
  /\ reader[r] = "verify"
  /\ \/ /\ generation = seen[r].known
        /\ Goto(r, "publish")
        /\ UNCHANGED seen
     \/ /\ generation # seen[r].known
        /\ Goto(r, "release")
        /\ seen' = Settled(r)
  /\ UNCHANGED redis

\* Mutant: the payload is filed under the generation read last.
PublishAsLatest(r) ==
  /\ reader[r] = "publish"
  /\ cache' = [cache EXCEPT ![PhaseOf(r)] =
                  [generation |-> generation, payload |-> seen[r].board]]
  /\ Goto(r, "release")
  /\ seen' = Settled(r)
  /\ UNCHANGED <<generation, lease, lapsed>>

Publish(r) ==
  /\ reader[r] = "publish"
  /\ cache' = [cache EXCEPT ![PhaseOf(r)] =
                  [generation |-> seen[r].known, payload |-> seen[r].board]]
  /\ Goto(r, "release")
  /\ seen' = Settled(r)
  /\ UNCHANGED <<generation, lease, lapsed>>

\* Mutant: DEL of the lease without comparing the token.
ReleaseAny(r) ==
  /\ reader[r] = "release"
  /\ lease' = [lease EXCEPT ![PhaseOf(r)] = Free]
  /\ Finish(r)

ReleaseLease(r) ==
  /\ reader[r] = "release"
  /\ lease' = [lease EXCEPT ![PhaseOf(r)] = IF @ = r THEN Free ELSE @]
  /\ Finish(r)

Owning == {"own counter", "own json", "build", "verify", "publish", "release"}

\* A failed call to the store or the database: 503, after trying to release.
Fail(r) ==
  \/ /\ reader[r] \in Owning \ {"release"}
     /\ Goto(r, "release")
     /\ seen' = Settled(r)
     /\ UNCHANGED redis
  \/ /\ reader[r] \in {"counter", "json", "lease", "lost counter", "lost json"}
     /\ Finish(r)
     /\ UNCHANGED lease

\* The release fails, or the worker dies: the lease is left to run out.
Die(r) ==
  /\ reader[r] \in Owning
  /\ Finish(r)
  /\ UNCHANGED lease

Read(r) ==
  \/ ReadEvent(r)
  \/ ReadClock(r)
  \/ GetCounter(r)
  \/ GetJson(r)
  \/ AcquireLease(r)
  \/ Build(r)
  \/ Verify(r)
  \/ Publish(r)
  \/ ReleaseLease(r)

-----------------------------------------------------------------------------
(* Time *)

Tick ==
  /\ clock < MaxTime
  /\ clock' = clock + 1
  /\ UNCHANGED <<event, solved_at, committed, solver, editor, draft, bumped, announced,
                 redis, readers>>

\* SCOREBOARD_BUILD_LEASE_SECONDS have passed, perhaps while it is in use.
LeaseExpires(phase) ==
  /\ lease[phase] # Free
  /\ lease' = [lease EXCEPT ![phase] = Free]
  /\ lapsed' = lapsed \union {lease[phase]}
  /\ UNCHANGED <<database, solver, editor, draft, bumped, announced, generation, cache, readers>>

\* Mutant: a frozen board is stored without an expiry, as one that is final.
FrozenStays(phase) ==
  /\ phase # "frozen" /\ cache[phase] # Free
  /\ cache' = [cache EXCEPT ![phase] = Free]
  /\ UNCHANGED <<database, solver, editor, draft, bumped, announced, generation, lease, lapsed,
                 readers>>

\* scoreboard_cache_seconds have passed.
PayloadExpires(phase) ==
  /\ cache[phase] # Free
  /\ cache' = [cache EXCEPT ![phase] = Free]
  /\ UNCHANGED <<database, solver, editor, draft, bumped, announced, generation, lease, lapsed,
                 readers>>

-----------------------------------------------------------------------------

Init ==
  /\ clock = 0
  /\ event \in [state : {"live"}, freeze_at : Time \union {Never}, revision : {0}]
  /\ solved_at = [s \in Solvers |-> 0]
  /\ committed = {}
  /\ solver = [s \in Solvers |-> "lock"]
  /\ editor = "idle"
  /\ draft = event
  /\ generation = 0
  /\ cache = [phase \in Phases |-> Free]
  /\ lease = [phase \in Phases |-> Free]
  /\ bumped = {}
  /\ announced = 0
  /\ lapsed = {}
  /\ reader = [r \in Readers |-> "event"]
  /\ seen = [r \in Readers |-> Nothing]

Solve(s) ==
  \/ LockEvent(s)
  \/ InsertSolve(s)
  \/ CommitSolve(s)
  \/ BumpForSolve(s)
  \/ DeleteForSolve(s)
  \/ AbandonSolve(s)

Edit ==
  \/ BeginEdit
  \/ CommitEdit
  \/ BumpForEdit
  \/ DeleteForEdit
  \/ AbandonEdit

Next ==
  \/ \E s \in Solvers : Solve(s)
  \/ Edit
  \/ \E r \in Readers : Read(r) \/ Fail(r) \/ Die(r)
  \/ Tick
  \/ \E phase \in Phases : LeaseExpires(phase) \/ PayloadExpires(phase)

Spec == Init /\ [][Next]_vars

\* Redis drops what has expired.
Expiry == \A phase \in Phases : WF_vars(LeaseExpires(phase)) /\ WF_vars(PayloadExpires(phase))

FairSpec == Spec /\ Expiry

-----------------------------------------------------------------------------
(* Properties *)

Rows == [state : {"live", "frozen", "ended"}, freeze_at : Time \union {Never},
         revision : 0..MaxEdits]

Boards == [revision : 0..MaxEdits, cutoff : Time \union {Never}, solves : SUBSET Solvers]

(***************************************************************************)
(* The type invariant.  A row that has been frozen has a freeze_at, and    *)
(* one that has passed: update_event pulls a missing or later one back.    *)
(***************************************************************************)
TypeOK ==
  /\ clock \in Time
  /\ event \in Rows /\ draft \in Rows
  /\ event.state # "live" => event.freeze_at <= clock
  /\ solved_at \in [Solvers -> Time]
  /\ committed \subseteq Solvers /\ bumped \subseteq Solvers /\ lapsed \subseteq Readers
  /\ solver \in [Solvers -> {"lock", "insert", "commit", "bump", "delete", "done"}]
  /\ editor \in {"idle", "commit", "bump", "delete"}
  /\ generation \in Nat /\ announced \in 0..MaxEdits
  /\ cache \in [Phases -> [generation : Nat, payload : Boards] \union {Free}]
  /\ lease \in [Phases -> Readers \union {Free}]
  /\ reader \in [Readers -> Owning \union {"event", "clock", "counter", "json", "lease",
                                            "lost counter", "lost json", "done"}]
  /\ seen \in [Readers -> [row : Rows, phase : Phases, cutoff : Time \union {Never},
                         known : Nat, board : Boards \union {Free}]]

\* The payload a request that starts now would find and return.
Servable(phase) == cache[phase] # Free /\ cache[phase].generation = generation

(***************************************************************************)
(* The generation protects the cache: once the INCR that follows a solve's *)
(* commit has been executed, no payload that lacks the solve is served,    *)
(* however long a builder took and whatever lease it still thinks it has.  *)
(***************************************************************************)
ServedBoardsAreFresh ==
  \A phase \in Phases : Servable(phase) =>
    \A s \in bumped : solved_at[s] <= cache[phase].payload.cutoff
                        => s \in cache[phase].payload.solves

(***************************************************************************)
(* While the scoreboard is frozen no payload built from the Event row as   *)
(* it is shows a new request a solve made after freeze_at, however long    *)
(* ago its builder took its instant.  Payloads built from an older row are *)
(* the exception: see ServedBoardsHaveCurrentEvent.                        *)
(***************************************************************************)
FreezeHidesLaterSolves ==
  LET phase == Phase(event, clock)
      payload == cache[phase].payload
  IN  IsFrozen(event, clock) /\ Servable(phase) /\ payload.revision = event.revision =>
        \A s \in payload.solves : solved_at[s] <= event.freeze_at

(***************************************************************************)
(* A lease that has not run out is its builder's: nobody else builds that  *)
(* phase, and no builder that lost its lease gives another's away.         *)
(***************************************************************************)
LeaseProtectsItsOwner ==
  \A r \in Readers : reader[r] \in Owning /\ r \notin lapsed => lease[PhaseOf(r)] = r

(***************************************************************************)
(* The standings behind a freeze become final.  A scheduled freeze takes   *)
(* no lock, so a solve stamped before freeze_at can commit after it; but   *)
(* while freeze_at stays, nothing is lost and no such solve joins those in *)
(* flight.  An administrator's freeze waits for these, and is final.       *)
(***************************************************************************)
FrozenSolves == {s \in committed : solved_at[s] <= event.freeze_at}

InFlight == {s \in Solvers : solver[s] = "commit" /\ solved_at[s] <= event.freeze_at}

Settles ==
  /\ FrozenSolves \subseteq FrozenSolves'
  /\ FrozenSolves' \subseteq FrozenSolves \union InFlight
  /\ InFlight' \subseteq InFlight

FrozenStandingsSettle ==
  [][/\ FreezeLocked(event, clock) /\ event'.freeze_at = event.freeze_at => Settles
     /\ event.state = "frozen" /\ event'.state = "frozen" => FrozenSolves' = FrozenSolves]_vars

(***************************************************************************)
(* Once the scoreboard is frozen, freeze_at is locked.                     *)
(***************************************************************************)
FreezeAtIsLocked ==
  [][FreezeLocked(event, clock) => event'.freeze_at = event.freeze_at]_vars

(***************************************************************************)
(* Published payloads are never stale: an edit of the event whose INCR has *)
(* been executed is in every payload of the current generation.            *)
(***************************************************************************)
ServedBoardsHaveCurrentEvent ==
  \A phase \in Phases : Servable(phase) => cache[phase].payload.revision >= announced

(***************************************************************************)
(* Even when the INCR and the DELs after a solve all fail, payloads that   *)
(* lack the solve do not stay: they expire and no builder puts them back.  *)
(***************************************************************************)
StaleBoardsGoAway ==
  \A s \in Solvers, phase \in Phases :
    s \in committed ~> [] ~ /\ Servable(phase)
                            /\ solved_at[s] <= cache[phase].payload.cutoff
                            /\ s \notin cache[phase].payload.solves

=============================================================================
