-------------------------- MODULE ScoreboardProofs --------------------------
(***************************************************************************)
(* What the generation, the lease and the Event row lock guarantee for any *)
(* number of readers, solves, edits and ticks.                             *)
(***************************************************************************)
EXTENDS Scoreboard, TLAPS

-----------------------------------------------------------------------------
(* Types *)

Instants == Time \union {Never}
Payloads == [generation : Nat, payload : Boards] \union {Free}
Views == [row : Rows, phase : Phases, cutoff : Instants, known : Nat,
          board : Boards \union {Free}]

\* TypeOK in three parts: the database, those who write it, and the readers.
DatabaseOK ==
  /\ clock \in Time
  /\ event \in Rows /\ draft \in Rows
  /\ event.state # "live" => event.freeze_at <= clock
  /\ solved_at \in [Solvers -> Time]

WritersOK ==
  /\ committed \subseteq Solvers /\ bumped \subseteq Solvers
  /\ solver \in [Solvers -> {"lock", "insert", "commit", "bump", "delete", "done"}]
  /\ editor \in {"idle", "commit", "bump", "delete"}
  /\ generation \in Nat /\ announced \in 0..MaxEdits

ReadersOK ==
  /\ lapsed \subseteq Readers
  /\ cache \in [Phases -> Payloads]
  /\ lease \in [Phases -> Readers \union {Free}]
  /\ reader \in [Readers -> Owning \union {"event", "clock", "counter", "json", "lease",
                                            "lost counter", "lost json", "done"}]
  /\ seen \in [Readers -> Views]

(***************************************************************************)
(* The row about to be committed has a freeze_at that has passed unless it *)
(* leaves the event live, and the freeze_at of a frozen event is kept; no  *)
(* submission holds its share lock meanwhile.  A reader has its board once *)
(* it has built it.                                                        *)
(***************************************************************************)
DraftInv ==
  editor = "commit" => /\ draft.state # "live" => draft.freeze_at <= clock
                       /\ event.state = "frozen" => draft.freeze_at = event.freeze_at
                       /\ ~ ShareHeld

BuiltInv == \A r \in Readers : reader[r] \in {"verify", "publish"} => seen[r].board \in Boards

TInv == DatabaseOK /\ WritersOK /\ ReadersOK /\ DraftInv /\ BuiltInv

\* The parts are the whole.
LEMMA TypesTogether == DatabaseOK /\ WritersOK /\ ReadersOK <=> TypeOK
BY DEF DatabaseOK, WritersOK, ReadersOK, TypeOK, Payloads, Views, Instants

\* What a reader holds before and after its request.
LEMMA NothingTyped == Nothing \in Views
BY ScoreboardAssumption DEF Nothing, Views, Rows, Instants, Phases, Time

\* What a reader makes of a row it holds is well typed.
LEMMA ViewTyped == ASSUME NEW e \in Rows, NEW now \in Time PROVE View(e, now) \in Views
<1>1. Phase(e, now) \in Phases
  BY DEF Phase, Phases
<1>2. e.freeze_at \in Instants
  BY DEF Rows, Instants
<1>3. Cutoff(e, now) \in Instants
  BY <1>2 DEF Cutoff, Instants
<1> QED
  BY <1>1, <1>2, <1>3 DEF View, Views

\* The start of a contest is well typed.
LEMMA InitTypes == Init => TInv
<1> SUFFICES ASSUME Init PROVE TInv
  OBVIOUS
<1>1. event \in Rows /\ event.state = "live"
  BY ScoreboardAssumption DEF Init, Rows
<1>2. DatabaseOK
  BY <1>1, ScoreboardAssumption DEF Init, DatabaseOK, Time
<1>3. WritersOK
  BY ScoreboardAssumption DEF Init, WritersOK
<1>4. ReadersOK
  BY NothingTyped DEF Init, ReadersOK, Payloads
<1> QED
  BY <1>2, <1>3, <1>4 DEF Init, TInv, DraftInv, BuiltInv

\* The steps of a solver.
LEMMA SolveTypes == ASSUME TInv, NEW s \in Solvers, Solve(s) PROVE TInv'
<1> USE DEF TInv, database, readers, redis
<1>1. CASE LockEvent(s)
  BY <1>1 DEF LockEvent, DatabaseOK, WritersOK, ReadersOK, DraftInv, BuiltInv, ShareHeld
<1>2. CASE InsertSolve(s)
  <2>1. clock \in Nat /\ clock + 1 \in Time
    BY <1>2, ScoreboardAssumption DEF InsertSolve, DatabaseOK, Time
  <2>2. editor # "commit"
    BY <1>2 DEF InsertSolve, DraftInv, ShareHeld
  <2>3. event.freeze_at \in Nat
    BY ScoreboardAssumption DEF DatabaseOK, Rows, Time, Never
  <2>4. DatabaseOK'
    BY <1>2, <2>1, <2>3 DEF InsertSolve, DatabaseOK
  <2>5. WritersOK'
    BY <1>2 DEF InsertSolve, WritersOK
  <2> QED
    BY <1>2, <2>2, <2>4, <2>5 DEF InsertSolve, ReadersOK, DraftInv, BuiltInv
<1>3. CASE CommitSolve(s)
  BY <1>3 DEF CommitSolve, DatabaseOK, WritersOK, ReadersOK, DraftInv, BuiltInv, ShareHeld
<1>4. CASE BumpForSolve(s)
  <2>1. WritersOK'
    BY <1>4 DEF BumpForSolve, WritersOK
  <2>2. ShareHeld' => ShareHeld
    BY <1>4 DEF BumpForSolve, ShareHeld, WritersOK
  <2> QED
    BY <1>4, <2>1, <2>2 DEF BumpForSolve, DatabaseOK, ReadersOK, DraftInv, BuiltInv
<1>5. CASE DeleteForSolve(s)
  <2>1. WritersOK'
    BY <1>5 DEF DeleteForSolve, WritersOK
  <2>2. ShareHeld' => ShareHeld
    BY <1>5 DEF DeleteForSolve, ShareHeld, WritersOK
  <2>3. cache' \in [Phases -> Payloads]
    BY <1>5 DEF DeleteForSolve, DropPayloads, ReadersOK, Payloads
  <2> QED
    BY <1>5, <2>1, <2>2, <2>3 DEF DeleteForSolve, DatabaseOK, ReadersOK, DraftInv, BuiltInv
<1>6. CASE AbandonSolve(s)
  <2>1. WritersOK'
    BY <1>6 DEF AbandonSolve, WritersOK
  <2>2. ShareHeld' => ShareHeld
    BY <1>6 DEF AbandonSolve, ShareHeld, WritersOK
  <2>3. DatabaseOK'
    BY <1>6, ScoreboardAssumption DEF AbandonSolve, DatabaseOK, Time
  <2> QED
    BY <1>6, <2>1, <2>2, <2>3 DEF AbandonSolve, ReadersOK, DraftInv, BuiltInv
<1> QED
  BY <1>1, <1>2, <1>3, <1>4, <1>5, <1>6 DEF Solve

\* The steps of update_event.
LEMMA EditTypes == ASSUME TInv, Edit PROVE TInv'
<1> USE DEF TInv, database, readers, redis
<1>1. CASE BeginEdit
  <2>1. PICK state \in {"live", "frozen", "ended"}, freeze_at \in Instants :
          /\ <<event.state, state>> \in Transitions
          /\ freeze_at # event.freeze_at => ~ FreezeLocked(event, clock)
          /\ draft' = Edited(state, freeze_at)
    BY <1>1 DEF BeginEdit, Instants
  <2>2. clock \in Time /\ clock \in Nat /\ event.freeze_at \in Nat /\ freeze_at \in Nat
    BY <2>1, ScoreboardAssumption DEF DatabaseOK, Rows, Instants, Time, Never
  <2>3. draft' \in Rows
    <3>1. event.revision + 1 \in 0..MaxEdits
      BY <1>1, ScoreboardAssumption DEF BeginEdit, DatabaseOK, Rows
    <3> QED
      BY <2>1, <2>2, <3>1 DEF Edited, Rows, Instants
  <2>4. event.state \in {"frozen", "ended"} => freeze_at = event.freeze_at /\ freeze_at <= clock
    BY <2>1 DEF FreezeLocked, IsFrozen, DatabaseOK
  <2>5. draft'.state = state
        /\ draft'.freeze_at = IF state = "frozen" /\ freeze_at > clock THEN clock ELSE freeze_at
    BY <2>1 DEF Edited
  <2>6. DraftInv'
    <3>1. draft'.state # "live" => draft'.freeze_at <= clock
      <4>1. CASE state = "frozen"
        BY <4>1, <2>5, <2>2
      <4>2. CASE state = "ended"
        BY <4>2, <2>1, <2>4, <2>5 DEF Transitions
      <4> QED
        BY <4>1, <4>2, <2>5, <2>1
    <3>2. event.state = "frozen" => draft'.freeze_at = event.freeze_at
      BY <2>2, <2>4, <2>5
    <3>3. ~ ShareHeld'
      BY <1>1 DEF BeginEdit, ShareHeld
    <3> QED
      BY <1>1, <3>1, <3>2, <3>3 DEF BeginEdit, DraftInv
  <2>7. DatabaseOK' /\ WritersOK'
    BY <1>1, <2>3 DEF BeginEdit, DatabaseOK, WritersOK
  <2> QED
    BY <1>1, <2>6, <2>7 DEF BeginEdit, ReadersOK, BuiltInv
<1>2. CASE CommitEdit
  BY <1>2 DEF CommitEdit, DatabaseOK, WritersOK, ReadersOK, DraftInv, BuiltInv
<1>3. CASE BumpForEdit
  <2>1. WritersOK'
    BY <1>3 DEF BumpForEdit, WritersOK, DatabaseOK, Rows
  <2> QED
    BY <1>3, <2>1 DEF BumpForEdit, DatabaseOK, ReadersOK, DraftInv, BuiltInv
<1>4. CASE DeleteForEdit
  <2>1. cache' \in [Phases -> Payloads]
    BY <1>4 DEF DeleteForEdit, DropPayloads, ReadersOK, Payloads
  <2> QED
    BY <1>4, <2>1 DEF DeleteForEdit, DatabaseOK, WritersOK, ReadersOK, DraftInv, BuiltInv
<1>5. CASE AbandonEdit
  BY <1>5 DEF AbandonEdit, DatabaseOK, WritersOK, ReadersOK, DraftInv, BuiltInv
<1> QED
  BY <1>1, <1>2, <1>3, <1>4, <1>5 DEF Edit

\* What a reader's step leaves alone.
WritersApart == database' = database /\ solver' = solver /\ editor' = editor /\ draft' = draft
                /\ bumped' = bumped /\ announced' = announced

\* A reader changes only what is its own and the store.
LEMMA ReadersApart ==
  ASSUME NEW r \in Readers, Read(r) \/ Fail(r) \/ Die(r)
  PROVE  WritersApart /\ generation' = generation
BY DEF Read, Fail, Die, ReadEvent, ReadClock, GetCounter, GetJson, AcquireLease, Build, Verify, Publish,
       ReleaseLease, Finish, Goto, WritersApart, redis

\* Once a reader only has its lease to release, it is well typed.
LEMMA SettledTyped == ASSUME TInv, NEW r \in Readers PROVE Settled(r) \in [Readers -> Views]
<1>1. seen[r] \in Views /\ PhaseOf(r) \in Phases
  BY DEF TInv, ReadersOK, PhaseOf, Views
<1>2. [Nothing EXCEPT !.phase = PhaseOf(r)] \in Views
  BY <1>1, NothingTyped DEF Views
<1> QED
  BY <1>2 DEF Settled, TInv, ReadersOK

\* The steps of a reader.
LEMMA ReadTypes ==
  ASSUME TInv, NEW r \in Readers, Read(r) \/ Fail(r) \/ Die(r)
  PROVE  TInv'
<1> USE DEF TInv
<1>1. WritersApart /\ generation' = generation
  BY ReadersApart
<1>2. DatabaseOK' /\ WritersOK'
  BY <1>1 DEF WritersApart, database, DatabaseOK, WritersOK
<1>3. DraftInv'
  BY <1>1 DEF WritersApart, database, DraftInv, ShareHeld
<1>4. seen[r] \in Views /\ PhaseOf(r) \in Phases
  BY DEF ReadersOK, PhaseOf, Views
<1> SUFFICES ReadersOK' /\ BuiltInv'
  BY <1>2, <1>3
<1> USE DEF Goto, redis
<1>5. CASE ReadEvent(r) \/ ReadClock(r)
  <2>1. [seen[r] EXCEPT !.row = event] \in Views /\ View(seen[r].row, clock) \in Views
    BY <1>4, ViewTyped DEF DatabaseOK, Views
  <2>2. seen' \in [Readers -> Views]
    BY <1>5, <2>1 DEF ReadEvent, ReadClock, ReadersOK
  <2> QED
    BY <1>5, <2>2 DEF ReadEvent, ReadClock, ReadersOK, BuiltInv
<1>6. CASE GetCounter(r)
  <2>1. [seen[r] EXCEPT !.known = generation] \in Views
    BY <1>4 DEF Views, WritersOK
  <2>2. seen' = [seen EXCEPT ![r] = [seen[r] EXCEPT !.known = generation]]
    BY <1>6 DEF GetCounter, ReadersOK
  <2> QED
    BY <1>6, <2>1, <2>2 DEF GetCounter, ReadersOK, BuiltInv, Owning
<1>7. CASE GetJson(r)
  BY <1>7, NothingTyped, SettledTyped DEF GetJson, Finish, Settled, ReadersOK, BuiltInv, Owning
<1>8. CASE AcquireLease(r)
  BY <1>8, <1>4 DEF AcquireLease, ReadersOK, BuiltInv, Owning
<1>9. CASE Build(r)
  <2>1. Board(seen[r].row.revision, seen[r].cutoff) \in Boards
    BY <1>4 DEF Views, Rows, Board, Boards, Instants, WritersOK
  <2>2. [seen[r] EXCEPT !.board = Board(seen[r].row.revision, seen[r].cutoff)] \in Views
    BY <1>4, <2>1 DEF Views
  <2>3. seen' = [seen EXCEPT ![r] =
                   [seen[r] EXCEPT !.board = Board(seen[r].row.revision, seen[r].cutoff)]]
    BY <1>9 DEF Build
  <2>4. seen'[r].board \in Boards
    BY <2>1, <2>3, <1>4 DEF Views, ReadersOK
  <2> QED
    BY <1>9, <2>2, <2>3, <2>4 DEF Build, ReadersOK, BuiltInv, Owning
<1>10. CASE Verify(r)
  BY <1>10, SettledTyped DEF Verify, Settled, ReadersOK, BuiltInv, Owning
<1>11. CASE Publish(r)
  <2>1. [generation |-> seen[r].known, payload |-> seen[r].board] \in Payloads
    BY <1>11, <1>4 DEF Publish, BuiltInv, Views, Payloads
  <2> QED
    BY <1>11, <1>4, <2>1, SettledTyped DEF Publish, Settled, ReadersOK, BuiltInv, Owning
<1>12. CASE ReleaseLease(r)
  BY <1>12, NothingTyped DEF ReleaseLease, Finish, ReadersOK, BuiltInv, Owning
<1>13. CASE Fail(r)
  <2>1. CASE reader' = [reader EXCEPT ![r] = "release"] /\ seen' = Settled(r) /\ UNCHANGED redis
    BY <2>1, SettledTyped DEF Settled, ReadersOK, BuiltInv, Owning
  <2>2. CASE Finish(r) /\ UNCHANGED lease
    BY <2>2, NothingTyped DEF Finish, ReadersOK, BuiltInv, Owning
  <2> QED
    BY <1>13, <2>1, <2>2 DEF Fail
<1>14. CASE Die(r)
  BY <1>14, NothingTyped DEF Die, Finish, ReadersOK, BuiltInv, Owning
<1> QED
  BY <1>5, <1>6, <1>7, <1>8, <1>9, <1>10, <1>11, <1>12, <1>13, <1>14 DEF Read

\* The clock and the expiry of keys.
LEMMA TimeTypes ==
  ASSUME TInv, Tick \/ \E phase \in Phases : LeaseExpires(phase) \/ PayloadExpires(phase)
  PROVE  TInv'
<1> USE DEF TInv, database, readers, redis
<1>1. CASE Tick
  <2>1. clock \in Nat /\ clock' = clock + 1 /\ clock' \in Time
    BY <1>1, ScoreboardAssumption DEF Tick, DatabaseOK, Time
  <2>2. event.freeze_at \in Nat /\ draft.freeze_at \in Nat
    BY ScoreboardAssumption DEF DatabaseOK, Rows, Time, Never
  <2>3. DatabaseOK'
    BY <1>1, <2>1, <2>2 DEF Tick, DatabaseOK
  <2>4. DraftInv'
    BY <1>1, <2>1, <2>2 DEF Tick, DraftInv, ShareHeld
  <2> QED
    BY <1>1, <2>3, <2>4 DEF Tick, WritersOK, ReadersOK, BuiltInv
<1>2. ASSUME NEW phase \in Phases, LeaseExpires(phase) PROVE TInv'
  BY <1>2 DEF LeaseExpires, DatabaseOK, WritersOK, ReadersOK, DraftInv, BuiltInv, ShareHeld
<1>3. ASSUME NEW phase \in Phases, PayloadExpires(phase) PROVE TInv'
  <2>1. cache' \in [Phases -> Payloads]
    BY <1>3 DEF PayloadExpires, ReadersOK, Payloads
  <2> QED
    BY <1>3, <2>1 DEF PayloadExpires, DatabaseOK, WritersOK, ReadersOK, DraftInv, BuiltInv, ShareHeld
<1> QED
  BY <1>1, <1>2, <1>3

\* Every step keeps the types.
LEMMA NextTypes == TInv /\ [Next]_vars => TInv'
<1> SUFFICES ASSUME TInv, [Next]_vars PROVE TInv'
  OBVIOUS
<1>1. CASE Next
  BY <1>1, SolveTypes, EditTypes, ReadTypes, TimeTypes DEF Next
<1>2. CASE UNCHANGED vars
  BY <1>2 DEF vars, TInv, DatabaseOK, WritersOK, ReadersOK, DraftInv, BuiltInv, ShareHeld
<1> QED
  BY <1>1, <1>2

\* The types are an invariant of the contest.
LEMMA TInvAlways == Spec => []TInv
BY InitTypes, NextTypes, PTL DEF Spec

(***************************************************************************)
(* Every variable keeps its type, and an event that has been frozen has a  *)
(* freeze_at that has passed, whatever update_event is asked.              *)
(***************************************************************************)
THEOREM TypeCorrect == Spec => []TypeOK
<1>1. TInv => TypeOK
  BY TypesTogether DEF TInv
<1> QED
  BY <1>1, TInvAlways, PTL

-----------------------------------------------------------------------------
(* The lease *)

\* A reader does not touch what another one knows.
LEMMA OthersStay ==
  ASSUME TInv, NEW r \in Readers, Read(r) \/ Fail(r) \/ Die(r), NEW q \in Readers, q # r
  PROVE  reader'[q] = reader[q] /\ seen'[q] = seen[q] /\ (q \in lapsed' <=> q \in lapsed)
<1> USE DEF Goto, Finish, Settled, TInv, ReadersOK, redis
<1>1. CASE ReadEvent(r) \/ ReadClock(r)
  BY <1>1 DEF ReadEvent, ReadClock
<1>2. CASE GetCounter(r)
  BY <1>2 DEF GetCounter
<1>3. CASE GetJson(r)
  BY <1>3 DEF GetJson
<1>4. CASE AcquireLease(r)
  BY <1>4 DEF AcquireLease
<1>5. CASE Build(r)
  BY <1>5 DEF Build
<1>6. CASE Verify(r)
  BY <1>6 DEF Verify
<1>7. CASE Publish(r)
  BY <1>7 DEF Publish
<1>8. CASE ReleaseLease(r)
  BY <1>8 DEF ReleaseLease
<1>9. CASE Fail(r)
  BY <1>9 DEF Fail
<1>10. CASE Die(r)
  BY <1>10 DEF Die
<1> QED
  BY <1>1, <1>2, <1>3, <1>4, <1>5, <1>6, <1>7, <1>8, <1>9, <1>10 DEF Read

\* A reader comes to own a lease by winning it, and keeps the phase it is for.
LEMMA OwnersOwn ==
  ASSUME TInv, NEW r \in Readers, Read(r) \/ Fail(r) \/ Die(r), reader'[r] \in Owning
  PROVE  /\ seen'[r].phase = seen[r].phase
         /\ lapsed' = lapsed
         /\ \/ reader[r] \in Owning /\ lease' = lease
            \/ lease' = [lease EXCEPT ![PhaseOf(r)] = r]
<1> USE DEF Goto, Finish, TInv, ReadersOK, redis
<1>1. seen[r] \in Views /\ Settled(r)[r].phase = seen[r].phase
  BY DEF Settled, Nothing, PhaseOf
<1>2. CASE ReadEvent(r) \/ ReadClock(r)
  BY <1>2 DEF ReadEvent, ReadClock, Owning
<1>3. CASE GetCounter(r)
  BY <1>3, <1>1 DEF GetCounter, Owning, Views
<1>4. CASE GetJson(r)
  BY <1>4, <1>1 DEF GetJson, Owning
<1>5. CASE AcquireLease(r)
  BY <1>5 DEF AcquireLease, Owning
<1>6. CASE Build(r)
  BY <1>6, <1>1 DEF Build, Owning, Views
<1>7. CASE Verify(r)
  BY <1>7, <1>1 DEF Verify, Owning
<1>8. CASE Publish(r)
  BY <1>8, <1>1 DEF Publish, Owning
<1>9. CASE ReleaseLease(r)
  BY <1>9 DEF ReleaseLease, Owning
<1>10. CASE Fail(r)
  BY <1>10, <1>1 DEF Fail, Owning
<1>11. CASE Die(r)
  BY <1>11 DEF Die, Owning
<1> QED
  BY <1>2, <1>3, <1>4, <1>5, <1>6, <1>7, <1>8, <1>9, <1>10, <1>11 DEF Read

\* A reader takes a free lease, or releases its own.
LEMMA LeaseTaken ==
  ASSUME TInv, NEW r \in Readers, Read(r) \/ Fail(r) \/ Die(r), NEW phase \in Phases,
         lease'[phase] # lease[phase]
  PROVE  lease[phase] \in {Free, r}
BY DEF Read, Fail, Die, ReadEvent, ReadClock, GetCounter, GetJson, AcquireLease, Build, Verify, Publish,
       ReleaseLease, Finish, Goto, redis, TInv, ReadersOK

\* No step disturbs a lease that has not run out.
LEMMA LeaseStep == TInv /\ LeaseProtectsItsOwner /\ [Next]_vars => LeaseProtectsItsOwner'
<1> SUFFICES ASSUME TInv, LeaseProtectsItsOwner, [Next]_vars PROVE LeaseProtectsItsOwner'
  OBVIOUS
<1> USE DEF LeaseProtectsItsOwner, PhaseOf, TInv, ReadersOK, readers, redis
<1>1. ASSUME NEW s \in Solvers, Solve(s) PROVE LeaseProtectsItsOwner'
  BY <1>1 DEF Solve, LockEvent, InsertSolve, CommitSolve, BumpForSolve, DeleteForSolve,
              AbandonSolve
<1>2. CASE Edit
  BY <1>2 DEF Edit, BeginEdit, CommitEdit, BumpForEdit, DeleteForEdit, AbandonEdit
<1>3. ASSUME NEW r \in Readers, Read(r) \/ Fail(r) \/ Die(r) PROVE LeaseProtectsItsOwner'
  <2> SUFFICES ASSUME NEW q \in Readers, reader'[q] \in Owning, q \notin lapsed'
               PROVE  lease'[seen'[q].phase] = q
    OBVIOUS
  <2>1. seen[q].phase \in Phases
    BY DEF Views
  <2>2. CASE q = r
    BY <1>3, <2>1, <2>2, OwnersOwn
  <2>3. CASE q # r
    <3>1. reader'[q] = reader[q] /\ seen'[q] = seen[q] /\ q \notin lapsed
      BY <1>3, <2>3, OthersStay
    <3>2. lease[seen[q].phase] = q
      BY <3>1
    <3>3. q \notin {Free, r}
      BY <2>3, ScoreboardAssumption
    <3> QED
      BY <1>3, <2>1, <3>1, <3>2, <3>3, LeaseTaken
  <2> QED
    BY <2>2, <2>3
<1>4. CASE Tick
  BY <1>4 DEF Tick
<1>5. ASSUME NEW phase \in Phases, LeaseExpires(phase) PROVE LeaseProtectsItsOwner'
  BY <1>5 DEF LeaseExpires, Views
<1>6. ASSUME NEW phase \in Phases, PayloadExpires(phase) PROVE LeaseProtectsItsOwner'
  BY <1>6 DEF PayloadExpires
<1>7. CASE UNCHANGED vars
  BY <1>7 DEF vars
<1> QED
  BY <1>1, <1>2, <1>3, <1>4, <1>5, <1>6, <1>7 DEF Next

(***************************************************************************)
(* A builder whose lease has not run out holds it, and no builder that     *)
(* lost its lease releases the one of its successor: the token comparison  *)
(* of release_lease suffices.                                              *)
(***************************************************************************)
THEOREM LeaseExcludes == Spec => []LeaseProtectsItsOwner
<1>1. Init => LeaseProtectsItsOwner
  BY DEF Init, LeaseProtectsItsOwner, Owning
<1> QED
  BY <1>1, LeaseStep, TInvAlways, PTL DEF Spec

-----------------------------------------------------------------------------
(* The generation *)

(***************************************************************************)
(* A solve bumps the generation only after its commit, and its instant is  *)
(* not written again.                                                      *)
(***************************************************************************)
CommitInv ==
  /\ \A s \in Solvers : solver[s] \in {"lock", "insert", "commit"} => s \notin committed
  /\ \A s \in Solvers : solver[s] \in {"bump", "delete"} => s \in committed
  /\ bumped \subseteq committed

\* Every step keeps the order of a solver's commit and its INCR.
LEMMA CommitStep == TInv /\ CommitInv /\ [Next]_vars => CommitInv'
<1> SUFFICES ASSUME TInv, CommitInv, [Next]_vars PROVE CommitInv'
  OBVIOUS
<1> USE DEF CommitInv, database, redis
<1>1. ASSUME NEW s \in Solvers, Solve(s) PROVE CommitInv'
  <2> USE DEF TInv, WritersOK
  <2>1. CASE LockEvent(s)
    BY <2>1 DEF LockEvent
  <2>2. CASE InsertSolve(s)
    BY <2>2 DEF InsertSolve
  <2>3. CASE CommitSolve(s)
    BY <2>3 DEF CommitSolve
  <2>4. CASE BumpForSolve(s)
    BY <2>4 DEF BumpForSolve
  <2>5. CASE DeleteForSolve(s)
    BY <2>5 DEF DeleteForSolve
  <2>6. CASE AbandonSolve(s)
    BY <2>6 DEF AbandonSolve
  <2> QED
    BY <1>1, <2>1, <2>2, <2>3, <2>4, <2>5, <2>6 DEF Solve
<1>2. CASE Edit
  BY <1>2 DEF Edit, BeginEdit, CommitEdit, BumpForEdit, DeleteForEdit, AbandonEdit
<1>3. ASSUME NEW r \in Readers, Read(r) \/ Fail(r) \/ Die(r) PROVE CommitInv'
  BY <1>3, ReadersApart DEF WritersApart
<1>4. CASE Tick
  BY <1>4 DEF Tick
<1>5. ASSUME NEW phase \in Phases, LeaseExpires(phase) \/ PayloadExpires(phase) PROVE CommitInv'
  BY <1>5 DEF LeaseExpires, PayloadExpires
<1>6. CASE UNCHANGED vars
  BY <1>6 DEF vars
<1> QED
  BY <1>1, <1>2, <1>3, <1>4, <1>5, <1>6 DEF Next

\* The board lacks no solve of its cutoff whose INCR has been executed.
Covers(board) == \A s \in bumped : solved_at[s] <= board.cutoff => s \in board.solves

(***************************************************************************)
(* Nobody knows a generation that is still to come; and a board made under *)
(* the generation that is still current lacks nothing, in the hands of its *)
(* builder and in the cache.                                               *)
(***************************************************************************)
GenerationInv ==
  /\ \A r \in Readers : reader[r] \in {"own json", "build", "verify", "publish"}
                          => seen[r].known <= generation
  /\ \A r \in Readers : reader[r] \in {"verify", "publish"} /\ seen[r].known = generation
                          => Covers(seen[r].board)
  /\ \A phase \in Phases : cache[phase] # Free
                          => /\ cache[phase].generation <= generation
                             /\ cache[phase].generation = generation
                                  => Covers(cache[phase].payload)

\* Steps that move neither the generation nor a reader, and write no instant
\* of a solve that counts.
LEMMA QuietSteps ==
  ASSUME GenerationInv, generation' = generation, bumped' = bumped,
         \A s \in bumped : solved_at'[s] = solved_at[s], UNCHANGED readers,
         \A phase \in Phases : cache'[phase] \in {cache[phase], Free}
  PROVE  GenerationInv'
BY DEF GenerationInv, Covers, readers

\* An INCR makes every board that exists one of an earlier generation.
LEMMA Increments ==
  ASSUME TInv, GenerationInv, generation' = generation + 1, UNCHANGED <<cache, readers>>
  PROVE  GenerationInv'
<1>1. generation \in Nat
  BY DEF TInv, WritersOK
<1>2. ASSUME NEW known \in Nat, known <= generation
      PROVE  known <= generation' /\ known # generation'
  BY <1>1, <1>2
<1>3. \A r \in Readers : seen[r].known \in Nat
  BY DEF TInv, ReadersOK, Views
<1>4. \A phase \in Phases : cache[phase] # Free => cache[phase].generation \in Nat
  BY DEF TInv, ReadersOK, Payloads
<1>5. \A r \in Readers : reader'[r] \in {"own json", "build", "verify", "publish"}
                           => seen'[r].known <= generation' /\ seen'[r].known # generation'
  BY <1>2, <1>3 DEF GenerationInv, readers
<1>6. \A phase \in Phases : cache'[phase] # Free
                           => /\ cache'[phase].generation <= generation'
                              /\ cache'[phase].generation # generation'
  BY <1>2, <1>4 DEF GenerationInv
<1> QED
  BY <1>5, <1>6 DEF GenerationInv

\* The steps of a reader: only GetCounter learns a generation, only Build
\* makes a board, only Publish files one.
LEMMA ReaderGenerations ==
  ASSUME TInv, CommitInv, GenerationInv, NEW r \in Readers, Read(r) \/ Fail(r) \/ Die(r)
  PROVE  GenerationInv'
<1>1. generation' = generation /\ bumped' = bumped /\ solved_at' = solved_at /\ generation \in Nat
  BY ReadersApart DEF WritersApart, database, TInv, WritersOK
<1>2. \A q \in Readers \ {r} : reader'[q] = reader[q] /\ seen'[q] = seen[q]
  BY OthersStay
<1>3. \A board : Covers(board) <=> \A s \in bumped' : solved_at'[s] <= board.cutoff
                                                     => s \in board.solves
  BY <1>1 DEF Covers
<1>4. generation <= generation
  BY <1>1
<1> DEFINE Knows == reader'[r] \in {"own json", "build", "verify", "publish"}
                      => seen'[r].known <= generation
           Holds == reader'[r] \in {"verify", "publish"} /\ seen'[r].known = generation
                      => Covers(seen'[r].board)
<1>5. SUFFICES
        /\ Knows /\ Holds
        /\ \/ cache' = cache
           \/ /\ cache' = [cache EXCEPT ![PhaseOf(r)] =
                            [generation |-> seen[r].known, payload |-> seen[r].board]]
              /\ seen[r].known <= generation
              /\ seen[r].known = generation => Covers(seen[r].board)
  <2>1. \A phase \in Phases : cache'[phase] # Free
          => /\ cache'[phase].generation <= generation
             /\ cache'[phase].generation = generation => Covers(cache'[phase].payload)
    <3>1. CASE cache' = cache
      BY <3>1 DEF GenerationInv
    <3>2. CASE cache' # cache
      <4> DEFINE payload == [generation |-> seen[r].known, payload |-> seen[r].board]
      <4>1. payload.generation = seen[r].known /\ payload.payload = seen[r].board
        OBVIOUS
      <4> HIDE DEF payload
      <4>2. cache' = [cache EXCEPT ![PhaseOf(r)] = payload]
        BY <1>5, <3>2 DEF payload
      <4>3. \A phase \in Phases : cache'[phase] \in {cache[phase], payload}
        BY <4>2 DEF TInv, ReadersOK
      <4> QED
        BY <1>5, <3>2, <4>1, <4>3 DEF GenerationInv
    <3> QED
      BY <3>1, <3>2
  <2>2. \A q \in Readers :
          /\ reader'[q] \in {"own json", "build", "verify", "publish"}
               => seen'[q].known <= generation
          /\ reader'[q] \in {"verify", "publish"} /\ seen'[q].known = generation
               => Covers(seen'[q].board)
    BY <1>2, <1>5 DEF GenerationInv
  <2> QED
    BY <1>1, <1>3, <2>1, <2>2 DEF GenerationInv, Covers
<1> USE DEF Goto, Finish, TInv, ReadersOK, redis
<1>6. CASE ReadEvent(r) \/ ReadClock(r)
  BY <1>6 DEF ReadEvent, ReadClock
<1>7. CASE GetCounter(r)
  <2>1. seen'[r].known = generation
    BY <1>7 DEF GetCounter, Views
  <2>2. cache' = cache
    BY <1>7 DEF GetCounter
  <2>3. reader'[r] \in {"json", "lost json", "own json"}
    BY <1>7 DEF GetCounter
  <2> QED
    BY <1>4, <2>1, <2>2, <2>3
<1>8. CASE GetJson(r)
  BY <1>8 DEF GetJson, GenerationInv
<1>9. CASE AcquireLease(r)
  BY <1>9 DEF AcquireLease
<1>10. CASE Build(r)
  <2>1. seen'[r].board = Board(seen[r].row.revision, seen[r].cutoff) /\ seen'[r].known = seen[r].known
    BY <1>10 DEF Build, Views
  <2>2. Covers(Board(seen[r].row.revision, seen[r].cutoff))
    BY DEF Board, Covers, CommitInv
  <2>3. seen[r].known <= generation
    BY <1>10 DEF Build, GenerationInv
  <2> QED
    BY <1>10, <2>1, <2>2, <2>3 DEF Build
<1>11. CASE Verify(r)
  BY <1>11 DEF Verify, GenerationInv
<1>12. CASE Publish(r)
  BY <1>12 DEF Publish, GenerationInv
<1>13. CASE ReleaseLease(r)
  BY <1>13 DEF ReleaseLease
<1>14. CASE Fail(r)
  BY <1>14 DEF Fail
<1>15. CASE Die(r)
  BY <1>15 DEF Die
<1> QED
  BY <1>6, <1>7, <1>8, <1>9, <1>10, <1>11, <1>12, <1>13, <1>14, <1>15 DEF Read

\* The steps of a solver.
LEMMA SolverGenerations ==
  ASSUME TInv, CommitInv, GenerationInv, NEW s \in Solvers, Solve(s)
  PROVE  GenerationInv'
<1> USE DEF database, redis, readers
<1>1. s \notin committed => s \notin bumped
  BY DEF CommitInv
<1>2. CASE LockEvent(s)
  BY <1>2, QuietSteps DEF LockEvent
<1>3. CASE InsertSolve(s)
  <2>1. \A t \in bumped : solved_at'[t] = solved_at[t]
    BY <1>3, <1>1 DEF InsertSolve, CommitInv, TInv, DatabaseOK
  <2> QED
    BY <1>3, <2>1, QuietSteps DEF InsertSolve
<1>4. CASE CommitSolve(s)
  BY <1>4, QuietSteps DEF CommitSolve
<1>5. CASE BumpForSolve(s)
  BY <1>5, QuietSteps, Increments DEF BumpForSolve
<1>6. CASE DeleteForSolve(s)
  <2>1. \A phase \in Phases : cache'[phase] \in {cache[phase], Free}
    BY <1>6 DEF DeleteForSolve, DropPayloads
  <2> QED
    BY <1>6, <2>1, QuietSteps DEF DeleteForSolve
<1>7. CASE AbandonSolve(s)
  <2>1. \A t \in bumped : solved_at'[t] = solved_at[t]
    BY <1>7, <1>1 DEF AbandonSolve, TInv, DatabaseOK
  <2> QED
    BY <1>7, <2>1, QuietSteps DEF AbandonSolve
<1> QED
  BY <1>2, <1>3, <1>4, <1>5, <1>6, <1>7 DEF Solve

\* Every step keeps what the generation promises.
LEMMA GenerationStep == TInv /\ CommitInv /\ GenerationInv /\ [Next]_vars => GenerationInv'
<1> SUFFICES ASSUME TInv, CommitInv, GenerationInv, [Next]_vars PROVE GenerationInv'
  OBVIOUS
<1> USE DEF database, redis, readers
<1>1. CASE Edit
  <2>1. CASE BumpForEdit
    BY <2>1, QuietSteps, Increments DEF BumpForEdit
  <2>2. CASE DeleteForEdit
    <3>1. \A phase \in Phases : cache'[phase] \in {cache[phase], Free}
      BY <2>2 DEF DeleteForEdit, DropPayloads
    <3> QED
      BY <2>2, <3>1, QuietSteps DEF DeleteForEdit
  <2> QED
    BY <1>1, <2>1, <2>2, QuietSteps DEF Edit, BeginEdit, CommitEdit, AbandonEdit
<1>2. CASE Tick
  BY <1>2, QuietSteps DEF Tick
<1>3. ASSUME NEW phase \in Phases, LeaseExpires(phase) PROVE GenerationInv'
  BY <1>3, QuietSteps DEF LeaseExpires
<1>4. ASSUME NEW phase \in Phases, PayloadExpires(phase) PROVE GenerationInv'
  <2>1. \A other \in Phases : cache'[other] \in {cache[other], Free}
    BY <1>4 DEF PayloadExpires, TInv, ReadersOK
  <2> QED
    BY <1>4, <2>1, QuietSteps DEF PayloadExpires
<1>5. CASE UNCHANGED vars
  BY <1>5, QuietSteps DEF vars
<1> QED
  BY <1>1, <1>2, <1>3, <1>4, <1>5, ReaderGenerations, SolverGenerations DEF Next

(***************************************************************************)
(* No payload of the current generation lacks a solve whose INCR has been  *)
(* executed: not for any number of builders, however slow, with or without *)
(* their leases, and whatever expires, fails or dies meanwhile.            *)
(***************************************************************************)
THEOREM PublishedBoardsAreComplete == Spec => []ServedBoardsAreFresh
<1>1. Init => CommitInv /\ GenerationInv
  BY DEF Init, CommitInv, GenerationInv
<1>2. GenerationInv => ServedBoardsAreFresh
  BY DEF GenerationInv, Covers, ServedBoardsAreFresh, Servable
<1> QED
  BY <1>1, <1>2, CommitStep, GenerationStep, TInvAlways, PTL DEF Spec

-----------------------------------------------------------------------------
(* The freeze *)

\* A submission still in flight when the event was frozen by hand, if there
\* is one, began after that and is later than freeze_at.
FreezeInv ==
  event.state = "frozen" => \A s \in Solvers : solver[s] = "commit"
                                                 => solved_at[s] > event.freeze_at

\* Every step keeps the submissions in flight later than the freeze.
LEMMA FreezeStep == TInv /\ FreezeInv /\ [Next]_vars => FreezeInv'
<1> SUFFICES ASSUME TInv, FreezeInv, [Next]_vars PROVE FreezeInv'
  OBVIOUS
<1> USE DEF FreezeInv, TInv, database, redis, readers
<1>1. ASSUME NEW s \in Solvers, Solve(s) PROVE FreezeInv'
  <2>1. CASE InsertSolve(s)
    <3>1. event.freeze_at \in Nat /\ clock \in Nat
      BY ScoreboardAssumption DEF DatabaseOK, Rows, Time, Never
    <3>2. event.state = "frozen" => clock + 1 > event.freeze_at
      BY <3>1 DEF DatabaseOK
    <3> QED
      BY <2>1, <3>2 DEF InsertSolve, DatabaseOK, WritersOK
  <2>2. CASE AbandonSolve(s)
    BY <2>2 DEF AbandonSolve, DatabaseOK, WritersOK
  <2> QED
    BY <1>1, <2>1, <2>2 DEF Solve, LockEvent, CommitSolve, BumpForSolve, DeleteForSolve, WritersOK
<1>2. CASE Edit
  <2>1. CASE CommitEdit
    BY <2>1 DEF CommitEdit, DraftInv, ShareHeld
  <2> QED
    BY <1>2, <2>1 DEF Edit, BeginEdit, BumpForEdit, DeleteForEdit, AbandonEdit
<1>3. ASSUME NEW r \in Readers, Read(r) \/ Fail(r) \/ Die(r) PROVE FreezeInv'
  BY <1>3, ReadersApart DEF WritersApart
<1>4. CASE Tick
  BY <1>4 DEF Tick
<1>5. ASSUME NEW phase \in Phases, LeaseExpires(phase) \/ PayloadExpires(phase) PROVE FreezeInv'
  BY <1>5 DEF LeaseExpires, PayloadExpires
<1>6. CASE UNCHANGED vars
  BY <1>6 DEF vars
<1> QED
  BY <1>1, <1>2, <1>3, <1>4, <1>5, <1>6 DEF Next

\* No step changes the solves up to freeze_at of an event frozen by hand.
LEMMA FreezeKeeps ==
  ASSUME TInv, CommitInv, FreezeInv, [Next]_vars, event.state = "frozen", event'.state = "frozen"
  PROVE  FrozenSolves' = FrozenSolves
<1> USE DEF FrozenSolves, TInv, database, redis, readers
<1>1. ASSUME NEW s \in Solvers, Solve(s) PROVE FrozenSolves' = FrozenSolves
  <2>1. CASE InsertSolve(s)
    BY <2>1 DEF InsertSolve, CommitInv, DatabaseOK, WritersOK
  <2>2. CASE CommitSolve(s)
    <3>1. solved_at[s] \in Nat /\ event.freeze_at \in Nat
      BY ScoreboardAssumption DEF DatabaseOK, Rows, Time, Never
    <3>2. ~ solved_at[s] <= event.freeze_at
      BY <2>2, <3>1 DEF CommitSolve, FreezeInv
    <3> QED
      BY <2>2, <3>2 DEF CommitSolve
  <2>3. CASE AbandonSolve(s)
    BY <2>3 DEF AbandonSolve, DatabaseOK, WritersOK
  <2> QED
    BY <1>1, <2>1, <2>2, <2>3 DEF Solve, LockEvent, BumpForSolve, DeleteForSolve
<1>2. CASE Edit
  <2>1. CASE CommitEdit
    BY <2>1 DEF CommitEdit, DraftInv
  <2> QED
    BY <1>2, <2>1 DEF Edit, BeginEdit, BumpForEdit, DeleteForEdit, AbandonEdit
<1>3. ASSUME NEW r \in Readers, Read(r) \/ Fail(r) \/ Die(r) PROVE FrozenSolves' = FrozenSolves
  BY <1>3, ReadersApart DEF WritersApart
<1>4. CASE Tick
  BY <1>4 DEF Tick
<1>5. ASSUME NEW phase \in Phases, LeaseExpires(phase) \/ PayloadExpires(phase)
      PROVE  FrozenSolves' = FrozenSolves
  BY <1>5 DEF LeaseExpires, PayloadExpires
<1>6. CASE UNCHANGED vars
  BY <1>6 DEF vars
<1> QED
  BY <1>1, <1>2, <1>3, <1>4, <1>5, <1>6 DEF Next

-----------------------------------------------------------------------------
(* The frozen board *)

\* A board shows only committed solves up to its cutoff.
Faithful(board) == \A s \in board.solves : s \in committed /\ solved_at[s] <= board.cutoff

\* A builder's board is faithful and has the cutoff its reader asked for; so
\* is every payload.
BoardInv ==
  /\ \A r \in Readers : reader[r] \in {"verify", "publish"}
                          => Faithful(seen[r].board) /\ seen[r].board.cutoff = seen[r].cutoff
  /\ \A phase \in Phases : cache[phase] # Free => Faithful(cache[phase].payload)

Asking == {"clock", "counter", "json", "lease", "own counter", "own json", "build", "verify",
           "publish"}

(***************************************************************************)
(* A freeze_at that is locked has passed, and one that has passed is       *)
(* locked: FreezeLocked is a question about the clock alone.               *)
(***************************************************************************)
LEMMA LockedIsPast ==
  ASSUME TInv
  PROVE  FreezeLocked(event, clock) <=> event.freeze_at <= clock
BY DEF TInv, DatabaseOK, Rows, FreezeLocked, IsFrozen

\* A committed solve keeps its instant.
LEMMA CommittedStay ==
  ASSUME TInv, CommitInv, [Next]_vars, NEW s \in committed
  PROVE  s \in committed' /\ solved_at'[s] = solved_at[s]
<1> USE DEF database, redis, readers
<1>1. CASE committed' = committed /\ solved_at' = solved_at
  BY <1>1
<1>2. ASSUME NEW t \in Solvers, Solve(t) PROVE s \in committed' /\ solved_at'[s] = solved_at[s]
  <2>1. CASE InsertSolve(t)
    BY <2>1 DEF InsertSolve, CommitInv, TInv, DatabaseOK
  <2>2. CASE AbandonSolve(t)
    BY <2>2 DEF AbandonSolve, TInv, DatabaseOK
  <2>3. CASE LockEvent(t) \/ CommitSolve(t) \/ BumpForSolve(t) \/ DeleteForSolve(t)
    BY <2>3 DEF LockEvent, CommitSolve, BumpForSolve, DeleteForSolve
  <2> QED
    BY <1>2, <2>1, <2>2, <2>3 DEF Solve
<1>3. CASE Edit
  BY <1>1, <1>3 DEF Edit, BeginEdit, CommitEdit, BumpForEdit, DeleteForEdit, AbandonEdit
<1>4. ASSUME NEW r \in Readers, Read(r) \/ Fail(r) \/ Die(r)
      PROVE  committed' = committed /\ solved_at' = solved_at
  BY <1>4, ReadersApart DEF WritersApart
<1>5. CASE Tick \/ UNCHANGED vars
  BY <1>1, <1>5 DEF Tick, vars
<1>6. ASSUME NEW phase \in Phases, LeaseExpires(phase) \/ PayloadExpires(phase)
      PROVE  committed' = committed /\ solved_at' = solved_at
  BY <1>6 DEF LeaseExpires, PayloadExpires
<1> QED
  BY <1>1, <1>2, <1>3, <1>4, <1>5, <1>6 DEF Next

\* What a reader carries on to its next step: the row it holds or has just
\* read, what it knew or makes of that row, a board it has just built; and what
\* it puts into the cache.
LEMMA ReaderCarries ==
  ASSUME TInv, NEW r \in Readers, Read(r) \/ Fail(r) \/ Die(r)
  PROVE  /\ \/ reader'[r] \notin Asking
            \/ reader'[r] = "clock" /\ seen'[r].row = event
            \/ reader[r] = "clock" /\ reader'[r] = "counter" /\ seen'[r] = View(seen[r].row, clock)
            \/ /\ reader[r] \in Asking \ {"clock"} /\ seen'[r].row = seen[r].row
               /\ seen'[r].phase = seen[r].phase /\ seen'[r].cutoff = seen[r].cutoff
         /\ \/ reader'[r] \notin {"verify", "publish"}
            \/ seen'[r].board = Board(seen[r].row.revision, seen[r].cutoff)
            \/ reader[r] = "verify" /\ seen'[r].board = seen[r].board
         /\ \/ cache' = cache
            \/ /\ reader[r] = "publish"
               /\ cache' = [cache EXCEPT ![PhaseOf(r)] =
                              [generation |-> seen[r].known, payload |-> seen[r].board]]
<1> USE DEF Goto, Finish, redis, TInv, ReadersOK, Asking
<1>1. seen[r] \in Views
  OBVIOUS
<1>2. CASE ReadEvent(r) \/ ReadClock(r)
  BY <1>1, <1>2 DEF ReadEvent, ReadClock, Views
<1>3. CASE GetCounter(r)
  BY <1>1, <1>3 DEF GetCounter, Views
<1>4. CASE GetJson(r)
  BY <1>4 DEF GetJson
<1>5. CASE AcquireLease(r)
  BY <1>5 DEF AcquireLease
<1>6. CASE Build(r)
  BY <1>1, <1>6 DEF Build, Views
<1>7. CASE Verify(r)
  BY <1>7 DEF Verify
<1>8. CASE Publish(r)
  BY <1>8 DEF Publish
<1>9. CASE ReleaseLease(r)
  BY <1>9 DEF ReleaseLease
<1>10. CASE Fail(r)
  BY <1>10 DEF Fail
<1>11. CASE Die(r)
  BY <1>11 DEF Die
<1> QED
  BY <1>2, <1>3, <1>4, <1>5, <1>6, <1>7, <1>8, <1>9, <1>10, <1>11 DEF Read

\* Whoever is not a reader gives the readers nothing, and the cache loses at most.
LEMMA OthersTake ==
  ASSUME TInv, [Next]_vars, ~ \E r \in Readers : Read(r) \/ Fail(r) \/ Die(r)
  PROVE  UNCHANGED readers /\ \A phase \in Phases : cache'[phase] \in {cache[phase], Free}
<1> USE DEF readers, redis
<1>1. ASSUME NEW s \in Solvers, Solve(s)
      PROVE  UNCHANGED readers /\ \A phase \in Phases : cache'[phase] \in {cache[phase], Free}
  BY <1>1 DEF Solve, LockEvent, InsertSolve, CommitSolve, BumpForSolve, DeleteForSolve,
              AbandonSolve, DropPayloads
<1>2. CASE Edit
  BY <1>2 DEF Edit, BeginEdit, CommitEdit, BumpForEdit, DeleteForEdit, AbandonEdit, DropPayloads
<1>3. CASE Tick \/ UNCHANGED vars
  BY <1>3 DEF Tick, vars
<1>4. ASSUME NEW phase \in Phases, LeaseExpires(phase) \/ PayloadExpires(phase)
      PROVE  UNCHANGED readers /\ \A other \in Phases : cache'[other] \in {cache[other], Free}
  BY <1>4 DEF LeaseExpires, PayloadExpires, TInv, ReadersOK
<1> QED
  BY <1>1, <1>2, <1>3, <1>4 DEF Next

\* Every step keeps the boards faithful.
LEMMA BoardStep == TInv /\ CommitInv /\ BoardInv /\ [Next]_vars => BoardInv'
<1> SUFFICES ASSUME TInv, CommitInv, BoardInv, [Next]_vars PROVE BoardInv'
  OBVIOUS
<1> DEFINE Stays(board) == \A s \in board.solves : s \in committed'
                                                     /\ solved_at'[s] <= board.cutoff
<1>1. ASSUME NEW board, Faithful(board) PROVE Stays(board)
  BY <1>1, CommittedStay DEF Faithful
<1>2. SUFFICES
        /\ \A r \in Readers : reader'[r] \in {"verify", "publish"}
              => Stays(seen'[r].board) /\ seen'[r].board.cutoff = seen'[r].cutoff
        /\ \A phase \in Phases : cache'[phase] # Free => Stays(cache'[phase].payload)
  BY DEF BoardInv, Faithful
<1> HIDE DEF Stays
<1>3. CASE ~ \E r \in Readers : Read(r) \/ Fail(r) \/ Die(r)
  <2>1. UNCHANGED readers /\ \A phase \in Phases : cache'[phase] \in {cache[phase], Free}
    BY <1>3, OthersTake
  <2> QED
    BY <1>1, <2>1 DEF BoardInv, readers
<1>4. ASSUME NEW r \in Readers, Read(r) \/ Fail(r) \/ Die(r)
      PROVE  /\ \A q \in Readers : reader'[q] \in {"verify", "publish"}
                   => Stays(seen'[q].board) /\ seen'[q].board.cutoff = seen'[q].cutoff
             /\ \A phase \in Phases : cache'[phase] # Free => Stays(cache'[phase].payload)
  <2>1. \A q \in Readers \ {r} : reader'[q] = reader[q] /\ seen'[q] = seen[q]
    BY <1>4, OthersStay
  <2>2. ASSUME reader'[r] \in {"verify", "publish"}
        PROVE  Stays(seen'[r].board) /\ seen'[r].board.cutoff = seen'[r].cutoff
    <3>1. seen'[r].cutoff = seen[r].cutoff
      BY <1>4, <2>2, ReaderCarries DEF Asking
    <3>2. CASE seen'[r].board = Board(seen[r].row.revision, seen[r].cutoff)
      <4>1. Faithful(Board(seen[r].row.revision, seen[r].cutoff))
            /\ Board(seen[r].row.revision, seen[r].cutoff).cutoff = seen[r].cutoff
        BY DEF Faithful, Board
      <4> QED
        BY <1>1, <3>1, <3>2, <4>1
    <3>3. CASE reader[r] = "verify" /\ seen'[r].board = seen[r].board
      BY <1>1, <3>1, <3>3 DEF BoardInv
    <3> QED
      BY <1>4, <2>2, <3>2, <3>3, ReaderCarries
  <2>3. ASSUME NEW phase \in Phases, cache'[phase] # Free PROVE Stays(cache'[phase].payload)
    <3>1. CASE cache' = cache
      BY <1>1, <2>3, <3>1 DEF BoardInv
    <3>2. CASE reader[r] = "publish"
               /\ cache' = [cache EXCEPT ![PhaseOf(r)] =
                              [generation |-> seen[r].known, payload |-> seen[r].board]]
      <4>1. cache'[phase] = cache[phase] \/ cache'[phase].payload = seen[r].board
        BY <3>2 DEF TInv, ReadersOK
      <4> QED
        BY <1>1, <2>3, <3>2, <4>1 DEF BoardInv
    <3> QED
      BY <1>4, <3>1, <3>2, ReaderCarries
  <2> QED
    BY <2>1, <2>2, <2>3, <1>1 DEF BoardInv
<1> QED
  BY <1>3, <1>4

-----------------------------------------------------------------------------
(* The standings behind a freeze *)

\* A step that leaves freeze_at alone, once it has passed, settles.
LEMMA SettlesStep ==
  ASSUME TInv, CommitInv, [Next]_vars, FreezeLocked(event, clock),
         event'.freeze_at = event.freeze_at
  PROVE  Settles
<1> USE DEF Settles, FrozenSolves, InFlight, TInv, database, redis, readers
<1>1. clock \in Nat /\ event.freeze_at \in Nat /\ event.freeze_at <= clock
  BY ScoreboardAssumption, LockedIsPast DEF DatabaseOK, Rows, Time, Never
<1>2. CASE UNCHANGED <<committed, solver, solved_at>>
  BY <1>2
<1>3. ASSUME NEW s \in Solvers, Solve(s) PROVE Settles
  <2>1. CASE InsertSolve(s)
    <3>1. ~ clock + 1 <= event.freeze_at
      BY <1>1
    <3>2. s \notin committed
      BY <2>1 DEF InsertSolve, CommitInv
    <3>3. committed' = committed /\ solved_at' = [solved_at EXCEPT ![s] = clock + 1]
          /\ solver' = [solver EXCEPT ![s] = "commit"]
      BY <2>1 DEF InsertSolve
    <3>4. solved_at'[s] = clock + 1
      BY <3>3 DEF DatabaseOK
    <3>5. \A t \in Solvers \ {s} : solved_at'[t] = solved_at[t] /\ solver'[t] = solver[t]
      BY <3>3 DEF DatabaseOK, WritersOK
    <3>6. \A t \in committed : solved_at'[t] = solved_at[t]
      BY <3>2, <3>5 DEF WritersOK
    <3>7. InFlight' \subseteq InFlight
      BY <3>1, <3>4, <3>5
    <3> QED
      BY <3>3, <3>6, <3>7
  <2>2. CASE CommitSolve(s)
    BY <2>2 DEF CommitSolve, WritersOK
  <2>3. CASE AbandonSolve(s)
    BY <2>3 DEF AbandonSolve, DatabaseOK, WritersOK
  <2>4. CASE LockEvent(s) \/ BumpForSolve(s) \/ DeleteForSolve(s)
    BY <2>4 DEF LockEvent, BumpForSolve, DeleteForSolve, WritersOK
  <2> QED
    BY <1>3, <2>1, <2>2, <2>3, <2>4 DEF Solve
<1>4. CASE Edit
  BY <1>2, <1>4 DEF Edit, BeginEdit, CommitEdit, BumpForEdit, DeleteForEdit, AbandonEdit
<1>5. ASSUME NEW r \in Readers, Read(r) \/ Fail(r) \/ Die(r) PROVE Settles
  BY <1>2, <1>5, ReadersApart DEF WritersApart
<1>6. CASE Tick \/ UNCHANGED vars
  BY <1>2, <1>6 DEF Tick, vars
<1>7. ASSUME NEW phase \in Phases, LeaseExpires(phase) \/ PayloadExpires(phase) PROVE Settles
  BY <1>2, <1>7 DEF LeaseExpires, PayloadExpires
<1> QED
  BY <1>3, <1>4, <1>5, <1>6, <1>7 DEF Next

(***************************************************************************)
(* Once freeze_at has passed, and while it is not moved, the standings     *)
(* behind it gain only solves stamped before it that were still in flight, *)
(* and none joins these; and while the event is frozen by hand they do not *)
(* change at all, because update_event waits for the share locks of the    *)
(* submissions in flight before it takes its instant.                      *)
(***************************************************************************)
THEOREM StandingsBecomeFinal == Spec => FrozenStandingsSettle
<1>1. Init => CommitInv /\ FreezeInv
  BY DEF Init, CommitInv, FreezeInv
<1>2. TInv /\ CommitInv /\ FreezeInv /\ [Next]_vars
        => [/\ FreezeLocked(event, clock) /\ event'.freeze_at = event.freeze_at => Settles
            /\ event.state = "frozen" /\ event'.state = "frozen"
                 => FrozenSolves' = FrozenSolves]_vars
  BY FreezeKeeps, SettlesStep
<1> QED
  BY <1>1, <1>2, CommitStep, FreezeStep, TInvAlways, PTL DEF Spec, FrozenStandingsSettle

-----------------------------------------------------------------------------
(* Stale boards *)

Lacks(board, s) == solved_at[s] <= board.cutoff /\ s \notin board.solves

(***************************************************************************)
(* A solve is on record once it is committed and no board lacks it, be it  *)
(* cached or in the hands of a builder.                                    *)
(***************************************************************************)
OnRecord(s) ==
  /\ s \in committed
  /\ \A r \in Readers : reader[r] \in {"verify", "publish"} => ~ Lacks(seen[r].board, s)
  /\ \A phase \in Phases : cache[phase] # Free => ~ Lacks(cache[phase].payload, s)

\* Nobody builds a board that lacks a committed solve.
LEMMA RecordStep ==
  ASSUME TInv, CommitInv, [Next]_vars, NEW s \in Solvers, OnRecord(s)
  PROVE  OnRecord(s)'
<1>1. s \in committed /\ s \in committed' /\ solved_at'[s] = solved_at[s]
  BY CommittedStay DEF OnRecord
<1> DEFINE Has(board) == ~ (solved_at[s] <= board.cutoff /\ s \notin board.solves)
<1>2. /\ \A r \in Readers : reader[r] \in {"verify", "publish"} => Has(seen[r].board)
      /\ \A phase \in Phases : cache[phase] # Free => Has(cache[phase].payload)
  BY DEF OnRecord, Lacks
<1>3. SUFFICES
        /\ \A r \in Readers : reader'[r] \in {"verify", "publish"} => Has(seen'[r].board)
        /\ \A phase \in Phases : cache'[phase] # Free => Has(cache'[phase].payload)
  BY <1>1 DEF OnRecord, Lacks
<1>4. \A revision, cutoff : Has(Board(revision, cutoff))
  BY <1>1 DEF Board
<1> HIDE DEF Has
<1>5. CASE ~ \E r \in Readers : Read(r) \/ Fail(r) \/ Die(r)
  <2>1. UNCHANGED readers /\ \A phase \in Phases : cache'[phase] \in {cache[phase], Free}
    BY <1>5, OthersTake
  <2> QED
    BY <1>2, <2>1 DEF readers
<1>6. ASSUME NEW r \in Readers, Read(r) \/ Fail(r) \/ Die(r)
      PROVE  /\ \A q \in Readers : reader'[q] \in {"verify", "publish"} => Has(seen'[q].board)
             /\ \A phase \in Phases : cache'[phase] # Free => Has(cache'[phase].payload)
  <2>1. \A q \in Readers \ {r} : reader'[q] = reader[q] /\ seen'[q] = seen[q]
    BY <1>6, OthersStay
  <2>2. reader'[r] \in {"verify", "publish"} => Has(seen'[r].board)
    BY <1>2, <1>4, <1>6, ReaderCarries
  <2>3. ASSUME NEW phase \in Phases, cache'[phase] # Free PROVE Has(cache'[phase].payload)
    <3>1. CASE cache' = cache
      BY <1>2, <2>3, <3>1
    <3>2. CASE reader[r] = "publish"
               /\ cache' = [cache EXCEPT ![PhaseOf(r)] =
                              [generation |-> seen[r].known, payload |-> seen[r].board]]
      <4>1. cache'[phase] = cache[phase] \/ cache'[phase].payload = seen[r].board
        BY <3>2 DEF TInv, ReadersOK
      <4> QED
        BY <1>2, <2>3, <3>2, <4>1
    <3> QED
      BY <1>6, <3>1, <3>2, ReaderCarries
  <2> QED
    BY <1>2, <2>1, <2>2, <2>3
<1> QED
  BY <1>5, <1>6

(***************************************************************************)
(* A solve that is on record stays on record, although every INCR and DEL  *)
(* after its commit may have failed: boards that lack it are never made    *)
(* again, only carried on by the builder that made them.  What is left of  *)
(* StaleBoardsGoAway is that the ones there are expire.                    *)
(***************************************************************************)
THEOREM NobodyRestoresStaleBoards ==
  ASSUME NEW s \in Solvers PROVE Spec => [](OnRecord(s) => []OnRecord(s))
<1>1. Init => CommitInv
  BY DEF Init, CommitInv
<1>2. TInv /\ CommitInv /\ [Next]_vars /\ OnRecord(s) => OnRecord(s)'
  BY RecordStep
<1> QED
  BY <1>1, <1>2, CommitStep, TInvAlways, PTL DEF Spec

-----------------------------------------------------------------------------
(* Stale events *)

\* An edit under way makes the next revision.
RevisionInv == editor = "commit" => draft.revision > event.revision

\* Every step keeps the revision under way ahead.
LEMMA RevisionStep == TInv /\ RevisionInv /\ [Next]_vars => RevisionInv'
<1> SUFFICES ASSUME TInv, RevisionInv, [Next]_vars PROVE RevisionInv'
  OBVIOUS
<1> USE DEF RevisionInv, database, redis, readers
<1>1. ASSUME NEW s \in Solvers, Solve(s) PROVE RevisionInv'
  BY <1>1 DEF Solve, LockEvent, InsertSolve, CommitSolve, BumpForSolve, DeleteForSolve,
              AbandonSolve
<1>2. CASE BeginEdit
  <2>1. event.revision \in Nat
    BY ScoreboardAssumption DEF TInv, DatabaseOK, Rows
  <2> QED
    BY <1>2, <2>1 DEF BeginEdit, Edited
<1>3. CASE CommitEdit \/ BumpForEdit \/ DeleteForEdit \/ AbandonEdit
  BY <1>3 DEF CommitEdit, BumpForEdit, DeleteForEdit, AbandonEdit
<1>4. ASSUME NEW r \in Readers, Read(r) \/ Fail(r) \/ Die(r) PROVE RevisionInv'
  BY <1>4, ReadersApart DEF WritersApart
<1>5. CASE Tick \/ UNCHANGED vars
  BY <1>5 DEF Tick, vars
<1>6. ASSUME NEW phase \in Phases, LeaseExpires(phase) \/ PayloadExpires(phase)
      PROVE  RevisionInv'
  BY <1>6 DEF LeaseExpires, PayloadExpires
<1> QED
  BY <1>1, <1>2, <1>3, <1>4, <1>5, <1>6 DEF Next, Edit

\* The event stays as it is or becomes one of a later revision.
LEMMA RevisionsAdvance ==
  ASSUME TInv, RevisionInv, [Next]_vars
  PROVE  event' = event \/ event'.revision > event.revision
<1> USE DEF database, redis, readers
<1>1. ASSUME NEW s \in Solvers, Solve(s) PROVE event' = event
  BY <1>1 DEF Solve, LockEvent, InsertSolve, CommitSolve, BumpForSolve, DeleteForSolve,
              AbandonSolve
<1>2. CASE CommitEdit
  BY <1>2 DEF CommitEdit, RevisionInv
<1>3. CASE BeginEdit \/ BumpForEdit \/ DeleteForEdit \/ AbandonEdit
  BY <1>3 DEF BeginEdit, BumpForEdit, DeleteForEdit, AbandonEdit
<1>4. ASSUME NEW r \in Readers, Read(r) \/ Fail(r) \/ Die(r) PROVE event' = event
  BY <1>4, ReadersApart DEF WritersApart
<1>5. CASE Tick \/ UNCHANGED vars
  BY <1>5 DEF Tick, vars
<1>6. ASSUME NEW phase \in Phases, LeaseExpires(phase) \/ PayloadExpires(phase)
      PROVE  event' = event
  BY <1>6 DEF LeaseExpires, PayloadExpires
<1> QED
  BY <1>1, <1>2, <1>3, <1>4, <1>5, <1>6 DEF Next, Edit

(***************************************************************************)
(* Revision v of the event is known everywhere once it is committed, every *)
(* request under way has read it or a later one, and so has whoever built  *)
(* a board that is held or cached.                                         *)
(***************************************************************************)
Known(v) ==
  /\ event.revision >= v
  /\ \A r \in Readers : reader[r] \in Asking => seen[r].row.revision >= v
  /\ \A r \in Readers : reader[r] \in {"verify", "publish"} => seen[r].board.revision >= v
  /\ \A phase \in Phases : cache[phase] # Free => cache[phase].payload.revision >= v

\* Nobody goes back behind a revision that is known everywhere.
LEMMA KnownStep ==
  ASSUME TInv, RevisionInv, [Next]_vars, NEW v \in Nat, Known(v)
  PROVE  Known(v)'
<1>1. event.revision \in Nat /\ event'.revision \in Nat /\ event.revision <= event'.revision
  <2>1. event.revision \in Nat /\ event'.revision \in Nat
    BY ScoreboardAssumption, NextTypes DEF TInv, DatabaseOK, Rows
  <2> QED
    BY <2>1, RevisionsAdvance
<1> DEFINE Recent(revision) == revision >= v
<1>2. /\ Recent(event.revision)
      /\ \A r \in Readers : reader[r] \in Asking => Recent(seen[r].row.revision)
      /\ \A r \in Readers : reader[r] \in {"verify", "publish"} => Recent(seen[r].board.revision)
      /\ \A phase \in Phases : cache[phase] # Free => Recent(cache[phase].payload.revision)
  BY DEF Known
<1>3. Recent(event'.revision)
  BY <1>1, <1>2
<1>4. SUFFICES
        /\ \A r \in Readers : reader'[r] \in Asking => Recent(seen'[r].row.revision)
        /\ \A r \in Readers : reader'[r] \in {"verify", "publish"}
                                => Recent(seen'[r].board.revision)
        /\ \A phase \in Phases : cache'[phase] # Free => Recent(cache'[phase].payload.revision)
  BY <1>3 DEF Known
<1> HIDE DEF Recent
<1>5. CASE ~ \E r \in Readers : Read(r) \/ Fail(r) \/ Die(r)
  <2>1. UNCHANGED readers /\ \A phase \in Phases : cache'[phase] \in {cache[phase], Free}
    BY <1>5, OthersTake
  <2> QED
    BY <1>2, <2>1 DEF readers
<1>6. ASSUME NEW r \in Readers, Read(r) \/ Fail(r) \/ Die(r)
      PROVE  /\ \A q \in Readers : reader'[q] \in Asking => Recent(seen'[q].row.revision)
             /\ \A q \in Readers : reader'[q] \in {"verify", "publish"}
                                     => Recent(seen'[q].board.revision)
             /\ \A phase \in Phases : cache'[phase] # Free
                                         => Recent(cache'[phase].payload.revision)
  <2>1. \A q \in Readers \ {r} : reader'[q] = reader[q] /\ seen'[q] = seen[q]
    BY <1>6, OthersStay
  <2>2. reader'[r] \in Asking => Recent(seen'[r].row.revision)
    <3>1. View(seen[r].row, clock).row = seen[r].row
      BY DEF View
    <3> QED
      BY <1>2, <1>6, <3>1, ReaderCarries DEF Asking
  <2>3. reader'[r] \in {"verify", "publish"} => Recent(seen'[r].board.revision)
    <3>1. Board(seen[r].row.revision, seen[r].cutoff).revision = seen[r].row.revision
      BY DEF Board
    <3>2. seen'[r].board = Board(seen[r].row.revision, seen[r].cutoff)
            /\ reader'[r] \in {"verify", "publish"} => Recent(seen[r].row.revision)
      BY <1>2, <1>6, ReaderCarries DEF Asking
    <3> QED
      BY <1>2, <1>6, <3>1, <3>2, ReaderCarries
  <2>4. ASSUME NEW phase \in Phases, cache'[phase] # Free
        PROVE  Recent(cache'[phase].payload.revision)
    <3>1. CASE cache' = cache
      BY <1>2, <2>4, <3>1
    <3>2. CASE reader[r] = "publish"
               /\ cache' = [cache EXCEPT ![PhaseOf(r)] =
                              [generation |-> seen[r].known, payload |-> seen[r].board]]
      <4>1. cache'[phase] = cache[phase] \/ cache'[phase].payload = seen[r].board
        BY <3>2 DEF TInv, ReadersOK
      <4> QED
        BY <1>2, <2>4, <3>2, <4>1
    <3> QED
      BY <1>6, <3>1, <3>2, ReaderCarries
  <2> QED
    BY <1>2, <2>1, <2>2, <2>3, <2>4
<1> QED
  BY <1>5, <1>6

(***************************************************************************)
(* A revision that is known everywhere stays known: boards of an earlier   *)
(* one are not made again, although the INCR and the DELs of the edit may  *)
(* all have failed.  This bounds what `scoreboard_stale_event` finds: the  *)
(* stale boards it shows are those of requests that had read the event     *)
(* before the edit was committed, and end with them.                       *)
(***************************************************************************)
THEOREM NobodyRestoresStaleEvents ==
  ASSUME NEW v \in Nat PROVE Spec => [](Known(v) => []Known(v))
<1>1. Init => RevisionInv
  BY DEF Init, RevisionInv
<1>2. TInv /\ RevisionInv /\ [Next]_vars /\ Known(v) => Known(v)'
  BY KnownStep
<1> QED
  BY <1>1, <1>2, RevisionStep, TInvAlways, PTL DEF Spec

-----------------------------------------------------------------------------
(* The frozen board *)

\* A revision is a row: what has the event's revision has its freeze_at.
Current(row) ==
  /\ row.revision <= event.revision
  /\ row.revision = event.revision => row.freeze_at = event.freeze_at

\* A board filed as frozen is cut at the freeze_at of its own row.
CutAtFreeze(board) ==
  /\ board.revision <= event.revision
  /\ board.revision = event.revision => board.cutoff = event.freeze_at

(***************************************************************************)
(* Rows are those of the revision they carry, whenever they were read; who *)
(* finds its row frozen cuts at the freeze_at of that row, builds its      *)
(* board from it, and is the only one who files a board as frozen.         *)
(***************************************************************************)
RowInv ==
  /\ \A r \in Readers : reader[r] \in Asking => Current(seen[r].row)
  /\ \A r \in Readers : reader[r] \in Asking \ {"clock"} /\ seen[r].phase = "frozen"
                          => seen[r].cutoff = seen[r].row.freeze_at
  /\ \A r \in Readers : reader[r] \in {"verify", "publish"}
                          => seen[r].board.revision = seen[r].row.revision
  /\ cache["frozen"] # Free => CutAtFreeze(cache["frozen"].payload)

\* Every step keeps rows, boards and payloads with their revision.
LEMMA RowStep == TInv /\ RevisionInv /\ BoardInv /\ RowInv /\ [Next]_vars => RowInv'
<1> SUFFICES ASSUME TInv, RevisionInv, BoardInv, RowInv, [Next]_vars PROVE RowInv'
  OBVIOUS
<1>1. event.revision \in Nat /\ event'.revision \in Nat
  BY ScoreboardAssumption, NextTypes DEF TInv, DatabaseOK, Rows
<1>2. event' = event \/ event'.revision > event.revision
  BY RevisionsAdvance
<1> DEFINE Present(row) == /\ row.revision <= event'.revision
                           /\ row.revision = event'.revision => row.freeze_at = event'.freeze_at
           Cut(board) == /\ board.revision <= event'.revision
                         /\ board.revision = event'.revision => board.cutoff = event'.freeze_at
           Own(view) == view.phase = "frozen" => view.cutoff = view.row.freeze_at
<1>3. ASSUME NEW row \in Rows, Current(row) PROVE Present(row)
  <2>1. row.revision \in Nat
    BY ScoreboardAssumption DEF Rows
  <2> QED
    BY <1>1, <1>2, <1>3, <2>1 DEF Current
<1>4. ASSUME NEW board \in Boards, CutAtFreeze(board) PROVE Cut(board)
  <2>1. board.revision \in Nat
    BY ScoreboardAssumption DEF Boards
  <2> QED
    BY <1>1, <1>2, <1>4, <2>1 DEF CutAtFreeze
<1>5. \A row : Own(View(row, clock))
  BY DEF View, Phase, Cutoff, IsFrozen
<1>6. SUFFICES
        /\ \A r \in Readers : reader'[r] \in Asking => Present(seen'[r].row)
        /\ \A r \in Readers : reader'[r] \in Asking \ {"clock"} => Own(seen'[r])
        /\ \A r \in Readers : reader'[r] \in {"verify", "publish"}
                                => seen'[r].board.revision = seen'[r].row.revision
        /\ cache'["frozen"] # Free => Cut(cache'["frozen"].payload)
  BY DEF RowInv, Current, CutAtFreeze
<1>7. Current(event)
  BY <1>1 DEF Current
<1>8. "frozen" \in Phases
  BY DEF Phases
<1>9. /\ \A r \in Readers : seen[r].row \in Rows
      /\ cache["frozen"] # Free => cache["frozen"].payload \in Boards
      /\ event \in Rows
  BY <1>8 DEF TInv, ReadersOK, DatabaseOK, Views, Payloads
<1>10. \A r \in Readers : reader[r] \in Asking \ {"clock"} => Own(seen[r])
  BY DEF RowInv
<1> HIDE DEF Present, Cut, Own
<1>11. CASE ~ \E r \in Readers : Read(r) \/ Fail(r) \/ Die(r)
  <2>1. UNCHANGED readers /\ \A phase \in Phases : cache'[phase] \in {cache[phase], Free}
    BY <1>11, OthersTake
  <2> QED
    BY <1>3, <1>4, <1>8, <1>9, <1>10, <2>1 DEF RowInv, readers
<1>12. ASSUME NEW r \in Readers, Read(r) \/ Fail(r) \/ Die(r)
       PROVE  /\ \A q \in Readers : reader'[q] \in Asking => Present(seen'[q].row)
              /\ \A q \in Readers : reader'[q] \in Asking \ {"clock"} => Own(seen'[q])
              /\ \A q \in Readers : reader'[q] \in {"verify", "publish"}
                                      => seen'[q].board.revision = seen'[q].row.revision
              /\ cache'["frozen"] # Free => Cut(cache'["frozen"].payload)
  <2>1. \A q \in Readers \ {r} : reader'[q] = reader[q] /\ seen'[q] = seen[q]
    BY <1>12, OthersStay
  <2>2. reader'[r] \in Asking => Present(seen'[r].row)
    <3>1. View(seen[r].row, clock).row = seen[r].row
      BY DEF View
    <3> QED
      BY <1>3, <1>7, <1>9, <1>12, <3>1, ReaderCarries DEF RowInv, Asking
  <2>3. reader'[r] \in Asking \ {"clock"} => Own(seen'[r])
    <3>1. CASE reader[r] = "clock" /\ seen'[r] = View(seen[r].row, clock)
      BY <1>5, <3>1
    <3>2. CASE /\ reader[r] \in Asking \ {"clock"} /\ seen'[r].row = seen[r].row
               /\ seen'[r].phase = seen[r].phase /\ seen'[r].cutoff = seen[r].cutoff
      BY <1>10, <3>2 DEF Own
    <3> QED
      BY <1>12, <3>1, <3>2, ReaderCarries
  <2>4. reader'[r] \in {"verify", "publish"} => seen'[r].board.revision = seen'[r].row.revision
    <3> SUFFICES ASSUME reader'[r] \in {"verify", "publish"}
                 PROVE  seen'[r].board.revision = seen'[r].row.revision
      OBVIOUS
    <3>1. seen'[r].row = seen[r].row
      BY <1>12, ReaderCarries DEF Asking
    <3>2. Board(seen[r].row.revision, seen[r].cutoff).revision = seen[r].row.revision
      BY DEF Board
    <3> QED
      BY <1>12, <3>1, <3>2, ReaderCarries DEF RowInv
  <2>5. ASSUME cache'["frozen"] # Free PROVE Cut(cache'["frozen"].payload)
    <3>1. CASE cache' = cache
      BY <1>4, <1>9, <2>5, <3>1 DEF RowInv
    <3>2. CASE reader[r] = "publish"
               /\ cache' = [cache EXCEPT ![PhaseOf(r)] =
                              [generation |-> seen[r].known, payload |-> seen[r].board]]
      <4>1. \/ cache'["frozen"] = cache["frozen"]
            \/ PhaseOf(r) = "frozen" /\ cache'["frozen"].payload = seen[r].board
        BY <1>8, <3>2 DEF TInv, ReadersOK
      <4>2. PhaseOf(r) = "frozen" => CutAtFreeze(seen[r].board)
        BY <3>2 DEF RowInv, BoardInv, Asking, Current, CutAtFreeze, PhaseOf
      <4>3. seen[r].board \in Boards
        BY <3>2 DEF TInv, BuiltInv
      <4> QED
        BY <1>4, <1>9, <2>5, <4>1, <4>2, <4>3 DEF RowInv
    <3> QED
      BY <1>12, <3>1, <3>2, ReaderCarries
  <2> QED
    BY <1>3, <1>9, <1>10, <2>1, <2>2, <2>3, <2>4, <2>5 DEF RowInv
<1> QED
  BY <1>11, <1>12

(***************************************************************************)
(* No payload of the event as it is shows, on a frozen scoreboard, a solve *)
(* later than freeze_at: however long a builder takes between its row, its *)
(* instant, its board and its publication, whatever update_event commits   *)
(* and the clock does in between, even where freeze_at is moved.  Payloads *)
(* of an older row are left, and NobodyRestoresStaleEvents bounds these.   *)
(***************************************************************************)
THEOREM FreezeHides == Spec => []FreezeHidesLaterSolves
<1>1. Init => CommitInv /\ RevisionInv /\ BoardInv /\ RowInv
  BY DEF Init, CommitInv, RevisionInv, BoardInv, RowInv, Asking, Phases
<1>2. BoardInv /\ RowInv => FreezeHidesLaterSolves
  <2> SUFFICES ASSUME BoardInv, RowInv, IsFrozen(event, clock), cache["frozen"] # Free,
                      cache["frozen"].payload.revision = event.revision,
                      NEW s \in cache["frozen"].payload.solves
               PROVE  solved_at[s] <= event.freeze_at
    BY DEF FreezeHidesLaterSolves, Phase, IsFrozen, Servable
  <2> QED
    BY DEF BoardInv, RowInv, CutAtFreeze, Faithful, Phases
<1> QED
  BY <1>1, <1>2, CommitStep, RevisionStep, BoardStep, RowStep, TInvAlways, PTL DEF Spec

=============================================================================
