------------------------- MODULE SubmissionsProofs --------------------------
(***************************************************************************)
(* What the row locks of submit_flag guarantee, for any number of          *)
(* requests, users, teams and challenges.                                  *)
(***************************************************************************)
EXTENDS Submissions, FiniteSetTheorems, TLAPS

USE DEF HoldsTeamAt, HoldsMemberAt, HoldsUserAt, HoldsEventAt, HoldsKeyAt

-----------------------------------------------------------------------------
(* A deletion *)

\* Only a challenge nobody has attempted is deleted, so no attempt goes with it.
LEMMA DeletionKeepsRows ==
  ASSUME NEW c \in Challenges, DeleteChallenge(c)
  PROVE  /\ UNCHANGED <<pc, call, team, correct, ordinal, lockedChallenge, reply, stored>>
         /\ UNCHANGED <<member, active, revoked, state, window>>
BY DEF DeleteChallenge, Erase, judgement, accounts

\* Of the progress of a request the competing transactions change nothing.
LEMMA CompeteKeepsRequests ==
  ASSUME Compete
  PROVE  UNCHANGED <<pc, call, team, correct, ordinal, lockedChallenge, reply, stored>>
BY DeletionKeepsRows DEF Compete, AdvanceEvent, ClockTick, UpdateChallenge, Reveal, Suspend,
   Reactivate, RotateCredentials, LeaveTeam, JoinTeam, LogOut, Untouched, judgement

-----------------------------------------------------------------------------
(* Types *)

\* Only finitely many attempts can be stored, so solves can be counted.
LEMMA SolvesFinite ==
  ASSUME stored \subseteq Requests, NEW c
  PROVE  IsFiniteSet(SolvesOf(c))
BY SubmissionsAssumption, FS_Subset DEF SolvesOf

(***************************************************************************)
(* Every variable keeps its type, whatever submit_flag and the             *)
(* transactions competing with it do.                                      *)
(***************************************************************************)
THEOREM TypeCorrect == Spec => []TypeOK
<1>1. Init => TypeOK
  <2> SUFFICES ASSUME Init PROVE TypeOK OBVIOUS
  <2>1. state \in {EVENT_STATES[i] : i \in 1..6}
    BY DEF Init, EVENT_STATES
  <2> QED
    BY <2>1, SubmissionsAssumption DEF Init, TypeOK, Labels
<1>2. TypeOK /\ [Next]_vars => TypeOK'
  <2> SUFFICES ASSUME TypeOK, [Next]_vars PROVE TypeOK'
    OBVIOUS
  <2> USE DEF TypeOK, progress, judgement, accounts, rules, Labels
  <2>1. ASSUME NEW r \in Requests, Authenticate(r) PROVE TypeOK'
    BY <2>1 DEF Authenticate, Proceed, Answer, Refusals
  <2>2. ASSUME NEW r \in Requests, LockEvent(r) PROVE TypeOK'
    BY <2>2 DEF LockEvent, Proceed, Answer, Refusals
  <2>3. ASSUME NEW r \in Requests, ReadMembership(r) PROVE TypeOK'
    <3>1. call[r].user \in Users
      BY SubmissionsAssumption
    <3>2. member[call[r].user] \in Teams \union {NoTeam}
      BY <3>1
    <3> QED
      BY <2>3, <3>2 DEF ReadMembership, Proceed, Answer, Refusals
  <2>4. ASSUME NEW r \in Requests, CheckReplay(r) PROVE TypeOK'
    BY <2>4 DEF CheckReplay, SameKey, Attempts, Proceed, Answer, Refusals
  <2>5. ASSUME NEW r \in Requests, LockUser(r) PROVE TypeOK'
    BY <2>5 DEF LockUser, Proceed, Answer, Refusals
  <2>6. ASSUME NEW r \in Requests, LockMembership(r) PROVE TypeOK'
    BY <2>6 DEF LockMembership, Proceed, Answer, Refusals
  <2>7. ASSUME NEW r \in Requests, LockTeam(r) PROVE TypeOK'
    BY <2>7 DEF LockTeam, SameKey, Attempts, Proceed, Answer, Refusals
  <2>8. ASSUME NEW r \in Requests, Judge(r) PROVE TypeOK'
    BY <2>8 DEF Judge, Obstacle, Comparison, Proceed, Answer, Refusals
  <2>9. ASSUME NEW r \in Requests, LockChallenge(r) PROVE TypeOK'
    BY <2>9 DEF LockChallenge, Comparison, Proceed, Answer, Refusals
  <2>10. ASSUME NEW r \in Requests, Insert(r) PROVE TypeOK'
    <3>1. Cardinality(SolvesOf(call[r].challenge)) \in Nat
      BY SolvesFinite, FS_CardinalityType
    <3> QED
      BY <2>10, <3>1 DEF Insert, Winner, SameKey, Attempts, Proceed, Answer, Refusals
  <2>11. ASSUME NEW r \in Requests, Recheck(r) PROVE TypeOK'
    BY <2>11 DEF Recheck, Proceed, Answer, Refusals
  <2>12. ASSUME NEW r \in Requests, Commit(r) PROVE TypeOK'
    BY <2>12 DEF Commit, Answer, Refusals
  <2>13. ASSUME NEW r \in Requests, Abort(r) PROVE TypeOK'
    BY <2>13 DEF Abort, Answer, Refusals
  <2>14. CASE Compete
    <3> USE DEF Untouched
    <3>1. CASE AdvanceEvent
      <4>1. \A i \in 1..5 : i + 1 \in 1..6
        OBVIOUS
      <4>2. state' \in {EVENT_STATES[i] : i \in 1..6}
        BY <3>1, <4>1 DEF AdvanceEvent
      <4> QED
        BY <3>1, <4>2 DEF AdvanceEvent
    <3>2. CASE ClockTick
      BY <3>2 DEF ClockTick
    <3>3. ASSUME NEW c \in Challenges, UpdateChallenge(c) PROVE TypeOK'
      BY <3>3, SubmissionsAssumption DEF UpdateChallenge
    <3>4. ASSUME NEW c \in Challenges, Reveal(c) PROVE TypeOK'
      BY <3>4 DEF Reveal, Setting
    <3>5. ASSUME NEW u \in Users, Suspend(u) PROVE TypeOK'
      BY <3>5 DEF Suspend, InFlightOf
    <3>6. ASSUME NEW u \in Users, Reactivate(u) PROVE TypeOK'
      BY <3>6 DEF Reactivate
    <3>7. ASSUME NEW u \in Users, RotateCredentials(u) PROVE TypeOK'
      BY <3>7 DEF RotateCredentials, InFlightOf
    <3>8. ASSUME NEW u \in Users, LeaveTeam(u) PROVE TypeOK'
      BY <3>8 DEF LeaveTeam
    <3>9. ASSUME NEW u \in Users, NEW t \in Teams, JoinTeam(u, t) PROVE TypeOK'
      BY <3>9 DEF JoinTeam
    <3>10. ASSUME NEW r \in Requests, LogOut(r) PROVE TypeOK'
      BY <3>10 DEF LogOut
    <3>11. ASSUME NEW c \in Challenges, DeleteChallenge(c) PROVE TypeOK'
      <4>1. challenges' \in [Challenges -> Setting]
        BY <3>11 DEF DeleteChallenge, Erase, Setting
      <4> QED
        BY <3>11, <4>1, DeletionKeepsRows
    <3> QED
      BY <2>14, <3>1, <3>2, <3>3, <3>4, <3>5, <3>6, <3>7, <3>8, <3>9, <3>10, <3>11 DEF Compete
  <2>15. CASE UNCHANGED vars
    BY <2>15 DEF vars
  <2> QED
    BY <2>1, <2>2, <2>3, <2>4, <2>5, <2>6, <2>7, <2>8, <2>9, <2>10, <2>11, <2>12,
       <2>13, <2>14, <2>15 DEF Next, Step
<1> QED
  BY <1>1, <1>2, PTL DEF Spec

-----------------------------------------------------------------------------
(* Row locks exclude *)

(***************************************************************************)
(* The share lock on the Event row pins the event state, and no two        *)
(* requests hold the same User, Team or Challenge row.                     *)
(***************************************************************************)
LockInv ==
  /\ \A r \in Requests : pc[r] \in HoldsEventAt => state \in {"live", "frozen"}
  /\ \A q, r \in Requests :
       /\ q # r /\ pc[q] \in HoldsUserAt /\ pc[r] \in HoldsUserAt
       => call[q].user # call[r].user
  /\ \A q, r \in Requests :
       /\ q # r /\ pc[q] \in HoldsTeamAt /\ pc[r] \in HoldsTeamAt
       => team[q] # team[r]
  /\ \A q, r \in lockedChallenge : q # r => call[q].challenge # call[r].challenge
  /\ \A r \in lockedChallenge : pc[r] \in {"insert", "recheck", "commit"}
  /\ \A r \in Requests :
       correct[r] /\ pc[r] \in {"insert", "recheck", "commit"} => r \in lockedChallenge

\* A lock is granted only while nobody else holds the row, and an exclusive
\* lock on the Event row only while no request holds its share lock.
LEMMA LockInvStep == TypeOK /\ LockInv /\ [Next]_vars => LockInv'
<1> SUFFICES ASSUME TypeOK, LockInv, [Next]_vars PROVE LockInv'
  OBVIOUS
<1> USE DEF TypeOK, LockInv, judgement, accounts, rules
<1>1. ASSUME NEW r \in Requests, Authenticate(r) PROVE LockInv'
  BY <1>1 DEF Authenticate, Proceed, Answer
<1>2. ASSUME NEW r \in Requests, LockEvent(r) PROVE LockInv'
  BY <1>2 DEF LockEvent, SubmissionsOpen, Proceed, Answer
<1>3. ASSUME NEW r \in Requests, ReadMembership(r) PROVE LockInv'
  BY <1>3 DEF ReadMembership, Proceed, Answer
<1>4. ASSUME NEW r \in Requests, CheckReplay(r) PROVE LockInv'
  BY <1>4 DEF CheckReplay, Proceed, Answer
<1>5. ASSUME NEW r \in Requests, LockUser(r) PROVE LockInv'
  BY <1>5 DEF LockUser, UserFree, Proceed, Answer
<1>6. ASSUME NEW r \in Requests, LockMembership(r) PROVE LockInv'
  BY <1>6 DEF LockMembership, Proceed, Answer
<1>7. ASSUME NEW r \in Requests, LockTeam(r) PROVE LockInv'
  BY <1>7 DEF LockTeam, TeamFree, Proceed, Answer
<1>8. ASSUME NEW r \in Requests, Judge(r) PROVE LockInv'
  BY <1>8 DEF Judge, Obstacle, Proceed, Answer
<1>9. ASSUME NEW r \in Requests, LockChallenge(r) PROVE LockInv'
  BY <1>9 DEF LockChallenge, ChallengeFree, Proceed, Answer
<1>10. ASSUME NEW r \in Requests, Insert(r) PROVE LockInv'
  BY <1>10 DEF Insert, Proceed, Answer
<1>11. ASSUME NEW r \in Requests, Recheck(r) PROVE LockInv'
  BY <1>11 DEF Recheck, Proceed, Answer
<1>12. ASSUME NEW r \in Requests, Commit(r) PROVE LockInv'
  BY <1>12 DEF Commit, Answer
<1>13. ASSUME NEW r \in Requests, Abort(r) PROVE LockInv'
  BY <1>13 DEF Abort, Answer
<1>14. CASE AdvanceEvent
  BY <1>14 DEF AdvanceEvent, EventFree, Untouched
<1>15. CASE Compete /\ ~ AdvanceEvent
  <2>1. UNCHANGED <<pc, call, team, correct, lockedChallenge, state>>
    BY <1>15, CompeteKeepsRequests, DeletionKeepsRows
       DEF Compete, ClockTick, UpdateChallenge, Reveal, Suspend, Reactivate,
           RotateCredentials, LeaveTeam, JoinTeam, LogOut
  <2> QED
    BY <2>1
<1>16. CASE UNCHANGED vars
  BY <1>16 DEF vars
<1> QED
  BY <1>1, <1>2, <1>3, <1>4, <1>5, <1>6, <1>7, <1>8, <1>9, <1>10, <1>11, <1>12, <1>13, <1>14, <1>15, <1>16 DEF Next, Step

-----------------------------------------------------------------------------
(* Who may have an attempt stored *)

(***************************************************************************)
(* A request that holds its User row has a valid session, and the team it  *)
(* read without a lock is its user's team until it ends.                   *)
(***************************************************************************)
EntitledInv ==
  /\ \A r \in Requests : pc[r] \in HoldsUserAt => SessionValid(r)
  /\ \A r \in Requests :
       pc[r] \in HoldsEventAt \ {"membership"} => member[call[r].user] = team[r]

\* Suspension, credential rotation and logout wait for the User row; team
\* changes need the registration state, which no request in flight is in.
LEMMA EntitledInvStep ==
  TypeOK /\ LockInv /\ EntitledInv /\ [Next]_vars => EntitledInv'
<1> SUFFICES ASSUME TypeOK, LockInv, EntitledInv, [Next]_vars PROVE EntitledInv'
  OBVIOUS
<1> USE DEF TypeOK, EntitledInv, SessionValid, judgement, accounts, rules
<1>1. ASSUME NEW r \in Requests, Authenticate(r) PROVE EntitledInv'
  BY <1>1 DEF Authenticate, Proceed, Answer
<1>2. ASSUME NEW r \in Requests, LockEvent(r) PROVE EntitledInv'
  BY <1>2 DEF LockEvent, Proceed, Answer
<1>3. ASSUME NEW r \in Requests, ReadMembership(r) PROVE EntitledInv'
  BY <1>3 DEF ReadMembership, Proceed, Answer
<1>4. ASSUME NEW r \in Requests, CheckReplay(r) PROVE EntitledInv'
  BY <1>4 DEF CheckReplay, Proceed, Answer
<1>5. ASSUME NEW r \in Requests, LockUser(r) PROVE EntitledInv'
  BY <1>5 DEF LockUser, Proceed, Answer
<1>6. ASSUME NEW r \in Requests, LockMembership(r) PROVE EntitledInv'
  BY <1>6 DEF LockMembership, Proceed, Answer
<1>7. ASSUME NEW r \in Requests, LockTeam(r) PROVE EntitledInv'
  BY <1>7 DEF LockTeam, Proceed, Answer
<1>8. ASSUME NEW r \in Requests, Judge(r) PROVE EntitledInv'
  BY <1>8 DEF Judge, Proceed, Answer
<1>9. ASSUME NEW r \in Requests, LockChallenge(r) PROVE EntitledInv'
  BY <1>9 DEF LockChallenge, Proceed, Answer
<1>10. ASSUME NEW r \in Requests, Insert(r) PROVE EntitledInv'
  BY <1>10 DEF Insert, Proceed, Answer
<1>11. ASSUME NEW r \in Requests, Recheck(r) PROVE EntitledInv'
  BY <1>11 DEF Recheck, Proceed, Answer
<1>12. ASSUME NEW r \in Requests, Commit(r) PROVE EntitledInv'
  BY <1>12 DEF Commit, Answer
<1>13. ASSUME NEW r \in Requests, Abort(r) PROVE EntitledInv'
  BY <1>13 DEF Abort, Answer
<1>14. CASE Compete
  <2> USE DEF Untouched
  <2>1. CASE AdvanceEvent
    BY <2>1 DEF AdvanceEvent
  <2>2. CASE ClockTick
    BY <2>2 DEF ClockTick
  <2>3. ASSUME NEW c \in Challenges, UpdateChallenge(c) \/ Reveal(c) PROVE EntitledInv'
    BY <2>3 DEF UpdateChallenge, Reveal
  <2>4. ASSUME NEW u \in Users, Suspend(u) \/ RotateCredentials(u) PROVE EntitledInv'
    BY <2>4 DEF Suspend, RotateCredentials, InFlightOf, UserFree
  <2>5. ASSUME NEW u \in Users, Reactivate(u) PROVE EntitledInv'
    BY <2>5 DEF Reactivate
  <2>6. ASSUME NEW u \in Users, TeamChangesOpen(u), UNCHANGED <<active, revoked>>, Untouched
        PROVE  EntitledInv'
    BY <2>6 DEF TeamChangesOpen, LockInv
  <2>7. ASSUME NEW r \in Requests, LogOut(r) PROVE EntitledInv'
    BY <2>7 DEF LogOut, UserFree
  <2>8. ASSUME NEW c \in Challenges, DeleteChallenge(c) PROVE EntitledInv'
    BY <2>8, DeletionKeepsRows
  <2> QED
    BY <1>14, <2>1, <2>2, <2>3, <2>4, <2>5, <2>6, <2>7, <2>8 DEF Compete, JoinTeam, LeaveTeam
<1>15. CASE UNCHANGED vars
  BY <1>15 DEF vars
<1> QED
  BY <1>1, <1>2, <1>3, <1>4, <1>5, <1>6, <1>7, <1>8, <1>9, <1>10, <1>11, <1>12, <1>13, <1>14, <1>15 DEF Next, Step

-----------------------------------------------------------------------------
(* What is stored *)

(***************************************************************************)
(* While a request holds its Team row nothing is stored for the same       *)
(* attempt, and from its judgement on its team has not solved the          *)
(* challenge: what it saw under the lock is still so when it commits.      *)
(***************************************************************************)
RowInv ==
  /\ \A r \in stored : pc[r] = "done"
  /\ \A r \in Requests : pc[r] # "done" => reply[r] = "none"
  /\ GradedOnce
  /\ \A r \in Requests :
       pc[r] \in HoldsTeamAt \ {"judge"} => ~ Solved(team[r], call[r].challenge)

\* What every Solved, SameKey and Attempts is read from.
LEMMA RowsUnchanged ==
  ASSUME UNCHANGED <<call, stored>>,
         \A q \in stored : team'[q] = team[q] /\ correct'[q] = correct[q]
  PROVE  /\ \A t, c : Attempts(t, c)' = Attempts(t, c)
         /\ \A t, c : Solved(t, c)' = Solved(t, c)
BY DEF Attempts, Solved, SolvesOf

\* A refusal, or an answer that is lost, stores nothing.
LEMMA RefusalKeepsRows ==
  ASSUME TypeOK, RowInv, NEW r \in Requests, NEW here, NEW a \in Refusals, UNCHANGED stored,
         Answer(r, here, a)
  PROVE  RowInv'
<1>1. a \notin Requests
  BY SubmissionsAssumption
<1>2. /\ \A t, c : Attempts(t, c)' = Attempts(t, c)
      /\ \A t, c : Solved(t, c)' = Solved(t, c)
  BY RowsUnchanged DEF Answer, judgement
<1>3. \A q \in Requests : SameKey(q)' = SameKey(q)
  BY <1>2 DEF SameKey, Answer, judgement
<1> QED
  BY <1>1, <1>2, <1>3 DEF TypeOK, RowInv, GradedOnce, Answer, judgement

\* A replay stores nothing and reports the attempt that has its key.
LEMMA ReplayKeepsRows ==
  ASSUME TypeOK, RowInv, NEW r \in Requests, NEW here, NEW a \in SameKey(r), UNCHANGED stored,
         Answer(r, here, a)
  PROVE  RowInv'
<1>1. a \in Requests /\ a \notin Refusals
  BY SubmissionsAssumption DEF SameKey, Attempts, TypeOK
<1>2. /\ \A t, c : Attempts(t, c)' = Attempts(t, c)
      /\ \A t, c : Solved(t, c)' = Solved(t, c)
  BY RowsUnchanged DEF Answer, judgement
<1>3. \A q \in Requests : SameKey(q)' = SameKey(q)
  BY <1>2 DEF SameKey, Answer, judgement
<1> QED
  BY <1>1, <1>2, <1>3
     DEF TypeOK, RowInv, GradedOnce, Answer, judgement, Refusals

\* A step to the next statement stores nothing; what a request must know to
\* reach a statement under the Team row lock are the last two assumptions.
LEMMA ProceedKeepsRows ==
  ASSUME TypeOK, RowInv, NEW r \in Requests, NEW here, NEW next, Proceed(r, here, next),
         here # "done", next # "done",
         \A q \in Requests \ {r} : team'[q] = team[q] /\ correct'[q] = correct[q],
         next \in HoldsTeamAt => team'[r] = team[r] /\ SameKey(r) = {},
         next \in HoldsTeamAt \ {"judge"} => ~ Solved(team[r], call[r].challenge)
  PROVE  RowInv'
<1>1. \A q \in stored : q # r
  BY DEF RowInv, Proceed
<1>2. /\ \A t, c : Attempts(t, c)' = Attempts(t, c)
      /\ \A t, c : Solved(t, c)' = Solved(t, c)
  BY <1>1, RowsUnchanged DEF Proceed, TypeOK
<1>3. \A q \in Requests : team'[q] = team[q] => SameKey(q)' = SameKey(q)
  BY <1>2 DEF SameKey, Proceed
<1>4. reply[r] \notin Requests
  BY SubmissionsAssumption DEF RowInv, Proceed
<1> QED
  BY <1>1, <1>2, <1>3, <1>4
     DEF TypeOK, RowInv, GradedOnce, Proceed

\* The Team row lock keeps other requests from storing an attempt of the
\* same team between a request's checks and its commit.
LEMMA RowInvStep ==
  TypeOK /\ LockInv /\ EntitledInv /\ RowInv /\ [Next]_vars => RowInv'
<1> SUFFICES ASSUME TypeOK, LockInv, EntitledInv, RowInv, [Next]_vars PROVE RowInv'
  OBVIOUS
<1> USE DEF judgement
<1>1. ASSUME NEW r \in Requests, Authenticate(r) PROVE RowInv'
  BY <1>1, RefusalKeepsRows, ProceedKeepsRows DEF Authenticate, Refusals
<1>2. ASSUME NEW r \in Requests, LockEvent(r) PROVE RowInv'
  BY <1>2, RefusalKeepsRows, ProceedKeepsRows DEF LockEvent, Refusals
<1>3. ASSUME NEW r \in Requests, ReadMembership(r) PROVE RowInv'
  BY <1>3, RefusalKeepsRows, ProceedKeepsRows DEF ReadMembership, Refusals, TypeOK
<1>4. ASSUME NEW r \in Requests, CheckReplay(r) PROVE RowInv'
  BY <1>4, RefusalKeepsRows, ReplayKeepsRows, ProceedKeepsRows DEF CheckReplay, Refusals
<1>5. ASSUME NEW r \in Requests, LockUser(r) PROVE RowInv'
  BY <1>5, RefusalKeepsRows, ProceedKeepsRows DEF LockUser, Refusals
<1>6. ASSUME NEW r \in Requests, LockMembership(r) PROVE RowInv'
  <2>1. Proceed(r, "member", "team") /\ UNCHANGED <<team, correct>>
    BY <1>6 DEF LockMembership, EntitledInv, Answer
  <2> QED
    BY <2>1, ProceedKeepsRows
<1>7. ASSUME NEW r \in Requests, LockTeam(r) PROVE RowInv'
  BY <1>7, ReplayKeepsRows, ProceedKeepsRows DEF LockTeam, Refusals
<1>8. ASSUME NEW r \in Requests, Judge(r) PROVE RowInv'
  <2>1. CASE Obstacle(r) # "none"
    BY <1>8, <2>1, RefusalKeepsRows DEF Judge, Obstacle, Refusals
  <2>2. CASE Obstacle(r) = "none"
    <3>1. ~ Solved(team[r], call[r].challenge)
      BY <2>2 DEF Obstacle
    <3>2. SameKey(r) = {}
      BY <1>8, <2>2 DEF Judge, Proceed, RowInv, GradedOnce
    <3>3. PICK match \in Comparison(r) :
            /\ correct' = [correct EXCEPT ![r] = match]
            /\ Proceed(r, "judge", IF match THEN "challenge" ELSE "insert")
      BY <1>8, <2>2 DEF Judge
    <3>4. (IF match THEN "challenge" ELSE "insert") # "done"
      OBVIOUS
    <3>5. UNCHANGED team /\ \A q \in Requests \ {r} : correct'[q] = correct[q]
      BY <1>8, <2>2, <3>3 DEF Judge, TypeOK
    <3> QED
      BY <3>1, <3>2, <3>3, <3>4, <3>5, ProceedKeepsRows
  <2> QED
    BY <2>1, <2>2
<1>9. ASSUME NEW r \in Requests, LockChallenge(r) PROVE RowInv'
  <2>1. ~ Solved(team[r], call[r].challenge) /\ SameKey(r) = {}
    BY <1>9 DEF LockChallenge, Proceed, RowInv, GradedOnce
  <2> QED
    BY <1>9, <2>1, ProceedKeepsRows DEF LockChallenge, TypeOK
<1>10. ASSUME NEW r \in Requests, Insert(r) PROVE RowInv'
  <2>1. pc[r] = "insert"
    BY <1>10 DEF Insert, Proceed, Answer
  <2>2. ~ Solved(team[r], call[r].challenge) /\ SameKey(r) = {}
    BY <2>1 DEF RowInv, GradedOnce
  <2>3. ~ Beaten(r)
    BY <2>2 DEF Beaten, Clash, Solved, SolvesOf, SameKey, Attempts
  <2> QED
    BY <1>10, <2>2, <2>3, ProceedKeepsRows DEF Insert
<1>11. ASSUME NEW r \in Requests, Recheck(r) PROVE RowInv'
  <2>1. pc[r] = "recheck"
    BY <1>11 DEF Recheck, Proceed, Answer
  <2>2. ~ Solved(team[r], call[r].challenge) /\ SameKey(r) = {}
    BY <2>1 DEF RowInv, GradedOnce
  <2> QED
    BY <1>11, <2>2, RefusalKeepsRows, ProceedKeepsRows DEF Recheck, Refusals
<1>12. ASSUME NEW r \in Requests, Commit(r) PROVE RowInv'
  <2>1. /\ pc[r] = "commit" /\ pc' = [pc EXCEPT ![r] = "done"]
        /\ stored' = stored \union {r} /\ UNCHANGED <<call, team, correct, ordinal>>
    BY <1>12 DEF Commit, Answer
  <2>2. /\ reply' = [reply EXCEPT ![r] = reply'[r]]
        /\ reply'[r] \in {r, "lost"}
    BY <1>12 DEF Commit, Answer, TypeOK
  <2>3. \A q \in Requests \ {r} : pc[q] \in HoldsTeamAt => team[q] # team[r]
    BY <2>1 DEF LockInv
  <2>4. \A q \in Requests : SameKey(q) \subseteq SameKey(q)'
    BY <2>1 DEF SameKey, Attempts
  <2>5. \A q \in Requests \ {r} : pc[q] \in HoldsTeamAt => SameKey(q)' = SameKey(q)
    BY <2>1, <2>3 DEF SameKey, Attempts
  <2>6. \A q \in Requests \ {r} : pc[q] \in HoldsTeamAt \ {"judge"} =>
           ~ Solved(team[q], call[q].challenge)'
    BY <2>1, <2>3 DEF Solved, SolvesOf, RowInv
  <2>7. r \in SameKey(r)'
    BY <2>1 DEF SameKey, Attempts
  <2>8. "lost" \notin Requests
    BY SubmissionsAssumption DEF Refusals
  <2>9. GradedOnce'
    <3>1. ASSUME NEW q \in Requests, pc'[q] \in HoldsTeamAt PROVE SameKey(q)' = {}
      BY <2>1, <2>5, <3>1 DEF TypeOK, RowInv, GradedOnce
    <3>2. ASSUME NEW q \in Requests, reply'[q] \in Requests PROVE reply'[q] \in SameKey(q)'
      BY <2>2, <2>4, <2>7, <2>8, <3>2 DEF TypeOK, RowInv, GradedOnce
    <3> QED
      BY <3>1, <3>2 DEF GradedOnce
  <2> QED
    BY <2>1, <2>2, <2>6, <2>9 DEF TypeOK, RowInv
<1>13. ASSUME NEW r \in Requests, Abort(r) PROVE RowInv'
  BY <1>13, RefusalKeepsRows DEF Abort, Refusals
<1>14. CASE Compete
  <2>1. UNCHANGED <<pc, call, team, correct, reply, stored>>
    BY <1>14, CompeteKeepsRequests
  <2> QED
    BY <2>1 DEF RowInv, GradedOnce, SameKey, Attempts, Solved, SolvesOf
<1>15. CASE UNCHANGED vars
  BY <1>15 DEF vars, RowInv, GradedOnce, SameKey, Attempts, Solved, SolvesOf
<1> QED
  BY <1>1, <1>2, <1>3, <1>4, <1>5, <1>6, <1>7, <1>8, <1>9, <1>10, <1>11, <1>12, <1>13, <1>14, <1>15 DEF Next, Step

-----------------------------------------------------------------------------
(* The theorems *)

\* The inductive invariant of the specification.
LEMMA Inductive == Spec => [](TypeOK /\ LockInv /\ EntitledInv /\ RowInv)
<1>1. Init => LockInv /\ EntitledInv /\ RowInv
  <2> SUFFICES ASSUME Init PROVE LockInv /\ EntitledInv /\ RowInv
    OBVIOUS
  <2>1. "none" \notin Requests
    BY SubmissionsAssumption
  <2> QED
    BY <2>1 DEF Init, LockInv, EntitledInv, RowInv, GradedOnce
<1> QED
  BY <1>1, TypeCorrect, LockInvStep, EntitledInvStep, RowInvStep, PTL DEF Spec

(***************************************************************************)
(* The row locks and the pinned event state keep every request from the    *)
(* IntegrityError handler and from a membership that changed under it.     *)
(***************************************************************************)
THEOREM LocksPreemptBackstops == Spec => []BackstopsUnused
<1>1. EntitledInv /\ RowInv => BackstopsUnused
  BY DEF EntitledInv, RowInv, GradedOnce, BackstopsUnused, Beaten, Clash, Solved, SolvesOf,
         SameKey, Attempts
<1> QED
  BY <1>1, Inductive, PTL

(***************************************************************************)
(* A retry of a stored attempt is never graded a second time, and every    *)
(* answer that reports an attempt reports the stored one.                  *)
(***************************************************************************)
THEOREM RetriesReplay == Spec => []GradedOnce
BY Inductive, PTL DEF RowInv

(***************************************************************************)
(* No attempt is stored for a suspended user, a revoked session or a team  *)
(* the user is not in.                                                     *)
(***************************************************************************)
THEOREM OnlyTheEntitledStore == Spec => StoredByTheEntitled
<1> DEFINE Entitled == \A r \in stored' \ stored :
                          SessionValid(r) /\ member[call[r].user] = team[r]
<1>1. TypeOK /\ EntitledInv /\ [Next]_vars => [Entitled]_vars
  <2> SUFFICES ASSUME EntitledInv, Next PROVE Entitled
    OBVIOUS
  <2>1. ASSUME NEW r \in Requests, Commit(r) PROVE Entitled
    <3>1. pc[r] = "commit" /\ stored' = stored \union {r}
      BY <2>1 DEF Commit, Answer
    <3> QED
      BY <3>1 DEF EntitledInv
  <2>2. ASSUME UNCHANGED stored PROVE Entitled
    BY <2>2
  <2>3. Compete => UNCHANGED stored
    BY CompeteKeepsRequests
  <2>4. \A r \in Requests : Step(r) \/ Abort(r) => Commit(r) \/ UNCHANGED stored
    BY DEF Step, Abort, Authenticate, LockEvent, ReadMembership, CheckReplay, LockUser,
           LockMembership, LockTeam, Judge, LockChallenge, Insert, Recheck, Proceed
  <2> QED
    BY <2>1, <2>2, <2>3, <2>4 DEF Next
<1> QED
  BY <1>1, Inductive, PTL DEF Spec, StoredByTheEntitled

-----------------------------------------------------------------------------
(* Who waits for whom *)

\* Who waits does so for a request in flight that has come further: only those
\* who hold their Challenge, and then those who have inserted, are ahead of all.
LEMMA WaitsForward ==
  ASSUME TypeOK, LockInv, NEW r \in Requests, NEW q \in Requests, WaitsFor(r, q)
  PROVE  /\ pc[q] \in HoldsEventAt
         /\ pc[r] \in {"user", "team", "challenge", "insert"}
         /\ pc[r] = "user" => pc[q] # "user"
         /\ pc[r] = "team" => pc[q] \notin {"user", "team"}
         /\ pc[r] \in {"challenge", "insert"} => pc[q] \in {"insert", "recheck", "commit"}
         /\ pc[r] \in {"challenge", "insert"} /\ pc[q] = "insert" =>
              q \in lockedChallenge /\ r \notin lockedChallenge
BY DEF WaitsFor, TypeOK, LockInv

\* The order of the locks leaves no circle.
LEMMA NoCircle ==
  ASSUME TypeOK, LockInv
  PROVE  NoCircularWait
<1>1. \A r, q \in Requests : WaitsFor(r, q) => pc[q] \in HoldsEventAt
  BY WaitsForward
<1>2. ASSUME NEW S \in SUBSET Requests, S # {}, \A r \in S : \E q \in S : WaitsFor(r, q)
      PROVE  FALSE
  <2>1. \A r \in S : pc[r] \in {"user", "team", "challenge", "insert"}
    BY <1>2, WaitsForward
  <2>2. \A r \in S : ~ (pc[r] = "insert" /\ r \in lockedChallenge)
    BY <1>2, <2>1, WaitsForward
  <2>3. \A r \in S : pc[r] \notin {"challenge", "insert"}
    BY <1>2, <2>1, <2>2, WaitsForward
  <2>4. \A r \in S : pc[r] # "team"
    BY <1>2, <2>1, <2>3, WaitsForward
  <2> QED
    BY <1>2, <2>1, <2>3, <2>4, WaitsForward
<1> QED
  BY <1>1, <1>2 DEF NoCircularWait

(***************************************************************************)
(* Submissions never wait for each other in a circle, for any number of    *)
(* them: the User comes before the Team, the Team before the Challenge.    *)
(* An attempt that is judged wrong takes its Challenge in key share only,  *)
(* as it inserts, and one judged right for update before; whoever has the  *)
(* row for update waits for an uncommitted row it clashes with at most,    *)
(* and whoever has inserted, and so the key share, waits for nothing more. *)
(***************************************************************************)
THEOREM LocksAreOrdered == Spec => []NoCircularWait
BY Inductive, NoCircle, PTL

(***************************************************************************)
(* How far a request has come: the statements in the order of the code.    *)
(***************************************************************************)
Stage ==
  [l \in Labels |->
     CASE l = "arrive" -> 0 [] l = "event" -> 1 [] l = "membership" -> 2 [] l = "replay" -> 3
       [] l = "user" -> 4 [] l = "member" -> 5 [] l = "team" -> 6 [] l = "judge" -> 7
       [] l = "challenge" -> 8 [] l = "insert" -> 9 [] l = "recheck" -> 10
       [] l = "commit" -> 11 [] l = "done" -> 12]

Advances(r) ==
  \/ pc'[r] = pc[r] /\ reply'[r] = reply[r] /\ (r \in stored' <=> r \in stored)
  \/ Stage[pc[r]] < Stage[pc'[r]] /\ (r \in stored' => r \in stored \/ pc[r] = "commit")

(***************************************************************************)
(* A request gets an answer after a bounded number of steps of its own: no *)
(* retry and no other transaction takes it back to an earlier statement,   *)
(* and once it is answered neither its answer nor its row changes.  With   *)
(* LocksAreOrdered this is why AllAnswered asks no more of the schedule    *)
(* than that a request that need not wait takes its next step.             *)
(***************************************************************************)
THEOREM RequestsAdvance == Spec => [][\A r \in Requests : Advances(r)]_vars
<1>1. TypeOK /\ [Next]_vars => \A r \in Requests : Advances(r)
  <2> SUFFICES ASSUME TypeOK, [Next]_vars, NEW r \in Requests PROVE Advances(r)
    OBVIOUS
  <2>1. /\ pc \in [Requests -> Labels]
        /\ reply \in [Requests -> Requests \union Refusals \union {"none"}]
    BY DEF TypeOK
  <2>2. ASSUME NEW q \in Requests, Step(q) \/ Abort(q), q # r
        PROVE  pc'[r] = pc[r] /\ reply'[r] = reply[r] /\ (r \in stored' <=> r \in stored)
    BY <2>1, <2>2 DEF Step, Authenticate, LockEvent, ReadMembership, CheckReplay, LockUser,
       LockMembership, LockTeam, Judge, LockChallenge, Insert, Recheck, Commit, Abort, Proceed,
       Answer
  <2>3. CASE Step(r)
    <3>1. \/ stored' = stored
          \/ pc[r] = "commit" /\ stored' = stored \union {r}
      BY <2>3 DEF Step, Authenticate, LockEvent, ReadMembership, CheckReplay, LockUser,
         LockMembership, LockTeam, Judge, LockChallenge, Insert, Recheck, Commit, Proceed, Answer
    <3> DEFINE Goes == \E here, next \in Labels : /\ pc[r] = here
                                                  /\ pc' = [pc EXCEPT ![r] = next]
                                                  /\ Stage[here] < Stage[next]
    <3>2. Goes
      <4>1. /\ Stage["arrive"] = 0 /\ Stage["event"] = 1 /\ Stage["membership"] = 2
            /\ Stage["replay"] = 3 /\ Stage["user"] = 4 /\ Stage["member"] = 5
            /\ Stage["team"] = 6 /\ Stage["judge"] = 7 /\ Stage["challenge"] = 8
            /\ Stage["insert"] = 9 /\ Stage["recheck"] = 10 /\ Stage["commit"] = 11
            /\ Stage["done"] = 12
        BY DEF Stage, Labels
      <4> USE <4>1 DEF Labels, Proceed, Answer
      <4>2. CASE Authenticate(r)
        BY <4>2 DEF Authenticate
      <4>3. CASE LockEvent(r)
        BY <4>3 DEF LockEvent
      <4>4. CASE ReadMembership(r)
        BY <4>4 DEF ReadMembership
      <4>5. CASE CheckReplay(r)
        BY <4>5 DEF CheckReplay
      <4>6. CASE LockUser(r)
        BY <4>6 DEF LockUser
      <4>7. CASE LockMembership(r)
        BY <4>7 DEF LockMembership
      <4>8. CASE LockTeam(r)
        BY <4>8 DEF LockTeam
      <4>9. CASE Judge(r)
        BY <4>9 DEF Judge
      <4>10. CASE LockChallenge(r)
        BY <4>10 DEF LockChallenge
      <4>11. CASE Insert(r)
        BY <4>11 DEF Insert
      <4>12. CASE Recheck(r)
        BY <4>12 DEF Recheck
      <4>13. CASE Commit(r)
        BY <4>13 DEF Commit
      <4> QED
        BY <2>3, <4>2, <4>3, <4>4, <4>5, <4>6, <4>7, <4>8, <4>9, <4>10, <4>11, <4>12, <4>13 DEF Step
    <3> QED
      BY <2>1, <3>1, <3>2 DEF Advances
  <2>4. CASE Abort(r)
    <3>1. \E here \in HoldsEventAt \union {"event"} :
             pc[r] = here /\ pc' = [pc EXCEPT ![r] = "done"] /\ stored' = stored
      BY <2>4 DEF Abort, Answer
    <3>2. \A here \in HoldsEventAt \union {"event"} : Stage[here] < Stage["done"]
      BY DEF Stage, Labels, HoldsEventAt, HoldsUserAt, HoldsMemberAt, HoldsTeamAt
    <3> QED
      BY <2>1, <3>1, <3>2 DEF Advances
  <2>5. ASSUME Compete \/ UNCHANGED vars PROVE UNCHANGED <<pc, reply, stored>>
    BY <2>5, CompeteKeepsRequests DEF vars
  <2> QED
    BY <2>2, <2>3, <2>4, <2>5 DEF Next, Advances
<1> QED
  BY <1>1, TypeCorrect, PTL DEF Spec

-----------------------------------------------------------------------------
(* What an answer says *)

(***************************************************************************)
(* Whoever is refused, or told of an earlier attempt, has stored nothing;  *)
(* whoever is told of an attempt finds it stored under its own team,       *)
(* challenge and key; and "already_solved" is said only to a team that     *)
(* has solved the challenge.  Only an answer that was lost leaves open     *)
(* whether the attempt counts.                                             *)
(***************************************************************************)
TrueAnswers ==
  /\ \A r \in stored : reply[r] \in {r, "lost"}
  /\ \A r \in Requests : reply[r] \in Requests => reply[r] \in SameKey(r)
  /\ \A r \in Requests : reply[r] = "already_solved" => Solved(team[r], call[r].challenge)

\* The parts of TrueAnswers that RowInv does not have.
TruthInv ==
  /\ \A r \in stored : reply[r] \in {r, "lost"}
  /\ \A r \in Requests : reply[r] = "already_solved" => Solved(team[r], call[r].challenge)

\* An answer that stores nothing is true if it does not claim a solve in vain.
LEMMA AnswersTruly ==
  ASSUME TypeOK, RowInv, TruthInv, NEW r \in Requests, NEW here, NEW a, Answer(r, here, a),
         here # "done", UNCHANGED stored,
         a = "already_solved" => Solved(team[r], call[r].challenge)
  PROVE  TruthInv'
<1>1. \A t, c : Solved(t, c)' = Solved(t, c)
  BY RowsUnchanged DEF Answer, judgement
<1>2. r \notin stored
  BY DEF RowInv, Answer
<1> QED
  BY <1>1, <1>2 DEF TruthInv, TypeOK, Answer, judgement

\* A request that goes on says nothing, and nobody's solve changes.
LEMMA ProceedsTruly ==
  ASSUME TypeOK, RowInv, TruthInv, NEW r \in Requests, NEW here, NEW next,
         Proceed(r, here, next), here # "done",
         \A q \in Requests \ {r} : team'[q] = team[q] /\ correct'[q] = correct[q]
  PROVE  TruthInv'
<1>1. \A q \in stored : q # r
  BY DEF RowInv, Proceed
<1>2. \A t, c : Solved(t, c)' = Solved(t, c)
  BY <1>1, RowsUnchanged DEF Proceed, TypeOK
<1>3. reply[r] = "none"
  BY DEF RowInv, Proceed
<1> QED
  BY <1>2, <1>3 DEF TruthInv, TypeOK, Proceed

\* Every step keeps the answers true.
LEMMA TruthStep == TypeOK /\ RowInv /\ TruthInv /\ [Next]_vars => TruthInv'
<1> SUFFICES ASSUME TypeOK, RowInv, TruthInv, [Next]_vars PROVE TruthInv'
  OBVIOUS
<1>1. ASSUME NEW r \in Requests, NEW a \in SameKey(r) PROVE a # "already_solved"
  BY <1>1, SubmissionsAssumption DEF SameKey, Attempts, TypeOK, Refusals
<1>2. ASSUME NEW r \in Requests,
             Authenticate(r) \/ LockEvent(r) \/ ReadMembership(r) \/ LockUser(r)
               \/ LockMembership(r) \/ Recheck(r)
      PROVE  TruthInv'
  BY <1>2, AnswersTruly, ProceedsTruly
     DEF Authenticate, LockEvent, ReadMembership, LockUser, LockMembership, Recheck, judgement,
         TypeOK
<1>3. ASSUME NEW r \in Requests, CheckReplay(r) \/ LockTeam(r) PROVE TruthInv'
  BY <1>1, <1>3, AnswersTruly, ProceedsTruly DEF CheckReplay, LockTeam, judgement
<1>4. ASSUME NEW r \in Requests, Judge(r) PROVE TruthInv'
  <2>1. CASE Obstacle(r) # "none"
    <3>1. Obstacle(r) = "already_solved" => Solved(team[r], call[r].challenge)
      BY DEF Obstacle
    <3> QED
      BY <1>4, <2>1, <3>1, AnswersTruly DEF Judge
  <2>2. CASE Obstacle(r) = "none"
    <3>1. PICK match \in Comparison(r) :
            /\ correct' = [correct EXCEPT ![r] = match]
            /\ Proceed(r, "judge", IF match THEN "challenge" ELSE "insert")
      BY <1>4, <2>2 DEF Judge
    <3>2. UNCHANGED team /\ \A q \in Requests \ {r} : correct'[q] = correct[q]
      BY <1>4, <2>2, <3>1 DEF Judge, TypeOK
    <3> QED
      BY <3>1, <3>2, ProceedsTruly
  <2> QED
    BY <2>1, <2>2
<1>5. ASSUME NEW r \in Requests, LockChallenge(r) PROVE TruthInv'
  BY <1>5, ProceedsTruly DEF LockChallenge, TypeOK
<1>6. ASSUME NEW r \in Requests, Insert(r) PROVE TruthInv'
  <2>1. \A a \in Winner(r) : a = "already_solved" => Solved(team[r], call[r].challenge)
    BY <1>1 DEF Winner
  <2> QED
    BY <1>6, <2>1, AnswersTruly, ProceedsTruly DEF Insert
<1>7. ASSUME NEW r \in Requests, Commit(r) PROVE TruthInv'
  <2>1. /\ stored' = stored \union {r} /\ UNCHANGED <<call, team, correct>>
        /\ reply' = [reply EXCEPT ![r] = reply'[r]] /\ reply'[r] \in {r, "lost"}
    BY <1>7 DEF Commit, Answer, TypeOK, judgement
  <2>2. r # "already_solved"
    BY SubmissionsAssumption DEF Refusals
  <2>3. \A t, c : Solved(t, c) => Solved(t, c)'
    BY <2>1 DEF Solved, SolvesOf
  <2> QED
    BY <2>1, <2>2, <2>3 DEF TruthInv, TypeOK
<1>8. ASSUME NEW r \in Requests, Abort(r) PROVE TruthInv'
  BY <1>8, AnswersTruly
     DEF Abort, HoldsEventAt, HoldsUserAt, HoldsMemberAt, HoldsTeamAt
<1>9. CASE Compete \/ UNCHANGED vars
  <2>1. UNCHANGED <<call, judgement, reply, stored>>
    BY <1>9, CompeteKeepsRequests DEF judgement, vars
  <2> QED
    BY <2>1 DEF TruthInv, Solved, SolvesOf, judgement
<1> QED
  BY <1>2, <1>3, <1>4, <1>5, <1>6, <1>7, <1>8, <1>9 DEF Next, Step

(***************************************************************************)
(* A client can rely on its answer, whatever raced with the request: a     *)
(* refusal has cost no attempt, a reported attempt is stored, and a team   *)
(* told that it has solved the challenge has the solve.                    *)
(***************************************************************************)
THEOREM AnswersCanBeReliedOn == Spec => []TrueAnswers
<1>1. Init => TruthInv
  BY DEF Init, TruthInv
<1>2. RowInv /\ TruthInv => TrueAnswers
  BY DEF RowInv, GradedOnce, TruthInv, TrueAnswers
<1> QED
  BY <1>1, <1>2, TruthStep, Inductive, PTL DEF Spec

-----------------------------------------------------------------------------
(* Who can go on *)

\* What the next statement of a request demands of the locks.
CanGoOn(r) ==
  /\ pc[r] = "user" => UserFree(call[r].user)
  /\ pc[r] = "team" => TeamFree(team[r])
  /\ pc[r] = "challenge" => ChallengeFree(call[r].challenge)
  /\ pc[r] = "insert" =>
       /\ \A q \in lockedChallenge \ {r} : call[q].challenge # call[r].challenge
       /\ ~ \E q \in Requests : Clash(q, r) /\ pc[q] \in HoldsKeyAt
       /\ Beaten(r) => Winner(r) # {}

InFlight == {r \in Requests : pc[r] \notin {"arrive", "done"}}

\* Nothing but the rows of WaitsFor keeps a request from its next statement.
LEMMA WaitingIsAll ==
  ASSUME TypeOK, LockInv, RowInv, NEW r \in Requests, \A q \in Requests : ~ WaitsFor(r, q)
  PROVE  CanGoOn(r)
<1>1. pc[r] = "user" => UserFree(call[r].user)
  BY DEF WaitsFor, UserFree
<1>2. pc[r] = "team" => TeamFree(team[r])
  BY DEF WaitsFor, TeamFree
<1>3. pc[r] = "challenge" => r \notin lockedChallenge
  BY DEF LockInv
<1>4. pc[r] = "challenge" => ChallengeFree(call[r].challenge)
  BY <1>3 DEF WaitsFor, ChallengeFree, TypeOK
<1>5. pc[r] = "insert" => ~ Beaten(r)
  BY DEF RowInv, GradedOnce, Beaten, Clash, Solved, SolvesOf, SameKey, Attempts
<1> QED
  BY <1>1, <1>2, <1>4, <1>5 DEF WaitsFor, CanGoOn, TypeOK

(***************************************************************************)
(* However many submissions are in flight, one of them has every lock its  *)
(* next statement needs within its reach: submissions alone never bring    *)
(* each other to a standstill, and no lock_timeout is needed to go on.     *)
(***************************************************************************)
THEOREM SomebodyCanGoOn == Spec => [](InFlight # {} => \E r \in InFlight : CanGoOn(r))
<1>1. ASSUME TypeOK, LockInv, RowInv, InFlight # {}
      PROVE  \E r \in InFlight : CanGoOn(r)
  <2>1. NoCircularWait
    BY <1>1, NoCircle
  <2>2. InFlight \in SUBSET Requests
    BY DEF InFlight
  <2>3. PICK r \in InFlight : \A q \in InFlight : ~ WaitsFor(r, q)
    BY <1>1, <2>1, <2>2 DEF NoCircularWait
  <2>4. \A q \in Requests : WaitsFor(r, q) => q \in InFlight
    BY <2>1, <2>2 DEF NoCircularWait, InFlight, HoldsEventAt, HoldsUserAt, HoldsMemberAt,
       HoldsTeamAt
  <2> QED
    BY <1>1, <2>2, <2>3, <2>4, WaitingIsAll
<1> QED
  BY <1>1, Inductive, PTL

=============================================================================
