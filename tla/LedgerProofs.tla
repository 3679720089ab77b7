---------------------------- MODULE LedgerProofs ----------------------------
(***************************************************************************)
(* submit_flag implements the ledger: the refinement that the runs of      *)
(* Submissions check, for any number of requests, teams and challenges.    *)
(***************************************************************************)
EXTENDS SubmissionsProofs

USE DEF HoldsTeamAt, HoldsMemberAt, HoldsUserAt, HoldsEventAt, HoldsKeyAt

-----------------------------------------------------------------------------
(* The judgement of an attempt stays true until the attempt is stored *)

(***************************************************************************)
(* What a request found out under its Team row lock still holds when it    *)
(* commits: nothing forbids the attempt, a correct flag is the one the     *)
(* challenge has, and the number of its solve is the next one.  No two     *)
(* stored attempts clash.                                                  *)
(***************************************************************************)
Sound(r) ==
  /\ pc[r] \in HoldsTeamAt \ {"judge"} => Obstacle(r) = "none"
  /\ pc[r] \in {"insert", "recheck", "commit"} /\ correct[r]
       => call[r].flag = challenges[call[r].challenge].flag
  /\ pc[r] \in {"recheck", "commit"} =>
       ordinal[r] = IF correct[r] THEN Cardinality(SolvesOf(call[r].challenge)) + 1 ELSE 0

NoClash == \A q, r \in stored : q # r => ~ Clash(q, r)

GradeInv == NoClash /\ \A r \in Requests : Sound(r)

\* Queries see the same rows as long as the stored attempts are the same.
LEMMA QueriesUnchanged ==
  ASSUME UNCHANGED <<call, stored>>,
         \A q \in stored : team'[q] = team[q] /\ correct'[q] = correct[q]
  PROVE  /\ \A t, c : Attempts(t, c)' = Attempts(t, c)
         /\ \A t : TeamAttempts(t)' = TeamAttempts(t)
         /\ \A t, c : Solved(t, c)' = Solved(t, c)
         /\ \A c : SolvesOf(c)' = SolvesOf(c)
BY DEF Attempts, TeamAttempts, Solved, SolvesOf

\* An obstacle depends on those queries, the request's team and the challenges.
LEMMA ObstacleUnchanged ==
  ASSUME UNCHANGED <<call, stored, challenges>>,
         \A q \in stored : team'[q] = team[q] /\ correct'[q] = correct[q],
         NEW r, team'[r] = team[r]
  PROVE  Obstacle(r)' = Obstacle(r)
<1>1. /\ \A t, c : Attempts(t, c)' = Attempts(t, c)
      /\ \A t : TeamAttempts(t)' = TeamAttempts(t)
      /\ \A t, c : Solved(t, c)' = Solved(t, c)
  BY QueriesUnchanged
<1>2. /\ \A t, c : Accessible(t, c)' = Accessible(t, c)
      /\ \A c : Limit(c)' = Limit(c)
  BY <1>1 DEF Accessible, Limit
<1>3. CapsReached(r)' = CapsReached(r)
  BY <1>1, <1>2 DEF CapsReached
<1> QED
  BY <1>1, <1>2, <1>3 DEF Obstacle

\* A step that stores nothing and edits no challenge leaves everyone else's
\* judgement as it was.
LEMMA OthersStaySound ==
  ASSUME GradeInv, RowInv, TypeOK, UNCHANGED <<call, stored, challenges>>,
         NEW r \in Requests, pc[r] # "done",
         \A q \in Requests \ {r} : /\ pc'[q] = pc[q] /\ team'[q] = team[q]
                                   /\ correct'[q] = correct[q] /\ ordinal'[q] = ordinal[q]
  PROVE  /\ NoClash' /\ \A q \in Requests \ {r} : Sound(q)'
         /\ \A c : SolvesOf(c)' = SolvesOf(c)
         /\ team'[r] = team[r] => Obstacle(r)' = Obstacle(r)
<1>1. r \notin stored
  BY DEF RowInv
<1>2. \A q \in stored : team'[q] = team[q] /\ correct'[q] = correct[q]
  BY <1>1 DEF TypeOK
<1>3. \A c : SolvesOf(c)' = SolvesOf(c)
  BY <1>2, QueriesUnchanged
<1>4. NoClash'
  BY <1>2 DEF GradeInv, NoClash, Clash
<1>5. ASSUME NEW q \in Requests \ {r} PROVE Sound(q)'
  <2>1. Obstacle(q)' = Obstacle(q)
    BY <1>2, ObstacleUnchanged
  <2>2. Sound(q)
    BY DEF GradeInv
  <2> QED
    BY <1>3, <2>1, <2>2 DEF Sound
<1>6. ASSUME team'[r] = team[r] PROVE Obstacle(r)' = Obstacle(r)
  BY <1>2, <1>6, ObstacleUnchanged
<1> QED
  BY <1>3, <1>4, <1>5, <1>6

\* An answer, and a step before the judgement.
LEMMA AnswerKeepsSound ==
  ASSUME GradeInv, RowInv, TypeOK, UNCHANGED stored, NEW r \in Requests, NEW here, NEW a,
         here # "done", Answer(r, here, a)
  PROVE  GradeInv'
<1>1. pc'[r] = "done"
  BY DEF Answer, TypeOK
<1>2. /\ NoClash' /\ \A q \in Requests \ {r} : Sound(q)'
  BY OthersStaySound DEF Answer, TypeOK, judgement, rules
<1>3. Sound(r)'
  BY <1>1 DEF Sound
<1> QED
  BY <1>2, <1>3 DEF GradeInv

\* A step that leads to a statement before the judgement.
LEMMA EarlyStepKeepsSound ==
  ASSUME GradeInv, RowInv, TypeOK, NEW r \in Requests, NEW here, NEW next,
         Proceed(r, here, next), here # "done", next \notin HoldsTeamAt \ {"judge"},
         UNCHANGED <<correct, ordinal>>,
         \A q \in Requests \ {r} : team'[q] = team[q]
  PROVE  GradeInv'
<1>1. pc'[r] = next
  BY DEF Proceed, TypeOK
<1>2. /\ NoClash' /\ \A q \in Requests \ {r} : Sound(q)'
  BY OthersStaySound DEF Proceed, TypeOK, rules
<1>3. Sound(r)'
  BY <1>1 DEF Sound
<1> QED
  BY <1>2, <1>3 DEF GradeInv

\* The judgement establishes what later steps rely on.
LEMMA JudgeKeepsSound ==
  ASSUME GradeInv, RowInv, TypeOK, NEW r \in Requests, Judge(r)
  PROVE  GradeInv'
<1>1. CASE Obstacle(r) # "none"
  BY <1>1, AnswerKeepsSound DEF Judge
<1>2. CASE Obstacle(r) = "none"
  <2>1. PICK match \in Comparison(r) :
          /\ correct' = [correct EXCEPT ![r] = match]
          /\ Proceed(r, "judge", IF match THEN "challenge" ELSE "insert")
    BY <1>2 DEF Judge
  <2>2. /\ NoClash' /\ \A q \in Requests \ {r} : Sound(q)'
        /\ Obstacle(r)' = Obstacle(r)
    BY <1>2, <2>1, OthersStaySound DEF Judge, Proceed, TypeOK, rules
  <2>3. Sound(r)'
    BY <1>2, <2>1, <2>2 DEF Sound, Proceed, TypeOK, Comparison
  <2> QED
    BY <2>2, <2>3 DEF GradeInv
<1> QED
  BY <1>1, <1>2

\* The second comparison is made under the Challenge row lock.
LEMMA LockChallengeKeepsSound ==
  ASSUME GradeInv, RowInv, TypeOK, NEW r \in Requests, LockChallenge(r)
  PROVE  GradeInv'
<1>1. PICK match \in Comparison(r) : correct' = [correct EXCEPT ![r] = match]
  BY DEF LockChallenge
<1>2. /\ NoClash' /\ \A q \in Requests \ {r} : Sound(q)'
      /\ Obstacle(r)' = Obstacle(r)
  BY <1>1, OthersStaySound DEF LockChallenge, Proceed, TypeOK, rules
<1>3. Obstacle(r) = "none"
  BY DEF GradeInv, Sound, LockChallenge, Proceed
<1>4. correct'[r] => call[r].flag = challenges[call[r].challenge].flag
  BY <1>1 DEF Comparison, TypeOK
<1>5. Sound(r)'
  BY <1>2, <1>3, <1>4 DEF Sound, LockChallenge, Proceed, TypeOK, rules
<1> QED
  BY <1>2, <1>5 DEF GradeInv

\* The flush counts the solves, its own included.
LEMMA InsertKeepsSound ==
  ASSUME GradeInv, RowInv, TypeOK, NEW r \in Requests, Insert(r)
  PROVE  GradeInv'
<1>1. CASE Beaten(r)
  <2>1. PICK answer : Answer(r, "insert", answer)
    BY <1>1 DEF Insert
  <2> QED
    BY <1>1, <2>1, AnswerKeepsSound DEF Insert
<1>2. CASE ~ Beaten(r)
  <2>1. /\ pc[r] = "insert" /\ pc' = [pc EXCEPT ![r] = "recheck"]
        /\ UNCHANGED <<call, stored, team, correct, challenges>>
        /\ ordinal' = [ordinal EXCEPT ![r] =
             IF correct[r] THEN Cardinality(SolvesOf(call[r].challenge)) + 1 ELSE 0]
    BY <1>2 DEF Insert, Proceed, rules
  <2>2. /\ NoClash' /\ \A q \in Requests \ {r} : Sound(q)'
        /\ \A c : SolvesOf(c)' = SolvesOf(c)
        /\ Obstacle(r)' = Obstacle(r)
    BY <2>1, OthersStaySound DEF TypeOK
  <2>3. Sound(r)
    BY DEF GradeInv
  <2>4. Sound(r)'
    BY <2>1, <2>2, <2>3 DEF Sound, TypeOK
  <2> QED
    BY <2>2, <2>4 DEF GradeInv
<1> QED
  BY <1>1, <1>2

\* The last look at the clock changes no judgement.
LEMMA RecheckKeepsSound ==
  ASSUME GradeInv, RowInv, TypeOK, NEW r \in Requests, Recheck(r)
  PROVE  GradeInv'
<1>1. CASE ~ SubmissionsOpen
  BY <1>1, AnswerKeepsSound DEF Recheck
<1>2. CASE SubmissionsOpen
  <2>1. /\ pc[r] = "recheck" /\ pc' = [pc EXCEPT ![r] = "commit"]
        /\ UNCHANGED <<call, stored, team, correct, ordinal, challenges>>
    BY <1>2 DEF Recheck, Proceed, judgement, rules
  <2>2. /\ NoClash' /\ \A q \in Requests \ {r} : Sound(q)'
        /\ \A c : SolvesOf(c)' = SolvesOf(c)
        /\ Obstacle(r)' = Obstacle(r)
    BY <2>1, OthersStaySound DEF TypeOK
  <2>3. Sound(r)
    BY DEF GradeInv
  <2>4. Sound(r)'
    BY <2>1, <2>2, <2>3 DEF Sound, TypeOK
  <2> QED
    BY <2>2, <2>4 DEF GradeInv
<1> QED
  BY <1>1, <1>2

\* The stored attempt is of a team nobody else has locked, and if it is a
\* solve, of a challenge nobody else has locked.
LEMMA CommitKeepsSound ==
  ASSUME GradeInv, RowInv, LockInv, TypeOK, NEW r \in Requests, Commit(r)
  PROVE  GradeInv'
<1>1. /\ pc[r] = "commit" /\ pc' = [pc EXCEPT ![r] = "done"]
      /\ stored' = stored \union {r}
      /\ UNCHANGED <<call, team, correct, ordinal, challenges>>
  BY DEF Commit, Answer, judgement, rules
<1>2. NoClash'
  <2>1. \A q \in stored : ~ Clash(q, r) /\ ~ Clash(r, q)
    BY <1>1 DEF RowInv, GradedOnce, Clash, SameKey, Attempts, Solved, SolvesOf
  <2> QED
    BY <1>1, <2>1 DEF GradeInv, NoClash, Clash
<1>3. ASSUME NEW q \in Requests \ {r} PROVE Sound(q)'
  <2>1. Sound(q) /\ pc'[q] = pc[q]
    BY <1>1 DEF GradeInv, TypeOK
  <2>2. ASSUME pc[q] \in HoldsTeamAt \ {"judge"} PROVE Obstacle(q)' = "none"
    <3>1. team[q] # team[r]
      BY <1>1, <2>2 DEF LockInv
    <3>2. /\ \A c : Attempts(team[q], c)' = Attempts(team[q], c)
          /\ TeamAttempts(team[q])' = TeamAttempts(team[q])
          /\ \A c : Solved(team[q], c)' = Solved(team[q], c)
      BY <1>1, <3>1 DEF Attempts, TeamAttempts, Solved, SolvesOf
    <3>3. CapsReached(q)' = CapsReached(q)
      BY <1>1, <3>2 DEF CapsReached, Limit
    <3>4. Accessible(team[q], call[q].challenge)' = Accessible(team[q], call[q].challenge)
      BY <1>1, <3>2 DEF Accessible
    <3>5. Obstacle(q)' = Obstacle(q)
      BY <1>1, <3>2, <3>3, <3>4 DEF Obstacle
    <3> QED
      BY <2>1, <2>2, <3>5 DEF Sound
  <2>3. ASSUME pc[q] \in {"recheck", "commit"}, correct[q]
        PROVE  SolvesOf(call[q].challenge)' = SolvesOf(call[q].challenge)
    <3>1. correct[r] => call[q].challenge # call[r].challenge
      BY <1>1, <2>3 DEF LockInv
    <3> QED
      BY <1>1, <3>1 DEF SolvesOf
  <2> QED
    BY <1>1, <2>1, <2>2, <2>3 DEF Sound
<1>4. Sound(r)'
  BY <1>1 DEF Sound, TypeOK
<1> QED
  BY <1>2, <1>3, <1>4 DEF GradeInv

\* Challenges are edited and deleted only with no submission in flight; only a
\* challenge that is not accessible yet is revealed.
LEMMA CompeteKeepsSound ==
  ASSUME GradeInv, TypeOK, Compete
  PROVE  GradeInv'
<1>1. UNCHANGED <<pc, call, team, correct, ordinal, stored>>
  BY CompeteKeepsRequests
<1>2. /\ \A t, c : Attempts(t, c)' = Attempts(t, c)
      /\ \A t : TeamAttempts(t)' = TeamAttempts(t)
      /\ \A t, c : Solved(t, c)' = Solved(t, c)
      /\ \A c : SolvesOf(c)' = SolvesOf(c)
  BY <1>1, QueriesUnchanged
<1>3. NoClash'
  BY <1>1 DEF GradeInv, NoClash, Clash
<1>4. ASSUME NEW q \in Requests,
             challenges'[call[q].challenge] = challenges[call[q].challenge]
      PROVE  Sound(q)'
  <2>1. Obstacle(q)' = Obstacle(q)
    BY <1>1, <1>2, <1>4 DEF Obstacle, Accessible, CapsReached, Limit
  <2> QED
    BY <1>1, <1>2, <1>4, <2>1 DEF GradeInv, Sound
<1>5. ASSUME NEW c \in Challenges, UpdateChallenge(c) PROVE \A q \in Requests : Sound(q)'
  BY <1>1, <1>5 DEF UpdateChallenge, Editable, EventFree, Sound
<1>6. ASSUME NEW c \in Challenges, Reveal(c), NEW q \in Requests PROVE Sound(q)'
  <2>1. CASE pc[q] \notin HoldsTeamAt \ {"judge"}
    BY <1>1, <2>1 DEF Sound
  <2>2. CASE pc[q] \in HoldsTeamAt \ {"judge"}
    <3>1. Accessible(team[q], call[q].challenge)
      BY <2>2 DEF GradeInv, Sound, Obstacle
    <3>2. c # call[q].challenge
      BY <1>6, <3>1 DEF Reveal, Accessible
    <3> QED
      BY <1>4, <1>6, <3>2 DEF Reveal, TypeOK
  <2> QED
    BY <2>1, <2>2
<1>7. ASSUME UNCHANGED challenges PROVE \A q \in Requests : Sound(q)'
  BY <1>4, <1>7
<1>8. ASSUME NEW c \in Challenges, DeleteChallenge(c) PROVE \A q \in Requests : Sound(q)'
  BY <1>1, <1>8 DEF DeleteChallenge, Editable, EventFree, Sound
<1>9. \A q \in Requests : Sound(q)'
  BY <1>5, <1>6, <1>7, <1>8 DEF Compete, AdvanceEvent, ClockTick, Suspend, Reactivate,
     RotateCredentials, LeaveTeam, JoinTeam, LogOut, rules
<1> QED
  BY <1>3, <1>9 DEF GradeInv

\* Every step keeps every judgement sound.
LEMMA GradeInvStep ==
  TypeOK /\ LockInv /\ RowInv /\ GradeInv /\ [Next]_vars => GradeInv'
<1> SUFFICES ASSUME TypeOK, LockInv, RowInv, GradeInv, [Next]_vars PROVE GradeInv'
  OBVIOUS
<1> USE DEF judgement
<1>1. ASSUME NEW r \in Requests, Authenticate(r) PROVE GradeInv'
  BY <1>1, AnswerKeepsSound, EarlyStepKeepsSound DEF Authenticate
<1>2. ASSUME NEW r \in Requests, LockEvent(r) PROVE GradeInv'
  BY <1>2, AnswerKeepsSound, EarlyStepKeepsSound DEF LockEvent
<1>3. ASSUME NEW r \in Requests, ReadMembership(r) PROVE GradeInv'
  BY <1>3, AnswerKeepsSound, EarlyStepKeepsSound DEF ReadMembership, TypeOK
<1>4. ASSUME NEW r \in Requests, CheckReplay(r) PROVE GradeInv'
  BY <1>4, AnswerKeepsSound, EarlyStepKeepsSound DEF CheckReplay
<1>5. ASSUME NEW r \in Requests, LockUser(r) PROVE GradeInv'
  BY <1>5, AnswerKeepsSound, EarlyStepKeepsSound DEF LockUser
<1>6. ASSUME NEW r \in Requests, LockMembership(r) PROVE GradeInv'
  BY <1>6, AnswerKeepsSound, EarlyStepKeepsSound DEF LockMembership
<1>7. ASSUME NEW r \in Requests, LockTeam(r) PROVE GradeInv'
  BY <1>7, AnswerKeepsSound, EarlyStepKeepsSound DEF LockTeam
<1>8. ASSUME NEW r \in Requests, Abort(r) PROVE GradeInv'
  BY <1>8, AnswerKeepsSound DEF Abort
<1>9. CASE UNCHANGED vars
  <2>1. UNCHANGED <<pc, call, team, correct, ordinal, stored, challenges>>
    BY <1>9 DEF vars
  <2>2. \A q \in Requests : Obstacle(q)' = Obstacle(q)
    BY <2>1, ObstacleUnchanged
  <2>3. \A c : SolvesOf(c)' = SolvesOf(c)
    BY <2>1, QueriesUnchanged
  <2> QED
    BY <2>1, <2>2, <2>3 DEF GradeInv, NoClash, Clash, Sound
<1> QED
  BY <1>1, <1>2, <1>3, <1>4, <1>5, <1>6, <1>7, <1>8, <1>9, JudgeKeepsSound,
     LockChallengeKeepsSound, InsertKeepsSound, RecheckKeepsSound, CommitKeepsSound,
     CompeteKeepsSound DEF Next, Step

\* The inductive invariant the refinement rests on.
LEMMA GradeInductive == Spec => [](TypeOK /\ LockInv /\ RowInv /\ GradeInv)
<1>1. Init => GradeInv
  BY DEF Init, GradeInv, NoClash, Sound
<1> QED
  BY <1>1, Inductive, GradeInvStep, PTL DEF Spec

-----------------------------------------------------------------------------
(* The rows of the ledger are the stored attempts, one for one *)

\* The instance has its own name for the Cardinality of FiniteSets.
LEMMA SameCardinality == \A S : Ledger!Cardinality(S) = Cardinality(S)
BY DEF Ledger!Cardinality, Cardinality

\* Attempts that do not clash give different rows, so counting rows counts
\* attempts.
LEMMA RowsAreAttempts ==
  ASSUME TypeOK, NoClash, NEW S \in SUBSET stored
  PROVE  /\ IsFiniteSet(S)
         /\ Cardinality({Row(q) : q \in S}) = Cardinality(S)
<1>1. IsFiniteSet(S)
  BY FS_Subset, SubmissionsAssumption DEF TypeOK
<1> DEFINE image == {Row(q) : q \in S}
           row == [q \in S |-> Row(q)]
<1>2. \A p, q \in S : Row(p) = Row(q) => p = q
  BY DEF NoClash, Clash, Row
<1>3. row \in Bijection(S, image)
  <2>1. row \in [S -> image]
    OBVIOUS
  <2>2. \A p, q \in S : row[p] = row[q] => p = q
    BY <1>2
  <2>3. \A x \in image : \E q \in S : row[q] = x
    OBVIOUS
  <2> QED
    BY <2>1, <2>2, <2>3 DEF Bijection, Injection, Surjection, IsInjective
<1>4. ExistsBijection(S, image)
  BY <1>3 DEF ExistsBijection
<1> QED
  BY <1>1, <1>4, FS_Bijection

\* What the ledger computes from its rows is what the queries return.
LEMMA LedgerQueries ==
  /\ \A t, c : Ledger!Attempts(t, c) = {Row(q) : q \in Attempts(t, c)}
  /\ \A t : Ledger!TeamAttempts(t) = {Row(q) : q \in TeamAttempts(t)}
  /\ \A c : Ledger!SolvesOf(c) = {Row(q) : q \in SolvesOf(c)}
  /\ \A t, c : Ledger!Solved(t, c) <=> Solved(t, c)
  /\ \A c : Ledger!Limit(c) = Limit(c)
  /\ \A t, c : Ledger!Accessible(t, c) <=> Accessible(t, c)
<1>1. \A t, c : Ledger!Attempts(t, c) = {Row(q) : q \in Attempts(t, c)}
  BY DEF Ledger!Attempts, Attempts, Row
<1>2. \A t : Ledger!TeamAttempts(t) = {Row(q) : q \in TeamAttempts(t)}
  BY DEF Ledger!TeamAttempts, TeamAttempts, Row
<1>3. \A c : Ledger!SolvesOf(c) = {Row(q) : q \in SolvesOf(c)}
  BY DEF Ledger!SolvesOf, SolvesOf, Row
<1>4. \A t, c : Ledger!Solved(t, c) <=> Solved(t, c)
  <2> SUFFICES ASSUME NEW t, NEW c PROVE Ledger!Solved(t, c) <=> Solved(t, c)
    OBVIOUS
  <2>1. \A q : Row(q).team = team[q]
    BY DEF Row
  <2>2. Ledger!SolvesOf(c) = {Row(q) : q \in SolvesOf(c)}
    BY <1>3
  <2>3. (\E x \in {Row(q) : q \in SolvesOf(c)} : x.team = t)
          <=> \E q \in SolvesOf(c) : Row(q).team = t
    BY Zenon
  <2> QED
    BY <2>1, <2>2, <2>3 DEF Ledger!Solved, Solved
<1>5. \A c : Ledger!Limit(c) = Limit(c)
  BY DEF Ledger!Limit, Limit
<1>6. \A t, c : Ledger!Accessible(t, c) <=> Accessible(t, c)
  BY <1>4 DEF Ledger!Accessible, Accessible
<1> QED
  BY <1>1, <1>2, <1>3, <1>4, <1>5, <1>6

\* A commit appends one row, and the ledger allows it.
LEMMA CommitAppends ==
  ASSUME TypeOK, LockInv, RowInv, GradeInv, NEW r \in Requests, Commit(r)
  PROVE  Ledger!Next
<1>1. /\ pc[r] = "commit" /\ stored' = stored \union {r}
      /\ UNCHANGED <<call, team, correct, ordinal, state, challenges>>
  BY DEF Commit, Answer, judgement, rules
<1> DEFINE rows == {Row(q) : q \in stored}
           t == team[r]
           c == call[r].challenge
<1>2. rows' = rows \union {Row(r)}
  BY <1>1 DEF Row
<1>3. NoClash /\ Sound(r)
  BY DEF GradeInv
<1>4. Accessible(t, c) /\ ~ Solved(t, c) /\ ~ CapsReached(r)
  BY <1>1, <1>3 DEF Sound, Obstacle
<1>5. SameKey(r) = {}
  BY <1>1 DEF RowInv, GradedOnce
<1>6. state \in {"live", "frozen"}
  BY <1>1 DEF LockInv
<1>7. /\ Cardinality(Ledger!Attempts(t, c)) = Cardinality(Attempts(t, c))
      /\ Cardinality(Ledger!TeamAttempts(t)) = Cardinality(TeamAttempts(t))
      /\ Cardinality(Ledger!SolvesOf(c)) = Cardinality(SolvesOf(c))
  <2>1. Attempts(t, c) \subseteq stored /\ TeamAttempts(t) \subseteq stored
        /\ SolvesOf(c) \subseteq stored
    BY DEF Attempts, TeamAttempts, SolvesOf
  <2> QED
    BY <1>3, <2>1, RowsAreAttempts, LedgerQueries
<1>8. /\ Cardinality(Ledger!Attempts(t, c)) < Ledger!Limit(c)
      /\ Cardinality(Ledger!TeamAttempts(t)) < MaxTeamEventAttempts
  <2>1. /\ Cardinality(Attempts(t, c)) \in Nat
        /\ Cardinality(TeamAttempts(t)) \in Nat
    BY <1>3, RowsAreAttempts, FS_CardinalityType DEF Attempts, TeamAttempts
  <2>2. Limit(c) \in Nat
    <3>1. c \in Challenges
      BY SubmissionsAssumption DEF TypeOK
    <3>2. challenges[c].max_attempts \in Nat
      BY <3>1, SubmissionsAssumption DEF TypeOK, Setting
    <3> QED
      BY <3>2, SubmissionsAssumption DEF Limit
  <2> QED
    BY <1>4, <1>7, <2>1, <2>2, LedgerQueries, SubmissionsAssumption DEF CapsReached
<1>9. ~ \E old \in Ledger!Attempts(t, c) : old.key = Row(r).key
  BY <1>5, LedgerQueries DEF SameKey, Row
<1>10. /\ Row(r).team = t /\ Row(r).challenge = c
       /\ Row(r).correct => Row(r).flag = challenges[c].flag
       /\ Row(r).ordinal = IF Row(r).correct THEN Cardinality(Ledger!SolvesOf(c)) + 1 ELSE 0
  BY <1>1, <1>3, <1>7 DEF Row, Sound
<1>11. Ledger!Append(Row(r))
  <2>1. Ledger!Accessible(t, c) /\ ~ Ledger!Solved(t, c)
    BY <1>4, LedgerQueries
  <2> HIDE DEF t, c, rows
  <2>2. ASSUME NEW row, row.team = t, row.challenge = c,
               ~ \E old \in Ledger!Attempts(t, c) : old.key = row.key,
               row.correct => row.flag = challenges[c].flag,
               row.ordinal = IF row.correct THEN Cardinality(Ledger!SolvesOf(c)) + 1 ELSE 0,
               rows' = rows \union {row}
        PROVE  Ledger!Append(row)
    BY <1>1, <1>6, <1>8, <2>1, <2>2, SameCardinality DEF Ledger!Append, rows
  <2> QED
    BY <1>2, <1>9, <1>10, <2>2
<1>12. Row(r) \notin rows
  BY <1>5 DEF SameKey, Attempts, Row
<1> QED
  BY <1>2, <1>11, <1>12 DEF Ledger!Next

\* Nothing else touches the stored attempts.
LEMMA RowsStay ==
  ASSUME TypeOK, RowInv, [Next]_vars, \A r \in Requests : ~ Commit(r)
  PROVE  /\ UNCHANGED <<call, stored>>
         /\ \A q \in stored :
              team'[q] = team[q] /\ correct'[q] = correct[q] /\ ordinal'[q] = ordinal[q]
<1>1. UNCHANGED <<call, stored>>
  BY CompeteKeepsRequests DEF Next, Step, Authenticate, LockEvent, ReadMembership, CheckReplay, LockUser,
     LockMembership, LockTeam, Judge, LockChallenge, Insert, Recheck, Abort, Proceed, Answer,
     vars
<1>2. \A q \in stored :
         team'[q] = team[q] /\ correct'[q] = correct[q] /\ ordinal'[q] = ordinal[q]
  <2>1. \A q \in stored : q \in Requests /\ pc[q] = "done"
    BY DEF RowInv, TypeOK
  <2>2. ASSUME NEW r \in Requests, Step(r) \/ Abort(r)
        PROVE  /\ pc[r] # "done"
               /\ \A q \in Requests \ {r} : /\ team'[q] = team[q]
                                             /\ correct'[q] = correct[q]
                                             /\ ordinal'[q] = ordinal[q]
    BY <2>2 DEF Step, Authenticate, LockEvent, ReadMembership, CheckReplay, LockUser,
       LockMembership, LockTeam, Judge, LockChallenge, Insert, Recheck, Abort, Proceed, Answer,
       judgement, Commit, TypeOK
  <2>3. ASSUME Compete \/ UNCHANGED vars PROVE UNCHANGED <<team, correct, ordinal>>
    BY <2>3, CompeteKeepsRequests DEF vars
  <2> QED
    BY <2>1, <2>2, <2>3 DEF Next
<1> QED
  BY <1>1, <1>2

\* Nor, therefore, the ledger.
LEMMA OthersKeepLedger ==
  ASSUME TypeOK, RowInv, [Next]_vars, \A r \in Requests : ~ Commit(r)
  PROVE  UNCHANGED {Row(q) : q \in stored}
BY RowsStay DEF Row

-----------------------------------------------------------------------------

(***************************************************************************)
(* Whatever the interleaving of requests, retries, crashes, the clock and  *)
(* the administrators, submit_flag grades as if it graded the attempts one *)
(* at a time: its stored rows are a behaviour of SubmissionLedger.         *)
(***************************************************************************)
THEOREM GradingIsSerial == Spec => LedgerImplemented
<1>1. Init => Ledger!Init
  BY DEF Init, Ledger!Init
<1>2. TypeOK /\ LockInv /\ RowInv /\ GradeInv /\ [Next]_vars => [Ledger!Next]_(Ledger!vars)
  <2> SUFFICES ASSUME TypeOK, LockInv, RowInv, GradeInv, [Next]_vars
               PROVE  Ledger!Next
    OBVIOUS
  <2>1. CASE \E r \in Requests : Commit(r)
    BY <2>1, CommitAppends
  <2>2. CASE \A r \in Requests : ~ Commit(r)
    BY <2>2, OthersKeepLedger DEF Ledger!Next, Ledger!ChangeRules
  <2> QED
    BY <2>1, <2>2
<1> QED
  BY <1>1, <1>2, GradeInductive, PTL DEF Spec, LedgerImplemented, Ledger!Spec

-----------------------------------------------------------------------------
(* What the ledger adds up to *)

(***************************************************************************)
(* The solves of a challenge are numbered from one without a gap or a      *)
(* repetition, so that the points of a place are awarded once, and they    *)
(* are of different teams.                                                 *)
(***************************************************************************)
PlacesExact ==
  \A c \in Challenges :
    /\ {ordinal[q] : q \in SolvesOf(c)} = 1..Cardinality(SolvesOf(c))
    /\ \A p, q \in SolvesOf(c) : p # q => ordinal[p] # ordinal[q] /\ team[p] # team[q]

(***************************************************************************)
(* No team has more attempts stored than the two caps allow, whatever the  *)
(* limits of a challenge were changed to and fro in the meantime.          *)
(***************************************************************************)
CapsKept ==
  \A t \in Teams :
    /\ Cardinality(TeamAttempts(t)) <= MaxTeamEventAttempts
    /\ \A c \in Challenges : Cardinality(Attempts(t, c)) <= MaxChallengeAttempts

Accounts == PlacesExact /\ CapsKept

\* The queries after a commit, in terms of those before it.
LEMMA CommitQueries ==
  ASSUME TypeOK, RowInv, NEW r \in Requests, Commit(r)
  PROVE  /\ stored' = stored \union {r} /\ r \notin stored
         /\ UNCHANGED <<call, team, correct, ordinal>>
         /\ \A c : SolvesOf(c)' = IF correct[r] /\ call[r].challenge = c
                                  THEN SolvesOf(c) \union {r} ELSE SolvesOf(c)
         /\ \A t, c : Attempts(t, c)' = IF team[r] = t /\ call[r].challenge = c
                                        THEN Attempts(t, c) \union {r} ELSE Attempts(t, c)
         /\ \A t : TeamAttempts(t)' = IF team[r] = t
                                      THEN TeamAttempts(t) \union {r} ELSE TeamAttempts(t)
         /\ \A t, c : Solved(t, c) => Solved(t, c)'
<1>1. /\ pc[r] = "commit" /\ stored' = stored \union {r}
      /\ UNCHANGED <<call, team, correct, ordinal>>
  BY DEF Commit, Answer, judgement
<1>2. r \notin stored
  BY <1>1 DEF RowInv
<1>3. \A c : SolvesOf(c)' = IF correct[r] /\ call[r].challenge = c
                            THEN SolvesOf(c) \union {r} ELSE SolvesOf(c)
  BY <1>1 DEF SolvesOf, TypeOK
<1>4. \A t, c : Attempts(t, c)' = IF team[r] = t /\ call[r].challenge = c
                                  THEN Attempts(t, c) \union {r} ELSE Attempts(t, c)
  BY <1>1 DEF Attempts
<1>5. \A t : TeamAttempts(t)' = IF team[r] = t
                                THEN TeamAttempts(t) \union {r} ELSE TeamAttempts(t)
  BY <1>1 DEF TeamAttempts
<1>6. \A t, c : Solved(t, c) => Solved(t, c)'
  BY <1>1, <1>3 DEF Solved
<1> QED
  BY <1>1, <1>2, <1>3, <1>4, <1>5, <1>6

\* There are finitely many stored attempts, and one more is one more.
LEMMA Counting ==
  ASSUME TypeOK, NEW S \in SUBSET stored, NEW r, r \notin stored
  PROVE  /\ Cardinality(S) \in Nat
         /\ Cardinality(S \union {r}) = Cardinality(S) + 1
<1>1. IsFiniteSet(S)
  BY FS_Subset, SubmissionsAssumption DEF TypeOK
<1> QED
  BY <1>1, FS_AddElement, FS_CardinalityType

\* A commit takes the next place, of a team that has none.
LEMMA CommitPlaces ==
  ASSUME TypeOK, LockInv, RowInv, GradeInv, PlacesExact, NEW r \in Requests, Commit(r)
  PROVE  PlacesExact'
<1>1. pc[r] = "commit"
  BY DEF Commit, Answer
<1>2. ~ Solved(team[r], call[r].challenge)
      /\ ordinal[r] = IF correct[r] THEN Cardinality(SolvesOf(call[r].challenge)) + 1 ELSE 0
  BY <1>1 DEF GradeInv, Sound, Obstacle
<1> SUFFICES ASSUME NEW c \in Challenges
             PROVE  /\ {ordinal'[q] : q \in SolvesOf(c)'} = 1..Cardinality(SolvesOf(c)')
                    /\ \A p, q \in SolvesOf(c)' :
                         p # q => ordinal'[p] # ordinal'[q] /\ team'[p] # team'[q]
  BY DEF PlacesExact
<1> DEFINE n == Cardinality(SolvesOf(c))
<1>3. SolvesOf(c) \subseteq stored
  BY DEF SolvesOf
<1>4. ordinal' = ordinal /\ team' = team
  BY CommitQueries
<1>5. CASE ~ (correct[r] /\ call[r].challenge = c)
  <2>1. SolvesOf(c)' = SolvesOf(c)
    BY <1>5, CommitQueries
  <2> QED
    BY <1>4, <2>1 DEF PlacesExact
<1>6. CASE correct[r] /\ call[r].challenge = c
  <2>1. SolvesOf(c)' = SolvesOf(c) \union {r}
    BY <1>6, CommitQueries
  <2>2. n \in Nat /\ Cardinality(SolvesOf(c)') = n + 1
    BY <1>3, <2>1, Counting, CommitQueries
  <2>3. {ordinal[q] : q \in SolvesOf(c)} = 1..n /\ ordinal[r] = n + 1
    BY <1>2, <1>6 DEF PlacesExact
  <2>4. \A q \in SolvesOf(c) : ordinal[q] \in 1..n /\ team[q] # team[r]
    BY <1>2, <1>6, <2>3 DEF Solved
  <2> HIDE DEF n
  <2>5. {ordinal'[q] : q \in SolvesOf(c)'} = 1..n \union {n + 1}
    BY <1>4, <2>1, <2>3
  <2>6. 1..n \union {n + 1} = 1..(n + 1)
    BY <2>2
  <2>7. \A q \in SolvesOf(c) : ordinal[q] # ordinal[r]
    BY <2>2, <2>3, <2>4
  <2>8. \A p, q \in SolvesOf(c) : p # q => ordinal[p] # ordinal[q] /\ team[p] # team[q]
    BY DEF PlacesExact
  <2> QED
    BY <1>4, <2>1, <2>2, <2>4, <2>5, <2>6, <2>7, <2>8
<1> QED
  BY <1>5, <1>6

\* A commit finds room under both caps.
LEMMA CommitCaps ==
  ASSUME TypeOK, LockInv, RowInv, GradeInv, CapsKept, NEW r \in Requests, Commit(r)
  PROVE  CapsKept'
<1>1. pc[r] = "commit"
  BY DEF Commit, Answer
<1>2. ~ CapsReached(r)
  BY <1>1 DEF GradeInv, Sound, Obstacle
<1>3. MaxChallengeAttempts \in Nat /\ MaxTeamEventAttempts \in Nat
  BY SubmissionsAssumption
<1>4. call[r].challenge \in Challenges
  BY SubmissionsAssumption DEF TypeOK
<1>5. Limit(call[r].challenge) \in Nat /\ Limit(call[r].challenge) <= MaxChallengeAttempts
  <2>1. challenges[call[r].challenge].max_attempts \in Nat
    BY <1>4, SubmissionsAssumption DEF TypeOK, Setting
  <2> QED
    BY <1>3, <2>1 DEF Limit
<1> SUFFICES ASSUME NEW t \in Teams
             PROVE  /\ Cardinality(TeamAttempts(t)') <= MaxTeamEventAttempts
                    /\ \A c \in Challenges : Cardinality(Attempts(t, c)') <= MaxChallengeAttempts
  BY DEF CapsKept
<1>6. \A c : Attempts(t, c) \subseteq stored /\ TeamAttempts(t) \subseteq stored
  BY DEF Attempts, TeamAttempts
<1>7. Cardinality(TeamAttempts(t)') <= MaxTeamEventAttempts
  <2>1. Cardinality(TeamAttempts(t)) \in Nat
        /\ Cardinality(TeamAttempts(t) \union {r}) = Cardinality(TeamAttempts(t)) + 1
    BY <1>6, Counting, CommitQueries
  <2>2. CASE team[r] = t
    <3>1. ~ (Cardinality(TeamAttempts(t)) >= MaxTeamEventAttempts)
      BY <1>2, <2>2 DEF CapsReached
    <3>2. TeamAttempts(t)' = TeamAttempts(t) \union {r}
      BY <2>2, CommitQueries
    <3> DEFINE n == Cardinality(TeamAttempts(t))
    <3>3. Cardinality(TeamAttempts(t)') = n + 1 /\ n \in Nat
      BY <2>1, <3>2
    <3> HIDE DEF n
    <3> QED
      BY <1>3, <3>1, <3>3 DEF n
  <2>3. CASE team[r] # t
    BY <2>3, CommitQueries DEF CapsKept
  <2> QED
    BY <2>2, <2>3
<1>8. ASSUME NEW c \in Challenges
      PROVE  Cardinality(Attempts(t, c)') <= MaxChallengeAttempts
  <2>1. Cardinality(Attempts(t, c)) \in Nat
        /\ Cardinality(Attempts(t, c) \union {r}) = Cardinality(Attempts(t, c)) + 1
    BY <1>6, Counting, CommitQueries
  <2>2. CASE team[r] = t /\ call[r].challenge = c
    <3>1. ~ (Cardinality(Attempts(t, c)) >= Limit(c))
      BY <1>2, <2>2 DEF CapsReached
    <3>2. Attempts(t, c)' = Attempts(t, c) \union {r}
      BY <2>2, CommitQueries
    <3>3. Cardinality(Attempts(t, c)') = Cardinality(Attempts(t, c)) + 1
      BY <2>1, <3>2
    <3> QED
      BY <1>3, <1>5, <2>1, <2>2, <3>1, <3>3
  <2>3. CASE ~ (team[r] = t /\ call[r].challenge = c)
    BY <2>3, CommitQueries DEF CapsKept
  <2> QED
    BY <2>2, <2>3
<1> QED
  BY <1>7, <1>8

\* The accounts hold after every step.
LEMMA AccountsStep ==
  TypeOK /\ LockInv /\ RowInv /\ GradeInv /\ Accounts /\ [Next]_vars => Accounts'
<1> SUFFICES ASSUME TypeOK, LockInv, RowInv, GradeInv, Accounts, [Next]_vars
             PROVE  Accounts'
  OBVIOUS
<1>1. ASSUME NEW r \in Requests, Commit(r) PROVE Accounts'
  <2>1. PlacesExact' /\ CapsKept'
    BY <1>1, CommitPlaces, CommitCaps DEF Accounts
  <2> QED
    BY <2>1 DEF Accounts
<1>2. CASE \A r \in Requests : ~ Commit(r)
  <2>1. /\ UNCHANGED <<call, stored>>
        /\ \A q \in stored :
             team'[q] = team[q] /\ correct'[q] = correct[q] /\ ordinal'[q] = ordinal[q]
    BY <1>2, RowsStay
  <2>2. /\ \A t, c : Attempts(t, c)' = Attempts(t, c)
        /\ \A t : TeamAttempts(t)' = TeamAttempts(t)
        /\ \A t, c : Solved(t, c)' = Solved(t, c)
        /\ \A c : SolvesOf(c)' = SolvesOf(c)
    BY <2>1, QueriesUnchanged
  <2>3. \A c : SolvesOf(c) \subseteq stored
    BY DEF SolvesOf
  <2>4. \A c : {ordinal'[q] : q \in SolvesOf(c)} = {ordinal[q] : q \in SolvesOf(c)}
    BY <2>1, <2>3
  <2>5. PlacesExact'
    BY <2>1, <2>2, <2>3, <2>4 DEF Accounts, PlacesExact
  <2>6. CapsKept'
    BY <2>2 DEF Accounts, CapsKept
  <2> QED
    BY <2>5, <2>6 DEF Accounts
<1> QED
  BY <1>1, <1>2

(***************************************************************************)
(* Every solve has a place of its own, the places are awarded without      *)
(* gaps, to each team at most once, and no cap is exceeded: what the       *)
(* Challenge row lock, the Team row lock and the checks under them are     *)
(* for, however many submissions race, whatever is edited or deleted.      *)
(***************************************************************************)
THEOREM LedgerAddsUp == Spec => []Accounts
<1>1. Init => Accounts
  <2> SUFFICES ASSUME Init PROVE Accounts
    OBVIOUS
  <2>1. /\ \A c : SolvesOf(c) = {}
        /\ \A t, c : Attempts(t, c) = {}
        /\ \A t : TeamAttempts(t) = {}
    BY DEF Init, SolvesOf, Attempts, TeamAttempts
  <2>2. Cardinality({}) = 0 /\ 1..0 = {}
    BY FS_EmptySet
  <2>3. PlacesExact
    BY <2>1, <2>2 DEF PlacesExact
  <2>4. CapsKept
    <3> SUFFICES ASSUME NEW t \in Teams
                 PROVE  /\ 0 <= MaxTeamEventAttempts
                        /\ \A c \in Challenges : 0 <= MaxChallengeAttempts
      BY <2>1, <2>2 DEF CapsKept
    <3> QED
      BY SubmissionsAssumption
  <2> QED
    BY <2>3, <2>4 DEF Accounts
<1> QED
  BY <1>1, AccountsStep, GradeInductive, PTL DEF Spec

=============================================================================
