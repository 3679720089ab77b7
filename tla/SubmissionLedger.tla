-------------------------- MODULE SubmissionLedger --------------------------
(***************************************************************************)
(* What POST /challenges/{id}/submit promises, without saying how: graded  *)
(* attempts are appended one at a time to a ledger, and every attempt is   *)
(* appended to a ledger and under rules that allow it.  The row locks, the *)
(* retries, the replays and the concurrent administrators of the real      *)
(* program appear only in module Submissions, which implements this one.   *)
(***************************************************************************)
EXTENDS Naturals, FiniteSets

CONSTANTS
  MaxChallengeAttempts,   \* MAX_CHALLENGE_ATTEMPTS (limits.py)
  MaxTeamEventAttempts    \* MAX_SUBMISSIONS_PER_TEAM_EVENT (limits.py)

VARIABLES
  rows,         \* the committed attempts: Submission, and Solve if correct
  state,        \* Event.state
  challenges    \* the part of each Challenge row that grading reads

vars == <<rows, state, challenges>>

-----------------------------------------------------------------------------

Attempts(t, c) == {row \in rows : row.team = t /\ row.challenge = c}

TeamAttempts(t) == {row \in rows : row.team = t}

SolvesOf(c) == {row \in rows : row.correct /\ row.challenge = c}

Solved(t, c) == \E row \in SolvesOf(c) : row.team = t

\* max_attempts = 0 means "no limit of its own".
Limit(c) ==
  LET own == challenges[c].max_attempts
  IN  IF own = 0 \/ own > MaxChallengeAttempts THEN MaxChallengeAttempts ELSE own

Accessible(t, c) ==
  /\ challenges[c].shown = "shown"
  /\ \A p \in challenges[c].requires : Solved(t, p)

Init == rows = {}

(***************************************************************************)
(* One graded attempt.  The n-th correct attempt on a challenge, over all  *)
(* teams, is worth the points of the n-th solve: row.ordinal is that n.    *)
(***************************************************************************)
Append(row) ==
  /\ state \in {"live", "frozen"}
  /\ Accessible(row.team, row.challenge)
  /\ ~ Solved(row.team, row.challenge)
  /\ ~ \E old \in Attempts(row.team, row.challenge) : old.key = row.key
  /\ Cardinality(Attempts(row.team, row.challenge)) < Limit(row.challenge)
  /\ Cardinality(TeamAttempts(row.team)) < MaxTeamEventAttempts
  /\ row.correct => row.flag = challenges[row.challenge].flag
  /\ row.ordinal = IF row.correct THEN Cardinality(SolvesOf(row.challenge)) + 1 ELSE 0
  /\ rows' = rows \union {row}
  /\ UNCHANGED <<state, challenges>>

\* Nothing but an attempt ever changes the ledger.
ChangeRules == UNCHANGED rows

Next ==
  \/ \E row \in rows' \ rows : Append(row)
  \/ ChangeRules

Spec == Init /\ [][Next]_vars

=============================================================================
