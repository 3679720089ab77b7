----------------------------- MODULE Catalogue -----------------------------
(***************************************************************************)
(* The challenges of an event: how administrators and import-challenge     *)
(* create, edit and delete them (routes_admin.py, cli.py), which of them a *)
(* team can open, and what public_scoreboard makes of the solves           *)
(* (services.py).  Every edit holds the Event row exclusively from its     *)
(* first check to its commit, so that only the clock moves inside one; a   *)
(* submission, which holds the row shared, is one step here (Submissions   *)
(* has its steps).                                                         *)
(***************************************************************************)
EXTENDS Integers, FiniteSets, Functions

CONSTANTS
  Challenges,    \* the challenges there may be
  Teams,
  Scorings,      \* the scoring rules that are asked for
  NoEdit

Scoring == [type : {"fixed", "dynamic"}, initial : Nat \ {0}, minimum : Nat \ {0},
            decay : Nat \ {0}]

ASSUME CatalogueAssumption == IsFiniteSet(Teams) /\ Scorings \subseteq Scoring

\* What matters here of the row of a challenge.
Row == [scoring : Scorings, visible : BOOLEAN, prerequisites : SUBSET Challenges]

Kinds == {"create", "update", "import", "delete", "visibility"}

\* An edit, and the row it will leave.
Edit == [kind : Kinds, of : Challenges, row : Row]

VARIABLES
  state,       \* Event.state
  due,         \* has Event.freeze_at passed?
  challenges,  \* the rows of the challenges there are
  tried,       \* the challenges with rows in submissions
  solves,      \* the solves: when solved_at was, from freeze_at's point of view
  edit         \* the edit that holds the Event row

vars == <<state, due, challenges, tried, solves, edit>>

existing == DOMAIN challenges

\* "draft" allows the same edits as "registration".
EVENT_STATES == <<"registration", "live", "frozen", "ended", "archived">>

-----------------------------------------------------------------------------
(* Points *)

\* Python's round() of the quotient of two integers: a half goes to even.
Round(a, b) ==
  LET q == a \div b
      twice == 2 * (a % b)
  IN  IF twice < b \/ (twice = b /\ q % 2 = 0) THEN q ELSE q + 1

\* Mutant: the points go on falling below minimum_points.
unbounded_points(s, n) ==
  Round(s.initial * s.decay * s.decay - (s.initial - s.minimum) * n * n, s.decay * s.decay)

dynamic_points(s, n) ==
  LET value == Round(s.initial * s.decay * s.decay - (s.initial - s.minimum) * n * n,
                     s.decay * s.decay)
  IN  IF n = 0 THEN s.initial ELSE IF value < s.minimum THEN s.minimum ELSE value

challenge_points(s, n) == IF s.type = "fixed" THEN s.initial ELSE dynamic_points(s, n)

\* scoreboard_freeze_locked.
FreezeLocked == state \in {"frozen", "ended", "archived"} \/ (state = "live" /\ due)

\* public_scoreboard_is_frozen.
BoardFrozen == state = "frozen" \/ (state = "live" /\ due)

\* The solves that public_scoreboard counts.
Counted == {s \in solves : BoardFrozen => s.when = "before"}

SolvesOf(c) == {s \in Counted : s.challenge = c}

\* solve_points: what every solve of a challenge is worth now.
Worth(c) == challenge_points(challenges[c].scoring, Cardinality(SolvesOf(c)))

Score(t) == SumFunction([s \in {s \in Counted : s.team = t} |-> Worth(s.challenge)])

Ranking == [t \in Teams |-> Score(t)]

-----------------------------------------------------------------------------
(* What an edit checks *)

\* reaches_target: the target is in every set that has c and is closed.
Reaches(c, target) ==
  \A S \in SUBSET existing :
    c \in S /\ (\A d \in S : challenges[d].prerequisites \subseteq S) => target \in S

\* Mutant: only direct cycles are looked for.
LoadPrerequisitesDirect(ids, target) ==
  /\ ids \subseteq existing
  /\ \A c \in target, d \in ids : d # c /\ c \notin challenges[d].prerequisites

\* load_prerequisites; target holds the challenge if it is in the database.
LoadPrerequisites(ids, target) ==
  /\ ids \subseteq existing
  /\ \A c \in target, d \in ids : d # c /\ ~ Reaches(d, c)

\* Mutant: the scoring is locked by the clock, but not by the state.
ScoringMutableUntilDue(c, s) == s # challenges[c].scoring => state # "live" \/ ~ due

\* assert_scoring_mutable.
ScoringMutable(c, s) == s # challenges[c].scoring => ~ FreezeLocked

ScoringValid(s) == s.minimum <= s.initial

\* create_challenge, and _import_challenge of a new slug.
MayCreate(c, row) ==
  /\ c \notin existing
  /\ ScoringValid(row.scoring)
  /\ LoadPrerequisites(row.prerequisites, {})

\* update_challenge, and _import_challenge of a slug there is.
MayUpdate(c, row) ==
  /\ c \in existing
  /\ ScoringMutable(c, row.scoring)
  /\ ScoringValid(row.scoring)
  /\ LoadPrerequisites(row.prerequisites, {c})

\* set_visibility.
MayShow(c, row) ==
  /\ c \in existing
  /\ row = [challenges[c] EXCEPT !.visible = row.visible]

\* Mutant: submissions do not keep a challenge from being deleted.
MayDeleteTried(c, row) == c \in existing /\ row = challenges[c]

\* delete_challenge.
MayDelete(c, row) == c \in existing /\ c \notin tried /\ row = challenges[c]

Allowed(e) ==
  \/ e.kind \in {"create", "import"} /\ MayCreate(e.of, e.row)
  \/ e.kind \in {"update", "import"} /\ MayUpdate(e.of, e.row)
  \/ e.kind = "visibility" /\ MayShow(e.of, e.row)
  \/ e.kind = "delete" /\ MayDelete(e.of, e.row)

-----------------------------------------------------------------------------

\* The Event row is locked, the event is not archived and the checks hold.
Begin(e) ==
  /\ edit = NoEdit
  /\ state # "archived"
  /\ Allowed(e)
  /\ edit' = e
  /\ UNCHANGED <<state, due, challenges, tried, solves>>

\* The foreign keys take the deleted challenge out of every prerequisite list.
CommitDeletion ==
  /\ edit # NoEdit /\ edit.kind = "delete"
  /\ challenges' = [c \in existing \ {edit.of} |->
                      [challenges[c] EXCEPT !.prerequisites = @ \ {edit.of}]]
  /\ edit' = NoEdit
  /\ UNCHANGED <<state, due, tried, solves>>

CommitEdit ==
  /\ edit # NoEdit /\ edit.kind # "delete"
  /\ challenges' = [c \in existing \union {edit.of} |->
                      IF c = edit.of THEN edit.row ELSE challenges[c]]
  /\ edit' = NoEdit
  /\ UNCHANGED <<state, due, tried, solves>>

\* The connection is lost, or the commit fails: the rows are rolled back.
Abandon ==
  /\ edit # NoEdit
  /\ edit' = NoEdit
  /\ UNCHANGED <<state, due, challenges, tried, solves>>

\* Mutant: update_event does not wait for an edit of a challenge.
AdvanceEventUnlocked ==
  /\ \E i \in 1..4 : state = EVENT_STATES[i] /\ state' = EVENT_STATES[i + 1]
  /\ due' = (due \/ state' = "frozen")
  /\ UNCHANGED <<challenges, tried, solves, edit>>

\* update_event; a freeze by hand that comes early is put in freeze_at.
AdvanceEvent ==
  /\ edit = NoEdit
  /\ \E i \in 1..4 : state = EVENT_STATES[i] /\ state' = EVENT_STATES[i + 1]
  /\ due' = (due \/ state' = "frozen")
  /\ UNCHANGED <<challenges, tried, solves, edit>>

\* freeze_at passes.
ClockTick ==
  /\ ~ due
  /\ due' = TRUE
  /\ UNCHANGED <<state, challenges, tried, solves, edit>>

\* _is_accessible.
Accessible(t, c) ==
  /\ challenges[c].visible
  /\ \A d \in challenges[c].prerequisites : \E s \in solves : s.team = t /\ s.challenge = d

Open(t, c) ==
  /\ edit = NoEdit
  /\ state \in {"live", "frozen"}
  /\ c \in existing /\ Accessible(t, c)
  /\ \A s \in solves : ~ (s.team = t /\ s.challenge = c)

\* A wrong answer.
Try(t, c) ==
  /\ Open(t, c)
  /\ tried' = tried \union {c}
  /\ UNCHANGED <<state, due, challenges, solves, edit>>

\* A correct one.  solved_at is taken before the commit: while the event is
\* live, freeze_at may pass between the two.
Solve(t, c) ==
  /\ Open(t, c)
  /\ tried' = tried \union {c}
  /\ \E when \in {"before", "after"} :
       /\ when = "after" => due
       /\ when = "before" => ~ due \/ state = "live"
       /\ solves' = solves \union {[team |-> t, challenge |-> c, when |-> when]}
  /\ UNCHANGED <<state, due, challenges, edit>>

-----------------------------------------------------------------------------

Init ==
  /\ state = "registration"
  /\ due = FALSE
  /\ challenges = [c \in {} |-> NoEdit]
  /\ tried = {}
  /\ solves = {}
  /\ edit = NoEdit

Next ==
  \/ \E e \in Edit : Begin(e)
  \/ CommitDeletion \/ CommitEdit \/ Abandon
  \/ AdvanceEvent \/ ClockTick
  \/ \E t \in Teams, c \in Challenges : Try(t, c) \/ Solve(t, c)

Spec == Init /\ [][Next]_vars

-----------------------------------------------------------------------------
(* Properties *)

\* Every variable has its type; what the foreign keys and the check
\* constraints promise holds, and no minimum exceeds its initial points.
TypeOK ==
  /\ state \in {EVENT_STATES[i] : i \in 1..5}
  /\ due \in BOOLEAN
  /\ existing \subseteq Challenges
  /\ \A c \in existing :
       /\ challenges[c] \in Row
       /\ challenges[c].prerequisites \subseteq existing \ {c}
       /\ ScoringValid(challenges[c].scoring)
  /\ tried \subseteq existing
  /\ solves \subseteq [team : Teams, challenge : tried, when : {"before", "after"}]
  /\ edit \in Edit \union {NoEdit}

\* A team that has not solved everything finds, if all is visible, a challenge
\* whose prerequisites it has solved: no sequence of edits, imports and
\* deletions locks it out by a cycle.  About load_prerequisites and its callers.
NobodyLockedOut ==
  \A t \in Teams :
    LET solved == {s.challenge : s \in {r \in solves : r.team = t}}
    IN  existing \subseteq solved
        \/ \E c \in existing \ solved : challenges[c].prerequisites \subseteq solved

\* While the event stays frozen by hand, ended or archived, nobody's score
\* changes, whatever is edited, imported, deleted or solved.  About
\* assert_scoring_mutable, delete_challenge, the Event lock and the cutoff.
FrozenRankingIsFinal ==
  [][(state \in {"frozen", "ended", "archived"} /\ state' = state) => Ranking' = Ranking]_vars

\* A solve that the scoreboard counts raises the score of its team, though it
\* lowers what the challenge is worth, and raises nobody else's.  About
\* dynamic_points and solve_points.
SolvingPays ==
  [][\A t \in Teams :
       Counted' # Counted /\ challenges' = challenges /\ state' = state /\ due' = due =>
         IF \E s \in solves' \ solves : s.team = t THEN Score(t)' > Score(t)
                                                   ELSE Score(t)' <= Score(t)]_vars

=============================================================================
