-------------------------- MODULE CatalogueProofs --------------------------
(***************************************************************************)
(* Theorems about Catalogue for any challenges, teams and scoring rules:   *)
(* its type invariant, that no sequence of edits locks a team out, that a  *)
(* freeze by hand makes the ranking final, and that solving pays.          *)
(***************************************************************************)
EXTENDS Catalogue, FiniteFacts, TLAPS

-----------------------------------------------------------------------------
(* The inductive invariant *)

\* Every set of challenges has one that requires none of the set.
WellFounded ==
  \A S \in SUBSET existing :
    S # {} => \E c \in S : challenges[c].prerequisites \cap S = {}

\* What an edit has checked stays true until its commit.
Checked ==
  edit # NoEdit =>
    /\ edit.kind = "delete" => edit.of \notin tried
    /\ edit.kind # "delete" =>
         /\ ScoringValid(edit.row.scoring)
         /\ edit.row.prerequisites \subseteq existing
         /\ edit.of \in existing =>
              \/ edit.row.prerequisites = challenges[edit.of].prerequisites
              \/ \A d \in edit.row.prerequisites : ~ Reaches(d, edit.of)

IInv == TypeOK /\ WellFounded /\ Checked

\* Once the scoring is locked by hand the cutoff has passed for good, and an
\* edit under way leaves the scoring of its challenge as it is.
Locked ==
  state \in {"frozen", "ended", "archived"} =>
    /\ due
    /\ edit # NoEdit /\ edit.kind # "delete" /\ edit.of \in existing =>
         edit.row.scoring = challenges[edit.of].scoring

\* What the scores rest on.
SInv == Locked /\ IsFiniteSet(solves)

\* The graph P on the nodes D has no infinite path.
Grounded(D, P) == \A S \in SUBSET D : S # {} => \E x \in S : P[x] \cap S = {}

\* Q differs from P by the edges of c, from which no path leads back to c.
Rewired(D, P, Q, c) ==
  /\ \A d \in D : P[d] \subseteq D
  /\ \A d \in D \ {c} : Q[d] = P[d]
  /\ Q[c] \subseteq D
  /\ c \in D => \A d \in Q[c] :
       \E S \in SUBSET D : d \in S /\ (\A x \in S : P[x] \subseteq S) /\ c \notin S

\* New prerequisites Q[c] of a challenge c that none of them reaches leave the
\* graph P well-founded: whatever Q[c] reaches is a closed set without c.
LEMMA NewEdges ==
  ASSUME NEW D, NEW P, NEW Q, NEW c, Rewired(D, P, Q, c), Grounded(D, P)
  PROVE  Grounded(D \union {c}, Q)
<1> USE DEF Rewired, Grounded
<1> SUFFICES ASSUME NEW S \in SUBSET (D \union {c}), S # {}
             PROVE  \E x \in S : Q[x] \cap S = {}
  OBVIOUS
<1>1. CASE c \notin D
  <2>1. CASE S \cap D = {}
    <3>1. c \in S /\ Q[c] \cap S = {}
      BY <2>1
    <3> QED
      BY <3>1
  <2>2. CASE S \cap D # {}
    <3>1. PICK x \in S \cap D : P[x] \cap (S \cap D) = {}
      BY <2>2
    <3>2. x # c /\ P[x] \subseteq D
      BY <1>1
    <3> QED
      BY <3>1, <3>2
  <2> QED
    BY <2>1, <2>2
<1>2. CASE c \in D
  <2> DEFINE Closed == {T \in SUBSET D : (\A x \in T : P[x] \subseteq T) /\ c \notin T}
             T == UNION Closed
  <2>1. T \subseteq D /\ c \notin T /\ \A x \in T : P[x] \subseteq T
    OBVIOUS
  <2>2. Q[c] \subseteq T
    BY <1>2
  <2> HIDE DEF T
  <2>3. CASE S \cap T # {}
    <3>1. PICK x \in S \cap T : P[x] \cap (S \cap T) = {}
      BY <2>1, <2>3
    <3>2. Q[x] = P[x] /\ P[x] \subseteq T
      BY <2>1
    <3> QED
      BY <3>1, <3>2
  <2>4. CASE S \cap T = {}
    <3>1. PICK x \in S : P[x] \cap S = {}
      BY <1>2
    <3>2. CASE x = c
      BY <2>2, <2>4, <3>2
    <3>3. CASE x # c
      BY <1>2, <3>1, <3>3
    <3> QED
      BY <3>2, <3>3
  <2> QED
    BY <2>3, <2>4
<1> QED
  BY <1>1, <1>2

-----------------------------------------------------------------------------
(* The steps *)

\* A step that leaves the rows and the edit alone, and adds no attempt during
\* an edit, keeps what the edit has checked and the graph.
LEMMA RowsUnchanged ==
  ASSUME WellFounded, Checked, UNCHANGED <<challenges, edit>>,
         edit # NoEdit => tried' = tried
  PROVE  WellFounded' /\ Checked'
<1>1. \A c, d : Reaches(c, d)' = Reaches(c, d)
  BY DEF Reaches, existing
<1> QED
  BY <1>1 DEF WellFounded, Checked, existing

\* Begin checks what the edit relies on.
LEMMA BeginKeeps ==
  ASSUME IInv, NEW e \in Edit, Begin(e)
  PROVE  IInv'
<1> USE DEF IInv, Begin, existing
<1>1. TypeOK'
  BY DEF TypeOK
<1>2. WellFounded'
  BY DEF WellFounded
<1>3. \A c, d : Reaches(c, d)' = Reaches(c, d)
  BY DEF Reaches
<1>4. e.kind = "delete" => e.of \notin tried
  BY DEF Allowed, MayDelete
<1>5. ASSUME e.kind # "delete"
      PROVE  /\ ScoringValid(e.row.scoring)
             /\ e.row.prerequisites \subseteq existing
             /\ e.of \in existing =>
                  \/ e.row.prerequisites = challenges[e.of].prerequisites
                  \/ \A d \in e.row.prerequisites : ~ Reaches(d, e.of)
  <2>1. CASE MayCreate(e.of, e.row)
    BY <2>1 DEF MayCreate, LoadPrerequisites
  <2>2. CASE MayUpdate(e.of, e.row)
    BY <2>2 DEF MayUpdate, LoadPrerequisites
  <2>3. CASE MayShow(e.of, e.row)
    <3>1. e.of \in existing /\ challenges[e.of] \in Row
      BY <2>3 DEF MayShow, TypeOK
    <3>2. /\ e.row.prerequisites = challenges[e.of].prerequisites
          /\ e.row.scoring = challenges[e.of].scoring
      BY <2>3, <3>1 DEF MayShow, Row
    <3> QED
      BY <3>1, <3>2 DEF TypeOK
  <2> QED
    BY <1>5, <2>1, <2>2, <2>3 DEF Allowed
<1>6. Checked'
  BY <1>3, <1>4, <1>5 DEF Checked, ScoringValid
<1> QED
  BY <1>1, <1>2, <1>6

\* A deletion only takes edges out of the graph.
LEMMA DeletionKeeps ==
  ASSUME IInv, CommitDeletion
  PROVE  IInv'
<1> USE DEF IInv, CommitDeletion
<1>1. /\ existing' = existing \ {edit.of}
      /\ \A c \in existing' :
           challenges'[c] = [challenges[c] EXCEPT !.prerequisites = @ \ {edit.of}]
  BY DEF existing
<1>2. \A c \in existing' :
        /\ challenges'[c] \in Row
        /\ challenges'[c].prerequisites = challenges[c].prerequisites \ {edit.of}
        /\ challenges'[c].scoring = challenges[c].scoring
  <2> SUFFICES ASSUME NEW c \in existing'
               PROVE  /\ challenges'[c] \in Row
                      /\ challenges'[c].prerequisites = challenges[c].prerequisites \ {edit.of}
                      /\ challenges'[c].scoring = challenges[c].scoring
    OBVIOUS
  <2>1. challenges[c] \in Row
    BY <1>1 DEF TypeOK
  <2> QED
    BY <1>1, <2>1 DEF Row
<1>3. edit.of \notin tried
  BY DEF Checked
<1>4. TypeOK'
  <2>1. \A c \in existing' : challenges'[c].prerequisites \subseteq existing' \ {c}
    BY <1>1, <1>2 DEF TypeOK
  <2>2. \A c \in existing' : ScoringValid(challenges'[c].scoring)
    BY <1>1, <1>2 DEF TypeOK
  <2>3. existing' \subseteq Challenges /\ tried' \subseteq existing'
    BY <1>1, <1>3 DEF TypeOK
  <2> QED
    BY <1>2, <2>1, <2>2, <2>3 DEF TypeOK, ScoringValid
<1>5. WellFounded'
  <2> SUFFICES ASSUME NEW S \in SUBSET existing', S # {}
               PROVE  \E c \in S : challenges'[c].prerequisites \cap S = {}
    BY DEF WellFounded
  <2>1. PICK c \in S : challenges[c].prerequisites \cap S = {}
    BY <1>1 DEF WellFounded
  <2> QED
    BY <1>2, <2>1
<1>6. Checked'
  BY DEF Checked
<1> QED
  BY <1>4, <1>5, <1>6

\* The edges an edit adds do not close a cycle.
LEMMA EditKeeps ==
  ASSUME IInv, CommitEdit
  PROVE  IInv'
<1> USE DEF IInv, CommitEdit
<1> DEFINE c == edit.of
<1>1. /\ existing' = existing \union {c}
      /\ challenges'[c] = edit.row
      /\ \A d \in existing \ {c} : challenges'[d] = challenges[d]
  BY DEF existing
<1>2. c \in Challenges /\ edit.row \in Row
  BY DEF TypeOK, Edit
<1>3. /\ ScoringValid(edit.row.scoring)
      /\ edit.row.prerequisites \subseteq existing
  BY DEF Checked
<1>4. c \in existing => \A d \in edit.row.prerequisites : d # c
  <2> SUFFICES ASSUME c \in existing, c \in edit.row.prerequisites
               PROVE  FALSE
    OBVIOUS
  <2>1. c \notin challenges[c].prerequisites
    BY DEF TypeOK
  <2>2. Reaches(c, c)
    BY DEF Reaches
  <2> QED
    BY <2>1, <2>2 DEF Checked
<1> HIDE DEF c
<1>5. TypeOK'
  <2>1. \A d \in existing' : challenges'[d] \in Row /\ ScoringValid(challenges'[d].scoring)
    BY <1>1, <1>2, <1>3 DEF TypeOK
  <2>2. \A d \in existing' : challenges'[d].prerequisites \subseteq existing' \ {d}
    BY <1>1, <1>3, <1>4 DEF TypeOK
  <2>3. existing' \subseteq Challenges /\ tried' \subseteq existing'
    BY <1>1, <1>2 DEF TypeOK
  <2> QED
    BY <2>1, <2>2, <2>3 DEF TypeOK, ScoringValid
<1>6. WellFounded'
  <2> DEFINE P == [d \in existing |-> challenges[d].prerequisites]
             Q == [d \in existing' |-> challenges'[d].prerequisites]
  <2>1. \A d \in existing : P[d] \subseteq existing
    BY DEF TypeOK
  <2>2. \A d \in existing \ {c} : Q[d] = P[d]
    BY <1>1
  <2>3. Q[c] = edit.row.prerequisites
    BY <1>1
  <2>4. \A S \in SUBSET existing : S # {} => \E x \in S : P[x] \cap S = {}
    BY DEF WellFounded
  <2>5. CASE c \in existing /\ edit.row.prerequisites = challenges[c].prerequisites
    <3>1. existing' = existing /\ \A d \in existing : Q[d] = P[d]
      BY <1>1, <2>2, <2>3, <2>5
    <3> QED
      BY <2>4, <3>1 DEF WellFounded
  <2>6. CASE c \in existing => \A d \in edit.row.prerequisites : ~ Reaches(d, c)
    <3>1. c \in existing => \A d \in Q[c] :
            \E S \in SUBSET existing : d \in S /\ (\A x \in S : P[x] \subseteq S) /\ c \notin S
      BY <2>3, <2>6 DEF Reaches
    <3>2. Q[c] \subseteq existing
      BY <1>3, <2>3
    <3> HIDE DEF P, Q
    <3>3. Rewired(existing, P, Q, c)
      BY <2>1, <2>2, <3>1, <3>2 DEF Rewired
    <3>4. Grounded(existing, P)
      BY <2>4 DEF Grounded
    <3>5. Grounded(existing \union {c}, Q)
      BY <3>3, <3>4, NewEdges
    <3> QED
      BY <1>1, <3>5 DEF WellFounded, Grounded, Q
  <2> QED
    BY <2>5, <2>6 DEF Checked, c
<1>7. Checked'
  BY DEF Checked
<1> QED
  BY <1>5, <1>6, <1>7

\* Attempts and solves come when no edit is under way.
LEMMA AttemptKeeps ==
  ASSUME IInv, NEW t \in Teams, NEW c \in Challenges, Try(t, c) \/ Solve(t, c)
  PROVE  IInv'
<1> USE DEF IInv
<1>1. c \in existing /\ UNCHANGED <<challenges, edit, state, due>> /\ edit = NoEdit
      /\ tried' = tried \union {c}
  BY DEF Try, Solve, Open
<1>2. solves' \subseteq [team : Teams, challenge : tried', when : {"before", "after"}]
  BY <1>1 DEF Try, Solve, TypeOK
<1>3. TypeOK'
  BY <1>1, <1>2 DEF TypeOK, existing, ScoringValid
<1>4. WellFounded' /\ Checked'
  BY <1>1, RowsUnchanged
<1> QED
  BY <1>3, <1>4

\* The invariant is inductive: it holds at first.
LEMMA InitIInv == Init => IInv
<1> SUFFICES ASSUME Init PROVE IInv
  OBVIOUS
<1>1. existing = {} /\ EVENT_STATES[1] = "registration"
  BY DEF Init, existing, EVENT_STATES
<1>2. state \in {EVENT_STATES[i] : i \in 1..5}
  BY <1>1 DEF Init
<1>3. TypeOK
  BY <1>1, <1>2 DEF Init, TypeOK
<1>4. WellFounded /\ Checked
  BY <1>1 DEF Init, WellFounded, Checked
<1> QED
  BY <1>3, <1>4 DEF IInv

\* The invariant is inductive: every step keeps it.
LEMMA NextIInv == IInv /\ [Next]_vars => IInv'
<1> SUFFICES ASSUME IInv, [Next]_vars PROVE IInv'
  OBVIOUS
<1>1. CASE UNCHANGED vars
  <2>1. TypeOK'
    BY <1>1 DEF vars, IInv, TypeOK, existing, ScoringValid
  <2> QED
    BY <1>1, <2>1, RowsUnchanged DEF vars, IInv
<1>2. ASSUME NEW e \in Edit, Begin(e) PROVE IInv'
  BY <1>2, BeginKeeps
<1>3. CASE CommitDeletion
  BY <1>3, DeletionKeeps
<1>4. CASE CommitEdit
  BY <1>4, EditKeeps
<1>5. CASE Abandon
  <2>1. TypeOK' /\ WellFounded'
    BY <1>5 DEF Abandon, IInv, TypeOK, WellFounded, existing, ScoringValid
  <2>2. Checked'
    BY <1>5 DEF Abandon, Checked
  <2> QED
    BY <2>1, <2>2 DEF IInv
<1>6. CASE AdvanceEvent
  <2>1. state' \in {EVENT_STATES[i] : i \in 1..5} /\ due' \in BOOLEAN
    BY <1>6 DEF AdvanceEvent, IInv, TypeOK
  <2>2. TypeOK'
    BY <1>6, <2>1 DEF AdvanceEvent, IInv, TypeOK, existing, ScoringValid
  <2> QED
    BY <1>6, <2>2, RowsUnchanged DEF AdvanceEvent, IInv
<1>7. CASE ClockTick
  <2>1. TypeOK'
    BY <1>7 DEF ClockTick, IInv, TypeOK, existing, ScoringValid
  <2> QED
    BY <1>7, <2>1, RowsUnchanged DEF ClockTick, IInv
<1>8. ASSUME NEW t \in Teams, NEW c \in Challenges, Try(t, c) \/ Solve(t, c) PROVE IInv'
  BY <1>8, AttemptKeeps
<1> QED
  BY <1>1, <1>2, <1>3, <1>4, <1>5, <1>6, <1>7, <1>8 DEF Next

\* In a well-founded graph what is unsolved has a challenge that requires
\* nothing unsolved.
LEMMA WayIn == IInv => NobodyLockedOut
<1> SUFFICES ASSUME IInv, NEW t \in Teams
             PROVE  LET solved == {s.challenge : s \in {r \in solves : r.team = t}}
                    IN  existing \subseteq solved
                        \/ \E c \in existing \ solved : challenges[c].prerequisites \subseteq solved
  BY DEF NobodyLockedOut
<1> DEFINE solved == {s.challenge : s \in {r \in solves : r.team = t}}
<1> HIDE DEF solved
<1>1. CASE existing \ solved # {}
  <2>1. PICK c \in existing \ solved :
          challenges[c].prerequisites \cap (existing \ solved) = {}
    BY <1>1 DEF IInv, WellFounded
  <2>2. challenges[c].prerequisites \subseteq existing
    BY DEF IInv, TypeOK
  <2> QED
    BY <2>1, <2>2 DEF solved
<1> QED
  BY <1>1 DEF solved

-----------------------------------------------------------------------------
(* The scores *)

\* Every step keeps what the scores rest on.
LEMMA NextSInv ==
  ASSUME IInv, SInv, [Next]_vars
  PROVE  SInv'
<1> USE DEF SInv
<1>1. CASE UNCHANGED vars
  BY <1>1 DEF vars, Locked, existing
<1>2. ASSUME NEW e \in Edit, Begin(e) PROVE SInv'
  <2>1. /\ UNCHANGED <<state, due, challenges, tried, solves>> /\ edit' = e
        /\ existing' = existing
    BY <1>2 DEF Begin, existing
  <2>2. ASSUME state \in {"frozen", "ended", "archived"}, e.kind # "delete", e.of \in existing
        PROVE  e.row.scoring = challenges[e.of].scoring
    <3>1. CASE MayUpdate(e.of, e.row)
      BY <2>2, <3>1 DEF MayUpdate, ScoringMutable, FreezeLocked
    <3>2. CASE MayShow(e.of, e.row)
      BY <2>2, <3>2 DEF MayShow, IInv, TypeOK, Row
    <3> QED
      BY <1>2, <2>2, <3>1, <3>2 DEF Begin, Allowed, MayCreate
  <2> QED
    BY <2>1, <2>2 DEF Locked
<1>3. CASE CommitDeletion \/ CommitEdit \/ Abandon
  BY <1>3 DEF CommitDeletion, CommitEdit, Abandon, Locked
<1>4. CASE AdvanceEvent
  <2>1. state' = "frozen" => due'
    BY <1>4 DEF AdvanceEvent
  <2>2. state' \in {"ended", "archived"} => state \in {"frozen", "ended"}
    <3>1. PICK i \in 1..4 : state = EVENT_STATES[i] /\ state' = EVENT_STATES[i + 1]
      BY <1>4 DEF AdvanceEvent
    <3>2. i = 1 \/ i = 2 \/ i = 3 \/ i = 4
      OBVIOUS
    <3> QED
      BY <3>1, <3>2 DEF EVENT_STATES
  <2> QED
    BY <1>4, <2>1, <2>2 DEF AdvanceEvent, Locked
<1>5. CASE ClockTick
  BY <1>5 DEF ClockTick, Locked, existing
<1>6. ASSUME NEW t \in Teams, NEW c \in Challenges, Try(t, c) PROVE SInv'
  BY <1>6 DEF Try, Open, Locked
<1>7. ASSUME NEW t \in Teams, NEW c \in Challenges, Solve(t, c) PROVE SInv'
  <2>1. IsFiniteSet(solves')
    BY <1>7, FS_AddElement DEF Solve
  <2> QED
    BY <1>7, <2>1 DEF Solve, Open, Locked
<1> QED
  BY <1>1, <1>2, <1>3, <1>4, <1>5, <1>6, <1>7 DEF Next

\* While the scoring is locked by hand no step changes what is counted, nor
\* the scoring of anything that is.
LEMMA FrozenInputs ==
  ASSUME IInv, SInv, [Next]_vars, state \in {"frozen", "ended", "archived"}, state' = state
  PROVE  /\ Counted' = Counted
         /\ \A s \in Counted :
              challenges'[s.challenge].scoring = challenges[s.challenge].scoring
<1>1. BoardFrozen' = BoardFrozen
  BY DEF BoardFrozen
<1>2. solves' = solves => Counted' = Counted
  BY <1>1 DEF Counted
<1>3. \A s \in Counted : s.challenge \in tried
  BY DEF Counted, IInv, TypeOK
<1>4. CASE UNCHANGED <<challenges, solves>>
  BY <1>2, <1>4
<1>5. CASE CommitDeletion
  <2>1. ASSUME NEW c \in tried PROVE challenges'[c].scoring = challenges[c].scoring
    <3>1. c # edit.of /\ c \in existing /\ challenges[c] \in Row
      BY <1>5 DEF CommitDeletion, IInv, Checked, TypeOK
    <3>2. challenges'[c] = [challenges[c] EXCEPT !.prerequisites = @ \ {edit.of}]
      BY <1>5, <3>1 DEF CommitDeletion
    <3> QED
      BY <3>1, <3>2 DEF Row
  <2> QED
    BY <1>2, <1>3, <1>5, <2>1 DEF CommitDeletion
<1>6. CASE CommitEdit
  <2>1. ASSUME NEW c \in tried PROVE challenges'[c].scoring = challenges[c].scoring
    <3>1. c \in existing
      BY DEF IInv, TypeOK
    <3>2. challenges'[c] = IF c = edit.of THEN edit.row ELSE challenges[c]
      BY <1>6, <3>1 DEF CommitEdit
    <3> QED
      BY <1>6, <3>1, <3>2 DEF CommitEdit, SInv, Locked
  <2> QED
    BY <1>2, <1>3, <1>6, <2>1 DEF CommitEdit
<1>7. ASSUME NEW t \in Teams, NEW c \in Challenges, Solve(t, c)
      PROVE  Counted' = Counted /\ challenges' = challenges
  <2>1. state = "frozen" /\ due
    BY <1>7 DEF Solve, Open, SInv, Locked
  <2>2. solves' = solves \union {[team |-> t, challenge |-> c, when |-> "after"]}
    BY <1>7, <2>1 DEF Solve
  <2>3. BoardFrozen
    BY <2>1 DEF BoardFrozen
  <2> QED
    BY <1>1, <1>7, <2>2, <2>3 DEF Counted, Solve
<1>8. CASE AdvanceEvent
  <2>1. PICK i \in 1..4 : state = EVENT_STATES[i] /\ state' = EVENT_STATES[i + 1]
    BY <1>8 DEF AdvanceEvent
  <2>2. i = 1 \/ i = 2 \/ i = 3 \/ i = 4
    OBVIOUS
  <2> QED
    BY <2>1, <2>2 DEF EVENT_STATES
<1> QED
  BY <1>4, <1>5, <1>6, <1>7, <1>8
     DEF Next, vars, Begin, Abandon, ClockTick, Try

\* A score depends on what is counted and on how that is scored.
LEMMA SameInputs ==
  ASSUME Counted' = Counted,
         \A s \in Counted : challenges'[s.challenge].scoring = challenges[s.challenge].scoring
  PROVE  \A t : Score(t)' = Score(t)
<1>1. \A s \in Counted : Worth(s.challenge)' = Worth(s.challenge)
  BY DEF Worth, SolvesOf
<1> SUFFICES ASSUME NEW t PROVE Score(t)' = Score(t)
  OBVIOUS
<1>2. [s \in {s \in Counted' : s.team = t} |-> Worth(s.challenge)']
      = [s \in {s \in Counted : s.team = t} |-> Worth(s.challenge)]
  BY <1>1
<1> QED
  BY <1>2 DEF Score

-----------------------------------------------------------------------------
(* What a challenge is worth *)

\* What \div and % are.
LEMMA Division ==
  ASSUME NEW a \in Int, NEW b \in Nat \ {0}
  PROVE  /\ a \div b \in Int /\ a % b \in Int
         /\ a = b * (a \div b) + (a % b)
         /\ 0 <= a % b /\ a % b < b
OBVIOUS

\* A multiple of the divisor is not rounded.
LEMMA RoundExact ==
  ASSUME NEW k \in Int, NEW b \in Nat \ {0}
  PROVE  Round(k * b, b) = k
<1>1. (k * b) \div b = k /\ (k * b) % b = 0
  <2> DEFINE q == (k * b) \div b
             r == (k * b) % b
  <2>1. q \in Int /\ r \in Int /\ k * b = b * q + r /\ 0 <= r /\ r < b
    BY Division
  <2> HIDE DEF q, r
  <2>2. ~ (q < k)
    <3>1. q < k => b * q + b <= k * b
      BY <2>1
    <3> QED
      BY <2>1, <3>1
  <2>3. ~ (k < q)
    <3>1. k < q => k * b + b <= b * q
      BY <2>1
    <3> QED
      BY <2>1, <3>1
  <2>4. q = k
    BY <2>1, <2>2, <2>3
  <2> QED
    BY <2>1, <2>4 DEF q, r
<1> QED
  BY <1>1 DEF Round

\* Rounding keeps the order.
LEMMA RoundMonotone ==
  ASSUME NEW a \in Int, NEW c \in Int, NEW b \in Nat \ {0}, a <= c
  PROVE  Round(a, b) \in Int /\ Round(c, b) \in Int /\ Round(a, b) <= Round(c, b)
<1> DEFINE p == a \div b
           q == c \div b
           r == a % b
           s == c % b
<1>1. /\ p \in Int /\ r \in Int /\ a = b * p + r /\ 0 <= r /\ r < b
      /\ q \in Int /\ s \in Int /\ c = b * q + s /\ 0 <= s /\ s < b
  BY Division
<1>2. /\ Round(a, b) = IF 2 * r < b \/ (2 * r = b /\ p % 2 = 0) THEN p ELSE p + 1
      /\ Round(c, b) = IF 2 * s < b \/ (2 * s = b /\ q % 2 = 0) THEN q ELSE q + 1
  BY DEF Round
<1> HIDE DEF p, q, r, s
<1>3. p < q \/ (p = q /\ r <= s)
  <2>1. q < p => b * q + b <= b * p
    BY <1>1
  <2>2. ~ (q < p)
    BY <1>1, <2>1
  <2>3. p = q => r <= s
    BY <1>1
  <2> QED
    BY <1>1, <2>2, <2>3
<1>4. CASE p < q
  BY <1>1, <1>2, <1>4
<1>5. CASE p = q /\ r <= s
  BY <1>1, <1>2, <1>5
<1> QED
  BY <1>1, <1>2, <1>3, <1>4, <1>5

\* What remains for n solves, before it is rounded: parabolic in n.
Parabola(s, n) == s.initial * s.decay * s.decay - (s.initial - s.minimum) * n * n

\* The rule whose parabola is rounded is valid.
LEMMA RuleFacts ==
  ASSUME NEW s \in Scoring, ScoringValid(s)
  PROVE  /\ s.initial \in Nat \ {0} /\ s.minimum \in Nat \ {0} /\ s.decay \in Nat \ {0}
         /\ s.minimum <= s.initial /\ s.initial - s.minimum \in Nat
         /\ s.decay * s.decay \in Nat \ {0}
BY DEF Scoring, ScoringValid

\* The parabola falls.
LEMMA ParabolaFalls ==
  ASSUME NEW s \in Scoring, ScoringValid(s), NEW n \in Nat, NEW m \in Nat, n <= m
  PROVE  /\ Parabola(s, n) \in Int /\ Parabola(s, m) \in Int
         /\ Parabola(s, m) <= Parabola(s, n)
<1> DEFINE k == s.initial - s.minimum
           x == n * n
           y == m * m
<1>1. x \in Nat /\ y \in Nat /\ x <= y
  <2>1. n * n <= n * m /\ n * m <= m * m /\ n * m \in Nat
    OBVIOUS
  <2> QED
    BY <2>1
<1>2. k \in Nat /\ s.initial * s.decay * s.decay \in Int
  BY RuleFacts
<1>3. Parabola(s, n) = s.initial * s.decay * s.decay - k * x
      /\ Parabola(s, m) = s.initial * s.decay * s.decay - k * y
  BY <1>2 DEF Parabola
<1> HIDE DEF k, x, y
<1>4. k * x \in Nat /\ k * y \in Nat /\ k * x <= k * y
  BY <1>1, <1>2
<1> QED
  BY <1>2, <1>3, <1>4

\* It starts at the initial points and is at the minimum after decay solves.
LEMMA ParabolaEnds ==
  ASSUME NEW s \in Scoring, ScoringValid(s)
  PROVE  /\ Round(Parabola(s, 0), s.decay * s.decay) = s.initial
         /\ Round(Parabola(s, s.decay), s.decay * s.decay) = s.minimum
<1> DEFINE d == s.decay * s.decay
<1>1. /\ s.initial \in Int /\ s.minimum \in Int /\ s.decay \in Int /\ d \in Nat \ {0}
  BY RuleFacts
<1>2. Parabola(s, 0) = s.initial * d
  BY <1>1 DEF Parabola
<1>3. Parabola(s, s.decay) = s.minimum * d
  <2>1. Parabola(s, s.decay) = s.initial * d - (s.initial - s.minimum) * d
    BY <1>1 DEF Parabola
  <2> HIDE DEF d
  <2>2. s.initial * d - (s.initial - s.minimum) * d = s.minimum * d
    BY <1>1
  <2> QED
    BY <2>1, <2>2
<1> HIDE DEF d
<1> QED
  BY <1>1, <1>2, <1>3, RoundExact DEF d

\* The points of a challenge fall with its solves, from its initial points to
\* its minimum and never below.
LEMMA PointsFall ==
  ASSUME NEW s \in Scoring, ScoringValid(s), NEW n \in Nat, NEW m \in Nat, n <= m
  PROVE  /\ challenge_points(s, n) \in Int /\ challenge_points(s, m) \in Int
         /\ challenge_points(s, m) <= challenge_points(s, n)
         /\ 0 < s.minimum /\ s.minimum <= challenge_points(s, m)
         /\ challenge_points(s, n) <= s.initial
<1> DEFINE d == s.decay * s.decay
           value(i) == Round(Parabola(s, i), d)
<1>1. /\ s.initial \in Int /\ s.minimum \in Int /\ 0 < s.minimum /\ s.minimum <= s.initial
      /\ d \in Nat \ {0}
  BY RuleFacts
<1>2. /\ Parabola(s, 0) \in Int /\ Parabola(s, n) \in Int /\ Parabola(s, m) \in Int
      /\ Parabola(s, m) <= Parabola(s, n) /\ Parabola(s, n) <= Parabola(s, 0)
  BY ParabolaFalls
<1>3. value(0) = s.initial
  BY ParabolaEnds
<1>4. \A i \in {n, m} :
        dynamic_points(s, i) = IF i = 0 THEN s.initial
                               ELSE IF value(i) < s.minimum THEN s.minimum ELSE value(i)
  BY DEF dynamic_points, Parabola
<1> HIDE DEF d
<1>5. value(n) \in Int /\ value(m) \in Int /\ value(m) <= value(n) /\ value(n) <= value(0)
  BY <1>1, <1>2, RoundMonotone
<1> HIDE DEF value
<1>6. /\ dynamic_points(s, n) \in Int /\ dynamic_points(s, m) \in Int
      /\ dynamic_points(s, m) <= dynamic_points(s, n)
      /\ s.minimum <= dynamic_points(s, m) /\ dynamic_points(s, n) <= s.initial
  BY <1>1, <1>3, <1>4, <1>5
<1> QED
  BY <1>1, <1>6 DEF challenge_points

(***************************************************************************)
(* What a challenge is worth, for every valid rule and any numbers of      *)
(* solves: it starts at its initial points, never rises with more solves,  *)
(* stays between minimum and initial, and a dynamic one has come down to   *)
(* its minimum after decay solves, whatever round() does in between.       *)
(* About dynamic_points and challenge_points.                              *)
(***************************************************************************)
THEOREM PointsFollowTheRule ==
  ASSUME NEW s \in Scoring, ScoringValid(s), NEW n \in Nat, NEW m \in Nat, n <= m
  PROVE  /\ challenge_points(s, 0) = s.initial
         /\ challenge_points(s, m) <= challenge_points(s, n)
         /\ challenge_points(s, n) \in s.minimum..s.initial
         /\ s.type = "dynamic" /\ s.decay <= n => challenge_points(s, n) = s.minimum
<1>1. challenge_points(s, 0) = s.initial
  BY DEF challenge_points, dynamic_points
<1>2. challenge_points(s, n) \in s.minimum..s.initial
  BY PointsFall, RuleFacts
<1>3. ASSUME s.type = "dynamic", s.decay <= n PROVE challenge_points(s, n) = s.minimum
  <2> DEFINE d == s.decay * s.decay
  <2>1. Parabola(s, n) \in Int /\ Parabola(s, s.decay) \in Int
        /\ Parabola(s, n) <= Parabola(s, s.decay) /\ d \in Nat \ {0}
    BY <1>3, RuleFacts, ParabolaFalls
  <2>2. Round(Parabola(s, n), d) \in Int /\ Round(Parabola(s, n), d) <= s.minimum
    <3>1. Round(Parabola(s, s.decay), d) = s.minimum
      BY ParabolaEnds
    <3> HIDE DEF d
    <3> QED
      BY <2>1, <3>1, RoundMonotone
  <2>3. n # 0 /\ s.type # "fixed" /\ s.minimum \in Int
    BY <1>3, RuleFacts
  <2>4. challenge_points(s, n) = IF Round(Parabola(s, n), d) < s.minimum THEN s.minimum
                                 ELSE Round(Parabola(s, n), d)
    BY <2>3 DEF challenge_points, dynamic_points, Parabola
  <2> HIDE DEF d
  <2> QED
    BY <2>2, <2>3, <2>4
<1> QED
  BY <1>1, <1>2, <1>3, PointsFall

-----------------------------------------------------------------------------
(* A solve *)

\* A step that changes what is counted, and no row or state, is a solve of a
\* challenge that its team had not solved.
LEMMA OneMore ==
  ASSUME IInv, SInv, [Next]_vars, Counted' # Counted,
         challenges' = challenges, state' = state, due' = due
  PROVE  \E new :
           /\ new \notin Counted /\ new.challenge \in existing
           /\ Counted' = Counted \union {new} /\ solves' \ solves = {new}
           /\ \A s \in Counted : ~ (s.team = new.team /\ s.challenge = new.challenge)
<1>1. BoardFrozen' = BoardFrozen
  BY DEF BoardFrozen
<1>2. solves' # solves
  BY <1>1 DEF Counted
<1>3. PICK t \in Teams, c \in Challenges : Solve(t, c)
  BY <1>2 DEF Next, vars, Begin, CommitDeletion, CommitEdit, Abandon, AdvanceEvent, ClockTick, Try
<1>4. PICK when \in {"before", "after"} :
        solves' = solves \union {[team |-> t, challenge |-> c, when |-> when]}
  BY <1>3 DEF Solve
<1> DEFINE new == [team |-> t, challenge |-> c, when |-> when]
<1>5. c \in existing /\ \A s \in solves : ~ (s.team = t /\ s.challenge = c)
  BY <1>3 DEF Solve, Open
<1>6. new.team = t /\ new.challenge = c /\ new \notin solves
  BY <1>5
<1> HIDE DEF new
<1>7. Counted' = Counted \union {new}
  BY <1>1, <1>4 DEF Counted, new
<1>8. solves' \ solves = {new}
  BY <1>4, <1>6 DEF new
<1>9. Counted \subseteq solves
  BY DEF Counted
<1> QED
  BY <1>5, <1>6, <1>7, <1>8, <1>9

\* What is counted is finite, and a challenge that is there has its points.
LEMMA WorthInt ==
  ASSUME IInv, SInv
  PROVE  /\ IsFiniteSet(Counted)
         /\ \A c : IsFiniteSet(SolvesOf(c)) /\ Cardinality(SolvesOf(c)) \in Nat
         /\ \A s \in Counted : s.challenge \in existing
         /\ \A c \in existing : challenges[c].scoring \in Scoring
                                /\ ScoringValid(challenges[c].scoring)
         /\ \A c \in existing : Worth(c) \in Int
<1>1. IsFiniteSet(Counted) /\ \A c : IsFiniteSet(SolvesOf(c))
  BY FS_Subset DEF SInv, Counted, SolvesOf
<1>2. \A c : Cardinality(SolvesOf(c)) \in Nat
  BY <1>1, FS_CardinalityType
<1>3. \A s \in Counted : s.challenge \in existing
  BY DEF IInv, TypeOK, Counted
<1>4. \A c \in existing : challenges[c].scoring \in Scoring
                          /\ ScoringValid(challenges[c].scoring)
  BY CatalogueAssumption DEF IInv, TypeOK, Row
<1>5. \A c \in existing : Worth(c) \in Int
  BY <1>2, <1>4, PointsFall DEF Worth
<1> QED
  BY <1>1, <1>2, <1>3, <1>4, <1>5

\* One more solve of c makes c worth no more, and nothing else anything else.
LEMMA WorthFalls ==
  ASSUME IInv, SInv, challenges' = challenges,
         NEW new, new \notin Counted, Counted' = Counted \union {new},
         new.challenge \in existing
  PROVE  /\ \A d \in existing : d # new.challenge => Worth(d)' = Worth(d)
         /\ \A d \in existing : Worth(d)' \in Int /\ Worth(d)' <= Worth(d)
         /\ 0 < Worth(new.challenge)'
<1> DEFINE c == new.challenge
<1>1. \A d : d # c => SolvesOf(d)' = SolvesOf(d)
  BY DEF SolvesOf
<1>2. \A d \in existing : d # c => Worth(d)' = Worth(d)
  BY <1>1 DEF Worth
<1>3. SolvesOf(c)' = SolvesOf(c) \union {new} /\ new \notin SolvesOf(c)
  BY DEF SolvesOf
<1>4. Cardinality(SolvesOf(c)') = Cardinality(SolvesOf(c)) + 1
  BY <1>3, WorthInt, FS_AddElement
<1> DEFINE n == Cardinality(SolvesOf(c))
           s == challenges[c].scoring
<1>5. Worth(c) = challenge_points(s, n) /\ Worth(c)' = challenge_points(s, n + 1)
  BY <1>4 DEF Worth
<1>6. n \in Nat /\ n <= n + 1 /\ s \in Scoring /\ ScoringValid(s)
  BY WorthInt
<1> HIDE DEF n, s, c
<1>7. Worth(c)' \in Int /\ Worth(c)' <= Worth(c) /\ 0 < Worth(c)'
  BY <1>5, <1>6, PointsFall, RuleFacts
<1>8. \A d \in existing : d # c => Worth(d)' \in Int /\ Worth(d)' <= Worth(d)
  BY <1>2, WorthInt
<1> QED
  BY <1>2, <1>7, <1>8 DEF c

\* The score of the team that solves grows, the others' do not.
LEMMA SolveScores ==
  ASSUME IInv, SInv, challenges' = challenges,
         NEW new, new \notin Counted, Counted' = Counted \union {new},
         new.challenge \in existing,
         \A s \in Counted : ~ (s.team = new.team /\ s.challenge = new.challenge)
  PROVE  /\ Score(new.team)' > Score(new.team)
         /\ \A t : t # new.team => Score(t)' <= Score(t)
<1> DEFINE Of(t) == {s \in Counted : s.team = t}
           Gets(t) == [s \in Of(t) |-> Worth(s.challenge)]
           GetsNow(t) == [s \in {s \in Counted' : s.team = t} |-> Worth(s.challenge)']
<1>1. \A t : Score(t) = SumFunction(Gets(t)) /\ Score(t)' = SumFunction(GetsNow(t))
  BY DEF Score
<1>2. \A t : IsFiniteSet(Of(t)) /\ Gets(t) \in [Of(t) -> Int]
  <2>1. \A t : Of(t) \subseteq Counted
    OBVIOUS
  <2>2. \A t : IsFiniteSet(Of(t))
    BY <2>1, WorthInt, FS_Subset
  <2> QED
    BY <2>2, WorthInt
<1>3. \A s \in Counted : Worth(s.challenge)' \in Int /\ Worth(s.challenge)' <= Worth(s.challenge)
  BY WorthInt, WorthFalls
<1>4. ASSUME NEW t, t # new.team PROVE Score(t)' <= Score(t)
  <2>1. {s \in Counted' : s.team = t} = Of(t)
    BY <1>4
  <2>2. GetsNow(t) \in [Of(t) -> Int] /\ \A s \in Of(t) : GetsNow(t)[s] <= Gets(t)[s]
    BY <1>3, <2>1
  <2> HIDE DEF Of, Gets, GetsNow
  <2> QED
    BY <1>1, <1>2, <2>2, SumMonotone
<1>5. Score(new.team)' > Score(new.team)
  <2> DEFINE t == new.team
  <2>1. {s \in Counted' : s.team = t} = Of(t) \union {new} /\ new \notin Of(t)
    OBVIOUS
  <2>2. \A s \in Of(t) : s.challenge \in existing /\ s.challenge # new.challenge
    BY WorthInt
  <2>3. \A s \in Of(t) : GetsNow(t)[s] = Gets(t)[s]
    BY <2>1, <2>2, WorthFalls
  <2>4. GetsNow(t)[new] = Worth(new.challenge)' /\ Worth(new.challenge)' \in Int
        /\ 0 < Worth(new.challenge)'
    BY <2>1, WorthFalls
  <2>5. GetsNow(t) \in [Of(t) \union {new} -> Int]
    BY <1>3, <2>1, <2>4
  <2> HIDE DEF Of, Gets, GetsNow, t
  <2>6. SumFunction(GetsNow(t)) = SumFunction(Gets(t)) + GetsNow(t)[new]
    <3> DEFINE S == Of(t)
               f == Gets(t)
               h == GetsNow(t)
    <3>1. /\ IsFiniteSet(S) /\ f \in [S -> Int] /\ new \notin S
          /\ h \in [S \union {new} -> Int] /\ \A y \in S : h[y] = f[y]
      BY <1>2, <2>1, <2>3, <2>5
    <3> HIDE DEF S, f, h
    <3>2. SumFunction(h) = SumFunction(f) + h[new]
      BY <3>1, SumAdd
    <3> QED
      BY <3>2 DEF f, h
  <2>7. SumFunction(Gets(t)) \in Int
    <3>1. DOMAIN Gets(t) = Of(t) /\ \A s \in Of(t) : Gets(t)[s] \in Int
      BY <1>2
    <3> QED
      BY <1>2, <3>1, SumInt
  <2>8. GetsNow(t)[new] \in Int /\ 0 < GetsNow(t)[new]
    BY <2>4
  <2>9. Score(t)' = Score(t) + GetsNow(t)[new] /\ Score(t) \in Int
    BY <1>1, <2>6, <2>7
  <2>10. Score(t)' > Score(t)
    BY <2>8, <2>9
  <2> QED
    BY <2>10 DEF t
<1> QED
  BY <1>4, <1>5

-----------------------------------------------------------------------------
(* The theorems *)

\* The invariant holds in every behaviour.
LEMMA Invariant == Spec => []IInv
BY InitIInv, NextIInv, PTL DEF Spec

\* Every variable keeps its type, prerequisites refer to challenges there are,
\* and challenges with attempts are never deleted.
THEOREM TypeCorrect == Spec => []TypeOK
<1>1. IInv => TypeOK
  BY DEF IInv
<1> QED
  BY <1>1, Invariant, PTL

\* Whatever is created, updated, imported and deleted in whatever order, every
\* team that has not solved everything has a challenge it may open next.
THEOREM CatalogueStaysOpen == Spec => []NobodyLockedOut
BY WayIn, Invariant, PTL

\* What the scores rest on holds in every behaviour.
LEMMA ScoresInvariant == Spec => [](IInv /\ SInv)
<1>1. Init => SInv
  BY FS_EmptySet DEF Init, SInv, Locked
<1> QED
  BY <1>1, InitIInv, NextIInv, NextSInv, PTL DEF Spec

\* The prerequisites of the catalogue if those of c were ids.
With(c, ids) == [d \in existing |-> IF d = c THEN ids ELSE challenges[d].prerequisites]

\* The walk of the stored graph finds every cycle that ids would close for c,
\* over however many hops, and no other fault.
LEMMA CheckExact ==
  ASSUME IInv, NEW c \in existing, NEW ids
  PROVE  LoadPrerequisites(ids, {c}) <=> ids \subseteq existing /\ Grounded(existing, With(c, ids))
<1> DEFINE P == [d \in existing |-> challenges[d].prerequisites]
           Q == With(c, ids)
<1>1. /\ \A d \in existing : P[d] \subseteq existing
      /\ \A d \in existing \ {c} : Q[d] = P[d]
      /\ Q[c] = ids
  BY DEF IInv, TypeOK, With
<1>2. \A d, x : Reaches(d, x) <=>
        \A S \in SUBSET existing : d \in S /\ (\A y \in S : P[y] \subseteq S) => x \in S
  BY DEF Reaches
<1>3. Grounded(existing, P)
  BY DEF IInv, WellFounded, Grounded
<1> HIDE DEF P, Q
<1>4. ASSUME ids \subseteq existing, \A d \in ids : d # c /\ ~ Reaches(d, c)
      PROVE  Grounded(existing, Q)
  <2>1. Rewired(existing, P, Q, c)
    BY <1>1, <1>2, <1>4 DEF Rewired
  <2>2. existing \union {c} = existing
    OBVIOUS
  <2> QED
    BY <1>3, <2>1, <2>2, NewEdges
<1>5. ASSUME ids \subseteq existing, Grounded(existing, Q), NEW d \in ids
      PROVE  d # c /\ ~ Reaches(d, c)
  <2>1. d # c
    <3>1. Q[c] \cap {c} = {}
      BY <1>5 DEF Grounded
    <3> QED
      BY <1>1, <1>5, <3>1
  <2>2. ASSUME Reaches(d, c) PROVE FALSE
    <3> DEFINE Closed == {T \in SUBSET existing : (\A y \in T : P[y] \subseteq T) /\ c \notin T}
               Clear == UNION Closed
               Bound == existing \ Clear
    <3>1. Clear \subseteq existing /\ c \notin Clear /\ \A y \in Clear : P[y] \subseteq Clear
      OBVIOUS
    <3>2. d \in Bound /\ c \in Bound
      BY <1>2, <1>5, <2>2, <3>1
    <3>3. ASSUME NEW x \in existing, x # c, P[x] \subseteq Clear PROVE x \in Clear
      <4>1. Clear \union {x} \in Closed
        BY <3>1, <3>3
      <4> QED
        BY <4>1
    <3> HIDE DEF Clear
    <3>4. PICK x \in Bound : Q[x] \cap Bound = {}
      BY <1>5, <3>2 DEF Grounded
    <3>5. x # c
      BY <1>1, <1>5, <3>2, <3>4
    <3>6. P[x] \subseteq Clear
      BY <1>1, <3>4, <3>5
    <3> QED
      BY <3>3, <3>4, <3>5, <3>6
  <2> QED
    BY <2>1, <2>2
<1> QED
  BY <1>4, <1>5 DEF LoadPrerequisites, Q

(***************************************************************************)
(* load_prerequisites accepts exactly the lists it should: the challenge   *)
(* may require ids if and only if they are there and the catalogue would   *)
(* still have no cycle.  It lets no cycle in, and refuses nothing else.    *)
(***************************************************************************)
THEOREM PrerequisiteCheckIsExact ==
  Spec => [](\A c \in existing, ids \in SUBSET Challenges :
               LoadPrerequisites(ids, {c})
                 <=> ids \subseteq existing /\ Grounded(existing, With(c, ids)))
<1>1. IInv => \A c \in existing, ids \in SUBSET Challenges :
                LoadPrerequisites(ids, {c})
                  <=> ids \subseteq existing /\ Grounded(existing, With(c, ids))
  BY CheckExact
<1> QED
  BY <1>1, Invariant, PTL

\* Once frozen by hand, ended or archived, the event keeps its ranking until
\* its state changes, for any challenges, scoring rules and sequence of edits:
\* edits of the scoring are refused, what was solved is not deleted, and new
\* solves lie behind the cutoff.
THEOREM RankingIsFinal == Spec => FrozenRankingIsFinal
<1>1. IInv /\ SInv /\ [Next]_vars =>
        [(state \in {"frozen", "ended", "archived"} /\ state' = state) => Ranking' = Ranking]_vars
  <2> SUFFICES ASSUME IInv, SInv, [Next]_vars,
                      state \in {"frozen", "ended", "archived"}, state' = state
               PROVE  Ranking' = Ranking
    OBVIOUS
  <2>1. \A t : Score(t)' = Score(t)
    BY FrozenInputs, SameInputs
  <2> QED
    BY <2>1 DEF Ranking
<1> QED
  BY <1>1, ScoresInvariant, PTL DEF Spec, FrozenRankingIsFinal

\* A solve that counts raises the score of its team and nobody else's,
\* whatever the scoring rules: dynamic_points never falls below the minimum,
\* and it falls as the solves of its challenge grow.
THEOREM SolvesPay == Spec => SolvingPays
<1>1. IInv /\ SInv /\ [Next]_vars =>
        [\A t \in Teams :
           Counted' # Counted /\ challenges' = challenges /\ state' = state /\ due' = due =>
             IF \E s \in solves' \ solves : s.team = t THEN Score(t)' > Score(t)
                                                       ELSE Score(t)' <= Score(t)]_vars
  <2> SUFFICES ASSUME IInv, SInv, [Next]_vars, NEW t \in Teams, Counted' # Counted,
                      challenges' = challenges, state' = state, due' = due
               PROVE  IF \E s \in solves' \ solves : s.team = t
                      THEN Score(t)' > Score(t) ELSE Score(t)' <= Score(t)
    OBVIOUS
  <2>1. PICK new :
          /\ new \notin Counted /\ new.challenge \in existing
          /\ Counted' = Counted \union {new} /\ solves' \ solves = {new}
          /\ \A s \in Counted : ~ (s.team = new.team /\ s.challenge = new.challenge)
    BY OneMore
  <2>2. /\ Score(new.team)' > Score(new.team)
        /\ t # new.team => Score(t)' <= Score(t)
    BY <2>1, SolveScores
  <2> QED
    BY <2>1, <2>2
<1> QED
  BY <1>1, ScoresInvariant, PTL DEF Spec, SolvingPays

=============================================================================
