--------------------------- MODULE MCSubmissions ----------------------------
(***************************************************************************)
(* Small instances of Submissions for TLC.  Two teammates and a rival, two *)
(* challenges of which the second may require the first, one right and one *)
(* wrong flag, two idempotency keys.                                       *)
(***************************************************************************)
EXTENDS Submissions, TLC

CONSTANTS ann, bob, eve, red, blue, warmup, final, k1, k2, right, wrong, r1, r2, r3

MCUsers == {ann, bob, eve}
MCTeams == {red, blue}
MCRequests == {r1, r2, r3}
MC2Requests == {r1, r2}

Ask(u, c, k, f) == [user |-> u, challenge |-> c, key |-> k, flag |-> f]

Open(f, n) == [flag |-> f, max_attempts |-> n, shown |-> "shown", requires |-> {}]

(* Grading: a first attempt, its retry or a teammate's rival attempt, and  *)
(* the other team, racing on the first challenge; all calls are legal.     *)
GradingCalls == {Ask(ann, warmup, k1, right), Ask(bob, warmup, k1, right),
                 Ask(bob, warmup, k2, wrong), Ask(eve, warmup, k1, right)}
GradingSettings == {Open(right, 1)}

(* Moderation: two requests, and administrators who change everything.     *)
ModerationCalls == {Ask(ann, warmup, k1, right), Ask(ann, final, k1, right)}
ModerationSettings == {Open(right, 1), Open(wrong, 0),
                       [Open(right, 1) EXCEPT !.shown = "scheduled"],
                       [Open(right, 1) EXCEPT !.requires = {warmup}]}

Symmetry == Permutations(Requests)

Seated == member = [u \in Users |-> IF u = eve THEN blue ELSE red]

(***************************************************************************)
(* Grading starts with everyone in a team and the event live, and leaves   *)
(* out the moderators: three requests, crashes, and the event's end.       *)
(***************************************************************************)
GradingInit ==
  /\ Seated
  /\ state = "registration" /\ window = "open"
  /\ Init

GradingNext ==
  \/ \E r \in Requests : Step(r) \/ Abort(r)
  \/ AdvanceEvent

\* No request arrives before the event is live.
GradingArrivals == state = "registration" => \A r \in Requests : pc[r] = "arrive"

GradingSpec == GradingInit /\ [][GradingNext]_vars

(***************************************************************************)
(* Moderation has two requests and every competing transaction.            *)
(***************************************************************************)
ModerationInit ==
  /\ Seated
  /\ Init

ModerationSpec == ModerationInit /\ [][Next]_vars

(***************************************************************************)
(* Liveness: two teammates and the rival after the same solve.             *)
(***************************************************************************)
LivenessInit ==
  /\ GradingInit
  /\ call = (r1 :> Ask(ann, warmup, k1, right) @@ r2 :> Ask(bob, warmup, k1, right)
              @@ r3 :> Ask(eve, warmup, k1, right))

LivenessSpec == LivenessInit /\ [][GradingNext]_vars /\ RequestsRun

=============================================================================
