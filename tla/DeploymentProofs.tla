-------------------------- MODULE DeploymentProofs --------------------------
(***************************************************************************)
(* Theorems about Deployment for any images, recipes, edits and            *)
(* advisories: what a deployment was let through for stays approved, what  *)
(* it leaves running was scanned, what it reports is exact, and it comes   *)
(* to an end and gives up the lock.                                        *)
(***************************************************************************)
EXTENDS Deployment, TLAPS

-----------------------------------------------------------------------------
(* The inductive invariant *)

Gating == {"snapshot", "invalidate", "audit", "render", "build", "inspect", "scan",
           "create", "publish"}
Deploying == {"up", "start", "oneoff"}

\* The recipe works under the lock, or has been killed while it deployed.
Holding(j) ==
  \/ pc[j] \in Gating \union Deploying
  \/ pc[j] \in Verifying /\ why[j] \in {"gate", "prestart", "running"}
  \/ pc[j] = "detached" /\ StopOnExit(j)

\* It has begun to replace containers.
Starting(j) == pc[j] = "start" \/ (pc[j] \in Verifying /\ why[j] = "running")

\* What a recipe verifies for is decided by where it is.
Role(j) ==
  /\ pc[j] \in Gating => why[j] = "gate"
  /\ pc[j] \in {"up", "oneoff"} => why[j] = "prestart"
  /\ pc[j] = "start" => why[j] = "starting"
  /\ pc[j] = "containers" => why[j] = "running"
  /\ pc[j] \in {"gate", "lock", "done", "failed", "unstopped"} => why[j] = "reuse"
  /\ pc[j] \in Verifying => why[j] # "starting"
  /\ pc[j] = "oneoff" => kind[j] # "up"
  /\ pc[j] = "detached" => ~ Alive(j)
  /\ why[j] = "confirm" => kind[j] = "build"

\* The source is what the gate began with and has been all the time, as far as
\* the gate relies on it.
Undisturbed(j) == j \notin restored /\ (pc[j] = "publish" \/ source = snap[j])

\* It is then the source of all that the gate has gone through.
OfItsSnapshot(j) ==
  /\ pc[j] \in {"build", "inspect", "scan", "create", "publish"} => config[j] = snap[j]
  /\ \A n \in Local :
       pc[j] \in {"inspect", "scan", "create"} \/ (pc[j] = "build" /\ n \notin left[j]) =>
         (tags[n].by # "other" => tags[n].from = snap[j])
  /\ \A n \in Names :
       pc[j] \in {"scan", "create", "publish"} \/ (pc[j] = "inspect" /\ n \notin left[j]) =>
         (ids[j][n].by # "other" => ids[j][n].from = snap[j])

\* What a gate has gone through is there and has been scanned.
Gated(j) ==
  /\ pc[j] \in Gating \ {"snapshot", "invalidate"} => manifest = None
  /\ Undisturbed(j) => OfItsSnapshot(j)
  /\ \A n \in Local :
       pc[j] \in {"inspect", "scan", "create"} \/ (pc[j] = "build" /\ n \notin left[j]) =>
         tags[n] # None
  /\ \A n \in Names :
       pc[j] \in {"scan", "create", "publish"} \/ (pc[j] = "inspect" /\ n \notin left[j]) =>
         ids[j][n] # None
  /\ \A n \in Names :
       pc[j] = "create" \/ (pc[j] = "scan" /\ n \notin left[j]) =>
         failed[j] \/ ids[j][n] \in cleared \ found
  /\ pc[j] = "publish" => \A n \in Names : ids[j][n] \in cleared \ found

\* A deployment that was let through has the manifest in force in its memory.
Reading(j) ==
  \/ pc[j] \in Deploying
  \/ pc[j] \in Verifying /\ why[j] = "running"
  \/ pc[j] \in Verifying \ {"load"} /\ why[j] = "prestart"

Read(j) ==
  Reading(j) => /\ manifest # None /\ paper[j] # None
                /\ manifest = [paper[j] EXCEPT !.fresh = manifest.fresh]

JobInv(j) == Role(j) /\ (Holding(j) => lock = j /\ Gated(j) /\ Read(j))

\* The manifest in force approves scanned images.
Approving ==
  manifest # None => \A n \in Names : manifest.images[n] \in cleared \ found

\* Found flaws are known ones.
Known == found \subseteq flawed

\* A recipe that has started something which it may leave running: it goes on,
\* was killed, or has failed to stop it.
Unclean(j) ==
  \/ Starting(j)
  \/ pc[j] = "unstopped"
  \/ pc[j] \in {"killed", "detached"} /\ StopOnExit(j)

LeftClean ==
  (\A j \in Jobs : ~ Unclean(j)) => \A n \in Names : running[n] \in cleared \union {None}

WorldInv == Approving /\ Known /\ LeftClean

IInv == TypeOK /\ WorldInv /\ \A j \in Jobs : JobInv(j)

-----------------------------------------------------------------------------
(* The recipes do not disturb each other *)

\* The step leaves the other recipes' memory alone.
Others(j) ==
  \A k \in Jobs \ {j} :
    /\ pc'[k] = pc[k] /\ why'[k] = why[k] /\ kind'[k] = kind[k] /\ left'[k] = left[k]
    /\ snap'[k] = snap[k] /\ config'[k] = config[k] /\ ids'[k] = ids[k]
    /\ failed'[k] = failed[k] /\ paper'[k] = paper[k] /\ reach'[k] = reach[k]
    /\ (k \in restored') = (k \in restored)

\* It leaves the rest alone too unless it holds the lock or the lock is free.
rest == <<source, tags, manifest, running, flawed, found, cleared>>

Excluded(j) == \A k \in Jobs \ {j} : lock = k => lock' = k /\ UNCHANGED rest

\* What holds of the other recipes still holds: of the one that holds the lock
\* because nothing of the rest has changed, of those that do not trivially.
LEMMA OthersStay ==
  ASSUME NEW j \in Jobs, NEW k \in Jobs \ {j}, JobInv(k), Others(j), Excluded(j)
  PROVE  JobInv(k)'
<1>1. /\ pc'[k] = pc[k] /\ why'[k] = why[k] /\ kind'[k] = kind[k] /\ left'[k] = left[k]
      /\ snap'[k] = snap[k] /\ config'[k] = config[k] /\ ids'[k] = ids[k]
      /\ failed'[k] = failed[k] /\ paper'[k] = paper[k] /\ reach'[k] = reach[k]
      /\ (k \in restored') = (k \in restored)
  BY DEF Others
<1>2. Role(k)' /\ (Holding(k)' <=> Holding(k))
  BY <1>1 DEF JobInv, Role, Holding, StopOnExit, Alive
<1>3. ASSUME Holding(k) PROVE lock' = k /\ Gated(k)' /\ Read(k)'
  <2>1. lock' = k /\ UNCHANGED rest
    BY <1>3 DEF JobInv, Excluded
  <2>2. Gated(k) /\ Read(k)
    BY <1>3 DEF JobInv
  <2>3. (Undisturbed(k)' <=> Undisturbed(k)) /\ (OfItsSnapshot(k)' <=> OfItsSnapshot(k))
    BY <1>1, <2>1 DEF Undisturbed, OfItsSnapshot, rest
  <2>4. Gated(k)'
    BY <1>1, <2>1, <2>2, <2>3 DEF Gated, rest
  <2>5. Read(k)'
    BY <1>1, <2>1, <2>2 DEF Read, Reading, rest
  <2> QED
    BY <2>1, <2>4, <2>5
<1> QED
  BY <1>2, <1>3 DEF JobInv

\* It is enough to look at the recipe that takes the step.
LEMMA OneStep ==
  ASSUME IInv, NEW j \in Jobs, Others(j), Excluded(j), TypeOK', WorldInv', JobInv(j)'
  PROVE  IInv'
<1>1. \A k \in Jobs : JobInv(k)'
  <2> SUFFICES ASSUME NEW k \in Jobs PROVE JobInv(k)'
    OBVIOUS
  <2>1. CASE k = j
    BY <2>1
  <2>2. CASE k # j
    BY <2>2, OthersStay DEF IInv
  <2> QED
    BY <2>1, <2>2
<1> QED
  BY <1>1 DEF IInv

\* Who was unclean among the others still is.
LEMMA UncleanStay ==
  ASSUME NEW j \in Jobs, Others(j), NEW k \in Jobs \ {j}
  PROVE  Unclean(k)' <=> Unclean(k)
BY DEF Others, Unclean, Starting, StopOnExit

\* A step that leaves the rest alone keeps the invariant of the rest, unless
\* it ends a start.
LEMMA WorldStays ==
  ASSUME WorldInv, NEW j \in Jobs, Others(j), UNCHANGED rest, Unclean(j) => Unclean(j)'
  PROVE  WorldInv'
<1>1. Approving' /\ Known'
  BY DEF WorldInv, Approving, Known, rest
<1>2. LeftClean'
  <2> SUFFICES ASSUME \A k \in Jobs : ~ Unclean(k)'
               PROVE  \A n \in Names : running'[n] \in cleared' \union {None}
    BY DEF LeftClean
  <2>1. \A k \in Jobs : ~ Unclean(k)
    BY UncleanStay
  <2> QED
    BY <2>1 DEF WorldInv, LeftClean, rest
<1> QED
  BY <1>1, <1>2 DEF WorldInv

-----------------------------------------------------------------------------
(* The end of a recipe *)

\* The memory of a process is typed when it is forgotten.
LEMMA ForgetTypes ==
  ASSUME TypeOK, NEW j \in Jobs, Forget(j)
  PROVE  /\ left' \in [Jobs -> SUBSET Names]
         /\ snap' \in [Jobs -> 0..LastSource] /\ config' \in [Jobs -> 0..LastSource]
         /\ ids' \in [Jobs -> [Names -> Image \union {None}]]
         /\ failed' \in [Jobs -> BOOLEAN]
         /\ paper' \in [Jobs -> Manifest \union {None}]
         /\ restored' \subseteq Jobs
<1>1. 0 \in 0..LastSource
  BY DeploymentAssumption
<1> QED
  BY <1>1 DEF TypeOK, Forget

\* It is that of one process.
LEMMA ForgetApart ==
  ASSUME TypeOK, NEW j \in Jobs, Forget(j), NEW here, NEW next, Goto(j, here, next),
         why' \in [Jobs -> Reasons], \A k \in Jobs \ {j} : why'[k] = why[k] /\ reach'[k] = reach[k],
         UNCHANGED kind
  PROVE  Others(j)
BY DEF TypeOK, Forget, Goto, Others

\* Exit gives up no lock but its own.
LEMMA ExitLock ==
  ASSUME TypeOK, NEW j \in Jobs, Exit(j)
  PROVE  /\ lock' \in Jobs \union {NoJob}
         /\ \A k \in Jobs \ {j} : lock = k => lock' = k
BY DEF TypeOK, Exit

\* A recipe that ends leaves nothing running that it has not verified, unless
\* it could not stop it.
LEMMA EndKeeps ==
  ASSUME IInv, NEW j \in Jobs, NEW here \in Labels \ Ended, NEW how \in {"done", "failed"},
         End(j, here, how),
         how = "done" /\ Starting(j) => \A n \in Names : running[n] \in cleared \union {None}
  PROVE  IInv'
<1>1. TypeOK /\ Exit(j) /\ Forget(j) /\ UNCHANGED <<kind, reach>> /\ Alive(j)
  BY DEF IInv, End, Exit
<1>2. PICK next \in {how, "unstopped"} :
        /\ Goto(j, here, next)
        /\ running' \in [Names -> Image \union {None}]
        /\ \/ next = "unstopped" /\ StopOnExit(j)
           \/ next = how /\ running' = IF how = "failed" /\ StopOnExit(j) THEN Stopped ELSE running
  BY <1>1 DEF End, TypeOK, Stopped
<1>3. pc[j] = here /\ pc'[j] = next /\ pc' \in [Jobs -> Labels] /\ why'[j] = "reuse"
      /\ why' \in [Jobs -> Reasons] /\ \A k \in Jobs \ {j} : why'[k] = why[k]
  BY <1>1, <1>2 DEF TypeOK, Goto, End, Labels, Reasons
<1>4. Others(j)
  BY <1>1, <1>2, <1>3, ForgetApart
<1>5. UNCHANGED <<source, disturbed, tags, manifest, flawed, found, cleared>>
  BY DEF End
<1>6. StopOnExit(j) => Starting(j) /\ lock = j
  <2>1. JobInv(j) /\ here \notin Ended /\ here \in Labels /\ here # "detached"
    BY <1>1, <1>3 DEF IInv, JobInv, Role
  <2> QED
    BY <1>3, <2>1 DEF JobInv, Role, Holding, Starting, StopOnExit, Labels, Ended, Gating,
       Verifying, Deploying
<1>7. Excluded(j)
  <2>1. StopOnExit(j) \/ running' = running
    BY <1>2
  <2>2. \A k \in Jobs \ {j} : lock = k => lock' = k
    BY <1>1, ExitLock
  <2> QED
    BY <1>5, <1>6, <2>1, <2>2 DEF Excluded, rest
<1>8. TypeOK'
  <2>1. lock' \in Jobs \union {NoJob}
    BY <1>1, ExitLock
  <2> QED
    BY <1>1, <1>2, <1>3, <1>5, <2>1, ForgetTypes DEF TypeOK
<1>9. WorldInv'
  <2>1. Approving' /\ Known'
    BY <1>5 DEF IInv, WorldInv, Approving, Known
  <2>2. LeftClean'
    <3> SUFFICES ASSUME \A k \in Jobs : ~ Unclean(k)'
                 PROVE  \A n \in Names : running'[n] \in cleared' \union {None}
      BY DEF LeftClean
    <3>1. next = how /\ running' = IF how = "failed" /\ StopOnExit(j) THEN Stopped ELSE running
      BY <1>2, <1>3 DEF Unclean
    <3>2. CASE StopOnExit(j) /\ how = "failed"
      BY <3>1, <3>2 DEF Stopped
    <3>3. CASE Starting(j) /\ how = "done"
      BY <1>5, <3>1, <3>3
    <3>4. CASE Starting(j) /\ how = "failed"
      <4>1. StopOnExit(j)
        BY <3>4 DEF IInv, JobInv, Role, Starting, StopOnExit
      <4> QED
        BY <3>2, <3>4, <4>1
    <3>5. CASE ~ Starting(j)
      <4>1. here # "detached"
        BY <1>1, <1>3 DEF IInv, JobInv, Role
      <4>2. \A k \in Jobs : ~ Unclean(k)
        BY <1>3, <1>4, <3>5, <4>1, UncleanStay DEF Unclean, Ended
      <4>3. running' = running
        BY <1>6, <3>1, <3>5
      <4> QED
        BY <1>5, <4>2, <4>3 DEF IInv, WorldInv, LeftClean
    <3> QED
      BY <3>2, <3>3, <3>4, <3>5
  <2> QED
    BY <2>1, <2>2 DEF WorldInv
<1>10. JobInv(j)'
  <2>1. ~ Holding(j)'
    BY <1>3 DEF Holding, Gating, Verifying, Deploying
  <2>2. Role(j)'
    BY <1>3 DEF Role, Gating, Verifying
  <2> QED
    BY <2>1, <2>2 DEF JobInv
<1> QED
  BY <1>4, <1>7, <1>8, <1>9, <1>10, OneStep

\* Killed, a recipe leaves what it has started, and the lock to its child.
LEMMA KillKeeps ==
  ASSUME IInv, NEW j \in Jobs, Kill(j)
  PROVE  IInv'
<1>1. /\ TypeOK /\ JobInv(j) /\ pc[j] \in Labels \ Ended /\ Alive(j)
      /\ UNCHANGED <<kind, why, lock, source, tags, manifest, running, flawed, found, cleared>>
      /\ disturbed' \in 0..MaxDisturbances
  BY DeploymentAssumption DEF IInv, TypeOK, Kill, Disturb
<1>2. reach' = [reach EXCEPT ![j] = Leftover(pc[j])] /\ Leftover(pc[j]) \in SUBSET Labels
  BY <1>1 DEF Kill, Leftover, Labels
<1>3. reach' \in [Jobs -> SUBSET Labels] /\ reach'[j] = Leftover(pc[j])
      /\ \A k \in Jobs \ {j} : reach'[k] = reach[k]
  BY <1>1, <1>2 DEF TypeOK
<1>4. Leftover(pc[j]) # Labels
  BY DEF Leftover, Labels
<1>5. Excluded(j) /\ UNCHANGED rest
  BY <1>1 DEF Excluded, rest
<1>6. CASE Leftover(pc[j]) = {}
  <2>1. Goto(j, pc[j], "detached") /\ Forget(j)
    BY <1>6 DEF Kill
  <2>2. pc'[j] = "detached" /\ pc' \in [Jobs -> Labels] /\ why' \in [Jobs -> Reasons]
    BY <1>1, <2>1 DEF TypeOK, Goto, Labels
  <2>3. Others(j)
    BY <1>1, <1>3, <2>1, <2>2, ForgetApart
  <2>4. TypeOK'
    BY <1>1, <1>3, <2>1, <2>2, ForgetTypes DEF TypeOK
  <2>5. StopOnExit(j) => Holding(j)
    BY <1>1 DEF JobInv, Role, Holding, StopOnExit, Labels, Ended, Gating, Verifying, Deploying
  <2>6. Unclean(j) => Unclean(j)'
    BY <1>1, <2>2 DEF Unclean, Starting, JobInv, Role, StopOnExit, Ended
  <2>7. WorldInv'
    BY <1>5, <2>3, <2>6, WorldStays DEF IInv
  <2>8. Role(j)'
    BY <1>1, <1>3, <1>4, <2>2 DEF JobInv, Role, Gating, Verifying, Alive
  <2>9. Holding(j)' => lock' = j
    BY <1>1, <2>2, <2>5 DEF JobInv, Holding, StopOnExit, Gating, Verifying, Deploying
  <2>10. Gated(j)' /\ Read(j)'
    BY <2>2 DEF Gated, OfItsSnapshot, Read, Reading, Gating, Verifying, Deploying
  <2> QED
    BY <1>5, <2>3, <2>4, <2>7, <2>8, <2>9, <2>10, OneStep DEF JobInv
<1>7. CASE Leftover(pc[j]) # {}
  <2>1. UNCHANGED <<own, pc, restored>>
    BY <1>7 DEF Kill
  <2>2. Others(j)
    BY <1>1, <1>3, <2>1 DEF Others, own
  <2>3. TypeOK'
    BY <1>1, <1>3, <2>1 DEF TypeOK, own
  <2>4. WorldInv'
    BY <1>1, <1>5, <2>1, <2>2, WorldStays DEF IInv, Unclean, Starting, StopOnExit
  <2>5. Role(j)' /\ (Holding(j)' <=> Holding(j)) /\ (Read(j)' <=> Read(j))
    BY <1>1, <2>1 DEF JobInv, Role, Holding, StopOnExit, Read, Reading, own
  <2>6. Gated(j)' <=> Gated(j)
    BY <1>1, <2>1 DEF Gated, Undisturbed, OfItsSnapshot, own
  <2> QED
    BY <1>1, <1>5, <2>2, <2>3, <2>4, <2>5, <2>6, OneStep DEF JobInv
<1> QED
  BY <1>6, <1>7

\* What is left of a killed recipe ends as the recipe was.
LEMMA OrphanKeeps ==
  ASSUME IInv, NEW j \in Jobs, OrphanEnds(j)
  PROVE  IInv'
<1>1. /\ TypeOK /\ JobInv(j) /\ Exit(j) /\ Forget(j) /\ UNCHANGED <<kind, why, world>>
      /\ pc[j] \in Labels \ Ended
      /\ pc' = [pc EXCEPT ![j] = "killed"] /\ reach' = [reach EXCEPT ![j] = {}]
  BY DEF IInv, TypeOK, OrphanEnds, Exit
<1>2. /\ pc'[j] = "killed" /\ pc' \in [Jobs -> Labels] /\ reach' \in [Jobs -> SUBSET Labels]
      /\ \A k \in Jobs \ {j} : pc'[k] = pc[k] /\ reach'[k] = reach[k]
  BY <1>1 DEF TypeOK, Labels
<1>3. Others(j)
  BY <1>1, <1>2 DEF TypeOK, Forget, Others
<1>4. lock' \in Jobs \union {NoJob} /\ \A k \in Jobs \ {j} : lock = k => lock' = k
  BY <1>1, ExitLock
<1>5. Excluded(j) /\ UNCHANGED rest
  BY <1>1, <1>4 DEF Excluded, world, rest
<1>6. TypeOK'
  BY <1>1, <1>2, <1>4, ForgetTypes DEF TypeOK, world
<1>7. Unclean(j) => Unclean(j)'
  BY <1>1, <1>2 DEF Unclean, Starting, JobInv, Role, StopOnExit, Ended
<1>8. WorldInv'
  BY <1>3, <1>5, <1>7, WorldStays DEF IInv
<1>9. JobInv(j)'
  BY <1>1, <1>2 DEF JobInv, Role, Holding, Gating, Verifying, Deploying
<1> QED
  BY <1>3, <1>5, <1>6, <1>8, <1>9, OneStep

-----------------------------------------------------------------------------
(* Verification *)

\* A step within the memory of one recipe.
LEMMA InMemory ==
  ASSUME IInv, NEW j \in Jobs, Others(j), UNCHANGED <<lock, world>>,
         TypeOK', JobInv(j)', Unclean(j) => Unclean(j)'
  PROVE  IInv'
<1>1. Excluded(j) /\ UNCHANGED rest
  BY DEF Excluded, world, rest
<1>2. WorldInv'
  BY <1>1, WorldStays DEF IInv
<1> QED
  BY <1>1, <1>2, OneStep

\* A recipe that gives up its lock between two parts.
LEMMA Release ==
  ASSUME IInv, NEW j \in Jobs, Exit(j), NEW here \in Verifying,
         NEW next \in {"load", "gate", "lock"}, Goto(j, here, next),
         UNCHANGED <<kind, world, reach>>, ~ Starting(j), NEW reason \in {"reuse", "confirm"},
         why' = [why EXCEPT ![j] = reason],
         next # "load" => reason = "reuse", reason = "confirm" => kind[j] = "build"
  PROVE  IInv'
<1>1. /\ TypeOK /\ pc[j] = here /\ pc'[j] = next /\ why'[j] = reason
      /\ pc' \in [Jobs -> Labels] /\ why' \in [Jobs -> Reasons]
      /\ \A k \in Jobs \ {j} : why'[k] = why[k]
      /\ Forget(j)
  BY DEF IInv, TypeOK, Goto, Labels, Reasons, Exit
<1>2. Others(j)
  BY <1>1, ForgetApart
<1>3. lock' \in Jobs \union {NoJob} /\ \A k \in Jobs \ {j} : lock = k => lock' = k
  BY <1>1, ExitLock
<1>4. Excluded(j) /\ UNCHANGED rest
  BY <1>3 DEF Excluded, world, rest
<1>5. TypeOK'
  BY <1>1, <1>3, ForgetTypes DEF TypeOK, world
<1>6. ~ Unclean(j)
  BY <1>1 DEF Unclean, Verifying
<1>7. WorldInv'
  BY <1>2, <1>4, <1>6, WorldStays DEF IInv
<1>8. JobInv(j)'
  BY <1>1 DEF JobInv, Role, Holding, Gating, Verifying, Deploying
<1> QED
  BY <1>2, <1>4, <1>5, <1>7, <1>8, OneStep

\* A verification that fails ends the recipe, or leads `make up` to a gate.
LEMMA UnverifiedKeeps ==
  ASSUME IInv, NEW j \in Jobs, NEW here \in Verifying, Unverified(j, here)
  PROVE  IInv'
<1>1. here \in Labels \ Ended
  BY DEF Labels, Ended, Verifying
<1>2. CASE why[j] = "reuse" /\ Goto(j, here, "gate") /\ Exit(j) /\ UNCHANGED <<kind, why, world, reach>>
  <2>1. why' = [why EXCEPT ![j] = "reuse"]
    BY <1>2 DEF IInv, TypeOK
  <2>2. ~ Starting(j)
    BY <1>1, <1>2 DEF Starting, Goto, Verifying
  <2> QED
    BY <1>1, <1>2, <2>1, <2>2, Release
<1>3. CASE End(j, here, "failed")
  BY <1>1, <1>3, EndKeeps
<1> QED
  BY <1>2, <1>3 DEF Unverified

\* load_manifest puts the manifest in force in the recipe's memory.
LEMMA LoadKeeps ==
  ASSUME IInv, NEW j \in Jobs, Load(j)
  PROVE  IInv'
<1>1. CASE Unverified(j, "load")
  BY <1>1, UnverifiedKeeps DEF Verifying
<1>2. CASE /\ manifest # None /\ manifest.fresh
           /\ Goto(j, "load", "digest")
           /\ paper' = [paper EXCEPT ![j] = manifest]
           /\ Keep(j) /\ UNCHANGED <<kind, left, snap, config, ids, failed, world>>
  <2>1. TypeOK /\ JobInv(j) /\ pc[j] = "load" /\ pc'[j] = "digest" /\ paper'[j] = manifest
    BY <1>2 DEF IInv, Goto, TypeOK
  <2>2. TypeOK'
    BY <1>2, <2>1 DEF TypeOK, Goto, Keep, world, Labels
  <2>3. Others(j) /\ UNCHANGED <<lock, world>>
    BY <1>2, <2>1 DEF Others, TypeOK, Goto, Keep
  <2>4. /\ Role(j)' /\ (Holding(j)' => lock' = j)
        /\ Gated(j)' /\ (Unclean(j) => Unclean(j)')
    BY <1>2, <2>1 DEF JobInv, Role, Holding, Gated, OfItsSnapshot, Unclean, Starting,
       StopOnExit, Alive, Gating, Verifying, Deploying,
                      Keep, world
  <2>5. manifest = [manifest EXCEPT !.fresh = manifest.fresh]
    BY <1>2, <2>1 DEF TypeOK, Manifest
  <2>6. Read(j)'
    BY <1>2, <2>1, <2>5 DEF Read, world
  <2> QED
    BY <2>1, <2>2, <2>3, <2>4, <2>6, InMemory DEF JobInv
<1> QED
  BY <1>1, <1>2 DEF Load

\* The comparisons of a verification leave the manifest it has read alone.
LEMMA CompareKeeps ==
  ASSUME IInv, NEW j \in Jobs, NEW here \in {"digest", "graph", "images"},
         NEW next \in {"graph", "images"}, Goto(j, here, next), Keep(j),
         config' \in [Jobs -> 0..LastSource], left' \in [Jobs -> SUBSET Names],
         \A k \in Jobs \ {j} : config'[k] = config[k] /\ left'[k] = left[k],
         UNCHANGED <<kind, snap, ids, failed, paper, world>>
  PROVE  IInv'
<1>1. TypeOK /\ JobInv(j) /\ pc[j] = here /\ pc'[j] = next
  BY DEF IInv, Goto, TypeOK
<1>2. TypeOK'
  BY <1>1 DEF TypeOK, Goto, Keep, world, Labels
<1>3. Others(j) /\ UNCHANGED <<lock, world>>
  BY <1>1 DEF Others, TypeOK, Goto, Keep
<1>4. /\ Role(j)' /\ (Holding(j)' => Holding(j) /\ lock' = j) /\ Gated(j)'
      /\ (Unclean(j) => Unclean(j)')
  BY <1>1 DEF JobInv, Role, Holding, Gated, OfItsSnapshot, Unclean, Starting, StopOnExit,
     Alive, Gating, Verifying, Deploying, Keep, world
<1>5. Read(j) => Read(j)'
  BY <1>1 DEF Read, Reading, Verifying, Deploying, Keep, world
<1> QED
  BY <1>1, <1>2, <1>3, <1>4, <1>5, InMemory DEF JobInv

\* source_digest, the Compose graph and the images.
LEMMA ChecksKeep ==
  ASSUME IInv, NEW j \in Jobs, CheckDigest(j) \/ CheckGraph(j) \/ \E n \in Names : CheckImage(j, n)
  PROVE  IInv'
<1>1. TypeOK
  BY DEF IInv
<1>2. CASE CheckDigest(j)
  <2>1. CASE Goto(j, "digest", "graph") /\ Keep(j) /\ UNCHANGED <<own, world>>
    BY <1>1, <2>1, CompareKeeps DEF TypeOK, own
  <2>2. CASE Unverified(j, "digest")
    BY <2>2, UnverifiedKeeps DEF Verifying
  <2> QED
    BY <1>2, <2>1, <2>2 DEF CheckDigest
<1>3. CASE CheckGraph(j)
  <2>1. CASE Unverified(j, "graph")
    BY <2>1, UnverifiedKeeps DEF Verifying
  <2>2. CASE ~ Unverified(j, "graph")
    <3>1. /\ Goto(j, "graph", "images") /\ Keep(j)
          /\ config' = [config EXCEPT ![j] = source] /\ left' = [left EXCEPT ![j] = Names]
          /\ UNCHANGED <<kind, snap, ids, failed, paper, world>>
      BY <1>3, <2>2 DEF CheckGraph
    <3>2. /\ config' \in [Jobs -> 0..LastSource] /\ left' \in [Jobs -> SUBSET Names]
          /\ \A k \in Jobs \ {j} : config'[k] = config[k] /\ left'[k] = left[k]
      BY <1>1, <3>1 DEF TypeOK
    <3> QED
      BY <3>1, <3>2, CompareKeeps
  <2> QED
    BY <2>1, <2>2
<1>4. ASSUME NEW n \in Names, CheckImage(j, n) PROVE IInv'
  <2>1. CASE Unverified(j, "images")
    BY <2>1, UnverifiedKeeps DEF Verifying
  <2>2. CASE ~ Unverified(j, "images")
    <3>1. /\ Goto(j, "images", "images") /\ Keep(j)
          /\ left' = [left EXCEPT ![j] = @ \ {n}]
          /\ UNCHANGED <<kind, snap, config, ids, failed, paper, world>>
      BY <1>4, <2>2 DEF CheckImage
    <3>2. /\ config' \in [Jobs -> 0..LastSource] /\ left' \in [Jobs -> SUBSET Names]
          /\ \A k \in Jobs \ {j} : config'[k] = config[k] /\ left'[k] = left[k]
      BY <1>1, <3>1 DEF TypeOK
    <3> QED
      BY <3>1, <3>2, CompareKeeps
  <2> QED
    BY <2>1, <2>2
<1> QED
  BY <1>2, <1>3, <1>4

\* What has passed a verification goes on with what the verification was for.
LEMMA VerifiedKeeps ==
  ASSUME IInv, NEW j \in Jobs, Verified(j)
  PROVE  IInv'
<1>1. TypeOK /\ JobInv(j) /\ pc[j] = "images" /\ "images" \in Labels \ Ended
  BY DEF IInv, Verified, Labels, Ended
<1>2. CASE /\ why[j] = "gate" /\ kind[j] = "build"
           /\ Goto(j, "images", "load")
           /\ why' = [why EXCEPT ![j] = "confirm"]
           /\ Exit(j) /\ UNCHANGED <<kind, world, reach>>
  BY <1>1, <1>2, Release DEF Starting, Verifying
<1>3. CASE why[j] = "confirm" /\ End(j, "images", "done")
  BY <1>1, <1>3, EndKeeps DEF Starting
<1>4. CASE /\ why[j] \in {"reuse", "gate"} /\ kind[j] = "up"
           /\ Goto(j, "images", "lock")
           /\ why' = [why EXCEPT ![j] = "reuse"]
           /\ Exit(j) /\ UNCHANGED <<kind, world, reach>>
  BY <1>1, <1>4, Release DEF Starting, Verifying
<1>5. ASSUME NEW next \in {"up", "oneoff", "containers"},
             Goto(j, "images", next), Keep(j), UNCHANGED <<own, world>>,
             why[j] = IF next = "containers" THEN "running" ELSE "prestart",
             next = "oneoff" => kind[j] # "up"
      PROVE  IInv'
  <2>1. pc'[j] = next /\ Others(j) /\ UNCHANGED <<lock, world>>
    BY <1>1, <1>5 DEF Others, TypeOK, Goto, Keep, own
  <2>2. TypeOK'
    BY <1>1, <1>5 DEF TypeOK, Goto, Keep, own, world, Labels
  <2>3. /\ Role(j)' /\ (Holding(j)' => lock' = j) /\ Gated(j)'
        /\ (Unclean(j) => Unclean(j)')
    BY <1>1, <1>5, <2>1 DEF JobInv, Role, Holding, Gated, OfItsSnapshot, Unclean, Starting,
       StopOnExit, Alive, Gating, Verifying,
                            Deploying, Keep, own, world
  <2>4. Read(j)'
    BY <1>1, <1>5, <2>1 DEF JobInv, Holding, Read, Reading, Verifying, Deploying, Keep, own, world
  <2> QED
    BY <1>1, <2>1, <2>2, <2>3, <2>4, InMemory DEF JobInv
<1> QED
  BY <1>2, <1>3, <1>4, <1>5 DEF Verified

\* verify_running lets a recipe end with what the manifest approves.
LEMMA CheckContainersKeeps ==
  ASSUME IInv, NEW j \in Jobs, CheckContainers(j)
  PROVE  IInv' /\ (pc'[j] = "done" => manifest # None /\ running' = manifest.images)
<1>1. TypeOK /\ JobInv(j) /\ pc[j] = "containers" /\ "containers" \in Labels \ Ended
  BY DEF IInv, CheckContainers, Labels, Ended
<1>2. Holding(j) /\ Reading(j)
  BY <1>1 DEF JobInv, Role, Holding, Reading, Verifying
<1>3. manifest # None /\ manifest.images = paper[j].images
  BY <1>1, <1>2 DEF JobInv, Read, TypeOK, Manifest
<1>4. CASE running = paper[j].images
  <2>1. End(j, "containers", "done")
    BY <1>4 DEF CheckContainers
  <2>2. \A n \in Names : running[n] \in cleared \union {None}
    BY <1>3, <1>4 DEF IInv, WorldInv, Approving
  <2>3. IInv'
    BY <1>1, <2>1, <2>2, EndKeeps
  <2>4. running' = running
    BY <2>1 DEF End
  <2> QED
    BY <1>3, <1>4, <2>3, <2>4
<1>5. CASE running # paper[j].images
  <2>1. End(j, "containers", "failed")
    BY <1>5 DEF CheckContainers
  <2>2. IInv'
    BY <1>1, <2>1, EndKeeps
  <2>3. pc'[j] # "done"
    BY <1>1, <2>1 DEF End, Goto, TypeOK
  <2> QED
    BY <2>2, <2>3
<1> QED
  BY <1>4, <1>5

-----------------------------------------------------------------------------
(* The gate *)

\* Only one recipe gets the lock.
LEMMA TakeLockKeeps ==
  ASSUME IInv, NEW j \in Jobs, NEW here \in {"gate", "lock"}, TakeLock(j, here)
  PROVE  IInv'
<1>1. TypeOK /\ JobInv(j) /\ here \in Labels \ Ended
  BY DEF IInv, Labels, Ended
<1>2. CASE End(j, here, "failed")
  BY <1>1, <1>2, EndKeeps
<1>3. CASE lock = NoJob /\ Lock(j, here)
  <2>1. /\ pc[j] = here /\ pc'[j] = (IF here = "gate" THEN "snapshot" ELSE "load")
        /\ why'[j] = (IF here = "gate" THEN "gate" ELSE "prestart") /\ lock' = j
        /\ UNCHANGED <<own, world>>
    BY <1>1, <1>3 DEF Lock, Goto, TypeOK
  <2>2. Others(j)
    BY <1>1, <1>3 DEF Lock, Goto, Others, TypeOK, own
  <2>3. Excluded(j)
    BY <1>3, DeploymentAssumption DEF Excluded
  <2>4. TypeOK'
    BY <1>1, <1>3, <2>1 DEF TypeOK, Lock, Goto, own, world, Labels, Reasons
  <2>5. ~ Unclean(j) /\ UNCHANGED rest
    BY <2>1 DEF Unclean, Starting, Verifying, world, rest
  <2>6. WorldInv'
    BY <2>1, <2>2, <2>5, WorldStays DEF IInv
  <2>7. Role(j)' /\ Gated(j)' /\ Read(j)'
    BY <2>1 DEF Role, Gated, OfItsSnapshot, Read, Reading, Gating, Verifying, Deploying, own
  <2> QED
    BY <2>1, <2>2, <2>3, <2>4, <2>6, <2>7, OneStep DEF JobInv
<1> QED
  BY <1>2, <1>3 DEF TakeLock

\* Who holds the lock may change the rest.
LEMMA HeldStep ==
  ASSUME IInv, NEW j \in Jobs, Holding(j), Others(j), TypeOK', WorldInv', JobInv(j)'
  PROVE  IInv'
<1>1. lock = j
  BY DEF IInv, JobInv
<1>2. Excluded(j)
  BY <1>1 DEF Excluded
<1> QED
  BY <1>2, OneStep

\* A gate begins with the source as it is.
LEMMA SnapshotKeeps ==
  ASSUME IInv, NEW j \in Jobs, Snapshot(j)
  PROVE  IInv'
<1>1. TypeOK /\ JobInv(j) /\ pc[j] = "snapshot" /\ Holding(j)
  BY DEF IInv, Snapshot, Goto, Holding, Gating
<1>2. pc'[j] = "invalidate" /\ snap'[j] = source /\ UNCHANGED <<kind, why, lock, world, reach, restored>>
  BY <1>1 DEF Snapshot, Goto, TypeOK, Keep
<1>3. Others(j)
  BY <1>1 DEF Snapshot, Goto, Others, TypeOK, Keep
<1>4. TypeOK'
  BY <1>1, <1>2 DEF Snapshot, Goto, TypeOK, Keep, world, Labels
<1>5. Role(j)' /\ Gated(j)' /\ Read(j)'
  BY <1>1, <1>2 DEF JobInv, Role, Gated, Undisturbed, OfItsSnapshot, Read, Reading, Gating,
     Verifying, Deploying, world, TypeOK
<1>6. ~ Unclean(j)
  BY <1>1 DEF Unclean, Starting, Verifying
<1> QED
  BY <1>1, <1>2, <1>3, <1>4, <1>5, <1>6, InMemory DEF JobInv

\* It revokes the manifest.
LEMMA InvalidateKeeps ==
  ASSUME IInv, NEW j \in Jobs, Invalidate(j)
  PROVE  IInv'
<1>1. TypeOK /\ JobInv(j) /\ pc[j] = "invalidate" /\ Holding(j)
  BY DEF IInv, Invalidate, Goto, Holding, Gating
<1>2. /\ pc'[j] = "audit" /\ manifest' = None
      /\ UNCHANGED <<own, why, lock, source, disturbed, tags, running, flawed, found, cleared,
                     reach, restored>>
  BY <1>1 DEF Invalidate, Goto, TypeOK, Keep
<1>3. Others(j)
  BY <1>1 DEF Invalidate, Goto, Others, TypeOK, Keep, own
<1>4. TypeOK'
  BY <1>1, <1>2 DEF Invalidate, Goto, TypeOK, Keep, own, Labels
<1>5. Role(j)' /\ Gated(j)' /\ Read(j)'
  BY <1>1, <1>2 DEF JobInv, Role, Gated, Undisturbed, OfItsSnapshot, Read, Reading, Gating,
     Verifying, Deploying, own
<1>6. WorldInv'
  <2>1. Approving' /\ Known'
    BY <1>2 DEF IInv, WorldInv, Approving, Known
  <2>2. \A k \in Jobs : Unclean(k)' <=> Unclean(k)
    BY <1>1, <1>2, <1>3, UncleanStay DEF Unclean, Starting, Verifying
  <2>3. LeftClean'
    BY <1>2, <2>2 DEF IInv, WorldInv, LeftClean
  <2> QED
    BY <2>1, <2>3 DEF WorldInv
<1> QED
  BY <1>1, <1>2, <1>3, <1>4, <1>5, <1>6, HeldStep DEF JobInv

\* The audits, the graph and the ends of the loops.
LEMMA AuditKeeps ==
  ASSUME IInv, NEW j \in Jobs, Audit(j)
  PROVE  IInv'
<1>1. TypeOK /\ JobInv(j) /\ pc[j] = "audit" /\ Holding(j)
  BY DEF IInv, Audit, Goto, Holding, Gating
<1>2. /\ pc'[j] = "render" /\ failed' \in [Jobs -> BOOLEAN]
      /\ UNCHANGED <<kind, why, left, snap, config, ids, paper, lock, world, reach, restored>>
  BY <1>1 DEF Audit, Goto, TypeOK, Keep
<1>3. Others(j)
  BY <1>1 DEF Audit, Goto, Others, TypeOK, Keep
<1>4. TypeOK'
  BY <1>1, <1>2 DEF Audit, Goto, TypeOK, world, Labels
<1>5. Role(j)' /\ Gated(j)' /\ Read(j)'
  BY <1>1, <1>2 DEF JobInv, Role, Gated, Undisturbed, OfItsSnapshot, Read, Reading, Gating,
     Verifying, Deploying, world
<1>6. ~ Unclean(j)
  BY <1>1 DEF Unclean, Starting, Verifying
<1> QED
  BY <1>1, <1>2, <1>3, <1>4, <1>5, <1>6, InMemory DEF JobInv

\* The graph is rendered from the source as it is.
LEMMA RenderKeeps ==
  ASSUME IInv, NEW j \in Jobs, Render(j)
  PROVE  IInv'
<1>1. TypeOK /\ JobInv(j) /\ pc[j] = "render" /\ Holding(j)
  BY DEF IInv, Render, Goto, Holding, Gating
<1>2. /\ pc'[j] = "build" /\ config'[j] = source /\ left'[j] = Local
      /\ UNCHANGED <<kind, why, snap, ids, failed, paper, lock, world, reach, restored>>
  BY <1>1 DEF Render, Goto, TypeOK, Keep
<1>3. Others(j)
  BY <1>1 DEF Render, Goto, Others, TypeOK, Keep
<1>4. TypeOK'
  BY <1>1, <1>2 DEF Render, Goto, TypeOK, world, Labels, Names
<1>5. Role(j)' /\ Gated(j)' /\ Read(j)'
  BY <1>1, <1>2 DEF JobInv, Role, Gated, Undisturbed, OfItsSnapshot, Read, Reading, Gating,
     Verifying, Deploying, world, TypeOK
<1>6. ~ Unclean(j)
  BY <1>1 DEF Unclean, Starting, Verifying
<1> QED
  BY <1>1, <1>2, <1>3, <1>4, <1>5, <1>6, InMemory DEF JobInv

\* An image is built from the source as it is.
LEMMA BuildKeeps ==
  ASSUME IInv, NEW j \in Jobs, NEW n \in Names, Build(j, n)
  PROVE  IInv'
<1>1. TypeOK /\ JobInv(j) /\ pc[j] = "build" /\ Holding(j) /\ source \in Nat
  BY DeploymentAssumption DEF IInv, Build, Goto, Holding, Gating, TypeOK
<1>2. /\ pc' = pc /\ left'[j] = left[j] \ {n} /\ left' \in [Jobs -> SUBSET Names]
      /\ UNCHANGED <<kind, why, snap, config, ids, failed, paper, lock,
                     source, disturbed, manifest, running, flawed, found, cleared, reach, restored>>
  BY <1>1 DEF Build, Goto, TypeOK, Keep
<1>3. Others(j)
  BY <1>1, <1>2 DEF Build, Others, TypeOK, Keep
<1>4. /\ tags' \in [Local -> Image \union {None}]
      /\ \A m \in Local : tags'[m] = IF m = n THEN [of |-> n, from |-> source, by |-> "source"]
                                              ELSE tags[m]
  BY <1>1 DEF Build, TypeOK, Image
<1>5. TypeOK'
  BY <1>1, <1>2, <1>4 DEF TypeOK
<1>6. n \in Local => tags'[n] # None /\ tags'[n].from = source
  BY <1>1, <1>4, DeploymentAssumption DEF TypeOK, Image
<1>7. Role(j)' /\ Read(j)'
  BY <1>1, <1>2 DEF JobInv, Role, Read, Reading, Gating, Verifying, Deploying
<1>8. Gated(j)'
  <2>1. Gated(j)
    BY <1>1 DEF JobInv
  <2>2. Undisturbed(j)' <=> Undisturbed(j)
    BY <1>1, <1>2 DEF Undisturbed
  <2>3. Undisturbed(j) => source = snap[j]
    BY <1>1 DEF Undisturbed
  <2>4. \A m \in Local : m \notin left'[j] => tags'[m] # None
    BY <1>1, <1>2, <1>4, <1>6, <2>1 DEF Gated
  <2>5. Undisturbed(j) =>
          \A m \in Local : m \notin left'[j] /\ tags'[m].by # "other" => tags'[m].from = snap[j]
    BY <1>1, <1>2, <1>4, <2>1, <2>3 DEF Gated, OfItsSnapshot
  <2>6. Undisturbed(j) => OfItsSnapshot(j)'
    BY <1>1, <1>2, <2>1, <2>5 DEF Gated, OfItsSnapshot
  <2> QED
    BY <1>1, <1>2, <2>1, <2>2, <2>4, <2>6 DEF Gated, Gating
<1>9. WorldInv'
  <2>1. Approving' /\ LeftClean'
    BY <1>2 DEF IInv, WorldInv, Approving, LeftClean, Unclean, Starting, StopOnExit
  <2>2. Known'
    BY <1>2 DEF IInv, WorldInv, Known
  <2> QED
    BY <2>1, <2>2 DEF WorldInv
<1> QED
  BY <1>1, <1>2, <1>3, <1>5, <1>7, <1>8, <1>9, HeldStep DEF JobInv

\* The next loop begins when the last one has gone through everything.
LEMMA OnwardKeeps ==
  ASSUME IInv, NEW j \in Jobs, NEW here \in {"build", "inspect", "scan"},
         NEW next \in {"inspect", "scan", "create"},
         <<here, next>> \in {<<"build", "inspect">>, <<"inspect", "scan">>, <<"scan", "create">>},
         Onward(j, here, next)
  PROVE  IInv'
<1>1. TypeOK /\ JobInv(j) /\ pc[j] = here /\ Holding(j)
  BY DEF IInv, Onward, Goto, Holding, Gating
<1>2. /\ pc'[j] = next /\ left[j] = {} /\ left'[j] = Names
      /\ UNCHANGED <<kind, why, snap, config, ids, failed, paper, lock, world, reach, restored>>
  BY <1>1 DEF Onward, Goto, TypeOK, Keep
<1>3. Others(j)
  BY <1>1 DEF Onward, Goto, Others, TypeOK, Keep
<1>4. TypeOK'
  BY <1>1, <1>2 DEF Onward, Goto, TypeOK, world, Labels
<1>5. Role(j)' /\ Read(j)'
  BY <1>1, <1>2 DEF JobInv, Role, Read, Reading, Gating, Verifying, Deploying
<1>6. Gated(j)'
  <2>1. Gated(j)
    BY <1>1 DEF JobInv
  <2> QED
    BY <1>1, <1>2, <2>1 DEF Gated, Undisturbed, OfItsSnapshot, Gating, world
<1>7. ~ Unclean(j)
  BY <1>1 DEF Unclean, Starting, Verifying
<1> QED
  BY <1>1, <1>2, <1>3, <1>4, <1>5, <1>6, <1>7, InMemory DEF JobInv

\* An image id is looked up.
LEMMA InspectKeeps ==
  ASSUME IInv, NEW j \in Jobs, NEW n \in Names, Inspect(j, n)
  PROVE  IInv'
<1>1. TypeOK /\ JobInv(j) /\ pc[j] = "inspect" /\ Holding(j) /\ Gated(j)
  BY DEF IInv, Inspect, Goto, Holding, Gating, JobInv
<1>2. /\ pc' = pc /\ left'[j] = left[j] \ {n} /\ left' \in [Jobs -> SUBSET Names]
      /\ UNCHANGED <<kind, why, snap, config, failed, paper, lock, world, reach, restored>>
  BY <1>1 DEF Inspect, Goto, TypeOK, Keep
<1>3. Others(j)
  BY <1>1, <1>2 DEF Inspect, Others, TypeOK, Keep
<1> DEFINE id == Resolve(n, config[j])
<1>4. /\ id # None /\ id \in Image
      /\ Undisturbed(j) /\ id.by # "other" => id.from = snap[j]
  <2>1. CASE n \in Local
    <3>1. id = tags[n] /\ tags[n] # None
      BY <1>1, <2>1 DEF Resolve, Gated
    <3>2. Undisturbed(j) /\ tags[n].by # "other" => tags[n].from = snap[j]
      BY <1>1, <2>1 DEF Gated, OfItsSnapshot
    <3> QED
      BY <1>1, <2>1, <3>1, <3>2 DEF TypeOK
  <2>2. CASE n \notin Local
    <3>1. id = [of |-> n, from |-> config[j], by |-> "registry"]
      BY <2>2 DEF Resolve
    <3>2. Undisturbed(j) => config[j] = snap[j]
      BY <1>1 DEF Gated, OfItsSnapshot
    <3>3. id \in Image
      BY <1>1, <3>1 DEF Image, TypeOK
    <3> QED
      BY <3>1, <3>2, <3>3, DeploymentAssumption
  <2> QED
    BY <2>1, <2>2
<1> HIDE DEF id
<1>5. /\ ids' \in [Jobs -> [Names -> Image \union {None}]]
      /\ \A m \in Names : ids'[j][m] = IF m = n THEN id ELSE ids[j][m]
  BY <1>1, <1>4 DEF Inspect, TypeOK, id
<1>6. TypeOK'
  BY <1>1, <1>2, <1>5 DEF TypeOK, world
<1>7. Role(j)' /\ Read(j)'
  BY <1>1, <1>2 DEF JobInv, Role, Read, Reading, Gating, Verifying, Deploying
<1>8. Gated(j)'
  <2>1. Undisturbed(j)' <=> Undisturbed(j)
    BY <1>1, <1>2 DEF Undisturbed, world
  <2>2. ASSUME Undisturbed(j) PROVE OfItsSnapshot(j)'
    <3>1. OfItsSnapshot(j)
      BY <1>1, <2>2 DEF Gated
    <3>2. config'[j] = snap'[j] /\ snap'[j] = snap[j]
      BY <1>1, <1>2, <3>1 DEF OfItsSnapshot
    <3>3. \A m \in Names : m \notin left'[j] /\ ids'[j][m].by # "other" => ids'[j][m].from = snap[j]
      BY <1>1, <1>2, <1>4, <1>5, <2>2, <3>1 DEF OfItsSnapshot
    <3> QED
      BY <1>1, <1>2, <3>1, <3>2, <3>3 DEF OfItsSnapshot, world
  <2>3. \A m \in Names : m \notin left'[j] => ids'[j][m] # None
    BY <1>1, <1>2, <1>4, <1>5 DEF Gated
  <2> QED
    BY <1>1, <1>2, <2>1, <2>2, <2>3 DEF Gated, Gating, world
<1>9. ~ Unclean(j)
  BY <1>1 DEF Unclean, Starting, Verifying
<1>10. Others(j) /\ UNCHANGED <<lock, world, reach, restored>>
  BY <1>2, <1>3 DEF world
<1> QED
  BY <1>1, <1>2, <1>6, <1>7, <1>8, <1>9, <1>10, InMemory DEF JobInv

\* An image is cleared, or its flaw is found and fails the gate.
LEMMA ScanKeeps ==
  ASSUME IInv, NEW j \in Jobs, NEW n \in Names, Scan(j, n)
  PROVE  IInv'
<1> DEFINE bad == ids[j][n] \in flawed
<1>1. /\ TypeOK /\ JobInv(j) /\ pc[j] = "scan" /\ Holding(j) /\ Gated(j)
      /\ found \subseteq flawed /\ manifest = None
  BY DEF IInv, Scan, Goto, Holding, Gating, JobInv, WorldInv, Known, Gated
<1>2. /\ pc' = pc /\ left'[j] = left[j] \ {n} /\ left' \in [Jobs -> SUBSET Names]
      /\ failed'[j] = (failed[j] \/ bad) /\ failed' \in [Jobs -> BOOLEAN]
      /\ found' = (IF bad THEN found \union {ids[j][n]} ELSE found)
      /\ cleared' = (IF bad THEN cleared ELSE cleared \union {ids[j][n]})
      /\ UNCHANGED <<kind, why, snap, config, ids, paper, lock, source, disturbed, tags, manifest,
                     running, flawed, reach, restored>>
  BY <1>1 DEF Scan, Goto, TypeOK, Keep
<1>3. Others(j)
  BY <1>1, <1>2 DEF Scan, Others, TypeOK, Keep
<1>4. ids[j][n] \in Image
  BY <1>1 DEF Gated, TypeOK
<1>5. TypeOK'
  BY <1>1, <1>2, <1>4 DEF TypeOK
<1>6. Role(j)' /\ Read(j)'
  BY <1>1, <1>2 DEF JobInv, Role, Read, Reading, Gating, Verifying, Deploying
<1>7. Gated(j)'
  <2>1. \A m \in Names : m \notin left'[j] => failed'[j] \/ ids[j][m] \in cleared' \ found'
    BY <1>1, <1>2 DEF Gated
  <2> QED
    BY <1>1, <1>2, <2>1 DEF Gated, Undisturbed, OfItsSnapshot, Gating
<1>8. WorldInv'
  <2>1. Approving' /\ Known'
    BY <1>1, <1>2 DEF IInv, WorldInv, Approving, Known
  <2>2. LeftClean'
    BY <1>2 DEF IInv, WorldInv, LeftClean, Unclean, Starting, StopOnExit
  <2> QED
    BY <2>1, <2>2 DEF WorldInv
<1> QED
  BY <1>1, <1>2, <1>3, <1>5, <1>6, <1>7, <1>8, HeldStep DEF JobInv

\* build_payload insists on the snapshot: every image is of that one source.
LEMMA CreateKeeps ==
  ASSUME IInv, NEW j \in Jobs, Create(j)
  PROVE  IInv'
<1>1. CASE End(j, "create", "failed")
  BY <1>1, EndKeeps DEF Labels, Ended
<1>2. CASE ~ failed[j] /\ source = snap[j] /\ Goto(j, "create", "publish") /\ Keep(j)
           /\ UNCHANGED <<own, world>>
  <2>1. /\ TypeOK /\ JobInv(j) /\ pc[j] = "create" /\ Holding(j) /\ Gated(j)
        /\ pc'[j] = "publish"
    BY <1>2 DEF IInv, Goto, Holding, Gating, JobInv, TypeOK
  <2>2. Others(j) /\ UNCHANGED <<lock, world>>
    BY <1>2 DEF Goto, Others, IInv, TypeOK, Keep, own
  <2>3. TypeOK'
    BY <1>2, <2>1 DEF Goto, TypeOK, Keep, own, world, Labels
  <2>4. Role(j)' /\ Read(j)'
    BY <1>2, <2>1 DEF JobInv, Role, Read, Reading, Gating, Verifying, Deploying, Keep, own
  <2>5. \A n \in Names : ids[j][n] # None /\ ids[j][n] \in cleared \ found
    BY <1>2, <2>1 DEF Gated
  <2>6. Undisturbed(j)' => OfItsSnapshot(j)'
    <3>1. Undisturbed(j)' => Undisturbed(j)
      BY <1>2 DEF Undisturbed, Keep
    <3>2. Undisturbed(j) => OfItsSnapshot(j)
      BY <2>1 DEF Gated
    <3> QED
      BY <1>2, <2>1, <3>1, <3>2 DEF OfItsSnapshot, own
  <2>7. Gated(j)'
    BY <1>2, <2>1, <2>5, <2>6 DEF Gated, Gating, own, world
  <2>8. ~ Unclean(j)
    BY <2>1 DEF Unclean, Starting, Verifying
  <2> QED
    BY <1>2, <2>1, <2>2, <2>3, <2>4, <2>7, <2>8, InMemory DEF JobInv, Keep
<1> QED
  BY <1>1, <1>2 DEF Create

\* The manifest appears in one piece.
LEMMA PublishKeeps ==
  ASSUME IInv, NEW j \in Jobs, Publish(j)
  PROVE  IInv'
<1>1. /\ TypeOK /\ JobInv(j) /\ pc[j] = "publish" /\ Holding(j) /\ Gated(j)
  BY DEF IInv, Publish, Goto, Holding, Gating, JobInv
<1>2. /\ pc'[j] = "load" /\ manifest' = Payload(j) /\ why[j] = "gate"
      /\ UNCHANGED <<own, why, lock, source, disturbed, tags, running, flawed, found, cleared,
                     reach, restored>>
  BY <1>1 DEF Publish, Goto, TypeOK, Keep, JobInv, Role, Gating
<1>3. Others(j)
  BY <1>1 DEF Publish, Goto, Others, TypeOK, Keep, own
<1>4. ids[j] \in [Names -> Image]
  BY <1>1 DEF Gated, TypeOK
<1>5. Payload(j) \in Manifest
  BY <1>1, <1>4 DEF Payload, Manifest, TypeOK
<1>6. TypeOK'
  BY <1>1, <1>2, <1>5 DEF Publish, Goto, TypeOK, own, Labels
<1>7. Role(j)' /\ Gated(j)' /\ Read(j)'
  BY <1>1, <1>2 DEF JobInv, Role, Gated, Undisturbed, OfItsSnapshot, Read, Reading, Gating,
     Verifying, Deploying, own
<1>8. WorldInv'
  <2>1. Approving'
    BY <1>1, <1>2 DEF Gated, Approving, Payload
  <2>2. Known'
    BY <1>2 DEF IInv, WorldInv, Known
  <2>3. \A k \in Jobs : Unclean(k)' <=> Unclean(k)
    BY <1>1, <1>2, <1>3, UncleanStay DEF Unclean, Starting, Verifying
  <2>4. LeftClean'
    BY <1>2, <2>3 DEF IInv, WorldInv, LeftClean
  <2> QED
    BY <2>1, <2>2, <2>4 DEF WorldInv
<1> QED
  BY <1>1, <1>2, <1>3, <1>6, <1>7, <1>8, HeldStep DEF JobInv

\* A gate keeps the invariant.
LEMMA GateKeeps ==
  ASSUME IInv, NEW j \in Jobs, Gate(j)
  PROVE  IInv'
BY TakeLockKeeps, SnapshotKeeps, InvalidateKeeps, AuditKeeps, RenderKeeps, BuildKeeps,
   InspectKeeps, ScanKeeps, OnwardKeeps, CreateKeeps, PublishKeeps DEF Gate

-----------------------------------------------------------------------------
(* The deployment *)

\* Starting containers, one after the other.
LEMMA StartKeeps ==
  ASSUME IInv, NEW j \in Jobs, Up(j) \/ (\E n \in Names : Start(j, n)) \/ Started(j)
  PROVE  IInv'
<1>1. TypeOK /\ JobInv(j) /\ pc[j] \in {"up", "start"} /\ Holding(j) /\ Gated(j) /\ Read(j)
  BY DEF IInv, JobInv, Up, Start, Started, Goto, Holding, Deploying
<1>2. /\ pc' \in [Jobs -> Labels] /\ why' \in [Jobs -> Reasons]
      /\ pc'[j] \in {"start", "load"}
      /\ why'[j] = IF pc'[j] = "start" THEN "starting" ELSE "running"
      /\ left' \in [Jobs -> SUBSET Names] /\ config' \in [Jobs -> 0..LastSource]
      /\ running' \in [Names -> Image \union {None}]
      /\ UNCHANGED <<kind, snap, ids, failed, paper, lock,
                     source, disturbed, tags, manifest, flawed, found, cleared, reach, restored>>
  <2>1. CASE Up(j)
    BY <1>1, <2>1 DEF Up, Goto, TypeOK, world, Labels, Reasons
  <2>2. CASE Started(j)
    BY <1>1, <2>2 DEF Started, Goto, TypeOK, own, world, Labels, Reasons
  <2>3. ASSUME NEW n \in Names, Start(j, n)
        PROVE  Resolve(n, config[j]) \in Image \union {None}
    BY <1>1 DEF Resolve, TypeOK, Image
  <2>4. ASSUME NEW n \in Names, Start(j, n)
        PROVE  /\ pc' = pc /\ why' = why /\ pc[j] = "start" /\ why[j] = "starting"
               /\ left' \in [Jobs -> SUBSET Names] /\ config' = config
               /\ running' \in [Names -> Image \union {None}]
               /\ UNCHANGED <<kind, snap, ids, failed, paper, lock,
                              source, disturbed, tags, manifest, flawed, found, cleared, reach, restored>>
    BY <1>1, <2>3, <2>4 DEF Start, Goto, TypeOK, Keep, JobInv, Role
  <2>5. ASSUME NEW n \in Names, Start(j, n)
        PROVE  pc' \in [Jobs -> Labels] /\ why' \in [Jobs -> Reasons]
    BY <1>1, <2>4, <2>5 DEF TypeOK
  <2> QED
    BY <1>1, <2>1, <2>4, <2>5, <2>2 DEF TypeOK
<1>3. Others(j)
  BY <1>1 DEF Up, Start, Started, Goto, Others, TypeOK, Keep, own
<1>4. TypeOK'
  BY <1>1, <1>2 DEF TypeOK
<1>5. Role(j)' /\ Gated(j)' /\ Unclean(j)'
  BY <1>1, <1>2 DEF JobInv, Role, Gated, OfItsSnapshot, Unclean, Starting, Gating, Verifying,
     Deploying
<1>6. Read(j)'
  BY <1>1, <1>2 DEF Read, Reading, Deploying
<1>7. WorldInv'
  BY <1>2, <1>5 DEF IInv, WorldInv, Approving, Known, LeftClean
<1>8. lock' = j
  BY <1>1, <1>2 DEF JobInv
<1> QED
  BY <1>1, <1>3, <1>4, <1>5, <1>6, <1>7, <1>8, HeldStep DEF JobInv

\* A deployment keeps the invariant.
LEMMA DeployKeeps ==
  ASSUME IInv, NEW j \in Jobs, Deploy(j)
  PROVE  IInv'
<1>1. CASE TakeLock(j, "lock")
  BY <1>1, TakeLockKeeps
<1>2. CASE Up(j) \/ (\E n \in Names : Start(j, n)) \/ Started(j)
  BY <1>2, StartKeeps
<1>3. CASE End(j, "oneoff", "done")
  <2>1. pc[j] = "oneoff"
    BY <1>3 DEF End, Goto
  <2>2. ~ Starting(j) /\ "oneoff" \in Labels \ Ended
    BY <2>1 DEF Starting, Verifying, Labels, Ended
  <2> QED
    BY <1>3, <2>2, EndKeeps
<1> QED
  BY <1>1, <1>2, <1>3 DEF Deploy

\* A recipe that fails anywhere keeps the invariant.
LEMMA AbortKeeps ==
  ASSUME IInv, NEW j \in Jobs, Abort(j)
  PROVE  IInv'
<1>1. CASE pc[j] \notin Ended /\ End(j, pc[j], "failed")
  BY <1>1, EndKeeps DEF IInv, TypeOK
<1>2. CASE pc[j] \in Verifying /\ Unverified(j, pc[j])
  BY <1>2, UnverifiedKeeps
<1> QED
  BY <1>1, <1>2 DEF Abort

-----------------------------------------------------------------------------
(* The environment *)

\* The memory of the recipes is untouched.
Outside == UNCHANGED <<own, pc, why, lock, manifest, running, found, cleared, reach>>

\* Without the recipes, a gate is noted when its snapshot is brought back, and
\* an image built of the source only is of the source as it is.
LEMMA OutsideKeeps ==
  ASSUME IInv, Outside, TypeOK',
         \A j \in Jobs : j \in restored => j \in restored',
         \A j \in Jobs : pc[j] \in Relying /\ source' = snap[j] /\ j \notin restored' => source = snap[j],
         \A n \in Local : \/ tags'[n] = tags[n]
                          \/ /\ tags'[n] # None /\ source' = source
                             /\ tags'[n].by # "other" => tags'[n].from = source,
         flawed \subseteq flawed'
  PROVE  IInv'
<1>1. WorldInv'
  <2>1. Approving' /\ LeftClean'
    BY DEF Outside, IInv, WorldInv, Approving, LeftClean, Unclean, Starting, StopOnExit
  <2>2. Known'
    BY DEF Outside, IInv, WorldInv, Known
  <2> QED
    BY <2>1, <2>2 DEF WorldInv
<1>2. ASSUME NEW j \in Jobs PROVE JobInv(j)'
  <2>1. JobInv(j)
    BY DEF IInv
  <2>2. Role(j)' /\ (Holding(j)' <=> Holding(j)) /\ (Read(j) => Read(j)')
    BY <2>1 DEF Outside, own, JobInv, Role, Holding, StopOnExit, Alive, Read, Reading
  <2>3. ASSUME Gated(j) PROVE Gated(j)'
    <3>1. /\ UNCHANGED <<pc, why, manifest, found, cleared>>
          /\ left'[j] = left[j] /\ snap'[j] = snap[j] /\ config'[j] = config[j]
          /\ ids'[j] = ids[j] /\ failed'[j] = failed[j]
      BY DEF Outside, own
    <3>2. ASSUME Undisturbed(j)', pc[j] \in Relying \union {"publish"} PROVE Undisturbed(j)
      BY <3>1, <3>2 DEF Undisturbed
    <3>3. ASSUME Undisturbed(j)' PROVE OfItsSnapshot(j)'
      <4>1. CASE pc[j] \in Relying
        <5>1. Undisturbed(j) /\ OfItsSnapshot(j)
          BY <2>3, <3>2, <3>3, <4>1 DEF Gated
        <5>2. source = snap[j]
          BY <4>1, <5>1 DEF Undisturbed, Relying
        <5> QED
          BY <3>1, <5>1, <5>2 DEF OfItsSnapshot
      <4>2. CASE pc[j] = "publish"
        <5>1. OfItsSnapshot(j)
          BY <2>3, <3>2, <3>3, <4>2 DEF Gated
        <5> QED
          BY <3>1, <4>2, <5>1 DEF OfItsSnapshot
      <4>3. CASE pc[j] \notin Relying \union {"publish"}
        BY <3>1, <4>3 DEF OfItsSnapshot, Relying
      <4> QED
        BY <4>1, <4>2, <4>3
    <3>4. \A n \in Local : tags[n] # None => tags'[n] # None
      OBVIOUS
    <3> QED
      BY <2>3, <3>1, <3>3, <3>4 DEF Gated
  <2> QED
    BY <2>1, <2>2, <2>3 DEF JobInv, Outside
<1> QED
  BY <1>1, <1>2 DEF IInv

\* Edits, tags moved outside the gate, advisories and the age of the manifest.
LEMMA EnvironmentKeeps ==
  ASSUME IInv, Edit \/ (\E n \in Local : Retag(n)) \/ (\E n \in Names : Advise(n)) \/ Expire
  PROVE  IInv'
<1>1. TypeOK /\ disturbed' \in 0..MaxDisturbances
  BY DeploymentAssumption DEF IInv, TypeOK, Edit, Retag, Advise, Expire, Disturb
<1>2. CASE Edit
  <2>1. /\ source' \in 0..LastSource
        /\ restored' = restored \union {j \in Jobs : pc[j] \in Relying /\ source' = snap[j]}
        /\ UNCHANGED <<own, pc, why, lock, tags, manifest, running, flawed, found, cleared, reach>>
    BY <1>2 DEF Edit
  <2>2. TypeOK'
    BY <1>1, <2>1 DEF TypeOK, own
  <2>3. Outside
    BY <2>1 DEF Outside
  <2> QED
    BY <2>1, <2>2, <2>3, OutsideKeeps
<1>3. ASSUME NEW n \in Local, Retag(n) PROVE IInv'
  <2>1. PICK by \in {"source", "other"} :
          tags' = [tags EXCEPT ![n] =
                     [of |-> n, from |-> IF by = "source" THEN source ELSE 0, by |-> by]]
    BY <1>3 DEF Retag
  <2> DEFINE image == [of |-> n, from |-> IF by = "source" THEN source ELSE 0, by |-> by]
  <2>2. image \in Image /\ image # None /\ (image.by # "other" => image.from = source)
    <3>1. 0 \in 0..LastSource
      BY DeploymentAssumption
    <3>2. image \in Image
      BY <1>1, <3>1 DEF TypeOK, Image, Names
    <3> QED
      BY <3>2, DeploymentAssumption
  <2> HIDE DEF image
  <2>3. /\ tags' \in [Local -> Image \union {None}]
        /\ \A m \in Local : tags'[m] = IF m = n THEN image ELSE tags[m]
    BY <1>1, <2>1, <2>2 DEF TypeOK, image
  <2>4. UNCHANGED <<own, pc, why, lock, source, manifest, running, flawed, found, cleared, reach, restored>>
    BY <1>3 DEF Retag
  <2>5. TypeOK'
    BY <1>1, <2>3, <2>4 DEF TypeOK, own
  <2>6. Outside
    BY <2>4 DEF Outside
  <2> QED
    BY <2>2, <2>3, <2>4, <2>5, <2>6, OutsideKeeps
<1>4. ASSUME NEW n \in Names, Advise(n) PROVE IInv'
  <2>1. Resolve(n, source) \in Image
    BY <1>1, <1>4 DEF Advise, Resolve, TypeOK, Image
  <2>2. TypeOK'
    BY <1>1, <1>4, <2>1 DEF Advise, TypeOK, own
  <2> QED
    <3>1. /\ Outside /\ source' = source /\ restored' = restored
          /\ tags' = tags /\ flawed \subseteq flawed'
      BY <1>4 DEF Advise, Outside
    <3> QED
      BY <2>2, <3>1, OutsideKeeps
<1>5. CASE Expire
  <2>1. manifest # None /\ manifest \in Manifest /\ manifest' = [manifest EXCEPT !.fresh = FALSE]
        /\ UNCHANGED <<own, pc, why, lock, source, tags, running, flawed, found, cleared, reach, restored>>
    BY <1>1, <1>5 DEF Expire, TypeOK
  <2>2. /\ manifest' \in Manifest /\ manifest' # None
        /\ manifest'.images = manifest.images /\ manifest'.fresh = FALSE
    BY <2>1, DeploymentAssumption DEF Manifest
  <2>3. TypeOK'
    BY <1>1, <2>1, <2>2 DEF TypeOK, own
  <2>4. WorldInv'
    BY <2>1, <2>2 DEF IInv, WorldInv, Approving, Known, LeftClean, Unclean, Starting, StopOnExit
  <2>5. ASSUME NEW j \in Jobs PROVE JobInv(j)'
    <3>1. JobInv(j)
      BY DEF IInv
    <3>2. Role(j)' /\ (Holding(j)' <=> Holding(j)) /\ (Reading(j)' <=> Reading(j))
          /\ paper'[j] = paper[j] /\ lock' = lock
      BY <2>1, <3>1 DEF own, JobInv, Role, Holding, StopOnExit, Alive, Reading
    <3>3. Gated(j) => Gated(j)'
      BY <2>1 DEF Gated, Undisturbed, OfItsSnapshot, own
    <3>4. ASSUME Read(j), Reading(j) PROVE manifest' = [paper[j] EXCEPT !.fresh = manifest'.fresh]
      <4>1. paper[j] \in Manifest /\ manifest = [paper[j] EXCEPT !.fresh = manifest.fresh]
        BY <1>1, <3>4 DEF Read, TypeOK
      <4> QED
        BY <2>1, <2>2, <4>1 DEF Manifest
    <3>5. Read(j) => Read(j)'
      BY <2>2, <3>2, <3>4 DEF Read
    <3> QED
      BY <3>1, <3>2, <3>3, <3>5 DEF JobInv
  <2> QED
    BY <2>3, <2>4, <2>5 DEF IInv
<1> QED
  BY <1>2, <1>3, <1>4, <1>5

-----------------------------------------------------------------------------
(* The theorems *)

\* It holds at first, with or without a manifest.
LEMMA InitIInv == Init => IInv
<1> SUFFICES ASSUME Init PROVE IInv
  OBVIOUS
<1>1. \A n \in Names : FirstImage(n) \in Image /\ FirstImage(n).of = n /\ FirstImage(n).from = 0
  BY DeploymentAssumption DEF FirstImage, Image
<1>2. FirstManifest \in Manifest /\ FirstManifest # None
  <2>1. [n \in Names |-> FirstImage(n)] \in [Names -> Image] /\ 0 \in 0..LastSource
    BY <1>1, DeploymentAssumption
  <2>2. FirstManifest \in Manifest
    BY <2>1 DEF FirstManifest, Manifest
  <2> QED
    BY <2>2, DeploymentAssumption
<1>3. TypeOK
  <2>1. pc \in [Jobs -> Labels]
    BY DEF Init, Labels, Kinds
  <2>2. /\ kind \in [Jobs -> Kinds] /\ why \in [Jobs -> Reasons]
        /\ left \in [Jobs -> SUBSET Names]
        /\ snap \in [Jobs -> 0..LastSource] /\ config \in [Jobs -> 0..LastSource]
        /\ ids \in [Jobs -> [Names -> Image \union {None}]]
        /\ failed \in [Jobs -> BOOLEAN]
        /\ paper \in [Jobs -> Manifest \union {None}]
        /\ lock \in Jobs \union {NoJob} /\ source \in 0..LastSource
        /\ disturbed \in 0..MaxDisturbances
        /\ reach \in [Jobs -> SUBSET Labels] /\ restored \subseteq Jobs
    BY DeploymentAssumption DEF Init, Reasons
  <2>3. /\ tags \in [Local -> Image \union {None}] /\ manifest \in Manifest \union {None}
        /\ running \in [Names -> Image \union {None}]
        /\ flawed \subseteq Image /\ found \subseteq Image /\ cleared \subseteq Image
    <3>1. FirstManifest.images = [n \in Names |-> FirstImage(n)]
      BY DEF FirstManifest
    <3>2. CASE manifest = None
      BY <1>2, <3>2 DEF Init, Stopped
    <3>3. CASE manifest # None
      <4>1. /\ manifest = FirstManifest /\ cleared = {FirstImage(n) : n \in Names}
            /\ tags = [n \in Local |-> FirstImage(n)] /\ running = FirstManifest.images
            /\ flawed = {} /\ found = {}
        BY <3>3 DEF Init
      <4>2. tags \in [Local -> Image \union {None}] /\ running \in [Names -> Image \union {None}]
        BY <1>1, <3>1, <4>1 DEF Names
      <4>3. cleared \subseteq Image
        BY <1>1, <4>1
      <4> QED
        BY <1>2, <4>1, <4>2, <4>3
    <3> QED
      BY <3>2, <3>3
  <2> QED
    BY <2>1, <2>2, <2>3 DEF TypeOK
<1>4. WorldInv
  <2>1. Approving
    <3> SUFFICES ASSUME manifest # None, NEW n \in Names
                 PROVE  manifest.images[n] \in cleared \ found
      BY DEF Approving
    <3>1. manifest = FirstManifest /\ cleared = {FirstImage(m) : m \in Names} /\ found = {}
      BY DEF Init
    <3>2. manifest.images[n] = FirstImage(n)
      BY <3>1 DEF FirstManifest
    <3> QED
      BY <3>1, <3>2
  <2>2. Known
    BY DEF Init, Known
  <2>3. LeftClean
    BY DEF Init, LeftClean, FirstManifest, Stopped
  <2> QED
    BY <2>1, <2>2, <2>3 DEF WorldInv
<1>5. ASSUME NEW j \in Jobs PROVE JobInv(j)
  <2>1. pc[j] \in {"load", "gate", "lock"} /\ why[j] = "reuse"
    BY DEF Init, Kinds
  <2> QED
    BY <2>1 DEF JobInv, Role, Holding, Gating, Verifying, Deploying
<1> QED
  BY <1>3, <1>4, <1>5 DEF IInv

\* Every step keeps it.
LEMMA NextIInv == IInv /\ [Next]_vars => IInv'
<1> SUFFICES ASSUME IInv, [Next]_vars PROVE IInv'
  OBVIOUS
<1>1. CASE UNCHANGED vars
  BY <1>1 DEF vars, IInv, TypeOK, WorldInv, Approving, Known, LeftClean, Unclean, Starting,
              StopOnExit, JobInv, Role, Alive, Holding, Gated, Undisturbed, OfItsSnapshot,
              Read, Reading
<1>2. ASSUME NEW j \in Jobs, Verify(j) PROVE IInv'
  BY <1>2, LoadKeeps, ChecksKeep, VerifiedKeeps, CheckContainersKeeps DEF Verify
<1>3. ASSUME NEW j \in Jobs, Gate(j) \/ Deploy(j) \/ Abort(j) \/ Kill(j) \/ OrphanEnds(j)
      PROVE  IInv'
  BY <1>3, GateKeeps, DeployKeeps, AbortKeeps, KillKeeps, OrphanKeeps
<1>4. CASE Edit \/ (\E n \in Local : Retag(n)) \/ (\E n \in Names : Advise(n)) \/ Expire
  BY <1>4, EnvironmentKeeps
<1> QED
  BY <1>1, <1>2, <1>3, <1>4 DEF Next

\* The invariant holds in every behaviour.
LEMMA Invariant == Spec => []IInv
BY InitIInv, NextIInv, PTL DEF Spec

\* Every variable keeps its type; in particular the manifest file is absent or
\* complete whenever it is read.
THEOREM TypeCorrect == Spec => []TypeOK
<1>1. IInv => TypeOK
  BY DEF IInv
<1> QED
  BY <1>1, Invariant, PTL

\* No gate revokes the approval of a deployment that goes on, or finds a flaw
\* in what it deploys.
THEOREM ApprovalsStand == Spec => []ApprovalStands
<1>1. IInv => ApprovalStands
  <2> SUFFICES ASSUME IInv, NEW j \in Jobs, Admitted(j), pc[j] \notin Ended \union {"detached"}
               PROVE  /\ manifest # None
                      /\ manifest = [paper[j] EXCEPT !.fresh = manifest.fresh]
                      /\ \A n \in Names : paper[j].images[n] \in cleared \ found
    BY DEF ApprovalStands
  <2>1. TypeOK /\ JobInv(j) /\ pc[j] \in Labels
    BY DEF IInv, TypeOK
  <2>2. Holding(j) /\ Reading(j)
    BY <2>1 DEF JobInv, Role, Holding, Reading, Admitted, StopOnExit, Labels, Ended, Gating,
                Verifying, Deploying
  <2>3. Read(j) /\ Approving
    BY <2>1, <2>2 DEF JobInv, IInv, WorldInv
  <2>4. manifest.images = paper[j].images
    BY <2>1, <2>2, <2>3 DEF Read, TypeOK, Manifest
  <2> QED
    BY <2>2, <2>3, <2>4 DEF Read, Approving
<1> QED
  BY <1>1, Invariant, PTL

\* Only Publish takes a recipe from its gate to what follows.
LEMMA OnlyPublished ==
  ASSUME IInv, Next, NEW j \in Jobs, pc[j] = "publish", pc'[j] = "load"
  PROVE  Publish(j)
<1>1. pc \in [Jobs -> Labels]
  BY DEF IInv, TypeOK
<1>2. PICK k \in Jobs : Verify(k) \/ Gate(k) \/ Deploy(k) \/ Abort(k) \/ Kill(k) \/ OrphanEnds(k)
  BY DEF Next, Edit, Retag, Advise, Expire
<1>3. ASSUME NEW here, NEW next, Goto(k, here, next)
      PROVE  k = j /\ here = "publish" /\ next = "load" /\ pc[k] = here
  BY <1>1, <1>3 DEF Goto
<1>4. ASSUME NEW here, NEW how \in {"done", "failed"}, End(k, here, how) PROVE FALSE
  BY <1>3, <1>4 DEF End
<1>5. ASSUME NEW here, Unverified(k, here) PROVE FALSE
  BY <1>3, <1>4, <1>5 DEF Unverified
<1>6. ~ Verify(k)
  <2>1. ~ Load(k) /\ ~ CheckDigest(k) /\ ~ CheckGraph(k) /\ \A n \in Names : ~ CheckImage(k, n)
    BY <1>3, <1>5 DEF Load, CheckDigest, CheckGraph, CheckImage
  <2>2. ~ Verified(k) /\ ~ CheckContainers(k)
    BY <1>3, <1>4 DEF Verified, CheckContainers
  <2> QED
    BY <2>1, <2>2 DEF Verify
<1>7. ASSUME NEW here \in {"gate", "lock"}, TakeLock(k, here) PROVE FALSE
  BY <1>3, <1>4, <1>7 DEF TakeLock, Lock
<1>8. ~ Deploy(k)
  BY <1>3, <1>4, <1>7 DEF Deploy, Up, Start, Started
<1>9. ~ Abort(k) /\ ~ Kill(k) /\ ~ OrphanEnds(k)
  <2>1. ~ Abort(k)
    BY <1>4, <1>5 DEF Abort
  <2>2. ~ Kill(k)
    <3>1. ASSUME Kill(k) PROVE Goto(k, pc[k], "detached") \/ pc' = pc
      BY <3>1 DEF Kill
    <3> QED
      BY <1>3, <3>1
  <2>3. ~ OrphanEnds(k)
    BY <1>1 DEF OrphanEnds
  <2> QED
    BY <2>1, <2>2, <2>3
<1>10. Gate(k) => Publish(k)
  BY <1>3, <1>4, <1>7 DEF Gate, Snapshot, Invalidate, Audit, Render, Build, Inspect, Scan,
     Onward, Create
<1>11. Publish(k) /\ k = j
  BY <1>2, <1>3, <1>6, <1>8, <1>9, <1>10 DEF Publish
<1> QED
  BY <1>11

\* A gate does not publish images or a graph of two states of the source, unless
\* the state it began with was brought back while it ran.
THEOREM ManifestsAreConsistent == Spec => PublishedIsOfOneSource
<1> DEFINE OfOne(j) ==
      pc[j] = "publish" /\ pc'[j] = "load" /\ j \notin restored =>
        /\ manifest'.config = manifest'.source
        /\ \A n \in Names : manifest'.images[n].by # "other"
                              => manifest'.images[n].from = manifest'.source
<1>1. ASSUME IInv, Next, NEW j \in Jobs PROVE OfOne(j)
  <2> SUFFICES ASSUME pc[j] = "publish", pc'[j] = "load", j \notin restored
               PROVE  /\ manifest'.config = manifest'.source
                      /\ \A n \in Names : manifest'.images[n].by # "other"
                                            => manifest'.images[n].from = manifest'.source
    OBVIOUS
  <2>1. manifest' = Payload(j)
    BY <1>1, OnlyPublished DEF Publish
  <2>2. OfItsSnapshot(j)
    BY <1>1 DEF IInv, JobInv, Holding, Gating, Gated, Undisturbed
  <2> QED
    BY <2>1, <2>2 DEF Payload, OfItsSnapshot
<1>2. IInv /\ [Next]_vars => [\A j \in Jobs : OfOne(j)]_vars
  BY <1>1
<1> QED
  BY <1>2, Invariant, PTL DEF Spec, PublishedIsOfOneSource

\* When no process holds the lock, what runs was cleared by a gate, unless a
\* recipe was killed while it deployed or could not stop what it had started.
THEOREM UnapprovedIsStopped == Spec => []NothingUnapprovedLeftRunning
<1>1. IInv => NothingUnapprovedLeftRunning
  <2> SUFFICES ASSUME IInv, lock = NoJob,
                      \A j \in Jobs : pc[j] # "unstopped" /\ ~ (pc[j] = "killed" /\ StopOnExit(j))
               PROVE  \A n \in Names : running[n] \in cleared \union {None}
    BY DEF NothingUnapprovedLeftRunning
  <2>1. \A j \in Jobs : ~ Holding(j)
    BY DeploymentAssumption DEF IInv, JobInv
  <2>2. \A j \in Jobs : ~ Unclean(j)
    BY <2>1 DEF Unclean, Starting, Holding, Deploying
  <2> QED
    BY <2>2 DEF IInv, WorldInv, LeftClean
<1> QED
  BY <1>1, Invariant, PTL

\* Only verify_running lets `make up` succeed.
LEMMA OnlyVerified ==
  ASSUME IInv, NEW k \in Jobs, Verify(k) \/ Gate(k) \/ Deploy(k) \/ Abort(k) \/ Kill(k) \/ OrphanEnds(k),
         NEW j \in Jobs, kind[j] = "up", pc[j] # "done", pc'[j] = "done"
  PROVE  CheckContainers(j)
<1>1. pc \in [Jobs -> Labels] /\ JobInv(k)
  BY DEF IInv, TypeOK
<1>2. ASSUME NEW here, NEW next, Goto(k, here, next) PROVE k = j /\ next = "done" /\ pc[k] = here
  BY <1>1, <1>2 DEF Goto
<1>3. ASSUME NEW here, Unverified(k, here) PROVE FALSE
  BY <1>2, <1>3 DEF Unverified, End
<1>4. ASSUME Verify(k) PROVE CheckContainers(k)
  <2>1. ~ Load(k) /\ ~ CheckDigest(k) /\ ~ CheckGraph(k) /\ \A n \in Names : ~ CheckImage(k, n)
    BY <1>2, <1>3 DEF Load, CheckDigest, CheckGraph, CheckImage
  <2>2. ~ Verified(k)
    BY <1>1, <1>2 DEF Verified, End, JobInv, Role
  <2> QED
    BY <1>4, <2>1, <2>2 DEF Verify
<1>5. ~ Gate(k)
  <2>1. ASSUME NEW here \in {"gate", "lock"}, TakeLock(k, here) PROVE FALSE
    BY <1>2, <2>1 DEF TakeLock, Lock, End
  <2> QED
    BY <1>2, <2>1 DEF Gate, Snapshot, Invalidate, Audit, Render, Build, Inspect, Scan, Onward,
                      Create, Publish, End
<1>6. ~ Deploy(k)
  <2>1. ~ TakeLock(k, "lock")
    BY <1>2 DEF TakeLock, Lock, End
  <2>2. ~ Up(k) /\ ~ Started(k) /\ \A n \in Names : ~ Start(k, n)
    BY <1>2 DEF Up, Start, Started
  <2>3. ~ End(k, "oneoff", "done")
    BY <1>1, <1>2 DEF End, JobInv, Role
  <2> QED
    BY <2>1, <2>2, <2>3 DEF Deploy
<1>7. ~ Abort(k) /\ ~ Kill(k) /\ ~ OrphanEnds(k)
  <2>1. ~ Abort(k)
    BY <1>2, <1>3 DEF Abort, End
  <2>2. ~ OrphanEnds(k)
    BY <1>1 DEF OrphanEnds
  <2>3. ASSUME Kill(k) PROVE Goto(k, pc[k], "detached") \/ pc' = pc
    BY <2>3 DEF Kill
  <2> QED
    BY <1>2, <2>1, <2>2, <2>3
<1>8. k = j
  BY <1>1, <1>2, <1>4, <1>5, <1>6, <1>7 DEF CheckContainers, End
<1> QED
  BY <1>4, <1>5, <1>6, <1>7, <1>8

\* A `make up` that reports success runs what the manifest in force approves.
THEOREM SuccessesAreExact == Spec => SuccessIsExact
<1> DEFINE Exact(j) ==
      kind[j] = "up" /\ pc[j] # "done" /\ pc'[j] = "done" =>
        /\ manifest # None
        /\ running' = manifest.images
        /\ \A n \in Names : running'[n] \in cleared \ found
<1>1. ASSUME IInv, [Next]_vars, NEW j \in Jobs PROVE Exact(j)
  <2> SUFFICES ASSUME kind[j] = "up", pc[j] # "done", pc'[j] = "done"
               PROVE  /\ manifest # None
                      /\ running' = manifest.images
                      /\ \A n \in Names : running'[n] \in cleared \ found
    OBVIOUS
  <2>1. pc' # pc
    OBVIOUS
  <2>2. PICK k \in Jobs : Verify(k) \/ Gate(k) \/ Deploy(k) \/ Abort(k) \/ Kill(k) \/ OrphanEnds(k)
    BY <1>1, <2>1 DEF Next, vars, Edit, Retag, Advise, Expire
  <2>3. CheckContainers(j)
    BY <1>1, <2>2, OnlyVerified
  <2>4. manifest # None /\ running' = manifest.images
    BY <1>1, <2>3, CheckContainersKeeps
  <2> QED
    BY <1>1, <2>4 DEF IInv, WorldInv, Approving
<1>2. IInv /\ [Next]_vars => [\A j \in Jobs : Exact(j)]_vars
  BY <1>1
<1> QED
  BY <1>2, Invariant, PTL DEF Spec, SuccessIsExact

-----------------------------------------------------------------------------
(* How recipes end *)

\* How far a recipe has come: the verifications by what they are for, the other
\* parts by where it is.
Within == [load |-> 0, digest |-> 1, graph |-> 2, images |-> 3, containers |-> 4]

Before == [reuse |-> 0, gate |-> 14, confirm |-> 18, prestart |-> 23, running |-> 29]

Along == [gate |-> 4, snapshot |-> 5, invalidate |-> 6, audit |-> 7, render |-> 8, build |-> 9,
          inspect |-> 10, scan |-> 11, create |-> 12, publish |-> 13, lock |-> 22,
          up |-> 27, oneoff |-> 27, start |-> 28, detached |-> 34,
          done |-> 35, failed |-> 35, unstopped |-> 35, killed |-> 35]

Rank(label, reason) ==
  IF label \in Verifying THEN Before[reason] + Within[label] ELSE Along[label]

Stays(j) == pc'[j] = pc[j] /\ why'[j] = why[j] /\ left'[j] = left[j]

Advances(j) ==
  \/ Stays(j)
  \/ Rank(pc[j], why[j]) < Rank(pc'[j], why'[j])
  \/ pc'[j] = pc[j] /\ why'[j] = why[j] /\ \E n \in left[j] : left'[j] = left[j] \ {n}

\* The lock is with a recipe that is at work under it, or with what is left of
\* one that was killed, until that ends too.
Kept(j) == Holding(j) \/ pc[j] = "detached"

LockIsHeld ==
  \A j \in Jobs : /\ Holding(j) => lock = j
                  /\ lock = j => Kept(j)

\* A step takes its own recipe further, and gives or takes no lock but its own.
Moves(j) ==
  /\ Advances(j)
  /\ \A k \in Jobs \ {j} : Stays(k)
  /\ lock' \in {lock, j, NoJob}
  /\ lock' = j => Kept(j)'

\* Only the end comes last, and before it only a child that was left behind.
LEMMA EndIsLast ==
  ASSUME IInv, NEW j \in Jobs, pc[j] \notin Ended, NEW how \in Ended, NEW w
  PROVE  /\ Rank(pc[j], why[j]) < Rank(how, w)
         /\ pc[j] # "detached" => Rank(pc[j], why[j]) < Rank("detached", w)
<1>1. pc[j] \in Labels /\ why[j] \in Reasons /\ Role(j)
  BY DEF IInv, TypeOK, JobInv
<1>2. Rank(how, w) = 35 /\ Rank("detached", w) = 34
  BY DEF Rank, Ended, Along, Verifying
<1>3. CASE pc[j] \in Verifying
  <2>1. why[j] \in {"reuse", "gate", "confirm", "prestart", "running"}
    BY <1>1, <1>3 DEF Role, Reasons
  <2>2. Before[why[j]] \in 0..29 /\ Within[pc[j]] \in 0..4
    BY <1>3, <2>1 DEF Before, Within, Verifying
  <2> QED
    BY <1>2, <1>3, <2>2 DEF Rank
<1>4. CASE pc[j] \notin Verifying
  <2>1. Along[pc[j]] \in 0..34 /\ (pc[j] # "detached" => Along[pc[j]] \in 0..28)
    BY <1>1, <1>4 DEF Along, Labels, Verifying, Ended
  <2> QED
    BY <1>2, <1>4, <2>1 DEF Rank
<1> QED
  BY <1>3, <1>4

\* A recipe that goes from one part to another.
LEMMA PartMoves ==
  ASSUME IInv, NEW j \in Jobs, NEW here, NEW next, Goto(j, here, next),
         \A k \in Jobs \ {j} : why'[k] = why[k] /\ left'[k] = left[k],
         Rank(here, why[j]) < Rank(next, why'[j]), next \in Labels,
         lock' \in {lock, j, NoJob}, lock' = j => Kept(j)'
  PROVE  Moves(j)
<1>1. pc[j] = here /\ pc'[j] = next /\ \A k \in Jobs \ {j} : pc'[k] = pc[k]
  BY DEF IInv, TypeOK, Goto
<1> QED
  BY <1>1 DEF Moves, Advances, Stays

\* Its memory gone, it has no lock.
LEMMA ExitFacts ==
  ASSUME IInv, NEW j \in Jobs, Exit(j)
  PROVE  /\ lock' \in {lock, NoJob} /\ lock' # j
         /\ \A k \in Jobs \ {j} : left'[k] = left[k]
BY DeploymentAssumption DEF IInv, TypeOK, Exit, Forget

\* Every end of a recipe.
LEMMA EndMoves ==
  ASSUME IInv, NEW j \in Jobs, NEW here \in Labels \ Ended, NEW how \in {"done", "failed"},
         End(j, here, how)
  PROVE  Moves(j)
<1>1. Exit(j) /\ why' = [why EXCEPT ![j] = "reuse"]
  BY DEF End
<1> PICK next \in {how, "unstopped"} : Goto(j, here, next)
  BY DEF End
<1>2. \A k \in Jobs \ {j} : why'[k] = why[k]
  BY <1>1 DEF IInv, TypeOK
<1>3. pc[j] = here /\ next \in Ended /\ next \in Labels
  BY DEF Goto, Ended, Labels
<1>4. Rank(here, why[j]) < Rank(next, why'[j])
  BY <1>3, EndIsLast
<1> QED
  BY <1>1, <1>2, <1>3, <1>4, ExitFacts, PartMoves

\* A recipe that goes through one more image of a loop.
LEMMA LoopMoves ==
  ASSUME IInv, NEW j \in Jobs, NEW here, Goto(j, here, here), UNCHANGED <<why, lock>>,
         NEW n \in left[j], left' = [left EXCEPT ![j] = @ \ {n}], lock = j => Kept(j)
  PROVE  Moves(j)
<1>1. pc' = pc /\ left'[j] = left[j] \ {n} /\ \A k \in Jobs \ {j} : left'[k] = left[k]
  BY DEF IInv, TypeOK, Goto
<1>2. Kept(j)' <=> Kept(j)
  BY <1>1 DEF Kept, Holding, StopOnExit
<1> QED
  BY <1>1, <1>2 DEF Moves, Advances, Stays

\* A verification that fails.
LEMMA UnverifiedMoves ==
  ASSUME IInv, NEW j \in Jobs, NEW here \in Verifying, Unverified(j, here)
  PROVE  Moves(j)
<1>1. TypeOK /\ Role(j) /\ here \in Labels \ Ended
  BY DEF IInv, JobInv, Labels, Ended, Verifying
<1>2. CASE why[j] = "reuse" /\ Goto(j, here, "gate") /\ Exit(j) /\ UNCHANGED why
  <2>1. here # "containers"
    BY <1>1, <1>2 DEF Role, Goto
  <2>2. Rank(here, "reuse") < Rank("gate", "reuse")
    BY <2>1 DEF Rank, Before, Within, Along, Verifying
  <2> QED
    BY <1>2, <2>2, ExitFacts, PartMoves DEF Labels
<1>3. CASE End(j, here, "failed")
  BY <1>1, <1>3, EndMoves
<1> QED
  BY <1>2, <1>3 DEF Unverified

\* Its verification.
LEMMA VerifyMoves ==
  ASSUME IInv, LockIsHeld, NEW j \in Jobs, Verify(j)
  PROVE  Moves(j)
<1>1. /\ TypeOK /\ Role(j) /\ (lock = j => Kept(j)) /\ why[j] \in Reasons
  BY DEF IInv, JobInv, LockIsHeld, TypeOK
<1>2. ASSUME NEW here \in {"load", "digest", "graph", "images"}, Unverified(j, here) PROVE Moves(j)
  BY <1>2, UnverifiedMoves DEF Verifying
<1>3. ASSUME NEW here \in {"load", "digest", "graph", "images"},
             NEW next \in {"digest", "graph", "images", "containers"},
             Within[here] < Within[next], Goto(j, here, next), Keep(j),
             \A k \in Jobs \ {j} : left'[k] = left[k]
      PROVE  Moves(j)
  <2>1. pc[j] = here /\ pc'[j] = next /\ UNCHANGED <<why, lock>>
    BY <1>1, <1>3 DEF Goto, Keep, TypeOK
  <2>2. here \in Verifying /\ next \in Verifying
    BY DEF Verifying
  <2>3. why[j] \in {"reuse", "gate", "confirm", "prestart", "running"}
    BY <1>1, <2>1, <2>2 DEF Role, Reasons
  <2>4. Rank(here, why[j]) < Rank(next, why'[j])
    <3>1. Before[why[j]] \in Nat /\ Within[here] \in Nat /\ Within[next] \in Nat
      BY <2>3 DEF Before, Within
    <3> QED
      BY <1>3, <2>1, <2>2, <3>1 DEF Rank
  <2>5. Kept(j) => Kept(j)'
    BY <2>1, <2>2 DEF Kept, Holding, Gating, Deploying, Verifying
  <2> QED
    BY <1>1, <1>3, <2>1, <2>4, <2>5, PartMoves DEF Labels
<1>4. CASE Load(j)
  <2>1. CASE Goto(j, "load", "digest") /\ Keep(j) /\ UNCHANGED left
    BY <1>3, <2>1 DEF Within
  <2> QED
    BY <1>2, <1>4, <2>1 DEF Load
<1>5. CASE CheckDigest(j)
  <2>1. CASE Goto(j, "digest", "graph") /\ Keep(j) /\ UNCHANGED left
    BY <1>3, <2>1 DEF Within
  <2> QED
    BY <1>2, <1>5, <2>1 DEF CheckDigest, own
<1>6. CASE CheckGraph(j)
  <2>1. CASE Goto(j, "graph", "images") /\ Keep(j) /\ left' = [left EXCEPT ![j] = Names]
    BY <1>1, <1>3, <2>1 DEF Within, TypeOK
  <2> QED
    BY <1>2, <1>6, <2>1 DEF CheckGraph
<1>7. ASSUME NEW n \in Names, CheckImage(j, n) PROVE Moves(j)
  <2>1. CASE /\ n \in left[j] /\ Goto(j, "images", "images") /\ Keep(j)
             /\ left' = [left EXCEPT ![j] = @ \ {n}]
    BY <1>1, <2>1, LoopMoves DEF Keep
  <2> QED
    BY <1>2, <1>7, <2>1 DEF CheckImage
<1>8. CASE Verified(j)
  <2>1. CASE /\ why[j] = "gate" /\ Goto(j, "images", "load")
             /\ why' = [why EXCEPT ![j] = "confirm"] /\ Exit(j)
    <3>1. Rank("images", "gate") < Rank("load", "confirm")
      BY DEF Rank, Before, Within, Verifying
    <3> QED
      BY <1>1, <2>1, <3>1, ExitFacts, PartMoves DEF TypeOK, Labels
  <2>2. CASE End(j, "images", "done")
    BY <2>2, EndMoves DEF Labels, Ended
  <2>3. CASE /\ why[j] \in {"reuse", "gate"} /\ Goto(j, "images", "lock")
             /\ why' = [why EXCEPT ![j] = "reuse"] /\ Exit(j)
    <3>1. Rank("images", why[j]) < Rank("lock", "reuse")
      BY <2>3 DEF Rank, Before, Within, Along, Verifying
    <3> QED
      BY <1>1, <2>3, <3>1, ExitFacts, PartMoves DEF TypeOK, Labels
  <2>4. CASE /\ why[j] = "prestart" /\ Keep(j) /\ UNCHANGED left
             /\ Goto(j, "images", IF kind[j] = "up" THEN "up" ELSE "oneoff")
    <3> DEFINE next == IF kind[j] = "up" THEN "up" ELSE "oneoff"
    <3>1. Rank("images", "prestart") < Rank(next, "prestart")
      BY DEF Rank, Before, Within, Along, Verifying
    <3>2. pc'[j] = next /\ why' = why /\ lock' = lock
      BY <1>1, <2>4 DEF Goto, Keep, TypeOK
    <3>3. Kept(j)'
      BY <3>2 DEF Kept, Holding, Deploying
    <3> QED
      BY <2>4, <3>1, <3>2, <3>3, PartMoves DEF Labels
  <2>5. CASE Goto(j, "images", "containers") /\ Keep(j) /\ UNCHANGED left
    BY <1>3, <2>5 DEF Within
  <2> QED
    BY <1>8, <2>1, <2>2, <2>3, <2>4, <2>5 DEF Verified, own
<1>9. CASE CheckContainers(j)
  BY <1>9, EndMoves DEF CheckContainers, Labels, Ended
<1> QED
  BY <1>4, <1>5, <1>6, <1>7, <1>8, <1>9 DEF Verify

\* Its taking of the lock, for which it does not wait.
LEMMA TakeLockMoves ==
  ASSUME IInv, NEW j \in Jobs, NEW here \in {"gate", "lock"}, TakeLock(j, here)
  PROVE  Moves(j)
<1>1. CASE Lock(j, here)
  <2> DEFINE next == IF here = "gate" THEN "snapshot" ELSE "load"
             reason == IF here = "gate" THEN "gate" ELSE "prestart"
  <2>1. /\ Goto(j, here, next) /\ pc'[j] = next /\ why'[j] = reason /\ lock' = j
        /\ \A k \in Jobs \ {j} : why'[k] = why[k] /\ left'[k] = left[k]
    BY <1>1 DEF Lock, Goto, IInv, TypeOK, own
  <2>2. Rank(here, why[j]) < Rank(next, reason)
    BY DEF Rank, Before, Within, Along, Verifying
  <2>3. Kept(j)'
    BY <2>1 DEF Kept, Holding, Gating, Verifying
  <2> QED
    BY <2>1, <2>2, <2>3, PartMoves DEF Labels
<1>2. CASE End(j, here, "failed")
  BY <1>2, EndMoves DEF Labels, Ended
<1> QED
  BY <1>1, <1>2 DEF TakeLock

\* Its gate.
LEMMA GateMoves ==
  ASSUME IInv, LockIsHeld, NEW j \in Jobs, Gate(j)
  PROVE  Moves(j)
<1>1. /\ TypeOK /\ Role(j) /\ (lock = j => Kept(j))
  BY DEF IInv, JobInv, LockIsHeld
<1>2. ASSUME NEW here \in Gating,
             NEW next \in {"invalidate", "audit", "render", "build", "inspect", "scan",
                           "create", "publish"},
             Along[here] < Along[next], Goto(j, here, next), Keep(j),
             \A k \in Jobs \ {j} : left'[k] = left[k]
      PROVE  Moves(j)
  <2>1. pc[j] = here /\ pc'[j] = next /\ UNCHANGED <<why, lock>>
    BY <1>1, <1>2 DEF Goto, Keep, TypeOK
  <2>2. Rank(here, why[j]) < Rank(next, why'[j])
    BY <1>2 DEF Rank, Gating, Verifying
  <2>3. Kept(j)'
    BY <2>1 DEF Kept, Holding, Gating
  <2> QED
    BY <1>2, <2>1, <2>2, <2>3, PartMoves DEF Labels
<1>3. ASSUME NEW here \in {"build", "inspect", "scan"}, NEW n \in left[j], Goto(j, here, here),
             Keep(j), left' = [left EXCEPT ![j] = @ \ {n}]
      PROVE  Moves(j)
  BY <1>1, <1>3, LoopMoves DEF Keep
<1>4. CASE TakeLock(j, "gate")
  BY <1>4, TakeLockMoves
<1>5. CASE Snapshot(j) \/ Invalidate(j) \/ Audit(j)
  BY <1>2, <1>5 DEF Snapshot, Invalidate, Audit, Along, Gating, own
<1>6. CASE Render(j)
  BY <1>1, <1>2, <1>6 DEF Render, Along, Gating, TypeOK
<1>7. ASSUME NEW n \in Names, Build(j, n) \/ Inspect(j, n) \/ Scan(j, n) PROVE Moves(j)
  BY <1>3, <1>7 DEF Build, Inspect, Scan
<1>8. CASE Onward(j, "build", "inspect")
  BY <1>1, <1>2, <1>8 DEF Onward, Along, Gating, TypeOK
<1>9. CASE Onward(j, "inspect", "scan")
  BY <1>1, <1>2, <1>9 DEF Onward, Along, Gating, TypeOK
<1>10. CASE Onward(j, "scan", "create")
  BY <1>1, <1>2, <1>10 DEF Onward, Along, Gating, TypeOK
<1>11. CASE Create(j)
  <2>1. CASE Goto(j, "create", "publish") /\ Keep(j) /\ UNCHANGED left
    BY <1>2, <2>1 DEF Along, Gating
  <2>2. CASE End(j, "create", "failed")
    BY <2>2, EndMoves DEF Labels, Ended
  <2> QED
    BY <1>11, <2>1, <2>2 DEF Create, own
<1>12. CASE Publish(j)
  <2>1. /\ Goto(j, "publish", "load") /\ UNCHANGED <<why, lock, left>>
        /\ pc[j] = "publish" /\ pc'[j] = "load"
    BY <1>1, <1>12 DEF Publish, Goto, Keep, own, TypeOK
  <2>2. why[j] = "gate"
    BY <1>1, <2>1 DEF Role, Gating
  <2>3. Rank("publish", "gate") < Rank("load", "gate")
    BY DEF Rank, Before, Within, Along, Verifying
  <2>4. Kept(j)'
    BY <2>1, <2>2 DEF Kept, Holding, Verifying
  <2> QED
    BY <2>1, <2>2, <2>3, <2>4, PartMoves DEF Labels
<1> QED
  BY <1>4, <1>5, <1>6, <1>7, <1>8, <1>9, <1>10, <1>11, <1>12 DEF Gate

\* Its deployment, its failures and its being killed.
LEMMA DeployMoves ==
  ASSUME IInv, LockIsHeld, NEW j \in Jobs, Deploy(j) \/ Abort(j) \/ Kill(j) \/ OrphanEnds(j)
  PROVE  Moves(j)
<1>1. /\ TypeOK /\ Role(j) /\ (lock = j => Kept(j)) /\ pc[j] \in Labels
  BY DEF IInv, JobInv, LockIsHeld, TypeOK
<1>2. CASE TakeLock(j, "lock")
  BY <1>2, TakeLockMoves
<1>3. CASE Up(j)
  <2>1. /\ Goto(j, "up", "start") /\ lock' = lock /\ pc'[j] = "start"
        /\ \A k \in Jobs \ {j} : why'[k] = why[k] /\ left'[k] = left[k]
    BY <1>1, <1>3 DEF Up, Goto, TypeOK
  <2>2. Rank("up", why[j]) < Rank("start", why'[j])
    BY DEF Rank, Along, Verifying
  <2>3. Kept(j)'
    BY <2>1 DEF Kept, Holding, Deploying
  <2> QED
    BY <2>1, <2>2, <2>3, PartMoves DEF Labels
<1>4. ASSUME NEW n \in Names, Start(j, n) PROVE Moves(j)
  BY <1>1, <1>4, LoopMoves DEF Start, Keep
<1>5. CASE Started(j)
  <2>1. /\ Goto(j, "start", "load") /\ lock' = lock /\ pc'[j] = "load" /\ why'[j] = "running"
        /\ \A k \in Jobs \ {j} : why'[k] = why[k] /\ left'[k] = left[k]
    BY <1>1, <1>5 DEF Started, Goto, TypeOK, own
  <2>2. Rank("start", why[j]) < Rank("load", "running")
    BY DEF Rank, Along, Before, Within, Verifying
  <2>3. Kept(j)'
    BY <2>1 DEF Kept, Holding, Verifying
  <2> QED
    BY <2>1, <2>2, <2>3, PartMoves DEF Labels
<1>6. CASE End(j, "oneoff", "done")
  BY <1>6, EndMoves DEF Labels, Ended
<1>7. CASE Abort(j)
  BY <1>1, <1>7, EndMoves, UnverifiedMoves DEF Abort
<1>8. CASE Kill(j)
  <2>1. pc[j] \notin Ended /\ Alive(j) /\ why' = why /\ lock' = lock
    BY <1>8 DEF Kill
  <2>2. CASE Goto(j, pc[j], "detached") /\ Forget(j)
    <3>1. pc[j] # "detached" /\ "killed" \in Ended
      BY <1>1, <2>1 DEF Role, Ended
    <3>2. Rank(pc[j], why[j]) < Rank("detached", why'[j])
      BY <2>1, <3>1, EndIsLast
    <3>3. \A k \in Jobs \ {j} : why'[k] = why[k] /\ left'[k] = left[k]
      BY <1>1, <2>1, <2>2 DEF TypeOK, Forget
    <3>4. pc'[j] = "detached"
      BY <1>1, <2>2 DEF TypeOK, Goto
    <3>5. Kept(j)'
      BY <3>4 DEF Kept
    <3> QED
      BY <2>1, <2>2, <3>2, <3>3, <3>5, PartMoves DEF Labels
  <2>3. CASE UNCHANGED <<own, pc>>
    BY <1>1, <2>1, <2>3 DEF Moves, Advances, Stays, Kept, Holding, StopOnExit, own
  <2> QED
    BY <1>8, <2>2, <2>3 DEF Kill
<1>9. CASE OrphanEnds(j)
  <2>1. /\ pc[j] \notin Ended /\ Exit(j) /\ why' = why /\ pc'[j] = "killed"
        /\ \A k \in Jobs \ {j} : pc'[k] = pc[k]
    BY <1>1, <1>9 DEF OrphanEnds, TypeOK
  <2>2. Rank(pc[j], why[j]) < Rank("killed", why'[j])
    BY <2>1, EndIsLast DEF Ended
  <2> QED
    BY <2>1, <2>2, ExitFacts DEF Moves, Advances, Stays
<1> QED
  BY <1>2, <1>3, <1>4, <1>5, <1>6, <1>7, <1>8, <1>9 DEF Deploy

\* The environment moves no recipe.
LEMMA EnvironmentStays ==
  ASSUME \/ UNCHANGED vars
         \/ Edit \/ (\E n \in Local : Retag(n)) \/ (\E n \in Names : Advise(n)) \/ Expire
  PROVE  UNCHANGED <<pc, why, left, lock>>
BY DEF vars, own, Edit, Retag, Advise, Expire

\* Who works under the lock holds it, and the lock is never with a recipe that
\* has ended: it is given up with the last process, which for a recipe that is
\* killed is the command it was waiting for.
THEOREM LockIsNeverLeft == Spec => []LockIsHeld
<1>1. Init => LockIsHeld
  <2> SUFFICES ASSUME Init, NEW j \in Jobs PROVE ~ Holding(j) /\ lock # j
    BY DEF LockIsHeld
  <2>1. pc[j] \in {"load", "gate", "lock"} /\ why[j] = "reuse" /\ lock = NoJob
    BY DEF Init, Kinds
  <2> QED
    BY <2>1, DeploymentAssumption DEF Holding, Gating, Verifying, Deploying
<1>2. ASSUME IInv, LockIsHeld, [Next]_vars PROVE LockIsHeld'
  <2>1. \A j \in Jobs : Holding(j)' => lock' = j
    BY <1>2, NextIInv DEF IInv, JobInv
  <2>2. ASSUME NEW j \in Jobs, lock' = j PROVE Kept(j)'
    <3>1. CASE UNCHANGED <<pc, why, left, lock>>
      BY <1>2, <2>2, <3>1 DEF LockIsHeld, Kept, Holding, StopOnExit
    <3>2. ASSUME NEW k \in Jobs, Moves(k) PROVE Kept(j)'
      <4>1. CASE j = k
        BY <2>2, <3>2, <4>1 DEF Moves
      <4>2. CASE j # k
        <5>1. lock = j /\ Stays(j)
          BY <2>2, <3>2, <4>2, DeploymentAssumption DEF Moves
        <5> QED
          BY <1>2, <5>1 DEF LockIsHeld, Kept, Holding, StopOnExit, Stays
      <4> QED
        BY <4>1, <4>2
    <3> QED
      BY <1>2, <3>1, <3>2, VerifyMoves, GateMoves, DeployMoves, EnvironmentStays DEF Next
  <2> QED
    BY <2>1, <2>2 DEF LockIsHeld
<1>3. IInv /\ LockIsHeld /\ [Next]_vars => LockIsHeld'
  BY <1>2
<1> QED
  BY <1>1, <1>3, Invariant, PTL DEF Spec

(***************************************************************************)
(* A recipe comes to an end after a bounded number of steps of its own,    *)
(* whatever the others and the environment do: it waits for no lock, no    *)
(* verification that fails is tried again without a gate, `make up` falls  *)
(* back to a gate once, and each loop goes through an image once.  If it   *)
(* is killed, the command it was waiting for ends in the same way.  By     *)
(* LockIsNeverLeft the lock is free again when its holder has ended.       *)
(***************************************************************************)
THEOREM RecipesEnd == Spec => [][\A j \in Jobs : Advances(j)]_vars
<1>1. ASSUME IInv, LockIsHeld, [Next]_vars, NEW j \in Jobs PROVE Advances(j)
  <2>1. CASE UNCHANGED <<pc, why, left, lock>>
    BY <2>1 DEF Advances, Stays
  <2>2. ASSUME NEW k \in Jobs, Moves(k) PROVE Advances(j)
    BY <2>2 DEF Moves, Advances
  <2> QED
    BY <1>1, <2>1, <2>2, VerifyMoves, GateMoves, DeployMoves, EnvironmentStays DEF Next
<1>2. IInv /\ LockIsHeld /\ [Next]_vars => \A j \in Jobs : Advances(j)
  BY <1>1
<1> QED
  BY <1>2, Invariant, LockIsNeverLeft, PTL DEF Spec

=============================================================================
