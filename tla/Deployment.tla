----------------------------- MODULE Deployment -----------------------------
(***************************************************************************)
(* The deployment gate (scripts/deployment-manifest.py as it is called by  *)
(* scripts/security-scan.sh and the Makefile).  A gate snapshots the       *)
(* source, revokes the manifest, builds and scans the images and publishes *)
(* a new manifest; `make up` and `make import-challenge` verify a manifest *)
(* before, and `make up` also after, they start containers.  All of them   *)
(* hold one lock that they never wait for, by a descriptor that their      *)
(* child processes inherit and keep if the recipe itself is killed.        *)
(*                                                                         *)
(* Contents stand for their digests: a number is one content of the        *)
(* deployment inputs, which an edit may bring back.                        *)
(***************************************************************************)
EXTENDS Naturals

CONSTANTS
  Local,         \* the images that are built here, and canonically tagged
  Pinned,        \* the images named by digest in the env file
  Jobs, NoJob,   \* runs of make
  None,          \* no manifest, no image, no container
  LastSource,      \* bound: the inputs have the contents 0 to LastSource
  MaxDisturbances  \* bound: how often anything outside the recipes happens

Names == Local \union Pinned

\* "other" is an image that was not built from the deployment source alone.
Image == [of : Names, from : 0..LastSource, by : {"source", "other", "registry"}]

Manifest == [source : 0..LastSource, config : 0..LastSource,
             images : [Names -> Image], fresh : BOOLEAN]

ASSUME DeploymentAssumption ==
  /\ Local \cap Pinned = {}
  /\ NoJob \notin Jobs
  /\ None \notin Image /\ None \notin Manifest
  /\ LastSource \in Nat /\ MaxDisturbances \in Nat

VARIABLES
  kind,       \* what each job is: "build", "up" or "import"
  pc,         \* what it is about to do
  why,        \* what its verification is for
  left,       \* the images its loop has still to go through
  snap,       \* the source digest its gate began with
  config,     \* the source its Compose graph was rendered from
  ids,        \* the image ids its gate has inspected
  failed,     \* the gate_failed of its gate
  paper,      \* the manifest it has loaded
  lock,       \* who holds the lock on security-reports/
  source,     \* the deployment inputs, among them the env file
  disturbed,  \* how often it, a tag or a recipe has been tampered with
  tags,       \* the canonical tags of the Docker daemon
  manifest,   \* security-reports/deployment-manifest.json
  running,    \* the image of each container
  flawed,     \* the images with a known vulnerability
  found,      \* those in which a gate has found one
  cleared,    \* the images a gate has scanned without a finding
  reach,      \* the labels at which a process of it is there to take the step
  restored    \* the gates under which an edit brought their snapshot back

own == <<kind, left, snap, config, ids, failed, paper>>
world == <<source, disturbed, tags, manifest, running, flawed, found, cleared>>
vars == <<kind, pc, why, left, snap, config, ids, failed, paper, lock,
          source, disturbed, tags, manifest, running, flawed, found, cleared, reach, restored>>

Kinds == {"build", "up", "import"}
Reasons == {"reuse", "gate", "confirm", "prestart", "starting", "running"}
Labels == {"load", "digest", "graph", "images", "containers",
           "gate", "snapshot", "invalidate", "audit", "render", "build",
           "inspect", "scan", "create", "publish",
           "lock", "up", "start", "oneoff", "done", "failed", "unstopped", "detached", "killed"}
Ended == {"done", "failed", "unstopped", "killed"}
Verifying == {"load", "digest", "graph", "images", "containers"}

\* Between its snapshot and its comparison, a gate relies on the source.
Relying == {"invalidate", "audit", "render", "build", "inspect", "scan", "create"}

\* The shell of the recipe lives.
Alive(j) == reach[j] = Labels

\* The image a Compose graph names, as the Docker daemon resolves it.
Resolve(n, c) ==
  IF n \in Local THEN tags[n] ELSE [of |-> n, from |-> c, by |-> "registry"]

\* The trap of `make up` stops the services from here on.
StopOnExit(j) == why[j] \in {"starting", "running"}

-----------------------------------------------------------------------------

Goto(j, here, next) ==
  /\ pc[j] = here /\ here \in reach[j]
  /\ pc' = [pc EXCEPT ![j] = next]

Keep(j) == UNCHANGED <<why, lock, reach, restored>>

\* The memory of a process is gone with it.
Forget(j) ==
  /\ left' = [left EXCEPT ![j] = {}]
  /\ snap' = [snap EXCEPT ![j] = 0] /\ config' = [config EXCEPT ![j] = 0]
  /\ ids' = [ids EXCEPT ![j] = [n \in Names |-> None]]
  /\ failed' = [failed EXCEPT ![j] = FALSE]
  /\ paper' = [paper EXCEPT ![j] = None]
  /\ restored' = restored \ {j}

\* The last process ends: the lock's descriptor is closed.
Exit(j) == Forget(j) /\ lock' = IF lock = j THEN NoJob ELSE lock

Stopped == [n \in Names |-> None]

\* Mutant: a failed start leaves the containers as they are.
EndUnstopped(j, here, how) ==
  /\ Alive(j)
  /\ Goto(j, here, how)
  /\ Exit(j)
  /\ why' = [why EXCEPT ![j] = "reuse"]
  /\ UNCHANGED <<kind, world, reach>>

(***************************************************************************)
(* The end of a recipe, with its traps.  `$(COMPOSE) stop || :` may fail,  *)
(* or stop some of the services only: compose.sh checks the env file again *)
(* and takes the project name from it.                                     *)
(***************************************************************************)
End(j, here, how) ==
  /\ Alive(j)
  /\ IF how = "failed" /\ StopOnExit(j)
     THEN \/ Goto(j, here, "failed") /\ running' = Stopped
          \/ /\ Goto(j, here, "unstopped")
             /\ \E gone \in SUBSET Names :
                  running' = [n \in Names |-> IF n \in gone THEN None ELSE running[n]]
     ELSE Goto(j, here, how) /\ UNCHANGED running
  /\ Exit(j)
  /\ why' = [why EXCEPT ![j] = "reuse"]
  /\ UNCHANGED <<kind, source, disturbed, tags, manifest, flawed, found, cleared, reach>>

(* verify_common and verify_running *)

\* Where a verification that fails leads to: `make up` falls back to a gate.
Unverified(j, here) ==
  \/ /\ why[j] = "reuse"
     /\ Goto(j, here, "gate")
     /\ Exit(j) /\ UNCHANGED <<kind, why, world, reach>>
  \/ why[j] # "reuse" /\ End(j, here, "failed")

\* load_manifest, validate_payload and validate_freshness.
Load(j) ==
  LET usable == IF manifest = None THEN FALSE ELSE manifest.fresh
  IN  \/ /\ usable
         /\ Goto(j, "load", "digest")
         /\ paper' = [paper EXCEPT ![j] = manifest]
         /\ Keep(j) /\ UNCHANGED <<kind, left, snap, config, ids, failed, world>>
      \/ ~ usable /\ Unverified(j, "load")

\* source_digest.
CheckDigest(j) ==
  /\ pc[j] = "digest"
  /\ IF source = paper[j].source
     THEN Goto(j, "digest", "graph") /\ Keep(j) /\ UNCHANGED <<own, world>>
     ELSE Unverified(j, "digest")

\* render_compose, compose_digest and expected_references.
CheckGraph(j) ==
  /\ pc[j] = "graph"
  /\ \/ /\ source = paper[j].config
        /\ Goto(j, "graph", "images")
        /\ config' = [config EXCEPT ![j] = source]
        /\ left' = [left EXCEPT ![j] = Names]
        /\ Keep(j) /\ UNCHANGED <<kind, snap, ids, failed, paper, world>>
     \/ source # paper[j].config /\ Unverified(j, "graph")

\* inspect_image, one reference after the other.
CheckImage(j, n) ==
  /\ pc[j] = "images" /\ n \in left[j]
  /\ \/ /\ Resolve(n, config[j]) = paper[j].images[n]
        /\ Goto(j, "images", "images")
        /\ left' = [left EXCEPT ![j] = @ \ {n}]
        /\ Keep(j) /\ UNCHANGED <<kind, snap, config, ids, failed, paper, world>>
     \/ Resolve(n, config[j]) # paper[j].images[n] /\ Unverified(j, "images")

\* A verification has passed: what comes next depends on its reason.
Verified(j) ==
  /\ pc[j] = "images" /\ left[j] = {}
  /\ \/ /\ why[j] = "gate" /\ kind[j] = "build"
        /\ Goto(j, "images", "load")
        /\ why' = [why EXCEPT ![j] = "confirm"]
        /\ Exit(j)
        /\ UNCHANGED <<kind, world, reach>>
     \/ /\ why[j] = "confirm"
        /\ End(j, "images", "done")
     \/ /\ why[j] \in {"reuse", "gate"} /\ kind[j] = "up"
        /\ Goto(j, "images", "lock")
        /\ why' = [why EXCEPT ![j] = "reuse"]
        /\ Exit(j)
        /\ UNCHANGED <<kind, world, reach>>
     \/ /\ why[j] = "prestart"
        /\ Goto(j, "images", IF kind[j] = "up" THEN "up" ELSE "oneoff")
        /\ Keep(j) /\ UNCHANGED <<own, world>>
     \/ /\ why[j] = "running"
        /\ Goto(j, "images", "containers")
        /\ Keep(j) /\ UNCHANGED <<own, world>>

\* Mutant: the containers' images are not compared with the manifest.
CheckContainersNot(j) == End(j, "containers", "done")

\* exact_service_container_map and the image of every container.
CheckContainers(j) ==
  /\ pc[j] = "containers"
  /\ End(j, "containers", IF running = paper[j].images THEN "done" ELSE "failed")

Verify(j) ==
  \/ Load(j) \/ CheckDigest(j) \/ CheckGraph(j)
  \/ \E n \in Names : CheckImage(j, n)
  \/ Verified(j) \/ CheckContainers(j)

-----------------------------------------------------------------------------
(* security-scan.sh *)

Lock(j, here) ==
  /\ Goto(j, here, IF here = "gate" THEN "snapshot" ELSE "load")
  /\ lock' = j
  /\ why' = [why EXCEPT ![j] = IF here = "gate" THEN "gate" ELSE "prestart"]
  /\ UNCHANGED <<own, world, reach, restored>>

\* Mutant: `flock` is missing from the recipe of the deployment.
TakeGateLock(j, here) == (here = "lock" \/ lock = NoJob) /\ Lock(j, here)

\* flock -n, by a gate or by a deployment: neither waits for the other.
TakeLock(j, here) ==
  \/ lock = NoJob /\ Lock(j, here)
  \/ lock # NoJob /\ End(j, here, "failed")

Snapshot(j) ==
  /\ Goto(j, "snapshot", "invalidate")
  /\ snap' = [snap EXCEPT ![j] = source]
  /\ failed' = [failed EXCEPT ![j] = FALSE]
  /\ Keep(j) /\ UNCHANGED <<kind, left, config, ids, paper, world>>

\* Mutant: the earlier approval stands until the new one replaces it.
InvalidateLater(j) ==
  /\ Goto(j, "invalidate", "audit")
  /\ Keep(j) /\ UNCHANGED <<own, world>>

\* invalidate_manifest.
Invalidate(j) ==
  /\ Goto(j, "invalidate", "audit")
  /\ manifest' = None
  /\ Keep(j) /\ UNCHANGED <<own, source, disturbed, tags, running, flawed, found, cleared>>

\* The audits of lock files and the file system; a finding is kept for later.
Audit(j) ==
  /\ Goto(j, "audit", "render")
  /\ \E finding \in BOOLEAN : failed' = [failed EXCEPT ![j] = finding]
  /\ Keep(j) /\ UNCHANGED <<kind, left, snap, config, ids, paper, world>>

Render(j) ==
  /\ Goto(j, "render", "build")
  /\ config' = [config EXCEPT ![j] = source]
  /\ left' = [left EXCEPT ![j] = Local]
  /\ Keep(j) /\ UNCHANGED <<kind, snap, ids, failed, paper, world>>

\* docker compose build, from the files as they are when it reads them.
Build(j, n) ==
  /\ n \in left[j]
  /\ Goto(j, "build", "build")
  /\ tags' = [tags EXCEPT ![n] = [of |-> n, from |-> source, by |-> "source"]]
  /\ left' = [left EXCEPT ![j] = @ \ {n}]
  /\ Keep(j)
  /\ UNCHANGED <<kind, snap, config, ids, failed, paper,
                 source, disturbed, manifest, running, flawed, found, cleared>>

\* From the end of one loop over the images to the beginning of the next.
Onward(j, here, next) ==
  /\ left[j] = {}
  /\ Goto(j, here, next)
  /\ left' = [left EXCEPT ![j] = Names]
  /\ Keep(j) /\ UNCHANGED <<kind, snap, config, ids, failed, paper, world>>

\* inspect_image_id, after the build or the pull of the image.
Inspect(j, n) ==
  /\ n \in left[j]
  /\ Goto(j, "inspect", "inspect")
  /\ ids' = [ids EXCEPT ![j][n] = Resolve(n, config[j])]
  /\ left' = [left EXCEPT ![j] = @ \ {n}]
  /\ Keep(j) /\ UNCHANGED <<kind, snap, config, failed, paper, world>>

\* scan_existing_image.
Scan(j, n) ==
  LET bad == ids[j][n] \in flawed
  IN  /\ n \in left[j]
      /\ Goto(j, "scan", "scan")
      /\ failed' = [failed EXCEPT ![j] = @ \/ bad]
      /\ found' = IF bad THEN found \union {ids[j][n]} ELSE found
      /\ cleared' = IF bad THEN cleared ELSE cleared \union {ids[j][n]}
      /\ left' = [left EXCEPT ![j] = @ \ {n}]
      /\ Keep(j)
      /\ UNCHANGED <<kind, snap, config, ids, paper,
                     source, disturbed, tags, manifest, running, flawed>>

\* Mutant: the source is not compared with the snapshot.
CreateUnchecked(j) ==
  /\ ~ failed[j]
  /\ Goto(j, "create", "publish")
  /\ Keep(j) /\ UNCHANGED <<own, world>>

\* The verdict of the scans, and build_payload.
Create(j) ==
  LET approved == ~ failed[j] /\ source = snap[j]
  IN  \/ /\ approved
         /\ Goto(j, "create", "publish")
         /\ Keep(j) /\ UNCHANGED <<own, world>>
      \/ ~ approved /\ End(j, "create", "failed")

Payload(j) ==
  [source |-> snap[j], config |-> config[j], images |-> ids[j], fresh |-> TRUE]

\* Mutant: the file is written in place.
PublishInPlace(j) ==
  /\ Goto(j, "publish", "load")
  /\ manifest' \in {Payload(j), [source |-> snap[j], fresh |-> TRUE]}
  /\ Keep(j) /\ UNCHANGED <<own, source, disturbed, tags, running, flawed, found, cleared>>

\* atomic_write_manifest: the rename is the moment.
Publish(j) ==
  /\ Goto(j, "publish", "load")
  /\ manifest' = Payload(j)
  /\ Keep(j) /\ UNCHANGED <<own, source, disturbed, tags, running, flawed, found, cleared>>

Gate(j) ==
  \/ TakeLock(j, "gate")
  \/ Snapshot(j) \/ Invalidate(j) \/ Audit(j) \/ Render(j)
  \/ \E n \in Names : Build(j, n) \/ Inspect(j, n) \/ Scan(j, n)
  \/ Onward(j, "build", "inspect") \/ Onward(j, "inspect", "scan")
  \/ Onward(j, "scan", "create")
  \/ Create(j) \/ Publish(j)

-----------------------------------------------------------------------------
(* The recipes of `make up` and `make import-challenge`, with the lock held *)

\* docker compose up begins: from here on a failure stops the services.
Up(j) ==
  /\ Goto(j, "up", "start")
  /\ why' = [why EXCEPT ![j] = "starting"]
  /\ config' = [config EXCEPT ![j] = source]
  /\ left' = [left EXCEPT ![j] = Names]
  /\ UNCHANGED <<kind, snap, ids, failed, paper, lock, world, reach, restored>>

\* It replaces the container of an image, without building or pulling.
Start(j, n) ==
  /\ n \in left[j]
  /\ Goto(j, "start", "start")
  /\ running' = [running EXCEPT ![n] = Resolve(n, config[j])]
  /\ left' = [left EXCEPT ![j] = @ \ {n}]
  /\ Keep(j)
  /\ UNCHANGED <<kind, snap, config, ids, failed, paper,
                 source, disturbed, tags, manifest, flawed, found, cleared>>

\* All containers are healthy, and verify-running follows.
Started(j) ==
  /\ left[j] = {}
  /\ Goto(j, "start", "load")
  /\ why' = [why EXCEPT ![j] = "running"]
  /\ UNCHANGED <<own, lock, world, reach, restored>>

Deploy(j) ==
  \/ TakeLock(j, "lock")
  \/ Up(j) \/ (\E n \in Names : Start(j, n)) \/ Started(j)
  \/ End(j, "oneoff", "done")

-----------------------------------------------------------------------------
(* Failures and the environment *)

Disturb == disturbed < MaxDisturbances /\ disturbed' = disturbed + 1

\* A command fails, or the recipe is interrupted: `set -e` and the traps.  A
\* verification for reuse that fails for whatever reason leads to a gate.
Abort(j) ==
  \/ pc[j] \notin Ended /\ End(j, pc[j], "failed")
  \/ pc[j] \in Verifying /\ Unverified(j, pc[j])

\* What a command goes on with that is under way when its shell is killed, of
\* what others can see: `create` compares and publishes.
Leftover(here) ==
  IF here \in {"create", "publish"} THEN {"create", "publish"}
  ELSE {here} \intersect {"invalidate", "build", "start"}

\* Mutant: the descriptor of the lock is closed on exec.
KillReleasing(j) ==
  /\ Disturb
  /\ Alive(j) /\ pc[j] \notin Ended
  /\ reach' = [reach EXCEPT ![j] = Leftover(pc[j])]
  /\ lock' = IF lock = j THEN NoJob ELSE lock
  /\ UNCHANGED <<own, pc, why, restored, source, tags, manifest, running, flawed, found, cleared>>

\* The shell is killed, and no trap runs.  The command that it was waiting for
\* goes on and has inherited the descriptor of the lock.
Kill(j) ==
  /\ Disturb
  /\ Alive(j) /\ pc[j] \notin Ended
  /\ reach' = [reach EXCEPT ![j] = Leftover(pc[j])]
  /\ IF Leftover(pc[j]) = {} THEN Goto(j, pc[j], "detached") /\ Forget(j)
                             ELSE UNCHANGED <<own, pc, restored>>
  /\ UNCHANGED <<kind, why, lock, source, tags, manifest, running, flawed, found, cleared>>

\* That command ends, whether it has got through or not.
OrphanEnds(j) ==
  /\ ~ Alive(j) /\ pc[j] \notin Ended
  /\ pc' = [pc EXCEPT ![j] = "killed"]
  /\ reach' = [reach EXCEPT ![j] = {}]
  /\ Exit(j)
  /\ UNCHANGED <<kind, why, world>>

\* Someone edits the deployment inputs, perhaps back to what they were.
Edit ==
  /\ Disturb
  /\ \E s \in 0..LastSource :
       /\ s # source
       /\ source' = s
       /\ restored' = restored \union {j \in Jobs : pc[j] \in Relying /\ s = snap[j]}
  /\ UNCHANGED <<own, pc, why, lock, tags, manifest, running, flawed, found, cleared, reach>>

\* Someone builds or tags an image outside the gate, which takes no lock.
Retag(n) ==
  /\ Disturb
  /\ \E by \in {"source", "other"} :
       tags' = [tags EXCEPT ![n] =
                  [of |-> n, from |-> IF by = "source" THEN source ELSE 0, by |-> by]]
  /\ UNCHANGED <<own, pc, why, lock, source, manifest, running, flawed, found, cleared,
                 reach, restored>>

\* A vulnerability of an image in use becomes known.
Advise(n) ==
  /\ Disturb
  /\ Resolve(n, source) # None
  /\ flawed' = flawed \union {Resolve(n, source)}
  /\ UNCHANGED <<own, pc, why, lock, source, tags, manifest, running, found, cleared,
                 reach, restored>>

\* MAX_MANIFEST_AGE goes by.
Expire ==
  /\ Disturb
  /\ manifest # None
  /\ manifest' = [manifest EXCEPT !.fresh = FALSE]
  /\ UNCHANGED <<own, pc, why, lock, source, tags, running, flawed, found, cleared,
                 reach, restored>>

-----------------------------------------------------------------------------

\* The images of the first source, and the manifest of a gate they passed.
FirstImage(n) ==
  [of |-> n, from |-> 0, by |-> IF n \in Local THEN "source" ELSE "registry"]

FirstManifest ==
  [source |-> 0, config |-> 0, images |-> [n \in Names |-> FirstImage(n)], fresh |-> TRUE]

Init ==
  /\ kind \in [Jobs -> Kinds]
  /\ pc = [j \in Jobs |-> CASE kind[j] = "up" -> "load"
                            [] kind[j] = "build" -> "gate"
                            [] kind[j] = "import" -> "lock"]
  /\ why = [j \in Jobs |-> "reuse"]
  /\ left = [j \in Jobs |-> {}]
  /\ snap = [j \in Jobs |-> 0]
  /\ config = [j \in Jobs |-> 0]
  /\ ids = [j \in Jobs |-> [n \in Names |-> None]]
  /\ failed = [j \in Jobs |-> FALSE]
  /\ paper = [j \in Jobs |-> None]
  /\ reach = [j \in Jobs |-> Labels]
  /\ restored = {}
  /\ lock = NoJob
  /\ source = 0 /\ disturbed = 0
  /\ flawed = {} /\ found = {}
  /\ \/ /\ manifest = None /\ cleared = {}
        /\ tags = [n \in Local |-> None] /\ running = Stopped
     \/ /\ manifest = FirstManifest /\ cleared = {FirstImage(n) : n \in Names}
        /\ tags = [n \in Local |-> FirstImage(n)]
        /\ running = FirstManifest.images

Next ==
  \/ \E j \in Jobs : Verify(j) \/ Gate(j) \/ Deploy(j) \/ Abort(j) \/ Kill(j) \/ OrphanEnds(j)
  \/ Edit \/ (\E n \in Local : Retag(n)) \/ (\E n \in Names : Advise(n)) \/ Expire

Spec == Init /\ [][Next]_vars

-----------------------------------------------------------------------------
(* Properties *)

\* Every variable has its type; the manifest file is absent or complete.
\* About atomic_write_manifest and invalidate_manifest.
TypeOK ==
  /\ kind \in [Jobs -> Kinds] /\ pc \in [Jobs -> Labels] /\ why \in [Jobs -> Reasons]
  /\ left \in [Jobs -> SUBSET Names]
  /\ snap \in [Jobs -> 0..LastSource] /\ config \in [Jobs -> 0..LastSource]
  /\ ids \in [Jobs -> [Names -> Image \union {None}]]
  /\ failed \in [Jobs -> BOOLEAN]
  /\ paper \in [Jobs -> Manifest \union {None}]
  /\ lock \in Jobs \union {NoJob}
  /\ source \in 0..LastSource /\ disturbed \in 0..MaxDisturbances
  /\ tags \in [Local -> Image \union {None}]
  /\ manifest \in Manifest \union {None}
  /\ running \in [Names -> Image \union {None}]
  /\ flawed \subseteq Image /\ found \subseteq Image /\ cleared \subseteq Image
  /\ reach \in [Jobs -> SUBSET Labels] /\ restored \subseteq Jobs

\* A deployment that has been let through and has not ended yet.
Admitted(j) == StopOnExit(j) \/ pc[j] \in {"up", "oneoff"}

\* As long as a deployment that was let through goes on, the manifest it has
\* read is the one in force, and no gate has found a flaw in an image it
\* names: a gate revokes the manifest first, and cannot run meanwhile.  About
\* the flock of the gate and of the recipes, and invalidate_manifest.
ApprovalStands ==
  \A j \in Jobs : Admitted(j) /\ pc[j] \notin Ended \union {"detached"} =>
    /\ manifest # None
    /\ manifest = [paper[j] EXCEPT !.fresh = manifest.fresh]
    /\ \A n \in Names : paper[j].images[n] \in cleared \ found

\* The manifest a gate publishes names one source: its Compose graph is of
\* that source, and so are the images it approves that were built from the
\* source, unless the inputs were edited while the gate ran and then put back
\* as they were.  About the snapshot and the second source_digest of
\* build_payload.
PublishedIsOfOneSource ==
  [][\A j \in Jobs : pc[j] = "publish" /\ pc'[j] = "load" /\ j \notin restored =>
       /\ manifest'.config = manifest'.source
       /\ \A n \in Names : manifest'.images[n].by # "other"
                             => manifest'.images[n].from = manifest'.source]_vars

\* Once a deployment that could stop what it started has ended, nothing runs
\* that no gate has cleared: unless it was killed, or its stop failed.  About
\* stop_on_exit and the traps of `make up`.
NothingUnapprovedLeftRunning ==
  \/ lock # NoJob
  \/ \E j \in Jobs : pc[j] = "unstopped" \/ (pc[j] = "killed" /\ StopOnExit(j))
  \/ \A n \in Names : running[n] \in cleared \union {None}

\* When `make up` succeeds, every container runs the image that the manifest
\* in force names, which no gate has found a flaw in, even if a tag was moved
\* away and back while the containers were started.  About verify_running.
SuccessIsExact ==
  [][\A j \in Jobs : kind[j] = "up" /\ pc[j] # "done" /\ pc'[j] = "done" =>
       /\ manifest # None
       /\ running' = manifest.images
       /\ \A n \in Names : running'[n] \in cleared \ found]_vars

=============================================================================
