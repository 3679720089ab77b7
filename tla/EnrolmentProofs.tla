-------------------------- MODULE EnrolmentProofs ---------------------------
(***************************************************************************)
(* Theorems about Enrolment for any users, teams, requests and limits:     *)
(* what every request relies on between its locks and its commit, and that *)
(* registrations and team changes therefore implement Roster.              *)
(***************************************************************************)
EXTENDS Enrolment, FiniteFacts, FiniteSetTheorems, TLAPS

-----------------------------------------------------------------------------
(* The inductive invariant *)

\* A registration excludes every other request; a User row, and a Team row,
\* is locked by one request at a time.
Exclusive ==
  /\ \A q, r \in Requests : q # r /\ HoldsEvent(q) /\ HoldsEvent(r) => Changes(q) /\ Changes(r)
  /\ \A q, r \in Requests : q # r => held[q] \cap held[r] = {}
  /\ \A q, r \in Requests :
       pc[q] = "commit" /\ pc[r] = "commit" /\ room[q] = room[r] /\ room[q] # NoTeam => q = r

\* Where a request is, by what it asks for.
Course(r) ==
  /\ held[r] \subseteq Wanted(r)
  /\ ~ HoldsEvent(r) \/ ~ Changes(r) => held[r] = {}
  /\ pc[r] = "code" => ~ Changes(r)
  /\ pc[r] \in {"user", "seat", "name", "flush", "team"} => Changes(r)
  /\ pc[r] \in {"name", "flush"} => call[r].kind = "create"
  /\ pc[r] = "team" => call[r].kind # "create"
  /\ Changes(r) => gate[r] = NoCode
  /\ pc[r] \notin {"commit", "done"} => gate[r] = NoCode
  /\ ~ Changes(r) \/ call[r].kind = "create" => room[r] = NoTeam
  /\ pc[r] # "done" => r \notin teams

\* What a team change has read of its users is still so.
Seated(r) ==
  LET u == call[r].user
  IN  /\ Wanted(r) \subseteq held[r]
      /\ Entitled(r)
      /\ Cardinality(ChangesOf(u)) < MaxChanges
      /\ pc[r] # "seat" => /\ seat[r] = member[u]
                           /\ seat[r] = NoTeam <=> call[r].kind \in {"create", "join"}

\* What it has read of its team is still so at its commit.
Roomed(r) ==
  LET u == call[r].user
      v == call[r].target
  IN  /\ room[r] \in teams
      /\ IF call[r].kind = "join"
         THEN Cardinality(Mates(room[r])) < MaxMembers /\ invite[room[r]] = call[r].invite
         ELSE room[r] = member[u]
      /\ call[r].kind \in {"transfer", "remove"} =>
           u \in owners /\ u # v /\ member[v] = room[r] /\ v \notin owners
      /\ call[r].kind = "leave" /\ u \in owners => Mates(room[r]) = {u}

\* What a registration has read under its locks is still so at its commit.
Welcome(r) ==
  /\ call[r].user \notin registered
  /\ Cardinality(Participants) < MaxParticipants
  /\ gate[r] # NoCode => uses[r] = use_count[gate[r]] /\ use_count[gate[r]] < MaxUses[gate[r]]

Relied(r) ==
  /\ HoldsEvent(r) => /\ state = "registration" /\ team_mode[r] = mode
                      /\ Changes(r) => mode = "team"
  /\ Changes(r) /\ pc[r] \in {"seat", "name", "flush", "team", "commit"} => Seated(r)
  /\ Changes(r) /\ call[r].kind # "create" /\ pc[r] = "commit" => Roomed(r)
  /\ ~ Changes(r) /\ pc[r] = "commit" => Welcome(r)

ReqInv(r) == Course(r) /\ Relied(r)

\* The users there are, and the teams: none is empty.
People ==
  /\ Admins \subseteq registered
  /\ \A u \in Users : member[u] # NoTeam => u \in registered
  /\ \A t \in teams : Mates(t) # {}
  /\ TeamRoster!WellFormed
  /\ IndividualsAlone

\* Every request is in the history at most once, when it is done; the
\* invitation of a team is as young as the last removal from it.
Past ==
  /\ \A i \in 1..Len(history) : pc[history[i]] = "done"
  /\ \A i, j \in 1..Len(history) : history[i] = history[j] => i = j
  /\ \A i \in 1..Len(history) :
       LET q == history[i]
       IN  call[q].kind = "remove" =>
             /\ room[q] \in Teams
             /\ invite[room[q]] = q \/ Before(q, invite[room[q]])
  /\ RemovedStayOut
  /\ SeatsAndUsesCapped
  /\ ChangesCapped

IInv == TypeOK /\ Exclusive /\ People /\ Past /\ \A r \in Requests : ReqInv(r)

-----------------------------------------------------------------------------
(* The constants, and what requests ask for *)

\* What each request asks for.
LEMMA CallFacts ==
  ASSUME TypeOK, NEW r \in Requests
  PROVE  /\ call[r].kind \in TeamKinds \union {"register"}
         /\ call[r].user \in Users /\ call[r].target \in Users
         /\ call[r].invite \in Teams
         /\ Wanted(r) \subseteq Users /\ call[r].user \in Wanted(r)
         /\ r \in Teams /\ r \notin FirstTeams
<1>1. call[r] \in Call
  BY EnrolmentAssumption DEF TypeOK
<1> QED
  BY <1>1, EnrolmentAssumption DEF Call, Wanted, Teams

\* There are finitely many users, and so members of a team and participants.
LEMMA UsersFinite ==
  ASSUME NEW S \in SUBSET Users
  PROVE  IsFiniteSet(S) /\ Cardinality(S) \in Nat
BY EnrolmentAssumption, FS_Subset, FS_CardinalityType

\* One more user makes a set of users larger by at most one.
LEMMA OneMore ==
  ASSUME NEW S \in SUBSET Users, NEW u
  PROVE  /\ Cardinality(S \union {u}) \in Nat
         /\ Cardinality(S \union {u}) <= Cardinality(S) + 1
         /\ u \notin S => Cardinality(S \union {u}) = Cardinality(S) + 1
<1>1. IsFiniteSet(S) /\ Cardinality(S) \in Nat
  BY UsersFinite
<1>2. IsFiniteSet(S \union {u})
      /\ Cardinality(S \union {u}) = IF u \in S THEN Cardinality(S) ELSE Cardinality(S) + 1
  BY <1>1, FS_AddElement
<1> QED
  BY <1>1, <1>2

-----------------------------------------------------------------------------
(* Steps that only read *)

\* The step leaves the other requests alone.
Others(r) ==
  \A q \in Requests \ {r} :
    /\ pc'[q] = pc[q] /\ held'[q] = held[q] /\ seat'[q] = seat[q]
    /\ room'[q] = room[q] /\ team_mode'[q] = team_mode[q]
    /\ gate'[q] = gate[q] /\ uses'[q] = uses[q]

Reads(r) ==
  /\ pc[r] # "done" /\ Others(r)
  /\ UNCHANGED <<call, revoked, event, codes, tables>>

\* A request that has not ended has left no trace.
LEMMA Traceless ==
  ASSUME TypeOK, Past, NEW r \in Requests, pc[r] # "done"
  PROVE  \A i \in 1..Len(history) : history[i] \in Requests \ {r}
BY DEF TypeOK, Past

\* What the other requests rely on is not written by a step that only reads.
LEMMA ReadingOthers ==
  ASSUME NEW r \in Requests, NEW q \in Requests \ {r}, Reads(r), ReqInv(q)
  PROVE  ReqInv(q)'
<1>1. /\ pc'[q] = pc[q] /\ held'[q] = held[q] /\ seat'[q] = seat[q]
      /\ room'[q] = room[q] /\ team_mode'[q] = team_mode[q]
      /\ gate'[q] = gate[q] /\ uses'[q] = uses[q]
      /\ call' = call /\ revoked' = revoked /\ UNCHANGED <<state, mode>>
      /\ UNCHANGED <<registered, active, member, owners, teams, invite, use_count, history>>
  BY DEF Reads, Others, event, tables, accounts
<1>2. /\ Changes(q)' = Changes(q) /\ HoldsEvent(q)' = HoldsEvent(q)
      /\ Wanted(q)' = Wanted(q) /\ Entitled(q)' = Entitled(q)
      /\ ChangesOf(call[q].user)' = ChangesOf(call[q].user)
      /\ Mates(room[q])' = Mates(room[q]) /\ Participants' = Participants
  BY <1>1 DEF Changes, HoldsEvent, Wanted, Entitled, ChangesOf, Mates, Participants
<1>3. Course(q)'
  BY <1>1, <1>2 DEF ReqInv, Course
<1>4. /\ Seated(q)' = Seated(q)
      /\ Roomed(q)' = Roomed(q)
      /\ Welcome(q)' = Welcome(q)
  BY <1>1, <1>2 DEF Seated, Roomed, Welcome
<1>5. Relied(q)'
  BY <1>1, <1>2, <1>4 DEF ReqInv, Relied
<1> QED
  BY <1>3, <1>5 DEF ReqInv

\* Nor are the users, the teams and the past.
LEMMA ReadingTables ==
  ASSUME TypeOK, People, Past, NEW r \in Requests, Reads(r)
  PROVE  People' /\ Past'
<1>1. /\ call' = call /\ UNCHANGED <<state, mode>> /\ pc[r] # "done" /\ Others(r)
      /\ UNCHANGED <<registered, active, member, owners, teams, invite, use_count, history>>
  BY DEF Reads, event, tables, accounts
<1>2. /\ \A t : Mates(t)' = Mates(t)
      /\ \A t : TeamRoster!Mates(t)' = TeamRoster!Mates(t)
      /\ Participants' = Participants /\ Registrations' = Registrations
      /\ \A q, s : Before(q, s)' = Before(q, s)
      /\ \A u : ChangesOf(u)' = ChangesOf(u)
  BY <1>1 DEF Mates, TeamRoster!Mates, Participants, Registrations, Before, ChangesOf, Changes
<1>3. People'
  BY <1>1, <1>2 DEF People, IndividualsAlone, TeamRoster!WellFormed
<1>4. \A i \in 1..Len(history) :
        /\ history[i] \in Requests /\ pc'[history[i]] = pc[history[i]]
        /\ room'[history[i]] = room[history[i]] /\ gate'[history[i]] = gate[history[i]]
  BY <1>1, Traceless DEF Others
<1>5. RemovedStayOut'
  <2> SUFFICES ASSUME NEW q \in Requests, NEW s \in Requests,
                      (/\ call[q].kind = "remove" /\ call[s].kind = "join"
                       /\ call[q].target = call[s].user /\ room[q] = room[s] /\ Before(q, s))'
               PROVE  (call[s].invite \notin FirstTeams /\ ~ Before(call[s].invite, q))'
    BY DEF RemovedStayOut
  <2>1. Before(q, s)
    BY <1>2
  <2>2. PICK i \in 1..Len(history), j \in 1..Len(history) : history[i] = q /\ history[j] = s
    BY <2>1 DEF Before
  <2>3. room'[q] = room[q] /\ room'[s] = room[s]
    BY <1>4, <2>2
  <2> QED
    BY <1>1, <1>2, <2>1, <2>3 DEF Past, RemovedStayOut
<1>6. SeatsAndUsesCapped'
  <2>1. \A c \in Codes : {i \in Registrations : gate[history[i]] = c}'
                           = {i \in Registrations : gate[history[i]] = c}
    BY <1>1, <1>2, <1>4 DEF Registrations
  <2> QED
    BY <1>1, <1>2, <2>1 DEF Past, SeatsAndUsesCapped
<1>7. ChangesCapped'
  BY <1>2 DEF Past, ChangesCapped
<1>8. Past'
  BY <1>1, <1>2, <1>4, <1>5, <1>6, <1>7 DEF Past
<1> QED
  BY <1>3, <1>8

\* The variables a request has of its own keep their types.
LocalType ==
  /\ pc \in [Requests -> Labels]
  /\ held \in [Requests -> SUBSET Users]
  /\ seat \in [Requests -> Teams \union {NoTeam}]
  /\ room \in [Requests -> Teams \union {NoTeam}]
  /\ team_mode \in [Requests -> {"team", "individual"}]
  /\ gate \in [Requests -> Codes \union {NoCode}]
  /\ uses \in [Requests -> Nat]
  /\ reply \in [Requests -> {"none", "refused", "internal_error", "ok"}]

\* A step locks what nobody else has locked.
LocksFree(r) ==
  /\ \A q \in Requests \ {r} :
       HoldsEvent(r)' /\ HoldsEvent(q) => HoldsEvent(r) \/ (Changes(q) /\ Changes(r))
  /\ \A q \in Requests \ {r} : held'[r] \cap held[q] \subseteq held[r]
  /\ \A q \in Requests \ {r} :
       pc'[r] = "commit" /\ pc[q] = "commit" /\ room'[r] # NoTeam => room[q] # room'[r]

\* What is left to show of a step that only reads.
LEMMA ReadingStep ==
  ASSUME IInv, NEW r \in Requests, Reads(r), LocalType', LocksFree(r), ReqInv(r)'
  PROVE  IInv'
<1>1. TypeOK'
  BY DEF IInv, TypeOK, LocalType, Reads, event, tables, accounts
<1>2. Exclusive'
  <2>1. /\ call' = call
        /\ \A q \in Requests \ {r} : pc'[q] = pc[q] /\ held'[q] = held[q] /\ room'[q] = room[q]
    BY DEF Reads, Others
  <2>2. \A q \in Requests : Changes(q)' = Changes(q)
    BY <2>1 DEF Changes
  <2>3. \A q \in Requests \ {r} : HoldsEvent(q)' = HoldsEvent(q)
    BY <2>1 DEF HoldsEvent
  <2>4. ASSUME NEW q \in Requests, NEW s \in Requests, q # s, HoldsEvent(q)', HoldsEvent(s)'
        PROVE  Changes(q)' /\ Changes(s)'
    BY <2>2, <2>3, <2>4 DEF IInv, Exclusive, LocksFree
  <2>5. ASSUME NEW q \in Requests, NEW s \in Requests, q # s
        PROVE  held'[q] \cap held'[s] = {}
    <3>1. held[q] \cap held[s] = {}
      BY <2>5 DEF IInv, Exclusive
    <3> QED
      BY <2>1, <2>5, <3>1 DEF LocksFree
  <2>6. ASSUME NEW q \in Requests, NEW s \in Requests, pc'[q] = "commit", pc'[s] = "commit",
               room'[q] = room'[s], room'[q] # NoTeam
        PROVE  q = s
    BY <2>1, <2>6 DEF IInv, Exclusive, LocksFree
  <2> QED
    BY <2>4, <2>5, <2>6 DEF Exclusive
<1>3. People' /\ Past'
  BY ReadingTables DEF IInv
<1>4. \A q \in Requests : ReqInv(q)'
  BY ReadingOthers DEF IInv
<1> QED
  BY <1>1, <1>2, <1>3, <1>4 DEF IInv

\* A request that is refused drops its locks.
LEMMA RefuseKeeps ==
  ASSUME IInv, NEW r \in Requests, NEW here, here # "done",
         \/ Refuse(r, here)
         \/ Answer(r, here, "internal_error") /\ UNCHANGED tables
  PROVE  IInv'
<1>1. /\ pc[r] # "done" /\ pc' = [pc EXCEPT ![r] = "done"]
      /\ held' = [held EXCEPT ![r] = {}]
      /\ \E a \in {"refused", "internal_error"} : reply' = [reply EXCEPT ![r] = a]
      /\ UNCHANGED <<call, seat, room, team_mode, gate, uses, revoked, event, codes, tables>>
  BY DEF Refuse, Answer
<1>2. Reads(r) /\ LocalType'
  <2>1. LocalType
    BY DEF IInv, TypeOK, LocalType
  <2> QED
    BY <1>1, <2>1 DEF Reads, Others, LocalType, Labels
<1>3. pc'[r] = "done" /\ held'[r] = {} /\ ~ HoldsEvent(r)'
  BY <1>1 DEF IInv, TypeOK, HoldsEvent
<1>4. LocksFree(r)
  BY <1>3 DEF LocksFree
<1>5. Course(r) /\ Changes(r)' = Changes(r) /\ room' = room /\ gate' = gate /\ call' = call
  BY <1>1 DEF IInv, ReqInv, Changes
<1>6. Course(r)'
  BY <1>3, <1>5 DEF Course
<1>7. Relied(r)'
  BY <1>3 DEF Relied
<1> QED
  BY <1>2, <1>4, <1>6, <1>7, ReadingStep DEF ReqInv

\* What all the steps by which a request goes on have in common.
LEMMA ProceedReads ==
  ASSUME IInv, NEW r \in Requests, NEW here, NEW next \in Labels,
         here # "done", next # "done", Proceed(r, here, next),
         held' \in [Requests -> SUBSET Users], seat' \in [Requests -> Teams \union {NoTeam}],
         room' \in [Requests -> Teams \union {NoTeam}],
         team_mode' \in [Requests -> {"team", "individual"}],
         gate' \in [Requests -> Codes \union {NoCode}], uses' \in [Requests -> Nat],
         \A q \in Requests \ {r} :
           /\ held'[q] = held[q] /\ seat'[q] = seat[q] /\ room'[q] = room[q]
           /\ team_mode'[q] = team_mode[q] /\ gate'[q] = gate[q] /\ uses'[q] = uses[q]
  PROVE  /\ Reads(r) /\ LocalType'
         /\ pc[r] = here /\ pc'[r] = next
         /\ Changes(r)' = Changes(r) /\ Wanted(r)' = Wanted(r) /\ Entitled(r)' = Entitled(r)
         /\ ChangesOf(call[r].user)' = ChangesOf(call[r].user)
         /\ \A t : Mates(t)' = Mates(t)
         /\ Participants' = Participants
         /\ UNCHANGED <<registered, active, member, owners, teams, invite, use_count, history,
                        state, mode, access, codes>>
<1>1. /\ pc[r] = here /\ pc' = [pc EXCEPT ![r] = next]
      /\ UNCHANGED <<call, reply, revoked, event, codes, tables>>
  BY DEF Proceed
<1>2. pc \in [Requests -> Labels]
      /\ reply \in [Requests -> {"none", "refused", "internal_error", "ok"}]
  BY DEF IInv, TypeOK
<1>3. Reads(r) /\ LocalType'
  BY <1>1, <1>2 DEF Reads, Others, LocalType
<1>4. /\ UNCHANGED <<registered, active, member, owners, teams, invite, use_count, history,
                     state, mode, access, codes>>
      /\ call' = call /\ revoked' = revoked
  BY <1>1 DEF event, tables, accounts
<1> QED
  BY <1>1, <1>2, <1>3, <1>4 DEF Changes, Wanted, Entitled, ChangesOf, Mates, Participants

\* Going on without a new lock on a User, a Team or a code.
LEMMA ProceedPlain ==
  ASSUME IInv, NEW r \in Requests, NEW here, NEW next \in Labels,
         here # "done", next \notin {"done", "commit"}, Proceed(r, here, next), UNCHANGED local,
         \A q \in Requests \ {r} :
           next # "event" /\ HoldsEvent(q) => here \notin {"arrive", "event"} \/ (Changes(q) /\ Changes(r)),
         Course(r)', Relied(r)'
  PROVE  IInv'
<1>1. Reads(r) /\ LocalType' /\ pc[r] = here /\ pc'[r] = next /\ held' = held
  BY ProceedReads DEF IInv, TypeOK, local
<1>2. LocksFree(r)
  BY <1>1 DEF LocksFree, HoldsEvent
<1> QED
  BY <1>1, <1>2, ReadingStep DEF ReqInv

LEMMA ArriveKeeps ==
  ASSUME IInv, NEW r \in Requests, Arrive(r)
  PROVE  IInv'
<1>1. CASE Refuse(r, "arrive")
  BY <1>1, RefuseKeeps
<1>2. CASE Proceed(r, "arrive", "event") /\ UNCHANGED local
  <2>1. /\ Reads(r) /\ pc[r] = "arrive" /\ pc'[r] = "event" /\ UNCHANGED local
        /\ Changes(r)' = Changes(r) /\ teams' = teams /\ call' = call
    BY <1>2, ProceedReads DEF IInv, TypeOK, local, Labels, Reads
  <2>2. Course(r)'
    BY <2>1 DEF IInv, ReqInv, Course, HoldsEvent, local
  <2>3. Relied(r)'
    BY <2>1 DEF Relied, HoldsEvent
  <2> QED
    BY <1>2, <2>2, <2>3, ProceedPlain DEF Labels
<1> QED
  BY <1>1, <1>2 DEF Arrive

LEMMA LockEventKeeps ==
  ASSUME IInv, NEW r \in Requests, LockEvent(r)
  PROVE  IInv'
<1>1. CASE Refuse(r, "event")
  BY <1>1, RefuseKeeps
<1>2. CASE /\ RegistrationOpen /\ (Changes(r) => mode = "team")
           /\ team_mode' = [team_mode EXCEPT ![r] = mode]
           /\ Proceed(r, "event", IF Changes(r) THEN "user" ELSE "code")
           /\ UNCHANGED <<held, seat, room, gate, uses>>
  <2> DEFINE next == IF Changes(r) THEN "user" ELSE "code"
  <2>1. /\ team_mode' \in [Requests -> {"team", "individual"}] /\ team_mode'[r] = mode
        /\ \A q \in Requests \ {r} : team_mode'[q] = team_mode[q]
    BY <1>2 DEF IInv, TypeOK
  <2>2. /\ Reads(r) /\ LocalType' /\ pc[r] = "event" /\ pc'[r] = next
        /\ Changes(r)' = Changes(r) /\ teams' = teams /\ call' = call
        /\ UNCHANGED <<state, mode, held, room, gate>>
    BY <1>2, <2>1, ProceedReads DEF IInv, TypeOK, Labels, Reads
  <2>3. Course(r)'
    BY <2>2 DEF IInv, ReqInv, Course, HoldsEvent
  <2>4. Relied(r)'
    BY <1>2, <2>1, <2>2 DEF Relied, RegistrationOpen
  <2>5. \A q \in Requests \ {r} : HoldsEvent(q) => Changes(q) /\ Changes(r)
    BY DEF LockEvent, EventNotExclusive, EventFree
  <2>6. LocksFree(r)
    BY <2>2, <2>5 DEF LocksFree
  <2> QED
    BY <2>2, <2>3, <2>4, <2>6, ReadingStep DEF ReqInv
<1> QED
  BY <1>1, <1>2 DEF LockEvent

LEMMA LockUserKeeps ==
  ASSUME IInv, NEW r \in Requests, LockUser(r)
  PROVE  IInv'
<1>1. PICK u \in NextUser(r) : UserFree(u) /\ held' = [held EXCEPT ![r] = @ \union {u}]
  BY DEF LockUser
<1>2. u \in Users /\ u \in Wanted(r)
  BY <1>1, CallFacts DEF NextUser, IInv
<1>3. held \in [Requests -> SUBSET Users]
  BY DEF IInv, TypeOK
<1>4. held' \in [Requests -> SUBSET Users] /\ held'[r] = held[r] \union {u}
  BY <1>1, <1>2, <1>3
<1>5. /\ Reads(r) /\ LocalType' /\ pc[r] = "user" /\ pc'[r] = "user"
      /\ Changes(r)' = Changes(r) /\ teams' = teams /\ call' = call
      /\ Wanted(r)' = Wanted(r)
      /\ UNCHANGED <<state, mode, seat, room, team_mode, gate, uses>>
  BY <1>1, <1>3, <1>4, ProceedReads DEF IInv, TypeOK, LockUser, Labels, Reads
<1>6. LocksFree(r)
  <2>1. \A q \in Requests : u \notin held[q]
    BY <1>1 DEF UserFree
  <2> QED
    BY <1>4, <1>5, <2>1 DEF LocksFree, HoldsEvent
<1>7. Course(r) /\ Relied(r)
  BY DEF IInv, ReqInv
<1>8. Course(r)'
  BY <1>2, <1>4, <1>5, <1>7 DEF Course, HoldsEvent
<1>9. Relied(r)'
  BY <1>5, <1>7 DEF Relied, HoldsEvent
<1> QED
  BY <1>5, <1>6, <1>8, <1>9, ReadingStep DEF ReqInv

LEMMA CheckActorKeeps ==
  ASSUME IInv, NEW r \in Requests, CheckActor(r)
  PROVE  IInv'
<1>1. CASE Refuse(r, "user")
  BY <1>1, RefuseKeeps
<1>2. CASE /\ Entitled(r) /\ Cardinality(ChangesOf(call[r].user)) < MaxChanges
           /\ Proceed(r, "user", "seat") /\ UNCHANGED local
  <2>1. /\ Reads(r) /\ pc[r] = "user" /\ pc'[r] = "seat" /\ UNCHANGED local
        /\ Changes(r)' = Changes(r) /\ teams' = teams /\ call' = call
        /\ Wanted(r)' = Wanted(r) /\ Entitled(r)' = Entitled(r)
        /\ ChangesOf(call[r].user)' = ChangesOf(call[r].user)
        /\ UNCHANGED <<state, mode>>
    BY <1>2, ProceedReads DEF IInv, TypeOK, local, Labels, Reads
  <2>2. Course(r) /\ Relied(r) /\ Wanted(r) \subseteq held[r]
    BY DEF IInv, ReqInv, CheckActor
  <2>3. Course(r)'
    BY <2>1, <2>2 DEF Course, HoldsEvent, local
  <2>4. Relied(r)'
    BY <1>2, <2>1, <2>2 DEF Relied, Seated, HoldsEvent, local
  <2> QED
    BY <1>2, <2>3, <2>4, ProceedPlain DEF Labels
<1> QED
  BY <1>1, <1>2 DEF CheckActor

LEMMA LockMembershipKeeps ==
  ASSUME IInv, NEW r \in Requests, LockMembership(r)
  PROVE  IInv'
<1> DEFINE t == member[call[r].user]
           next == IF call[r].kind = "create" THEN "name" ELSE "team"
<1>1. CASE Refuse(r, "seat")
  BY <1>1, RefuseKeeps
<1>2. CASE /\ (t = NoTeam) = (call[r].kind \in {"create", "join"})
           /\ seat' = [seat EXCEPT ![r] = t]
           /\ Proceed(r, "seat", next)
           /\ UNCHANGED <<held, room, team_mode, gate, uses>>
  <2>1. t \in Teams \union {NoTeam}
    BY CallFacts DEF IInv, TypeOK
  <2>2. /\ seat' \in [Requests -> Teams \union {NoTeam}] /\ seat'[r] = t
        /\ \A q \in Requests \ {r} : seat'[q] = seat[q]
    BY <1>2, <2>1 DEF IInv, TypeOK
  <2>3. /\ Reads(r) /\ LocalType' /\ pc[r] = "seat" /\ pc'[r] = next
        /\ Changes(r)' = Changes(r) /\ teams' = teams /\ call' = call
        /\ Wanted(r)' = Wanted(r) /\ Entitled(r)' = Entitled(r)
        /\ ChangesOf(call[r].user)' = ChangesOf(call[r].user)
        /\ UNCHANGED <<state, mode, member, held, room, team_mode, gate, uses>>
    BY <1>2, <2>2, ProceedReads DEF IInv, TypeOK, Labels, Reads
  <2>4. Course(r) /\ Relied(r)
    BY DEF IInv, ReqInv
  <2>5. LocksFree(r)
    BY <2>3 DEF LocksFree, HoldsEvent
  <2>6. Course(r)'
    BY <2>3, <2>4 DEF Course, HoldsEvent
  <2>7. Relied(r)'
    <3>1. /\ Changes(r) /\ Seated(r)
          /\ state = "registration" /\ team_mode[r] = mode /\ mode = "team"
      BY <2>3, <2>4 DEF Relied, Course, HoldsEvent
    <3>2. Seated(r)'
      BY <1>2, <2>2, <2>3, <3>1 DEF Seated
    <3> QED
      BY <2>3, <3>1, <3>2 DEF Relied, HoldsEvent
  <2> QED
    BY <2>3, <2>5, <2>6, <2>7, ReadingStep DEF ReqInv
<1> QED
  BY <1>1, <1>2 DEF LockMembership

LEMMA LockCodeKeeps ==
  ASSUME IInv, NEW r \in Requests, LockCode(r)
  PROVE  IInv'
<1> DEFINE c == IF access = "code" THEN call[r].code ELSE NoCode
           used == IF c = NoCode THEN 0 ELSE use_count[c]
<1>1. CASE Refuse(r, "code")
  BY <1>1, RefuseKeeps
<1>2. CASE /\ Admitted(r)
           /\ gate' = [gate EXCEPT ![r] = c]
           /\ uses' = [uses EXCEPT ![r] = used]
           /\ Proceed(r, "code", "commit")
           /\ UNCHANGED <<held, seat, room, team_mode>>
  <2>1. c # NoCode => c \in Codes /\ use_count[c] < MaxUses[c]
    BY <1>2 DEF Admitted, CodeGood
  <2>2. c \in Codes \union {NoCode} /\ used \in Nat
    BY <2>1 DEF IInv, TypeOK
  <2> HIDE DEF c, used
  <2>3. /\ gate' \in [Requests -> Codes \union {NoCode}] /\ gate'[r] = c
        /\ uses' \in [Requests -> Nat] /\ uses'[r] = used
        /\ \A q \in Requests \ {r} : gate'[q] = gate[q] /\ uses'[q] = uses[q]
    BY <1>2, <2>2 DEF IInv, TypeOK
  <2>4. /\ Reads(r) /\ LocalType' /\ pc[r] = "code" /\ pc'[r] = "commit"
        /\ Participants' = Participants
        /\ Changes(r)' = Changes(r) /\ call' = call /\ Wanted(r)' = Wanted(r)
        /\ UNCHANGED <<state, mode, teams, registered, use_count, held, room, team_mode>>
    <3>1. /\ held' \in [Requests -> SUBSET Users] /\ seat' \in [Requests -> Teams \union {NoTeam}]
          /\ room' \in [Requests -> Teams \union {NoTeam}]
          /\ team_mode' \in [Requests -> {"team", "individual"}]
          /\ "commit" \in Labels
      BY <1>2 DEF IInv, TypeOK, Proceed, Labels
    <3> QED
      BY <1>2, <2>3, <3>1, ProceedReads DEF Reads
  <2>5. Course(r) /\ Relied(r) /\ ~ Changes(r) /\ room[r] = NoTeam
    BY <2>4 DEF IInv, ReqInv, Course
  <2>6. LocksFree(r)
    BY <2>4, <2>5 DEF LocksFree, HoldsEvent
  <2>7. Course(r)'
    BY <2>4, <2>5 DEF Course, HoldsEvent
  <2>8. Welcome(r)'
    <3>1. used = IF c = NoCode THEN 0 ELSE use_count[c]
      BY DEF used
    <3> QED
      BY <1>2, <2>1, <2>3, <2>4, <3>1 DEF Admitted, Welcome
  <2>9. Relied(r)'
    BY <2>4, <2>5, <2>8 DEF Relied, HoldsEvent
  <2> QED
    BY <2>4, <2>6, <2>7, <2>9, ReadingStep DEF ReqInv
<1> QED
  BY <1>1, <1>2 DEF LockCode

\* A request to create a team that goes on to its next statement.
LEMMA CreateGoesOn ==
  ASSUME IInv, NEW r \in Requests, NEW here, NEW next \in Labels, Proceed(r, here, next),
         UNCHANGED local,
         (here = "name" /\ next = "flush") \/ (here = "flush" /\ next = "commit")
  PROVE  IInv'
<1>1. here \in {"name", "flush"} /\ next \in {"flush", "commit"} /\ here # "done" /\ next # "done"
  OBVIOUS
<1>2. /\ Reads(r) /\ LocalType' /\ pc[r] = here /\ pc'[r] = next /\ UNCHANGED local
      /\ Changes(r)' = Changes(r) /\ teams' = teams /\ call' = call
      /\ Wanted(r)' = Wanted(r) /\ Entitled(r)' = Entitled(r)
      /\ ChangesOf(call[r].user)' = ChangesOf(call[r].user)
      /\ UNCHANGED <<state, mode, member>>
  <2>1. /\ held' \in [Requests -> SUBSET Users] /\ seat' \in [Requests -> Teams \union {NoTeam}]
        /\ room' \in [Requests -> Teams \union {NoTeam}]
        /\ team_mode' \in [Requests -> {"team", "individual"}]
        /\ gate' \in [Requests -> Codes \union {NoCode}] /\ uses' \in [Requests -> Nat]
        /\ UNCHANGED local
        /\ \A q \in Requests \ {r} :
             /\ held'[q] = held[q] /\ seat'[q] = seat[q] /\ room'[q] = room[q]
             /\ team_mode'[q] = team_mode[q] /\ gate'[q] = gate[q] /\ uses'[q] = uses[q]
    BY DEF IInv, TypeOK, local
  <2>2. UNCHANGED call
    BY DEF Proceed
  <2> QED
    BY <1>1, <2>1, <2>2, ProceedReads
<1>3. Course(r) /\ Relied(r) /\ call[r].kind = "create" /\ Changes(r) /\ room[r] = NoTeam
  BY <1>1, <1>2 DEF IInv, ReqInv, Course
<1>4. LocksFree(r)
  BY <1>1, <1>2, <1>3 DEF LocksFree, HoldsEvent, local
<1>5. Course(r)'
  BY <1>1, <1>2, <1>3 DEF Course, HoldsEvent, local
<1>6. Relied(r)'
  <2>1. Seated(r) /\ state = "registration" /\ team_mode[r] = mode /\ mode = "team"
    BY <1>1, <1>2, <1>3 DEF Relied, HoldsEvent
  <2>2. Seated(r)'
    BY <1>1, <1>2, <1>3, <2>1 DEF Seated, local
  <2> QED
    BY <1>2, <1>3, <2>1, <2>2 DEF Relied, local
<1> QED
  BY <1>2, <1>4, <1>5, <1>6, ReadingStep DEF ReqInv

LEMMA CreateKeeps ==
  ASSUME IInv, NEW r \in Requests, CheckName(r) \/ FlushTeam(r)
  PROVE  IInv'
<1>1. CASE Refuse(r, "name")
  BY <1>1, RefuseKeeps
<1>2. CASE Answer(r, "flush", "internal_error") /\ UNCHANGED tables
  BY <1>2, RefuseKeeps
<1>3. CASE Proceed(r, "name", "flush") /\ UNCHANGED local
  BY <1>3, CreateGoesOn DEF Labels
<1>4. CASE Proceed(r, "flush", "commit") /\ UNCHANGED local
  BY <1>4, CreateGoesOn DEF Labels
<1> QED
  BY <1>1, <1>2, <1>3, <1>4 DEF CheckName, FlushTeam

LEMMA LockTeamKeeps ==
  ASSUME IInv, NEW r \in Requests, LockTeam(r)
  PROVE  IInv'
<1>1. CASE Refuse(r, "team")
  BY <1>1, RefuseKeeps
<1>2. ASSUME NEW t \in RoomsFor(r), TeamFree(t), Allowed(r, t),
             room' = [room EXCEPT ![r] = t], Proceed(r, "team", "commit"),
             UNCHANGED <<held, seat, team_mode, gate, uses>>
      PROVE  IInv'
  <2>1. t \in teams /\ t \in Teams /\ t # NoTeam
    BY <1>2, EnrolmentAssumption DEF RoomsFor, IInv, TypeOK
  <2>2. /\ room' \in [Requests -> Teams \union {NoTeam}] /\ room'[r] = t
        /\ \A q \in Requests \ {r} : room'[q] = room[q]
    BY <1>2, <2>1 DEF IInv, TypeOK
  <2>3. /\ Reads(r) /\ LocalType' /\ pc[r] = "team" /\ pc'[r] = "commit"
        /\ Changes(r)' = Changes(r) /\ call' = call
        /\ Wanted(r)' = Wanted(r) /\ Entitled(r)' = Entitled(r)
        /\ ChangesOf(call[r].user)' = ChangesOf(call[r].user)
        /\ \A s : Mates(s)' = Mates(s)
        /\ UNCHANGED <<state, mode, member, owners, teams, invite, held, seat, team_mode, gate,
                       uses>>
    <3>1. /\ held' \in [Requests -> SUBSET Users] /\ seat' \in [Requests -> Teams \union {NoTeam}]
          /\ team_mode' \in [Requests -> {"team", "individual"}]
          /\ gate' \in [Requests -> Codes \union {NoCode}] /\ uses' \in [Requests -> Nat]
          /\ "commit" \in Labels
      BY <1>2 DEF IInv, TypeOK, Labels
    <3> QED
      BY <1>2, <2>2, <3>1, ProceedReads DEF Reads
  <2>4. Course(r) /\ Relied(r) /\ Changes(r) /\ call[r].kind # "create"
    BY <2>3 DEF IInv, ReqInv, Course
  <2>5. LocksFree(r)
    BY <1>2, <2>2, <2>3, <2>4 DEF LocksFree, HoldsEvent, TeamFree
  <2>6. Course(r)'
    BY <2>3, <2>4 DEF Course, HoldsEvent
  <2>7. Seated(r) /\ state = "registration" /\ team_mode[r] = mode /\ mode = "team"
    BY <2>3, <2>4 DEF Relied, HoldsEvent
  <2>8. Seated(r)'
    BY <2>3, <2>7 DEF Seated
  <2>9. Roomed(r)'
    <3>1. IF call[r].kind = "join"
          THEN Cardinality(Mates(t)) < MaxMembers /\ invite[t] = call[r].invite
          ELSE t = member[call[r].user]
      BY <1>2, <2>3, <2>7 DEF RoomsFor, Allowed, Seated
    <3>2. call[r].kind \in {"transfer", "remove"} =>
            /\ call[r].user \in owners /\ call[r].user # call[r].target
            /\ member[call[r].target] = t /\ call[r].target \notin owners
      BY <1>2 DEF Allowed
    <3>3. call[r].kind = "leave" /\ call[r].user \in owners => Mates(t) = {call[r].user}
      BY <1>2 DEF Allowed
    <3> QED
      BY <2>1, <2>2, <2>3, <3>1, <3>2, <3>3 DEF Roomed
  <2>10. Relied(r)'
    BY <2>3, <2>4, <2>7, <2>8, <2>9 DEF Relied
  <2> QED
    BY <2>3, <2>5, <2>6, <2>10, ReadingStep DEF ReqInv
<1> QED
  BY <1>1, <1>2 DEF LockTeam

-----------------------------------------------------------------------------
(* The commit, by what it does to the teams *)

Founding(r) ==
  LET u == call[r].user
  IN  /\ room[r] = NoTeam
      /\ member[u] = NoTeam /\ member' = [member EXCEPT ![u] = r]
      /\ owners' = owners \union {u}
      /\ teams' = teams \union {r} /\ invite' = [invite EXCEPT ![r] = r]

Joining(r) ==
  LET u == call[r].user
  IN  /\ member[u] = NoTeam /\ Cardinality(Mates(room[r])) < MaxMembers
      /\ member' = [member EXCEPT ![u] = room[r]]
      /\ UNCHANGED <<owners, teams, invite>>

Leaving(r) ==
  LET u == call[r].user
  IN  /\ room[r] = member[u]
      /\ u \in owners => Mates(room[r]) = {u}
      /\ member' = [member EXCEPT ![u] = NoTeam]
      /\ owners' = owners \ {u}
      /\ teams' = IF u \in owners THEN teams \ {room[r]} ELSE teams
      /\ UNCHANGED invite

Removing(r) ==
  LET v == call[r].target
  IN  /\ v \notin owners /\ member[v] = room[r]
      /\ member' = [member EXCEPT ![v] = NoTeam]
      /\ invite' = [invite EXCEPT ![room[r]] = r]
      /\ UNCHANGED <<owners, teams>>

Transferring(r) ==
  LET u == call[r].user
      v == call[r].target
  IN  /\ v \notin owners /\ member[v] = room[r]
      /\ owners' = (owners \ {u}) \union {v}
      /\ UNCHANGED <<member, teams, invite>>

Rotating(r) ==
  /\ invite' = [invite EXCEPT ![room[r]] = r]
  /\ UNCHANGED <<member, owners, teams>>

\* What every commit does.
LEMMA CommitFacts ==
  ASSUME IInv, NEW r \in Requests, Commit(r)
  PROVE  /\ pc[r] = "commit" /\ HoldsEvent(r) /\ Course(r) /\ Relied(r)
         /\ state = "registration" /\ team_mode[r] = mode
         /\ Changes(r) => Seated(r) /\ Wanted(r) \subseteq held[r] /\ mode = "team"
         /\ ~ Changes(r) => Welcome(r)
         /\ Changes(r) /\ call[r].kind # "create" => Roomed(r)
         /\ r \notin teams
         /\ \A i \in 1..Len(history) : history[i] \in Requests \ {r}
         /\ pc' = [pc EXCEPT ![r] = "done"] /\ held' = [held EXCEPT ![r] = {}]
         /\ reply' = [reply EXCEPT ![r] = "ok"]
         /\ UNCHANGED <<call, seat, room, team_mode, gate, uses, revoked, event, codes>>
         /\ Others(r)
         /\ history' = Append(history, r)
         /\ registered' = IF Changes(r) THEN registered ELSE registered \union {call[r].user}
         /\ active' = IF Changes(r) THEN active ELSE active \union {call[r].user}
         /\ use_count' = IF gate[r] = NoCode THEN use_count
                         ELSE [use_count EXCEPT ![gate[r]] = uses[r] + 1]
<1>1. /\ pc[r] = "commit"
      /\ pc' = [pc EXCEPT ![r] = "done"] /\ held' = [held EXCEPT ![r] = {}]
      /\ reply' = [reply EXCEPT ![r] = "ok"]
      /\ UNCHANGED <<call, seat, room, team_mode, gate, uses, revoked, event, codes>>
  BY DEF Commit, Answer
<1>2. /\ history' = Append(history, r)
      /\ registered' = IF Changes(r) THEN registered ELSE registered \union {call[r].user}
      /\ active' = IF Changes(r) THEN active ELSE active \union {call[r].user}
      /\ use_count' = IF gate[r] = NoCode THEN use_count
                      ELSE [use_count EXCEPT ![gate[r]] = uses[r] + 1]
  BY DEF Commit
<1>3. Course(r) /\ Relied(r) /\ HoldsEvent(r)
  BY <1>1 DEF IInv, ReqInv, HoldsEvent
<1>4. /\ state = "registration" /\ team_mode[r] = mode
      /\ Changes(r) => Seated(r) /\ mode = "team"
      /\ ~ Changes(r) => Welcome(r)
      /\ Changes(r) /\ call[r].kind # "create" => Roomed(r)
      /\ r \notin teams
  BY <1>1, <1>3 DEF Relied, Course
<1>5. Changes(r) => Wanted(r) \subseteq held[r]
  BY <1>4 DEF Seated
<1>6. Others(r)
  BY <1>1 DEF Others, IInv, TypeOK
<1>7. \A i \in 1..Len(history) : history[i] \in Requests \ {r}
  BY <1>1, Traceless DEF IInv
<1> QED
  BY <1>1, <1>2, <1>3, <1>4, <1>5, <1>6, <1>7

\* What it does to the teams.
LEMMA CommitCases ==
  ASSUME IInv, NEW r \in Requests, Commit(r)
  PROVE  \/ Founds(r) /\ Founding(r)
         \/ call[r].kind = "register" /\ ~ Founds(r) /\ room[r] = NoTeam
              /\ UNCHANGED <<member, owners, teams, invite>>
         \/ call[r].kind = "join" /\ Joining(r)
         \/ call[r].kind = "rotate" /\ Rotating(r)
         \/ call[r].kind = "transfer" /\ Transferring(r)
         \/ call[r].kind = "remove" /\ Removing(r)
         \/ call[r].kind = "leave" /\ Leaving(r)
<1> DEFINE u == call[r].user
           v == call[r].target
           k == call[r].kind
           t == room[r]
<1>1. /\ member' = CASE Founds(r) -> [member EXCEPT ![u] = r]
                     [] k = "join" -> [member EXCEPT ![u] = t]
                     [] k = "leave" -> [member EXCEPT ![u] = NoTeam]
                     [] k = "remove" -> [member EXCEPT ![v] = NoTeam]
                     [] OTHER -> member
      /\ owners' = CASE Founds(r) -> owners \union {u}
                     [] k = "leave" -> owners \ {u}
                     [] k = "transfer" -> (owners \ {u}) \union {v}
                     [] OTHER -> owners
      /\ teams' = CASE Founds(r) -> teams \union {r}
                    [] Dissolves(r) -> teams \ {t}
                    [] OTHER -> teams
      /\ invite' = CASE Founds(r) -> [invite EXCEPT ![r] = r]
                     [] Rotates(r) -> [invite EXCEPT ![t] = r]
                     [] OTHER -> invite
  BY DEF Commit
<1>2. /\ k \in TeamKinds \union {"register"} /\ u \in Users
  BY CallFacts DEF IInv
<1>3. /\ Changes(r) => Seated(r)
      /\ ~ Changes(r) => Welcome(r) /\ room[r] = NoTeam
      /\ k = "create" => room[r] = NoTeam
      /\ Changes(r) /\ k # "create" => Roomed(r)
      /\ pc[r] = "commit"
  BY CommitFacts DEF Course
<1>4. k \in {"create", "join"} => member[u] = NoTeam
  BY <1>3 DEF Seated, Changes
<1>5. k = "register" => member[u] = NoTeam
  BY <1>2, <1>3 DEF Welcome, IInv, People, Changes
<1>6. Founds(r) => k \in {"create", "register"}
  BY DEF Founds
<1>7. CASE Founds(r)
  BY <1>1, <1>3, <1>4, <1>5, <1>6, <1>7 DEF Founding, Changes, Dissolves, Rotates
<1>8. CASE k = "register" /\ ~ Founds(r)
  BY <1>1, <1>3, <1>8 DEF Dissolves, Rotates, Changes
<1>9. CASE k = "join"
  BY <1>1, <1>3, <1>4, <1>6, <1>9 DEF Joining, Roomed, Dissolves, Rotates, Changes
<1>10. CASE k = "rotate"
  BY <1>1, <1>6, <1>10 DEF Rotating, Dissolves, Rotates
<1>11. CASE k = "transfer"
  BY <1>1, <1>3, <1>6, <1>11 DEF Transferring, Roomed, Dissolves, Rotates, Changes
<1>12. CASE k = "remove"
  BY <1>1, <1>3, <1>6, <1>12 DEF Removing, Roomed, Dissolves, Rotates, Changes
<1>13. CASE k = "leave"
  BY <1>1, <1>3, <1>6, <1>13 DEF Leaving, Roomed, Dissolves, Rotates, Changes
<1>14. k = "create" => Founds(r)
  BY DEF Founds
<1> QED
  BY <1>2, <1>7, <1>8, <1>9, <1>10, <1>11, <1>12, <1>13, <1>14 DEF TeamKinds

-----------------------------------------------------------------------------
(* The commit and the other requests *)

\* It changes only the users it has locked, its team and the team it founds.
LEMMA CommitApart ==
  ASSUME IInv, NEW r \in Requests, Commit(r)
  PROVE  /\ \A u \in Users \ Wanted(r) :
              member'[u] = member[u] /\ (u \in owners' <=> u \in owners)
         /\ \A t \in Teams \ {r, room[r]} :
              Mates(t)' = Mates(t) /\ invite'[t] = invite[t] /\ (t \in teams' <=> t \in teams)
<1> DEFINE u == call[r].user
           v == call[r].target
<1>1. /\ u \in Users /\ v \in Users /\ u \in Wanted(r)
      /\ call[r].kind \in {"transfer", "remove"} => v \in Wanted(r)
  BY CallFacts DEF IInv, Wanted
<1>2. /\ member \in [Users -> teams \union {NoTeam}]
      /\ invite \in [Teams -> Teams] /\ r \in Teams /\ NoTeam \notin Teams
  BY CallFacts, EnrolmentAssumption DEF IInv, TypeOK
<1>3. CASE Founding(r)
  BY <1>1, <1>2, <1>3 DEF Founding, Mates
<1>4. CASE UNCHANGED <<member, owners, teams, invite>>
  BY <1>4 DEF Mates
<1>5. CASE Joining(r)
  BY <1>1, <1>2, <1>5 DEF Joining, Mates
<1>6. CASE Rotating(r)
  BY <1>2, <1>6 DEF Rotating, Mates
<1>7. CASE call[r].kind = "transfer" /\ Transferring(r)
  BY <1>1, <1>7 DEF Transferring, Mates
<1>8. CASE call[r].kind = "remove" /\ Removing(r)
  BY <1>1, <1>2, <1>8 DEF Removing, Mates
<1>9. CASE Leaving(r)
  BY <1>1, <1>2, <1>9 DEF Leaving, Mates
<1> QED
  BY <1>3, <1>4, <1>5, <1>6, <1>7, <1>8, <1>9, CommitCases

\* The number of changes of a user who is not the one of the commit.
LEMMA CommitCounts ==
  ASSUME IInv, NEW r \in Requests, Commit(r), NEW u
  PROVE  /\ IsFiniteSet(ChangesOf(u)) /\ Cardinality(ChangesOf(u)) \in Nat
         /\ IF Changes(r) /\ u = call[r].user
            THEN Cardinality(ChangesOf(u)') = Cardinality(ChangesOf(u)) + 1
            ELSE ChangesOf(u)' = ChangesOf(u)
<1> DEFINE n == Len(history)
<1>1. /\ history \in Seq(Requests) /\ n \in Nat /\ history' = Append(history, r) /\ call' = call
      /\ call[r].kind \in TeamKinds \union {"register"}
  BY CommitFacts, CallFacts DEF IInv, TypeOK
<1>2. /\ Len(history') = n + 1 /\ history'[n + 1] = r
      /\ \A i \in 1..n : history'[i] = history[i]
  BY <1>1
<1>3. Changes(r) <=> call[r].kind \in TeamKinds
  BY <1>1 DEF Changes, TeamKinds
<1>4. ChangesOf(u)' = IF Changes(r) /\ u = call[r].user
                      THEN ChangesOf(u) \union {n + 1} ELSE ChangesOf(u)
  <2>1. ChangesOf(u)' = {i \in 1..(n + 1) : call[history'[i]].kind \in TeamKinds
                                              /\ call[history'[i]].user = u}
    BY <1>1, <1>2 DEF ChangesOf
  <2>2. ChangesOf(u) = {i \in 1..n : call[history[i]].kind \in TeamKinds
                                       /\ call[history[i]].user = u}
    BY DEF ChangesOf
  <2>3. 1..(n + 1) = (1..n) \union {n + 1}
    BY <1>1
  <2> QED
    BY <1>2, <1>3, <2>1, <2>2, <2>3
<1>5. IsFiniteSet(ChangesOf(u)) /\ n + 1 \notin ChangesOf(u)
  <2>1. ChangesOf(u) \subseteq 1..n /\ n + 1 \notin 1..n
    BY <1>1 DEF ChangesOf
  <2>2. IsFiniteSet(1..n)
    BY <1>1, FS_Interval
  <2> QED
    BY <2>1, <2>2, FS_Subset
<1> QED
  BY <1>4, <1>5, FS_AddElement, FS_CardinalityType

\* What the others rely on is still so.
LEMMA CommitOthers ==
  ASSUME IInv, NEW r \in Requests, Commit(r), NEW q \in Requests \ {r}
  PROVE  ReqInv(q)'
<1>1. /\ pc'[q] = pc[q] /\ held'[q] = held[q] /\ seat'[q] = seat[q]
      /\ room'[q] = room[q] /\ team_mode'[q] = team_mode[q]
      /\ gate'[q] = gate[q] /\ uses'[q] = uses[q]
      /\ call' = call /\ revoked' = revoked /\ UNCHANGED <<state, mode>>
  BY CommitFacts DEF Others, event
<1>2. /\ Changes(q)' = Changes(q) /\ HoldsEvent(q)' = HoldsEvent(q) /\ Wanted(q)' = Wanted(q)
  BY <1>1 DEF Changes, HoldsEvent, Wanted
<1>3. Course(q) /\ Relied(q) /\ call[q].user \in Wanted(q) /\ Wanted(q) \subseteq Users
  BY CallFacts DEF IInv, ReqInv
<1>4. Course(q)'
  <2>1. q \in Teams \ {r} /\ (q \in teams' => q \in teams)
    <3>1. q \in Teams /\ (pc[q] # "done" => q \notin teams)
      BY <1>3, CallFacts DEF IInv, Course
    <3>2. teams' \subseteq teams \union {r}
      BY CommitCases DEF Founding, Joining, Leaving, Removing, Transferring, Rotating
    <3> QED
      BY <3>1, <3>2
  <2> QED
    BY <1>1, <1>2, <1>3, <2>1 DEF Course
<1>5. Relied(q)'
  <2>1. CASE ~ HoldsEvent(q)
    BY <1>1, <1>2, <2>1 DEF Relied, HoldsEvent
  <2>2. CASE HoldsEvent(q)
    <3>1. Changes(r) /\ Changes(q)
      BY <2>2, CommitFacts DEF IInv, Exclusive
    <3>2. held[q] \cap held[r] = {} /\ Wanted(r) \subseteq held[r]
      BY <3>1, CommitFacts DEF IInv, Exclusive
    <3>3. active' = active
      BY <3>1, CommitFacts
    <3>4. ASSUME Seated(q) PROVE Seated(q)'
      <4>1. call[q].user \notin Wanted(r) /\ call[q].user \in Users
        BY <1>3, <3>2, <3>4 DEF Seated
      <4>2. call[r].user \in Wanted(r)
        BY CallFacts DEF IInv
      <4>3. ChangesOf(call[q].user)' = ChangesOf(call[q].user)
        <5>1. PICK u \in Users : u = call[q].user /\ u # call[r].user
          BY <4>1, <4>2
        <5>2. ChangesOf(u)' = ChangesOf(u)
          BY <5>1, CommitCounts
        <5> QED
          BY <1>1, <5>1, <5>2 DEF ChangesOf
      <4>4. member'[call[q].user] = member[call[q].user]
        BY <4>1, CommitApart
      <4>5. Entitled(q)' = Entitled(q)
        BY <1>1, <3>3 DEF Entitled
      <4> QED
        BY <1>1, <1>2, <3>4, <4>3, <4>4, <4>5 DEF Seated
    <3>5. ASSUME Seated(q), Roomed(q), pc[q] = "commit" PROVE Roomed(q)'
      <4>1. \A u \in Wanted(q) : member'[u] = member[u] /\ (u \in owners' <=> u \in owners)
        BY <1>3, <3>2, <3>5, CommitApart DEF Seated
      <4>2. room[q] \in Teams /\ room[q] # NoTeam /\ room[q] # r
        BY <3>5, CommitFacts, EnrolmentAssumption DEF Roomed, IInv, TypeOK
      <4>3. room[q] # room[r]
        BY <3>5, <4>2, CommitFacts DEF IInv, Exclusive
      <4>4. /\ Mates(room[q])' = Mates(room[q]) /\ invite'[room[q]] = invite[room[q]]
            /\ room[q] \in teams'
        BY <1>1, <3>5, <4>2, <4>3, CommitApart DEF Roomed, Mates
      <4>5. call[q].kind \in {"transfer", "remove"} => call[q].target \in Wanted(q)
        BY DEF Wanted
      <4> QED
        BY <1>1, <1>3, <3>5, <4>1, <4>4, <4>5 DEF Roomed
    <3> QED
      BY <1>1, <1>2, <1>3, <3>1, <3>4, <3>5 DEF Relied
  <2> QED
    BY <2>1, <2>2
<1> QED
  BY <1>4, <1>5 DEF ReqInv

-----------------------------------------------------------------------------
(* The commit and the roster *)

\* The members of a team, here and in the roster.
LEMMA SameMates ==
  ASSUME NEW t
  PROVE  TeamRoster!Mates(t) = Mates(t) /\ TeamRoster!Mates(t)' = Mates(t)'
BY DEF TeamRoster!Mates, Mates

\* Their number, likewise.
LEMMA SameCardinality ==
  ASSUME NEW S
  PROVE  TeamRoster!Cardinality(S) = Cardinality(S)
BY DEF TeamRoster!Cardinality, Cardinality

\* A step of the roster keeps every team in form.
LEMMA RosterKeepsForm ==
  ASSUME TeamRoster!RosterType, TeamRoster!WellFormed, NEW u \in Users, TeamRoster!Step(u)
  PROVE  TeamRoster!WellFormed'
<1> SUFFICES ASSUME NEW t \in Teams, Mates(t)' # {}
             PROVE  /\ \E w \in Users : Mates(t)' \cap owners' = {w}
                    /\ Cardinality(Mates(t)') <= MaxMembers
  BY SameMates, SameCardinality DEF TeamRoster!WellFormed
<1> DEFINE Good(M, O) == (\E w \in Users : M \cap O = {w}) /\ Cardinality(M) <= MaxMembers
<1>1. /\ NoTeam \notin Teams /\ MaxMembers \in Nat \ {0}
      /\ member \in [Users -> Teams \union {NoTeam}]
      /\ owners \subseteq {w \in Users : member[w] # NoTeam}
      /\ Mates(t) # {} => Good(Mates(t), owners)
  BY EnrolmentAssumption, SameMates, SameCardinality DEF TeamRoster!RosterType, TeamRoster!WellFormed
<1>2. Cardinality({u}) = 1
  BY FS_Singleton
<1>3. CASE Mates(t)' = Mates(t) /\ Mates(t) \cap owners' = Mates(t) \cap owners
  BY <1>1, <1>3
<1>4. ASSUME NEW s \in Teams, TeamRoster!Found(u, s)
      PROVE  Good(Mates(t)', owners')
  <2>1. /\ member[u] = NoTeam /\ member' = [member EXCEPT ![u] = s]
        /\ owners' = owners \union {u} /\ Mates(s) = {}
    BY <1>4, SameMates, SameCardinality DEF TeamRoster!Found
  <2>2. CASE s = t
    <3>1. Mates(t)' = {u}
      BY <1>1, <2>1, <2>2 DEF Mates
    <3> QED
      BY <1>1, <1>2, <2>1, <3>1
  <2>3. CASE s # t
    <3>1. Mates(t)' = Mates(t) /\ u \notin Mates(t)
      BY <1>1, <2>1, <2>3 DEF Mates
    <3> QED
      BY <1>1, <2>1, <3>1
  <2> QED
    BY <2>2, <2>3
<1>5. ASSUME NEW s \in Teams, TeamRoster!Join(u, s)
      PROVE  Good(Mates(t)', owners')
  <2>1. /\ member[u] = NoTeam /\ member' = [member EXCEPT ![u] = s]
        /\ owners' = owners /\ Mates(s) # {} /\ Cardinality(Mates(s)) < MaxMembers
    BY <1>5, SameMates, SameCardinality DEF TeamRoster!Join
  <2>2. CASE s = t
    <3>1. Mates(t)' = Mates(t) \union {u} /\ u \notin owners /\ Mates(t) \subseteq Users
      BY <1>1, <2>1, <2>2 DEF Mates
    <3>2. Cardinality(Mates(t)) \in Nat /\ Cardinality(Mates(t) \union {u}) \in Nat
          /\ Cardinality(Mates(t) \union {u}) <= Cardinality(Mates(t)) + 1
      BY <3>1, UsersFinite, OneMore
    <3>3. Cardinality(Mates(t) \union {u}) <= MaxMembers
      BY <1>1, <2>1, <2>2, <3>2
    <3> QED
      BY <1>1, <2>1, <2>2, <3>1, <3>3
  <2>3. CASE s # t
    <3>1. Mates(t)' = Mates(t)
      BY <1>1, <2>1, <2>3 DEF Mates
    <3> QED
      BY <1>1, <2>1, <3>1
  <2> QED
    BY <2>2, <2>3
\* Whoever goes is not the owner, or was alone.
<1>6. ASSUME NEW v \in Users, member' = [member EXCEPT ![v] = NoTeam], owners' = owners \ {v},
             member[v] # NoTeam, v \in owners => Mates(member[v]) = {v}
      PROVE  Good(Mates(t)', owners')
  <2>1. Mates(t)' = Mates(t) \ {v}
    BY <1>1, <1>6 DEF Mates
  <2>2. v \in Mates(t) => v \notin owners
    BY <1>6, <2>1 DEF Mates
  <2>3. Mates(t)' \cap owners' = Mates(t) \cap owners
    BY <1>6, <2>1, <2>2
  <2>4. Cardinality(Mates(t) \ {v}) <= Cardinality(Mates(t))
        /\ Cardinality(Mates(t)) \in Nat /\ Cardinality(Mates(t) \ {v}) \in Nat
    <3>1. Mates(t) \subseteq Users
      BY DEF Mates
    <3> QED
      BY <3>1, UsersFinite, FS_Subset
  <2> QED
    BY <1>1, <2>1, <2>3, <2>4
<1>7. CASE TeamRoster!Leave(u)
  BY <1>6, <1>7, SameMates, SameCardinality DEF TeamRoster!Leave
<1>8. ASSUME NEW v \in Users, TeamRoster!Remove(u, v)
      PROVE  Good(Mates(t)', owners')
  BY <1>6, <1>8 DEF TeamRoster!Remove
<1>9. ASSUME NEW v \in Users, TeamRoster!Transfer(u, v)
      PROVE  Good(Mates(t)', owners')
  <2>1. /\ member' = member /\ owners' = (owners \ {u}) \union {v}
        /\ u \in owners /\ v \notin owners /\ member[v] = member[u]
    BY <1>9 DEF TeamRoster!Transfer
  <2>2. Mates(t)' = Mates(t) /\ (u \in Mates(t) <=> v \in Mates(t))
    BY <2>1 DEF Mates
  <2>3. CASE u \in Mates(t)
    <3>1. PICK w \in Users : Mates(t) \cap owners = {w}
      BY <1>1, <2>3
    <3>2. Mates(t) \cap owners' = {v}
      BY <2>1, <2>2, <2>3, <3>1
    <3> QED
      BY <1>1, <2>2, <2>3, <3>2
  <2>4. CASE u \notin Mates(t)
    <3>1. Mates(t) \cap owners' = Mates(t) \cap owners
      BY <2>1, <2>2, <2>4
    <3> QED
      BY <1>1, <2>2, <3>1
  <2> QED
    BY <2>3, <2>4
<1> QED
  BY <1>4, <1>5, <1>7, <1>8, <1>9 DEF TeamRoster!Step

\* A commit is a step of the roster, or changes neither members nor owners.
LEMMA CommitIsRosterStep ==
  ASSUME IInv, NEW r \in Requests, Commit(r)
  PROVE  UNCHANGED <<member, owners>> \/ \E u \in Users : TeamRoster!Step(u)
<1> DEFINE u == call[r].user
           v == call[r].target
           t == room[r]
<1>1. /\ u \in Users /\ v \in Users /\ r \in Teams /\ NoTeam \notin Teams
      /\ member \in [Users -> teams \union {NoTeam}] /\ teams \subseteq Teams
      /\ owners \subseteq {w \in Users : member[w] # NoTeam}
      /\ \A s \in teams : Mates(s) # {}
  BY CallFacts, EnrolmentAssumption DEF IInv, TypeOK, People
<1>2. call[r].kind \in {"join", "transfer", "remove", "leave"} => Roomed(r) /\ t \in teams
  BY CommitFacts DEF Roomed, Changes
<1>3. CASE Founding(r)
  <2>1. Mates(r) = {}
    BY <1>1, CommitFacts DEF Mates
  <2>2. TeamRoster!Found(u, r)
    BY <1>1, <1>3, <2>1, SameMates, SameCardinality DEF Founding, TeamRoster!Found
  <2> QED
    BY <1>1, <2>2 DEF TeamRoster!Step
<1>4. CASE call[r].kind = "join" /\ Joining(r)
  <2>1. TeamRoster!Join(u, t)
    BY <1>1, <1>2, <1>4, SameMates, SameCardinality DEF Joining, TeamRoster!Join
  <2> QED
    BY <1>1, <1>2, <1>4, <2>1 DEF TeamRoster!Step
<1>5. CASE call[r].kind = "transfer" /\ Transferring(r)
  <2>1. TeamRoster!Transfer(u, v)
    BY <1>1, <1>2, <1>5 DEF Transferring, Roomed, TeamRoster!Transfer
  <2> QED
    BY <1>1, <2>1 DEF TeamRoster!Step
<1>6. CASE call[r].kind = "remove" /\ Removing(r)
  <2>1. TeamRoster!Remove(u, v)
    BY <1>1, <1>2, <1>6 DEF Removing, Roomed, TeamRoster!Remove
  <2> QED
    BY <1>1, <2>1 DEF TeamRoster!Step
<1>7. CASE call[r].kind = "leave" /\ Leaving(r)
  <2>1. TeamRoster!Leave(u)
    BY <1>1, <1>2, <1>7, SameMates, SameCardinality DEF Leaving, TeamRoster!Leave
  <2> QED
    BY <1>1, <2>1 DEF TeamRoster!Step
<1>8. CASE Rotating(r) \/ UNCHANGED <<member, owners, teams, invite>>
  BY <1>8 DEF Rotating
<1> QED
  BY <1>3, <1>4, <1>5, <1>6, <1>7, <1>8, CommitCases

\* The tables keep their types and the constraints of the database.
LEMMA CommitType ==
  ASSUME IInv, NEW r \in Requests, Commit(r)
  PROVE  TypeOK'
<1> DEFINE u == call[r].user
           v == call[r].target
<1>1. LocalType' /\ UNCHANGED <<call, revoked, event, codes>>
  <2>1. LocalType
    BY DEF IInv, TypeOK, LocalType
  <2>2. /\ pc' = [pc EXCEPT ![r] = "done"] /\ held' = [held EXCEPT ![r] = {}]
        /\ reply' = [reply EXCEPT ![r] = "ok"]
        /\ UNCHANGED <<call, seat, room, team_mode, gate, uses, revoked, event, codes>>
    BY CommitFacts
  <2> QED
    BY <2>1, <2>2 DEF LocalType, Labels
<1>2. /\ u \in Users /\ v \in Users /\ r \in Teams /\ NoTeam \notin Teams
      /\ member \in [Users -> teams \union {NoTeam}] /\ teams \subseteq Teams
      /\ owners \subseteq {w \in Users : member[w] # NoTeam}
      /\ invite \in [Teams -> Teams]
  BY CallFacts, EnrolmentAssumption DEF IInv, TypeOK
<1>3. /\ member' \in [Users -> teams' \union {NoTeam}] /\ teams' \subseteq Teams
      /\ owners' \subseteq {w \in Users : member'[w] # NoTeam}
      /\ invite' \in [Teams -> Teams]
  <2>1. CASE Founding(r)
    BY <1>2, <2>1 DEF Founding
  <2>2. CASE UNCHANGED <<member, owners, teams, invite>>
    BY <1>2, <2>2
  <2>3. CASE call[r].kind = "join" /\ Joining(r)
    <3>1. room[r] \in teams /\ room[r] # NoTeam
      BY <1>2, <2>3, CommitFacts DEF Roomed, Changes
    <3> QED
      BY <1>2, <2>3, <3>1 DEF Joining
  <2>4. CASE Rotating(r)
    BY <1>2, <2>4 DEF Rotating
  <2>5. CASE call[r].kind = "transfer" /\ Transferring(r)
    <3>1. room[r] \in teams
      BY <2>5, CommitFacts DEF Roomed, Changes
    <3> QED
      BY <1>2, <2>5, <3>1 DEF Transferring
  <2>6. CASE Removing(r)
    BY <1>2, <2>6 DEF Removing
  <2>7. CASE Leaving(r)
    <3>1. /\ member' = [member EXCEPT ![u] = NoTeam] /\ owners' = owners \ {u}
          /\ teams' = IF u \in owners THEN teams \ {room[r]} ELSE teams
          /\ u \in owners => \A w \in Users : member[w] = room[r] => w = u
          /\ invite' = invite
      BY <2>7 DEF Leaving, Mates
    <3> QED
      BY <1>2, <3>1
  <2> QED
    BY <2>1, <2>2, <2>3, <2>4, <2>5, <2>6, <2>7, CommitCases
<1>4. registered' \subseteq Users /\ active' \subseteq registered'
  <2>1. registered \subseteq Users /\ active \subseteq registered
    BY DEF IInv, TypeOK
  <2> QED
    BY <1>2, <2>1, CommitFacts
<1>5. use_count' \in [Codes -> Nat] /\ \A c \in Codes : use_count'[c] <= MaxUses[c]
  <2>1. CASE gate[r] = NoCode
    BY <2>1, CommitFacts DEF IInv, TypeOK
  <2>2. CASE gate[r] # NoCode
    <3>1. /\ use_count' = [use_count EXCEPT ![gate[r]] = uses[r] + 1]
          /\ uses[r] = use_count[gate[r]] /\ use_count[gate[r]] < MaxUses[gate[r]]
          /\ gate[r] \in Codes
      BY <2>2, CommitFacts DEF Course, Welcome, IInv, TypeOK
    <3>2. use_count \in [Codes -> Nat] /\ MaxUses \in [Codes -> Nat]
          /\ \A c \in Codes : use_count[c] <= MaxUses[c]
      BY EnrolmentAssumption DEF IInv, TypeOK
    <3> QED
      BY <3>1, <3>2
  <2> QED
    BY <2>1, <2>2
<1>6. history' \in Seq(Requests)
  <2>1. history \in Seq(Requests) /\ history' = Append(history, r)
    BY CommitFacts DEF IInv, TypeOK
  <2> QED
    BY <2>1
<1> QED
  BY <1>1, <1>3, <1>4, <1>5, <1>6 DEF LocalType, TypeOK, IInv, event

\* The rows it held are free.
LEMMA CommitExclusive ==
  ASSUME IInv, NEW r \in Requests, Commit(r)
  PROVE  Exclusive'
<1>1. /\ call' = call /\ room' = room /\ pc'[r] = "done" /\ held'[r] = {}
      /\ \A q \in Requests \ {r} : pc'[q] = pc[q] /\ held'[q] = held[q]
  BY CommitFacts DEF Others, IInv, TypeOK
<1>2. /\ ~ HoldsEvent(r)'
      /\ \A q \in Requests : Changes(q)' = Changes(q)
      /\ \A q \in Requests \ {r} : HoldsEvent(q)' = HoldsEvent(q)
  BY <1>1 DEF HoldsEvent, Changes
<1>3. \A q, s \in Requests : q # s /\ HoldsEvent(q)' /\ HoldsEvent(s)' => Changes(q)' /\ Changes(s)'
  BY <1>2 DEF IInv, Exclusive
<1>4. \A q, s \in Requests : q # s => held'[q] \cap held'[s] = {}
  BY <1>1 DEF IInv, Exclusive
<1>5. \A q, s \in Requests :
        pc'[q] = "commit" /\ pc'[s] = "commit" /\ room'[q] = room'[s] /\ room'[q] # NoTeam => q = s
  BY <1>1 DEF IInv, Exclusive
<1> QED
  BY <1>3, <1>4, <1>5 DEF Exclusive

\* Members are registered, teams have members, one owner and their size.
LEMMA CommitPeople ==
  ASSUME IInv, NEW r \in Requests, Commit(r)
  PROVE  People'
<1> DEFINE u == call[r].user
<1>1. /\ u \in Users /\ r \in Teams /\ NoTeam \notin Teams /\ r \notin teams
      /\ member \in [Users -> teams \union {NoTeam}] /\ teams \subseteq Teams
      /\ owners \subseteq {w \in Users : member[w] # NoTeam} /\ active \subseteq registered
  BY CallFacts, CommitFacts, EnrolmentAssumption DEF IInv, TypeOK
<1>2. registered' = (IF Changes(r) THEN registered ELSE registered \union {u})
      /\ mode' = mode
  BY CommitFacts DEF event
<1>3. Admins \subseteq registered'
  BY <1>2 DEF IInv, People
<1>4. \A w \in Users : member'[w] # NoTeam => w \in registered'
  <2>1. u \in registered'
    BY <1>1, <1>2, CommitFacts DEF Seated, Entitled
  <2>2. \A w \in Users \ {u} : member'[w] # NoTeam => member[w] # NoTeam
    <3>1. CASE Founding(r)
      BY <1>1, <3>1 DEF Founding
    <3>2. CASE Joining(r)
      BY <1>1, <3>2 DEF Joining
    <3>3. CASE Leaving(r)
      BY <1>1, <3>3 DEF Leaving
    <3>4. CASE Removing(r)
      BY <1>1, <3>4 DEF Removing
    <3>5. CASE UNCHANGED member
      BY <3>5
    <3> QED
      BY <3>1, <3>2, <3>3, <3>4, <3>5, CommitCases DEF Rotating, Transferring
  <2> QED
    BY <1>2, <2>1, <2>2 DEF IInv, People
<1>5. TeamRoster!WellFormed'
  <2>1. TeamRoster!RosterType /\ TeamRoster!WellFormed
    BY <1>1 DEF IInv, People, TeamRoster!RosterType
  <2>2. CASE UNCHANGED <<member, owners>>
    <3>1. \A t : Mates(t)' = Mates(t)
      BY <2>2 DEF Mates
    <3> QED
      BY <2>1, <2>2, <3>1, SameMates, SameCardinality DEF TeamRoster!WellFormed
  <2>3. CASE \E w \in Users : TeamRoster!Step(w)
    BY <2>1, <2>3, RosterKeepsForm
  <2> QED
    BY <2>2, <2>3, CommitIsRosterStep
<1>6. \A t \in teams' : Mates(t)' # {}
  <2> SUFFICES ASSUME NEW t \in teams' PROVE Mates(t)' # {}
    OBVIOUS
  <2>1. \A s \in teams : Mates(s) # {}
    BY DEF IInv, People
  <2>2. CASE Founding(r)
    <3>1. Mates(r)' # {} /\ \A s \in teams : Mates(s)' = Mates(s)
      BY <1>1, <2>2 DEF Founding, Mates
    <3> QED
      BY <2>1, <2>2, <3>1 DEF Founding
  <2>3. CASE Joining(r)
    <3>1. \A s \in teams : Mates(s) \subseteq Mates(s)'
      BY <1>1, <2>3 DEF Joining, Mates
    <3> QED
      BY <2>1, <2>3, <3>1 DEF Joining
  <2>4. CASE Removing(r) \/ Leaving(r)
    <3>1. t \in teams /\ t \in Teams
      BY <1>1, <2>4 DEF Removing, Leaving
    <3>2. PICK w \in Users : Mates(t) \cap owners = {w}
      BY <2>1, <3>1, SameMates DEF IInv, People, TeamRoster!WellFormed
    <3>3. CASE Removing(r)
      BY <1>1, <3>2, <3>3 DEF Removing, Mates
    <3>4. CASE Leaving(r)
      <4>1. w # u
        <5> SUFFICES ASSUME w = u PROVE FALSE
          OBVIOUS
        <5>1. member[w] = t /\ w \in owners
          BY <3>2 DEF Mates
        <5> QED
          BY <3>4, <5>1 DEF Leaving
      <4> QED
        BY <1>1, <3>2, <3>4, <4>1 DEF Leaving, Mates
    <3> QED
      BY <2>4, <3>3, <3>4
  <2>5. CASE UNCHANGED <<member, teams>>
    BY <2>1, <2>5 DEF Mates
  <2> QED
    BY <2>2, <2>3, <2>4, <2>5, CommitCases DEF Rotating, Transferring
<1>7. IndividualsAlone'
  <2> SUFFICES ASSUME mode = "individual", NEW w \in Participants'
               PROVE  w \in owners' /\ Mates(member[w])' = {w}
    BY <1>2 DEF IndividualsAlone
  <2>1. call[r].kind = "register" /\ Founding(r)
    <3>1. ~ Changes(r) /\ team_mode[r] = "individual"
      BY CommitFacts
    <3> QED
      BY <3>1, CommitCases DEF Changes, Founds
  <2>2. /\ member' = [member EXCEPT ![u] = r] /\ owners' = owners \union {u}
        /\ member[u] = NoTeam
    BY <2>1 DEF Founding
  <2>3. CASE w = u
    BY <1>1, <2>2, <2>3 DEF Mates
  <2>4. CASE w # u
    <3>1. w \in Participants
      BY <1>2, <2>4 DEF Participants
    <3>2. w \in owners /\ Mates(member[w]) = {w} /\ w \in Users
      BY <3>1 DEF IInv, People, IndividualsAlone, TypeOK, Participants
    <3> QED
      BY <1>1, <2>2, <2>4, <3>2 DEF Mates
  <2> QED
    BY <2>3, <2>4
<1> QED
  BY <1>3, <1>4, <1>5, <1>6, <1>7 DEF People

-----------------------------------------------------------------------------
(* The commit and the past *)

\* The request of the commit becomes the last one.
LEMMA BeforeGrows ==
  ASSUME IInv, NEW r \in Requests, Commit(r), NEW a, NEW b
  PROVE  /\ Before(a, b)' <=> Before(a, b) \/ (b = r /\ \E i \in 1..Len(history) : history[i] = a)
         /\ ~ Before(r, b)
         /\ Before(a, b) => /\ \E i \in 1..Len(history) : history[i] = a
                            /\ \E i \in 1..Len(history) : history[i] = b
         /\ ~ (Before(a, b) /\ Before(b, a))
<1> DEFINE n == Len(history)
<1>1. /\ history \in Seq(Requests) /\ n \in Nat /\ history' = Append(history, r)
      /\ \A i \in 1..n : history[i] # r
  BY CommitFacts DEF IInv, TypeOK
<1>2. /\ Len(history') = n + 1 /\ history'[n + 1] = r
      /\ \A i \in 1..n : history'[i] = history[i]
  BY <1>1
<1>3. \A i, j \in 1..n : history[i] = history[j] => i = j
  BY DEF IInv, Past
<1>4. Before(a, b)' <=> \E i, j \in 1..(n + 1) : i < j /\ history'[i] = a /\ history'[j] = b
  BY <1>2 DEF Before
<1>5. Before(a, b) <=> \E i, j \in 1..n : i < j /\ history[i] = a /\ history[j] = b
  BY DEF Before
<1>6. Before(a, b)' <=> Before(a, b) \/ (b = r /\ \E i \in 1..n : history[i] = a)
  <2>1. ASSUME NEW i \in 1..(n + 1), NEW j \in 1..(n + 1),
               i < j, history'[i] = a, history'[j] = b
        PROVE  Before(a, b) \/ (b = r /\ \E k \in 1..n : history[k] = a)
    <3>1. i \in 1..n /\ (j \in 1..n \/ j = n + 1)
      BY <1>1, <2>1
    <3> QED
      BY <1>2, <1>5, <2>1, <3>1
  <2>2. ASSUME Before(a, b) PROVE Before(a, b)'
    <3>1. PICK i \in 1..n, j \in 1..n : i < j /\ history[i] = a /\ history[j] = b
      BY <1>5, <2>2
    <3>2. i \in 1..(n + 1) /\ j \in 1..(n + 1)
      BY <1>1
    <3> QED
      BY <1>2, <1>4, <3>1, <3>2
  <2>3. ASSUME b = r, NEW k \in 1..n, history[k] = a PROVE Before(a, b)'
    <3>1. k \in 1..(n + 1) /\ n + 1 \in 1..(n + 1) /\ k < n + 1
      BY <1>1
    <3> QED
      BY <1>2, <1>4, <2>3, <3>1
  <2> QED
    BY <1>4, <2>1, <2>2, <2>3
<1>7. ~ Before(r, b)
  BY <1>1 DEF Before
<1>8. ~ (Before(a, b) /\ Before(b, a))
  <2> SUFFICES ASSUME Before(a, b), Before(b, a) PROVE FALSE
    OBVIOUS
  <2>1. PICK i \in 1..n, j \in 1..n : i < j /\ history[i] = a /\ history[j] = b
    BY <1>5
  <2>2. PICK k \in 1..n, l \in 1..n : k < l /\ history[k] = b /\ history[l] = a
    BY DEF Before
  <2>3. i = l /\ j = k
    BY <1>3, <2>1, <2>2
  <2> QED
    BY <1>1, <2>1, <2>2, <2>3
<1> QED
  BY <1>5, <1>6, <1>7, <1>8

\* Invitations stay as young as the removals.
LEMMA CommitInvites ==
  ASSUME IInv, NEW r \in Requests, Commit(r)
  PROVE  /\ \A t \in Teams : invite'[t] = invite[t] \/ invite'[t] = r
         /\ call[r].kind = "remove" => room[r] \in Teams /\ invite'[room[r]] = r
<1>1. invite \in [Teams -> Teams] /\ r \in Teams /\ teams \subseteq Teams
  BY CallFacts DEF IInv, TypeOK
<1>2. ASSUME NEW t \in Teams PROVE invite'[t] = invite[t] \/ invite'[t] = r
  BY <1>1, CommitCases DEF Founding, Joining, Leaving, Removing, Transferring, Rotating
<1>3. ASSUME call[r].kind = "remove" PROVE room[r] \in Teams /\ invite'[room[r]] = r
  <2>1. room[r] \in Teams
    BY <1>1, <1>3, CommitFacts DEF Roomed, Changes
  <2>2. Removing(r)
    BY <1>3, CommitCases DEF Founds
  <2> QED
    BY <1>1, <2>1, <2>2 DEF Removing
<1> QED
  BY <1>2, <1>3

\* Past, after a commit.
LEMMA CommitPast ==
  ASSUME IInv, NEW r \in Requests, Commit(r)
  PROVE  Past'
<1> DEFINE n == Len(history)
           u == call[r].user
<1>1. /\ history \in Seq(Requests) /\ n \in Nat /\ history' = Append(history, r)
      /\ \A i \in 1..n : history[i] \in Requests \ {r}
      /\ call' = call /\ room' = room /\ gate' = gate
      /\ u \in Users
  BY CommitFacts, CallFacts DEF IInv, TypeOK
<1>2. /\ Len(history') = n + 1 /\ history'[n + 1] = r
      /\ \A i \in 1..n : history'[i] = history[i]
      /\ \A i \in 1..(n + 1) : i \in 1..n \/ i = n + 1
      /\ n + 1 \notin 1..n
  BY <1>1
<1>3. \A i \in 1..Len(history)' : pc'[history'[i]] = "done"
  <2>1. pc'[r] = "done" /\ \A q \in Requests \ {r} : pc'[q] = pc[q]
    BY CommitFacts DEF IInv, TypeOK
  <2>2. \A i \in 1..n : pc[history[i]] = "done"
    BY DEF IInv, Past
  <2> QED
    BY <1>1, <1>2, <2>1, <2>2
<1>4. \A i, j \in 1..Len(history)' : history'[i] = history'[j] => i = j
  <2>1. \A i, j \in 1..n : history[i] = history[j] => i = j
    BY DEF IInv, Past
  <2> QED
    BY <1>1, <1>2, <2>1
<1>5. ASSUME NEW i \in 1..Len(history)', NEW q, q = history'[i], call[q].kind = "remove"
      PROVE  room[q] \in Teams /\ (invite'[room[q]] = q \/ Before(q, invite[room[q]])')
  <2>1. CASE i = n + 1
    BY <1>2, <1>5, <2>1, CommitInvites
  <2>2. CASE i \in 1..n
    <3>1. /\ q = history[i] /\ room[q] \in Teams
          /\ invite[room[q]] = q \/ Before(q, invite[room[q]])
      BY <1>2, <1>5, <2>2 DEF IInv, Past
    <3>2. PICK x : x = invite'[room[q]]
      OBVIOUS
    <3>3. x = invite[room[q]] \/ x = r
      BY <3>1, <3>2, CommitInvites
    <3>4. x = q \/ Before(q, x)'
      BY <2>2, <3>1, <3>3, BeforeGrows
    <3>5. Before(q, invite[room[q]])' <=> Before(q, x)'
      BY <1>1, <3>2 DEF Before
    <3> QED
      BY <3>1, <3>2, <3>4, <3>5
  <2> QED
    BY <1>2, <2>1, <2>2
<1>6. RemovedStayOut'
  <2> SUFFICES ASSUME NEW q \in Requests, NEW s \in Requests,
                      call[q].kind = "remove", call[s].kind = "join",
                      call[q].target = call[s].user, room[q] = room[s], Before(q, s)'
               PROVE  call[s].invite \notin FirstTeams /\ ~ Before(call[s].invite, q)'
    BY <1>1 DEF RemovedStayOut, Before
  <2>1. PICK x : x = call[s].invite
    OBVIOUS
  <2>2. q # r /\ \E i \in 1..n : history[i] = q
    BY <1>1, BeforeGrows
  <2>3. x \notin FirstTeams /\ ~ Before(x, q)
    <3>1. CASE Before(q, s)
      BY <2>1, <3>1 DEF IInv, Past, RemovedStayOut
    <3>2. CASE s = r
      <4>1. invite[room[r]] = x
        BY <2>1, <3>2, CommitFacts DEF Roomed, Changes
      <4>2. x = q \/ Before(q, x)
        BY <2>2, <3>2, <4>1 DEF IInv, Past
      <4>3. x \in Requests
        <5>1. CASE x = q
          BY <5>1
        <5>2. CASE Before(q, x)
          BY <1>1, <5>2, BeforeGrows
        <5> QED
          BY <4>2, <5>1, <5>2
      <4> QED
        BY <4>2, <4>3, BeforeGrows, EnrolmentAssumption
    <3> QED
      BY <3>1, <3>2, BeforeGrows
  <2>4. ~ Before(x, q)'
    BY <2>2, <2>3, BeforeGrows
  <2>5. Before(call[s].invite, q)' <=> Before(x, q)'
    BY <1>1, <2>1 DEF Before
  <2> QED
    BY <2>1, <2>3, <2>4, <2>5
<1>7. SeatsAndUsesCapped'
  <2>1. Cardinality(Participants') <= MaxParticipants
    <3>1. Cardinality(Participants) <= MaxParticipants /\ Admins \subseteq registered
          /\ registered \subseteq Users /\ Participants \subseteq Users
      BY DEF IInv, Past, People, SeatsAndUsesCapped, TypeOK, Participants
    <3>2. CASE Changes(r)
      <4>1. Participants' = Participants
        BY <3>2, CommitFacts DEF Participants
      <4> QED
        BY <3>1, <4>1
    <3>3. CASE ~ Changes(r)
      <4>1. Participants' = Participants \union {u}
            /\ Cardinality(Participants) < MaxParticipants
        <5>1. u \notin registered /\ Cardinality(Participants) < MaxParticipants
              /\ registered' = registered \union {u}
          BY <3>3, CommitFacts DEF Welcome
        <5> QED
          BY <3>1, <5>1 DEF Participants
      <4>2. Cardinality(Participants) \in Nat
            /\ Cardinality(Participants \union {u}) \in Nat
            /\ Cardinality(Participants \union {u}) <= Cardinality(Participants) + 1
        BY <3>1, UsersFinite, OneMore
      <4> QED
        BY <4>1, <4>2, EnrolmentAssumption
    <3> QED
      BY <3>2, <3>3
  <2>2. ASSUME NEW c \in Codes
        PROVE  use_count'[c] = Cardinality({i \in Registrations : gate[history[i]] = c}')
    <3> DEFINE S == {i \in Registrations : gate[history[i]] = c}
    <3>1. use_count[c] = Cardinality(S)
      BY DEF IInv, Past, SeatsAndUsesCapped
    <3>2. S' = IF ~ Changes(r) /\ gate[r] = c THEN S \union {n + 1} ELSE S
      <4>1. \A q : Changes(q)' = Changes(q)
        BY <1>1 DEF Changes
      <4>2. S' = {i \in 1..(n + 1) : ~ Changes(history'[i]) /\ gate[history'[i]] = c}
        BY <1>1, <1>2, <4>1 DEF Registrations, Changes
      <4>3. S = {i \in 1..n : ~ Changes(history[i]) /\ gate[history[i]] = c}
        BY DEF Registrations
      <4>4. 1..(n + 1) = (1..n) \union {n + 1}
        BY <1>1
      <4> HIDE DEF S
      <4> QED
        BY <1>2, <4>2, <4>3, <4>4
    <3>3. IsFiniteSet(S) /\ n + 1 \notin S
      <4>1. S \subseteq 1..n
        BY DEF Registrations
      <4>2. IsFiniteSet(1..n)
        BY <1>1, FS_Interval
      <4> QED
        BY <1>2, <4>1, <4>2, FS_Subset
    <3> HIDE DEF S
    <3>4. use_count'[c] = IF ~ Changes(r) /\ gate[r] = c THEN use_count[c] + 1 ELSE use_count[c]
      <4>1. use_count \in [Codes -> Nat] /\ NoCode \notin Codes
        BY EnrolmentAssumption DEF IInv, TypeOK
      <4>2. /\ Changes(r) => gate[r] = NoCode
            /\ ~ Changes(r) /\ gate[r] # NoCode => uses[r] = use_count[gate[r]]
            /\ use_count' = IF gate[r] = NoCode THEN use_count
                            ELSE [use_count EXCEPT ![gate[r]] = uses[r] + 1]
        BY CommitFacts DEF Course, Welcome
      <4> QED
        BY <4>1, <4>2
    <3>5. Cardinality(S \union {n + 1}) = Cardinality(S) + 1
      BY <3>3, FS_AddElement
    <3>6. use_count'[c] = Cardinality(S')
      BY <3>1, <3>2, <3>4, <3>5
    <3> QED
      BY <3>6 DEF S
  <2> QED
    BY <2>1, <2>2 DEF SeatsAndUsesCapped
<1>8. ChangesCapped'
  <2> SUFFICES ASSUME NEW w \in Users PROVE Cardinality(ChangesOf(w)') <= MaxChanges
    BY DEF ChangesCapped
  <2>1. Cardinality(ChangesOf(w)) <= MaxChanges
    BY DEF IInv, Past, ChangesCapped
  <2>2. CASE Changes(r) /\ w = u
    <3>1. Cardinality(ChangesOf(w)) < MaxChanges
      BY <2>2, CommitFacts DEF Seated
    <3>2. Cardinality(ChangesOf(w)') = Cardinality(ChangesOf(w)) + 1
          /\ Cardinality(ChangesOf(w)) \in Nat
      BY <2>2, CommitCounts
    <3> QED
      BY <3>1, <3>2, EnrolmentAssumption
  <2>3. CASE ~ (Changes(r) /\ w = u)
    <3>1. ChangesOf(w)' = ChangesOf(w)
      BY <2>3, CommitCounts
    <3> QED
      BY <2>1, <3>1
  <2> QED
    BY <2>2, <2>3
<1> QED
  BY <1>1, <1>3, <1>4, <1>5, <1>6, <1>7, <1>8 DEF Past

\* A commit keeps the invariant.
LEMMA CommitKeeps ==
  ASSUME IInv, NEW r \in Requests, Commit(r)
  PROVE  IInv'
<1>1. ReqInv(r)'
  <2>1. /\ pc'[r] = "done" /\ held'[r] = {}
        /\ UNCHANGED <<call, room, gate>> /\ Course(r)
    BY CommitFacts DEF IInv, TypeOK
  <2>2. Changes(r)' = Changes(r) /\ ~ HoldsEvent(r)'
    BY <2>1 DEF Changes, HoldsEvent
  <2>3. Course(r)'
    BY <2>1, <2>2 DEF Course
  <2>4. Relied(r)'
    BY <2>1, <2>2 DEF Relied
  <2> QED
    BY <2>3, <2>4 DEF ReqInv
<1>2. \A q \in Requests : ReqInv(q)'
  BY <1>1, CommitOthers
<1> QED
  BY <1>2, CommitType, CommitExclusive, CommitPeople, CommitPast DEF IInv

-----------------------------------------------------------------------------
(* The administrators and the clock *)

\* They leave alone what a request holds.
LEMMA AdministerApart ==
  ASSUME IInv, Administer
  PROVE  /\ Untouched
         /\ \A q \in Requests : HoldsEvent(q) => state' = state /\ mode' = mode
         /\ \A q \in Requests : call[q].user \in held[q] => Entitled(q)' = Entitled(q)
         /\ mode' # mode => Participants = {}
         /\ TypeOK'
<1>1. Untouched
  BY DEF Administer, AdvanceEvent, SetTeamMode, SetAccess, ClockTick, ChangeCode, SetStatus,
     RotateCredentials
<1>2. \A q \in Requests : HoldsEvent(q) => state' = state /\ mode' = mode
  BY DEF Administer, AdvanceEvent, SetTeamMode, SetAccess, ClockTick, ChangeCode, SetStatus,
     RotateCredentials, EventFree, event
<1>3. ASSUME NEW q \in Requests, call[q].user \in held[q]
      PROVE  Entitled(q)' = Entitled(q)
  <2>1. call' = call
    BY <1>1 DEF Untouched
  <2>2. CASE UNCHANGED <<active, revoked>>
    BY <2>1, <2>2 DEF Entitled
  <2>3. ASSUME NEW u \in Users, SetStatus(u) \/ RotateCredentials(u)
        PROVE  Entitled(q)' = Entitled(q)
    <3>1. u # call[q].user
      BY <1>3, <2>3 DEF SetStatus, RotateCredentials, UserFree
    <3>2. q \notin InFlightOf(u)
      BY <3>1 DEF InFlightOf
    <3>3. call[q].user \in active' <=> call[q].user \in active
      BY <2>3, <3>1 DEF SetStatus, RotateCredentials
    <3>4. q \in revoked' <=> q \in revoked
      BY <2>3, <3>2 DEF SetStatus, RotateCredentials
    <3> QED
      BY <2>1, <3>3, <3>4 DEF Entitled
  <2> QED
    BY <2>2, <2>3 DEF Administer, AdvanceEvent, SetTeamMode, SetAccess, ClockTick, ChangeCode
<1>4. mode' # mode => Participants = {}
  BY DEF Administer, AdvanceEvent, SetTeamMode, SetAccess, ClockTick, ChangeCode, SetStatus,
     RotateCredentials, event
<1>5. TypeOK'
  <2>1. /\ state' \in {"draft", "registration", "live"}
        /\ mode' \in {"team", "individual"} /\ access' \in {"open", "code"}
        /\ window' \in {"before", "open", "over"}
    BY DEF IInv, TypeOK, Administer, AdvanceEvent, SetTeamMode, SetAccess, ClockTick, ChangeCode,
       SetStatus, RotateCredentials, event
  <2>2. active' \subseteq registered /\ revoked' \subseteq Requests
    <3>1. /\ active \subseteq registered /\ revoked \subseteq Requests
          /\ Participants \subseteq registered /\ \A u : InFlightOf(u) \subseteq Requests
      BY DEF IInv, TypeOK, Participants, InFlightOf
    <3> QED
      BY <3>1 DEF Administer, AdvanceEvent, SetTeamMode, SetAccess, ClockTick, ChangeCode,
         SetStatus, RotateCredentials
  <2>3. codes' \in [Codes -> {"absent", "good", "revoked", "expired"}]
    BY DEF IInv, TypeOK, Administer, AdvanceEvent, SetTeamMode, SetAccess, ClockTick, ChangeCode,
       SetStatus, RotateCredentials
  <2> QED
    BY <1>1, <2>1, <2>2, <2>3 DEF IInv, TypeOK, Untouched, local
<1> QED
  BY <1>1, <1>2, <1>3, <1>4, <1>5

LEMMA AdministerKeeps ==
  ASSUME IInv, Administer
  PROVE  IInv'
<1>1. /\ UNCHANGED <<pc, call, held, seat, room, team_mode, gate, uses, registered, member,
                     owners, teams, invite, use_count, history>>
      /\ \A q \in Requests : HoldsEvent(q) => state' = state /\ mode' = mode
      /\ \A q \in Requests : call[q].user \in held[q] => Entitled(q)' = Entitled(q)
      /\ mode' # mode => Participants = {}
      /\ TypeOK'
  BY AdministerApart DEF Untouched, local
<1>2. /\ \A q : Changes(q)' = Changes(q) /\ HoldsEvent(q)' = HoldsEvent(q)
      /\ \A q : Wanted(q)' = Wanted(q)
      /\ \A t : Mates(t)' = Mates(t)
      /\ \A u : ChangesOf(u)' = ChangesOf(u)
      /\ \A q, s : Before(q, s)' = Before(q, s)
      /\ Participants' = Participants /\ Registrations' = Registrations
  BY <1>1 DEF Changes, HoldsEvent, Wanted, Mates, ChangesOf, Before, Participants, Registrations
<1>3. Exclusive'
  BY <1>1, <1>2 DEF IInv, Exclusive
<1>4. People'
  <2>1. IndividualsAlone'
    BY <1>1, <1>2 DEF IInv, People, IndividualsAlone
  <2>2. TeamRoster!WellFormed'
    BY <1>1, <1>2, SameMates, SameCardinality DEF IInv, People, TeamRoster!WellFormed
  <2> QED
    BY <1>1, <1>2, <2>1, <2>2 DEF IInv, People
<1>5. Past'
  BY <1>1, <1>2 DEF IInv, Past, RemovedStayOut, SeatsAndUsesCapped, ChangesCapped
<1>6. ASSUME NEW q \in Requests PROVE ReqInv(q)'
  <2>1. Course(q) /\ Relied(q) /\ call[q].user \in Wanted(q)
    BY CallFacts DEF IInv, ReqInv
  <2>2. Course(q)'
    BY <1>1, <1>2, <2>1 DEF Course
  <2>3. Seated(q) => Seated(q)'
    BY <1>1, <1>2, <2>1 DEF Seated
  <2>4. Roomed(q)' = Roomed(q)
    BY <1>1, <1>2 DEF Roomed
  <2>5. Welcome(q)' = Welcome(q)
    BY <1>1, <1>2 DEF Welcome
  <2>6. Relied(q)'
    BY <1>1, <1>2, <2>1, <2>3, <2>4, <2>5 DEF Relied
  <2> QED
    BY <2>2, <2>6 DEF ReqInv
<1> QED
  BY <1>1, <1>3, <1>4, <1>5, <1>6 DEF IInv

-----------------------------------------------------------------------------
(* The invariant holds *)

\* To begin with, nobody has asked for anything.
LEMMA InitHolds == Init => IInv
<1> SUFFICES ASSUME Init PROVE IInv
  OBVIOUS
<1>1. PICK w \in Worlds :
        /\ member = w.member /\ owners = w.owners /\ teams = w.teams
        /\ registered = Admins \union {u \in Users : w.member[u] # NoTeam} \union w.alone
  BY DEF Init
<1>2. /\ w.teams \subseteq FirstTeams /\ w.member \in [Users -> w.teams \union {NoTeam}]
      /\ w.owners \subseteq {u \in Users : w.member[u] # NoTeam}
      /\ w.alone \subseteq {u \in Users : w.member[u] = NoTeam}
      /\ \A t \in w.teams :
           /\ Cardinality({u \in Users : w.member[u] = t}) <= MaxMembers
           /\ \E u \in Users : {v \in Users : w.member[v] = t} \cap w.owners = {u}
      /\ Cardinality({u \in Users : w.member[u] # NoTeam} \union w.alone) <= MaxParticipants
      /\ Admins \subseteq Users /\ NoTeam \notin Teams /\ FirstTeams \cap Requests = {}
  BY EnrolmentAssumption
<1>3. /\ pc = [r \in Requests |-> "arrive"] /\ held = [r \in Requests |-> {}]
      /\ seat = [r \in Requests |-> NoTeam] /\ room = [r \in Requests |-> NoTeam]
      /\ team_mode = [r \in Requests |-> "team"]
      /\ gate = [r \in Requests |-> NoCode] /\ uses = [r \in Requests |-> 0]
      /\ reply = [r \in Requests |-> "none"] /\ call \in [Requests -> Calls]
      /\ active = registered /\ revoked = {} /\ invite = [t \in Teams |-> t]
      /\ use_count = [c \in Codes |-> 0] /\ history = <<>>
      /\ mode = "individual" => Participants = {}
  BY DEF Init
<1>4. TypeOK
  <2>1. registered \subseteq Users /\ teams \subseteq Teams
    BY <1>1, <1>2 DEF Teams
  <2>2. use_count \in [Codes -> Nat] /\ \A c \in Codes : use_count[c] <= MaxUses[c]
    BY <1>3, EnrolmentAssumption
  <2>3. /\ state \in {"draft", "registration", "live"}
        /\ mode \in {"team", "individual"} /\ access \in {"open", "code"}
        /\ window \in {"before", "open", "over"}
        /\ codes \in [Codes -> {"absent", "good", "revoked", "expired"}]
    BY DEF Init
  <2> QED
    BY <1>1, <1>2, <1>3, <2>1, <2>2, <2>3 DEF TypeOK, Labels
<1>5. Exclusive
  BY <1>3 DEF Exclusive, HoldsEvent
<1>6. People
  <2>1. \A t \in Teams : Mates(t) # {} => t \in teams
    BY <1>1, <1>2 DEF Mates
  <2>2. \A t : Mates(t) = {u \in Users : w.member[u] = t}
    BY <1>1 DEF Mates
  <2>3. \A t \in teams : /\ Cardinality(Mates(t)) <= MaxMembers
                         /\ \E u \in Users : Mates(t) \cap owners = {u}
    BY <1>1, <1>2, <2>2
  <2>4. TeamRoster!WellFormed
    BY <2>1, <2>3, SameMates, SameCardinality DEF TeamRoster!WellFormed
  <2>5. IndividualsAlone
    BY <1>3 DEF IndividualsAlone
  <2> QED
    BY <1>1, <1>2, <2>3, <2>4, <2>5 DEF People
<1>7. Past
  <2>1. Len(history) = 0 /\ 1..Len(history) = {}
    BY <1>3
  <2>2. RemovedStayOut
    BY <2>1 DEF RemovedStayOut, Before
  <2>3. SeatsAndUsesCapped
    <3> DEFINE M == {u \in Users : w.member[u] # NoTeam} \union w.alone
    <3>1. Participants \subseteq M /\ M \subseteq Users
      BY <1>1, <1>2 DEF Participants
    <3>2. Cardinality(M) <= MaxParticipants
      BY <1>2
    <3> HIDE DEF M
    <3>3. /\ Cardinality(Participants) <= Cardinality(M)
          /\ Cardinality(Participants) \in Nat /\ Cardinality(M) \in Nat
      BY <3>1, UsersFinite, FS_Subset
    <3>4. Cardinality(Participants) <= MaxParticipants
      BY <3>2, <3>3, EnrolmentAssumption
    <3>5. Registrations = {}
      BY <2>1 DEF Registrations
    <3>6. \A c \in Codes : {i \in Registrations : gate[history[i]] = c} = {}
      BY <3>5
    <3> QED
      BY <1>3, <3>4, <3>6, FS_EmptySet DEF SeatsAndUsesCapped
  <2>4. ChangesCapped
    <3>1. \A u : ChangesOf(u) = {}
      BY <2>1 DEF ChangesOf
    <3>2. Cardinality({}) = 0 /\ MaxChanges \in Nat
      BY FS_EmptySet, EnrolmentAssumption
    <3>3. \A u : Cardinality(ChangesOf(u)) <= MaxChanges
      BY <3>1, <3>2
    <3> QED
      BY <3>3 DEF ChangesCapped
  <2> QED
    BY <2>1, <2>2, <2>3, <2>4 DEF Past
<1>8. ASSUME NEW r \in Requests PROVE ReqInv(r)
  <2>1. pc[r] = "arrive" /\ held[r] = {} /\ gate[r] = NoCode /\ room[r] = NoTeam
    BY <1>3
  <2>2. r \notin teams
    BY <1>1, <1>2
  <2>3. Course(r)
    BY <2>1, <2>2 DEF Course, HoldsEvent
  <2>4. Relied(r)
    BY <2>1 DEF Relied, HoldsEvent
  <2> QED
    BY <2>3, <2>4 DEF ReqInv
<1> QED
  BY <1>4, <1>5, <1>6, <1>7, <1>8 DEF IInv

\* Every step keeps it.
LEMMA NextKeeps == IInv /\ [Next]_vars => IInv'
<1> SUFFICES ASSUME IInv, [Next]_vars PROVE IInv'
  OBVIOUS
<1>1. ASSUME NEW r \in Requests, Step(r) PROVE IInv'
  BY <1>1, ArriveKeeps, LockEventKeeps, LockCodeKeeps, LockUserKeeps, CheckActorKeeps,
     LockMembershipKeeps, CreateKeeps, LockTeamKeeps, CommitKeeps DEF Step
<1>2. ASSUME NEW r \in Requests, Abort(r) PROVE IInv'
  BY <1>2, RefuseKeeps DEF Abort
<1>3. CASE Administer
  BY <1>3, AdministerKeeps
<1>4. CASE UNCHANGED vars
  <2>1. UNCHANGED <<pc, call, held, seat, room, team_mode, gate, uses, reply, registered, active,
                    revoked, member, owners, teams, invite, state, mode, access, window, codes,
                    use_count, history>>
    BY <1>4 DEF vars
  <2>2. TypeOK' /\ Exclusive'
    BY <2>1 DEF IInv, TypeOK, Exclusive, HoldsEvent, Changes
  <2>3. /\ \A q : Changes(q)' = Changes(q) /\ HoldsEvent(q)' = HoldsEvent(q)
        /\ \A q : Wanted(q)' = Wanted(q) /\ Entitled(q)' = Entitled(q)
        /\ \A t : Mates(t)' = Mates(t)
        /\ \A u : ChangesOf(u)' = ChangesOf(u)
        /\ \A q, s : Before(q, s)' = Before(q, s)
        /\ Participants' = Participants /\ Registrations' = Registrations
    BY <2>1 DEF Changes, HoldsEvent, Wanted, Entitled, Mates, ChangesOf, Before, Participants,
       Registrations
  <2>4. People'
    BY <2>1, <2>3, SameMates, SameCardinality
       DEF IInv, People, IndividualsAlone, TeamRoster!WellFormed
  <2>5. Past'
    BY <2>1, <2>3 DEF IInv, Past, RemovedStayOut, SeatsAndUsesCapped, ChangesCapped
  <2>6. ASSUME NEW q \in Requests PROVE ReqInv(q)'
    <3>1. Course(q)' /\ (Seated(q)' <=> Seated(q)) /\ (Roomed(q)' <=> Roomed(q))
          /\ (Welcome(q)' <=> Welcome(q))
      BY <2>1, <2>3 DEF IInv, ReqInv, Course, Seated, Roomed, Welcome
    <3> QED
      BY <2>1, <2>3, <3>1 DEF IInv, ReqInv, Relied
  <2> QED
    BY <2>2, <2>4, <2>5, <2>6 DEF IInv
<1> QED
  BY <1>1, <1>2, <1>3, <1>4 DEF Next

LEMMA Inductive == Spec => []IInv
BY InitHolds, NextKeeps, PTL DEF Spec

-----------------------------------------------------------------------------
(* What follows *)

(***************************************************************************)
(* Every variable of Enrolment keeps its type: memberships refer to teams  *)
(* that exist and no code is used more often than max_uses.                *)
(***************************************************************************)
THEOREM TypeCorrect == Spec => []TypeOK
BY Inductive, PTL DEF IInv

(***************************************************************************)
(* However many registrations race for them, the last use of a code and    *)
(* the last seat go to one, because register looks again under the Event   *)
(* and code locks.                                                         *)
(***************************************************************************)
THEOREM SeatsAndUsesStayCapped == Spec => []SeatsAndUsesCapped
<1>1. IInv => SeatsAndUsesCapped
  BY DEF IInv, Past
<1> QED
  BY <1>1, Inductive, PTL

(***************************************************************************)
(* In individual mode every participant owns a team of one, because        *)
(* update_event changes the mode only before there are participants.       *)
(***************************************************************************)
THEOREM IndividualsStayAlone == Spec => []IndividualsAlone
<1>1. IInv => IndividualsAlone
  BY DEF IInv, People
<1> QED
  BY <1>1, Inductive, PTL

(***************************************************************************)
(* A removed member comes back only by an invitation of the removal, or of *)
(* a later one: remove_member rotates the code, and invitations only get   *)
(* younger.                                                                *)
(***************************************************************************)
THEOREM RemovalsLast == Spec => []RemovedStayOut
<1>1. IInv => RemovedStayOut
  BY DEF IInv, Past
<1> QED
  BY <1>1, Inductive, PTL

(***************************************************************************)
(* The lifetime limit on team changes is exact, because the audit rows are *)
(* counted under the lock on the User that every change of his takes.      *)
(***************************************************************************)
THEOREM ChangesStayCapped == Spec => []ChangesCapped
<1>1. IInv => ChangesCapped
  BY DEF IInv, Past
<1> QED
  BY <1>1, Inductive, PTL

(***************************************************************************)
(* Whoever commits a team change is active and has not lost his            *)
(* credentials since the request was admitted, and the event is still in   *)
(* registration, because the rows that say so stay locked.                 *)
(***************************************************************************)
THEOREM OnlyTheEntitledEnrol == Spec => EnrolledByTheEntitled
<1>1. ASSUME IInv, [Next]_vars, NEW r \in Requests, history' = Append(history, r)
      PROVE  state = "registration" /\ (Changes(r) => Entitled(r))
  <2>1. history \in Seq(Requests)
    BY <1>1 DEF IInv, TypeOK
  <2>2. history' # history
    BY <1>1, <2>1
  <2>3. PICK q \in Requests : Commit(q)
    BY <1>1, <2>2 DEF Next, Step, Arrive, LockEvent, LockCode, LockUser, CheckActor,
       LockMembership, CheckName, FlushTeam, LockTeam, Abort, Refuse, Proceed, tables,
       Administer, AdvanceEvent, SetTeamMode, SetAccess, ClockTick, ChangeCode, SetStatus,
       RotateCredentials, Untouched, vars
  <2>4. history' = Append(history, q)
    BY <1>1, <2>3, CommitFacts
  <2>5. q = r
    <3>1. \A s \in Requests : Append(history, s)[Len(history) + 1] = s
      BY <2>1
    <3> QED
      BY <1>1, <2>4, <3>1
  <2> QED
    BY <1>1, <2>3, <2>5, CommitFacts DEF Seated
<1>2. IInv /\ [Next]_vars
        => [\A r \in Requests :
              history' = Append(history, r)
                => state = "registration" /\ (Changes(r) => Entitled(r))]_vars
  BY <1>1
<1> QED
  BY <1>2, Inductive, PTL DEF Spec, EnrolledByTheEntitled

(***************************************************************************)
(* Whatever the interleaving, the teams that registrations and team        *)
(* changes make are those of the roster: each has one owner, none is over  *)
(* its size, and memberships change one at a time.                         *)
(***************************************************************************)
THEOREM TeamsFollowTheRoster == Spec => RosterImplemented
<1>1. IInv => TeamRoster!RosterType /\ TeamRoster!WellFormed
  <2> SUFFICES ASSUME IInv PROVE TeamRoster!RosterType /\ TeamRoster!WellFormed
    OBVIOUS
  <2>1. /\ member \in [Users -> teams \union {NoTeam}] /\ teams \subseteq Teams
        /\ owners \subseteq {u \in Users : member[u] # NoTeam}
    BY DEF IInv, TypeOK
  <2> QED
    BY <2>1 DEF IInv, People, TeamRoster!RosterType
<1>2. Init => TeamRoster!Init
  BY <1>1, InitHolds DEF TeamRoster!Init
<1>3. IInv /\ [Next]_vars => [TeamRoster!Next]_(TeamRoster!roster)
  <2> SUFFICES ASSUME IInv, [Next]_vars, ~ UNCHANGED <<member, owners>>
               PROVE  TeamRoster!Next
    BY DEF TeamRoster!roster
  <2>1. PICK r \in Requests : Commit(r)
    BY DEF Next, Step, Arrive, LockEvent, LockCode, LockUser, CheckActor, LockMembership,
       CheckName, FlushTeam, LockTeam, Abort, Refuse, Answer, Proceed, tables, Administer,
       AdvanceEvent, SetTeamMode, SetAccess, ClockTick, ChangeCode, SetStatus,
       RotateCredentials, Untouched, vars
  <2>2. \E u \in Users : TeamRoster!Step(u)
    BY <2>1, CommitIsRosterStep
  <2>3. TeamRoster!roster' # TeamRoster!roster
    BY DEF TeamRoster!roster
  <2> QED
    BY <2>2, <2>3 DEF TeamRoster!Next
<1> QED
  BY <1>2, <1>3, Inductive, PTL DEF Spec, RosterImplemented, TeamRoster!Spec

-----------------------------------------------------------------------------
(* Who waits for whom *)

\* The User rows a request holds come before those it has yet to lock.
Ordered ==
  \A r \in Requests :
    pc[r] = "user" => \A u \in held[r], v \in Wanted(r) \ held[r] : u < v

\* Every step keeps the order of the User rows.
LEMMA OrderedStep ==
  ASSUME IInv, Ordered, [Next]_vars
  PROVE  Ordered'
<1> USE DEF Ordered
<1> SUFFICES ASSUME NEW r \in Requests, pc'[r] = "user"
             PROVE  \A u \in held'[r], v \in Wanted(r)' \ held'[r] : u < v
  OBVIOUS
<1>1. call' = call /\ Wanted(r)' = Wanted(r) /\ Wanted(r) \subseteq Nat
  <2>1. call' = call
    BY DEF Next, Step, Administer, Abort, Refuse, Answer, Proceed, Untouched, vars, Arrive,
           LockEvent, LockCode, LockUser, CheckActor, LockMembership, CheckName, FlushTeam,
           LockTeam, Commit, AdvanceEvent, SetTeamMode, SetAccess, ClockTick, ChangeCode,
           SetStatus, RotateCredentials
  <2>2. Wanted(r) \subseteq Users
    BY CallFacts DEF IInv
  <2> QED
    BY <2>1, <2>2, EnrolmentAssumption DEF Wanted
<1>2. pc \in [Requests -> Labels] /\ held \in [Requests -> SUBSET Users]
  BY DEF IInv, TypeOK
<1>3. ASSUME pc[r] = "user", held'[r] = held[r]
      PROVE  \A u \in held'[r], v \in Wanted(r)' \ held'[r] : u < v
  BY <1>1, <1>3
<1>4. CASE UNCHANGED vars \/ Administer
  BY <1>3, <1>4 DEF vars, Administer, Untouched, local, AdvanceEvent, SetTeamMode, SetAccess,
                    ClockTick, ChangeCode, SetStatus, RotateCredentials
<1>5. ASSUME NEW q \in Requests, Step(q) \/ Abort(q), q # r
      PROVE  pc[r] = "user" /\ held'[r] = held[r]
  BY <1>2, <1>5 DEF Step, Abort, Refuse, Answer, Proceed, Arrive, LockEvent, LockCode, LockUser,
                    CheckActor, LockMembership, CheckName, FlushTeam, LockTeam, Commit, local
<1>6. CASE LockUser(r)
  <2>1. PICK w \in NextUser(r) : pc[r] = "user" /\ held' = [held EXCEPT ![r] = @ \union {w}]
    BY <1>6 DEF LockUser, Proceed
  <2>2. held'[r] = held[r] \union {w}
    BY <1>2, <2>1
  <2>3. \A v \in Wanted(r) \ held'[r] : w < v
    BY <1>1, <2>1, <2>2 DEF NextUser
  <2> QED
    BY <1>1, <2>1, <2>2, <2>3
<1>7. CASE LockEvent(r)
  <2>1. pc[r] = "event" /\ held' = held
    BY <1>2, <1>7 DEF LockEvent, Proceed, Refuse, Answer, local
  <2>2. held[r] = {}
    BY <2>1 DEF IInv, ReqInv, Course, HoldsEvent
  <2> QED
    BY <2>1, <2>2
<1>8. ASSUME Step(r) \/ Abort(r) PROVE LockUser(r) \/ LockEvent(r)
  BY <1>2, <1>8 DEF Step, Abort, Refuse, Answer, Proceed, Arrive, LockCode, CheckActor,
                    LockMembership, CheckName, FlushTeam, LockTeam, Commit
<1> QED
  BY <1>4, <1>3, <1>5, <1>6, <1>7, <1>8 DEF Next

\* Who waits does so before its commit, for a request in flight that has come
\* further: to its commit, or to its users, from among whom it holds a later one.
LEMMA WaitsForward ==
  ASSUME IInv, Ordered, NEW r \in Requests, NEW q \in Requests, WaitsFor(r, q)
  PROVE  /\ pc[r] # "commit"
         /\ pc[q] \notin {"arrive", "event", "done"}
         /\ pc[r] \in {"event", "user"} \/ pc[q] = "commit"
         /\ pc[r] = "user" => \E u \in NextUser(r) : u \in held[q]
<1>1. pc[r] # "commit"
  BY DEF WaitsFor
<1>2. held[q] # {} => HoldsEvent(q)
  BY DEF IInv, ReqInv, Course
<1> QED
  BY <1>1, <1>2 DEF WaitsFor, HoldsEvent

\* The order of the locks leaves no circle.
LEMMA NoCircle ==
  ASSUME IInv, Ordered
  PROVE  NoCircularWait
<1>1. \A r, q \in Requests : WaitsFor(r, q) => pc[q] \notin {"arrive", "done"}
  BY WaitsForward
<1>2. ASSUME NEW S \in SUBSET Requests, S # {}, \A r \in S : \E q \in S : WaitsFor(r, q)
      PROVE  FALSE
  <2>1. \A r \in S : pc[r] \in {"event", "user"}
    BY <1>2, WaitsForward
  <2> DEFINE Locking == {r \in S : pc[r] = "user"}
             next(r) == CHOOSE u \in Users : u \in NextUser(r)
             Nexts == {next(r) : r \in Locking}
  <2>2. Locking # {}
    BY <1>2, <2>1, WaitsForward
  <2>3. ASSUME NEW r \in Locking
        PROVE  /\ next(r) \in Users /\ next(r) \in NextUser(r)
               /\ \E q \in Locking : next(r) \in held[q]
    <3>1. PICK q \in S : WaitsFor(r, q)
      BY <1>2
    <3>2. PICK u \in NextUser(r) : u \in held[q]
      BY <3>1, WaitsForward
    <3>3. NextUser(r) \subseteq Users /\ Users \subseteq Nat
      BY CallFacts, EnrolmentAssumption DEF NextUser, IInv
    <3>4. next(r) \in Users /\ next(r) \in NextUser(r)
      BY <3>2, <3>3
    <3>5. next(r) = u
      BY <3>2, <3>3, <3>4 DEF NextUser
    <3>6. pc[q] = "user"
      BY <2>1, <3>1, WaitsForward
    <3> QED
      BY <3>2, <3>4, <3>5, <3>6
  <2> HIDE DEF next
  <2>4. Nexts \subseteq Users /\ Nexts # {}
    BY <2>2, <2>3
  <2>5. IsFiniteSet(Nexts) /\ Users \subseteq Nat
    BY <2>4, UsersFinite, EnrolmentAssumption
  <2>6. PICK x \in Nexts : \A y \in Nexts : y <= x
    <3> HIDE DEF Nexts
    <3>1. Nexts \subseteq Int
      BY <2>4, <2>5
    <3> QED
      BY <2>4, <2>5, <3>1, GreatestElement
  <2>7. PICK r \in Locking : x = next(r)
    OBVIOUS
  <2>8. PICK q \in Locking : x \in held[q]
    BY <2>3, <2>7
  <2>9. next(q) \in Wanted(q) \ held[q]
    BY <2>3 DEF NextUser
  <2>10. x < next(q)
    BY <2>8, <2>9 DEF Ordered
  <2>11. next(q) \in Nexts /\ next(q) \in Nat /\ x \in Nat
    BY <2>3, <2>4, <2>5
  <2> QED
    BY <2>6, <2>10, <2>11
<1> QED
  BY <1>1, <1>2 DEF NoCircularWait

\* Registrations and team changes never wait for each other in a circle, and
\* so never need a lock_timeout to get on, for any number of users and
\* requests: whoever waits waits for a request at its commit, or for one that
\* holds a later User row, or for one past the Event.
THEOREM LocksAreOrdered == Spec => []NoCircularWait
<1>1. Init => Ordered
  BY DEF Init, Ordered
<1> QED
  BY <1>1, Inductive, OrderedStep, NoCircle, PTL DEF Spec

(***************************************************************************)
(* How far a request has come: the statements in the order of the code.    *)
(***************************************************************************)
Stage ==
  [l \in Labels |->
     CASE l = "arrive" -> 0 [] l = "event" -> 1 [] l = "code" -> 2 [] l = "user" -> 3
       [] l = "seat" -> 4 [] l = "name" -> 5 [] l = "flush" -> 6 [] l = "team" -> 7
       [] l = "commit" -> 8 [] l = "done" -> 9]

Advances(r) ==
  \/ pc'[r] = pc[r] /\ reply'[r] = reply[r] /\ held'[r] = held[r]
  \/ Stage[pc[r]] < Stage[pc'[r]]
  \/ /\ pc[r] = "user" /\ pc'[r] = "user" /\ reply'[r] = reply[r]
     /\ \E u \in Wanted(r) \ held[r] : held'[r] = held[r] \union {u}

(***************************************************************************)
(* A registration or a team change gets an answer after a bounded number   *)
(* of steps of its own: each brings it to a later statement or, in the     *)
(* loop over the users it concerns, locks one more of the two there are at *)
(* most.  Once it is answered it holds nothing and its answer stays.       *)
(***************************************************************************)
THEOREM RequestsAdvance == Spec => [][\A r \in Requests : Advances(r)]_vars
<1>1. IInv /\ [Next]_vars => \A r \in Requests : Advances(r)
  <2> SUFFICES ASSUME IInv, [Next]_vars, NEW r \in Requests PROVE Advances(r)
    OBVIOUS
  <2>1. pc \in [Requests -> Labels] /\ held \in [Requests -> SUBSET Users]
    BY DEF IInv, TypeOK
  <2>2. DOMAIN reply = Requests
    BY DEF IInv, TypeOK
  <2>3. ASSUME NEW q \in Requests, Step(q) \/ Abort(q), q # r
        PROVE  pc'[r] = pc[r] /\ reply'[r] = reply[r] /\ held'[r] = held[r]
    BY <2>1, <2>2, <2>3 DEF Step, Abort, Refuse, Answer, Proceed, Arrive, LockEvent, LockCode,
       LockUser, CheckActor, LockMembership, CheckName, FlushTeam, LockTeam, Commit, local
  <2>4. CASE Step(r) /\ ~ LockUser(r)
    <3> DEFINE Goes == \E here, next \in Labels : /\ pc[r] = here
                                                  /\ pc' = [pc EXCEPT ![r] = next]
                                                  /\ Stage[here] < Stage[next]
    <3>1. Goes
      <4>1. /\ Stage["arrive"] = 0 /\ Stage["event"] = 1 /\ Stage["code"] = 2
            /\ Stage["user"] = 3 /\ Stage["seat"] = 4 /\ Stage["name"] = 5
            /\ Stage["flush"] = 6 /\ Stage["team"] = 7 /\ Stage["commit"] = 8
            /\ Stage["done"] = 9
        BY DEF Stage, Labels
      <4> USE <4>1 DEF Labels, Proceed, Answer, Refuse
      <4>2. CASE Arrive(r)
        BY <4>2 DEF Arrive
      <4>3. CASE LockEvent(r)
        BY <4>3 DEF LockEvent
      <4>4. CASE LockCode(r)
        BY <4>4 DEF LockCode
      <4>5. CASE CheckActor(r)
        BY <4>5 DEF CheckActor
      <4>6. CASE LockMembership(r)
        BY <4>6 DEF LockMembership
      <4>7. CASE CheckName(r)
        BY <4>7 DEF CheckName
      <4>8. CASE FlushTeam(r)
        BY <4>8 DEF FlushTeam
      <4>9. CASE LockTeam(r)
        BY <4>9 DEF LockTeam
      <4>10. CASE Commit(r)
        BY <4>10 DEF Commit
      <4> QED
        BY <2>4, <4>2, <4>3, <4>4, <4>5, <4>6, <4>7, <4>8, <4>9, <4>10 DEF Step
    <3> QED
      BY <2>1, <3>1 DEF Advances
  <2>5. CASE LockUser(r)
    <3>1. PICK u \in NextUser(r) : /\ pc[r] = "user" /\ pc' = [pc EXCEPT ![r] = "user"]
                                   /\ held' = [held EXCEPT ![r] = @ \union {u}]
                                   /\ reply' = reply
      BY <2>5 DEF LockUser, Proceed
    <3> QED
      BY <2>1, <3>1 DEF NextUser, Advances
  <2>6. CASE Abort(r)
    <3>1. pc[r] \in Labels \ {"done"} /\ pc' = [pc EXCEPT ![r] = "done"]
      BY <2>1, <2>6 DEF Abort, Refuse, Answer
    <3>2. \A here \in Labels \ {"done"} : Stage[here] < Stage["done"]
      BY DEF Stage, Labels
    <3> QED
      BY <2>1, <3>1, <3>2 DEF Advances
  <2>7. ASSUME Administer \/ UNCHANGED vars PROVE UNCHANGED <<pc, reply, held>>
    BY <2>7 DEF vars, Administer, Untouched, local, AdvanceEvent, SetTeamMode, SetAccess,
                ClockTick, ChangeCode, SetStatus, RotateCredentials
  <2> QED
    BY <2>3, <2>4, <2>5, <2>6, <2>7 DEF Next, Advances
<1> QED
  BY <1>1, Inductive, PTL DEF Spec

-----------------------------------------------------------------------------
(* Who can go on *)

\* What the next statement of a request demands of the locks.
CanGoOn(r) ==
  /\ pc[r] = "event" => IF Changes(r) THEN EventNotExclusive ELSE EventFree
  /\ pc[r] = "code" /\ access = "code" /\ call[r].code # NoCode => CodeFree(call[r].code)
  /\ pc[r] = "user" => Wanted(r) \subseteq held[r] \/ \E u \in NextUser(r) : UserFree(u)
  /\ pc[r] = "flush" => \A q \in Requests :
       call[q].kind = "create" /\ call[q].name = call[r].name => pc[q] # "commit"
  /\ pc[r] = "team" => RoomsFor(r) = {} \/ \E t \in RoomsFor(r) : TeamFree(t)

InFlight == {r \in Requests : pc[r] \notin {"arrive", "done"}}

\* While users are left to lock, one of them is next.
LEMMA SomeoneIsNext ==
  ASSUME TypeOK, NEW r \in Requests, ~ Wanted(r) \subseteq held[r]
  PROVE  NextUser(r) # {}
<1>1. call[r].user \in Nat /\ call[r].target \in Nat
  BY CallFacts, EnrolmentAssumption
<1>2. Wanted(r) \subseteq {call[r].user, call[r].target}
  BY DEF Wanted
<1>3. CASE call[r].user <= call[r].target /\ call[r].user \in Wanted(r) \ held[r]
  BY <1>1, <1>2, <1>3 DEF NextUser
<1>4. CASE call[r].target <= call[r].user /\ call[r].target \in Wanted(r) \ held[r]
  BY <1>1, <1>2, <1>4 DEF NextUser
<1>5. CASE call[r].user \notin Wanted(r) \ held[r]
  BY <1>1, <1>2, <1>5 DEF NextUser
<1>6. CASE call[r].target \notin Wanted(r) \ held[r]
  BY <1>1, <1>2, <1>6 DEF NextUser
<1> QED
  BY <1>1, <1>3, <1>4, <1>5, <1>6

\* Nothing but the rows of WaitsFor keeps a request from its next statement.
LEMMA WaitingIsAll ==
  ASSUME TypeOK, NEW r \in Requests, \A q \in Requests : ~ WaitsFor(r, q)
  PROVE  CanGoOn(r)
<1>1. pc[r] = "event" => IF Changes(r) THEN EventNotExclusive ELSE EventFree
  BY DEF WaitsFor, EventNotExclusive, EventFree
<1>2. pc[r] = "code" /\ access = "code" /\ call[r].code # NoCode => CodeFree(call[r].code)
  BY DEF WaitsFor, CodeFree
<1>3. pc[r] = "user" => Wanted(r) \subseteq held[r] \/ \E u \in NextUser(r) : UserFree(u)
  BY SomeoneIsNext DEF WaitsFor, UserFree
<1>4. pc[r] = "team" => RoomsFor(r) = {} \/ \E t \in RoomsFor(r) : TeamFree(t)
  BY DEF WaitsFor, TeamFree
<1> QED
  BY <1>1, <1>2, <1>3, <1>4 DEF WaitsFor, CanGoOn

(***************************************************************************)
(* However many registrations and team changes are in flight, one of them  *)
(* has every lock its next statement needs within its reach: NobodyStuck   *)
(* with what ENABLED asks for spelled out.                                 *)
(***************************************************************************)
THEOREM SomebodyCanGoOn == Spec => [](InFlight # {} => \E r \in InFlight : CanGoOn(r))
<1>1. ASSUME IInv, Ordered, InFlight # {}
      PROVE  \E r \in InFlight : CanGoOn(r)
  <2>1. NoCircularWait
    BY <1>1, NoCircle
  <2>2. InFlight \in SUBSET Requests /\ TypeOK
    BY <1>1 DEF InFlight, IInv
  <2> DEFINE waiting == {r \in Requests : \E q \in Requests : WaitsFor(r, q)}
  <2>3. \A r \in waiting, q \in Requests : WaitsFor(r, q) => q \in InFlight
    BY <2>1 DEF NoCircularWait, InFlight
  <2>4. PICK r \in InFlight : r \notin waiting
    <3>1. CASE InFlight \in SUBSET waiting
      <4>1. PICK r \in InFlight : \A q \in InFlight : ~ WaitsFor(r, q)
        BY <1>1, <2>1, <3>1 DEF NoCircularWait
      <4> QED
        BY <2>3, <4>1
    <3> QED
      BY <3>1
  <2> QED
    BY <2>2, <2>4, WaitingIsAll
<1>2. Init => Ordered
  BY DEF Init, Ordered
<1> QED
  BY <1>1, <1>2, Inductive, OrderedStep, PTL DEF Spec

-----------------------------------------------------------------------------
(* The teams *)

(***************************************************************************)
(* Whoever is in a team is registered, and no team is empty, ownerless,    *)
(* owned twice or over its size.                                           *)
(***************************************************************************)
TeamsInForm ==
  /\ \A u \in Users : member[u] # NoTeam => u \in registered /\ member[u] \in teams
  /\ \A t \in teams : /\ \E u \in Users : Mates(t) \cap owners = {u}
                       /\ Cardinality(Mates(t)) \in 1..MaxMembers

(***************************************************************************)
(* What Roster promises holds of the tables at every moment, and the Team  *)
(* table has no rows that nobody is in: the owner who leaves last takes    *)
(* the team along, and nobody joins a team while it is being dissolved.    *)
(***************************************************************************)
THEOREM TeamsStayInForm == Spec => []TeamsInForm
<1>1. IInv => TeamsInForm
  <2> SUFFICES ASSUME IInv PROVE TeamsInForm
    OBVIOUS
  <2>1. /\ member \in [Users -> teams \union {NoTeam}] /\ teams \subseteq Teams
        /\ People
    BY DEF IInv, TypeOK
  <2>2. ASSUME NEW t \in teams
        PROVE  /\ \E u \in Users : Mates(t) \cap owners = {u}
               /\ Cardinality(Mates(t)) \in 1..MaxMembers
    <3>1. Mates(t) # {} /\ Mates(t) \in SUBSET Users /\ TeamRoster!Mates(t) = Mates(t)
      BY <2>1 DEF People, Mates, TeamRoster!Mates
    <3>2. Cardinality(Mates(t)) \in Nat /\ Cardinality(Mates(t)) # 0
      BY <3>1, UsersFinite, FS_EmptySet
    <3>3. /\ \E u \in Users : Mates(t) \cap owners = {u}
          /\ Cardinality(Mates(t)) <= MaxMembers
      BY <2>1, <3>1, SameCardinality DEF People, TeamRoster!WellFormed
    <3> QED
      BY <3>2, <3>3, EnrolmentAssumption
  <2> QED
    BY <2>1, <2>2 DEF TeamsInForm, People
<1> QED
  BY <1>1, Inductive, PTL

=============================================================================
