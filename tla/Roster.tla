------------------------------- MODULE Roster -------------------------------
(***************************************************************************)
(* What the teams promise: at any moment every team that has anybody has   *)
(* one owner and at most MaxMembers members, everybody is in at most one   *)
(* team, and the roster changes one membership, or one owner, at a time.   *)
(***************************************************************************)
EXTENDS Naturals, FiniteSets

CONSTANTS Users, Teams, NoTeam, MaxMembers

VARIABLES
  member,    \* the team of a user
  owners     \* the users whose Membership.role is owner

roster == <<member, owners>>

Mates(t) == {u \in Users : member[u] = t}

\* create_team, and register in individual mode.
Found(u, t) ==
  /\ member[u] = NoTeam /\ Mates(t) = {}
  /\ member' = [member EXCEPT ![u] = t]
  /\ owners' = owners \union {u}

\* join_team.
Join(u, t) ==
  /\ member[u] = NoTeam
  /\ Mates(t) # {} /\ Cardinality(Mates(t)) < MaxMembers
  /\ member' = [member EXCEPT ![u] = t]
  /\ UNCHANGED owners

\* leave_team: an owner leaves last, and takes the team along.
Leave(u) ==
  /\ member[u] # NoTeam
  /\ u \in owners => Mates(member[u]) = {u}
  /\ member' = [member EXCEPT ![u] = NoTeam]
  /\ owners' = owners \ {u}

\* remove_member.
Remove(u, v) ==
  /\ u \in owners /\ v \notin owners
  /\ member[u] # NoTeam /\ member[v] = member[u]
  /\ member' = [member EXCEPT ![v] = NoTeam]
  /\ UNCHANGED owners

\* transfer_owner.
Transfer(u, v) ==
  /\ u \in owners /\ v \notin owners
  /\ member[u] # NoTeam /\ member[v] = member[u]
  /\ owners' = (owners \ {u}) \union {v}
  /\ UNCHANGED member

Step(u) ==
  \/ \E t \in Teams : Found(u, t) \/ Join(u, t)
  \/ Leave(u)
  \/ \E v \in Users : Remove(u, v) \/ Transfer(u, v)

\* Every step changes the roster (said first, it spares TLC the search).
Next == roster' # roster /\ \E u \in Users : Step(u)

RosterType ==
  /\ member \in [Users -> Teams \union {NoTeam}]
  /\ owners \subseteq {u \in Users : member[u] # NoTeam}

(***************************************************************************)
(* Every team has exactly one owner and is not over its size.              *)
(***************************************************************************)
WellFormed ==
  \A t \in Teams :
    Mates(t) # {} => /\ \E u \in Users : Mates(t) \cap owners = {u}
                     /\ Cardinality(Mates(t)) <= MaxMembers

Init == RosterType /\ WellFormed

Spec == Init /\ [][Next]_roster

=============================================================================
