---------------------------- MODULE Credentials -----------------------------
(***************************************************************************)
(* Passwords and sessions (routes_auth.py, update_user_status in           *)
(* routes_admin.py, _set_password in cli.py) as concurrent transactions.   *)
(* A password is verified on a value read WITHOUT a lock, since Argon2 is  *)
(* slow; the User row is locked afterwards, and the handler proceeds only  *)
(* if the hash is still the one it verified.  From that lock to its commit *)
(* a request holds the User row, so who holds it is read off pc.           *)
(***************************************************************************)
EXTENDS Naturals, Sequences, FiniteSets

CONSTANTS
  Users, Words,           \* accounts and passwords
  Requests,               \* one element per HTTP request or command
  Calls,                  \* what a request may ask for
  Opened,                 \* the SessionToken rows there are to begin with
  FirstWord,              \* the password of each user to begin with
  MaxSessions,            \* MAX_ACTIVE_SESSIONS_PER_USER (limits.py)
  MaxTries                \* the rounds of the login and change-password loops

Salts == Requests \union {"fresh", "outdated"}
Hash == [word : Words, salt : Salts]
Row == [hash : Hash, version : Nat, active : BOOLEAN]
Tokens == Requests \union {s.token : s \in Opened}

\* A SessionToken: "word" is the password that was given for it.
Session == [token : Tokens, user : Users, version : Nat, word : Words, born : Nat]

Kinds == {"login", "logout", "change", "reset", "suspend", "reactivate"}
Call == [kind : Kinds, user : Users, cookie : Tokens, word : Words, new : Words]

ASSUME CredentialsAssumption ==
  /\ IsFiniteSet(Requests)
  /\ Requests \cap {"fresh", "outdated"} = {}
  /\ Calls \subseteq Call
  /\ FirstWord \in [Users -> Words]
  /\ MaxSessions \in Nat \ {0}
  /\ MaxTries \in Nat \ {0}
  /\ IsFiniteSet(Opened)
  /\ Opened \subseteq {s \in [token : {s.token : s \in Opened}, user : Users,
                              version : {1}, word : Words, born : {0}] :
                         s.word = FirstWord[s.user] /\ s.token \notin Requests}
  /\ \A s, t \in Opened : s.token = t.token => s = t
  /\ \A u \in Users : Cardinality({s \in Opened : s.user = u}) <= MaxSessions

VARIABLES
  pc,           \* what each request is about to do
  call,         \* what each request asks for
  seen,         \* the User row as the request last read it
  tries,        \* the rounds its loop has gone through
  drop,         \* the SessionTokens its transaction deletes
  noted,        \* the coalesced audit rows it found
  reply,        \* its answer
  users,        \* the User table
  sessions,     \* the SessionToken table
  expired,      \* the tokens whose expires_at has passed
  journal,      \* the coalesced AuditEvents: the occurrences in each row
  committed     \* the requests whose transaction is committed

local == <<seen, tries, drop, noted>>
tables == <<users, sessions, journal, committed>>
vars == <<pc, call, seen, tries, drop, noted, reply,
          users, sessions, expired, journal, committed>>

Labels == {"arrive", "verify", "lock", "write", "commit", "done"}

\* The client has no answer to its request yet, or never will.
Replies == {"none", "lost", "unauthorized", "busy", "credential_changed", "ok"}

-----------------------------------------------------------------------------
(* What a query returns *)

Of(u) == {s \in sessions : s.user = u}

Active(u) == {s \in Of(u) : s.token \notin expired}

Expired == {s \in sessions : s.token \in expired}

\* current_user: the one query every request is authenticated with.
Valid(token) ==
  \E s \in sessions :
    /\ s.token = token
    /\ s.token \notin expired
    /\ users[s.user].active
    /\ s.version = users[s.user].version

NeedsRehash(hash) == hash.salt = "outdated"

\* Mutant: the User row is read again, but not FOR UPDATE.
NotForUpdate(u) == TRUE

UserFree(u) ==
  \A q \in Requests : call[q].user = u => pc[q] \notin {"write", "commit"}

TokensOf(S) == {s.token : s \in S}

\* ORDER BY created_at DESC, OFFSET MAX_ACTIVE_SESSIONS_PER_USER - 1.
Newest(S) ==
  {K \in SUBSET S : /\ Cardinality(K) <= MaxSessions - 1
                    /\ K = S \/ Cardinality(K) = MaxSessions - 1
                    /\ \A k \in K, s \in S \ K : k.born >= s.born}

-----------------------------------------------------------------------------
(* The steps of a request *)

Answer(r, here, answer) ==
  /\ pc[r] = here
  /\ pc' = [pc EXCEPT ![r] = "done"]
  /\ reply' = [reply EXCEPT ![r] = answer]
  /\ UNCHANGED <<call, local, expired>>

Refuse(r, here, answer) == Answer(r, here, answer) /\ UNCHANGED tables

Proceed(r, here, next) ==
  /\ pc[r] = here
  /\ pc' = [pc EXCEPT ![r] = next]
  /\ UNCHANGED <<call, reply, expired, tables>>

Look(r) == seen' = [seen EXCEPT ![r] = users[call[r].user]]

\* A client has the sessions that were opened for it, and no other.
HasCookie(r) ==
  LET c == call[r]
  IN  \/ \E s \in Opened : s.token = c.cookie /\ s.user = c.user
      \/ c.cookie \in committed /\ call[c.cookie].user = c.user

\* The unlocked read: a login's candidate, the session of the others.
Arrive(r) ==
  LET c == call[r]
      known == CASE c.kind = "login" -> users[c.user].active
                 [] c.kind = "change" -> Valid(c.cookie)
                 [] OTHER -> TRUE
  IN  /\ c.kind \in {"logout", "change"} => HasCookie(r)
      /\ \/ /\ known
            /\ Look(r)
            /\ Proceed(r, "arrive", IF c.kind \in {"login", "change"} THEN "verify" ELSE "lock")
            /\ UNCHANGED <<tries, drop, noted>>
         \/ ~ known /\ Refuse(r, "arrive", "unauthorized")
         \/ /\ c.kind = "logout" /\ c.cookie \notin TokensOf(sessions)
            /\ Refuse(r, "arrive", "ok")

\* Argon2 on the hash last read, with no lock and no connection held.
Verify(r) ==
  LET right == seen[r].hash.word = call[r].word
  IN  \/ /\ right /\ tries[r] < MaxTries
         /\ Proceed(r, "verify", "lock")
         /\ UNCHANGED local
      \/ right /\ tries[r] = MaxTries /\ Refuse(r, "verify", "credential_changed")
      \/ ~ right /\ Refuse(r, "verify", "unauthorized")
      \/ Refuse(r, "verify", "busy")

\* What is checked again once the User row is locked.
Rechecked(r) ==
  LET c == call[r]
  IN  CASE c.kind = "login" -> users[c.user].active
        [] c.kind = "change" -> Valid(c.cookie)
        [] OTHER -> TRUE

\* Mutant: the hash is not compared with the one that was verified.
LockUncompared(r) ==
  /\ UserFree(call[r].user)
  /\ \/ /\ Rechecked(r)
        /\ Proceed(r, "lock", "write")
        /\ UNCHANGED local
     \/ ~ Rechecked(r) /\ Refuse(r, "lock", "unauthorized")

\* Mutant: the account's state and the session are not looked at again.
LockUnchecked(r) ==
  /\ UserFree(call[r].user)
  /\ Look(r)
  /\ Proceed(r, "lock", "write")
  /\ UNCHANGED <<tries, drop, noted>>

\* SELECT User ... FOR UPDATE with populate_existing, and the comparison.
Lock(r) ==
  LET current == users[call[r].user].hash = seen[r].hash
      compared == call[r].kind \in {"login", "change"}
  IN  /\ UserFree(call[r].user)
      /\ \/ /\ Rechecked(r) /\ (compared => current)
            /\ Look(r)
            /\ Proceed(r, "lock", "write")
            /\ UNCHANGED <<tries, drop, noted>>
         \/ /\ Rechecked(r) /\ compared /\ ~ current
            /\ Look(r)
            /\ tries' = [tries EXCEPT ![r] = @ + 1]
            /\ Proceed(r, "lock", "verify")
            /\ UNCHANGED <<drop, noted>>
         \/ ~ Rechecked(r) /\ Refuse(r, "lock", "unauthorized")

\* What the deletes of the transaction find: cleanup_expired_sessions skips
\* locked rows, so it may take any of the expired ones.
Deletions(r) ==
  LET c == call[r]
      swept == {TokensOf(S) : S \in SUBSET Expired}
  IN  CASE c.kind = "login" ->
             {TokensOf(Active(c.user) \ K) \union S : K \in Newest(Active(c.user)), S \in swept}
        [] c.kind = "change" -> {TokensOf(Of(c.user)) \union S : S \in swept}
        [] c.kind \in {"reset", "suspend"} -> {TokensOf(Of(c.user))}
        [] c.kind = "logout" -> {{c.cookie} \cap TokensOf(sessions)}
        [] OTHER -> {{}}

\* The deletes, and the look for an audit row to count in.
Write(r) ==
  /\ \E tokens \in Deletions(r) : drop' = [drop EXCEPT ![r] = tokens]
  /\ noted' = [noted EXCEPT ![r] = journal[call[r].user][call[r].kind]]
  /\ Proceed(r, "write", "commit")
  /\ UNCHANGED <<seen, tries>>

NewHash(r) ==
  LET c == call[r]
  IN  CASE c.kind \in {"change", "reset"} -> [word |-> c.new, salt |-> r]
        [] c.kind = "login" /\ NeedsRehash(seen[r].hash) -> [word |-> c.word, salt |-> r]
        [] OTHER -> users[c.user].hash

\* A change of password, and a suspension that suspends someone.
Rotates(r) ==
  \/ call[r].kind \in {"change", "reset"}
  \/ call[r].kind = "suspend" /\ seen[r].active

NewRow(r) ==
  [hash |-> NewHash(r),
   version |-> IF Rotates(r) THEN seen[r].version + 1 ELSE users[call[r].user].version,
   active |-> CASE call[r].kind = "suspend" -> FALSE
                [] call[r].kind = "reactivate" -> TRUE
                [] OTHER -> users[call[r].user].active]

\* Mutant: the session is written without its credential version.
NewSessionUnversioned(r) ==
  IF call[r].kind \in {"login", "change"}
  THEN {[token |-> r, user |-> call[r].user, word |-> call[r].word, born |-> 1]}
  ELSE {}

NewSession(r) ==
  IF call[r].kind \in {"login", "change"}
  THEN {[token |-> r, user |-> call[r].user, version |-> NewRow(r).version,
         word |-> IF call[r].kind = "login" THEN call[r].word ELSE call[r].new,
         born |-> Cardinality(committed) + 1]}
  ELSE {}

\* add_coalesced_audit: count in the row that was found, or insert one.
Journal(r) ==
  LET rows == journal[call[r].user][call[r].kind]
      n == Len(noted[r])
  IN  IF n = 0 THEN Append(rows, 1)
      ELSE [rows EXCEPT ![n] = noted[r][n] + 1]

\* A logout that found its session gone has nothing to commit.
Idle(r) == call[r].kind = "logout" /\ drop[r] = {}

Coalesced == {"login", "logout", "change"}

\* Mutant: a logout does not commit, so get_db rolls it back.
RemainUncommitted(r) ==
  {s \in sessions : s.token \notin drop[r] \/ call[r].kind = "logout"}

Remain(r) == {s \in sessions : s.token \notin drop[r]}

\* The client may never see the answer of a commit that took place.
Commit(r) ==
  LET u == call[r].user
      k == call[r].kind
  IN  /\ users' = [users EXCEPT ![u] = NewRow(r)]
      /\ sessions' = Remain(r) \union NewSession(r)
      /\ journal' = IF k \in Coalesced /\ ~ Idle(r)
                    THEN [journal EXCEPT ![u][k] = Journal(r)] ELSE journal
      /\ committed' = IF Idle(r) THEN committed ELSE committed \union {r}
      /\ \E answer \in {"ok", "lost"} : Answer(r, "commit", answer)

\* A lock_timeout, a failed query, a lost connection or a killed worker; a
\* rate limit refuses a request before any of this.
Abort(r) == \E here \in Labels \ {"done"} : Refuse(r, here, "lost")

\* Time passes: the sessions of a user expire in the order they were opened.
Expire(s) ==
  /\ s \in Active(s.user)
  /\ \A other \in Active(s.user) : other.born >= s.born
  /\ expired' = expired \union {s.token}
  /\ UNCHANGED <<pc, call, local, reply, tables>>

Step(r) == Arrive(r) \/ Verify(r) \/ Lock(r) \/ Write(r) \/ Commit(r)

Init ==
  /\ pc = [r \in Requests |-> "arrive"]
  /\ call \in [Requests -> Calls]
  /\ \E salt \in {"fresh", "outdated"} :
       users = [u \in Users |-> [hash |-> [word |-> FirstWord[u], salt |-> salt],
                                 version |-> 1, active |-> TRUE]]
  /\ seen = [r \in Requests |-> users[call[r].user]]
  /\ tries = [r \in Requests |-> 0]
  /\ drop = [r \in Requests |-> {}]
  /\ noted = [r \in Requests |-> <<>>]
  /\ reply = [r \in Requests |-> "none"]
  /\ sessions = Opened
  /\ expired = {}
  /\ journal = [u \in Users |-> [k \in Kinds |-> <<>>]]
  /\ committed = {}

Next ==
  \/ \E r \in Requests : Step(r) \/ Abort(r)
  \/ \E s \in sessions : Expire(s)

Spec == Init /\ [][Next]_vars

-----------------------------------------------------------------------------
(* Properties *)

(***************************************************************************)
(* The type invariant: every SessionToken carries a credential version and *)
(* every reply is one the handlers give.                                   *)
(***************************************************************************)
TypeOK ==
  /\ pc \in [Requests -> Labels]
  /\ call \in [Requests -> Calls]
  /\ seen \in [Requests -> Row]
  /\ tries \in [Requests -> 0..MaxTries]
  /\ drop \in [Requests -> SUBSET Tokens]
  /\ noted \in [Requests -> Seq(Nat)]
  /\ reply \in [Requests -> Replies]
  /\ users \in [Users -> Row]
  /\ sessions \subseteq Session
  /\ expired \subseteq Tokens
  /\ journal \in [Users -> [Kinds -> Seq(Nat)]]
  /\ committed \subseteq Requests

(***************************************************************************)
(* No session outlives the password it was opened with: whoever is let in  *)
(* by current_user gave, when the session was opened, the password that is *)
(* the user's password now.  A login or a change of password that verified *)
(* the old one before a concurrent change cannot open a session after it.  *)
(***************************************************************************)
NoWithdrawnPassword ==
  \A s \in sessions : Valid(s.token) => s.word = users[s.user].hash.word

(***************************************************************************)
(* A suspended user has no session row: none is left by the suspension and *)
(* none is added later by a login, or a change of password, that found the *)
(* user active before it.                                                  *)
(***************************************************************************)
NoSessionOfTheSuspended ==
  \A s \in sessions : users[s.user].active

(***************************************************************************)
(* A user never has more than MAX_ACTIVE_SESSIONS_PER_USER sessions that   *)
(* have not expired, however many logins run at once.                      *)
(***************************************************************************)
SessionsCapped == \A u \in Users : Cardinality(Active(u)) <= MaxSessions

(***************************************************************************)
(* The password of a user changes only together with the credential        *)
(* version: re-hashing at login, which may have read the row long before,  *)
(* never writes back a password that was replaced in between.              *)
(***************************************************************************)
NoPasswordRestored ==
  [][\A u \in Users :
       users'[u].hash.word # users[u].hash.word
         => /\ users'[u].version = users[u].version + 1
            /\ sessions' \cap Of(u) = {}]_vars

(***************************************************************************)
(* Whoever is told that they are logged out, is: the session in the cookie *)
(* of a logout that was answered is gone for good.                         *)
(***************************************************************************)
LoggedOut ==
  \A r \in Requests :
    call[r].kind = "logout" /\ reply[r] = "ok" => call[r].cookie \notin TokensOf(sessions)

(***************************************************************************)
(* add_coalesced_audit keeps one row for each user and action, and counts  *)
(* every occurrence in it, however the actions overlap: its callers hold   *)
(* the User row, as its docstring demands of them.                         *)
(***************************************************************************)
JournalCounts ==
  \A u \in Users, k \in Coalesced :
    LET n == Cardinality({r \in committed : call[r].user = u /\ call[r].kind = k})
    IN  journal[u][k] = IF n = 0 THEN <<>> ELSE <<n>>

=============================================================================
