-------------------------- MODULE CredentialsProofs -------------------------
(***************************************************************************)
(* Theorems about Credentials for any users, requests and limits: what     *)
(* every request relies on between its lock on the User row and its        *)
(* commit, the properties that follow, and that the loop which repeats a   *)
(* verification ends with an answer that is true.                          *)
(***************************************************************************)
EXTENDS Credentials, FiniteSetTheorems, TLAPS

-----------------------------------------------------------------------------
(* The inductive invariant *)

Critical(r) == pc[r] \in {"write", "commit"}

\* A User row is locked by one request at a time.
Exclusive ==
  \A q, r \in Requests : Critical(q) /\ Critical(r) /\ call[q].user = call[r].user => q = r

\* Sessions are of active users and of their current passwords, because every
\* change of either deletes them all; their tokens tell where they come from.
Current ==
  \A s \in sessions : /\ s.word = users[s.user].hash.word
                      /\ users[s.user].active
                      /\ IF s.token \in Requests
                         THEN s.token \in committed /\ s.user = call[s.token].user
                         ELSE s \in Opened

\* What a request has read under the lock is still so at its commit.
Relied(r) ==
  LET c == call[r]
  IN  /\ seen[r] = users[c.user]
      /\ c.kind \in {"login", "change"} =>
           users[c.user].active /\ users[c.user].hash.word = c.word
      /\ pc[r] = "commit" =>
           /\ c.kind \in {"change", "reset", "suspend"} => TokensOf(Of(c.user)) \subseteq drop[r]
           /\ c.kind = "login" =>
                Cardinality({s \in Active(c.user) : s.token \notin drop[r]}) < MaxSessions
           /\ c.kind = "logout" /\ c.cookie \in TokensOf(sessions) => c.cookie \in drop[r]
           /\ noted[r] = journal[c.user][c.kind]

\* The rest of what holds of one request.
Request(r) ==
  /\ pc[r] # "done" => r \notin committed
  /\ pc[r] = "verify" => call[r].kind \in {"login", "change"}
  /\ pc[r] = "lock" /\ call[r].kind \in {"login", "change"} =>
       seen[r].hash.word = call[r].word /\ tries[r] < MaxTries
  /\ call[r].kind \in {"logout", "change"} /\ (pc[r] \notin {"arrive", "done"} \/ reply[r] = "ok")
       => HasCookie(r)
  /\ call[r].kind = "logout" /\ reply[r] = "ok" => call[r].cookie \notin TokensOf(sessions)

ReqInv(r) == Request(r) /\ (Critical(r) => Relied(r))

TableInv == Current /\ IsFiniteSet(sessions) /\ SessionsCapped /\ JournalCounts

IInv == TypeOK /\ Exclusive /\ TableInv /\ \A r \in Requests : ReqInv(r)

-----------------------------------------------------------------------------
(* The constants *)

\* The sessions there are to begin with.
LEMMA OpenedFacts ==
  \A s \in Opened : /\ s \in Session /\ s.version = 1 /\ s.born = 0
                    /\ s.word = FirstWord[s.user] /\ s.token \notin Requests
<1> SUFFICES ASSUME NEW s \in Opened
             PROVE  /\ s \in Session /\ s.version = 1 /\ s.born = 0
                    /\ s.word = FirstWord[s.user] /\ s.token \notin Requests
  OBVIOUS
<1>1. /\ s \in [token : {t.token : t \in Opened}, user : Users,
                version : {1}, word : Words, born : {0}]
      /\ s.word = FirstWord[s.user] /\ s.token \notin Requests
  BY CredentialsAssumption
<1> QED
  BY <1>1 DEF Session, Tokens

\* What each request asks for.
LEMMA CallFacts ==
  ASSUME TypeOK, NEW r \in Requests
  PROVE  /\ call[r] \in Call /\ call[r].kind \in Kinds /\ call[r].user \in Users
         /\ call[r].word \in Words /\ call[r].new \in Words
BY CredentialsAssumption DEF TypeOK, Call

\* A cookie is the token of a session that was opened before.
LEMMA CookieIsOld ==
  ASSUME NEW r \in Requests, HasCookie(r), NEW q \in Requests, q \notin committed
  PROVE  call[r].cookie # q
BY OpenedFacts DEF HasCookie

\* What is fewer than a bound stays so when some of it goes.
LEMMA Fewer ==
  ASSUME NEW S, IsFiniteSet(S), NEW T \in SUBSET S, NEW n \in Nat
  PROVE  /\ IsFiniteSet(T)
         /\ Cardinality(S) < n => Cardinality(T) < n
         /\ Cardinality(S) <= n => Cardinality(T) <= n
<1>1. IsFiniteSet(T) /\ Cardinality(T) <= Cardinality(S)
  BY FS_Subset
<1>2. Cardinality(S) \in Nat /\ Cardinality(T) \in Nat
  BY <1>1, FS_CardinalityType
<1> QED
  BY <1>1, <1>2

-----------------------------------------------------------------------------
(* The requests do not disturb each other *)

\* The step leaves the other requests alone.
Others(r) ==
  \A q \in Requests \ {r} :
    /\ pc'[q] = pc[q] /\ seen'[q] = seen[q] /\ tries'[q] = tries[q]
    /\ drop'[q] = drop[q] /\ noted'[q] = noted[q] /\ reply'[q] = reply[q]

\* It writes only what is of the user whose row it holds, deletes what it will
\* and adds at most its own session.
Apart(r) ==
  /\ call' = call
  /\ \A u \in Users \ {call[r].user} :
       users'[u] = users[u] /\ journal'[u] = journal[u]
  /\ \A s \in sessions' \ sessions : s.token = r /\ s.user = call[r].user /\ r \notin committed
  /\ expired \subseteq expired'
  /\ committed \subseteq committed'
  /\ committed' \subseteq committed \union {r}

\* The others keep what they rely on.
LEMMA OthersStay ==
  ASSUME TypeOK, IsFiniteSet(sessions), NEW r \in Requests, NEW q \in Requests \ {r}, ReqInv(q),
         Others(r), Apart(r),
         Critical(q) => /\ users'[call[q].user] = users[call[q].user]
                        /\ journal'[call[q].user] = journal[call[q].user]
                        /\ Of(call[q].user)' \subseteq Of(call[q].user)
  PROVE  ReqInv(q)'
<1>1. /\ pc'[q] = pc[q] /\ seen'[q] = seen[q] /\ tries'[q] = tries[q]
      /\ drop'[q] = drop[q] /\ noted'[q] = noted[q] /\ reply'[q] = reply[q]
      /\ call' = call /\ call[q].user \in Users
  BY CallFacts DEF Others, Apart
<1>2. HasCookie(q) => HasCookie(q)'
  BY <1>1 DEF HasCookie, Apart
<1>3. HasCookie(q) /\ call[q].cookie \notin TokensOf(sessions)
        => call[q].cookie \notin TokensOf(sessions')
  BY CookieIsOld DEF Apart, TokensOf
<1>4. Request(q)'
  BY <1>1, <1>2, <1>3 DEF ReqInv, Request, Apart
<1>5. ASSUME Critical(q) PROVE Relied(q)'
  <2>1. /\ users'[call[q].user] = users[call[q].user]
        /\ journal'[call[q].user] = journal[call[q].user]
    BY <1>5
  <2>2. Of(call[q].user)' \subseteq Of(call[q].user)
    BY <1>5
  <2>3. Relied(q)
    BY <1>5 DEF ReqInv
  <2>4. ASSUME pc[q] = "commit", call[q].kind = "login"
        PROVE  Cardinality({s \in Active(call[q].user) : s.token \notin drop[q]})' < MaxSessions
    <3> DEFINE S == {s \in Active(call[q].user) : s.token \notin drop[q]}
    <3>1. S' \subseteq S /\ IsFiniteSet(S)
      <4>1. IsFiniteSet(S)
        BY FS_Subset DEF Active, Of
      <4> QED
        BY <1>1, <2>2, <4>1 DEF Active, Apart
    <3>2. Cardinality(S) < MaxSessions
      BY <2>3, <2>4 DEF Relied
    <3> HIDE DEF S
    <3>3. Cardinality(S') < MaxSessions
      BY <3>1, <3>2, Fewer, CredentialsAssumption
    <3> QED
      BY <3>3 DEF S
  <2>5. pc[q] = "commit" /\ call[q].kind \in {"change", "reset", "suspend"}
          => TokensOf(Of(call[q].user))' \subseteq drop'[q]
    BY <1>1, <2>2, <2>3 DEF Relied, TokensOf
  <2>6. pc[q] = "commit" /\ call[q].kind = "logout"
          => (call[q].cookie \in TokensOf(sessions') => call[q].cookie \in drop'[q])
    <3>1. call[q].kind = "logout" => HasCookie(q)
      BY <1>5 DEF ReqInv, Request, Critical
    <3> QED
      BY <1>1, <1>3, <2>3, <3>1 DEF Relied
  <2> QED
    BY <1>1, <2>1, <2>3, <2>4, <2>5, <2>6 DEF Relied
<1>6. Critical(q)' = Critical(q)
  BY <1>1 DEF Critical
<1> QED
  BY <1>4, <1>5, <1>6 DEF ReqInv

\* It is enough to look at the request that takes the step.
LEMMA OneStep ==
  ASSUME IInv, NEW r \in Requests, Others(r), Apart(r), TypeOK', Exclusive', TableInv', ReqInv(r)',
         users' # users \/ journal' # journal \/ sessions' # sessions => Critical(r)
  PROVE  IInv'
<1>1. ASSUME NEW q \in Requests \ {r} PROVE ReqInv(q)'
  <2>1. ASSUME Critical(q)
        PROVE  /\ users'[call[q].user] = users[call[q].user]
               /\ journal'[call[q].user] = journal[call[q].user]
               /\ Of(call[q].user)' \subseteq Of(call[q].user)
    <3>1. CASE call[q].user = call[r].user
      <4>1. ~ Critical(r)
        BY <2>1, <3>1 DEF IInv, Exclusive
      <4>2. UNCHANGED <<users, journal, sessions>>
        BY <4>1
      <4> QED
        BY <4>2 DEF Apart, Of
    <3>2. CASE call[q].user # call[r].user
      BY <3>2, CallFacts DEF IInv, Apart, Of
    <3> QED
      BY <3>1, <3>2
  <2> QED
    BY <2>1, OthersStay DEF IInv, TableInv
<1> QED
  BY <1>1 DEF IInv

-----------------------------------------------------------------------------
(* The steps without a commit *)

\* A step that leaves the tables alone and locks no row that is locked.
LEMMA Quiet ==
  ASSUME IInv, NEW r \in Requests, Others(r), UNCHANGED <<call, expired, tables>>,
         TypeOK', ReqInv(r)',
         Critical(r)' => Critical(r) \/ UserFree(call[r].user)
  PROVE  IInv'
<1>1. Apart(r)
  BY DEF Apart, tables
<1>2. TableInv'
  BY DEF IInv, TableInv, Current, SessionsCapped, JournalCounts, Active, Of, tables
<1>3. Exclusive'
  <2> SUFFICES ASSUME NEW p \in Requests, NEW q \in Requests, Critical(p)', Critical(q)',
                      call[p].user = call[q].user
               PROVE  p = q
    BY DEF Exclusive
  <2>1. \A x \in Requests \ {r} : Critical(x)' = Critical(x)
    BY DEF Others, Critical
  <2>2. UserFree(call[r].user) => \A x \in Requests : call[x].user = call[r].user => ~ Critical(x)
    BY DEF UserFree, Critical
  <2> QED
    BY <2>1, <2>2 DEF IInv, Exclusive
<1> QED
  BY <1>1, <1>2, <1>3, OneStep DEF tables

\* A request that ends without a commit.
LEMMA RefuseKeeps ==
  ASSUME IInv, NEW r \in Requests, NEW here \in Labels \ {"done"}, NEW answer \in Replies,
         Refuse(r, here, answer),
         answer = "ok" => /\ call[r].kind = "logout" /\ HasCookie(r)
                          /\ call[r].cookie \notin TokensOf(sessions)
  PROVE  IInv'
<1>1. /\ TypeOK /\ pc[r] = here /\ pc'[r] = "done" /\ reply'[r] = answer
      /\ UNCHANGED <<call, expired, tables>>
  BY DEF IInv, TypeOK, Refuse, Answer
<1>2. TypeOK'
  BY <1>1 DEF Refuse, Answer, TypeOK, local, tables, Labels
<1>3. Others(r)
  BY <1>1 DEF Refuse, Answer, TypeOK, local, Others
<1>4. ReqInv(r)'
  BY <1>1 DEF ReqInv, Request, Critical, HasCookie, tables
<1>5. ~ Critical(r)'
  BY <1>1 DEF Critical
<1> QED
  BY <1>1, <1>2, <1>3, <1>4, <1>5, Quiet

\* A request that goes on.
LEMMA ProceedKeeps ==
  ASSUME IInv, NEW r \in Requests, NEW here \in Labels \ {"done"},
         NEW next \in Labels \ {"arrive", "done"}, Proceed(r, here, next),
         seen' \in [Requests -> Row], tries' \in [Requests -> 0..MaxTries],
         drop' \in [Requests -> SUBSET Tokens], noted' \in [Requests -> Seq(Nat)],
         \A q \in Requests \ {r} : /\ seen'[q] = seen[q] /\ tries'[q] = tries[q]
                                   /\ drop'[q] = drop[q] /\ noted'[q] = noted[q],
         next = "verify" => call[r].kind \in {"login", "change"},
         next = "lock" /\ call[r].kind \in {"login", "change"} =>
           seen'[r].hash.word = call[r].word /\ tries'[r] < MaxTries,
         here = "arrive" /\ call[r].kind \in {"logout", "change"} => HasCookie(r),
         next \in {"write", "commit"} => Relied(r)',
         next \in {"write", "commit"} => Critical(r) \/ UserFree(call[r].user)
  PROVE  IInv'
<1>1. /\ TypeOK /\ pc[r] = here /\ pc'[r] = next
      /\ UNCHANGED <<call, reply, expired, tables>>
  BY DEF IInv, TypeOK, Proceed
<1>2. TypeOK'
  BY <1>1 DEF Proceed, TypeOK, tables
<1>3. Others(r)
  BY <1>1 DEF Proceed, TypeOK, Others
<1>4. HasCookie(r) => HasCookie(r)'
  BY <1>1 DEF HasCookie, tables
<1>5. Request(r)'
  BY <1>1, <1>4 DEF IInv, ReqInv, Request, tables
<1>6. Critical(r)' => next \in {"write", "commit"}
  BY <1>1 DEF Critical
<1> QED
  BY <1>1, <1>2, <1>3, <1>5, <1>6, Quiet DEF ReqInv

\* The first look, without a lock.
LEMMA ArriveKeeps ==
  ASSUME IInv, NEW r \in Requests, Arrive(r)
  PROVE  IInv'
<1> DEFINE c == call[r]
           next == IF c.kind \in {"login", "change"} THEN "verify" ELSE "lock"
<1>1. /\ TypeOK /\ users[c.user] \in Row /\ (c.kind \in {"logout", "change"} => HasCookie(r))
      /\ "arrive" \in Labels \ {"done"} /\ {"unauthorized", "ok"} \subseteq Replies
  BY CallFacts DEF IInv, TypeOK, Arrive, Labels, Replies
<1>2. CASE Look(r) /\ Proceed(r, "arrive", next) /\ UNCHANGED <<tries, drop, noted>>
  <2>1. /\ seen' \in [Requests -> Row] /\ tries' \in [Requests -> 0..MaxTries]
        /\ drop' \in [Requests -> SUBSET Tokens] /\ noted' \in [Requests -> Seq(Nat)]
        /\ \A q \in Requests \ {r} : /\ seen'[q] = seen[q] /\ tries'[q] = tries[q]
                                     /\ drop'[q] = drop[q] /\ noted'[q] = noted[q]
    BY <1>1, <1>2 DEF Look, TypeOK
  <2>2. CASE c.kind \in {"login", "change"}
    BY <1>1, <1>2, <2>1, <2>2, ProceedKeeps DEF Labels
  <2>3. CASE c.kind \notin {"login", "change"}
    BY <1>1, <1>2, <2>1, <2>3, ProceedKeeps DEF Labels
  <2> QED
    BY <2>2, <2>3
<1>3. CASE Refuse(r, "arrive", "unauthorized")
  BY <1>1, <1>3, RefuseKeeps
<1>4. CASE /\ c.kind = "logout" /\ c.cookie \notin TokensOf(sessions)
           /\ Refuse(r, "arrive", "ok")
  BY <1>1, <1>4, RefuseKeeps
<1> QED
  BY <1>2, <1>3, <1>4 DEF Arrive

\* Argon2.
LEMMA VerifyKeeps ==
  ASSUME IInv, NEW r \in Requests, Verify(r)
  PROVE  IInv'
<1>1. /\ TypeOK /\ "verify" \in Labels \ {"done"} /\ "lock" \in Labels \ {"arrive", "done"}
      /\ {"unauthorized", "busy", "credential_changed"} \subseteq Replies
  BY DEF IInv, Labels, Replies
<1>2. CASE /\ seen[r].hash.word = call[r].word /\ tries[r] < MaxTries
           /\ Proceed(r, "verify", "lock") /\ UNCHANGED local
  BY <1>1, <1>2, ProceedKeeps DEF local, TypeOK
<1>3. ASSUME NEW answer \in {"unauthorized", "busy", "credential_changed"},
             Refuse(r, "verify", answer)
      PROVE  IInv'
  BY <1>1, <1>3, RefuseKeeps
<1> QED
  BY <1>2, <1>3 DEF Verify

\* The cookie of a request names a session of its own user.
LEMMA CookieIsOwn ==
  ASSUME Current, NEW r \in Requests, HasCookie(r), NEW s \in sessions,
         s.token = call[r].cookie, committed \subseteq Requests
  PROVE  s.user = call[r].user
<1>1. CASE call[r].cookie \in committed /\ call[call[r].cookie].user = call[r].user
  BY <1>1 DEF Current
<1>2. CASE \E t \in Opened : t.token = call[r].cookie /\ t.user = call[r].user
  <2>1. PICK t \in Opened : t.token = call[r].cookie /\ t.user = call[r].user
    BY <1>2
  <2>2. s \in Opened
    BY <2>1, OpenedFacts DEF Current
  <2> QED
    BY <2>1, <2>2, CredentialsAssumption
<1> QED
  BY <1>1, <1>2 DEF HasCookie

\* Under the lock, the hash is the one that was verified, or it is verified
\* again.
LEMMA LockKeeps ==
  ASSUME IInv, NEW r \in Requests, Lock(r)
  PROVE  IInv'
<1> DEFINE c == call[r]
           current == users[c.user].hash = seen[r].hash
           compared == c.kind \in {"login", "change"}
<1>1. /\ TypeOK /\ users[c.user] \in Row /\ UserFree(c.user) /\ ReqInv(r) /\ Current
      /\ "lock" \in Labels \ {"done"} /\ {"write", "verify"} \subseteq Labels \ {"arrive", "done"}
      /\ "unauthorized" \in Replies
  BY CallFacts DEF IInv, TypeOK, Lock, Labels, Replies, TableInv
<1>2. CASE Refuse(r, "lock", "unauthorized")
  BY <1>1, <1>2, RefuseKeeps
<1>3. CASE /\ Rechecked(r) /\ (compared => current) /\ Look(r)
           /\ Proceed(r, "lock", "write") /\ UNCHANGED <<tries, drop, noted>>
  <2>1. compared => users[c.user].active
    <3>1. CASE c.kind = "login"
      BY <1>3, <3>1 DEF Rechecked
    <3>2. CASE c.kind = "change"
      <4>1. HasCookie(r)
        BY <1>1, <1>3, <3>2 DEF ReqInv, Request, Proceed
      <4>2. PICK s \in sessions : s.token = c.cookie /\ users[s.user].active
        BY <1>3, <3>2 DEF Rechecked, Valid
      <4>3. s.user = c.user
        BY <1>1, <4>1, <4>2, CookieIsOwn DEF TypeOK
      <4> QED
        BY <4>2, <4>3
    <3> QED
      BY <3>1, <3>2
  <2>2. compared => users[c.user].hash.word = c.word
    BY <1>1, <1>3 DEF ReqInv, Request, Proceed
  <2>3. /\ seen' \in [Requests -> Row] /\ seen'[r] = users[c.user]
        /\ \A q \in Requests \ {r} : seen'[q] = seen[q]
    BY <1>1, <1>3 DEF Look, TypeOK
  <2>4. pc'[r] = "write" /\ UNCHANGED <<call, users>>
    BY <1>1, <1>3 DEF Proceed, tables, TypeOK
  <2>5. Relied(r)'
    BY <2>1, <2>2, <2>3, <2>4 DEF Relied
  <2> QED
    BY <1>1, <1>3, <2>3, <2>5, ProceedKeeps DEF TypeOK
<1>4. CASE /\ compared /\ Look(r) /\ tries' = [tries EXCEPT ![r] = @ + 1]
           /\ Proceed(r, "lock", "verify") /\ UNCHANGED <<drop, noted>>
  <2>1. tries[r] < MaxTries /\ tries[r] \in 0..MaxTries
    BY <1>1, <1>4 DEF ReqInv, Request, Proceed, TypeOK
  <2>2. tries[r] + 1 \in 0..MaxTries
    BY <2>1, CredentialsAssumption
  <2>3. /\ seen' \in [Requests -> Row] /\ tries' \in [Requests -> 0..MaxTries]
        /\ \A q \in Requests \ {r} : seen'[q] = seen[q] /\ tries'[q] = tries[q]
    BY <1>1, <1>4, <2>2 DEF Look, TypeOK
  <2> QED
    BY <1>1, <1>4, <2>3, ProceedKeeps DEF TypeOK
<1> QED
  BY <1>2, <1>3, <1>4 DEF Lock

\* The deletes reach every session they must.
LEMMA WriteKeeps ==
  ASSUME IInv, NEW r \in Requests, Write(r)
  PROVE  IInv'
<1> DEFINE c == call[r]
<1>1. /\ TypeOK /\ pc[r] = "write" /\ Critical(r) /\ Relied(r) /\ c.user \in Users
      /\ c.kind \in Kinds /\ IsFiniteSet(sessions)
      /\ "write" \in Labels \ {"done"} /\ "commit" \in Labels \ {"arrive", "done"}
  BY CallFacts DEF IInv, Write, Proceed, Critical, ReqInv, Labels, TableInv
<1>2. PICK tokens \in Deletions(r) : drop' = [drop EXCEPT ![r] = tokens]
  BY DEF Write
<1>3. /\ noted' = [noted EXCEPT ![r] = journal[c.user][c.kind]]
      /\ Proceed(r, "write", "commit") /\ UNCHANGED <<seen, tries>>
  BY DEF Write
<1>4. TokensOf(sessions) \subseteq Tokens
  BY <1>1 DEF TokensOf, TypeOK, Session
<1> DEFINE swept == {TokensOf(S) : S \in SUBSET Expired}
<1>5. ASSUME NEW S \in swept PROVE S \subseteq TokensOf(sessions)
  BY DEF TokensOf, Expired
<1> HIDE DEF swept
<1>6. ASSUME c.kind = "login"
      PROVE  \E K \in Newest(Active(c.user)), S \in swept :
               tokens = TokensOf(Active(c.user) \ K) \union S
  <2>1. tokens \in {TokensOf(Active(c.user) \ K) \union S :
                     K \in Newest(Active(c.user)), S \in swept}
    BY <1>2, <1>6 DEF Deletions, swept
  <2> QED
    BY <2>1
<1>7. tokens \subseteq TokensOf(sessions)
  <2>1. \A X \in SUBSET sessions : TokensOf(X) \subseteq TokensOf(sessions)
    BY DEF TokensOf
  <2>2. CASE c.kind = "login"
    <3>1. \A K : Active(c.user) \ K \subseteq sessions
      BY DEF Active, Of
    <3> QED
      BY <1>5, <1>6, <2>1, <2>2, <3>1
  <2>3. CASE c.kind = "change"
    <3>1. PICK S \in swept : tokens = TokensOf(Of(c.user)) \union S
      BY <1>2, <2>3 DEF Deletions, swept
    <3> QED
      BY <1>5, <2>1, <3>1 DEF Of
  <2>4. CASE c.kind \notin {"login", "change"}
    BY <1>2, <2>1, <2>4 DEF Deletions, Of
  <2> QED
    BY <2>2, <2>3, <2>4
<1>8. /\ drop' \in [Requests -> SUBSET Tokens] /\ drop'[r] = tokens
      /\ noted' \in [Requests -> Seq(Nat)] /\ noted'[r] = journal[c.user][c.kind]
      /\ \A q \in Requests \ {r} : drop'[q] = drop[q] /\ noted'[q] = noted[q]
  BY <1>1, <1>2, <1>3, <1>4, <1>7 DEF TypeOK
<1>9. c.kind \in {"change", "reset", "suspend"} => TokensOf(Of(c.user)) \subseteq tokens
  BY <1>2 DEF Deletions
<1>10. c.kind = "logout" /\ c.cookie \in TokensOf(sessions) => c.cookie \in tokens
  BY <1>2 DEF Deletions
<1>11. c.kind = "login" =>
        Cardinality({s \in Active(c.user) : s.token \notin tokens}) < MaxSessions
  <2> SUFFICES ASSUME c.kind = "login"
               PROVE  Cardinality({s \in Active(c.user) : s.token \notin tokens}) < MaxSessions
    OBVIOUS
  <2>1. PICK K \in Newest(Active(c.user)) : TokensOf(Active(c.user) \ K) \subseteq tokens
    BY <1>6
  <2>2. K \subseteq Active(c.user) /\ Cardinality(K) <= MaxSessions - 1
    BY <2>1 DEF Newest
  <2>3. IsFiniteSet(K)
    BY <1>1, <2>2, FS_Subset DEF Active, Of
  <2>4. Cardinality(K) \in Nat /\ Cardinality(K) < MaxSessions
    BY <2>2, <2>3, FS_CardinalityType, CredentialsAssumption
  <2>5. {s \in Active(c.user) : s.token \notin tokens} \subseteq K
    BY <2>1 DEF TokensOf
  <2> QED
    BY <2>3, <2>4, <2>5, Fewer, CredentialsAssumption
<1>12. UNCHANGED <<call, expired, users, sessions, journal>> /\ seen'[r] = seen[r]
  BY <1>3 DEF Proceed, tables
<1>13. Relied(r)'
  BY <1>1, <1>8, <1>9, <1>10, <1>11, <1>12 DEF Relied, TokensOf, Of, Active
<1> QED
  BY <1>1, <1>3, <1>8, <1>13, ProceedKeeps DEF TypeOK

\* A request that fails anywhere.
LEMMA AbortKeeps ==
  ASSUME IInv, NEW r \in Requests, Abort(r)
  PROVE  IInv'
<1>1. PICK here \in Labels \ {"done"} : Refuse(r, here, "lost")
  BY DEF Abort
<1> QED
  BY <1>1, RefuseKeeps DEF Replies

\* Time passes: there are fewer active sessions.
LEMMA ExpireKeeps ==
  ASSUME IInv, NEW s \in sessions, Expire(s)
  PROVE  IInv'
<1>1. /\ TypeOK /\ IsFiniteSet(sessions) /\ s.token \in Tokens /\ expired' = expired \union {s.token}
      /\ UNCHANGED <<pc, call, local, reply, tables>>
  BY DEF IInv, TableInv, TypeOK, Session, Expire
<1>2. TypeOK' /\ Exclusive'
  BY <1>1 DEF IInv, TypeOK, Exclusive, Critical, local, tables
<1>3. \A u : Active(u)' \subseteq Active(u) /\ Of(u)' = Of(u) /\ IsFiniteSet(Active(u))
  <2>1. \A u : Active(u) \subseteq sessions
    BY DEF Active, Of
  <2> QED
    BY <1>1, <2>1, FS_Subset DEF Active, Of, tables
<1>4. TableInv'
  <2>1. ASSUME NEW u \in Users PROVE Cardinality(Active(u)') <= MaxSessions
    <3>1. Cardinality(Active(u)) <= MaxSessions
      BY DEF IInv, TableInv, SessionsCapped
    <3> QED
      BY <1>3, <3>1, Fewer, CredentialsAssumption
  <2> QED
    BY <1>1, <2>1 DEF IInv, TableInv, Current, SessionsCapped, JournalCounts, tables
<1>5. ASSUME NEW r \in Requests PROVE ReqInv(r)'
  <2>1. Request(r)'
    BY <1>1 DEF IInv, ReqInv, Request, HasCookie, local, tables
  <2>2. ASSUME Relied(r) PROVE Relied(r)'
    <3> DEFINE S == {t \in Active(call[r].user) : t.token \notin drop[r]}
    <3>1. S' \subseteq S /\ IsFiniteSet(S)
      <4>1. IsFiniteSet(S)
        BY <1>3, FS_Subset
      <4> QED
        BY <1>1, <1>3, <4>1 DEF local, tables
    <3>2. Cardinality(S) < MaxSessions => Cardinality(S') < MaxSessions
      <4> HIDE DEF S
      <4> QED
        BY <3>1, Fewer, CredentialsAssumption
    <3> QED
      BY <1>1, <1>3, <2>2, <3>2 DEF Relied, local, tables
  <2> QED
    BY <1>1, <2>1, <2>2 DEF IInv, ReqInv, Critical
<1> QED
  BY <1>2, <1>4, <1>5 DEF IInv

-----------------------------------------------------------------------------
(* The commit *)

\* The new row: its password is the one the new session was given, or the old.
LEMMA NewRowFacts ==
  ASSUME IInv, NEW r \in Requests, pc[r] = "commit"
  PROVE  LET u == call[r].user
             k == call[r].kind
         IN  /\ NewRow(r) \in Row
             /\ NewRow(r).hash.word = (IF k \in {"change", "reset"} THEN call[r].new
                                                                  ELSE users[u].hash.word)
             /\ NewRow(r).version = users[u].version
                  + (IF k \in {"change", "reset"} \/ (k = "suspend" /\ users[u].active)
                     THEN 1 ELSE 0)
             /\ NewRow(r).active = (IF k = "suspend" THEN FALSE
                                    ELSE IF k = "reactivate" THEN TRUE ELSE users[u].active)
<1> DEFINE u == call[r].user
           k == call[r].kind
<1>1. TypeOK /\ Relied(r) /\ r \notin committed
  BY DEF IInv, ReqInv, Critical, Request
<1>2. /\ users[u] \in Row /\ seen[r] = users[u]
      /\ (k = "login" => users[u].hash.word = call[r].word)
  BY <1>1, CallFacts DEF Relied, TypeOK
<1>3. NewHash(r) \in Hash /\ NewHash(r).word = (IF k \in {"change", "reset"} THEN call[r].new
                                                                  ELSE users[u].hash.word)
  <2>1. call[r].word \in Words /\ call[r].new \in Words /\ r \in Salts /\ users[u].hash \in Hash
    BY <1>1, <1>2, CallFacts DEF Salts, Row
  <2> QED
    BY <1>2, <2>1 DEF NewHash, Hash
<1>4. users[u].version \in Nat /\ users[u].active \in BOOLEAN
  BY <1>2 DEF Row
<1>5. /\ NewRow(r).hash = NewHash(r)
      /\ NewRow(r).version = (IF Rotates(r) THEN users[u].version + 1 ELSE users[u].version)
      /\ NewRow(r).active = (IF k = "suspend" THEN FALSE
                             ELSE IF k = "reactivate" THEN TRUE ELSE users[u].active)
  BY <1>2 DEF NewRow
<1>6. NewRow(r) \in Row
  <2>1. NewRow(r).version \in Nat
    BY <1>4, <1>5
  <2>2. NewRow(r).active \in BOOLEAN
    BY <1>4, Zenon DEF NewRow
  <2>3. NewRow(r) = [hash |-> NewRow(r).hash, version |-> NewRow(r).version,
                     active |-> NewRow(r).active]
    BY DEF NewRow
  <2> QED
    BY <1>3, <1>5, <2>1, <2>2, <2>3 DEF Row
<1>7. NewRow(r).version = users[u].version
        + (IF k \in {"change", "reset"} \/ (k = "suspend" /\ users[u].active) THEN 1 ELSE 0)
  BY <1>2, <1>4, <1>5 DEF Rotates
<1> QED
  BY <1>3, <1>5, <1>6, <1>7

\* The new session.
LEMMA NewSessionFacts ==
  ASSUME IInv, NEW r \in Requests, pc[r] = "commit"
  PROVE  /\ NewSession(r) \subseteq Session
         /\ \A s \in NewSession(r) :
              /\ s.token = r /\ s.user = call[r].user /\ call[r].kind \in {"login", "change"}
              /\ s.word = NewRow(r).hash.word /\ NewRow(r).active
              /\ NewSession(r) = {s}
         /\ IsFiniteSet(NewSession(r))
<1>1. TypeOK /\ Relied(r) /\ call[r].word \in Words /\ call[r].new \in Words
      /\ call[r].user \in Users /\ NewRow(r).version \in Nat
  BY CallFacts, NewRowFacts DEF IInv, ReqInv, Critical, Row
<1>2. Cardinality(committed) + 1 \in Nat
  <2>1. IsFiniteSet(committed)
    BY <1>1, FS_Subset, CredentialsAssumption DEF TypeOK
  <2> QED
    BY <2>1, FS_CardinalityType
<1>3. CASE call[r].kind \in {"login", "change"}
  <2> DEFINE s == [token |-> r, user |-> call[r].user, version |-> NewRow(r).version,
                   word |-> IF call[r].kind = "login" THEN call[r].word ELSE call[r].new,
                   born |-> Cardinality(committed) + 1]
  <2>1. NewSession(r) = {s}
    BY <1>3 DEF NewSession
  <2>2. s \in Session
    BY <1>1, <1>2 DEF Session, Tokens
  <2>3. s.word = NewRow(r).hash.word /\ NewRow(r).active
    BY <1>1, <1>3, NewRowFacts DEF Relied
  <2> QED
    BY <1>3, <2>1, <2>2, <2>3, FS_Singleton
<1>4. CASE call[r].kind \notin {"login", "change"}
  BY <1>4, FS_EmptySet DEF NewSession
<1> QED
  BY <1>3, <1>4

\* Every session that is left is of the row that is written.
LEMMA CurrentKept ==
  ASSUME IInv, NEW r \in Requests, Commit(r)
  PROVE  /\ Current' /\ IsFiniteSet(sessions')
         /\ (NewRow(r).hash.word # users[call[r].user].hash.word
               => sessions' \cap Of(call[r].user) = {})
<1> DEFINE u == call[r].user
           k == call[r].kind
<1>1. /\ TypeOK /\ Relied(r) /\ Current /\ pc[r] = "commit" /\ u \in Users /\ r \notin committed
      /\ IsFiniteSet(sessions) /\ users' = [users EXCEPT ![u] = NewRow(r)]
      /\ sessions' = Remain(r) \union NewSession(r)
      /\ committed' = (IF Idle(r) THEN committed ELSE committed \union {r})
      /\ UNCHANGED call
  BY CallFacts DEF IInv, TableInv, ReqInv, Request, Critical, Commit, Answer
<1>2. \A v \in Users : users'[v] = IF v = u THEN NewRow(r) ELSE users[v]
  BY <1>1 DEF TypeOK
<1>3. k \in {"change", "reset", "suspend"} => \A s \in Remain(r) : s.user # u
  BY <1>1 DEF Relied, Remain, TokensOf, Of
<1>4. ASSUME NEW s \in sessions'
      PROVE  /\ s.word = users'[s.user].hash.word /\ users'[s.user].active
             /\ IF s.token \in Requests
                THEN s.token \in committed' /\ s.user = call'[s.token].user
                ELSE s \in Opened
  <2>1. CASE s \in NewSession(r)
    <3>1. /\ s.token = r /\ s.user = u /\ k \in {"login", "change"}
          /\ s.word = NewRow(r).hash.word /\ NewRow(r).active
      BY <1>1, <2>1, NewSessionFacts
    <3>2. ~ Idle(r)
      BY <3>1 DEF Idle
    <3> QED
      BY <1>1, <1>2, <3>1, <3>2
  <2>2. CASE s \in Remain(r)
    <3>1. /\ s \in sessions /\ s.word = users[s.user].hash.word /\ users[s.user].active
          /\ s.user \in Users
          /\ IF s.token \in Requests
             THEN s.token \in committed /\ s.user = call[s.token].user ELSE s \in Opened
      BY <1>1, <2>2 DEF Remain, Current, TypeOK, Session
    <3>2. CASE s.user # u
      BY <1>1, <1>2, <3>1, <3>2
    <3>3. CASE s.user = u
      <4>1. k \notin {"change", "reset", "suspend"}
        BY <1>3, <2>2, <3>3
      <4>2. NewRow(r).hash.word = users[u].hash.word /\ NewRow(r).active
        BY <1>1, <3>1, <3>3, <4>1, NewRowFacts
      <4> QED
        BY <1>1, <1>2, <3>1, <3>3, <4>2
    <3> QED
      BY <3>2, <3>3
  <2> QED
    BY <1>1, <2>1, <2>2
<1>5. Current'
  BY <1>4 DEF Current
<1>6. IsFiniteSet(sessions')
  <2>1. IsFiniteSet(Remain(r))
    BY <1>1, FS_Subset DEF Remain
  <2>2. CASE NewSession(r) = {}
    BY <1>1, <2>1, <2>2
  <2>3. CASE NewSession(r) # {}
    <3>1. PICK s : NewSession(r) = {s}
      BY <1>1, <2>3, NewSessionFacts
    <3> QED
      BY <1>1, <2>1, <3>1, FS_AddElement
  <2> QED
    BY <2>2, <2>3
<1>7. ASSUME NewRow(r).hash.word # users[u].hash.word, NEW s \in sessions', s \in Of(u)
      PROVE  FALSE
  <2>1. k \in {"change", "reset"}
    BY <1>1, <1>7, NewRowFacts
  <2>2. s \in NewSession(r) /\ s \in sessions
    BY <1>1, <1>3, <1>7, <2>1 DEF Of
  <2>3. s.token = r
    BY <1>1, <2>2, NewSessionFacts
  <2> QED
    BY <1>1, <2>2, <2>3 DEF Current
<1> QED
  BY <1>5, <1>6, <1>7

\* No more sessions than the limit are active.
LEMMA CapKept ==
  ASSUME IInv, NEW r \in Requests, Commit(r)
  PROVE  SessionsCapped'
<1>1. PICK u \in Users : u = call[r].user
  BY CallFacts DEF IInv
<1> DEFINE k == call[r].kind
           Kept == {s \in Active(u) : s.token \notin drop[r]}
<1>2. /\ TypeOK /\ Relied(r) /\ pc[r] = "commit" /\ IsFiniteSet(sessions) /\ SessionsCapped
      /\ sessions' = Remain(r) \union NewSession(r) /\ UNCHANGED <<call, expired>>
  BY DEF IInv, TableInv, ReqInv, Critical, Commit, Answer
<1>3. ASSUME NEW v \in Users PROVE IsFiniteSet(Active(v)) /\ Cardinality(Active(v)) <= MaxSessions
  <2>1. IsFiniteSet(Active(v))
    BY <1>2, FS_Subset DEF Active, Of
  <2> QED
    BY <1>2, <2>1 DEF SessionsCapped
<1>4. ASSUME NEW v \in Users, v # u \/ NewSession(r) = {}
      PROVE  Cardinality(Active(v)') <= MaxSessions
  <2>1. Active(v)' \subseteq Active(v)
    BY <1>1, <1>2, <1>4, NewSessionFacts DEF Active, Of, Remain
  <2> QED
    BY <1>3, <2>1, Fewer, CredentialsAssumption
<1>5. ASSUME NEW s \in NewSession(r) PROVE Cardinality(Active(u)') <= MaxSessions
  <2>1. NewSession(r) = {s} /\ k \in {"login", "change"}
    BY <1>2, <1>5, NewSessionFacts
  <2>2. Active(u)' \subseteq Kept \union {s}
    BY <1>1, <1>2, <2>1 DEF Active, Of, Remain
  <2>3. IsFiniteSet(Kept)
    BY <1>3, FS_Subset
  <2>4. Cardinality(Kept) < MaxSessions
    <3>1. CASE k = "login"
      BY <1>1, <1>2, <3>1 DEF Relied
    <3>2. CASE k = "change"
      <4>1. Kept = {}
        BY <1>1, <1>2, <3>2 DEF Relied, TokensOf, Of, Active
      <4> HIDE DEF Kept
      <4> QED
        BY <4>1, FS_EmptySet, CredentialsAssumption
    <3> QED
      BY <2>1, <3>1, <3>2
  <2> HIDE DEF Kept
  <2> DEFINE All == Kept \union {s}
  <2>5. /\ IsFiniteSet(All)
        /\ Cardinality(All) = Cardinality(Kept) \/ Cardinality(All) = Cardinality(Kept) + 1
    BY <2>3, FS_AddElement
  <2>6. Active(u)' \subseteq All
    BY <2>2
  <2> HIDE DEF All
  <2>7. Cardinality(All) <= MaxSessions
    <3>1. Cardinality(Kept) \in Nat
      BY <2>3, FS_CardinalityType
    <3> QED
      BY <2>4, <2>5, <3>1, CredentialsAssumption
  <2> QED
    BY <2>5, <2>6, <2>7, Fewer, CredentialsAssumption
<1>6. ASSUME NEW v \in Users PROVE Cardinality(Active(v)') <= MaxSessions
  BY <1>4, <1>5
<1> QED
  BY <1>6 DEF SessionsCapped

\* Every occurrence is counted once, in one row.
LEMMA CountKept ==
  ASSUME IInv, NEW r \in Requests, Commit(r)
  PROVE  /\ JournalCounts' /\ journal' \in [Users -> [Kinds -> Seq(Nat)]]
         /\ \A v \in Users \ {call[r].user} : journal'[v] = journal[v]
<1>1. PICK u \in Users, k \in Kinds : u = call[r].user /\ k = call[r].kind
  BY CallFacts DEF IInv
<1> DEFINE Done(v, j) == {q \in committed : call[q].user = v /\ call[q].kind = j}
<1>2. /\ TypeOK /\ Relied(r) /\ JournalCounts /\ pc[r] = "commit"
      /\ r \notin committed /\ noted[r] = journal[u][k] /\ UNCHANGED call
      /\ journal' = (IF k \in Coalesced /\ ~ Idle(r)
                     THEN [journal EXCEPT ![u][k] = Journal(r)] ELSE journal)
      /\ committed' = (IF Idle(r) THEN committed ELSE committed \union {r})
  BY <1>1 DEF IInv, TableInv, ReqInv, Request, Critical, Relied, Commit, Answer
<1>3. \A v \in Users, j \in Coalesced :
        journal[v][j] = IF Cardinality(Done(v, j)) = 0 THEN <<>> ELSE <<Cardinality(Done(v, j))>>
  BY <1>2 DEF JournalCounts
<1>4. CASE k \in Coalesced /\ ~ Idle(r)
  <2> DEFINE n == Cardinality(Done(u, k))
  <2>1. IsFiniteSet(committed)
    BY <1>2, FS_Subset, CredentialsAssumption DEF TypeOK
  <2>2. IsFiniteSet(Done(u, k)) /\ n \in Nat
    BY <2>1, FS_Subset, FS_CardinalityType
  <2>3. Done(u, k)' = Done(u, k) \union {r} /\ r \notin Done(u, k)
    BY <1>1, <1>2, <1>4
  <2>4. Cardinality(Done(u, k)') = n + 1
    <3> HIDE DEF Done
    <3> QED
      BY <2>2, <2>3, FS_AddElement
  <2>5. Journal(r) = <<n + 1>>
    <3>1. journal[u][k] = IF n = 0 THEN <<>> ELSE <<n>>
      BY <1>2, <1>3, <1>4
    <3> HIDE DEF n
    <3>2. CASE n = 0
      BY <1>1, <1>2, <3>1, <3>2 DEF Journal
    <3>3. CASE n # 0
      <4>1. /\ journal[u][k] = <<n>> /\ Len(noted[r]) = 1 /\ noted[r][1] = n
        BY <1>2, <3>1, <3>3
      <4>2. Journal(r) = [journal[u][k] EXCEPT ![1] = n + 1]
        BY <1>1, <4>1 DEF Journal
      <4> QED
        BY <2>2, <4>1, <4>2 DEF n
    <3> QED
      BY <3>2, <3>3
  <2>6. journal' = [journal EXCEPT ![u][k] = <<n + 1>>]
    BY <1>2, <1>4, <2>5
  <2>7. n + 1 \in Nat /\ n + 1 # 0 /\ <<n + 1>> \in Seq(Nat)
    BY <2>2
  <2> HIDE DEF n
  <2>8. journal' \in [Users -> [Kinds -> Seq(Nat)]]
    <3>1. [journal[u] EXCEPT ![k] = <<n + 1>>] \in [Kinds -> Seq(Nat)]
      BY <1>2, <2>7 DEF TypeOK
    <3>2. journal' = [journal EXCEPT ![u] = [journal[u] EXCEPT ![k] = <<n + 1>>]]
      BY <2>6
    <3> QED
      BY <1>2, <3>1, <3>2 DEF TypeOK
  <2>9. \A v \in Users, j \in Kinds : journal'[v][j] = IF v = u /\ j = k THEN <<n + 1>>
                                                                       ELSE journal[v][j]
    BY <1>2, <2>6 DEF TypeOK
  <2>10. \A v \in Users, j \in Coalesced : v # u \/ j # k => Done(v, j)' = Done(v, j)
    BY <1>1, <1>2, <1>4
  <2>11. ASSUME NEW v \in Users, NEW j \in Coalesced
         PROVE  journal'[v][j] = IF Cardinality(Done(v, j)') = 0 THEN <<>>
                                 ELSE <<Cardinality(Done(v, j)')>>
    <3>1. j \in Kinds
      BY DEF Coalesced, Kinds
    <3> HIDE DEF Done
    <3>2. CASE v = u /\ j = k
      BY <2>4, <2>7, <2>9, <3>1, <3>2
    <3>3. CASE v # u \/ j # k
      BY <1>3, <2>9, <2>10, <3>1, <3>3
    <3> QED
      BY <3>2, <3>3
  <2>12. JournalCounts'
    BY <2>11 DEF JournalCounts
  <2>13. \A v \in Users \ {u} : journal'[v] = journal[v]
    BY <1>2, <2>6 DEF TypeOK
  <2> QED
    BY <1>1, <2>8, <2>12, <2>13
<1>5. CASE ~ (k \in Coalesced /\ ~ Idle(r))
  <2>1. journal' = journal
    BY <1>2, <1>5
  <2>2. \A v \in Users, j \in Coalesced : Done(v, j)' = Done(v, j)
    BY <1>1, <1>2, <1>5
  <2>3. JournalCounts'
    BY <1>3, <2>1, <2>2 DEF JournalCounts
  <2> QED
    BY <1>2, <2>1, <2>3 DEF TypeOK
<1> QED
  BY <1>4, <1>5

\* A commit keeps the invariant.
LEMMA CommitKeeps ==
  ASSUME IInv, NEW r \in Requests, Commit(r)
  PROVE  IInv'
<1> DEFINE u == call[r].user
<1>1. /\ TypeOK /\ ReqInv(r) /\ Relied(r) /\ pc[r] = "commit" /\ r \notin committed
      /\ pc' = [pc EXCEPT ![r] = "done"]
      /\ reply' \in [Requests -> Replies] /\ \A q \in Requests \ {r} : reply'[q] = reply[q]
      /\ users' = [users EXCEPT ![u] = NewRow(r)]
      /\ sessions' = Remain(r) \union NewSession(r)
      /\ committed' = (IF Idle(r) THEN committed ELSE committed \union {r})
      /\ UNCHANGED <<call, local, expired>> /\ u \in Users
  BY CallFacts DEF IInv, TypeOK, ReqInv, Request, Critical, Commit, Answer, Replies
<1>2. NewRow(r) \in Row /\ NewSession(r) \subseteq Session /\ Remain(r) \subseteq sessions
  BY <1>1, NewRowFacts, NewSessionFacts DEF Remain
<1>3. TableInv' /\ journal' \in [Users -> [Kinds -> Seq(Nat)]]
      /\ \A v \in Users \ {u} : journal'[v] = journal[v]
  BY CurrentKept, CapKept, CountKept DEF TableInv
<1>4. TypeOK'
  BY <1>1, <1>2, <1>3 DEF TypeOK, local, Labels
<1>5. Others(r) /\ Critical(r) /\ ~ Critical(r)'
  BY <1>1 DEF TypeOK, Others, local, Critical
<1>6. Apart(r)
  <2>1. \A s \in sessions' \ sessions : s.token = r /\ s.user = u
    BY <1>1, <1>2, NewSessionFacts
  <2> QED
    BY <1>1, <1>3, <2>1 DEF Apart, TypeOK
<1>7. Exclusive'
  BY <1>1, <1>5 DEF IInv, Exclusive, Others, Critical
<1>8. ReqInv(r)'
  <2>1. pc'[r] = "done" /\ call' = call
    BY <1>1 DEF TypeOK
  <2>2. call[r].kind \in {"logout", "change"} => HasCookie(r)'
    BY <1>1 DEF ReqInv, Request, HasCookie
  <2>3. call[r].kind = "logout" => call[r].cookie \notin TokensOf(sessions')
    <3> SUFFICES ASSUME call[r].kind = "logout", NEW s \in sessions', s.token = call[r].cookie
                 PROVE  FALSE
      BY DEF TokensOf
    <3>1. s \in Remain(r)
      BY <1>1 DEF NewSession
    <3> QED
      BY <1>1, <3>1 DEF Relied, Remain, TokensOf
  <2> QED
    BY <1>5, <2>1, <2>2, <2>3 DEF ReqInv, Request
<1> QED
  BY <1>3, <1>4, <1>5, <1>6, <1>7, <1>8, OneStep

-----------------------------------------------------------------------------
(* The theorems *)

\* The invariant holds at first.
LEMMA InitIInv == Init => IInv
<1> SUFFICES ASSUME Init PROVE IInv
  OBVIOUS
<1>1. PICK salt \in {"fresh", "outdated"} :
        users = [u \in Users |-> [hash |-> [word |-> FirstWord[u], salt |-> salt],
                                  version |-> 1, active |-> TRUE]]
  BY DEF Init
<1>2. /\ call \in [Requests -> Calls] /\ pc = [r \in Requests |-> "arrive"]
      /\ seen = [r \in Requests |-> users[call[r].user]]
      /\ sessions = Opened /\ expired = {} /\ committed = {}
      /\ reply = [r \in Requests |-> "none"]
  BY DEF Init
<1>3. users \in [Users -> Row]
  BY <1>1, CredentialsAssumption DEF Row, Hash, Salts
<1>4. TypeOK
  <2>1. seen \in [Requests -> Row]
    BY <1>2, <1>3, CredentialsAssumption DEF Call
  <2>2. /\ tries \in [Requests -> 0..MaxTries] /\ drop \in [Requests -> SUBSET Tokens]
        /\ noted \in [Requests -> Seq(Nat)]
        /\ journal \in [Users -> [Kinds -> Seq(Nat)]]
    BY CredentialsAssumption DEF Init
  <2>3. sessions \subseteq Session
    BY <1>2, OpenedFacts
  <2> QED
    BY <1>2, <1>3, <2>1, <2>2, <2>3 DEF TypeOK, Labels, Replies
<1>5. TableInv
  <2>1. Current
    BY <1>1, <1>2, OpenedFacts DEF Current, Session
  <2>2. SessionsCapped
    <3>1. \A u \in Users : Active(u) = {s \in Opened : s.user = u}
      BY <1>2 DEF Active, Of
    <3> QED
      BY <3>1, CredentialsAssumption DEF SessionsCapped
  <2>3. JournalCounts
    <3> DEFINE count(u, k) ==
                 Cardinality({r \in committed : call[r].user = u /\ call[r].kind = k})
    <3>1. ASSUME NEW u \in Users, NEW k \in Coalesced
          PROVE  journal[u][k] = IF count(u, k) = 0 THEN <<>> ELSE <<count(u, k)>>
      <4>1. journal[u][k] = <<>>
        BY DEF Init, Coalesced, Kinds
      <4>2. {r \in committed : call[r].user = u /\ call[r].kind = k} = {}
        BY <1>2
      <4>3. count(u, k) = 0
        BY <4>2, FS_EmptySet
      <4> HIDE DEF count
      <4> QED
        BY <4>1, <4>3
    <3> QED
      BY <3>1 DEF JournalCounts
  <2> QED
    BY <1>2, <2>1, <2>2, <2>3, CredentialsAssumption DEF TableInv
<1>6. Exclusive /\ \A r \in Requests : ReqInv(r)
  BY <1>2 DEF Exclusive, ReqInv, Request, Critical
<1> QED
  BY <1>4, <1>5, <1>6 DEF IInv

\* Every step keeps it.
LEMMA NextIInv == IInv /\ [Next]_vars => IInv'
<1> SUFFICES ASSUME IInv, [Next]_vars PROVE IInv'
  OBVIOUS
<1>1. CASE UNCHANGED vars
  <2>1. TypeOK' /\ Exclusive'
    BY <1>1 DEF vars, local, IInv, TypeOK, Exclusive, Critical
  <2>2. \A u : Of(u)' = Of(u) /\ Active(u)' = Active(u)
    BY <1>1 DEF vars, Of, Active
  <2>3. TableInv'
    BY <1>1, <2>2 DEF vars, IInv, TableInv, Current, SessionsCapped, JournalCounts
  <2>4. ASSUME NEW r \in Requests PROVE ReqInv(r)'
    <3>1. Request(r)' /\ (Critical(r)' => Critical(r))
      BY <1>1 DEF vars, local, IInv, ReqInv, Request, HasCookie, TokensOf, Critical
    <3>2. Relied(r) => Relied(r)'
      BY <1>1, <2>2 DEF vars, local, Relied, TokensOf
    <3> QED
      BY <3>1, <3>2 DEF IInv, ReqInv
  <2> QED
    BY <2>1, <2>3, <2>4 DEF IInv
<1>2. ASSUME NEW r \in Requests, Step(r) \/ Abort(r) PROVE IInv'
  BY <1>2, ArriveKeeps, VerifyKeeps, LockKeeps, WriteKeeps, CommitKeeps, AbortKeeps DEF Step
<1>3. ASSUME NEW s \in sessions, Expire(s) PROVE IInv'
  BY <1>3, ExpireKeeps
<1> QED
  BY <1>1, <1>2, <1>3 DEF Next

\* The invariant holds in every behaviour.
LEMMA Invariant == Spec => []IInv
BY InitIInv, NextIInv, PTL DEF Spec

\* Every variable keeps its type.
THEOREM TypeCorrect == Spec => []TypeOK
<1>1. IInv => TypeOK
  BY DEF IInv
<1> QED
  BY <1>1, Invariant, PTL

\* No session outlives the password it was opened with.
THEOREM PasswordsAreWithdrawn == Spec => []NoWithdrawnPassword
<1>1. IInv => NoWithdrawnPassword
  BY DEF IInv, TableInv, Current, NoWithdrawnPassword
<1> QED
  BY <1>1, Invariant, PTL

\* A suspended user has no session.
THEOREM SuspensionsLockOut == Spec => []NoSessionOfTheSuspended
<1>1. IInv => NoSessionOfTheSuspended
  BY DEF IInv, TableInv, Current, NoSessionOfTheSuspended
<1> QED
  BY <1>1, Invariant, PTL

\* No user has more active sessions than the limit.
THEOREM SessionsAreCapped == Spec => []SessionsCapped
<1>1. IInv => SessionsCapped
  BY DEF IInv, TableInv
<1> QED
  BY <1>1, Invariant, PTL

\* A logout that was answered has ended its session.
THEOREM LogoutsLast == Spec => []LoggedOut
<1>1. IInv => LoggedOut
  BY DEF IInv, ReqInv, Request, LoggedOut
<1> QED
  BY <1>1, Invariant, PTL

\* The coalesced audit rows count every occurrence.
THEOREM JournalIsExact == Spec => []JournalCounts
<1>1. IInv => JournalCounts
  BY DEF IInv, TableInv
<1> QED
  BY <1>1, Invariant, PTL

\* A password changes only with its version and the end of every session.
THEOREM PasswordsStayReplaced == Spec => NoPasswordRestored
<1> DEFINE Replaced(u) ==
      users'[u].hash.word # users[u].hash.word
        => /\ users'[u].version = users[u].version + 1
           /\ sessions' \cap Of(u) = {}
<1>1. ASSUME IInv, [Next]_vars, NEW u \in Users, users'[u].hash.word # users[u].hash.word
      PROVE  /\ users'[u].version = users[u].version + 1
             /\ sessions' \cap Of(u) = {}
  <2>1. users' # users
    BY <1>1
  <2>2. PICK r \in Requests : Commit(r)
    BY <1>1, <2>1 DEF Next, Step, vars, tables, Arrive, Verify, Lock, Write, Abort, Expire,
                      Refuse, Proceed
  <2>3. /\ TypeOK /\ pc[r] = "commit" /\ users' = [users EXCEPT ![call[r].user] = NewRow(r)]
    BY <1>1, <2>2 DEF IInv, Commit, Answer
  <2>4. u = call[r].user /\ users'[u] = NewRow(r)
    BY <1>1, <2>3 DEF TypeOK
  <2>5. call[r].kind \in {"change", "reset"} /\ NewRow(r).version = users[u].version + 1
    BY <1>1, <2>3, <2>4, NewRowFacts
  <2> QED
    BY <1>1, <2>2, <2>4, <2>5, CurrentKept
<1>2. IInv /\ [Next]_vars => [\A u \in Users : Replaced(u)]_vars
  BY <1>1
<1> QED
  BY <1>2, Invariant, PTL DEF Spec, NoPasswordRestored

-----------------------------------------------------------------------------
(* What the answers mean *)

\* A transaction that writes a new hash: a login only where the hash it
\* verified is outdated.
Rehashes(q) ==
  \/ call[q].kind \in {"change", "reset"}
  \/ call[q].kind = "login" /\ NeedsRehash(seen[q].hash)

Rehashers(u) == {q \in committed : call[q].user = u /\ Rehashes(q)}

\* A refusal has stored nothing, a success has been committed, and whoever is
\* told that the credential changed has lost to that many commits that changed
\* it.
AnswersAreTrue ==
  \A r \in Requests :
    /\ reply[r] \in {"unauthorized", "busy", "credential_changed"} => r \notin committed
    /\ reply[r] = "ok" => r \in committed \/ call[r].kind = "logout"
    /\ reply[r] = "credential_changed" => Cardinality(Rehashers(call[r].user)) >= MaxTries

\* Every round of a loop was lost to a commit of its own; a round whose hash is
\* already gone has one more to its name.
RoundsLost(r) ==
  LET n == Cardinality(Rehashers(call[r].user))
  IN  /\ tries[r] <= n
      /\ pc[r] \in {"verify", "lock"} /\ users[call[r].user].hash # seen[r].hash => tries[r] < n

Answered(r) ==
  /\ reply[r] # "none" => pc[r] = "done"
  /\ reply[r] \in {"unauthorized", "busy", "credential_changed"} => r \notin committed
  /\ reply[r] = "ok" => r \in committed \/ call[r].kind = "logout"
  /\ reply[r] = "credential_changed" => tries[r] = MaxTries

\* What a step of a request leaves as it was.
LEMMA OwnStep ==
  ASSUME IInv, NEW r \in Requests, Step(r) \/ Abort(r)
  PROVE  /\ pc[r] # "done" /\ call' = call /\ Others(r)
         /\ UNCHANGED <<users, committed>> \/ Commit(r)
<1>1. TypeOK
  BY DEF IInv
<1>2. CASE Arrive(r)
  BY <1>1, <1>2 DEF Arrive, Look, Proceed, Refuse, Answer, TypeOK, Others, local, tables
<1>3. CASE Verify(r)
  BY <1>1, <1>3 DEF Verify, Proceed, Refuse, Answer, TypeOK, Others, local, tables
<1>4. CASE Lock(r)
  BY <1>1, <1>4 DEF Lock, Look, Proceed, Refuse, Answer, TypeOK, Others, local, tables
<1>5. CASE Write(r)
  BY <1>1, <1>5 DEF Write, Proceed, TypeOK, Others, tables
<1>6. CASE Commit(r)
  BY <1>1, <1>6 DEF Commit, Answer, TypeOK, Others, local
<1>7. CASE Abort(r)
  BY <1>1, <1>7 DEF Abort, Refuse, Answer, TypeOK, Others, local, tables, Labels
<1> QED
  BY <1>2, <1>3, <1>4, <1>5, <1>6, <1>7 DEF Step

\* There are ever more of them, and one more with every change of the hash.
LEMMA RehashersGrow ==
  ASSUME IInv, [Next]_vars, NEW u \in Users
  PROVE  LET n == Cardinality(Rehashers(u))
             m == Cardinality(Rehashers(u)')
         IN  /\ n \in Nat /\ m \in Nat /\ n <= m
             /\ users'[u].hash # users[u].hash => n < m
<1> DEFINE R == Rehashers(u)
<1>1. TypeOK /\ TypeOK' /\ call' = call
  BY NextIInv, OwnStep DEF IInv, Next, Expire, vars
<1>2. IsFiniteSet(committed) /\ IsFiniteSet(committed')
  BY <1>1, FS_Subset, CredentialsAssumption DEF TypeOK
<1>3. IsFiniteSet(R) /\ IsFiniteSet(R')
  BY <1>2, FS_Subset DEF Rehashers
<1>4. \A q \in committed : seen'[q] = seen[q] /\ q \in committed'
  <2>1. CASE UNCHANGED vars \/ \E s \in sessions : Expire(s)
    BY <2>1 DEF vars, Expire, local, tables
  <2>2. ASSUME NEW r \in Requests, Step(r) \/ Abort(r), NEW q \in committed
        PROVE  seen'[q] = seen[q] /\ q \in committed'
    <3>1. q \in Requests /\ q # r
      BY <1>1, <2>2, OwnStep DEF IInv, ReqInv, Request, TypeOK
    <3>2. committed \subseteq committed'
      BY <2>2, OwnStep DEF Commit
    <3> QED
      BY <2>2, <3>1, <3>2, OwnStep DEF Others
  <2> QED
    BY <2>1, <2>2 DEF Next
<1>5. R \subseteq R'
  BY <1>1, <1>4 DEF Rehashers, Rehashes
<1>6. ASSUME users'[u].hash # users[u].hash
      PROVE  \E r : r \in R' /\ r \notin R
  <2>1. PICK r \in Requests : Commit(r)
    BY <1>6, OwnStep DEF Next, Expire, vars, tables
  <2>2. /\ pc[r] = "commit" /\ r \notin committed /\ UNCHANGED <<call, seen>>
        /\ users' = [users EXCEPT ![call[r].user] = NewRow(r)]
        /\ committed' = (IF Idle(r) THEN committed ELSE committed \union {r})
    BY <2>1 DEF IInv, ReqInv, Request, Commit, Answer, local
  <2>3. u = call[r].user /\ NewRow(r).hash # users[u].hash
    BY <1>1, <1>6, <2>2 DEF TypeOK
  <2>4. Rehashes(r) /\ ~ Idle(r)
    BY <2>3 DEF NewRow, NewHash, Rehashes, Idle
  <2> QED
    BY <2>2, <2>3, <2>4 DEF Rehashers, Rehashes
<1> HIDE DEF R
<1>7. Cardinality(R) \in Nat /\ Cardinality(R') \in Nat /\ Cardinality(R) <= Cardinality(R')
  BY <1>3, <1>5, FS_CardinalityType, FS_Subset
<1>8. ASSUME users'[u].hash # users[u].hash PROVE Cardinality(R) < Cardinality(R')
  BY <1>3, <1>5, <1>6, <1>7, <1>8, FS_Subset
<1> QED
  BY <1>7, <1>8 DEF R

\* A request whose step it is not.
LEMMA RoundsOfOthers ==
  ASSUME IInv, [Next]_vars, NEW q \in Requests, RoundsLost(q), Answered(q),
         /\ pc'[q] = pc[q] /\ seen'[q] = seen[q] /\ tries'[q] = tries[q] /\ reply'[q] = reply[q],
         call' = call, q \in committed' <=> q \in committed
  PROVE  RoundsLost(q)' /\ Answered(q)'
<1> DEFINE u == call[q].user
           n == Cardinality(Rehashers(u))
<1>1. /\ n \in Nat /\ n' \in Nat /\ n <= n' /\ (users'[u].hash # users[u].hash => n < n')
  BY CallFacts, RehashersGrow DEF IInv
<1>2. tries[q] \in Nat
  BY CredentialsAssumption DEF IInv, TypeOK
<1>3. /\ tries[q] <= n
      /\ pc[q] \in {"verify", "lock"} /\ users[u].hash # seen[q].hash => tries[q] < n
  BY DEF RoundsLost
<1> HIDE DEF n
<1>4. /\ tries'[q] <= n'
      /\ pc'[q] \in {"verify", "lock"} /\ users'[u].hash # seen'[q].hash => tries'[q] < n'
  BY <1>1, <1>2, <1>3
<1> QED
  BY <1>4 DEF RoundsLost, Answered, n

\* The request whose step it is.
LEMMA RoundsOfOwn ==
  ASSUME IInv, [Next]_vars, NEW r \in Requests, Step(r) \/ Abort(r), RoundsLost(r), Answered(r)
  PROVE  RoundsLost(r)' /\ Answered(r)'
<1> DEFINE u == call[r].user
           n == Cardinality(Rehashers(u))
<1>0. call' = call
  BY OwnStep
<1>1. /\ n \in Nat /\ n' \in Nat /\ n <= n' /\ (users'[u].hash # users[u].hash => n < n')
  BY <1>0, CallFacts, RehashersGrow DEF IInv
<1>2. /\ TypeOK /\ tries[r] \in Nat /\ pc[r] # "done" /\ r \notin committed /\ reply[r] = "none"
      /\ call' = call
  BY OwnStep, CredentialsAssumption DEF IInv, TypeOK, ReqInv, Request, Answered
<1>3. /\ tries[r] <= n
      /\ pc[r] \in {"verify", "lock"} /\ users[u].hash # seen[r].hash => tries[r] < n
  BY DEF RoundsLost
<1> HIDE DEF n
<1>4. ASSUME tries'[r] <= n',
             pc'[r] \in {"verify", "lock"} /\ users'[u].hash # seen'[r].hash => tries'[r] < n'
      PROVE  RoundsLost(r)'
  BY <1>2, <1>4 DEF RoundsLost, n
<1>5. ASSUME NEW here \in Labels, NEW answer \in Replies, Refuse(r, here, answer),
             answer = "credential_changed" => tries[r] = MaxTries,
             answer = "ok" => call[r].kind = "logout"
      PROVE  RoundsLost(r)' /\ Answered(r)'
  <2>1. /\ pc'[r] = "done" /\ reply'[r] = answer /\ tries' = tries /\ committed' = committed
    BY <1>2, <1>5 DEF Refuse, Answer, TypeOK, local, tables
  <2> QED
    BY <1>1, <1>2, <1>3, <1>4, <1>5, <2>1 DEF Answered
<1>6. ASSUME NEW here \in Labels, NEW next \in Labels, Proceed(r, here, next), tries' = tries,
             next \in {"verify", "lock"} => \/ seen'[r].hash = users[u].hash
                                            \/ seen' = seen /\ here \in {"verify", "lock"}
      PROVE  RoundsLost(r)' /\ Answered(r)'
  <2>1. /\ pc[r] = here /\ pc'[r] = next /\ UNCHANGED <<reply, users, committed>>
    BY <1>2, <1>6 DEF Proceed, TypeOK, tables
  <2> QED
    BY <1>1, <1>2, <1>3, <1>4, <1>6, <2>1 DEF Answered
<1>7. CASE Arrive(r)
  <2>1. CASE Look(r) /\ UNCHANGED tries
             /\ \E next \in {"verify", "lock"} : Proceed(r, "arrive", next)
    <3>1. seen'[r].hash = users[u].hash
      BY <1>2, <2>1 DEF Look, TypeOK
    <3> QED
      BY <1>6, <2>1, <3>1 DEF Labels
  <2>2. CASE Refuse(r, "arrive", "unauthorized")
    BY <1>5, <2>2 DEF Labels, Replies
  <2>3. CASE call[r].kind = "logout" /\ Refuse(r, "arrive", "ok")
    BY <1>5, <2>3 DEF Labels, Replies
  <2> QED
    BY <1>7, <2>1, <2>2, <2>3 DEF Arrive
<1>8. CASE Verify(r)
  <2>1. CASE Proceed(r, "verify", "lock") /\ UNCHANGED local
    BY <1>6, <2>1 DEF Labels, local
  <2>2. CASE tries[r] = MaxTries /\ Refuse(r, "verify", "credential_changed")
    BY <1>5, <2>2 DEF Labels, Replies
  <2>3. CASE Refuse(r, "verify", "unauthorized")
    BY <1>5, <2>3 DEF Labels, Replies
  <2>4. CASE Refuse(r, "verify", "busy")
    BY <1>5, <2>4 DEF Labels, Replies
  <2> QED
    BY <1>8, <2>1, <2>2, <2>3, <2>4 DEF Verify
<1>9. CASE Lock(r)
  <2>1. CASE Proceed(r, "lock", "write") /\ UNCHANGED tries
    BY <1>6, <2>1 DEF Labels
  <2>2. CASE /\ users[u].hash # seen[r].hash /\ Look(r)
             /\ tries' = [tries EXCEPT ![r] = @ + 1] /\ Proceed(r, "lock", "verify")
    <3>1. /\ pc[r] = "lock" /\ tries'[r] = tries[r] + 1 /\ seen'[r].hash = users[u].hash
          /\ UNCHANGED <<users, reply, committed>>
      BY <1>2, <2>2 DEF Look, Proceed, TypeOK, tables
    <3>2. tries'[r] <= n'
      BY <1>1, <1>2, <1>3, <2>2, <3>1
    <3> QED
      BY <1>2, <1>4, <3>1, <3>2 DEF Answered
  <2>3. CASE Refuse(r, "lock", "unauthorized")
    BY <1>5, <2>3 DEF Labels, Replies
  <2> QED
    BY <1>9, <2>1, <2>2, <2>3 DEF Lock
<1>10. CASE Write(r)
  BY <1>6, <1>10 DEF Write, Labels
<1>11. CASE Commit(r)
  <2>1. /\ pc'[r] = "done" /\ tries' = tries /\ reply'[r] \in {"ok", "lost"}
        /\ committed' = (IF Idle(r) THEN committed ELSE committed \union {r})
    BY <1>2, <1>11 DEF Commit, Answer, TypeOK, local
  <2>2. Idle(r) => call[r].kind = "logout"
    BY DEF Idle
  <2> QED
    BY <1>1, <1>2, <1>3, <1>4, <2>1, <2>2 DEF Answered
<1>12. CASE Abort(r)
  BY <1>5, <1>12 DEF Abort, Replies
<1> QED
  BY <1>7, <1>8, <1>9, <1>10, <1>11, <1>12 DEF Step

\* The rounds and the answers, in every behaviour.
LEMMA RoundsCounted == Spec => [](\A r \in Requests : RoundsLost(r) /\ Answered(r))
<1> DEFINE Inv == \A r \in Requests : RoundsLost(r) /\ Answered(r)
<1>1. Init => Inv
  <2> SUFFICES ASSUME Init, NEW r \in Requests PROVE RoundsLost(r) /\ Answered(r)
    OBVIOUS
  <2>1. /\ pc[r] = "arrive" /\ tries[r] = 0 /\ reply[r] = "none" /\ committed = {}
    BY DEF Init
  <2>2. Rehashers(call[r].user) = {}
    BY <2>1 DEF Rehashers
  <2>3. Cardinality(Rehashers(call[r].user)) = 0
    BY <2>2, FS_EmptySet
  <2> QED
    BY <2>1, <2>3 DEF RoundsLost, Answered
<1>2. ASSUME IInv, [Next]_vars, Inv, NEW q \in Requests PROVE RoundsLost(q)' /\ Answered(q)'
  <2>1. CASE UNCHANGED vars \/ \E s \in sessions : Expire(s)
    <3>1. UNCHANGED <<pc, call, seen, tries, reply, committed>>
      BY <2>1 DEF vars, Expire, local, tables
    <3> QED
      BY <1>2, <3>1, RoundsOfOthers
  <2>2. ASSUME NEW r \in Requests, Step(r) \/ Abort(r) PROVE RoundsLost(q)' /\ Answered(q)'
    <3>1. CASE q = r
      BY <1>2, <2>2, <3>1, RoundsOfOwn
    <3>2. CASE q # r
      <4>1. Others(r) /\ call' = call /\ (q \in committed' <=> q \in committed)
        BY <1>2, <2>2, <3>2, OwnStep DEF Commit
      <4> QED
        BY <1>2, <3>2, <4>1, RoundsOfOthers DEF Others
    <3> QED
      BY <3>1, <3>2
  <2> QED
    BY <1>2, <2>1, <2>2 DEF Next
<1>3. IInv /\ Inv /\ [Next]_vars => Inv'
  BY <1>2
<1> HIDE DEF Inv
<1>4. Spec => []Inv
  BY <1>1, <1>3, Invariant, PTL DEF Spec
<1> QED
  BY <1>4 DEF Inv

\* Every answer of the password handlers means what it says, and the bounded
\* loop never gives up on a password that stayed the same.
THEOREM AnswersMeanWhatTheySay == Spec => []AnswersAreTrue
<1>1. ASSUME \A r \in Requests : RoundsLost(r) /\ Answered(r) PROVE AnswersAreTrue
  <2> SUFFICES ASSUME NEW r \in Requests
               PROVE  /\ reply[r] \in {"unauthorized", "busy", "credential_changed"} => r \notin committed
                      /\ reply[r] = "ok" => r \in committed \/ call[r].kind = "logout"
                      /\ reply[r] = "credential_changed"
                           => Cardinality(Rehashers(call[r].user)) >= MaxTries
    BY DEF AnswersAreTrue
  <2>1. Answered(r) /\ tries[r] <= Cardinality(Rehashers(call[r].user))
    BY <1>1 DEF RoundsLost
  <2> QED
    BY <2>1 DEF Answered
<1>2. (\A r \in Requests : RoundsLost(r) /\ Answered(r)) => AnswersAreTrue
  BY <1>1
<1> QED
  BY <1>2, RoundsCounted, PTL

-----------------------------------------------------------------------------
(* Progress *)

Stage == [arrive |-> 0, verify |-> 1, lock |-> 2, write |-> 3, commit |-> 4, done |-> 5]

Advances(r) ==
  \/ /\ pc'[r] = pc[r] /\ reply'[r] = reply[r] /\ tries'[r] = tries[r]
     /\ r \in committed' <=> r \in committed
  \/ /\ Stage[pc[r]] < Stage[pc'[r]] /\ tries'[r] = tries[r]
     /\ r \in committed' => pc[r] = "commit"
  \/ /\ pc[r] = "lock" /\ pc'[r] = "verify" /\ reply'[r] = reply[r]
     /\ tries'[r] = tries[r] + 1 /\ tries'[r] <= MaxTries
     /\ r \notin committed'

(***************************************************************************)
(* A login or a change of password gets an answer after a bounded number   *)
(* of steps of its own, whatever the others do: each step brings it to a   *)
(* later statement or uses up one of the rounds of its loop, and nothing   *)
(* is committed before the last one.  Once it is answered, its answer and  *)
(* what it committed stay.                                                 *)
(***************************************************************************)
THEOREM RequestsAdvance == Spec => [][\A r \in Requests : Advances(r)]_vars
<1>1. ASSUME IInv, NEW r \in Requests, Step(r) \/ Abort(r) PROVE Advances(r)
  <2>1. /\ TypeOK /\ pc[r] \in Labels \ {"done"} /\ r \notin committed
    BY <1>1, OwnStep DEF IInv, ReqInv, Request, TypeOK
  <2>2. ASSUME NEW here \in Labels \ {"done"}, NEW answer, Refuse(r, here, answer)
        PROVE  Advances(r)
    BY <2>1, <2>2 DEF Refuse, Answer, Advances, Stage, Labels, TypeOK, local, tables
  <2>3. ASSUME NEW here, NEW next \in Labels, Proceed(r, here, next), tries' = tries,
               Stage[here] < Stage[next]
        PROVE  Advances(r)
    BY <2>1, <2>3 DEF Proceed, Advances, TypeOK, tables
  <2>4. CASE Arrive(r)
    <3>1. Stage["arrive"] < Stage["verify"] /\ Stage["arrive"] < Stage["lock"]
      BY DEF Stage
    <3>2. CASE \E answer : Refuse(r, "arrive", answer)
      BY <2>2, <3>2 DEF Labels
    <3>3. CASE UNCHANGED tries /\ \E next \in {"verify", "lock"} : Proceed(r, "arrive", next)
      BY <2>3, <3>1, <3>3 DEF Labels
    <3> QED
      BY <2>4, <3>2, <3>3 DEF Arrive
  <2>5. CASE Verify(r)
    <3>1. Stage["verify"] < Stage["lock"]
      BY DEF Stage
    <3> QED
      BY <2>2, <2>3, <2>5, <3>1 DEF Verify, Labels, local
  <2>6. CASE Lock(r)
    <3>1. Stage["lock"] < Stage["write"]
      BY DEF Stage
    <3>2. CASE tries' = [tries EXCEPT ![r] = @ + 1] /\ Proceed(r, "lock", "verify")
      <4>1. TypeOK'
        BY <1>1, <2>6, LockKeeps DEF IInv
      <4> QED
        BY <2>1, <3>2, <4>1 DEF Proceed, Advances, TypeOK, tables
    <3> QED
      BY <2>2, <2>3, <2>6, <3>1, <3>2 DEF Lock, Labels
  <2>7. CASE Write(r)
    <3>1. Stage["write"] < Stage["commit"]
      BY DEF Stage
    <3> QED
      BY <2>3, <2>7, <3>1 DEF Write, Labels
  <2>8. CASE Commit(r)
    BY <2>1, <2>8 DEF Commit, Answer, Advances, Stage, TypeOK, local
  <2>9. CASE Abort(r)
    BY <2>2, <2>9 DEF Abort
  <2> QED
    BY <1>1, <2>4, <2>5, <2>6, <2>7, <2>8, <2>9 DEF Step
<1>2. ASSUME IInv, [Next]_vars, NEW q \in Requests PROVE Advances(q)
  <2>1. CASE UNCHANGED vars \/ \E s \in sessions : Expire(s)
    BY <2>1 DEF vars, Expire, Advances, local, tables
  <2>2. ASSUME NEW r \in Requests, Step(r) \/ Abort(r) PROVE Advances(q)
    <3>1. CASE q = r
      BY <1>1, <1>2, <2>2, <3>1
    <3>2. CASE q # r
      <4>1. Others(r) /\ (UNCHANGED committed \/ Commit(r))
        BY <1>2, <2>2, OwnStep
      <4>2. q \in committed' <=> q \in committed
        BY <3>2, <4>1 DEF Commit
      <4>3. pc'[q] = pc[q] /\ reply'[q] = reply[q] /\ tries'[q] = tries[q]
        BY <3>2, <4>1 DEF Others
      <4> QED
        BY <4>2, <4>3 DEF Advances
    <3> QED
      BY <3>1, <3>2
  <2> QED
    BY <1>2, <2>1, <2>2 DEF Next
<1>3. IInv /\ [Next]_vars => \A r \in Requests : Advances(r)
  BY <1>2
<1> QED
  BY <1>3, Invariant, PTL DEF Spec

=============================================================================
