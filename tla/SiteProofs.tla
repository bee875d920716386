----------------------------- MODULE SiteProofs -----------------------------
(***************************************************************************)
(* The site's counters never exceed what was done, what was ended stays    *)
(* ended, and lists lose entries only to overlapping requests or the cap,  *)
(* for any requests, users and limits.                                     *)
(***************************************************************************)
EXTENDS SiteStore, FiniteSetTheorems, TLAPS

-----------------------------------------------------------------------------
(* The invariant *)

\* A handler stands where it may, and what a request names was given before.
ThreadOK(p) ==
    /\ pc[p] \in 0..Len(Steps[req[p].op])
    /\ pc[p] = 0 => resp[p] = None
    /\ pc[p] > 0 => Given(req[p])

SiteTypes ==
    /\ req \in [Requests -> Operation]
    /\ pc \in [Requests -> Nat]
    /\ resp \in [Requests -> Answers \cup {None}]
    /\ heard \in [Requests -> SUBSET Requests]
    /\ seen = [p \in Requests |-> seen[p]]
    /\ sessions \subseteq Tokens /\ apikeys \subseteq Requests /\ reports \subseteq Requests
    /\ doc = [d \in Docs |-> doc[d]]
    /\ \A p \in Requests : ThreadOK(p)

\* Who has read a document and is yet to write it back.
HoldsUser(p) ==
    /\ Active(p)
    /\ \/ req[p].op = "login" /\ pc[p] = 4
       \/ req[p].op = "save" /\ pc[p] = 6
HoldsStats(p) ==
    /\ Active(p)
    /\ \/ req[p].op = "login" /\ pc[p] \in {9, 10}
       \/ req[p].op = "save" /\ pc[p] = 10
       \/ req[p].op = "beacon" /\ pc[p] = 2

\* The saves that have counted a report of u, the runs and the logins that
\* the statistics may hold.
ReportsCounted(u) == {p \in Requests : req[p].op = "save" /\ User(p) = u /\ pc[p] > 6}
RunsCounted == {p \in Requests : req[p].op = "save" /\ Ok(p)}
LoginsCounted == {p \in Requests : req[p].op = "login" /\ Ok(p)}

UserWithin(user, bound) ==
    user # None => user \in UserDoc /\ user.reports <= bound

Within(counters, runs, logins) ==
    Count(counters.runs) <= runs /\ Count(counters.logins) <= logins

StatsWithin(stats, runs, logins) ==
    stats # None =>
        /\ stats \in StatsDoc
        /\ Within(stats, runs, logins)
        /\ stats.today # None => Within(stats.today, runs, logins)

\* A document holds no more than was counted, nor does a copy that is about to
\* be written back.
UsersBounded ==
    \A u \in Users :
        /\ UserWithin(doc[<<"user", u>>], Cardinality(ReportsCounted(u)))
        /\ \A p \in Requests : HoldsUser(p) /\ User(p) = u =>
                UserWithin(seen[p], Cardinality(ReportsCounted(u)))

StatsBounded(stats) ==
    StatsWithin(stats, Cardinality(RunsCounted), Cardinality(LoginsCounted))

StatisticsBounded ==
    /\ StatsBounded(doc[<<"stats", Site>>])
    /\ \A p \in Requests : HoldsStats(p) => StatsBounded(seen[p])

\* A save that has stored its report, and the report only leaves once its
\* request was answered.
ReportStored ==
    \A p \in Requests : req[p].op = "save" /\ pc[p] > 2 => p \in reports \/ Ok(p)

CountsInv == SiteTypes /\ UsersBounded /\ StatisticsBounded /\ ReportStored

Ends(q, token) ==
    \/ req[q].op = "logout" /\ req[q].token = token /\ token \notin Keys
    \/ /\ req[q].op = "drop_key" /\ req[q].of = token /\ token \in Keys
       /\ Cardinality(Keys) <= ListLimit

\* Only a login makes a session, only a request for a key makes a key, and none
\* is made again.
TokensMade ==
    /\ sessions \subseteq Members \cup {p \in Requests : req[p].op = "login"}
    /\ apikeys \subseteq Keys

\* Who was ended is in no table, and who heard of it got no further than the door.
TokensEnded ==
    /\ \A q \in Requests : req[q].op = "logout" /\ Completed(q) => req[q].token \notin sessions
    /\ \A q \in Requests :
            /\ req[q].op = "drop_key" /\ pc[q] > 3 /\ Cardinality(Keys) <= ListLimit
            => req[q].of \notin apikeys
    /\ \A p \in Requests : \A q \in heard[p] : resp[q] # None
    /\ \A p \in Requests : \A q \in heard[p] :
            /\ "token" \in DOMAIN req[p] /\ req[p].op # "logout"
            /\ Completed(q) /\ Ends(q, req[p].token)
            => pc[p] <= 1 /\ ~Ok(p)

TokensInv == SiteTypes /\ TokensMade /\ TokensEnded
-----------------------------------------------------------------------------
(* Requests and handlers *)

LEMMA OwnersStay == req' = req => Owner' = Owner
BY DEF Owner

LEMMA UsersStay == req' = req => \A p \in Requests : User(p)' = User(p)
BY OwnersStay DEF User

OpNames ==
    {"send_otp", "login", "logout", "new_key", "save", "delete", "drop_key", "grant",
     "revoke", "beacon"}
WithToken == {"logout", "new_key", "save", "delete", "drop_key", "grant", "revoke"}

\* What a request says.
LEMMA OperationFacts ==
  ASSUME NEW r \in Operation
  PROVE  /\ r.op \in OpNames
         /\ r.op \in WithToken <=> "token" \in DOMAIN r
         /\ r.op \in WithToken => r.token \in Tokens
         /\ r.op \in {"delete", "drop_key"} => "of" \in DOMAIN r /\ r.of \in Requests
         /\ r.op = "save" => r.domain \in Domains \cup {None}
BY DEF Operation, OpNames, WithToken

LEMMA LoginSteps ==
    LET s == Steps["login"] IN
    /\ Len(s) = 10
    /\ s[1] = "get_otp" /\ s[2] = "del_otp" /\ s[3] = "get_user" /\ s[4] = "put_user"
    /\ s[5] = "put_session" /\ s[6] = "get_activity" /\ s[7] = "put_activity"
    /\ s[8] = "get_stats" /\ s[9] = "count_logins" /\ s[10] = "put_stats"
BY DEF Steps, Track

LEMMA SaveSteps ==
    LET s == Steps["save"] IN
    /\ Len(s) = 10
    /\ s[1] = "auth" /\ s[2] = "put_report" /\ s[3] = "get_index" /\ s[4] = "put_index"
    /\ s[5] = "get_user" /\ s[6] = "put_user" /\ s[7] = "get_activity"
    /\ s[8] = "put_activity" /\ s[9] = "get_stats" /\ s[10] = "put_stats"
BY DEF Steps, SaveReport, Track

LEMMA ShortSteps ==
    /\ Steps["send_otp"] = <<"put_otp">> /\ Steps["logout"] = <<"del_session">>
    /\ Steps["delete"] = <<"auth", "get_report", "del_report", "get_index", "put_index">>
    /\ Steps["new_key"] = <<"auth", "put_key", "get_keys", "put_keys">>
    /\ Steps["drop_key"] = <<"auth", "get_keys", "del_key", "put_keys">>
    /\ LET s == <<"auth", "get_allowlist", "put_allowlist", "get_audit", "put_audit">> IN
       Steps["grant"] = s /\ Steps["revoke"] = s
    /\ Steps["beacon"] = <<"get_stats", "put_stats">>
BY DEF Steps, ChangeAdmins

LEMMA Lengths ==
  ASSUME NEW op \in OpNames
  PROVE  Len(Steps[op]) \in Nat /\ Len(Steps[op]) >= 1
<1>1. CASE op \in {"login", "save"}
  BY <1>1, LoginSteps, SaveSteps
<1>2. CASE op \in {"send_otp", "logout", "beacon"}
  BY <1>2, ShortSteps
<1>3. CASE op \in {"new_key", "drop_key"}
  BY <1>3, ShortSteps
<1>4. CASE op = "delete"
  BY <1>4, ShortSteps
<1>5. CASE op = "grant" \/ op = "revoke"
  BY <1>5, ShortSteps
<1> QED BY <1>1, <1>2, <1>3, <1>4, <1>5 DEF OpNames

\* Which handler makes a call, and where.
LEMMA Calls ==
  ASSUME NEW op \in OpNames, NEW i \in 1..Len(Steps[op])
  PROVE  LET l == Steps[op][i] IN
         /\ Len(Steps[op]) \in Nat
         /\ l = "get_user" <=> <<op, i>> \in {<<"login", 3>>, <<"save", 5>>}
         /\ l = "put_user" <=> <<op, i>> \in {<<"login", 4>>, <<"save", 6>>}
         /\ l = "get_stats" <=> <<op, i>> \in {<<"login", 8>>, <<"save", 9>>, <<"beacon", 1>>}
         /\ l = "put_stats" <=> <<op, i>> \in {<<"login", 10>>, <<"save", 10>>, <<"beacon", 2>>}
         /\ l = "put_stats" => i = Len(Steps[op])
         /\ l = "count_logins" <=> <<op, i>> = <<"login", 9>>
         /\ l = "put_report" <=> <<op, i>> = <<"save", 2>>
         /\ l = "del_report" <=> <<op, i>> = <<"delete", 3>>
         /\ l = "put_session" <=> <<op, i>> = <<"login", 5>>
         /\ l = "del_session" <=> <<op, i>> = <<"logout", 1>>
         /\ l = "put_key" <=> <<op, i>> = <<"new_key", 2>>
         /\ l = "del_key" <=> <<op, i>> = <<"drop_key", 3>>
         /\ l = "auth" <=> op \in WithToken \ {"logout"} /\ i = 1
<1>1. CASE op = "login"
  <2>1. i \in 1..10
    BY <1>1, LoginSteps
  <2> QED BY <1>1, <2>1, LoginSteps DEF WithToken
<1>2. CASE op = "save"
  <2>1. i \in 1..10
    BY <1>2, SaveSteps
  <2> QED BY <1>2, <2>1, SaveSteps DEF WithToken
<1>3. CASE op = "send_otp"
  <2>1. i \in 1..1 /\ Len(Steps[op]) = 1
    BY <1>3, ShortSteps
  <2> QED BY <1>3, <2>1, ShortSteps DEF WithToken
<1>4. CASE op = "logout"
  <2>1. i \in 1..1 /\ Len(Steps[op]) = 1
    BY <1>4, ShortSteps
  <2> QED BY <1>4, <2>1, ShortSteps DEF WithToken
<1>5. CASE op = "beacon"
  <2>1. i \in 1..2 /\ Len(Steps[op]) = 2
    BY <1>5, ShortSteps
  <2> QED BY <1>5, <2>1, ShortSteps DEF WithToken
<1>6. CASE op = "new_key"
  <2>1. i \in 1..4 /\ Len(Steps[op]) = 4
    BY <1>6, ShortSteps
  <2> QED BY <1>6, <2>1, ShortSteps DEF WithToken
<1>7. CASE op = "drop_key"
  <2>1. i \in 1..4 /\ Len(Steps[op]) = 4
    BY <1>7, ShortSteps
  <2> QED BY <1>7, <2>1, ShortSteps DEF WithToken
<1>8. CASE op = "delete"
  <2>1. i \in 1..5 /\ Len(Steps[op]) = 5
    BY <1>8, ShortSteps
  <2>2. LET s == Steps[op] IN
           s[1] = "auth" /\ s[2] = "get_report" /\ s[3] = "del_report" /\ s[4] = "get_index" /\ s[5] = "put_index"
    BY <1>8, ShortSteps
  <2> QED BY <1>8, <2>1, <2>2 DEF WithToken
<1>9. CASE op = "grant"
  <2>1. i \in 1..5 /\ Len(Steps[op]) = 5
    BY <1>9, ShortSteps
  <2>2. LET s == Steps[op] IN
           s[1] = "auth" /\ s[2] = "get_allowlist" /\ s[3] = "put_allowlist" /\ s[4] = "get_audit" /\ s[5] = "put_audit"
    BY <1>9, ShortSteps
  <2> QED BY <1>9, <2>1, <2>2 DEF WithToken
<1>10. CASE op = "revoke"
  <2>1. i \in 1..5 /\ Len(Steps[op]) = 5
    BY <1>10, ShortSteps
  <2>2. LET s == Steps[op] IN
           s[1] = "auth" /\ s[2] = "get_allowlist" /\ s[3] = "put_allowlist" /\ s[4] = "get_audit" /\ s[5] = "put_audit"
    BY <1>10, ShortSteps
  <2> QED BY <1>10, <2>1, <2>2 DEF WithToken
<1> QED BY <1>1, <1>2, <1>3, <1>4, <1>5, <1>6, <1>7, <1>8, <1>9, <1>10 DEF OpNames

-----------------------------------------------------------------------------
(* A step *)

\* The next call, or an answer.
Goes(p) ==
    \/ pc' = [pc EXCEPT ![p] = @ + 1] /\ pc[p] < Len(Steps[req[p].op]) /\ resp' = resp
    \/ pc' = pc /\ \E code \in Answers : resp' = [resp EXCEPT ![p] = code]

\* What every step of p's handler does and leaves.
Moves(p) ==
    /\ req' = req
    /\ \E x : seen' = [seen EXCEPT ![p] = x]
    /\ \/ /\ pc[p] = 0 /\ Given(req[p])
          /\ pc' = [pc EXCEPT ![p] = 1]
          /\ heard' = [heard EXCEPT ![p] = {q \in Requests : resp[q] # None}]
          /\ UNCHANGED <<store, seen, resp>>
       \/ Active(p) /\ heard' = heard /\ Goes(p)

LEMMA AtFacts ==
  ASSUME SiteTypes, NEW p \in Requests
  PROVE  /\ req[p] \in Operation /\ req[p].op \in OpNames
         /\ pc[p] \in Nat /\ Len(Steps[req[p].op]) \in Nat
         /\ Len(Steps[req[p].op]) >= 1
         /\ Active(p) => pc[p] \in 1..Len(Steps[req[p].op])
<1>1. req[p] \in Operation /\ req[p].op \in OpNames
  BY OperationFacts DEF SiteTypes
<1>2. Len(Steps[req[p].op]) \in Nat /\ Len(Steps[req[p].op]) >= 1
  BY <1>1, Lengths
<1> QED BY <1>1, <1>2 DEF SiteTypes, ThreadOK, Active

LEMMA AnswerGoes ==
  ASSUME SiteTypes, NEW p \in Requests, NEW code \in Answers, Answer(p, code)
  PROVE  Goes(p)
BY DEF Answer, Goes

LEMMA AdvanceGoes ==
  ASSUME SiteTypes, NEW p \in Requests, Active(p), Advance(p)
  PROVE  Goes(p)
<1>1. CASE pc[p] = Len(Steps[req[p].op])
  BY <1>1, AnswerGoes DEF Advance, Answers
<1>2. CASE pc[p] # Len(Steps[req[p].op])
  BY <1>2, AtFacts DEF Advance, Goes
<1> QED BY <1>1, <1>2

LEMMA StepMoves ==
  ASSUME SiteTypes, NEW p \in Requests, Step(p)
  PROVE  Moves(p)
<1>s. seen = [seen EXCEPT ![p] = seen[p]]
  BY DEF SiteTypes
<1>o. {"ok", "refused", "failed"} = Answers
  BY DEF Answers
<1>1. CASE Arrive(p)
  BY <1>1, <1>s DEF Arrive, Moves
<1>2. CASE Authenticate(p)
  BY <1>2, <1>s, <1>o, AdvanceGoes, AnswerGoes DEF Authenticate, Moves, At
<1>3. CASE PutOtp(p)
  BY <1>3, <1>s, <1>o, AnswerGoes DEF PutOtp, Moves, At
<1>4. CASE GetOtp(p)
  BY <1>4, <1>s, <1>o, AdvanceGoes, AnswerGoes DEF GetOtp, Moves, At
<1>5. CASE DeleteOtp(p)
  BY <1>5, <1>s, <1>o, AdvanceGoes, AnswerGoes DEF DeleteOtp, Moves, At
<1>6. CASE PutSession(p) \/ DeleteSession(p)
  BY <1>6, <1>s, AdvanceGoes DEF PutSession, DeleteSession, Moves, At
<1>7. CASE PutReport(p) \/ DeleteReport(p)
  BY <1>7, <1>s, AdvanceGoes DEF PutReport, DeleteReport, Moves, At
<1>8. CASE GetReport(p)
  BY <1>8, <1>s, <1>o, AdvanceGoes, AnswerGoes DEF GetReport, Moves, At
<1>9. CASE PutKey(p)
  BY <1>9, <1>s, AdvanceGoes DEF PutKey, Moves, At
<1>10. CASE DeleteKey(p)
  BY <1>10, <1>s, AdvanceGoes DEF DeleteKey, Moves, At
<1>11. CASE ReadDocument(p)
  BY <1>11, <1>s, <1>o, AdvanceGoes, AnswerGoes DEF ReadDocument, Moves
<1>12. CASE WriteDocument(p)
  <2>1. Active(p) /\ seen' = [seen EXCEPT ![p] = None] /\ UNCHANGED <<req, heard>>
    BY <1>12 DEF WriteDocument
  <2>2. (\E code \in Answers : Answer(p, code)) \/ Advance(p)
    BY <1>12, <1>o DEF WriteDocument
  <2> QED BY <2>1, <2>2, AdvanceGoes, AnswerGoes DEF Moves
<1>13. CASE CountLogins(p)
  BY <1>13, <1>s, AdvanceGoes DEF CountLogins, Moves, At
<1>14. CASE Fail(p)
  BY <1>14, <1>s, <1>o, AnswerGoes DEF Fail, Moves
<1> QED BY <1>1, <1>2, <1>3, <1>4, <1>5, <1>6, <1>7, <1>8, <1>9, <1>10, <1>11, <1>12,
           <1>13, <1>14 DEF Step

\* What was answered stays so.
LEMMA Stays ==
  ASSUME SiteTypes, NEW p \in Requests, Moves(p)
  PROVE  /\ \A q \in Requests : q # p => pc'[q] = pc[q] /\ resp'[q] = resp[q] /\ seen'[q] = seen[q]
         /\ \A q \in Requests : pc'[q] \in Nat /\ pc'[q] >= pc[q]
         /\ \A q \in Requests : resp[q] # None => resp'[q] = resp[q] /\ pc'[q] = pc[q]
         /\ \A q \in Requests : Ok(q) => Ok(q)'
         /\ \A q \in Requests : Given(req[q]) => Given(req[q])'
<1>1. /\ req' = req /\ pc \in [Requests -> Nat] /\ resp \in [Requests -> Answers \cup {None}]
      /\ seen = [q \in Requests |-> seen[q]]
  BY DEF Moves, SiteTypes
<1>2. /\ pc[p] = 0 => resp[p] = None
      /\ Active(p) => resp[p] = None
  BY DEF SiteTypes, ThreadOK, Active
<1>3. /\ \A q \in Requests : q # p => pc'[q] = pc[q] /\ resp'[q] = resp[q]
      /\ pc'[p] \in Nat /\ pc'[p] >= pc[p] /\ resp[p] = None
  <2>1. CASE pc[p] = 0 /\ pc' = [pc EXCEPT ![p] = 1] /\ resp' = resp
    BY <1>1, <1>2, <2>1
  <2>2. CASE Active(p) /\ Goes(p)
    BY <1>1, <1>2, <2>2 DEF Goes
  <2> QED BY <2>1, <2>2 DEF Moves
<1>4. \A q \in Requests : q # p => seen'[q] = seen[q]
  BY <1>1 DEF Moves
<1>5. \A q \in Requests : resp[q] # None => resp'[q] = resp[q] /\ pc'[q] = pc[q]
  BY <1>3
<1>6. \A q \in Requests : Ok(q) => Ok(q)'
  <2>1. None # "ok"
    BY MissingAssumption DEF Answers
  <2> QED BY <1>5, <2>1 DEF Ok
<1>7. \A q \in Requests : Given(req[q]) => Given(req[q])'
  <2> SUFFICES ASSUME NEW q \in Requests, Given(req[q]) PROVE Given(req[q])'
    OBVIOUS
  <2>1. req[q] \in Operation
    BY DEF SiteTypes
  <2>2. /\ req[q].op = "login" => req[q].code \in Requests \cup {None}
        /\ "of" \in DOMAIN req[q] => req[q].of \in Requests
    BY <2>1 DEF Operation
  <2> QED BY <1>1, <1>6, <2>2 DEF Given
<1>8. \A q \in Requests : pc'[q] \in Nat /\ pc'[q] >= pc[q]
  BY <1>1, <1>3
<1> QED BY <1>3, <1>4, <1>5, <1>6, <1>7, <1>8

\* Which steps change what the store holds.
Writing(p) ==
    /\ Active(p) /\ Label(p) \in DOMAIN Puts /\ Advance(p)
    /\ LET kind == Puts[Label(p)] IN
       /\ ~(kind = "stats" /\ TypeError(p))
       /\ doc' = [doc EXCEPT ![Document(p, kind)] = Changed(p, kind, seen[p])]

Does(p, op, i) == Active(p) /\ req[p].op = op /\ pc[p] = i

LEMMA DoesAt ==
  ASSUME SiteTypes, NEW p \in Requests
  PROVE  /\ At(p, "put_report") => Does(p, "save", 2)
         /\ At(p, "del_report") => Does(p, "delete", 3)
         /\ At(p, "put_session") => Does(p, "login", 5)
         /\ At(p, "del_session") => Does(p, "logout", 1)
         /\ At(p, "put_key") => Does(p, "new_key", 2)
         /\ At(p, "del_key") => Does(p, "drop_key", 3)
         /\ At(p, "count_logins") => Does(p, "login", 9)
         /\ At(p, "auth") => pc[p] = 1
<1>1. CASE Active(p)
  <2>1. req[p].op \in OpNames /\ pc[p] \in 1..Len(Steps[req[p].op])
    BY <1>1, AtFacts
  <2> QED BY <1>1, <2>1, Calls DEF At, Label, Does
<1> QED BY <1>1 DEF At

LEMMA StoreSteps ==
  ASSUME SiteTypes, NEW p \in Requests, Step(p)
  PROVE  /\ doc' = doc \/ (Writing(p) /\ UNCHANGED <<sessions, apikeys, reports>>)
         /\ \/ reports' = reports
            \/ Does(p, "save", 2) /\ reports' = reports \cup {p} /\ Advance(p)
            \/ Does(p, "delete", 3) /\ reports' = reports \ {req[p].of}
         /\ \/ sessions' = sessions
            \/ Does(p, "login", 5) /\ sessions' = sessions \cup {p}
            \/ Does(p, "logout", 1) /\ sessions' = sessions \ {req[p].token}
         /\ \/ apikeys' = apikeys
            \/ Does(p, "new_key", 2) /\ apikeys' = apikeys \cup {p}
            \/ Does(p, "drop_key", 3) /\ DeleteKey(p)
<1>1. CASE Arrive(p) \/ Authenticate(p) \/ PutOtp(p) \/ GetOtp(p) \/ DeleteOtp(p)
  BY <1>1 DEF Arrive, Authenticate, PutOtp, GetOtp, DeleteOtp, store
<1>2. CASE PutSession(p) \/ DeleteSession(p)
  BY <1>2, DoesAt DEF PutSession, DeleteSession
<1>3. CASE PutReport(p) \/ DeleteReport(p)
  BY <1>3, DoesAt DEF PutReport, DeleteReport
<1>4. CASE GetReport(p) \/ ReadDocument(p) \/ CountLogins(p) \/ Fail(p)
  BY <1>4 DEF GetReport, ReadDocument, CountLogins, Fail, store
<1>5. CASE PutKey(p) \/ DeleteKey(p)
  BY <1>5, DoesAt DEF PutKey, DeleteKey
<1>6. CASE WriteDocument(p)
  <2>1. UNCHANGED <<sessions, apikeys, reports>>
    BY <1>6 DEF WriteDocument
  <2>2. doc' = doc \/ Writing(p)
    BY <1>6 DEF WriteDocument, Writing
  <2> QED BY <2>1, <2>2
<1> QED BY <1>1, <1>2, <1>3, <1>4, <1>5, <1>6 DEF Step

LEMMA TypesInit == Init => SiteTypes
<1> SUFFICES ASSUME Init PROVE SiteTypes
  OBVIOUS
<1>1. req \in [Requests -> Operation]
  BY SiteAssumption DEF Init
<1>2. \A p \in Requests : ThreadOK(p)
  <2> SUFFICES ASSUME NEW p \in Requests PROVE ThreadOK(p)
    OBVIOUS
  <2>1. req[p].op \in OpNames
    BY <1>1, OperationFacts
  <2>2. Len(Steps[req[p].op]) \in Nat
    BY <2>1, Lengths
  <2> QED BY <2>2 DEF Init, ThreadOK
<1>3. doc = [d \in Docs |-> doc[d]]
  BY DEF Init
<1>4. sessions \subseteq Tokens
  BY SiteAssumption DEF Init, Tokens
<1> QED BY <1>1, <1>2, <1>3, <1>4 DEF Init, SiteTypes

LEMMA TypesStep ==
  ASSUME SiteTypes, NEW p \in Requests, Step(p)
  PROVE  SiteTypes'
<1>m. Moves(p)
  BY StepMoves
<1>1. /\ req' \in [Requests -> Operation]
      /\ seen' = [q \in Requests |-> seen'[q]]
  BY <1>m DEF Moves, SiteTypes
<1>2. pc' \in [Requests -> Nat] /\ resp' \in [Requests -> Answers \cup {None}]
  <2>0. pc \in [Requests -> Nat] /\ resp \in [Requests -> Answers \cup {None}]
    BY DEF SiteTypes
  <2>1. CASE pc' = [pc EXCEPT ![p] = 1] /\ resp' = resp
    BY <2>0, <2>1
  <2>2. CASE Goes(p)
    BY <2>0, <2>2 DEF Goes
  <2> QED BY <1>m, <2>1, <2>2 DEF Moves
<1>3. heard' \in [Requests -> SUBSET Requests]
  BY <1>m DEF Moves, SiteTypes
<1>4. sessions' \subseteq Tokens /\ apikeys' \subseteq Requests /\ reports' \subseteq Requests
  BY StoreSteps DEF SiteTypes, Tokens, DeleteKey
<1>5. doc' = [d \in Docs |-> doc'[d]]
  <2>1. CASE doc' = doc
    BY <2>1 DEF SiteTypes
  <2>2. CASE Writing(p)
    BY <2>2 DEF SiteTypes, Writing
  <2> QED BY <2>1, <2>2, StoreSteps
<1>6. \A q \in Requests : ThreadOK(q)'
  <2> SUFFICES ASSUME NEW q \in Requests PROVE ThreadOK(q)'
    OBVIOUS
  <2>0. ThreadOK(q) /\ req' = req
    BY <1>m DEF SiteTypes, Moves
  <2>1. CASE q # p
    BY <1>m, <2>0, <2>1, Stays DEF ThreadOK, SiteTypes
  <2>2. CASE q = p
    <3>1. pc'[p] > 0 /\ pc'[p] \in 0..Len(Steps[req[p].op])
      BY <1>m, <2>0, <2>2, AtFacts DEF Moves, Goes, SiteTypes, ThreadOK, Active
    <3>2. Given(req[p])
      BY <1>m, <2>0, <2>2 DEF Moves, ThreadOK, Active
    <3>3. Given(req[p])'
      BY <1>m, <3>2, Stays
    <3> QED BY <2>0, <2>2, <3>1, <3>3 DEF ThreadOK
  <2> QED BY <2>1, <2>2
<1> QED BY <1>1, <1>2, <1>3, <1>4, <1>5, <1>6 DEF SiteTypes

\* A call is made by one action, or fails.
LEMMA ActionAt ==
  ASSUME NEW p \in Requests, Step(p), Active(p)
  PROVE  /\ Label(p) = "auth" => Authenticate(p) \/ Fail(p)
         /\ Label(p) = "del_session" => DeleteSession(p) \/ Fail(p)
         /\ Label(p) = "del_key" => DeleteKey(p) \/ Fail(p)
         /\ Label(p) = "put_report" => PutReport(p) \/ Fail(p)
         /\ Label(p) = "count_logins" => CountLogins(p) \/ Fail(p)
         /\ Label(p) \in {"get_user", "get_stats"} => ReadDocument(p) \/ Fail(p)
         /\ Label(p) \in {"put_user", "put_stats"} => WriteDocument(p) \/ Fail(p)
<1> DEFINE ls == {"put_otp", "get_otp", "del_otp", "put_session", "get_report"}
<1>g. /\ DOMAIN Gets = {"get_user", "get_index", "get_keys", "get_activity", "get_stats",
                         "get_allowlist", "get_audit"}
      /\ DOMAIN Puts = {"put_user", "put_index", "put_keys", "put_activity", "put_stats",
                         "put_allowlist", "put_audit"}
  BY DEF Gets, Puts
<1>1. Arrive(p) => FALSE
  BY DEF Arrive, Active
<1>2. /\ Authenticate(p) => Label(p) = "auth"
      /\ PutOtp(p) \/ GetOtp(p) \/ DeleteOtp(p) \/ PutSession(p) \/ GetReport(p) => Label(p) \in ls
      /\ DeleteSession(p) => Label(p) = "del_session"
      /\ PutReport(p) => Label(p) = "put_report"
      /\ DeleteReport(p) => Label(p) = "del_report"
      /\ PutKey(p) => Label(p) = "put_key"
      /\ DeleteKey(p) => Label(p) = "del_key"
      /\ CountLogins(p) => Label(p) = "count_logins"
  BY DEF Authenticate, PutOtp, GetOtp, DeleteOtp, PutSession, GetReport, DeleteSession,
         PutReport, DeleteReport, PutKey, DeleteKey, CountLogins, At
<1>3. /\ ReadDocument(p) => Label(p) \in DOMAIN Gets
      /\ WriteDocument(p) => Label(p) \in DOMAIN Puts
  BY DEF ReadDocument, WriteDocument
<1> QED BY <1>g, <1>1, <1>2, <1>3 DEF Step

\* An active handler stands at the call its place says.
LEMMA LabelAt ==
  ASSUME SiteTypes, NEW p \in Requests, Active(p)
  PROVE  LET at(op, i) == req[p].op = op /\ pc[p] = i IN
         /\ Label(p) = "auth" <=> req[p].op \in WithToken \ {"logout"} /\ pc[p] = 1
         /\ Label(p) = "del_session" <=> at("logout", 1)
         /\ Label(p) = "del_key" <=> at("drop_key", 3)
         /\ Label(p) = "put_report" <=> at("save", 2)
         /\ Label(p) = "count_logins" <=> at("login", 9)
         /\ Label(p) = "get_user" <=> at("login", 3) \/ at("save", 5)
         /\ Label(p) = "put_user" <=> at("login", 4) \/ at("save", 6)
         /\ Label(p) = "get_stats" <=> at("login", 8) \/ at("save", 9) \/ at("beacon", 1)
         /\ Label(p) = "put_stats" <=> at("login", 10) \/ at("save", 10) \/ at("beacon", 2)
<1>1. req[p].op \in OpNames /\ pc[p] \in 1..Len(Steps[req[p].op])
  BY AtFacts
<1> QED BY <1>1, Calls DEF Label

LEMMA Failed ==
  ASSUME SiteTypes, NEW p \in Requests, Fail(p)
  PROVE  pc' = pc /\ (Ok(p)' => req[p].op = "beacon") /\ UNCHANGED store
BY DEF Fail, Answer, Ok, SiteTypes

-----------------------------------------------------------------------------
(* Ended tokens *)

\* While a page holds all keys, a deleted key is gone.
LEMMA KeyDeleted ==
  ASSUME SiteTypes, TokensMade, NEW p \in Requests, DeleteKey(p), Cardinality(Keys) <= ListLimit
  PROVE  req[p].of \notin apikeys'
<1>1. IsFiniteSet(Requests) /\ ListLimit \in Nat
  BY SiteAssumption
<1>2. IsFiniteSet(Keys) /\ Cardinality(Keys) \in Nat
  BY <1>1, FS_Subset, FS_CardinalityType DEF Keys
<1>3. IsFiniteSet(apikeys) /\ Cardinality(apikeys) <= Cardinality(Keys)
  BY <1>2, FS_Subset DEF TokensMade
<1>4. Cardinality(apikeys) \in Nat
  BY <1>3, FS_CardinalityType
<1>5. Min({ListLimit, Cardinality(apikeys)}) = Cardinality(apikeys)
  BY <1>1, <1>2, <1>3, <1>4 DEF Min
<1>6. PICK page \in kSubset(Min({ListLimit, Cardinality(apikeys)}), apikeys) :
          apikeys' = apikeys \ ({req[p].of} \cap page)
  BY DEF DeleteKey
<1>7. page \subseteq apikeys /\ Cardinality(page) = Cardinality(apikeys)
  BY <1>5, <1>6 DEF kSubset
<1>8. page = apikeys
  BY <1>3, <1>7, FS_Subset
<1> QED BY <1>6, <1>8

LEMMA TokensInit == Init => TokensMade /\ TokensEnded
<1> SUFFICES ASSUME Init PROVE TokensMade /\ TokensEnded
  OBVIOUS
<1>1. \A p \in Requests : pc[p] = 0 /\ ~Ok(p) /\ heard[p] = {}
  BY MissingAssumption DEF Init, Ok, Answers
<1>2. TokensMade
  BY DEF Init, TokensMade
<1>3. TokensEnded
  BY <1>1 DEF TokensEnded, Completed
<1> QED BY <1>2, <1>3

LEMMA MadeStep ==
  ASSUME SiteTypes, TokensMade, NEW p \in Requests, Step(p)
  PROVE  TokensMade'
<1>1. req' = req
  BY StepMoves DEF Moves
<1>2. sessions' \subseteq sessions \cup {q \in Requests : req[q].op = "login"}
  BY StoreSteps DEF Does
<1>3. apikeys' \subseteq apikeys \cup Keys
  BY StoreSteps DEF Does, Keys, DeleteKey
<1> QED BY <1>1, <1>2, <1>3 DEF TokensMade, Keys

\* A request names what was answered, and so nothing that is still being made.
LEMMA NamedIsMade ==
  ASSUME SiteTypes, NEW p \in Requests, NEW q \in Requests, Active(p), pc[q] > 0
  PROVE  /\ req[q].op \in WithToken => req[q].token # p
         /\ req[q].op \in {"delete", "drop_key"} => req[q].of # p
<1>1. Given(req[q])
  BY DEF SiteTypes, ThreadOK
<1>2. ~Ok(p)
  BY MissingAssumption DEF Active, Ok, Answers
<1>3. req[q] \in Operation
  BY DEF SiteTypes
<1> QED BY <1>1, <1>2, <1>3, OperationFacts DEF Given

\* A request that is completed now was so before, or is p.
LEMMA NewlyCompleted ==
  ASSUME SiteTypes, NEW p \in Requests, Moves(p), NEW q \in Requests, Completed(q)'
  PROVE  /\ Ok(q)' /\ pc'[q] = Len(Steps[req[q].op])
         /\ resp[q] # None => Completed(q)
         /\ ~Completed(q) => q = p /\ Active(p) /\ pc[p] = pc'[p]
<1>1. req' = req
  BY DEF Moves
<1>2. Ok(q)' /\ pc'[q] = Len(Steps[req[q].op])
  BY <1>1 DEF Completed
<1>3. resp[q] # None => Completed(q)
  BY <1>1, <1>2, Stays DEF Completed, Ok
<1>4. ASSUME ~Completed(q) PROVE q = p /\ Active(p) /\ pc[p] = pc'[p]
  <2>1. resp[q] = None /\ resp'[q] = "ok" /\ None # "ok"
    BY <1>2, <1>3, <1>4, MissingAssumption DEF Ok, Answers, SiteTypes
  <2>2. q = p /\ resp' # resp
    BY <2>1, Stays
  <2> QED BY <2>1, <2>2 DEF Moves, Goes
<1> QED BY <1>2, <1>3, <1>4

LEMMA EndedStep ==
  ASSUME TokensInv, NEW p \in Requests, Step(p)
  PROVE  TokensEnded'
<1>t. SiteTypes /\ TokensMade /\ TokensEnded
  BY DEF TokensInv
<1>m. Moves(p) /\ req' = req
  BY <1>t, StepMoves DEF Moves
<1>k. Keys' = Keys
  BY <1>m DEF Keys
<1>1. ASSUME NEW q \in Requests, req[q].op = "logout", Completed(q)'
      PROVE  req[q].token \notin sessions'
  <2>0. req[q].op \in WithToken
    BY <1>1 DEF WithToken
  <2>1. CASE Completed(q)
    <3>1. req[q].token \notin sessions /\ pc[q] > 0
      BY <1>1, <1>t, <2>1, ShortSteps DEF TokensEnded, Completed
    <3>2. Active(p) => req[q].token # p
      BY <1>t, <2>0, <3>1, NamedIsMade
    <3> QED BY <1>t, <3>1, <3>2, StoreSteps DEF Does
  <2>2. CASE ~Completed(q)
    <3>1. q = p /\ Active(p) /\ Ok(p)'
      BY <1>1, <1>t, <1>m, <2>2, NewlyCompleted
    <3>2. pc[p] = 1
      BY <1>1, <1>t, <3>1, AtFacts, ShortSteps
    <3>3. Label(p) = "del_session"
      BY <1>1, <1>t, <3>1, <3>2, LabelAt
    <3>4. DeleteSession(p)
      BY <1>1, <1>t, <3>1, <3>3, ActionAt, Failed
    <3> QED BY <3>1, <3>4 DEF DeleteSession
  <2> QED BY <2>1, <2>2
<1>2. ASSUME NEW q \in Requests, req[q].op = "drop_key", pc'[q] > 3,
             Cardinality(Keys) <= ListLimit
      PROVE  req[q].of \notin apikeys'
  <2>1. CASE pc[q] > 3
    <3>1. req[q].of \notin apikeys
      BY <1>2, <1>t, <2>1 DEF TokensEnded
    <3>2. Active(p) => req[q].of # p
      BY <1>2, <1>t, <2>1, NamedIsMade, AtFacts
    <3> QED BY <1>t, <3>1, <3>2, StoreSteps DEF Does, DeleteKey
  <2>2. CASE ~(pc[q] > 3)
    <3>1. q = p
      BY <1>2, <1>t, <1>m, <2>2, Stays
    <3>2. Active(p) /\ pc[p] = 3
      BY <1>2, <1>t, <1>m, <2>2, <3>1, AtFacts DEF Moves, Goes, SiteTypes
    <3>3. Label(p) = "del_key"
      BY <1>2, <1>t, <3>1, <3>2, LabelAt
    <3>4. DeleteKey(p)
      BY <1>2, <1>t, <3>1, <3>2, <3>3, ActionAt, Failed
    <3> QED BY <1>2, <1>t, <3>1, <3>4, KeyDeleted
  <2> QED BY <2>1, <2>2
<1>3. ASSUME NEW r \in Requests, NEW q \in heard'[r]
      PROVE  /\ q \in Requests /\ resp[q] # None /\ resp'[q] # None
             /\ q \in heard[r] \/ (pc'[r] = 1 /\ resp'[r] = None)
  <2>0. /\ heard \in [Requests -> SUBSET Requests] /\ pc \in [Requests -> Nat]
        /\ \A x \in Requests : pc[x] = 0 => resp[x] = None
    BY <1>t DEF SiteTypes, ThreadOK
  <2>1. /\ q \in Requests /\ resp[q] # None
        /\ q \in heard[r] \/ (pc'[r] = 1 /\ resp'[r] = None)
    <3>1. CASE Active(p) /\ heard' = heard
      BY <1>3, <1>t, <2>0, <3>1 DEF TokensEnded
    <3>2. CASE /\ pc[p] = 0 /\ pc' = [pc EXCEPT ![p] = 1] /\ resp' = resp
               /\ heard' = [heard EXCEPT ![p] = {x \in Requests : resp[x] # None}]
      <4>1. CASE r = p
        BY <1>3, <2>0, <3>2, <4>1
      <4>2. CASE r # p
        BY <1>3, <1>t, <2>0, <3>2, <4>2 DEF TokensEnded
      <4> QED BY <4>1, <4>2
    <3> QED BY <1>m, <3>1, <3>2 DEF Moves
  <2> QED BY <2>1, <1>t, <1>m, Stays
<1>4. ASSUME NEW r \in Requests, NEW q \in heard'[r],
             "token" \in DOMAIN req[r], req[r].op # "logout",
             Completed(q)', Ends(q, req[r].token)
      PROVE  pc'[r] <= 1 /\ ~Ok(r)'
  <2>0. q \in Requests /\ resp[q] # None /\ None # "ok"
    BY <1>3, <1>4, MissingAssumption DEF Answers
  <2>1. Completed(q)
    BY <1>4, <1>t, <1>m, <2>0, NewlyCompleted
  <2>2. CASE q \notin heard[r]
    BY <1>3, <1>4, <2>0, <2>2 DEF Ok
  <2>3. CASE q \in heard[r]
    <3>1. pc[r] <= 1 /\ ~Ok(r)
      BY <1>4, <1>t, <2>1, <2>3 DEF TokensEnded
    <3>2. CASE r # p \/ ~Active(p)
      <4>1. resp'[r] = resp[r] /\ (pc'[r] = pc[r] \/ pc'[r] = 1)
        BY <1>t, <1>m, <3>2, Stays DEF Moves, SiteTypes
      <4> QED BY <3>1, <4>1 DEF Ok
    <3>3. CASE r = p /\ Active(p)
      <4>1. pc[p] = 1 /\ req[p].op \in WithToken \ {"logout"}
        BY <1>4, <1>t, <3>1, <3>3, AtFacts, OperationFacts
      <4>2. Label(p) = "auth"
        BY <1>t, <3>3, <4>1, LabelAt
      <4>3. req[p].token \notin sessions
        <5>1. CASE req[q].op = "logout" /\ req[q].token = req[r].token
          BY <1>t, <2>0, <2>1, <3>3, <5>1 DEF TokensEnded
        <5>2. CASE req[r].token \in Keys
          <6>1. req[r].token \in Requests /\ req[req[r].token].op = "new_key"
            BY <5>2 DEF Keys
          <6> QED BY <1>t, <3>3, <6>1, SiteAssumption DEF TokensMade
        <5> QED BY <1>4, <5>1, <5>2 DEF Ends
      <4>4. req[p].token \notin apikeys
        <5>1. CASE req[r].token \notin Keys
          BY <1>t, <3>3, <5>1 DEF TokensMade
        <5>2. CASE /\ req[q].op = "drop_key" /\ req[q].of = req[r].token
                   /\ Cardinality(Keys) <= ListLimit
          <6>1. pc[q] > 3
            BY <2>1, <5>2, ShortSteps DEF Completed
          <6> QED BY <1>t, <2>0, <3>3, <5>2, <6>1 DEF TokensEnded
        <5> QED BY <1>4, <5>1, <5>2 DEF Ends
      <4>5. CASE Authenticate(p)
        <5>1. Answer(p, "refused")
          BY <4>3, <4>4, <4>5 DEF Authenticate
        <5> QED BY <1>t, <3>1, <3>3, <5>1 DEF Answer, Ok, SiteTypes
      <4>6. CASE Fail(p)
        BY <1>t, <3>1, <3>3, <4>1, <4>6, Failed DEF WithToken
      <4> QED BY <3>3, <4>2, <4>5, <4>6, ActionAt
    <3> QED BY <3>2, <3>3
  <2> QED BY <2>2, <2>3
<1>5. \A q \in Requests : \A token : Ends(q, token)' <=> Ends(q, token)
  BY <1>m, <1>k DEF Ends
<1> QED BY <1>m, <1>k, <1>1, <1>2, <1>3, <1>4, <1>5 DEF TokensEnded

LEMMA TokensStutter == TokensInv /\ UNCHANGED vars => TokensInv'
<1> SUFFICES ASSUME TokensInv, UNCHANGED vars PROVE TokensInv'
  OBVIOUS
<1> USE DEF vars, store
<1>1. \A q \in Requests : Given(req[q]) => Given(req[q])'
  BY DEF Given, Ok
<1>2. SiteTypes'
  BY <1>1 DEF TokensInv, SiteTypes, ThreadOK
<1>3. TokensMade' /\ TokensEnded'
  BY DEF TokensInv, TokensMade, TokensEnded, Completed, Ends, Keys, Ok
<1> QED BY <1>2, <1>3 DEF TokensInv

\* The tables of tokens and what each request had heard when it came.
THEOREM TokensAlways == Spec => []TokensInv
<1>1. Init => TokensInv
  BY TypesInit, TokensInit DEF TokensInv
<1>2. TokensInv /\ [Next]_vars => TokensInv'
  <2> SUFFICES ASSUME TokensInv, [Next]_vars PROVE TokensInv'
    OBVIOUS
  <2>1. CASE UNCHANGED vars
    BY <2>1, TokensStutter
  <2>2. ASSUME NEW p \in Requests, Step(p) PROVE TokensInv'
    <3>1. SiteTypes /\ TokensMade
      BY DEF TokensInv
    <3> QED BY <2>2, <3>1, TypesStep, MadeStep, EndedStep DEF TokensInv
  <2> QED BY <2>1, <2>2 DEF Next, Quiescent
<1> QED BY <1>1, <1>2, PTL DEF Spec

\* What was ended lets nobody in: getSession finds neither an ended session
\* nor, as long as one page lists all keys, a deleted key.
THEOREM EndedTokens == Spec => []EndedTokenIsDead
<1>1. TokensInv => EndedTokenIsDead
  BY DEF TokensInv, TokensEnded, EndedTokenIsDead, Ends
<1> QED BY <1>1, TokensAlways, PTL

-----------------------------------------------------------------------------
(* Counters *)

LEMMA CountedFinite ==
  /\ \A u \in Users : IsFiniteSet(ReportsCounted(u)) /\ Cardinality(ReportsCounted(u)) \in Nat
  /\ IsFiniteSet(RunsCounted) /\ Cardinality(RunsCounted) \in Nat
  /\ IsFiniteSet(LoginsCounted) /\ Cardinality(LoginsCounted) \in Nat
BY SiteAssumption, FS_Subset, FS_CardinalityType DEF ReportsCounted, RunsCounted, LoginsCounted

LEMMA CountedLater ==
  /\ \A u \in Users : IsFiniteSet(ReportsCounted(u)') /\ Cardinality(ReportsCounted(u)') \in Nat
  /\ IsFiniteSet(RunsCounted') /\ Cardinality(RunsCounted') \in Nat
  /\ IsFiniteSet(LoginsCounted') /\ Cardinality(LoginsCounted') \in Nat
BY SiteAssumption, FS_Subset, FS_CardinalityType DEF ReportsCounted, RunsCounted, LoginsCounted

\* A set that keeps its elements and gains one has grown.
LEMMA Growth ==
  ASSUME NEW S, NEW T, IsFiniteSet(T), S \subseteq T
  PROVE  /\ Cardinality(S) \in Nat /\ Cardinality(T) \in Nat
         /\ Cardinality(S) <= Cardinality(T)
         /\ \A x : x \in T /\ x \notin S => Cardinality(S) + 1 <= Cardinality(T)
<1>1. IsFiniteSet(S) /\ Cardinality(S) \in Nat /\ Cardinality(T) \in Nat
  BY FS_Subset, FS_CardinalityType
<1>2. Cardinality(S) <= Cardinality(T)
  BY FS_Subset
<1>3. ASSUME NEW x, x \in T, x \notin S PROVE Cardinality(S) + 1 <= Cardinality(T)
  <2>1. Cardinality(S) # Cardinality(T)
    BY <1>3, FS_Subset
  <2> QED BY <1>1, <1>2, <2>1
<1> QED BY <1>1, <1>2, <1>3

\* Nothing that was counted is forgotten.
LEMMA CountsGrow ==
  ASSUME SiteTypes, NEW p \in Requests, Moves(p)
  PROVE  /\ \A u \in Users : ReportsCounted(u) \subseteq ReportsCounted(u)'
         /\ RunsCounted \subseteq RunsCounted' /\ LoginsCounted \subseteq LoginsCounted'
<1>1. req' = req
  BY DEF Moves
<1>2. \A q \in Requests : /\ Ok(q) => Ok(q)'
                          /\ pc[q] \in Nat /\ pc'[q] \in Nat /\ pc'[q] >= pc[q]
  BY Stays DEF SiteTypes
<1>3. \A q \in Requests : User(q)' = User(q)
  BY <1>1, UsersStay
<1> QED BY <1>1, <1>2, <1>3 DEF ReportsCounted, RunsCounted, LoginsCounted

LEMMA CountFacts ==
  ASSUME NEW x \in Counter
  PROVE  /\ Count(x) \in Nat /\ Incremented(x) \in Counter
         /\ Count(Incremented(x)) <= Count(x) + 1
BY MissingAssumption DEF Counter, Count, Incremented

\* A bound may grow.
LEMMA UserWithinMore ==
  ASSUME NEW user, NEW n \in Nat, NEW m \in Nat, n <= m, UserWithin(user, n)
  PROVE  UserWithin(user, m)
BY DEF UserWithin, UserDoc

LEMMA StatsWithinMore ==
  ASSUME NEW stats, NEW r \in Nat, NEW l \in Nat, NEW r2 \in Nat, NEW l2 \in Nat,
         r <= r2, l <= l2, StatsWithin(stats, r, l)
  PROVE  StatsWithin(stats, r2, l2)
<1>1. ASSUME NEW c, c.runs \in Counter, c.logins \in Counter, Within(c, r, l)
      PROVE  Within(c, r2, l2)
  BY <1>1, CountFacts DEF Within
<1>2. ASSUME stats \in StatsDoc
      PROVE  /\ stats.runs \in Counter /\ stats.logins \in Counter
             /\ stats.today # None =>
                    stats.today.runs \in Counter /\ stats.today.logins \in Counter
  BY <1>2 DEF StatsDoc, Today
<1> QED BY <1>1, <1>2 DEF StatsWithin

LEMMA Kinds ==
  ASSUME SiteTypes, NEW p \in Requests, Active(p), Label(p) \in DOMAIN Puts
  PROVE  LET kind == Puts[Label(p)]
             d == Document(p, kind)
         IN
         /\ \A u \in Users : d = <<"user", u>> => Label(p) = "put_user" /\ kind = "user" /\ User(p) = u
         /\ d = <<"stats", Site>> => Label(p) = "put_stats" /\ kind = "stats"
         /\ kind = "user" => d = <<"user", User(p)>>
         /\ kind = "stats" => d = <<"stats", Site>>
<1>1. Document(p, Puts[Label(p)])[1] = Puts[Label(p)]
  BY DEF Document
<1>2. /\ Puts[Label(p)] = "user" => Label(p) = "put_user"
      /\ Puts[Label(p)] = "stats" => Label(p) = "put_stats"
  BY DEF Puts
<1> QED BY <1>1, <1>2 DEF Document, Personal

\* What a login and a save make of a user: a save counts one report.
LEMMA UserChangedWithin ==
  ASSUME SiteTypes, NEW p \in Requests, NEW user, NEW n \in Nat,
         req[p].op \in {"login", "save"}, UserWithin(user, n)
  PROVE  LET after == UserChanged(p, user) IN
         UserWithin(after, IF req[p].op = "save" THEN n + 1 ELSE n)
<1>1. CASE req[p].op = "login"
  <2> DEFINE known == IF user = None THEN NewUser ELSE user
  <2>1. NewUser \in UserDoc /\ NewUser.reports = 0
    BY DEF NewUser, UserDoc
  <2>2. known \in UserDoc /\ known.reports <= n
    BY <2>1 DEF UserWithin
  <2>3. UserChanged(p, user) = [known EXCEPT !.logins = @ + 1]
    BY <1>1 DEF UserChanged
  <2> HIDE DEF known
  <2>4. /\ [known EXCEPT !.logins = @ + 1] \in UserDoc
        /\ [known EXCEPT !.logins = @ + 1].reports = known.reports
    BY <2>2 DEF UserDoc
  <2> QED BY <1>1, <2>2, <2>3, <2>4 DEF UserWithin
<1>2. CASE req[p].op = "save" /\ user = None
  BY <1>2 DEF UserChanged, UserWithin
<1>3. CASE req[p].op = "save" /\ user # None
  <2>1. user \in UserDoc /\ user.reports <= n
    BY <1>3 DEF UserWithin
  <2>2. req[p].domain \in Domains \cup {None}
    BY <1>3, AtFacts, OperationFacts
  <2> DEFINE domains ==
        IF req[p].domain = None \/ Contains(user.domains, req[p].domain) THEN user.domains
        ELSE Capped(Append(user.domains, req[p].domain), DomainCap)
  <2>3. domains \in Seq(Domains)
    <3>1. user.domains \in Seq(Domains) /\ DomainCap \in Nat
      BY <2>1, SiteAssumption DEF UserDoc
    <3>2. ASSUME req[p].domain # None
          PROVE  Append(user.domains, req[p].domain) \in Seq(Domains)
      BY <2>2, <3>1, <3>2
    <3>3. ASSUME NEW s \in Seq(Domains) PROVE Capped(s, DomainCap) \in Seq(Domains)
      BY <3>1, <3>3 DEF Capped
    <3> QED BY <3>1, <3>2, <3>3
  <2>4. UserChanged(p, user) = [user EXCEPT !.reports = @ + 1, !.domains = domains]
    BY <1>3 DEF UserChanged
  <2> HIDE DEF domains
  <2>5. /\ [user EXCEPT !.reports = @ + 1, !.domains = domains] \in UserDoc
        /\ [user EXCEPT !.reports = @ + 1, !.domains = domains].reports = user.reports + 1
        /\ user.reports \in Nat
    <3>1. user \in [logins : Nat, reports : Nat, domains : Seq(Domains)]
      BY <2>1 DEF UserDoc
    <3>2. user.reports \in Nat /\ user.reports + 1 \in Nat
      BY <3>1
    <3> DEFINE more == user.reports + 1
    <3>3. more \in Nat
      BY <3>2
    <3> HIDE DEF more
    <3>4. /\ [user EXCEPT !.reports = more, !.domains = domains] \in UserDoc
          /\ [user EXCEPT !.reports = more, !.domains = domains].reports = more
      BY <3>1, <3>3, <2>3 DEF UserDoc
    <3> QED BY <3>2, <3>4 DEF more
  <2> QED BY <1>3, <2>1, <2>4, <2>5 DEF UserWithin
<1> QED BY <1>1, <1>2, <1>3

LEMMA NewStatistics ==
  /\ NewStats \in StatsDoc /\ NewStats.today = None
  /\ Count(NewStats.runs) = 0 /\ Count(NewStats.logins) = 0
  /\ BareStats \in StatsDoc /\ BareStats.today = None
  /\ Count(BareStats.runs) = 0 /\ Count(BareStats.logins) = 0
BY MissingAssumption DEF NewStats, BareStats, StatsDoc, Counter, Count

LEMMA CounterParts ==
  ASSUME NEW s \in StatsDoc
  PROVE  /\ s.runs \in Counter /\ s.logins \in Counter /\ s.users \in Counter
         /\ s.today \in Today \cup {None}
BY DEF StatsDoc

\* Today's counters grow as the totals do.
LEMMA TodayWithin ==
  ASSUME NEW today \in Today \cup {None}, NEW r \in Nat, NEW l \in Nat,
         today # None => Within(today, r, l)
  PROVE  /\ LoginToday(today) \in Today /\ Within(LoginToday(today), r, l + 1)
         /\ RunToday(today) \in Today /\ Within(RunToday(today), r + 1, l)
         /\ ViewToday(today) \in Today /\ Within(ViewToday(today), r, l)
<1>1. CASE today = None
  <2>1. /\ Count(1) = 1 /\ Count(0) = 0 /\ Count(Absent) = 0
        /\ 1 \in Counter /\ 0 \in Counter /\ Absent \in Counter
    BY MissingAssumption DEF Count, Counter
  <2>2. \A x, y \in Counter : [logins |-> x, runs |-> y] \in Today
    BY DEF Today
  <2> QED BY <1>1, <2>1, <2>2 DEF LoginToday, RunToday, ViewToday, Within
<1>2. CASE today # None
  <2>1. today \in Today /\ today.runs \in Counter /\ today.logins \in Counter
    BY <1>2 DEF Today
  <2>2. \A x \in Counter : /\ Count(x) \in Nat /\ Incremented(x) \in Counter
                           /\ Count(Incremented(x)) \in Nat
                           /\ Count(Incremented(x)) <= Count(x) + 1
    BY CountFacts
  <2>3. Count(today.runs) <= r /\ Count(today.logins) <= l
    BY <1>2 DEF Within
  <2> DEFINE logins == Incremented(today.logins)
             runs == Incremented(today.runs)
  <2>4. LoginToday(today) = [today EXCEPT !.logins = logins] /\ logins \in Counter
    BY <1>2, <2>1, <2>2 DEF LoginToday
  <2>5. RunToday(today) = [today EXCEPT !.runs = runs] /\ runs \in Counter
    BY <1>2, <2>1, <2>2 DEF RunToday
  <2> HIDE DEF logins, runs
  <2>6. /\ LoginToday(today) \in Today /\ LoginToday(today).runs = today.runs
        /\ LoginToday(today).logins = logins
    BY <2>1, <2>4 DEF Today
  <2>7. /\ RunToday(today) \in Today /\ RunToday(today).logins = today.logins
        /\ RunToday(today).runs = runs
    BY <2>1, <2>5 DEF Today
  <2>8. Within(LoginToday(today), r, l + 1)
    BY <2>1, <2>2, <2>3, <2>6 DEF Within, logins
  <2>9. Within(RunToday(today), r + 1, l)
    BY <2>1, <2>2, <2>3, <2>7 DEF Within, runs
  <2>10. ViewToday(today) = today
    BY <1>2 DEF ViewToday
  <2> QED BY <1>2, <2>1, <2>6, <2>7, <2>8, <2>9, <2>10
<1> QED BY <1>1, <1>2

\* A login counts a login, a save a run, and a beacon neither.
LEMMA CountedWithin ==
  ASSUME NEW p, NEW s \in StatsDoc, NEW r \in Nat, NEW l \in Nat, StatsWithin(s, r, l)
  PROVE  /\ StatsWithin(LoginCounted(p, s), r, l + 1)
         /\ StatsWithin(RunCounted(s), r + 1, l)
         /\ StatsWithin(ViewCounted(s), r, l)
<1>1. /\ s.runs \in Counter /\ s.logins \in Counter /\ s.users \in Counter
      /\ s.today \in Today \cup {None}
  BY CounterParts
<1>2. s # None /\ Within(s, r, l) /\ (s.today # None => Within(s.today, r, l))
  BY MissingAssumption DEF StatsWithin
<1>3. \A x \in Counter : /\ Count(x) \in Nat /\ Incremented(x) \in Counter
                         /\ Count(Incremented(x)) \in Nat
                         /\ Count(Incremented(x)) <= Count(x) + 1
  BY CountFacts
<1>4. /\ LoginToday(s.today) \in Today /\ Within(LoginToday(s.today), r, l + 1)
      /\ RunToday(s.today) \in Today /\ Within(RunToday(s.today), r + 1, l)
      /\ ViewToday(s.today) \in Today /\ Within(ViewToday(s.today), r, l)
  BY <1>1, <1>2, TodayWithin
<1>5. Count(s.runs) <= r /\ Count(s.logins) <= l
  BY <1>2 DEF Within
<1>6. StatsWithin(LoginCounted(p, s), r, l + 1)
  <2> DEFINE users == IF first[p] THEN Incremented(s.users) ELSE s.users
             logins == Incremented(s.logins)
             today == LoginToday(s.today)
             e == [s EXCEPT !.logins = logins, !.today = today, !.users = users]
  <2>0. s \in [users : Counter, logins : Counter, runs : Counter, domains : BOOLEAN,
                views : Nat, today : Today \cup {None}]
    BY DEF StatsDoc
  <2>1. users \in Counter /\ logins \in Counter /\ today \in Today \cup {None}
    BY <1>1, <1>3, <1>4
  <2>2. LoginCounted(p, s) = e
    BY DEF LoginCounted
  <2>3. Count(logins) <= l + 1 /\ Within(today, r, l + 1)
    BY <1>1, <1>3, <1>4, <1>5
  <2> HIDE DEF users, logins, today
  <2>4. e \in StatsDoc /\ e.logins = logins /\ e.runs = s.runs /\ e.today = today
    BY <2>0, <2>1 DEF StatsDoc
  <2> HIDE DEF e
  <2> QED BY <1>5, <2>2, <2>3, <2>4 DEF StatsWithin, Within
<1>7. StatsWithin(RunCounted(s), r + 1, l)
  <2> DEFINE runs == Incremented(s.runs)
             today == RunToday(s.today)
             e == [s EXCEPT !.runs = runs, !.today = today]
  <2>0. s \in [users : Counter, logins : Counter, runs : Counter, domains : BOOLEAN,
                views : Nat, today : Today \cup {None}]
    BY DEF StatsDoc
  <2>1. runs \in Counter /\ today \in Today \cup {None}
    BY <1>1, <1>3, <1>4
  <2>2. RunCounted(s) = e
    BY DEF RunCounted
  <2>3. Count(runs) <= r + 1 /\ Within(today, r + 1, l)
    BY <1>1, <1>3, <1>4, <1>5
  <2> HIDE DEF runs, today
  <2>4. e \in StatsDoc /\ e.runs = runs /\ e.logins = s.logins /\ e.today = today
    BY <2>0, <2>1 DEF StatsDoc
  <2> HIDE DEF e
  <2> QED BY <1>5, <2>2, <2>3, <2>4 DEF StatsWithin, Within
<1>8. StatsWithin(ViewCounted(s), r, l)
  <2> DEFINE today == ViewToday(s.today)
             views == s.views + 1
             e == [s EXCEPT !.views = views, !.today = today]
  <2>0. s \in [users : Counter, logins : Counter, runs : Counter, domains : BOOLEAN,
                views : Nat, today : Today \cup {None}]
    BY DEF StatsDoc
  <2>1. today \in Today \cup {None} /\ Within(today, r, l) /\ views \in Nat
    BY <1>4, <2>0
  <2>2. ViewCounted(s) = e
    BY DEF ViewCounted
  <2> HIDE DEF today, views
  <2>4. e \in StatsDoc /\ e.runs = s.runs /\ e.logins = s.logins /\ e.today = today
    BY <2>0, <2>1 DEF StatsDoc
  <2> HIDE DEF e
  <2> QED BY <1>5, <2>1, <2>2, <2>4 DEF StatsWithin, Within
<1> QED BY <1>6, <1>7, <1>8

LEMMA StatsChangedWithin ==
  ASSUME NEW p \in Requests, NEW stats, NEW r \in Nat, NEW l \in Nat, StatsWithin(stats, r, l)
  PROVE  StatsWithin(StatsChanged(p, stats),
                     IF req[p].op = "save" THEN r + 1 ELSE r,
                     IF req[p].op = "login" THEN l + 1 ELSE l)
<1>1. \A new \in {NewStats, BareStats} : new \in StatsDoc /\ StatsWithin(new, r, l)
  BY NewStatistics DEF StatsWithin, Within
<1>2. stats # None => stats \in StatsDoc
  BY DEF StatsWithin
<1>3. LET new == IF stats = None THEN NewStats ELSE stats
          bare == IF stats = None THEN BareStats ELSE stats IN
      /\ new \in StatsDoc /\ StatsWithin(new, r, l)
      /\ bare \in StatsDoc /\ StatsWithin(bare, r, l)
  BY <1>1, <1>2
<1>4. LET new == IF stats = None THEN NewStats ELSE stats
          bare == IF stats = None THEN BareStats ELSE stats IN
      /\ StatsWithin(LoginCounted(p, new), r, l + 1)
      /\ StatsWithin(RunCounted(new), r + 1, l)
      /\ StatsWithin(ViewCounted(bare), r, l)
  BY <1>3, CountedWithin
<1> QED BY <1>4 DEF StatsChanged

LEMMA CountsInit == Init => UsersBounded /\ StatisticsBounded /\ ReportStored
<1> SUFFICES ASSUME Init PROVE UsersBounded /\ StatisticsBounded /\ ReportStored
  OBVIOUS
<1>1. \A p \in Requests : pc[p] = 0 /\ ~Active(p)
  BY DEF Init, Active
<1>2. UsersBounded
  <2> SUFFICES ASSUME NEW u \in Users
               PROVE  UserWithin(doc[<<"user", u>>], Cardinality(ReportsCounted(u)))
    BY <1>1 DEF UsersBounded, HoldsUser
  <2>1. Cardinality(ReportsCounted(u)) \in Nat
    BY CountedFinite
  <2>2. <<"user", u>> \in Docs /\ <<"user", u>>[1] = "user"
    BY DEF Docs, Personal
  <2> DEFINE member == [NewUser EXCEPT !.logins = 1]
  <2>3. doc[<<"user", u>>] \in {None, member}
    BY <2>2 DEF Init, Empty
  <2>4. member = [logins |-> 1, reports |-> 0, domains |-> << >>]
    BY DEF NewUser
  <2> HIDE DEF member
  <2>5. member \in UserDoc /\ member.reports = 0
    BY <2>4 DEF UserDoc
  <2> QED BY <2>1, <2>3, <2>5 DEF UserWithin
<1>3. StatisticsBounded
  <2>1. <<"stats", Site>> \in Docs /\ <<"stats", Site>>[1] = "stats"
    BY DEF Docs
  <2>2. doc[<<"stats", Site>>] \in {None, NewStats}
    BY <2>1 DEF Init, Empty
  <2>3. Cardinality(RunsCounted) \in Nat /\ Cardinality(LoginsCounted) \in Nat
    BY CountedFinite
  <2>4. StatsBounded(doc[<<"stats", Site>>])
    BY <2>2, <2>3, NewStatistics DEF StatsBounded, StatsWithin, Within
  <2> QED BY <1>1, <2>4 DEF StatisticsBounded, HoldsStats
<1>4. ReportStored
  BY <1>1 DEF ReportStored
<1> QED BY <1>2, <1>3, <1>4

\* A save keeps its report until it is answered.
LEMMA StoredStep ==
  ASSUME SiteTypes, ReportStored, NEW p \in Requests, Step(p)
  PROVE  ReportStored'
<1>m. Moves(p) /\ req' = req
  BY StepMoves DEF Moves
<1> SUFFICES ASSUME NEW q \in Requests, req[q].op = "save", pc'[q] > 2
             PROVE  q \in reports' \/ Ok(q)'
  BY <1>m DEF ReportStored
<1>1. CASE pc[q] > 2
  <2>1. q \in reports \/ Ok(q)
    BY <1>1 DEF ReportStored
  <2>2. CASE Ok(q)
    BY <1>m, <2>2, Stays
  <2>3. CASE q \in reports /\ ~Ok(q)
    <3>1. Does(p, "delete", 3) => req[p].of # q
      <4>1. Does(p, "delete", 3) => Given(req[p]) /\ "of" \in DOMAIN req[p]
        BY AtFacts, OperationFacts DEF Does, SiteTypes, ThreadOK
      <4> QED BY <2>3, <4>1 DEF Given
    <3> QED BY <2>3, <3>1, StoreSteps
  <2> QED BY <2>1, <2>2, <2>3
<1>2. CASE ~(pc[q] > 2)
  <2>1. q = p
    BY <1>m, <1>2, Stays
  <2>2. Active(p) /\ pc[p] = 2
    BY <1>m, <1>2, <2>1, AtFacts DEF Moves, Goes, SiteTypes
  <2>3. Label(p) = "put_report"
    BY <2>1, <2>2, LabelAt
  <2>4. PutReport(p)
    BY <1>2, <2>1, <2>2, <2>3, ActionAt, Failed
  <2> QED BY <2>1, <2>4 DEF PutReport
<1> QED BY <1>1, <1>2

\* Who comes to hold a document has just read it.
LEMMA Reads ==
  ASSUME SiteTypes, NEW p \in Requests, Step(p)
  PROVE  /\ HoldsUser(p)' => seen'[p] = doc[<<"user", User(p)>>]
         /\ HoldsStats(p)' => seen'[p] = doc[<<"stats", Site>>] \/ (HoldsStats(p) /\ seen'[p] = seen[p])
<1>m. Moves(p) /\ req' = req
  BY StepMoves DEF Moves
<1>s. seen = [q \in Requests |-> seen[q]]
  BY DEF SiteTypes
<1> SUFFICES ASSUME HoldsUser(p)' \/ HoldsStats(p)'
             PROVE  /\ HoldsUser(p)' => seen'[p] = doc[<<"user", User(p)>>]
                    /\ HoldsStats(p)' => seen'[p] = doc[<<"stats", Site>>] \/ (HoldsStats(p) /\ seen'[p] = seen[p])
  OBVIOUS
<1>1. resp'[p] = None /\ pc'[p] \in {2, 4, 6, 9, 10}
  BY DEF HoldsUser, HoldsStats, Active
<1>2. Active(p) /\ pc'[p] = pc[p] + 1 /\ resp[p] = None
  <2>1. Active(p) /\ Goes(p)
    BY <1>m, <1>1 DEF Moves, SiteTypes
  <2>2. \A code \in Answers : code # None
    BY MissingAssumption
  <2> QED BY <1>1, <2>1, <2>2 DEF Goes, SiteTypes, Active
<1>3. ~Fail(p)
  BY <1>2, Failed, AtFacts
<1>4. ASSUME HoldsUser(p)' PROVE seen'[p] = doc[<<"user", User(p)>>]
  <2>1. Label(p) = "get_user"
    BY <1>m, <1>2, <1>4, LabelAt, AtFacts DEF HoldsUser
  <2>2. ReadDocument(p)
    BY <1>2, <1>3, <2>1, ActionAt
  <2>3. Gets[Label(p)] = "user"
    BY <2>1 DEF Gets
  <2>4. Document(p, "user") = <<"user", User(p)>> /\ ~Settled(p, "user", doc[Document(p, "user")])
    BY DEF Document, Personal, Settled
  <2> QED BY <1>s, <2>2, <2>3, <2>4 DEF ReadDocument
<1>5. ASSUME HoldsStats(p)'
      PROVE  seen'[p] = doc[<<"stats", Site>>] \/ (HoldsStats(p) /\ seen'[p] = seen[p])
  <2>1. Label(p) = "get_stats" \/ (Label(p) = "count_logins" /\ HoldsStats(p))
    BY <1>m, <1>2, <1>5, LabelAt, AtFacts DEF HoldsStats
  <2>2. CASE Label(p) = "get_stats"
    <3>1. ReadDocument(p)
      BY <1>2, <1>3, <2>2, ActionAt
    <3>2. Gets[Label(p)] = "stats"
      BY <2>2 DEF Gets
    <3>3. Document(p, "stats") = <<"stats", Site>> /\ ~Settled(p, "stats", doc[Document(p, "stats")])
      BY DEF Document, Personal, Settled
    <3> QED BY <1>s, <3>1, <3>2, <3>3 DEF ReadDocument
  <2>3. CASE Label(p) = "count_logins" /\ HoldsStats(p)
    <3>1. CountLogins(p)
      BY <1>2, <1>3, <2>3, ActionAt
    <3> QED BY <2>3, <3>1 DEF CountLogins
  <2> QED BY <2>1, <2>2, <2>3
<1> QED BY <1>4, <1>5

LEMMA UsersStep ==
  ASSUME SiteTypes, UsersBounded, NEW p \in Requests, Step(p)
  PROVE  UsersBounded'
<1>m. Moves(p) /\ req' = req /\ \A q \in Requests : User(q)' = User(q)
  BY StepMoves, UsersStay DEF Moves
<1> SUFFICES ASSUME NEW u \in Users
             PROVE  /\ UserWithin(doc'[<<"user", u>>], Cardinality(ReportsCounted(u)'))
                    /\ \A q \in Requests : HoldsUser(q)' /\ User(q) = u =>
                            UserWithin(seen'[q], Cardinality(ReportsCounted(u)'))
  BY <1>m DEF UsersBounded
<1> DEFINE n == Cardinality(ReportsCounted(u))
           m == Cardinality(ReportsCounted(u)')
<1>1. /\ n \in Nat /\ m \in Nat /\ n <= m
      /\ p \in ReportsCounted(u)' /\ p \notin ReportsCounted(u) => n + 1 <= m
  <2>1. IsFiniteSet(ReportsCounted(u)')
    BY CountedLater
  <2>2. ReportsCounted(u) \subseteq ReportsCounted(u)'
    BY <1>m, CountsGrow
  <2> QED BY <2>1, <2>2, Growth
<1>2. /\ UserWithin(doc[<<"user", u>>], n)
      /\ \A q \in Requests : HoldsUser(q) /\ User(q) = u => UserWithin(seen[q], n)
  BY DEF UsersBounded
<1>3. p \in ReportsCounted(u)' <=> req[p].op = "save" /\ User(p) = u /\ pc'[p] > 6
  BY <1>m DEF ReportsCounted
<1>4. p \in ReportsCounted(u) => pc[p] > 6
  BY DEF ReportsCounted
<1> HIDE DEF n, m
<1>5. \A x : UserWithin(x, n) => UserWithin(x, m)
  BY <1>1, UserWithinMore
<1>6. UserWithin(doc'[<<"user", u>>], m)
  <2>1. CASE doc'[<<"user", u>>] = doc[<<"user", u>>]
    BY <1>2, <1>5, <2>1
  <2>2. CASE doc'[<<"user", u>>] # doc[<<"user", u>>]
    <3>1. Writing(p)
      BY <2>2, StoreSteps
    <3>2. Document(p, Puts[Label(p)]) = <<"user", u>>
      BY <2>2, <3>1 DEF Writing, SiteTypes
    <3>3. Active(p) /\ Label(p) = "put_user" /\ Puts[Label(p)] = "user" /\ User(p) = u
      BY <3>1, <3>2, Kinds DEF Writing
    <3>4. \/ req[p].op = "login" /\ pc[p] = 4
          \/ req[p].op = "save" /\ pc[p] = 6
      BY <3>3, LabelAt
    <3>5. UserWithin(seen[p], n)
      BY <1>2, <3>3, <3>4 DEF HoldsUser
    <3>6. UserWithin(UserChanged(p, seen[p]), IF req[p].op = "save" THEN n + 1 ELSE n)
      BY <1>1, <3>4, <3>5, UserChangedWithin
    <3>7. <<"user", u>> \in Docs
      BY DEF Docs, Personal
    <3>8. doc'[<<"user", u>>] = UserChanged(p, seen[p])
      BY <3>1, <3>2, <3>3, <3>7 DEF Writing, Changed, SiteTypes
    <3>9. CASE req[p].op = "login"
      BY <1>5, <3>6, <3>8, <3>9
    <3>10. CASE req[p].op = "save" /\ pc[p] = 6
      <4>1. pc'[p] = 7
        BY <3>1, <3>10, SaveSteps DEF Writing, Advance, SiteTypes
      <4>2. n + 1 <= m
        BY <1>1, <1>3, <1>4, <3>3, <3>10, <4>1
      <4>3. UserWithin(UserChanged(p, seen[p]), n + 1)
        BY <3>6, <3>10
      <4> QED BY <1>1, <3>8, <4>2, <4>3, UserWithinMore
    <3> QED BY <3>4, <3>9, <3>10
  <2> QED BY <2>1, <2>2
<1>7. ASSUME NEW q \in Requests, HoldsUser(q)', User(q) = u
      PROVE  UserWithin(seen'[q], m)
  <2>1. CASE q = p
    BY <1>2, <1>5, <1>7, <2>1, Reads
  <2>2. CASE q # p
    <3>1. HoldsUser(q) /\ seen'[q] = seen[q]
      BY <1>m, <1>7, <2>2, Stays DEF HoldsUser, Active
    <3> QED BY <1>2, <1>5, <1>7, <3>1
  <2> QED BY <2>1, <2>2
<1> QED BY <1>6, <1>7 DEF m

LEMMA StatisticsStep ==
  ASSUME SiteTypes, StatisticsBounded, NEW p \in Requests, Step(p)
  PROVE  StatisticsBounded'
<1>m. Moves(p) /\ req' = req
  BY StepMoves DEF Moves
<1> DEFINE r == Cardinality(RunsCounted)
           l == Cardinality(LoginsCounted)
           r2 == Cardinality(RunsCounted')
           l2 == Cardinality(LoginsCounted')
<1> SUFFICES /\ StatsWithin(doc'[<<"stats", Site>>], r2, l2)
             /\ \A q \in Requests : HoldsStats(q)' => StatsWithin(seen'[q], r2, l2)
  BY DEF StatisticsBounded, StatsBounded
<1>1. /\ r \in Nat /\ r2 \in Nat /\ r <= r2
      /\ p \in RunsCounted' /\ p \notin RunsCounted => r + 1 <= r2
  BY <1>m, CountedLater, CountsGrow, Growth
<1>2. /\ l \in Nat /\ l2 \in Nat /\ l <= l2
      /\ p \in LoginsCounted' /\ p \notin LoginsCounted => l + 1 <= l2
  BY <1>m, CountedLater, CountsGrow, Growth
<1>3. /\ StatsWithin(doc[<<"stats", Site>>], r, l)
      /\ \A q \in Requests : HoldsStats(q) => StatsWithin(seen[q], r, l)
  BY DEF StatisticsBounded, StatsBounded
<1>4. /\ p \in RunsCounted' <=> req[p].op = "save" /\ Ok(p)'
      /\ p \in LoginsCounted' <=> req[p].op = "login" /\ Ok(p)'
      /\ p \in RunsCounted \/ p \in LoginsCounted => Ok(p)
  BY <1>m DEF RunsCounted, LoginsCounted
<1> HIDE DEF r, l, r2, l2
<1>5. \A x : StatsWithin(x, r, l) => StatsWithin(x, r2, l2)
  BY <1>1, <1>2, StatsWithinMore
<1>6. StatsWithin(doc'[<<"stats", Site>>], r2, l2)
  <2>1. CASE doc'[<<"stats", Site>>] = doc[<<"stats", Site>>]
    BY <1>3, <1>5, <2>1
  <2>2. CASE doc'[<<"stats", Site>>] # doc[<<"stats", Site>>]
    <3>1. Writing(p)
      BY <2>2, StoreSteps
    <3>2. Document(p, Puts[Label(p)]) = <<"stats", Site>>
      BY <2>2, <3>1 DEF Writing, SiteTypes
    <3>3. Active(p) /\ Label(p) = "put_stats" /\ Puts[Label(p)] = "stats"
      BY <3>1, <3>2, Kinds DEF Writing
    <3>4. \/ req[p].op = "login" /\ pc[p] = 10
          \/ req[p].op = "save" /\ pc[p] = 10
          \/ req[p].op = "beacon" /\ pc[p] = 2
      BY <3>3, LabelAt
    <3>5. StatsWithin(seen[p], r, l)
      BY <1>3, <3>3, <3>4 DEF HoldsStats
    <3>6. StatsWithin(StatsChanged(p, seen[p]),
                      IF req[p].op = "save" THEN r + 1 ELSE r,
                      IF req[p].op = "login" THEN l + 1 ELSE l)
      BY <1>1, <1>2, <3>5, StatsChangedWithin
    <3>7. <<"stats", Site>> \in Docs
      BY DEF Docs
    <3>8. doc'[<<"stats", Site>>] = StatsChanged(p, seen[p])
      BY <3>1, <3>2, <3>3, <3>7 DEF Writing, Changed, SiteTypes
    <3>9. Ok(p)' /\ ~Ok(p)
      <4>1. pc[p] = Len(Steps[req[p].op])
        BY <3>3, AtFacts, Calls DEF Label
      <4>2. resp'[p] = "ok"
        BY <3>1, <4>1 DEF Writing, Advance, Answer, SiteTypes
      <4> QED BY <3>3, <4>2, MissingAssumption DEF Ok, Active, Answers
    <3>10. /\ req[p].op = "save" => r + 1 <= r2
           /\ req[p].op = "login" => l + 1 <= l2
      BY <1>1, <1>2, <1>4, <3>9
    <3> QED BY <1>1, <1>2, <3>6, <3>8, <3>10, StatsWithinMore
  <2> QED BY <2>1, <2>2
<1>7. ASSUME NEW q \in Requests, HoldsStats(q)'
      PROVE  StatsWithin(seen'[q], r2, l2)
  <2>1. CASE q = p
    BY <1>3, <1>5, <1>7, <2>1, Reads
  <2>2. CASE q # p
    <3>1. HoldsStats(q) /\ seen'[q] = seen[q]
      BY <1>m, <1>7, <2>2, Stays DEF HoldsStats, Active
    <3> QED BY <1>3, <1>5, <1>7, <3>1
  <2> QED BY <2>1, <2>2
<1> QED BY <1>6, <1>7

LEMMA CountsStutter == CountsInv /\ UNCHANGED vars => CountsInv'
<1> SUFFICES ASSUME CountsInv, UNCHANGED vars PROVE CountsInv'
  OBVIOUS
<1> USE DEF vars, store
<1>1. \A q \in Requests : /\ Given(req[q]) => Given(req[q])'
                          /\ User(q)' = User(q)
  BY UsersStay DEF Given, Ok
<1>2. SiteTypes'
  BY <1>1 DEF CountsInv, SiteTypes, ThreadOK
<1>3. \A u \in Users : ReportsCounted(u)' = ReportsCounted(u)
  BY <1>1 DEF ReportsCounted
<1>4. RunsCounted' = RunsCounted /\ LoginsCounted' = LoginsCounted
  BY DEF RunsCounted, LoginsCounted, Ok
<1>5. UsersBounded'
  BY <1>1, <1>3 DEF CountsInv, UsersBounded, HoldsUser, Active
<1>6. StatisticsBounded' /\ ReportStored'
  BY <1>4 DEF CountsInv, StatisticsBounded, StatsBounded, HoldsStats, Active, ReportStored, Ok
<1> QED BY <1>2, <1>5, <1>6 DEF CountsInv

\* What the documents hold, and what is about to be written, was counted.
THEOREM CountsAlways == Spec => []CountsInv
<1>1. Init => CountsInv
  BY TypesInit, CountsInit DEF CountsInv
<1>2. CountsInv /\ [Next]_vars => CountsInv'
  <2> SUFFICES ASSUME CountsInv, [Next]_vars PROVE CountsInv'
    OBVIOUS
  <2>1. CASE UNCHANGED vars
    BY <2>1, CountsStutter
  <2>2. ASSUME NEW p \in Requests, Step(p) PROVE CountsInv'
    BY <2>2, TypesStep, UsersStep, StatisticsStep, StoredStep DEF CountsInv
  <2> QED BY <2>1, <2>2 DEF Next, Quiescent
<1> QED BY <1>1, <1>2, PTL DEF Spec

\* However the handlers of verifyOtp, saveReport and the beacon interleave and
\* fail between reading and writing a document, no counter exceeds what was done.
THEOREM Counters == Spec => []NeverOvercounted
<1>1. CountsInv => NeverOvercounted
  <2> SUFFICES ASSUME CountsInv PROVE NeverOvercounted
    OBVIOUS
  <2>f. IsFiniteSet(Requests)
    BY SiteAssumption
  <2>1. ASSUME NEW u \in Users, doc[<<"user", u>>] # None
        PROVE  doc[<<"user", u>>].reports <= Cardinality({p \in Saves : User(p) = u})
    <3> DEFINE S == {p \in Saves : User(p) = u}
               T == ReportsCounted(u)
    <3>1. doc[<<"user", u>>] \in UserDoc /\ doc[<<"user", u>>].reports <= Cardinality(T)
      BY <2>1 DEF CountsInv, UsersBounded, UserWithin
    <3>2. T \subseteq S
      BY AtFacts DEF CountsInv, ReportStored, Saves, ReportsCounted
    <3>3. IsFiniteSet(S)
      BY <2>f, FS_Subset DEF Saves
    <3>4. Cardinality(T) \in Nat /\ Cardinality(S) \in Nat /\ Cardinality(T) <= Cardinality(S)
      BY <3>2, <3>3, Growth
    <3>5. doc[<<"user", u>>].reports \in Nat
      BY <3>1 DEF UserDoc
    <3> QED BY <3>1, <3>4, <3>5
  <2>2. /\ Cardinality(RunsCounted) <= Cardinality(Saves)
        /\ Cardinality(LoginsCounted) <= Cardinality(Logins)
        /\ Cardinality(RunsCounted) \in Nat /\ Cardinality(Saves) \in Nat
        /\ Cardinality(LoginsCounted) \in Nat /\ Cardinality(Logins) \in Nat
    <3>1. IsFiniteSet(Saves) /\ IsFiniteSet(Logins)
      BY <2>f, FS_Subset DEF Saves, Logins
    <3>2. RunsCounted \subseteq Saves /\ LoginsCounted \subseteq Logins
      BY DEF RunsCounted, LoginsCounted, Saves, Logins
    <3> QED BY <3>1, <3>2, Growth
  <2>3. LET stats == doc[<<"stats", Site>>] IN
        stats # None =>
            /\ Within(stats, Cardinality(Saves), Cardinality(Logins))
            /\ stats.today # None => Within(stats.today, Cardinality(Saves), Cardinality(Logins))
    <3>1. StatsWithin(doc[<<"stats", Site>>], Cardinality(RunsCounted), Cardinality(LoginsCounted))
      BY DEF CountsInv, StatisticsBounded, StatsBounded
    <3>2. StatsWithin(doc[<<"stats", Site>>], Cardinality(Saves), Cardinality(Logins))
      BY <2>2, <3>1, StatsWithinMore
    <3> QED BY <3>2 DEF StatsWithin
  <2> QED BY <2>1, <2>3 DEF NeverOvercounted, Within
<1> QED BY <1>1, CountsAlways, PTL

-----------------------------------------------------------------------------
(* Induction over the naturals, and what is left of a list *)

\* Every set of naturals that is not empty has a least member.
LEMMA LeastNumber ==
    ASSUME NEW T, T \subseteq Nat, T # {}
    PROVE  \E m \in T : \A n \in T : m <= n
<1> DEFINE D == {1..n : n \in T}
           R == StrictSubsetOrdering(Nat)
           F == FiniteSubsetsOf(Nat)
<1>1. IsWellFoundedOn(R, F)
  BY FS_StrictSubsetOrderingWellFounded
<1>2. D \subseteq F
  BY FS_Interval DEF FiniteSubsetsOf
<1>3. D # {}
  OBVIOUS
<1>4. PICK x \in D : \A y \in D : ~ (<<y, x>> \in R)
  <2> HIDE DEF D, R, F
  <2> QED BY <1>1, <1>2, <1>3, WFMin
<1>5. PICK m \in T : x = 1..m
  OBVIOUS
<1>6. ASSUME NEW n \in T, n < m PROVE FALSE
  <2>1. n \in Nat /\ m \in Nat
    OBVIOUS
  <2>2. 1..n \subseteq 1..m /\ m \in 1..m /\ m \notin 1..n
    BY <1>6, <2>1
  <2>3. <<1..n, 1..m>> \in R
    BY <2>1, <2>2 DEF StrictSubsetOrdering
  <2> QED BY <1>4, <1>5, <2>3
<1> QED BY <1>5, <1>6

\* So what is true of 0, and of each number after one it is true of, is true of all.
LEMMA NumberInduction ==
    ASSUME NEW T, 0 \in T, \A n \in Nat : n \in T => n + 1 \in T
    PROVE  Nat \subseteq T
<1> SUFFICES ASSUME Nat \ T # {} PROVE FALSE
  OBVIOUS
<1>1. PICK m \in Nat \ T : \A n \in Nat \ T : m <= n
  BY LeastNumber
<1>2. m - 1 \in Nat /\ m - 1 \notin Nat \ T
  BY <1>1
<1> QED BY <1>1, <1>2

\* The elements kept of the first n.
Keeping(seq, x, g, m) ==
    g = [n \in 0..m |-> IF n = 0 THEN <<>>
                        ELSE IF seq[n] = x THEN g[n - 1] ELSE Append(g[n - 1], seq[n])]

LEMMA KeepingExists ==
    ASSUME NEW seq, NEW x, NEW m \in Nat
    PROVE  \E g : Keeping(seq, x, g, m)
<1> DEFINE T == {n \in Nat : \E g : Keeping(seq, x, g, n)}
<1>1. 0 \in T
  <2>1. Keeping(seq, x, [n \in 0..0 |-> <<>>], 0)
    BY DEF Keeping
  <2> QED BY <2>1
<1>2. ASSUME NEW n \in Nat, n \in T PROVE n + 1 \in T
  <2>1. PICK g : Keeping(seq, x, g, n)
    BY <1>2
  <2> DEFINE last == IF seq[n + 1] = x THEN g[n] ELSE Append(g[n], seq[n + 1])
             h == [i \in 0..n + 1 |-> IF i = n + 1 THEN last ELSE g[i]]
  <2> HIDE DEF last
  <2>2. \A i \in 0..n : g[i] = IF i = 0 THEN <<>>
                        ELSE IF seq[i] = x THEN g[i - 1] ELSE Append(g[i - 1], seq[i])
    BY <2>1 DEF Keeping
  <2>3. \A i \in 0..n + 1 : h[i] = IF i = 0 THEN <<>>
                        ELSE IF seq[i] = x THEN h[i - 1] ELSE Append(h[i - 1], seq[i])
    <3> SUFFICES ASSUME NEW i \in 0..n + 1 
          PROVE h[i] = IF i = 0 THEN <<>>
                        ELSE IF seq[i] = x THEN h[i - 1] ELSE Append(h[i - 1], seq[i])
      OBVIOUS
    <3>1. CASE i = n + 1
      <4>1. h[i] = last /\ h[i - 1] = g[n] /\ i # 0
        BY <3>1
      <4> QED BY <3>1, <4>1 DEF last
    <3>2. CASE i # n + 1
      <4>1. i \in 0..n /\ h[i] = g[i] /\ (i # 0 => h[i - 1] = g[i - 1])
        BY <3>2
      <4> HIDE DEF h
      <4> QED BY <2>2, <4>1
    <3> QED BY <3>1, <3>2
  <2>4. Keeping(seq, x, h, n + 1)
    BY <2>3 DEF Keeping
  <2> QED BY <2>4
<1>3. Nat \subseteq T
  <2> HIDE DEF T
  <2> QED BY <1>1, <1>2, NumberInduction
<1> QED BY <1>3

\* r is what is left of the first n of s without x: the others, in their order.
IsWithout(r, s, n, x) ==
    /\ \A i \in 1..Len(r) : \E a \in 1..n : r[i] = s[a] /\ s[a] # x
    /\ \A i, j \in 1..Len(r) : i < j =>
            \E a, b \in 1..n : a < b /\ r[i] = s[a] /\ r[j] = s[b]
    /\ \A a \in 1..n : s[a] # x => \E i \in 1..Len(r) : r[i] = s[a]

LEMMA OneMore ==
    ASSUME NEW S, NEW s \in Seq(S), NEW n \in Nat, n + 1 <= Len(s), NEW x,
           NEW r \in Seq(S), IsWithout(r, s, n, x), s[n + 1] # x
    PROVE  Append(r, s[n + 1]) \in Seq(S) /\ IsWithout(Append(r, s[n + 1]), s, n + 1, x)
<1> DEFINE q == Append(r, s[n + 1])
<1>1. s[n + 1] \in S
  OBVIOUS
<1>2. /\ q \in Seq(S) /\ Len(q) = Len(r) + 1 /\ Len(r) \in Nat
      /\ q[Len(r) + 1] = s[n + 1]
      /\ \A i \in 1..Len(r) : q[i] = r[i]
  BY <1>1
<1> HIDE DEF q
<1>3. \A i \in 1..Len(q) : \E a \in 1..n + 1 : q[i] = s[a] /\ s[a] # x
  <2> SUFFICES ASSUME NEW i \in 1..Len(q)
               PROVE  \E a \in 1..n + 1 : q[i] = s[a] /\ s[a] # x
    OBVIOUS
  <2>1. CASE i = Len(r) + 1
    BY <1>2, <2>1
  <2>2. CASE i \in 1..Len(r)
    <3>1. PICK a \in 1..n : r[i] = s[a] /\ s[a] # x
      BY <2>2 DEF IsWithout
    <3> QED BY <1>2, <2>2, <3>1
  <2> QED BY <1>2, <2>1, <2>2
<1>4. ASSUME NEW i \in 1..Len(q), NEW j \in 1..Len(q), i < j
      PROVE  \E a, b \in 1..n + 1 : a < b /\ q[i] = s[a] /\ q[j] = s[b]
  <2>1. i \in 1..Len(r)
    BY <1>2, <1>4
  <2>2. CASE j = Len(r) + 1
    <3>1. PICK a \in 1..n : r[i] = s[a]
      BY <2>1 DEF IsWithout
    <3> QED BY <1>2, <2>1, <2>2, <3>1
  <2>3. CASE j \in 1..Len(r)
    <3>1. PICK a \in 1..n, b \in 1..n : a < b /\ r[i] = s[a] /\ r[j] = s[b]
      BY <1>4, <2>1, <2>3 DEF IsWithout
    <3> QED BY <1>2, <2>1, <2>3, <3>1
  <2> QED BY <1>2, <2>2, <2>3
<1>5. \A a \in 1..n + 1 : s[a] # x => \E i \in 1..Len(q) : q[i] = s[a]
  <2> SUFFICES ASSUME NEW a \in 1..n + 1, s[a] # x PROVE \E i \in 1..Len(q) : q[i] = s[a]
    OBVIOUS
  <2>1. CASE a = n + 1
    BY <1>2, <2>1
  <2>2. CASE a \in 1..n
    <3>1. PICK i \in 1..Len(r) : r[i] = s[a]
      BY <2>2 DEF IsWithout
    <3> QED BY <1>2, <3>1
  <2> QED BY <2>1, <2>2
<1> QED BY <1>2, <1>3, <1>4, <1>5 DEF q, IsWithout

LEMMA WithoutFacts ==
    ASSUME NEW S, NEW s \in Seq(S), NEW x
    PROVE  Without(s, x) \in Seq(S) /\ IsWithout(Without(s, x), s, Len(s), x)
<1> DEFINE g == CHOOSE f : f = [n \in 0..Len(s) |-> IF n = 0 THEN <<>>
                        ELSE IF s[n] = x THEN f[n - 1] ELSE Append(f[n - 1], s[n])]
<1>0. Len(s) \in Nat
  OBVIOUS
<1>1. g = [n \in 0..Len(s) |-> IF n = 0 THEN <<>>
               ELSE IF s[n] = x THEN g[n - 1] ELSE Append(g[n - 1], s[n])]
  <2>1. \E f : f = [n \in 0..Len(s) |-> IF n = 0 THEN <<>>
                        ELSE IF s[n] = x THEN f[n - 1] ELSE Append(f[n - 1], s[n])]
    <3>1. PICK f : Keeping(s, x, f, Len(s))
      BY <1>0, KeepingExists
    <3> QED BY <3>1 DEF Keeping
  <2> QED BY <2>1
<1>2. Without(s, x) = g[Len(s)]
  BY DEF Without
<1> HIDE DEF g
<1>3. \A n \in 0..Len(s) : g[n] = IF n = 0 THEN <<>>
                        ELSE IF s[n] = x THEN g[n - 1] ELSE Append(g[n - 1], s[n])
  BY <1>1
<1> DEFINE Good(n) == g[n] \in Seq(S) /\ IsWithout(g[n], s, n, x)
           T == {n \in Nat : n <= Len(s) => Good(n)}
<1>4. 0 \in T
  <2>1. g[0] = <<>>
    BY <1>0, <1>3
  <2>2. g[0] \in Seq(S) /\ Len(g[0]) = 0
    BY <2>1
  <2>3. IsWithout(g[0], s, 0, x)
    BY <2>2 DEF IsWithout
  <2> QED BY <2>2, <2>3
<1>5. ASSUME NEW n \in Nat, n \in T PROVE n + 1 \in T
  <2> SUFFICES ASSUME n + 1 <= Len(s) PROVE Good(n + 1)
    OBVIOUS
  <2>1. g[n] \in Seq(S) /\ IsWithout(g[n], s, n, x)
    BY <1>0, <1>5
  <2>2. g[n + 1] = IF s[n + 1] = x THEN g[n] ELSE Append(g[n], s[n + 1])
    BY <1>0, <1>3
  <2>3. CASE s[n + 1] = x
    <3>1. IsWithout(g[n], s, n + 1, x)
      <4>1. \A a \in 1..n + 1 : a \in 1..n \/ a = n + 1
        OBVIOUS
      <4>2. 1..n \subseteq 1..n + 1
        OBVIOUS
      <4> QED BY <2>1, <2>3, <4>1, <4>2 DEF IsWithout
    <3> QED BY <2>1, <2>2, <2>3, <3>1
  <2>4. CASE s[n + 1] # x
    BY <2>1, <2>2, <2>4, OneMore
  <2> QED BY <2>3, <2>4
<1>6. Nat \subseteq T
  <2> HIDE DEF T
  <2> QED BY <1>4, <1>5, NumberInduction
<1> QED BY <1>0, <1>2, <1>6
-----------------------------------------------------------------------------
(* Lists as data *)

\* A list without repetition of entries of W; the newest first means that none
\* was heard of by one behind it.
Entered(s, W, h, newest) ==
    /\ s \in Seq(W)
    /\ \A i, j \in 1..Len(s) : i < j => s[i] # s[j] /\ (newest => s[i] \notin h[s[j]])

LEMMA ListSet ==
    ASSUME NEW W, NEW s \in Seq(W)
    PROVE  \A x : x \in ToSet(s) <=> \E i \in 1..Len(s) : s[i] = x
BY DEF ToSet

LEMMA MoreEntries ==
    ASSUME NEW s, NEW W, NEW V, NEW h, NEW newest, W \subseteq V, Entered(s, W, h, newest)
    PROVE  Entered(s, V, h, newest)
BY DEF Entered

\* r is list s with q in front and up to cap entries.
InFront(r, s, W, h, newest, q, cap) ==
    /\ Entered(r, W \cup {q}, h, newest)
    /\ q \in ToSet(r) /\ ToSet(r) \subseteq ToSet(s) \cup {q}
    /\ \A i \in 1..Len(s) : s[i] \in ToSet(r) \/ cap <= i

LEMMA Prepended ==
    ASSUME NEW s, NEW W, NEW h, NEW newest, NEW q, NEW cap \in Nat \ {0},
           Entered(s, W, h, newest),
           q \notin W, \A x \in W : q \notin h[x]
    PROVE  InFront(Capped(<<q>> \o s, cap), s, W, h, newest, q, cap)
<1> DEFINE t == <<q>> \o s
           r == Capped(t, cap)
           V == W \cup {q}
<1>0. s \in Seq(W) /\ s \in Seq(V) /\ <<q>> \in Seq(V) /\ Len(s) \in Nat
  BY DEF Entered
<1>1. /\ t \in Seq(V) /\ Len(t) = Len(s) + 1 /\ t[1] = q
      /\ \A i \in 1..Len(s) : t[i + 1] = s[i]
  BY <1>0
<1> HIDE DEF t
<1>2. /\ r \in Seq(V) /\ Len(r) \in Nat /\ Len(r) >= 1
      /\ Len(r) = IF Len(t) > cap THEN cap ELSE Len(t)
      /\ \A i \in 1..Len(r) : r[i] = t[i]
  BY <1>0, <1>1 DEF Capped
<1> HIDE DEF r
<1>3. \A i \in 1..Len(r) : /\ r[i] = IF i = 1 THEN q ELSE s[i - 1]
                           /\ i # 1 => i - 1 \in 1..Len(s)
  <2> SUFFICES ASSUME NEW i \in 1..Len(r)
               PROVE  /\ r[i] = IF i = 1 THEN q ELSE s[i - 1]
                      /\ i # 1 => i - 1 \in 1..Len(s)
    OBVIOUS
  <2>1. r[i] = t[i] /\ i <= Len(s) + 1
    BY <1>0, <1>1, <1>2
  <2>2. CASE i = 1
    BY <1>1, <2>1, <2>2
  <2>3. CASE i # 1
    <3>1. i - 1 \in 1..Len(s) /\ (i - 1) + 1 = i
      BY <1>0, <1>2, <2>1, <2>3
    <3>2. t[(i - 1) + 1] = s[i - 1]
      BY <1>1, <3>1
    <3> QED BY <2>1, <2>3, <3>1, <3>2
  <2> QED BY <2>2, <2>3
<1>4. \A i \in 1..Len(s) : s[i] \in W
  BY <1>0
<1>5. ASSUME NEW i \in 1..Len(r), NEW j \in 1..Len(r), i < j
      PROVE  r[i] # r[j] /\ (newest => r[i] \notin h[r[j]])
  <2>1. r[j] = s[j - 1] /\ j - 1 \in 1..Len(s)
    BY <1>3, <1>5
  <2>2. CASE i = 1
    BY <1>3, <1>4, <2>1, <2>2
  <2>3. CASE i # 1
    <3>1. r[i] = s[i - 1] /\ i - 1 \in 1..Len(s) /\ i - 1 < j - 1
      BY <1>3, <1>5, <2>1, <2>3
    <3> QED BY <2>1, <3>1 DEF Entered
  <2> QED BY <2>2, <2>3
<1>6. Entered(r, V, h, newest)
  BY <1>2, <1>5 DEF Entered
<1>7. q \in ToSet(r)
  BY <1>2, <1>3, ListSet
<1>8. ToSet(r) \subseteq ToSet(s) \cup {q}
  BY <1>0, <1>2, <1>3, ListSet
<1>9. ASSUME NEW i \in 1..Len(s), i < cap PROVE s[i] \in ToSet(r)
  <2>1. i + 1 \in 1..Len(r)
    BY <1>0, <1>1, <1>2, <1>9
  <2>2. r[i + 1] = s[i]
    BY <1>3, <1>9, <2>1
  <2> QED BY <1>2, <2>1, <2>2, ListSet
<1>10. \A i \in 1..Len(s) : s[i] \in ToSet(r) \/ cap <= i
  BY <1>0, <1>9
<1> QED BY <1>6, <1>7, <1>8, <1>10 DEF r, t, InFront

\* A new entry at the end of a list that has no cap.
LEMMA AppendedFacts ==
    ASSUME NEW W, NEW s \in Seq(W), NEW q
    PROVE  LET r == Append(s, q) IN
           /\ r \in Seq(W \cup {q}) /\ Len(r) = Len(s) + 1 /\ r[Len(s) + 1] = q
           /\ \A i \in 1..Len(s) : r[i] = s[i]
           /\ \A x : x \in ToSet(r) <=> x \in ToSet(s) \/ x = q
<1> DEFINE r == Append(s, q)
           V == W \cup {q}
<1>0. s \in Seq(V) /\ Len(s) \in Nat
  OBVIOUS
<1>1. /\ r \in Seq(V) /\ Len(r) = Len(s) + 1 /\ r[Len(s) + 1] = q
      /\ \A i \in 1..Len(s) : r[i] = s[i]
  BY <1>0
<1> HIDE DEF r
<1>2. \A i \in 1..Len(r) : i = Len(s) + 1 \/ i \in 1..Len(s)
  BY <1>0, <1>1
<1>3. \A x : x \in ToSet(r) <=> x \in ToSet(s) \/ x = q
  <2>1. Len(s) + 1 \in 1..Len(r) /\ 1..Len(s) \subseteq 1..Len(r)
    BY <1>0, <1>1
  <2> QED BY <1>0, <1>1, <1>2, <2>1, ListSet
<1> QED BY <1>1, <1>3 DEF r

LEMMA Appended ==
    ASSUME NEW s, NEW W, NEW h, NEW newest, NEW q, Entered(s, W, h, newest),
           ~newest, q \notin W
    PROVE  Entered(Append(s, q), W \cup {q}, h, newest)
<1> DEFINE r == Append(s, q)
<1>0. s \in Seq(W) /\ Len(s) \in Nat /\ \A i \in 1..Len(s) : s[i] \in W
  BY DEF Entered
<1>1. /\ r \in Seq(W \cup {q}) /\ Len(r) = Len(s) + 1 /\ r[Len(s) + 1] = q
      /\ \A i \in 1..Len(s) : r[i] = s[i]
  BY <1>0, AppendedFacts
<1> HIDE DEF r
<1>2. ASSUME NEW i \in 1..Len(r), NEW j \in 1..Len(r), i < j PROVE r[i] # r[j]
  <2>1. i \in 1..Len(s) /\ r[i] = s[i] /\ s[i] \in W
    BY <1>0, <1>1, <1>2
  <2>2. CASE j = Len(s) + 1
    BY <1>1, <2>1, <2>2
  <2>3. CASE j \in 1..Len(s)
    BY <1>1, <1>2, <2>1, <2>3 DEF Entered
  <2> QED BY <1>0, <1>1, <2>2, <2>3
<1>3. Entered(r, W \cup {q}, h, newest)
  BY <1>1, <1>2 DEF Entered
<1> QED BY <1>3 DEF r

\* An entry taken out.
LEMMA TakenOut ==
    ASSUME NEW s, NEW W, NEW h, NEW newest, NEW x, Entered(s, W, h, newest)
    PROVE  LET r == Without(s, x) IN
           Entered(r, W, h, newest) /\ ToSet(r) = ToSet(s) \ {x}
<1> DEFINE r == Without(s, x)
<1>1. s \in Seq(W)
  BY DEF Entered
<1>2. r \in Seq(W) /\ IsWithout(r, s, Len(s), x)
  BY <1>1, WithoutFacts
<1> HIDE DEF r
<1>3. ASSUME NEW i \in 1..Len(r), NEW j \in 1..Len(r), i < j
      PROVE  r[i] # r[j] /\ (newest => r[i] \notin h[r[j]])
  <2>1. PICK a \in 1..Len(s), b \in 1..Len(s) : a < b /\ r[i] = s[a] /\ r[j] = s[b]
    BY <1>2, <1>3 DEF IsWithout
  <2> QED BY <2>1 DEF Entered
<1>4. Entered(r, W, h, newest)
  BY <1>2, <1>3 DEF Entered
<1>5. \A y : y \in ToSet(r) <=> y \in ToSet(s) /\ y # x
  <2> SUFFICES ASSUME NEW y PROVE y \in ToSet(r) <=> y \in ToSet(s) /\ y # x
    OBVIOUS
  <2>1. ASSUME y \in ToSet(r) PROVE y \in ToSet(s) /\ y # x
    <3>1. PICK i \in 1..Len(r) : r[i] = y
      BY <1>2, <2>1, ListSet
    <3>2. PICK a \in 1..Len(s) : r[i] = s[a] /\ s[a] # x
      BY <1>2 DEF IsWithout
    <3> QED BY <1>1, <3>1, <3>2, ListSet
  <2>2. ASSUME y \in ToSet(s), y # x PROVE y \in ToSet(r)
    <3>1. PICK a \in 1..Len(s) : s[a] = y
      BY <1>1, <2>2, ListSet
    <3>2. PICK i \in 1..Len(r) : r[i] = s[a]
      BY <1>2, <2>2, <3>1 DEF IsWithout
    <3> QED BY <1>2, <3>1, <3>2, ListSet
  <2> QED BY <2>1, <2>2
<1> QED BY <1>4, <1>5 DEF r

\* Whoever stands behind that many newer entries has as many others after it.
LEMMA Behind ==
    ASSUME NEW s, NEW W, NEW h, NEW newest, Entered(s, W, h, newest), NEW i \in 1..Len(s),
           NEW q, q \notin W, NEW O, IsFiniteSet(O), q \in O,
           \A j \in 1..Len(s) : j < i => s[j] \in O
    PROVE  Cardinality(O) >= i
<1> DEFINE f == [j \in 1..i |-> IF j < i THEN s[j] ELSE q]
<1>0. s \in Seq(W) /\ Len(s) \in Nat /\ i \in Nat /\ \A j \in 1..Len(s) : s[j] \in W
  BY DEF Entered
<1>1. f \in [1..i -> O]
  BY <1>0
<1>2. ASSUME NEW a \in 1..i, NEW b \in 1..i, a < b PROVE f[a] # f[b]
  <2>1. a < i /\ f[a] = s[a] /\ a \in 1..Len(s)
    BY <1>0, <1>2
  <2>2. CASE b = i
    BY <1>0, <2>1, <2>2
  <2>3. CASE b < i
    <3>1. f[b] = s[b] /\ b \in 1..Len(s)
      BY <1>0, <2>3
    <3> QED BY <1>2, <2>1, <3>1 DEF Entered
  <2> QED BY <1>0, <2>2, <2>3
<1>3. f \in Injection(1..i, O)
  <2>1. \A a, b \in 1..i : f[a] = f[b] => a = b
    <3> HIDE DEF f
    <3> SUFFICES ASSUME NEW a \in 1..i, NEW b \in 1..i, a # b PROVE f[a] # f[b]
      OBVIOUS
    <3>1. a < b \/ b < a
      BY <1>0
    <3> QED BY <1>2, <3>1
  <2> HIDE DEF f
  <2> QED BY <1>1, <2>1 DEF Injection, IsInjective
<1> HIDE DEF f
<1>4. Cardinality(1..i) <= Cardinality(O)
  BY <1>3, FS_Injection
<1>5. Cardinality(1..i) = i /\ Cardinality(O) \in Nat
  BY <1>0, FS_Interval, FS_CardinalityType
<1> QED BY <1>0, <1>4, <1>5
-----------------------------------------------------------------------------
(* Lists in the store *)

Listing == {"index", "keys", "activity", "audit"}
Lists == {d \in Docs : d[1] \in Listing}

\* Where a handler puts a list back.
Turns ==
    {<<"save", "index", 4>>, <<"delete", "index", 5>>, <<"new_key", "keys", 4>>,
     <<"drop_key", "keys", 4>>, <<"login", "activity", 7>>, <<"save", "activity", 8>>,
     <<"grant", "audit", 5>>, <<"revoke", "audit", 5>>}

Turn(q, d, i) == <<req[q].op, d[1], i>> \in Turns /\ Document(q, d[1]) = d

\* Who has read a list and is yet to put it back, and who has put it back.
Holds(q, d) ==
    Active(q) /\ \E i \in Nat :
        Turn(q, d, i) /\ (pc[q] = i \/ (req[q].op = "drop_key" /\ pc[q] = 3))
Wrote(q, d) == \E i \in Nat : Turn(q, d, i) /\ (pc[q] > i \/ (pc[q] = i /\ Ok(q)))

Writers(d) == {q \in Entering : Wrote(q, d)}

\* What a list owes to p: its entry, unless it was withdrawn or pushed out, or
\* the absence of the entry that p withdrew.
Agrees(s, p, d) ==
    /\ p \in Entering => p \in ToSet(s) \/ Withdrawn(p) \/ PushedOut(p, d)
    /\ req[p].op \in {"delete", "drop_key"} => req[p].of \notin ToSet(s)

\* Whose list p is, and who puts back a copy that was read after p was answered,
\* agree with p if nobody overlaps it.
ListsInv ==
    \A d \in Lists :
        LET newest == d[1] \in {"index", "audit"} IN
        /\ Entered(doc[d], Writers(d), heard, newest)
        /\ \A q \in Requests : Holds(q, d) => Entered(seen[q], Writers(d), heard, newest)
        /\ \A p \in Requests : Wrote(p, d) /\ Alone(p, d) =>
             /\ Agrees(doc[d], p, d)
             /\ \A q \in Requests : Holds(q, d) /\ p \in heard[q] => Agrees(seen[q], p, d)

LEMMA ListCalls ==
  ASSUME NEW op \in OpNames, NEW i \in 1..Len(Steps[op]), NEW kind \in Listing
  PROVE  LET l == Steps[op][i] IN
         /\ l \in DOMAIN Puts /\ Puts[l] = kind <=> <<op, kind, i>> \in Turns
         /\ l \in DOMAIN Gets /\ Gets[l] = kind <=>
              \/ <<op, kind, i + 1>> \in Turns /\ op # "drop_key"
              \/ <<op, kind, i>> = <<"drop_key", "keys", 2>>
<1>g. /\ DOMAIN Gets = {"get_user", "get_index", "get_keys", "get_activity", "get_stats",
                         "get_allowlist", "get_audit"}
      /\ DOMAIN Puts = {"put_user", "put_index", "put_keys", "put_activity", "put_stats",
                         "put_allowlist", "put_audit"}
      /\ Gets["get_user"] = "user" /\ Gets["get_index"] = "index" /\ Gets["get_keys"] = "keys"
      /\ Gets["get_activity"] = "activity" /\ Gets["get_stats"] = "stats"
      /\ Gets["get_allowlist"] = "allowlist" /\ Gets["get_audit"] = "audit"
      /\ Puts["put_user"] = "user" /\ Puts["put_index"] = "index" /\ Puts["put_keys"] = "keys"
      /\ Puts["put_activity"] = "activity" /\ Puts["put_stats"] = "stats"
      /\ Puts["put_allowlist"] = "allowlist" /\ Puts["put_audit"] = "audit"
  BY DEF Gets, Puts
<1> USE <1>g DEF Listing, Turns
<1>1. CASE op = "login"
  <2>1. i \in 1..10
    BY <1>1, LoginSteps
  <2> QED BY <1>1, <2>1, LoginSteps
<1>2. CASE op = "save"
  <2>1. i \in 1..10
    BY <1>2, SaveSteps
  <2> QED BY <1>2, <2>1, SaveSteps
<1>3. CASE op = "send_otp"
  <2>1. i \in 1..1 /\ Len(Steps[op]) = 1
    BY <1>3, ShortSteps
  <2> QED BY <1>3, <2>1, ShortSteps
<1>4. CASE op = "logout"
  <2>1. i \in 1..1 /\ Len(Steps[op]) = 1
    BY <1>4, ShortSteps
  <2> QED BY <1>4, <2>1, ShortSteps
<1>5. CASE op = "beacon"
  <2>1. i \in 1..2 /\ Len(Steps[op]) = 2
    BY <1>5, ShortSteps
  <2> QED BY <1>5, <2>1, ShortSteps
<1>6. CASE op = "new_key"
  <2>1. i \in 1..4 /\ Len(Steps[op]) = 4
    BY <1>6, ShortSteps
  <2> QED BY <1>6, <2>1, ShortSteps
<1>7. CASE op = "drop_key"
  <2>1. i \in 1..4 /\ Len(Steps[op]) = 4
    BY <1>7, ShortSteps
  <2> QED BY <1>7, <2>1, ShortSteps
<1>8. CASE op = "delete"
  <2>1. i \in 1..5 /\ Len(Steps[op]) = 5
    BY <1>8, ShortSteps
  <2>2. LET s == Steps[op] IN
        /\ s[1] = "auth" /\ s[2] = "get_report" /\ s[3] = "del_report"
        /\ s[4] = "get_index" /\ s[5] = "put_index"
    BY <1>8, ShortSteps
  <2> QED BY <1>8, <2>1, <2>2
<1>9. CASE op = "grant" \/ op = "revoke"
  <2>1. i \in 1..5 /\ Len(Steps[op]) = 5
    <3>1. CASE op = "grant"
      BY <3>1, ShortSteps
    <3>2. CASE op = "revoke"
      BY <3>2, ShortSteps
    <3> QED BY <1>9, <3>1, <3>2
  <2>2. LET s == Steps[op] IN
        /\ s[1] = "auth" /\ s[2] = "get_allowlist" /\ s[3] = "put_allowlist"
        /\ s[4] = "get_audit" /\ s[5] = "put_audit"
    <3>1. CASE op = "grant"
      BY <3>1, ShortSteps
    <3>2. CASE op = "revoke"
      BY <3>2, ShortSteps
    <3> QED BY <1>9, <3>1, <3>2
  <2> QED BY <1>9, <2>1, <2>2
<1> QED BY <1>1, <1>2, <1>3, <1>4, <1>5, <1>6, <1>7, <1>8, <1>9 DEF OpNames

LEMMA StepsAreSequences ==
  ASSUME NEW op \in OpNames
  PROVE  DOMAIN Steps[op] = 1..Len(Steps[op])
<1>1. DOMAIN Steps["login"] = 1..10 /\ DOMAIN Steps["save"] = 1..10
  BY DEF Steps, SaveReport, Track
<1>2. CASE op = "login" \/ op = "save"
  BY <1>1, <1>2, LoginSteps, SaveSteps
<1>3. CASE op = "send_otp" \/ op = "logout"
  BY <1>3, ShortSteps
<1>4. CASE op = "beacon"
  BY <1>4, ShortSteps
<1>5. CASE op = "new_key"
  BY <1>5, ShortSteps
<1>6. CASE op = "drop_key"
  BY <1>6, ShortSteps
<1>7. CASE op = "delete"
  BY <1>7, ShortSteps
<1>8. CASE op = "grant"
  BY <1>8, ShortSteps
<1>9. CASE op = "revoke"
  BY <1>9, ShortSteps
<1> QED BY <1>2, <1>3, <1>4, <1>5, <1>6, <1>7, <1>8, <1>9 DEF OpNames

\* A list is put back within its handler, once.
LEMMA TurnFacts ==
  ASSUME NEW op \in OpNames, NEW kind, NEW i, <<op, kind, i>> \in Turns
  PROVE  /\ i \in 1..Len(Steps[op]) /\ i \in 4..8
         /\ DOMAIN Steps[op] = 1..Len(Steps[op])
         /\ \A j : <<op, kind, j>> \in Turns => j = i
<1> USE DEF Turns
<1>1. CASE op = "login" \/ op = "save"
  <2>1. Len(Steps[op]) = 10
    BY <1>1, LoginSteps, SaveSteps
  <2>2. DOMAIN Steps["login"] = 1..10 /\ DOMAIN Steps["save"] = 1..10
    BY DEF Steps, SaveReport, Track
  <2> QED BY <1>1, <2>1, <2>2
<1>2. CASE op = "new_key" \/ op = "drop_key"
  <2>1. Len(Steps[op]) = 4 /\ DOMAIN Steps[op] = 1..4
    BY <1>2, ShortSteps
  <2> QED BY <1>2, <2>1
<1>3. CASE op = "delete"
  <2>1. Len(Steps[op]) = 5 /\ DOMAIN Steps[op] = 1..5
    BY <1>3, ShortSteps
  <2> QED BY <1>3, <2>1
<1>4. CASE op = "grant"
  <2>1. Len(Steps[op]) = 5 /\ DOMAIN Steps[op] = 1..5
    BY <1>4, ShortSteps
  <2> QED BY <1>4, <2>1
<1>5. CASE op = "revoke"
  <2>1. Len(Steps[op]) = 5 /\ DOMAIN Steps[op] = 1..5
    BY <1>5, ShortSteps
  <2> QED BY <1>5, <2>1
<1> QED BY <1>1, <1>2, <1>3, <1>4, <1>5

\* A document is read and written by one action each, or the call fails.
LEMMA DocumentCalls ==
  ASSUME NEW p \in Requests, Step(p), Active(p)
  PROVE  /\ Label(p) \in DOMAIN Gets => ReadDocument(p) \/ Fail(p)
         /\ Label(p) \in DOMAIN Puts => WriteDocument(p) \/ Fail(p)
<1> DEFINE ls == {"put_otp", "get_otp", "del_otp", "put_session", "get_report", "auth",
                  "del_session", "put_report", "del_report", "put_key", "del_key",
                  "count_logins"}
<1>g. /\ DOMAIN Gets = {"get_user", "get_index", "get_keys", "get_activity", "get_stats",
                         "get_allowlist", "get_audit"}
      /\ DOMAIN Puts = {"put_user", "put_index", "put_keys", "put_activity", "put_stats",
                         "put_allowlist", "put_audit"}
  BY DEF Gets, Puts
<1>1. Arrive(p) => FALSE
  BY DEF Arrive, Active
<1>2. /\ Authenticate(p) \/ PutOtp(p) \/ GetOtp(p) \/ DeleteOtp(p) => Label(p) \in ls
      /\ PutSession(p) \/ DeleteSession(p) \/ PutReport(p) \/ GetReport(p) => Label(p) \in ls
      /\ DeleteReport(p) \/ PutKey(p) \/ DeleteKey(p) \/ CountLogins(p) => Label(p) \in ls
  BY DEF Authenticate, PutOtp, GetOtp, DeleteOtp, PutSession, GetReport, DeleteSession,
         PutReport, DeleteReport, PutKey, DeleteKey, CountLogins, At
<1>3. /\ ReadDocument(p) => Label(p) \in DOMAIN Gets
      /\ WriteDocument(p) => Label(p) \in DOMAIN Puts
  BY DEF ReadDocument, WriteDocument
<1>4. /\ Label(p) \in DOMAIN Gets => Label(p) \notin ls /\ Label(p) \notin DOMAIN Puts
      /\ Label(p) \in DOMAIN Puts => Label(p) \notin ls
  BY <1>g
<1> HIDE DEF ls
<1> QED BY <1>1, <1>2, <1>3, <1>4 DEF Step

LEMMA TurnCalls ==
  ASSUME SiteTypes, NEW p \in Requests, NEW d \in Lists, NEW i \in 1..Len(Steps[req[p].op])
  PROVE  LET op == req[p].op
             l == Steps[op][i]
         IN
         /\ l \in DOMAIN Puts /\ Puts[l] = d[1] <=> <<op, d[1], i>> \in Turns
         /\ l \in DOMAIN Gets /\ Gets[l] = d[1] <=>
              \/ <<op, d[1], i + 1>> \in Turns /\ op # "drop_key"
              \/ <<op, d[1], i>> = <<"drop_key", "keys", 2>>
<1> DEFINE op == req[p].op
           kind == d[1]
<1>1. op \in OpNames /\ kind \in Listing
  BY AtFacts DEF Lists
<1>2. i \in 1..Len(Steps[op])
  OBVIOUS
<1> HIDE DEF op, kind
<1>3. LET l == Steps[op][i] IN
      /\ l \in DOMAIN Puts /\ Puts[l] = kind <=> <<op, kind, i>> \in Turns
      /\ l \in DOMAIN Gets /\ Gets[l] = kind <=>
           \/ <<op, kind, i + 1>> \in Turns /\ op # "drop_key"
           \/ <<op, kind, i>> = <<"drop_key", "keys", 2>>
  BY <1>1, <1>2, ListCalls
<1> QED BY <1>3 DEF op, kind

LEMMA TurnsStay ==
  ASSUME req' = req, NEW q \in Requests, NEW d, NEW i
  PROVE  Turn(q, d, i)' <=> Turn(q, d, i)
<1>1. User(q)' = User(q)
  BY UsersStay
<1> QED BY <1>1 DEF Turn, Document

\* What a handler that puts list d back is about.
LEMMA TurnOf ==
  ASSUME SiteTypes, NEW q \in Requests, NEW d, NEW i, Turn(q, d, i)
  PROVE  /\ i \in 4..8 /\ i <= Len(Steps[req[q].op]) /\ req[q].op \in OpNames
         /\ req[q].op # "beacon"
         /\ \A j : Turn(q, d, j) => j = i
<1>1. req[q].op \in OpNames /\ Len(Steps[req[q].op]) \in Nat
  BY AtFacts
<1>2. <<req[q].op, d[1], i>> \in Turns
  BY DEF Turn
<1>3. i \in 1..Len(Steps[req[q].op]) /\ i \in 4..8
  BY <1>1, <1>2, TurnFacts
<1>4. \A j : Turn(q, d, j) => j = i
  BY <1>1, <1>2, TurnFacts DEF Turn
<1>5. req[q].op # "beacon"
  BY <1>2 DEF Turns
<1> QED BY <1>1, <1>3, <1>4, <1>5

LEMMA WroteLater ==
  ASSUME SiteTypes, NEW p \in Requests, Moves(p), NEW q \in Requests, NEW d, Wrote(q, d)
  PROVE  Wrote(q, d)'
<1>1. PICK i \in Nat : Turn(q, d, i) /\ (pc[q] > i \/ (pc[q] = i /\ Ok(q)))
  BY DEF Wrote
<1>2. Turn(q, d, i)'
  BY <1>1, TurnsStay DEF Moves
<1>3. pc[q] \in Nat /\ pc'[q] \in Nat /\ pc'[q] >= pc[q]
  BY Stays DEF SiteTypes
<1>4. Ok(q) => Ok(q)'
  BY Stays
<1> QED BY <1>1, <1>2, <1>3, <1>4 DEF Wrote

LEMMA WroteBegan ==
  ASSUME SiteTypes, NEW q \in Requests, NEW d, Wrote(q, d) \/ Holds(q, d)
  PROVE  pc[q] > 0
<1>1. \A i : Turn(q, d, i) => i \in 4..8
  BY TurnOf
<1>2. pc[q] \in Nat
  BY DEF SiteTypes
<1> QED BY <1>1, <1>2 DEF Wrote, Holds

\* Who puts a list back.
LEMMA WriterWrites ==
  ASSUME SiteTypes, NEW p \in Requests, NEW d \in Lists
  PROVE  Writes(p, d) <=> \E i \in Nat : Turn(p, d, i)
<1>1. req[p].op \in OpNames /\ Len(Steps[req[p].op]) \in Nat
  BY AtFacts
<1>2. d[1] \in Listing
  BY DEF Lists
<1>3. ASSUME NEW i \in Nat, Turn(p, d, i) PROVE Writes(p, d)
  <2>1. i \in 1..Len(Steps[req[p].op]) /\ i \in DOMAIN Steps[req[p].op]
    BY <1>1, <1>3, TurnFacts DEF Turn
  <2>2. Steps[req[p].op][i] \in DOMAIN Puts /\ Puts[Steps[req[p].op][i]] = d[1]
    BY <1>3, <2>1, TurnCalls DEF Turn
  <2> QED BY <1>3, <2>1, <2>2 DEF Writes, Turn, ToSet
<1>4. ASSUME Writes(p, d) PROVE \E i \in Nat : Turn(p, d, i)
  <2>1. PICK i \in DOMAIN Steps[req[p].op] :
             /\ Steps[req[p].op][i] \in DOMAIN Puts
             /\ Document(p, Puts[Steps[req[p].op][i]]) = d
    BY <1>4 DEF Writes, ToSet
  <2>2. d[1] = Puts[Steps[req[p].op][i]]
    BY <2>1 DEF Document
  <2>3. i \in 1..Len(Steps[req[p].op])
    BY <1>1, <2>1, StepsAreSequences
  <2>4. <<req[p].op, d[1], i>> \in Turns
    BY <2>1, <2>2, <2>3, TurnCalls
  <2> QED BY <2>1, <2>2, <2>3, <2>4 DEF Turn
<1> QED BY <1>3, <1>4

\* p's handler puts list d back.
PutsBack(p, d) ==
    /\ Holds(p, d) /\ Turn(p, d, pc[p])
    /\ doc'[d] = Changed(p, d[1], seen[p])

LEMMA NewlyWrote ==
  ASSUME SiteTypes, NEW p \in Requests, Step(p), NEW d \in Lists, NEW q \in Requests,
         Wrote(q, d)', ~Wrote(q, d)
  PROVE  q = p /\ PutsBack(p, d)
<1>m. Moves(p) /\ req' = req
  BY StepMoves DEF Moves
<1>1. PICK i \in Nat : Turn(q, d, i) /\ (pc'[q] > i \/ (pc'[q] = i /\ Ok(q)'))
  BY <1>m, TurnsStay DEF Wrote
<1>2. i \in 4..8 /\ i <= Len(Steps[req[q].op]) /\ req[q].op \in OpNames /\ req[q].op # "beacon"
  BY <1>1, TurnOf
<1>3. pc[q] \in Nat /\ ~(pc[q] > i) /\ ~(pc[q] = i /\ Ok(q))
  BY <1>1 DEF Wrote, SiteTypes
<1>4. q = p
  BY <1>m, <1>1, <1>3, Stays DEF Ok
<1>5. Active(p) /\ pc[p] = i
  <2>1. pc \in [Requests -> Nat] /\ resp \in [Requests -> Answers \cup {None}]
    BY DEF SiteTypes
  <2>2. CASE pc' = [pc EXCEPT ![p] = 1]
    BY <1>1, <1>2, <1>4, <2>1, <2>2
  <2>3. CASE /\ Active(p) /\ resp' = resp
             /\ pc' = [pc EXCEPT ![p] = @ + 1]
    <3>1. pc'[p] = pc[p] + 1 /\ Ok(p)' = Ok(p) /\ ~Ok(p)
      BY <2>1, <2>3, MissingAssumption DEF Ok, Active, Answers
    <3> QED BY <1>1, <1>3, <1>4, <2>3, <3>1
  <2>4. CASE Active(p) /\ pc' = pc
    BY <1>1, <1>3, <1>4, <2>1, <2>4
  <2> QED BY <1>m, <2>2, <2>3, <2>4 DEF Moves, Goes
<1>6. Label(p) \in DOMAIN Puts /\ Puts[Label(p)] = d[1] /\ d[1] \in Listing
  <2>1. i \in 1..Len(Steps[req[p].op])
    BY <1>1, <1>2, <1>4, AtFacts
  <2> QED BY <1>1, <1>4, <1>5, <2>1, TurnCalls DEF Label, Turn, Lists
<1>7. ~Fail(p)
  <2>1. Ok(p)' \/ pc' # pc
    BY <1>1, <1>3, <1>4
  <2> QED BY <1>2, <1>4, <2>1, Failed
<1>8. WriteDocument(p)
  BY <1>5, <1>6, <1>7, DocumentCalls
<1>9. doc' = [doc EXCEPT ![Document(p, d[1])] = Changed(p, d[1], seen[p])]
  BY <1>6, <1>8 DEF WriteDocument, Listing
<1>10. doc'[d] = Changed(p, d[1], seen[p])
  BY <1>1, <1>4, <1>9 DEF Turn, SiteTypes, Lists
<1> QED BY <1>1, <1>4, <1>5, <1>10 DEF PutsBack, Holds

LEMMA ListChanged ==
  ASSUME SiteTypes, NEW p \in Requests, Step(p), NEW d \in Lists, doc'[d] # doc[d]
  PROVE  PutsBack(p, d) /\ Wrote(p, d)'
<1>m. Moves(p) /\ req' = req
  BY StepMoves DEF Moves
<1>1. Writing(p)
  BY StoreSteps
<1>2. Active(p) /\ Label(p) \in DOMAIN Puts /\ Advance(p)
  BY <1>1 DEF Writing
<1> DEFINE kind == Puts[Label(p)]
<1>3. doc' = [doc EXCEPT ![Document(p, kind)] = Changed(p, kind, seen[p])]
  BY <1>1 DEF Writing
<1>4. Document(p, kind) = d
  BY <1>3 DEF SiteTypes, Lists
<1>5. d[1] = kind /\ d[1] \in Listing
  BY <1>4 DEF Document, Lists
<1>6. req[p].op \in OpNames /\ pc[p] \in 1..Len(Steps[req[p].op]) /\ pc[p] \in Nat
      /\ Len(Steps[req[p].op]) \in Nat
  BY <1>2, AtFacts
<1>7. Turn(p, d, pc[p])
  <2>1. <<req[p].op, d[1], pc[p]>> \in Turns
    BY <1>2, <1>5, <1>6, TurnCalls DEF Label
  <2> QED BY <1>4, <1>5, <2>1 DEF Turn
<1>8. doc'[d] = Changed(p, d[1], seen[p])
  BY <1>3, <1>4, <1>5 DEF SiteTypes, Lists
<1>10. Wrote(p, d)'
  <2>0. pc \in [Requests -> Nat] /\ resp \in [Requests -> Answers \cup {None}]
    BY DEF SiteTypes
  <2> DEFINE i == pc[p]
  <2>1. i \in Nat /\ Turn(p, d, i)
    BY <1>6, <1>7
  <2> HIDE DEF i
  <2>2. \A j : Turn(p, d, j) => Turn(p, d, j)'
    BY <1>m, TurnsStay
  <2>3. pc'[p] > i \/ (pc'[p] = i /\ Ok(p)')
    BY <1>2, <1>6, <2>0 DEF Advance, Answer, Ok, i
  <2>4. PICK j \in Nat : j = i
    BY <2>1
  <2>5. Turn(p, d, j)' /\ (pc'[p] > j \/ (pc'[p] = j /\ Ok(p)'))
    BY <2>1, <2>2, <2>3, <2>4
  <2> QED BY <2>5 DEF Wrote
<1> QED BY <1>2, <1>6, <1>7, <1>8, <1>10 DEF PutsBack, Holds

LEMMA NewlyHolds ==
  ASSUME SiteTypes, NEW p \in Requests, Step(p), NEW d \in Lists, NEW q \in Requests,
         Holds(q, d)'
  PROVE  \/ Holds(q, d) /\ seen'[q] = seen[q]
         \/ q = p /\ doc' = doc /\ seen'[p] = doc[d] /\ pc[p] > 0
<1>m. Moves(p) /\ req' = req
  BY StepMoves DEF Moves
<1>1. PICK i \in Nat : Turn(q, d, i)
                       /\ (pc'[q] = i \/ (req[q].op = "drop_key" /\ pc'[q] = 3))
  BY <1>m, TurnsStay DEF Holds
<1>2. i \in 4..8 /\ i <= Len(Steps[req[q].op]) /\ req[q].op \in OpNames
  BY <1>1, TurnOf
<1>3. Active(q)'
  BY DEF Holds
<1>4. CASE q # p
  <2>1. pc'[q] = pc[q] /\ resp'[q] = resp[q] /\ seen'[q] = seen[q]
    BY <1>m, <1>4, Stays
  <2> QED BY <1>1, <1>3, <2>1 DEF Holds, Active
<1>5. CASE q = p
  <2>1. Active(p) /\ pc'[p] = pc[p] + 1 /\ pc[p] \in Nat
    <3>1. pc \in [Requests -> Nat] /\ resp \in [Requests -> Answers \cup {None}]
          /\ None \notin Answers
      BY MissingAssumption DEF SiteTypes
    <3>2. CASE pc' = [pc EXCEPT ![p] = 1]
      BY <1>1, <1>2, <1>5, <3>1, <3>2
    <3>3. CASE Active(p) /\ pc' = [pc EXCEPT ![p] = @ + 1]
      BY <3>1, <3>3
    <3>4. CASE \E code \in Answers : resp' = [resp EXCEPT ![p] = code]
      BY <1>3, <1>5, <3>1, <3>4 DEF Active
    <3> QED BY <1>m, <3>2, <3>3, <3>4 DEF Moves, Goes
  <2>2. ~Fail(p)
    BY <2>1, Failed
  <2>3. d[1] \in Listing /\ Document(p, d[1]) = d /\ <<req[p].op, d[1], i>> \in Turns
    BY <1>1, <1>5 DEF Turn, Lists
  <2>4. pc[p] \in 1..Len(Steps[req[p].op])
    BY <2>1, AtFacts
  <2>5. CASE req[p].op = "drop_key" /\ pc[p] = 3
    <3>1. i = 4 /\ Holds(p, d)
      BY <1>1, <1>5, <2>1, <2>3, <2>5 DEF Holds, Turns
    <3>2. DeleteKey(p)
      BY <2>1, <2>2, <2>5, LabelAt, ActionAt
    <3> QED BY <1>5, <3>1, <3>2 DEF DeleteKey
  <2>6. CASE ~(req[p].op = "drop_key" /\ pc[p] = 3)
    <3>1. Label(p) \in DOMAIN Gets /\ Gets[Label(p)] = d[1]
      <4>1. CASE req[p].op = "drop_key"
        <5>1. pc[p] = 2 /\ d[1] = "keys"
          BY <1>1, <1>5, <2>1, <2>3, <2>6, <4>1 DEF Turns
        <5> QED BY <2>4, <4>1, <5>1, TurnCalls DEF Label
      <4>2. CASE req[p].op # "drop_key"
        <5>1. i = pc[p] + 1
          BY <1>1, <1>5, <2>1, <4>2
        <5> QED BY <2>3, <2>4, <4>2, <5>1, TurnCalls DEF Label
      <4> QED BY <4>1, <4>2
    <3>2. ReadDocument(p)
      BY <2>1, <2>2, <3>1, DocumentCalls
    <3>3. pc' # pc
      BY <2>1
    <3>4. seen' = [seen EXCEPT ![p] = doc[Document(p, d[1])]]
      BY <3>1, <3>2, <3>3 DEF ReadDocument, Answer
    <3>5. doc' = doc
      BY <3>2 DEF ReadDocument, store
    <3>6. seen'[p] = doc[d]
      BY <2>3, <3>4 DEF SiteTypes
    <3> QED BY <1>5, <2>1, <3>5, <3>6 DEF Active
  <2> QED BY <2>5, <2>6
<1> QED BY <1>4, <1>5
-----------------------------------------------------------------------------
(* What a step makes of lists and of what they owe *)

\* What a handler puts back: the list with its entry, or without another's.
LEMMA ListForms ==
  ASSUME SiteTypes, NEW p \in Requests, NEW d \in Lists, Turn(p, d, pc[p]), NEW s
  PROVE  LET r == Changed(p, d[1], s) IN
         \/ /\ p \in Entering /\ d[1] \in {"index", "audit"}
            /\ \E cap \in Nat \ {0} : /\ r = Capped(<<p>> \o s, cap)
                                      /\ d[1] = "index" => cap = IndexCap
                                      /\ d[1] = "audit" => cap = AuditCap
         \/ p \in Entering /\ d[1] \in {"keys", "activity"} /\ r = Append(s, p)
         \/ req[p].op \in {"delete", "drop_key"} /\ r = Without(s, req[p].of)
<1>0. IndexCap \in Nat \ {0} /\ AuditCap \in Nat \ {0}
  BY SiteAssumption
<1>1. <<req[p].op, d[1], pc[p]>> \in Turns
  BY DEF Turn
<1>2. CASE d[1] = "index" /\ req[p].op = "save"
  BY <1>0, <1>2 DEF Changed, IndexPrepended, Entering
<1>3. CASE d[1] = "index" /\ req[p].op = "delete"
  BY <1>3 DEF Changed
<1>4. CASE d[1] = "keys" /\ req[p].op = "new_key"
  BY <1>4 DEF Changed, Entering
<1>5. CASE d[1] = "keys" /\ req[p].op = "drop_key"
  BY <1>5 DEF Changed
<1>6. CASE d[1] = "activity" /\ req[p].op \in {"login", "save"}
  BY <1>6 DEF Changed, Entering
<1>7. CASE d[1] = "audit" /\ req[p].op \in {"grant", "revoke"}
  BY <1>0, <1>7 DEF Changed, Entering
<1> QED BY <1>1, <1>2, <1>3, <1>4, <1>5, <1>6, <1>7 DEF Turns

\* Nobody has heard of a request that is under way.
LEMMA Unheard ==
  ASSUME TokensInv, NEW p \in Requests, Active(p), NEW q \in Requests
  PROVE  p \notin heard[q]
BY DEF TokensInv, TokensEnded, Active

LEMMA HeardStays ==
  ASSUME SiteTypes, NEW p \in Requests, Moves(p), NEW q \in Requests, pc[q] > 0
  PROVE  heard'[q] = heard[q]
BY DEF Moves, SiteTypes

LEMMA NotYetWrote ==
  ASSUME SiteTypes, NEW p \in Requests, NEW d \in Lists, PutsBack(p, d)
  PROVE  /\ Active(p) /\ pc[p] > 0 /\ Writes(p, d) /\ ~Wrote(p, d)
<1>1. Active(p) /\ Turn(p, d, pc[p]) /\ pc[p] \in Nat
  BY DEF PutsBack, Holds, SiteTypes
<1>2. Writes(p, d)
  BY <1>1, WriterWrites
<1>3. ~Ok(p)
  BY <1>1, MissingAssumption DEF Active, Ok, Answers
<1>4. ~Wrote(p, d)
  BY <1>1, <1>3, TurnOf DEF Wrote
<1> QED BY <1>1, <1>2, <1>4 DEF Active

\* What is put back is a list again, with its handler's entry, and lacks only
\* what was taken out or cut off.
LEMMA PutBack ==
  ASSUME TokensInv, ListsInv, NEW p \in Requests, NEW d \in Lists, PutsBack(p, d)
  PROVE  LET newest == d[1] \in {"index", "audit"} IN
         /\ \/ p \in Entering /\ Entered(doc'[d], Writers(d) \cup {p}, heard, newest)
            \/ Entered(doc'[d], Writers(d), heard, newest)
         /\ p \in Entering => p \in ToSet(doc'[d])
         /\ req[p].op \in {"delete", "drop_key"} => req[p].of \notin ToSet(doc'[d])
         /\ \A x \in ToSet(doc'[d]) : x \in ToSet(seen[p]) \/ x = p
         /\ \A x \in ToSet(seen[p]) :
              \/ x \in ToSet(doc'[d])
              \/ req[p].op \in {"delete", "drop_key"} /\ x = req[p].of
              \/ /\ p \in Entering /\ newest
                 /\ \E i \in 1..Len(seen[p]) :
                      /\ seen[p][i] = x
                      /\ d[1] = "index" => IndexCap <= i
                      /\ d[1] = "audit" => AuditCap <= i
<1> DEFINE s == seen[p]
           r == doc'[d]
           W == Writers(d)
           newest == d[1] \in {"index", "audit"}
<1>t. SiteTypes
  BY DEF TokensInv
<1>1. Entered(s, W, heard, newest)
  BY DEF ListsInv, PutsBack
<1>2. p \notin W /\ Active(p)
  BY <1>t, NotYetWrote DEF Writers
<1>3. \A x \in W : p \notin heard[x]
  BY <1>2, Unheard DEF Writers, Entering
<1>4. Turn(p, d, pc[p]) /\ r = Changed(p, d[1], s)
  BY DEF PutsBack
<1>5. s \in Seq(W)
  BY <1>1 DEF Entered
<1> HIDE DEF s, r, W
<1>6. ASSUME p \in Entering, newest, NEW cap \in Nat \ {0}, r = Capped(<<p>> \o s, cap),
             d[1] = "index" => cap = IndexCap, d[1] = "audit" => cap = AuditCap
      PROVE  /\ Entered(r, W \cup {p}, heard, newest) /\ p \in ToSet(r)
             /\ ToSet(r) \subseteq ToSet(s) \cup {p}
             /\ \A x \in ToSet(s) : x \in ToSet(r) \/ \E i \in 1..Len(s) :
                      /\ s[i] = x
                      /\ d[1] = "index" => IndexCap <= i
                      /\ d[1] = "audit" => AuditCap <= i
  <2>1. InFront(r, s, W, heard, newest, p, cap)
    <3> HIDE DEF newest
    <3> QED BY <1>1, <1>2, <1>3, <1>6, Prepended
  <2>2. /\ Entered(r, W \cup {p}, heard, newest)
        /\ p \in ToSet(r) /\ ToSet(r) \subseteq ToSet(s) \cup {p}
        /\ \A i \in 1..Len(s) : s[i] \in ToSet(r) \/ cap <= i
    <3> HIDE DEF newest
    <3> QED BY <2>1 DEF InFront
  <2>3. ASSUME NEW x \in ToSet(s), x \notin ToSet(r)
        PROVE  \E i \in 1..Len(s) : /\ s[i] = x
                                    /\ d[1] = "index" => IndexCap <= i
                                    /\ d[1] = "audit" => AuditCap <= i
    <3>1. PICK i \in 1..Len(s) : s[i] = x
      BY <1>5, ListSet
    <3>2. cap <= i
      BY <2>2, <2>3, <3>1
    <3> QED BY <1>6, <3>1, <3>2
  <2> QED BY <2>2, <2>3
<1>7. ASSUME p \in Entering, d[1] \in {"keys", "activity"}, r = Append(s, p)
      PROVE  /\ Entered(r, W \cup {p}, heard, newest)
             /\ \A x : x \in ToSet(r) <=> x \in ToSet(s) \/ x = p
  <2>1. ~newest
    BY <1>7
  <2>2. Entered(r, W \cup {p}, heard, newest)
    <3> HIDE DEF newest
    <3> QED BY <1>1, <1>2, <1>7, <2>1, Appended
  <2>3. \A x : x \in ToSet(Append(s, p)) <=> x \in ToSet(s) \/ x = p
    BY <1>5, AppendedFacts
  <2> HIDE DEF newest
  <2> QED BY <1>7, <2>2, <2>3
<1>8. ASSUME req[p].op \in {"delete", "drop_key"}, r = Without(s, req[p].of)
      PROVE  Entered(r, W, heard, newest) /\ ToSet(r) = ToSet(s) \ {req[p].of}
  BY <1>1, <1>8, TakenOut
<1>9. p \in Entering <=> ~(req[p].op \in {"delete", "drop_key"})
  BY <1>4 DEF Turn, Turns, Entering
<1>10. CASE p \in Entering /\ newest /\ \E cap \in Nat \ {0} :
               /\ r = Capped(<<p>> \o s, cap)
               /\ d[1] = "index" => cap = IndexCap
               /\ d[1] = "audit" => cap = AuditCap
  BY <1>6, <1>9, <1>10 DEF r, s, W
<1>11. CASE p \in Entering /\ d[1] \in {"keys", "activity"} /\ r = Append(s, p)
  BY <1>7, <1>9, <1>11 DEF r, s, W
<1>12. CASE req[p].op \in {"delete", "drop_key"} /\ r = Without(s, req[p].of)
  BY <1>8, <1>9, <1>12 DEF r, s, W
<1> QED BY <1>t, <1>4, <1>10, <1>11, <1>12, ListForms

LEMMA SameHeard ==
    ASSUME NEW s, NEW W, NEW g, NEW h, NEW newest, \A x \in W : g[x] = h[x],
           Entered(s, W, h, newest)
    PROVE  Entered(s, W, g, newest)
<1>1. s \in Seq(W) /\ \A i \in 1..Len(s) : s[i] \in W
  BY DEF Entered
<1> QED BY <1>1 DEF Entered

LEMMA EnteredStep ==
  ASSUME TokensInv, ListsInv, NEW p \in Requests, Step(p), NEW d \in Lists
  PROVE  LET newest == d[1] \in {"index", "audit"} IN
         /\ Entered(doc'[d], Writers(d)', heard', newest)
         /\ \A q \in Requests : Holds(q, d)' => Entered(seen'[q], Writers(d)', heard', newest)
<1> DEFINE newest == d[1] \in {"index", "audit"}
<1>t. SiteTypes
  BY DEF TokensInv
<1>m. Moves(p) /\ req' = req
  BY <1>t, StepMoves DEF Moves
<1>1. Writers(d) \subseteq Writers(d)'
  BY <1>t, <1>m, WroteLater DEF Writers, Entering
<1>2. \A x \in Writers(d) : heard'[x] = heard[x]
  BY <1>t, <1>m, WroteBegan, HeardStays DEF Writers, Entering
<1>3. ASSUME NEW s, Entered(s, Writers(d), heard, newest)
      PROVE  Entered(s, Writers(d)', heard', newest)
  <2>1. Entered(s, Writers(d), heard', newest)
    BY <1>2, <1>3, SameHeard
  <2> QED BY <1>1, <2>1, MoreEntries
<1>4. Entered(doc[d], Writers(d), heard, newest)
  BY DEF ListsInv
<1>5. Entered(doc'[d], Writers(d)', heard', newest)
  <2>1. CASE doc'[d] = doc[d]
    BY <1>3, <1>4, <2>1
  <2>2. CASE doc'[d] # doc[d]
    <3>1. PutsBack(p, d) /\ Wrote(p, d)'
      BY <1>t, <2>2, ListChanged
    <3>2. CASE Entered(doc'[d], Writers(d), heard, newest)
      BY <1>3, <3>2
    <3>3. CASE p \in Entering /\ Entered(doc'[d], Writers(d) \cup {p}, heard, newest)
      <4>1. p \in Writers(d)' /\ pc[p] > 0
        BY <1>t, <1>m, <3>1, <3>3, NotYetWrote DEF Writers, Entering
      <4>2. heard'[p] = heard[p]
        BY <1>t, <1>m, <4>1, HeardStays
      <4>3. Entered(doc'[d], Writers(d) \cup {p}, heard', newest)
        BY <1>2, <3>3, <4>2, SameHeard
      <4>4. Writers(d) \cup {p} \subseteq Writers(d)'
        BY <1>1, <4>1
      <4> QED BY <4>3, <4>4, MoreEntries
    <3> QED BY <3>1, <3>2, <3>3, PutBack
  <2> QED BY <2>1, <2>2
<1>6. ASSUME NEW q \in Requests, Holds(q, d)'
      PROVE  Entered(seen'[q], Writers(d)', heard', newest)
  <2>1. CASE Holds(q, d) /\ seen'[q] = seen[q]
    <3>1. Entered(seen[q], Writers(d), heard, newest)
      BY <2>1 DEF ListsInv
    <3> QED BY <1>3, <2>1, <3>1
  <2>2. CASE seen'[q] = doc[d]
    BY <1>3, <1>4, <2>2
  <2> QED BY <1>t, <1>6, <2>1, <2>2, NewlyHolds
<1> QED BY <1>5, <1>6

\* Who is cut off came before as many others as the cap.
LEMMA Pushed ==
  ASSUME SiteTypes, NEW p \in Requests, NEW d \in Lists, d[1] \in {"index", "audit"},
         NEW s, Entered(s, Writers(d), heard, TRUE), NEW i \in 1..Len(s),
         d[1] = "index" => IndexCap <= i, d[1] = "audit" => AuditCap <= i,
         p \in Entering, pc[p] > 0, Writes(p, d), p \notin Writers(d),
         p \notin heard[s[i]]
  PROVE  PushedOut(s[i], d)
<1> DEFINE x == s[i]
           O == {q \in Entering : pc[q] > 0 /\ Writes(q, d)} \ (heard[x] \cup {x})
           W == Writers(d)
           newest == TRUE
<1>1. s \in Seq(W) /\ i \in Nat /\ \A j \in 1..Len(s) : s[j] \in W
  BY DEF Entered
<1>2. IsFiniteSet(O)
  BY SiteAssumption, FS_Subset DEF Entering
<1>3. p \in O
  BY <1>1
<1>4. ASSUME NEW j \in 1..Len(s), j < i PROVE s[j] \in O
  <2>1. s[j] # x /\ s[j] \notin heard[x]
    BY <1>4 DEF Entered
  <2>2. s[j] \in Entering /\ s[j] \in Requests /\ Wrote(s[j], d)
    BY <1>1 DEF Writers, Entering
  <2>3. pc[s[j]] > 0
    BY <2>2, WroteBegan
  <2>4. Writes(s[j], d)
    BY <2>2, WriterWrites DEF Wrote
  <2> QED BY <2>1, <2>2, <2>3, <2>4
<1>5. Cardinality(O) >= i
  <2>1. Entered(s, W, heard, newest) /\ p \notin W
    OBVIOUS
  <2> HIDE DEF O, W, newest
  <2> QED BY <1>2, <1>3, <1>4, <2>1, Behind
<1>6. IndexCap \in Nat /\ AuditCap \in Nat /\ Cardinality(O) \in Nat
  BY <1>2, SiteAssumption, FS_CardinalityType
<1>7. /\ d[1] = "index" => Cardinality(O) >= IndexCap
      /\ d[1] = "audit" => Cardinality(O) >= AuditCap
  <2> HIDE DEF O
  <2> QED BY <1>1, <1>5, <1>6
<1> QED BY <1>7 DEF PushedOut

LEMMA WritesStay == req' = req => \A q \in Requests : \A d : Writes(q, d)' <=> Writes(q, d)
<1> SUFFICES ASSUME req' = req, NEW q \in Requests, NEW d PROVE Writes(q, d)' <=> Writes(q, d)
  OBVIOUS
<1>1. \A k : Document(q, k)' = Document(q, k)
  BY UsersStay DEF Document
<1> QED BY <1>1 DEF Writes

\* What excuses an entry's absence excuses it for good.
LEMMA ExcusedLater ==
  ASSUME SiteTypes, NEW p \in Requests, Moves(p), NEW x \in Requests, NEW d
  PROVE  /\ Withdrawn(x) => Withdrawn(x)'
         /\ PushedOut(x, d) /\ pc[x] > 0 => PushedOut(x, d)'
<1>m. req' = req /\ \A q \in Requests : pc[q] \in Nat /\ pc'[q] \in Nat /\ pc'[q] >= pc[q]
  BY Stays DEF Moves, SiteTypes
<1>1. Withdrawn(x) => Withdrawn(x)'
  BY <1>m DEF Withdrawn
<1>2. ASSUME PushedOut(x, d), pc[x] > 0 PROVE PushedOut(x, d)'
  <2> DEFINE O == {q \in Entering : pc[q] > 0 /\ Writes(q, d)} \ (heard[x] \cup {x})
             Q == {q \in Entering' : pc'[q] > 0 /\ Writes(q, d)'} \ (heard'[x] \cup {x})
  <2>1. heard'[x] = heard[x]
    BY <1>2, HeardStays
  <2>2. \A q \in Requests : Writes(q, d)' <=> Writes(q, d)
    BY <1>m, WritesStay
  <2>3. Entering' = Entering /\ Entering \subseteq Requests
    BY <1>m DEF Entering
  <2>4. \A q \in Entering : pc[q] > 0 => pc'[q] > 0
    BY <1>m, <2>3
  <2>5. O \subseteq Q
    BY <2>1, <2>2, <2>3, <2>4
  <2>6. IsFiniteSet(Q)
    BY <2>3, SiteAssumption, FS_Subset
  <2>7. /\ Cardinality(O) <= Cardinality(Q)
        /\ Cardinality(O) \in Nat /\ Cardinality(Q) \in Nat
    <3> HIDE DEF O, Q
    <3> QED BY <2>5, <2>6, FS_Subset, FS_CardinalityType
  <2>8. IndexCap \in Nat /\ AuditCap \in Nat
    BY SiteAssumption
  <2>9. \/ d[1] = "index" /\ Cardinality(O) >= IndexCap
        \/ d[1] = "audit" /\ Cardinality(O) >= AuditCap
    BY <1>2 DEF PushedOut
  <2>10. \/ d[1] = "index" /\ Cardinality(Q) >= IndexCap
         \/ d[1] = "audit" /\ Cardinality(Q) >= AuditCap
    <3> HIDE DEF O, Q
    <3> QED BY <2>7, <2>8, <2>9
  <2> QED BY <2>10 DEF PushedOut
<1> QED BY <1>1, <1>2

\* Whom nobody overlaps now, nobody overlapped.
LEMMA AloneBefore ==
  ASSUME SiteTypes, NEW p \in Requests, Moves(p), NEW x \in Requests, pc[x] > 0, NEW d,
         Alone(x, d)'
  PROVE  Alone(x, d)
<1>m. req' = req /\ \A q \in Requests : pc[q] \in Nat /\ pc'[q] \in Nat /\ pc'[q] >= pc[q]
  BY Stays DEF Moves, SiteTypes
<1> SUFFICES ASSUME NEW q \in Requests, Overlap(x, q), Writes(q, d) PROVE FALSE
  BY DEF Alone
<1>1. heard'[x] = heard[x] /\ heard'[q] = heard[q] /\ pc'[x] > 0 /\ pc'[q] > 0
  BY <1>m, HeardStays DEF Overlap
<1>2. Overlap(x, q)'
  BY <1>1 DEF Overlap
<1>3. Writes(q, d)'
  BY <1>m, WritesStay
<1> QED BY <1>2, <1>3 DEF Alone

\* s agrees with x after the step.
AgreesNext(s, x, d) ==
    /\ x \in Entering => x \in ToSet(s) \/ Withdrawn(x)' \/ PushedOut(x, d)'
    /\ req[x].op \in {"delete", "drop_key"} => req[x].of \notin ToSet(s)

LEMMA AgreesLater ==
  ASSUME SiteTypes, NEW p \in Requests, Moves(p), NEW x \in Requests, pc[x] > 0, NEW d,
         NEW s, Agrees(s, x, d)
  PROVE  AgreesNext(s, x, d)
BY ExcusedLater DEF Agrees, AgreesNext

\* A list put back agrees with whom its copy agreed with.
LEMMA PutBackAgrees ==
  ASSUME TokensInv, ListsInv, NEW p \in Requests, NEW d \in Lists, PutsBack(p, d),
         NEW x \in Requests, pc[x] > 0, x # p, Agrees(seen[p], x, d)
  PROVE  Agrees(doc'[d], x, d)
<1> DEFINE s == seen[p]
           newest == d[1] \in {"index", "audit"}
<1>t. SiteTypes
  BY DEF TokensInv
<1>1. Active(p) /\ pc[p] > 0 /\ Writes(p, d) /\ ~Wrote(p, d) /\ p \notin heard[x]
  BY <1>t, NotYetWrote, Unheard
<1>2. /\ \A y \in ToSet(doc'[d]) : y \in ToSet(s) \/ y = p
      /\ \A y \in ToSet(s) :
              \/ y \in ToSet(doc'[d])
              \/ req[p].op \in {"delete", "drop_key"} /\ y = req[p].of
              \/ /\ p \in Entering /\ newest
                 /\ \E i \in 1..Len(s) :
                      /\ s[i] = y
                      /\ d[1] = "index" => IndexCap <= i
                      /\ d[1] = "audit" => AuditCap <= i
  BY PutBack
<1>3. Entered(s, Writers(d), heard, newest)
  BY DEF ListsInv, PutsBack
<1> HIDE DEF s
<1>4. ASSUME x \in Entering PROVE x \in ToSet(doc'[d]) \/ Withdrawn(x) \/ PushedOut(x, d)
  <2>1. x \in ToSet(s) \/ Withdrawn(x) \/ PushedOut(x, d)
    BY <1>4 DEF Agrees, s
  <2>2. CASE req[p].op \in {"delete", "drop_key"} /\ x = req[p].of
    BY <1>1, <2>2 DEF Withdrawn
  <2>3. ASSUME p \in Entering, newest, NEW i \in 1..Len(s), s[i] = x,
               d[1] = "index" => IndexCap <= i, d[1] = "audit" => AuditCap <= i
        PROVE  PushedOut(x, d)
    <3>1. newest = TRUE /\ p \notin Writers(d)
      BY <1>1, <2>3 DEF Writers
    <3>2. Entered(s, Writers(d), heard, TRUE)
      BY <1>3, <3>1
    <3>3. p \notin heard[s[i]]
      BY <1>1, <2>3
    <3>4. PushedOut(s[i], d)
      BY <1>t, <1>1, <2>3, <3>1, <3>2, <3>3, Pushed
    <3> QED BY <2>3, <3>4
  <2> QED BY <1>2, <2>1, <2>2, <2>3
<1>5. ASSUME req[x].op \in {"delete", "drop_key"} PROVE req[x].of \notin ToSet(doc'[d])
  <2>1. req[x].of # p
    BY <1>t, <1>1, <1>5, NamedIsMade
  <2>2. req[x].of \notin ToSet(s)
    BY <1>5 DEF Agrees, s
  <2> QED BY <1>2, <2>1, <2>2
<1> QED BY <1>4, <1>5 DEF Agrees

LEMMA AgreesStep ==
  ASSUME TokensInv, ListsInv, NEW p \in Requests, Step(p), NEW d \in Lists,
         NEW x \in Requests, Wrote(x, d)', Alone(x, d)'
  PROVE  /\ AgreesNext(doc'[d], x, d)
         /\ \A q \in Requests : Holds(q, d)' /\ x \in heard'[q] => AgreesNext(seen'[q], x, d)
<1>t. SiteTypes
  BY DEF TokensInv
<1>m. Moves(p)
  BY <1>t, StepMoves
<1>1. CASE ~Wrote(x, d)
  <2>1. x = p /\ PutsBack(p, d)
    BY <1>t, <1>1, NewlyWrote
  <2>2. Active(p) /\ pc[p] > 0
    BY <1>t, <2>1, NotYetWrote
  <2>3. AgreesNext(doc'[d], p, d)
    BY <2>1, PutBack DEF AgreesNext
  <2>4. \A q \in Requests : p \notin heard'[q]
    BY <1>m, <2>2, Unheard DEF Moves
  <2> QED BY <2>1, <2>3, <2>4
<1>2. CASE Wrote(x, d)
  <2>1. pc[x] > 0
    BY <1>t, <1>2, WroteBegan
  <2>2. Alone(x, d)
    BY <1>t, <1>m, <2>1, AloneBefore
  <2>3. /\ Agrees(doc[d], x, d)
        /\ \A q \in Requests : Holds(q, d) /\ x \in heard[q] => Agrees(seen[q], x, d)
    BY <1>2, <2>2 DEF ListsInv
  <2>4. Agrees(doc'[d], x, d)
    <3>1. CASE doc'[d] = doc[d]
      BY <2>3, <3>1
    <3>2. CASE doc'[d] # doc[d]
      <4>1. PutsBack(p, d)
        BY <1>t, <3>2, ListChanged
      <4>2. Active(p) /\ pc[p] > 0 /\ Writes(p, d) /\ x # p /\ p \notin heard[x]
        BY <1>t, <1>2, <4>1, NotYetWrote, Unheard
      <4>3. x \in heard[p]
        BY <2>1, <2>2, <4>2 DEF Alone, Overlap
      <4>4. Agrees(seen[p], x, d)
        BY <2>3, <4>1, <4>3 DEF PutsBack
      <4> QED BY <2>1, <4>1, <4>2, <4>4, PutBackAgrees
    <3> QED BY <3>1, <3>2
  <2>5. AgreesNext(doc'[d], x, d)
    BY <1>t, <1>m, <2>1, <2>4, AgreesLater
  <2>6. ASSUME NEW q \in Requests, Holds(q, d)', x \in heard'[q]
        PROVE  AgreesNext(seen'[q], x, d)
    <3>1. CASE Holds(q, d) /\ seen'[q] = seen[q]
      <4>1. pc[q] > 0
        BY <1>t, <3>1, WroteBegan
      <4>2. x \in heard[q]
        BY <1>t, <1>m, <2>6, <4>1, HeardStays
      <4>3. Agrees(seen'[q], x, d)
        BY <2>3, <3>1, <4>2
      <4> QED BY <1>t, <1>m, <2>1, <4>3, AgreesLater
    <3>2. CASE q = p /\ seen'[p] = doc[d]
      <4>1. Agrees(seen'[q], x, d)
        BY <2>3, <3>2
      <4> QED BY <1>t, <1>m, <2>1, <4>1, AgreesLater
    <3> QED BY <1>t, <2>6, <3>1, <3>2, NewlyHolds
  <2> QED BY <2>5, <2>6
<1> QED BY <1>1, <1>2

LEMMA ListsStep ==
  ASSUME TokensInv, ListsInv, NEW p \in Requests, Step(p)
  PROVE  ListsInv'
<1>m. req' = req
  BY StepMoves DEF Moves, TokensInv
<1>e. Entering' = Entering
  BY <1>m DEF Entering
<1> SUFFICES ASSUME NEW d \in Lists
             PROVE  LET newest == d[1] \in {"index", "audit"} IN
                    /\ Entered(doc'[d], Writers(d)', heard', newest)
                    /\ \A q \in Requests : Holds(q, d)' =>
                         Entered(seen'[q], Writers(d)', heard', newest)
                    /\ \A x \in Requests : Wrote(x, d)' /\ Alone(x, d)' =>
                         /\ Agrees(doc[d], x, d)'
                         /\ \A q \in Requests : Holds(q, d)' /\ x \in heard'[q] =>
                              Agrees(seen[q], x, d)'
  BY DEF ListsInv
<1>1. ASSUME NEW x \in Requests, Wrote(x, d)', Alone(x, d)'
      PROVE  /\ Agrees(doc[d], x, d)'
             /\ \A q \in Requests : Holds(q, d)' /\ x \in heard'[q] => Agrees(seen[q], x, d)'
  <2>1. /\ AgreesNext(doc'[d], x, d)
        /\ \A q \in Requests : Holds(q, d)' /\ x \in heard'[q] => AgreesNext(seen'[q], x, d)
    BY <1>1, AgreesStep
  <2>2. Agrees(doc[d], x, d)'
    BY <1>m, <1>e, <2>1 DEF Agrees, AgreesNext
  <2>3. ASSUME NEW q \in Requests, Holds(q, d)', x \in heard'[q] PROVE Agrees(seen[q], x, d)'
    BY <1>m, <1>e, <2>1, <2>3 DEF Agrees, AgreesNext
  <2> QED BY <2>2, <2>3
<1> QED BY <1>1, EnteredStep

LEMMA ListsInit == Init => ListsInv
<1> SUFFICES ASSUME Init, NEW d \in Lists
             PROVE  LET newest == d[1] \in {"index", "audit"} IN
                    /\ Entered(doc[d], Writers(d), heard, newest)
                    /\ \A q \in Requests : ~Holds(q, d) /\ ~Wrote(q, d)
  BY DEF ListsInv
<1>1. SiteTypes
  BY TypesInit
<1>2. \A q \in Requests : pc[q] = 0
  BY DEF Init
<1>3. \A q \in Requests : ~Holds(q, d) /\ ~Wrote(q, d)
  BY <1>1, <1>2, WroteBegan
<1>4. doc[d] = <<>>
  BY DEF Init, Lists, Listing, Empty
<1>5. Entered(<<>>, Writers(d), heard, d[1] \in {"index", "audit"})
  BY DEF Entered
<1> QED BY <1>3, <1>4, <1>5

LEMMA ListsStutter == ListsInv /\ UNCHANGED vars => ListsInv'
<1> SUFFICES ASSUME ListsInv, UNCHANGED vars PROVE ListsInv'
  OBVIOUS
<1>1. UNCHANGED <<doc, req, pc, seen, resp, heard>>
  BY DEF vars, store
<1>2. \A q \in Requests : User(q)' = User(q)
  BY <1>1, UsersStay
<1>3. /\ \A q \in Requests : \A d, i : Turn(q, d, i)' <=> Turn(q, d, i)
      /\ \A q \in Requests : Active(q)' <=> Active(q)
      /\ \A q \in Requests : Ok(q)' <=> Ok(q)
  BY <1>1, TurnsStay DEF Active, Ok
<1>4. \A q \in Requests : \A d : (Holds(q, d)' <=> Holds(q, d)) /\ (Wrote(q, d)' <=> Wrote(q, d))
  BY <1>1, <1>3 DEF Holds, Wrote
<1>5. Entering' = Entering /\ \A d : Writers(d)' = Writers(d)
  BY <1>1, <1>4 DEF Writers, Entering
<1>6. \A q \in Requests : \A d : Writes(q, d)' <=> Writes(q, d)
  BY <1>1, WritesStay
<1>7. \A x \in Requests : \A d :
        /\ Alone(x, d)' <=> Alone(x, d)
        /\ Withdrawn(x)' <=> Withdrawn(x)
        /\ PushedOut(x, d)' <=> PushedOut(x, d)
  <2> SUFFICES ASSUME NEW x \in Requests, NEW d
               PROVE  /\ Alone(x, d)' <=> Alone(x, d)
                      /\ Withdrawn(x)' <=> Withdrawn(x)
                      /\ PushedOut(x, d)' <=> PushedOut(x, d)
    OBVIOUS
  <2>1. {q \in Entering' : pc'[q] > 0 /\ Writes(q, d)'} = {q \in Entering : pc[q] > 0 /\ Writes(q, d)}
    BY <1>1, <1>5, <1>6 DEF Entering
  <2> QED BY <1>1, <1>6, <2>1 DEF Alone, Overlap, Withdrawn, PushedOut
<1>8. \A d : /\ \A x \in Requests : Agrees(doc[d], x, d)' <=> Agrees(doc[d], x, d)
             /\ \A x, q \in Requests : Agrees(seen[q], x, d)' <=> Agrees(seen[q], x, d)
  BY <1>1, <1>5, <1>7 DEF Agrees
<1> QED BY <1>1, <1>4, <1>5, <1>7, <1>8 DEF ListsInv

\* At every moment the lists, and the copies of them that handlers are about to
\* put back, hold what they owe.
THEOREM ListsAlways == Spec => []ListsInv
<1>1. Init => ListsInv
  BY ListsInit
<1>2. TokensInv /\ ListsInv /\ [Next]_vars => ListsInv'
  BY ListsStep, ListsStutter DEF Next, Quiescent
<1> QED BY <1>1, <1>2, TokensAlways, PTL DEF Spec

LEMMA CompletedWrote ==
  ASSUME SiteTypes, NEW p \in Requests, NEW d \in Lists, Completed(p), Writes(p, d)
  PROVE  Wrote(p, d)
<1>1. PICK i \in Nat : Turn(p, d, i)
  BY WriterWrites
<1>2. i <= Len(Steps[req[p].op]) /\ Len(Steps[req[p].op]) \in Nat
  BY <1>1, TurnOf, AtFacts
<1> QED BY <1>1, <1>2 DEF Wrote, Completed

\* A list of the store loses an entry, and keeps one that was withdrawn, only
\* where two requests that write it overlap, or to the cap.
THEOREM Losses == Spec => []LostOnlyToOverlap
<1>1. TokensInv /\ ListsInv => LostOnlyToOverlap
  <2> SUFFICES ASSUME TokensInv, ListsInv, NEW d \in Docs,
                      d[1] \in {"index", "keys", "activity", "audit"},
                      NEW p \in Requests, Completed(p), Writes(p, d), Alone(p, d)
               PROVE  Agrees(doc[d], p, d)
    BY DEF LostOnlyToOverlap, Agrees, Entering
  <2>1. d \in Lists
    BY DEF Lists, Listing
  <2>2. Wrote(p, d)
    BY <2>1, CompletedWrote DEF TokensInv
  <2> QED BY <2>1, <2>2 DEF ListsInv
<1> QED BY <1>1, TokensAlways, ListsAlways, PTL
=============================================================================
