----------------------------- MODULE SiteStore ------------------------------
(***************************************************************************)
(* The back end of the site: accounts, saved reports, API keys, counters   *)
(* and the list of admins, as documents of a key-value store.  The store   *)
(* has no transactions: a handler reads a document, awaits, and writes the *)
(* whole of it back, and any call may fail and end the handler there.      *)
(*                                                                         *)
(* A one-time code, a session, a report and an API key are each named by   *)
(* the request that made it.                                               *)
(***************************************************************************)
EXTENDS Integers, Sequences, FiniteSets, SequencesExt, FiniteSetsExt

CONSTANTS
    Requests,    \* HTTP requests
    Users,       \* e-mail addresses
    Members,     \* users with an account and a session from the start
    SuperAdmins, \* SUPER_ADMINS
    Domains,     \* domains a report may be about
    Site,        \* owner of the documents that are no user's
    Plans,       \* what the requests may ask: a set of functions
    Fresh,       \* whether the statistics may be missing at the start
    IndexCap, DomainCap, AuditCap,  \* 50, 50 and 200 in the code
    ListLimit,   \* keys in one page of a listing, 100 in the code
    MaxAttempts, \* wrong codes, 5 in the code
    MaxFailures, \* bound: calls of the store that fail
    Absent,      \* a property that a JavaScript object lacks
    Null,        \* JSON's null, which NaN is written as
    None

\* A session that a member has from the start is named by the member.
Tokens == Users \cup Requests

Operation ==
    [op : {"send_otp"}, user : Users]
    \cup [op : {"login"}, user : Users, code : Requests \cup {None}]
    \cup [op : {"logout", "new_key"}, token : Tokens]
    \cup [op : {"save"}, token : Tokens, domain : Domains \cup {None}]
    \cup [op : {"delete", "drop_key"}, token : Tokens, of : Requests]
    \cup [op : {"grant", "revoke"}, token : Tokens, email : Users]
    \cup [op : {"beacon"}]

ASSUME SiteAssumption ==
    /\ SuperAdmins \subseteq Users /\ Members \subseteq Users
    /\ Plans \subseteq [Requests -> Operation]
    /\ Fresh \subseteq BOOLEAN
    /\ {IndexCap, DomainCap, AuditCap, ListLimit, MaxAttempts} \subseteq Nat \ {0}
    /\ MaxFailures \in Nat
    /\ IsFiniteSet(Requests) /\ Users \cap Requests = {}

Answers == {"ok", "refused", "failed"}

\* A user and the statistics, as far as they count.
UserDoc == [logins : Nat, reports : Nat, domains : Seq(Domains)]
Counter == Nat \cup {Absent, Null}
Today == [logins : Counter, runs : Counter]
StatsDoc ==
    [users : Counter, logins : Counter, runs : Counter, domains : BOOLEAN, views : Nat,
     today : Today \cup {None}]

\* What is missing is no value.
ASSUME MissingAssumption ==
    /\ Absent \notin Nat /\ Null \notin Nat /\ Absent # Null
    /\ None \notin Answers \cup Domains
    /\ None \notin UserDoc /\ None \notin StatsDoc /\ None \notin Today

VARIABLES
    otp,        \* OTP_STORE
    sessions,   \* SESSIONS: the sessions and ...
    apikeys,    \* ... the API keys in it
    reports,    \* REPORTS, without its indexes
    doc,        \* the documents that are read, changed and written back
    req, pc,    \* what a request asks, and the next step of its handler
    seen,       \* the document the handler has read
    first,      \* a login: whether this is the user's first
    resp,       \* what it has answered
    heard,      \* history: the requests that were answered when it arrived
    failures

store == <<otp, sessions, apikeys, reports, doc>>
vars == <<store, req, pc, seen, first, resp, heard, failures>>

(* A handler is a sequence of calls of the store. *)

Track == <<"get_activity", "put_activity", "get_stats">>

\* Defect: the counter of reports is raised before the report is stored.
SaveCountedFirst ==
    <<"auth", "get_user", "put_user", "put_report", "get_index", "put_index">>
    \o Track \o <<"put_stats">>

SaveReport ==
    <<"auth", "put_report", "get_index", "put_index", "get_user", "put_user">>
    \o Track \o <<"put_stats">>

ChangeAdmins == <<"auth", "get_allowlist", "put_allowlist", "get_audit", "put_audit">>

Steps ==
    [send_otp |-> <<"put_otp">>,
     login |-> <<"get_otp", "del_otp", "get_user", "put_user", "put_session">>
               \o Track \o <<"count_logins", "put_stats">>,
     logout |-> <<"del_session">>,
     save |-> SaveReport,
     delete |-> <<"auth", "get_report", "del_report", "get_index", "put_index">>,
     new_key |-> <<"auth", "put_key", "get_keys", "put_keys">>,
     drop_key |-> <<"auth", "get_keys", "del_key", "put_keys">>,
     grant |-> ChangeAdmins, revoke |-> ChangeAdmins,
     beacon |-> <<"get_stats", "put_stats">>]

Gets == [get_user |-> "user", get_index |-> "index", get_keys |-> "keys",
         get_activity |-> "activity", get_stats |-> "stats",
         get_allowlist |-> "allowlist", get_audit |-> "audit"]
Puts == [put_user |-> "user", put_index |-> "index", put_keys |-> "keys",
         put_activity |-> "activity", put_stats |-> "stats",
         put_allowlist |-> "allowlist", put_audit |-> "audit"]

Personal == {"user", "index", "keys"}
Docs == (Personal \X Users) \cup ({"activity", "stats", "allowlist", "audit"} \X {Site})

-----------------------------------------------------------------------------
(* Handlers *)

Active(p) == pc[p] > 0 /\ resp[p] = None
Label(p) == Steps[req[p].op][pc[p]]
At(p, label) == Active(p) /\ Label(p) = label

Answer(p, code) == resp' = [resp EXCEPT ![p] = code] /\ UNCHANGED pc

\* The next call, or the answer after the last.
Advance(p) ==
    IF pc[p] = Len(Steps[req[p].op]) THEN Answer(p, "ok")
    ELSE pc' = [pc EXCEPT ![p] = @ + 1] /\ UNCHANGED resp

OwnerIn(asked) ==
    LET owner[token \in Tokens] ==
            IF token \in Users THEN token
            ELSE IF asked[token].op = "login" THEN asked[token].user ELSE owner[asked[token].token]
    IN owner
Owner == OwnerIn(req)

\* The user a request acts for.
User(p) == IF req[p].op \in {"send_otp", "login"} THEN req[p].user ELSE Owner[req[p].token]

Ok(p) == resp[p] = "ok"

\* A request names only what its sender was given in an earlier answer.
Given(r) ==
    /\ r.op = "login" /\ r.code # None => Ok(r.code)
    /\ "token" \in DOMAIN r /\ r.token \in Requests => Ok(r.token)
    /\ "of" \in DOMAIN r => Ok(r.of)

Arrive(p) ==
    /\ pc[p] = 0 /\ Given(req[p])
    /\ pc' = [pc EXCEPT ![p] = 1]
    /\ heard' = [heard EXCEPT ![p] = {q \in Requests : resp[q] # None}]
    /\ UNCHANGED <<store, req, seen, first, resp, failures>>

\* getSession, and requireSuperAdmin for the list of admins.  A super-admin is not revoked.
Authenticate(p) ==
    LET r == req[p]
        admitted == /\ r.token \in sessions \cup apikeys
                    /\ r.op \in {"grant", "revoke"} => User(p) \in SuperAdmins
                    /\ r.op = "revoke" => r.email \notin SuperAdmins
    IN
    /\ At(p, "auth")
    /\ IF admitted THEN Advance(p) ELSE Answer(p, "refused")
    /\ UNCHANGED <<store, req, seen, first, heard, failures>>

\* sendOtp: the code is stored, then mailed, and the mail may fail.
PutOtp(p) ==
    /\ At(p, "put_otp")
    /\ otp' = [otp EXCEPT ![User(p)] = [code |-> p, attempts |-> 0]]
    /\ \E sent \in BOOLEAN : Answer(p, IF sent THEN "ok" ELSE "failed")
    /\ UNCHANGED <<sessions, apikeys, reports, doc, req, seen, first, heard, failures>>

\* verifyOtp: the tests on the stored code ...
GetOtp(p) ==
    LET stored == otp[User(p)] IN
    /\ At(p, "get_otp")
    /\ \/ stored = None /\ Answer(p, "refused") /\ UNCHANGED seen
       \/ stored # None /\ Advance(p) /\ seen' = [seen EXCEPT ![p] = stored]
    /\ UNCHANGED <<store, req, first, heard, failures>>

\* ... and what the test read: one more attempt, or the code is used up.
DeleteOtp(p) ==
    LET stored == seen[p] IN
    /\ At(p, "del_otp")
    /\ \/ /\ stored.attempts < MaxAttempts /\ stored.code = req[p].code
          /\ otp' = [otp EXCEPT ![User(p)] = None]
          /\ Advance(p)
       \/ /\ stored.attempts >= MaxAttempts
          /\ otp' = [otp EXCEPT ![User(p)] = None]
          /\ Answer(p, "refused")
       \/ /\ stored.attempts < MaxAttempts /\ stored.code # req[p].code
          /\ otp' = [otp EXCEPT ![User(p)] = [stored EXCEPT !.attempts = @ + 1]]
          /\ Answer(p, "refused")
    /\ seen' = [seen EXCEPT ![p] = None]
    /\ UNCHANGED <<sessions, apikeys, reports, doc, req, first, heard, failures>>

\* The session of a login and the end of one.
PutSession(p) ==
    /\ At(p, "put_session") /\ Advance(p)
    /\ sessions' = sessions \cup {p}
    /\ UNCHANGED <<otp, apikeys, reports, doc, req, seen, first, heard, failures>>

DeleteSession(p) ==
    /\ At(p, "del_session") /\ Advance(p)
    /\ sessions' = sessions \ {req[p].token}
    /\ UNCHANGED <<otp, apikeys, reports, doc, req, seen, first, heard, failures>>

PutReport(p) ==
    /\ At(p, "put_report") /\ Advance(p)
    /\ reports' = reports \cup {p}
    /\ UNCHANGED <<otp, sessions, apikeys, doc, req, seen, first, heard, failures>>

\* deleteReport: only its owner's.
GetReport(p) ==
    LET own == req[p].of \in reports /\ User(req[p].of) = User(p) IN
    /\ At(p, "get_report")
    /\ IF own THEN Advance(p) ELSE Answer(p, "refused")
    /\ UNCHANGED <<store, req, seen, first, heard, failures>>

DeleteReport(p) ==
    /\ At(p, "del_report") /\ Advance(p)
    /\ reports' = reports \ {req[p].of}
    /\ UNCHANGED <<otp, sessions, apikeys, doc, req, seen, first, heard, failures>>

PutKey(p) ==
    /\ At(p, "put_key") /\ Advance(p)
    /\ apikeys' = apikeys \cup {p}
    /\ UNCHANGED <<otp, sessions, reports, doc, req, seen, first, heard, failures>>

\* Defect: the key only leaves the list of its owner.
DeleteNoKey(p) ==
    /\ At(p, "del_key") /\ Advance(p)
    /\ UNCHANGED <<store, req, seen, first, heard, failures>>

\* deleteApiKey looks for the key in one page of all keys, in the order of
\* their random names.
DeleteKey(p) ==
    /\ At(p, "del_key") /\ Advance(p)
    /\ \E page \in kSubset(Min({ListLimit, Cardinality(apikeys)}), apikeys) :
          apikeys' = apikeys \ ({req[p].of} \cap page)
    /\ UNCHANGED <<otp, sessions, reports, doc, req, seen, first, heard, failures>>

-----------------------------------------------------------------------------
(* Documents: what a handler makes of the one it has read *)

Without(seq, x) ==
    LET kept[n \in 0..Len(seq)] ==
            IF n = 0 THEN <<>>
            ELSE IF seq[n] = x THEN kept[n - 1] ELSE Append(kept[n - 1], seq[n])
    IN  kept[Len(seq)]
Capped(seq, cap) == IF Len(seq) > cap THEN SubSeq(seq, 1, cap) ELSE seq

\* x++ on a property: what is missing becomes NaN, which is written as null;
\* null counts from zero.
Incremented(x) == CASE x = Absent -> Null [] x = Null -> 1 [] OTHER -> x + 1

\* trackEvent's statistics, and those of bumpStat, which knows none of its counters.
NewStats == [users |-> 0, logins |-> 0, runs |-> 0, domains |-> TRUE, views |-> 0, today |-> None]
BareStats == [users |-> Absent, logins |-> Absent, runs |-> Absent, domains |-> FALSE,
              views |-> 0, today |-> None]

LoginToday(today) ==
    IF today = None THEN [logins |-> 1, runs |-> 0]
    ELSE [today EXCEPT !.logins = Incremented(@)]
RunToday(today) ==
    IF today = None THEN [logins |-> 0, runs |-> 1]
    ELSE [today EXCEPT !.runs = Incremented(@)]
ViewToday(today) == IF today = None THEN [logins |-> Absent, runs |-> Absent] ELSE today

LoginCounted(p, s) ==
    [s EXCEPT !.logins = Incremented(@), !.today = LoginToday(@),
              !.users = IF first[p] THEN Incremented(@) ELSE @]
RunCounted(s) == [s EXCEPT !.runs = Incremented(@), !.today = RunToday(@)]
ViewCounted(s) == [s EXCEPT !.views = @ + 1, !.today = ViewToday(@)]

\* A test run counts its domain in an object that bumpStat does not make.
TypeError(p) ==
    req[p].op = "save" /\ req[p].domain # None /\ seen[p] # None /\ ~seen[p].domains

NewUser == [logins |-> 0, reports |-> 0, domains |-> <<>>]

UserChanged(p, user) ==
    CASE req[p].op = "login" ->
            LET known == IF user = None THEN NewUser ELSE user IN
            [known EXCEPT !.logins = @ + 1]
      [] req[p].op = "save" /\ user = None -> None
      [] OTHER ->
            [user EXCEPT !.reports = @ + 1,
                         !.domains = IF req[p].domain = None \/ Contains(@, req[p].domain) THEN @
                                     ELSE Capped(Append(@, req[p].domain), DomainCap)]

StatsChanged(p, stats) ==
    CASE req[p].op = "login" -> LoginCounted(p, IF stats = None THEN NewStats ELSE stats)
      [] req[p].op = "save" -> RunCounted(IF stats = None THEN NewStats ELSE stats)
      [] OTHER -> ViewCounted(IF stats = None THEN BareStats ELSE stats)

\* Defect: the newest entry goes to the end, where the cap cuts it off.
IndexAppended(p, index) == Capped(Append(index, p), IndexCap)

IndexPrepended(p, index) == Capped(<<p>> \o index, IndexCap)

Changed(p, kind, value) ==
    CASE kind = "user" -> UserChanged(p, value)
      [] kind = "stats" -> StatsChanged(p, value)
      [] kind = "index" -> IF req[p].op = "save" THEN IndexPrepended(p, value)
                           ELSE Without(value, req[p].of)
      [] kind = "keys" -> IF req[p].op = "new_key" THEN Append(value, p)
                          ELSE Without(value, req[p].of)
      [] kind = "activity" -> Append(value, p)
      [] kind = "allowlist" -> IF req[p].op = "grant" THEN Append(value, req[p].email)
                               ELSE Without(value, req[p].email)
      [] kind = "audit" -> Capped(<<p>> \o value, AuditCap)

\* Nothing to change: a key that is not listed, an admin already in or out.
Settled(p, kind, value) ==
    \/ kind = "keys" /\ req[p].op = "drop_key" /\ ~Contains(value, req[p].of)
    \/ /\ kind = "allowlist" /\ req[p].op = "grant"
       /\ Contains(value, req[p].email) \/ req[p].email \in SuperAdmins
    \/ kind = "allowlist" /\ req[p].op = "revoke" /\ ~Contains(value, req[p].email)

Document(p, kind) == <<kind, IF kind \in Personal THEN User(p) ELSE Site>>

ReadDocument(p) ==
    /\ Active(p) /\ Label(p) \in DOMAIN Gets
    /\ LET kind == Gets[Label(p)]
           value == doc[Document(p, kind)]
       IN
       IF Settled(p, kind, value)
       THEN Answer(p, IF kind = "keys" THEN "refused" ELSE "ok") /\ UNCHANGED seen
       ELSE Advance(p) /\ seen' = [seen EXCEPT ![p] = value]
    /\ UNCHANGED <<store, req, first, heard, failures>>

WriteDocument(p) ==
    /\ Active(p) /\ Label(p) \in DOMAIN Puts
    /\ LET kind == Puts[Label(p)] IN
       IF kind = "stats" /\ TypeError(p)
       THEN Answer(p, "failed") /\ UNCHANGED doc
       ELSE Advance(p) /\ doc' = [doc EXCEPT ![Document(p, kind)] = Changed(p, kind, seen[p])]
    /\ seen' = [seen EXCEPT ![p] = None]
    /\ UNCHANGED <<otp, sessions, apikeys, reports, req, first, heard, failures>>

\* trackEvent looks the user up again to see whether the login is the first.
CountLogins(p) ==
    /\ At(p, "count_logins") /\ Advance(p)
    /\ LET user == doc[<<"user", User(p)>>] IN
       first' = [first EXCEPT ![p] = user # None /\ user.logins <= 1]
    /\ UNCHANGED <<store, req, seen, heard, failures>>

\* A call of the store throws: the handler ends with a 500, a beacon with its 204.
Fail(p) ==
    /\ Active(p) /\ failures < MaxFailures
    /\ failures' = failures + 1
    /\ Answer(p, IF req[p].op = "beacon" THEN "ok" ELSE "failed")
    /\ seen' = [seen EXCEPT ![p] = None]
    /\ UNCHANGED <<store, req, first, heard>>

-----------------------------------------------------------------------------

Empty(kind) == IF kind \in {"user", "stats"} THEN None ELSE <<>>

Init ==
    /\ req \in Plans
    /\ otp = [u \in Users |-> None]
    /\ sessions = Members /\ apikeys = {} /\ reports = {}
    /\ \E fresh \in Fresh :
          doc = [d \in Docs |-> CASE d[1] = "user" /\ d[2] \in Members -> [NewUser EXCEPT !.logins = 1]
                                 [] d[1] = "stats" /\ ~fresh -> NewStats
                                 [] OTHER -> Empty(d[1])]
    /\ pc = [p \in Requests |-> 0]
    /\ seen = [p \in Requests |-> None]
    /\ first = [p \in Requests |-> FALSE]
    /\ resp = [p \in Requests |-> None]
    /\ heard = [p \in Requests |-> {}]
    /\ failures = 0

\* What a request names may never be handed out, and then it never comes.
Quiescent == (\A p \in Requests : ~Active(p)) /\ UNCHANGED vars

Step(p) ==
    \/ Arrive(p) \/ Authenticate(p)
    \/ PutOtp(p) \/ GetOtp(p) \/ DeleteOtp(p) \/ PutSession(p) \/ DeleteSession(p)
    \/ PutReport(p) \/ GetReport(p) \/ DeleteReport(p) \/ PutKey(p) \/ DeleteKey(p)
    \/ ReadDocument(p) \/ WriteDocument(p) \/ CountLogins(p) \/ Fail(p)

Next == (\E p \in Requests : Step(p)) \/ Quiescent

Spec == Init /\ [][Next]_vars

-----------------------------------------------------------------------------
(* Properties *)

\* The requests p and q were both under way at some time.
Overlap(p, q) ==
    /\ p # q /\ pc[p] > 0 /\ pc[q] > 0
    /\ p \notin heard[q] /\ q \notin heard[p]

Writes(p, d) ==
    \E l \in ToSet(Steps[req[p].op]) \cap DOMAIN Puts : Document(p, Puts[l]) = d

Alone(p, d) == \A q \in Requests : Overlap(p, q) => ~Writes(q, d)

\* Every call of the handler was made.
Completed(p) == Ok(p) /\ pc[p] = Len(Steps[req[p].op])

Entering == {p \in Requests : req[p].op \in {"save", "new_key", "grant", "revoke", "login"}}

Withdrawn(p) ==
    \E q \in Requests : pc[q] > 0 /\ req[q].op \in {"delete", "drop_key"} /\ req[q].of = p

\* A capped list keeps its newest entries: p is gone when enough others came
\* that had not been answered before it.
PushedOut(p, d) ==
    LET others == {q \in Entering : pc[q] > 0 /\ Writes(q, d)} \ (heard[p] \cup {p}) IN
    \/ d[1] = "index" /\ Cardinality(others) >= IndexCap
    \/ d[1] = "audit" /\ Cardinality(others) >= AuditCap

\* The index of reports, the list of keys, the activity and the audit log lose
\* an entry only to a request that wrote the same document at the same time;
\* and only so does an entry outlast its withdrawal.
LostOnlyToOverlap ==
    \A d \in Docs : d[1] \in {"index", "keys", "activity", "audit"} =>
        /\ \A p \in Entering : Completed(p) /\ Writes(p, d) /\ Alone(p, d) =>
                p \in ToSet(doc[d]) \/ Withdrawn(p) \/ PushedOut(p, d)
        /\ \A p \in Requests :
                /\ Completed(p) /\ req[p].op \in {"delete", "drop_key"}
                /\ Writes(p, d) /\ Alone(p, d)
                => req[p].of \notin ToSet(doc[d])

Count(x) == IF x \in {Absent, Null} THEN 0 ELSE x

Saves == {p \in Requests : req[p].op = "save" /\ (p \in reports \/ Ok(p))}
Logins == {p \in Requests : req[p].op = "login" /\ (p \in sessions \/ Ok(p))}

\* Whatever fails and whatever overlaps, no counter exceeds what was done: the
\* reports of a user, the runs and the logins.  (The number of users may: two
\* first logins of one user at the same time are both counted.)
NeverOvercounted ==
    LET stats == doc[<<"stats", Site>>] IN
    /\ \A u \in Users : doc[<<"user", u>>] # None =>
            doc[<<"user", u>>].reports <= Cardinality({p \in Saves : User(p) = u})
    /\ stats # None =>
            /\ Count(stats.runs) <= Cardinality(Saves)
            /\ Count(stats.logins) <= Cardinality(Logins)
            /\ stats.today # None =>
                    /\ Count(stats.today.runs) <= Cardinality(Saves)
                    /\ Count(stats.today.logins) <= Cardinality(Logins)

Keys == {p \in Requests : req[p].op = "new_key"}

\* A session that was ended and, as long as one page lists all keys, a key that
\* was deleted admit no request that comes later.  (A logout with a key is
\* answered "ok" too, but ends nothing.)
EndedTokenIsDead ==
    \A p \in Requests : \A q \in heard[p] :
        /\ "token" \in DOMAIN req[p] /\ req[p].op # "logout" /\ Completed(q)
        /\ \/ req[q].op = "logout" /\ req[q].token = req[p].token /\ req[p].token \notin Keys
           \/ /\ req[q].op = "drop_key" /\ req[q].of = req[p].token /\ req[p].token \in Keys
              /\ Cardinality(Keys) <= ListLimit
        => ~Ok(p)

\* Counting blocks no save: with a store that works, none is answered with a 500.
SavesAreNotBlocked ==
    \A p \in Requests : req[p].op = "save" /\ resp[p] = "failed" => failures > 0
=============================================================================
