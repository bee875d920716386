------------------------------- MODULE Verdict -------------------------------
(***************************************************************************)
(* The verdict on a merchant: run_merchant_checks works off its checks one *)
(* by one against a server, and aggregate, the exit code, the summary and  *)
(* the JUnit report are made of what it has graded.  A check is a probe of *)
(* the server (whose answer is open), a predicate on the answer, and       *)
(* mutations of the answer that the predicate has to catch.                *)
(***************************************************************************)
EXTENDS Naturals, FiniteSets, FiniteSetsExt

CONSTANTS
    N,           \* number of checks
    Check,       \* Check[n]: the n-th check of all_checks()
    Register,    \* rows of the requirement register, by version
    Servers,     \* what a server may declare, and a run be configured with
    ReqIds, Versions, Transports, Capabilities, ConfigKeys, Mutations,
    Reviewed,    \* V_0825: the versions every unscoped check names
    CoreCap,     \* CORE_CAP
    Unscoped

Mandatory == {"MUST", "MUST NOT"}
Keywords == Mandatory \cup {"SHOULD", "SHOULD NOT", "MAY"}

Checks == 1..N

CheckRow ==
    [rids : [Versions -> SUBSET ReqIds], keyword : Keywords,
     versions : SUBSET Versions,                   \* {}: not scoped
     transport : Transports \cup {Unscoped}, capability : Capabilities \cup {Unscoped},
     needs_product : BOOLEAN, cfg_needs : SUBSET ConfigKeys,
     mutations : SUBSET Mutations]

RegisterRow ==
    [id : ReqIds, keyword : Keywords, testable : BOOLEAN,
     capability : Capabilities \cup {Unscoped}, transports : SUBSET (Transports \cup {"any"})]

Server ==
    [version : Versions, transports : SUBSET Transports,
     capabilities : SUBSET Capabilities, product : BOOLEAN,
     config : SUBSET ConfigKeys]

ASSUME VerdictAssumption ==
    /\ N \in Nat
    /\ Check \in [Checks -> CheckRow]
    /\ Register \in [Versions -> SUBSET RegisterRow]
    /\ Servers \subseteq Server

\* A check that is cited for a mandatory row is itself mandatory.  It is so
\* of every check and register in the repository; aggregate relies on it.
ASSUME KeywordsAgree ==
    \A n \in Checks, v \in Versions : \A row \in Register[v] :
        row.keyword \in Mandatory /\ row.id \in Check[n].rids[v]
            => Check[n].keyword \in Mandatory

VARIABLES
    server,     \* MerchantCtx: what discovery found, and the configuration
    next,       \* the check to run next; N + 1 after the last, N + 2 at the end
    graded,     \* graded[n]: the status and kill_safe of n's results
    shown,      \* shown[n]: the status of n in the report
    answer,     \* history: what n's probe and predicate really gave
    report      \* what aggregate and main make of it

verdictVars == <<server, next, graded, shown, answer, report>>

Statuses == {"clean-pass", "deviation", "inconclusive", "not-tested"}
Skips == {"not-applicable", "not-tested"}

Rids(n) == Check[n].rids[server.version]

\* Checks named for all reviewed versions run on unreviewed ones too.
VersionLocked(n) == Check[n].versions # {} /\ ~(Reviewed \subseteq Check[n].versions)

NotApplicable(n) ==
    \/ VersionLocked(n) /\ server.version \notin Check[n].versions
    \/ Check[n].transport # Unscoped /\ Check[n].transport \notin server.transports
    \/ Check[n].capability # Unscoped /\ Check[n].capability \notin server.capabilities

NotEquipped(n) ==
    \/ Check[n].needs_product /\ ~server.product
    \/ ~(Check[n].cfg_needs \subseteq server.config)

\* applicable_musts: the rows a verdict on this server has to account for.
ApplicableMusts ==
    {row.id : row \in {r \in Register[server.version] :
        /\ r.keyword \in Mandatory /\ r.testable
        /\ r.capability \in {Unscoped, CoreCap} \cup server.capabilities
        /\ r.transports \cap ({"any"} \cup (server.transports \cap {"rest"})) # {}}}

-----------------------------------------------------------------------------
(* run_merchant_checks *)

Grade(n, status, kill_safe, listed) ==
    /\ graded' = [graded EXCEPT ![n] = [status |-> status, kill_safe |-> kill_safe]]
    /\ shown' = [shown EXCEPT ![n] = listed]
    /\ next' = n + 1
    /\ UNCHANGED <<server, report>>

\* The check is out of scope for the server, or the run lacks what it needs.
Skip(n) ==
    /\ NotApplicable(n) \/ NotEquipped(n)
    /\ Grade(n, "not-tested", TRUE,
             IF NotApplicable(n) THEN "not-applicable" ELSE "not-tested")
    /\ UNCHANGED answer

Ready(n) == ~NotApplicable(n) /\ ~NotEquipped(n)

Saw(n, verdict, survivors) ==
    answer' = [answer EXCEPT ![n] = [verdict |-> verdict, survivors |-> survivors]]

\* The probe raises: connection refused, timeout, an answer fetch_fn trips on.
FetchFails(n) ==
    /\ Ready(n)
    /\ Saw(n, "error", Check[n].mutations)
    /\ Grade(n, "inconclusive", TRUE, "error")

\* The predicate cannot tell, as when its schema oracle is not installed.
OracleMissing(n) ==
    /\ Ready(n)
    /\ Saw(n, "inconclusive", Check[n].mutations)
    /\ Grade(n, "not-tested", TRUE, "not-tested")

KillSafe(verdict, survivors) == verdict = "clean-pass" /\ survivors = {}

Downgraded(verdict, survivors) ==
    IF KillSafe(verdict, survivors) \/ verdict = "deviation"
    THEN verdict ELSE "inconclusive"

\* What the report lists: the status the verdict uses.
\* Defect: the report lists what the predicate said of the answer.
ListedRaw(verdict, survivors) == verdict
Listed(verdict, survivors) == Downgraded(verdict, survivors)

\* The server answers, and survivors are the mutations of its answer that the
\* predicate lets through.
Judge(n) ==
    /\ Ready(n)
    /\ \E verdict \in {"clean-pass", "deviation"}, survivors \in SUBSET Check[n].mutations :
        /\ Saw(n, verdict, survivors)
        /\ Grade(n, Downgraded(verdict, survivors), KillSafe(verdict, survivors),
                 Listed(verdict, survivors))

-----------------------------------------------------------------------------
(* verdict_gate.aggregate *)

Effective(n) ==
    IF graded[n].status = "clean-pass" /\ ~graded[n].kill_safe
    THEN "inconclusive" ELSE graded[n].status

MustChecks == {n \in Checks : Check[n].keyword \in Mandatory}
IdsWith(statuses) ==
    UNION {Rids(n) : n \in {m \in MustChecks : Effective(m) \in statuses}}

\* An id cited by two deviating checks is counted twice.
Deviations ==
    MapThenSumSet(LAMBDA n : Cardinality(Rids(n)),
                  {n \in MustChecks : Effective(n) = "deviation"})

\* A row without a clean pass is not-tested, unless one of its results says why.
Unexplained(u) ==
    ~\E n \in Checks : u \in Rids(n)
        /\ Effective(n) \in {"not-tested", "inconclusive", "deviation"}

Untested ==
    {u \in ApplicableMusts \ (IdsWith({"clean-pass"}) \cup IdsWith({"deviation"})) :
        Unexplained(u)}

\* Defect: a row nobody graded blocks nothing.
BlockedByResults == IdsWith({"not-tested", "inconclusive"}) # {}
Blocked == IdsWith({"not-tested", "inconclusive"}) # {} \/ Untested # {}

Verdict ==
    IF IdsWith({"deviation"}) # {} THEN "fail"
    ELSE IF Blocked THEN "incomplete" ELSE "pass"

\* Defect: every deviation is a failure, an advisory one too.
JUnitFailuresAll == {n \in Checks : shown[n] = "deviation" /\ Rids(n) # {}}
\* JUnit fails a check that deviates from a mandatory row of this version.
JUnitFailures ==
    {n \in MustChecks : shown[n] = "deviation" /\ Rids(n) # {}}

Aggregate ==
    /\ next = N + 1 /\ next' = N + 2
    /\ report' =
        [aggregate |-> Verdict,
         musts |-> Cardinality(ApplicableMusts),
         passed |-> Cardinality(IdsWith({"clean-pass"}) \cap ApplicableMusts),
         violated |-> Deviations,
         exit |-> IF IdsWith({"deviation"}) # {} THEN 2 ELSE 0,
         failures |-> JUnitFailures]
    /\ UNCHANGED <<server, graded, shown, answer>>

\* No probe was sent, or none has answered yet.
NoAnswer == [verdict |-> "none", survivors |-> {}]

VerdictInit ==
    /\ server \in Servers
    /\ next = 1
    /\ graded = [n \in Checks |-> [status |-> "none", kill_safe |-> FALSE]]
    /\ shown = [n \in Checks |-> "none"]
    /\ answer = [n \in Checks |-> NoAnswer]
    /\ report = [aggregate |-> "none", musts |-> 0, passed |-> 0, violated |-> 0,
                 exit |-> 0, failures |-> {}]

RunCheck(n) == Skip(n) \/ FetchFails(n) \/ OracleMissing(n) \/ Judge(n)
Reported == next = N + 2

Done == Reported /\ UNCHANGED verdictVars

VerdictNext ==
    \/ \E n \in Checks : next = n /\ RunCheck(n)
    \/ Aggregate
    \/ Done

VerdictSpec == VerdictInit /\ [][VerdictNext]_verdictVars

-----------------------------------------------------------------------------
(* Properties *)

Grades == [status : Statuses, kill_safe : BOOLEAN]
Answers ==
    [verdict : {"none", "clean-pass", "deviation", "inconclusive", "error"},
     survivors : SUBSET Mutations]

\* Every check before next has left a result and a line in the report, with
\* an answer of the server behind it exactly if it ran.
VerdictTypeOK ==
    /\ server \in Servers
    /\ next \in 1..(N + 2)
    /\ answer \in [Checks -> Answers]
    /\ \A n \in Checks : n < next =>
        /\ graded[n] \in Grades
        /\ shown[n] \in Statuses \cup Skips \cup {"error"}
        /\ answer[n] = NoAnswer <=> ~Ready(n)
    /\ Reported => report.exit \in {0, 2} /\ report.failures \subseteq Checks

\* The server passed n, and n would have caught each of its mutations.
Proven(n) == Ready(n) /\ answer[n] = [verdict |-> "clean-pass", survivors |-> {}]

\* A "pass" is earned: each mandatory row that applies to the server is cited
\* by a check that ran against it, was satisfied, and lets no mutation
\* through; and no mandatory check was skipped, failed or unable to tell.
PassIsEarned ==
    Reported /\ report.aggregate = "pass" =>
        /\ \A u \in ApplicableMusts : \E n \in MustChecks : u \in Rids(n) /\ Proven(n)
        /\ \A n \in MustChecks : Rids(n) # {} => Proven(n)

Violated(n) == Ready(n) /\ answer[n].verdict = "deviation"

MustViolated == \E n \in MustChecks : Violated(n) /\ Rids(n) # {}

\* The verdict, the exit code and the JUnit report fail a server together,
\* and exactly when a check that applies to it saw a mandatory row violated.
RedIsReal ==
    Reported =>
        /\ report.aggregate = "fail" <=> MustViolated
        /\ report.exit = 2 <=> MustViolated
        /\ report.failures # {} <=> MustViolated

\* A check is listed as passed only if it counts as a pass in the verdict.
ListedAsCounted ==
    \A n \in Checks : shown[n] = "clean-pass" <=> Proven(n)
=============================================================================
