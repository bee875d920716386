----------------------------- MODULE ToolProofs -----------------------------
(***************************************************************************)
(* The two tools that judge a merchant.  What a verdict says is what the   *)
(* server did, for every list of checks, every register and every server:  *)
(* the inductive invariant says of every graded check how its result       *)
(* follows from the server's answer, and of the report that it is made of  *)
(* these results.  And the sequence fuzzer is fair, for sequences of any   *)
(* length and number.                                                      *)
(***************************************************************************)
EXTENDS Verdict, SeqFuzz, TLAPS

-----------------------------------------------------------------------------
(* Runner and verdict gate *)

\* How n's result and its line in the report follow from n's answer.
Skipped(n) ==
    /\ ~Ready(n) /\ answer[n] = NoAnswer
    /\ graded[n] = [status |-> "not-tested", kill_safe |-> TRUE]
    /\ shown[n] \in Skips

Untold(n) ==
    /\ Ready(n)
    /\ \/ /\ answer[n].verdict = "error"
          /\ graded[n] = [status |-> "inconclusive", kill_safe |-> TRUE]
          /\ shown[n] = "error"
       \/ /\ answer[n].verdict = "inconclusive"
          /\ graded[n] = [status |-> "not-tested", kill_safe |-> TRUE]
          /\ shown[n] = "not-tested"

Judged(n) ==
    LET verdict == answer[n].verdict
        survivors == answer[n].survivors IN
    /\ Ready(n)
    /\ verdict \in {"clean-pass", "deviation"}
    /\ graded[n] = [status |-> Downgraded(verdict, survivors),
                    kill_safe |-> KillSafe(verdict, survivors)]
    /\ shown[n] = Listed(verdict, survivors)

Follows(n) == Skipped(n) \/ Untold(n) \/ Judged(n)

ReportMade ==
    /\ report.aggregate = Verdict
    /\ report.exit = IF IdsWith({"deviation"}) # {} THEN 2 ELSE 0
    /\ report.failures = JUnitFailures

VerdictInv ==
    /\ server \in Servers
    /\ next \in 1..(N + 2)
    /\ answer \in [Checks -> Answers]
    /\ graded = [n \in Checks |-> graded[n]]
    /\ shown = [n \in Checks |-> shown[n]]
    /\ \A n \in Checks :
        /\ n < next => Follows(n)
        /\ n >= next => answer[n] = NoAnswer /\ shown[n] = "none"
    /\ Reported => ReportMade

LEMMA InitVerdict == VerdictInit => VerdictInv
BY VerdictAssumption DEF VerdictInit, VerdictInv, Reported, Answers, NoAnswer, Checks

\* Running check n changes nothing of another check.
LEMMA OthersFollow ==
    ASSUME VerdictInv, NEW n \in Checks, next = n, RunCheck(n)
    PROVE  /\ server' = server /\ next' = n + 1 /\ UNCHANGED report
           /\ \A m \in Checks \ {n} :
                graded'[m] = graded[m] /\ shown'[m] = shown[m] /\ answer'[m] = answer[m]
           /\ graded' = [m \in Checks |-> graded'[m]]
           /\ shown' = [m \in Checks |-> shown'[m]]
BY DEF VerdictInv, RunCheck, Skip, FetchFails, OracleMissing, Judge, Grade, Saw

LEMMA RunFollows ==
    ASSUME VerdictInv, NEW n \in Checks, next = n, RunCheck(n)
    PROVE  Follows(n)' /\ answer' \in [Checks -> Answers]
<1>t. answer \in [Checks -> Answers] /\ answer[n] = NoAnswer /\ Check[n].mutations \subseteq Mutations
  <2>1. Check[n] \in CheckRow
    BY VerdictAssumption
  <2> QED BY <2>1 DEF VerdictInv, CheckRow
<1>g. graded = [m \in Checks |-> graded[m]] /\ shown = [m \in Checks |-> shown[m]]
  BY DEF VerdictInv
<1>r. Ready(n)' <=> Ready(n)
  BY OthersFollow DEF Ready, NotApplicable, NotEquipped, VersionLocked
<1>1. CASE Skip(n)
  <2>1. Skipped(n)'
    BY <1>1, <1>t, <1>g, <1>r DEF Skip, Grade, Skipped, Ready, Skips
  <2> QED BY <1>1, <1>t, <2>1 DEF Skip, Follows
<1>2. CASE FetchFails(n)
  <2>1. Untold(n)' /\ answer' \in [Checks -> Answers]
    BY <1>2, <1>t, <1>g, <1>r DEF FetchFails, Grade, Saw, Untold, Answers
  <2> QED BY <2>1 DEF Follows
<1>3. CASE OracleMissing(n)
  <2>1. Untold(n)' /\ answer' \in [Checks -> Answers]
    BY <1>3, <1>t, <1>g, <1>r DEF OracleMissing, Grade, Saw, Untold, Answers
  <2> QED BY <2>1 DEF Follows
<1>4. CASE Judge(n)
  <2> PICK verdict \in {"clean-pass", "deviation"}, survivors \in SUBSET Check[n].mutations :
        /\ Saw(n, verdict, survivors)
        /\ Grade(n, Downgraded(verdict, survivors), KillSafe(verdict, survivors),
                 Listed(verdict, survivors))
    BY <1>4 DEF Judge
  <2>1. /\ answer'[n] = [verdict |-> verdict, survivors |-> survivors]
        /\ answer' \in [Checks -> Answers]
    BY <1>t DEF Saw, Answers
  <2>2. /\ graded'[n] = [status |-> Downgraded(verdict, survivors),
                         kill_safe |-> KillSafe(verdict, survivors)]
        /\ shown'[n] = Listed(verdict, survivors)
    BY <1>g DEF Grade
  <2>3. answer'[n].verdict = verdict /\ answer'[n].survivors = survivors
    BY <2>1
  <2>4. Judged(n)'
    BY <1>4, <1>r, <2>2, <2>3 DEF Judge, Judged
  <2> QED BY <2>1, <2>4 DEF Follows
<1> QED BY <1>1, <1>2, <1>3, <1>4 DEF RunCheck

\* The report is a function of what is graded.
LEMMA SameReport ==
    ASSUME UNCHANGED <<server, graded, shown, answer>>
    PROVE  /\ Verdict' = Verdict /\ JUnitFailures' = JUnitFailures
           /\ IdsWith({"deviation"})' = IdsWith({"deviation"})
           /\ \A m \in Checks : Follows(m) => Follows(m)'
<1>1. /\ Verdict' = Verdict /\ JUnitFailures' = JUnitFailures
      /\ IdsWith({"deviation"})' = IdsWith({"deviation"})
  BY DEF Verdict, JUnitFailures, IdsWith, Blocked, Untested, Unexplained, Effective,
         MustChecks, Rids, ApplicableMusts
<1>2. ASSUME NEW m \in Checks, Follows(m) PROVE Follows(m)'
  BY <1>2 DEF Follows, Skipped, Untold, Judged, Ready, NotApplicable, NotEquipped,
              VersionLocked
<1> QED BY <1>1, <1>2

LEMMA StepVerdict == VerdictInv /\ [VerdictNext]_verdictVars => VerdictInv'
<1> SUFFICES ASSUME VerdictInv, [VerdictNext]_verdictVars PROVE VerdictInv'
  OBVIOUS
<1>n. N \in Nat
  BY VerdictAssumption
<1>1. CASE \E n \in Checks : next = n /\ RunCheck(n)
  <2> PICK n \in Checks : next = n /\ RunCheck(n)
    BY <1>1
  <2>o. /\ server' = server /\ next' = n + 1 /\ UNCHANGED report
        /\ \A m \in Checks \ {n} :
             graded'[m] = graded[m] /\ shown'[m] = shown[m] /\ answer'[m] = answer[m]
        /\ graded' = [m \in Checks |-> graded'[m]]
        /\ shown' = [m \in Checks |-> shown'[m]]
    BY OthersFollow
  <2>f. Follows(n)' /\ answer' \in [Checks -> Answers]
    BY RunFollows
  <2>2. ASSUME NEW m \in Checks, m # n, Follows(m) PROVE Follows(m)'
    <3>1. graded'[m] = graded[m] /\ shown'[m] = shown[m] /\ answer'[m] = answer[m]
      BY <2>2, <2>o
    <3>2. Ready(m)' <=> Ready(m)
      BY <2>o DEF Ready, NotApplicable, NotEquipped, VersionLocked
    <3> QED BY <2>2, <3>1, <3>2 DEF Follows, Skipped, Untold, Judged
  <2>3. ASSUME NEW m \in Checks PROVE
          /\ m < next' => Follows(m)'
          /\ m >= next' => answer'[m] = NoAnswer /\ shown'[m] = "none"
    <3>1. m < next' => m = n \/ m < next
      BY <2>o, <1>n DEF Checks
    <3>2. m >= next' => m # n /\ m >= next
      BY <2>o, <1>n DEF Checks
    <3>3. /\ m < next => Follows(m)
          /\ m >= next => answer[m] = NoAnswer /\ shown[m] = "none"
      BY DEF VerdictInv
    <3> QED BY <3>1, <3>2, <3>3, <2>2, <2>f, <2>o
  <2>4. next' \in 1..(N + 2) /\ ~Reported'
    BY <2>o, <1>n DEF Checks, Reported
  <2>5. server' \in Servers
    BY <2>o DEF VerdictInv
  <2> QED BY <2>o, <2>f, <2>3, <2>4, <2>5 DEF VerdictInv
<1>2. CASE Aggregate
  <2>1. ReportMade'
    BY <1>2, SameReport DEF Aggregate, ReportMade
  <2>2. next' \in 1..(N + 2) /\ \A m \in Checks : m < next /\ ~(m >= next')
    BY <1>2, <1>n DEF Aggregate, Checks
  <2> QED BY <1>2, <2>1, <2>2, SameReport DEF Aggregate, VerdictInv
<1>3. CASE UNCHANGED verdictVars
  <2>1. Reported' = Reported /\ (ReportMade => ReportMade')
    BY <1>3, SameReport DEF verdictVars, Reported, ReportMade
  <2> QED BY <1>3, <2>1, SameReport DEF verdictVars, VerdictInv
<1> QED BY <1>1, <1>2, <1>3 DEF VerdictNext, Done

\* The inductive invariant holds throughout.
THEOREM Grading == VerdictSpec => []VerdictInv
BY InitVerdict, StepVerdict, PTL DEF VerdictSpec

-----------------------------------------------------------------------------

\* What the results of a graded check say of the server's answer.
LEMMA Meaning ==
    ASSUME VerdictInv, NEW n \in Checks, n < next
    PROVE  /\ Effective(n) \in Statuses
           /\ Effective(n) = "clean-pass" <=> Proven(n)
           /\ Effective(n) = "deviation" <=> Violated(n)
           /\ shown[n] = "clean-pass" <=> Proven(n)
           /\ shown[n] = "deviation" <=> Violated(n)
           /\ graded[n] \in Grades
           /\ shown[n] \in Statuses \cup Skips \cup {"error"}
           /\ answer[n] = NoAnswer <=> ~Ready(n)
<1>1. Follows(n) /\ answer[n] \in Answers
  BY DEF VerdictInv
<1>2. CASE Skipped(n)
  BY <1>2 DEF Skipped, Effective, Statuses, Skips, Proven, Violated, Grades, NoAnswer
<1>3. CASE Untold(n)
  <2>1. /\ Ready(n) /\ answer[n].verdict \in {"error", "inconclusive"}
        /\ shown[n] \in {"error", "not-tested"}
        /\ \/ graded[n] = [status |-> "inconclusive", kill_safe |-> TRUE]
           \/ graded[n] = [status |-> "not-tested", kill_safe |-> TRUE]
    BY <1>3 DEF Untold
  <2>2. answer[n] # NoAnswer /\ ~Proven(n) /\ ~Violated(n)
    BY <2>1 DEF NoAnswer, Proven, Violated
  <2>3. Effective(n) \in {"inconclusive", "not-tested"}
    BY <2>1 DEF Effective
  <2>4. graded[n] \in Grades
    <3>1. /\ [status |-> "inconclusive", kill_safe |-> TRUE] \in Grades
          /\ [status |-> "not-tested", kill_safe |-> TRUE] \in Grades
      BY DEF Grades, Statuses
    <3> QED BY <2>1, <3>1
  <2> QED BY <2>1, <2>2, <2>3, <2>4 DEF Statuses
<1>4. CASE Judged(n)
  <2> DEFINE verdict == answer[n].verdict
             survivors == answer[n].survivors
  <2>1. /\ Ready(n) /\ answer[n] # NoAnswer
        /\ graded[n].status = Downgraded(verdict, survivors)
        /\ graded[n].kill_safe = KillSafe(verdict, survivors)
        /\ shown[n] = Downgraded(verdict, survivors)
    BY <1>4 DEF Judged, NoAnswer, Listed
  <2>2. answer[n] = [verdict |-> verdict, survivors |-> survivors]
    BY <1>1 DEF Answers
  <2>3. CASE verdict = "deviation"
    <3>1. graded[n].status = "deviation" /\ shown[n] = "deviation"
      BY <2>1, <2>3 DEF Downgraded
    <3> QED BY <2>1, <2>2, <2>3, <3>1, <1>4
            DEF Judged, Effective, Statuses, Skips, Proven, Violated, Grades, KillSafe
  <2>4. CASE verdict = "clean-pass" /\ survivors = {}
    <3>1. /\ graded[n].status = "clean-pass" /\ shown[n] = "clean-pass"
          /\ graded[n].kill_safe
      BY <2>1, <2>4 DEF Downgraded, KillSafe
    <3> QED BY <2>1, <2>2, <2>4, <3>1, <1>4
            DEF Judged, Effective, Statuses, Skips, Proven, Violated, Grades, KillSafe
  <2>5. CASE verdict = "clean-pass" /\ survivors # {}
    <3>1. graded[n].status = "inconclusive" /\ shown[n] = "inconclusive"
      BY <2>1, <2>5 DEF Downgraded, KillSafe
    <3> QED BY <2>1, <2>2, <2>5, <3>1, <1>4
            DEF Judged, Effective, Statuses, Skips, Proven, Violated, Grades, KillSafe
  <2> QED BY <1>4, <2>3, <2>4, <2>5 DEF Judged
<1> QED BY <1>1, <1>2, <1>3, <1>4 DEF Follows

\* The report, once made, comes after every check.
LEMMA AllGraded ==
    ASSUME VerdictInv, Reported, NEW n \in Checks PROVE n < next
BY VerdictAssumption DEF Reported, Checks

LEMMA IdsOf ==
    ASSUME NEW statuses
    PROVE  IdsWith(statuses) # {} <=>
             \E n \in MustChecks : Effective(n) \in statuses /\ Rids(n) # {}
<1> DEFINE chosen == {m \in MustChecks : Effective(m) \in statuses}
<1>1. ASSUME NEW u \in IdsWith(statuses)
      PROVE  \E n \in MustChecks : Effective(n) \in statuses /\ Rids(n) # {}
  <2>1. PICK n \in chosen : u \in Rids(n)
    BY <1>1 DEF IdsWith
  <2> QED BY <2>1
<1>2. ASSUME NEW n \in MustChecks, Effective(n) \in statuses, NEW u \in Rids(n)
      PROVE  IdsWith(statuses) # {}
  <2>1. n \in chosen
    BY <1>2
  <2>2. u \in IdsWith(statuses)
    BY <2>1 DEF IdsWith
  <2> QED BY <2>2
<1> QED BY <1>1, <1>2

LEMMA InvTypes == VerdictInv => VerdictTypeOK
<1> SUFFICES ASSUME VerdictInv PROVE VerdictTypeOK
  OBVIOUS
<1>1. Reported => report.exit \in {0, 2} /\ report.failures \subseteq Checks
  BY DEF VerdictInv, ReportMade, JUnitFailures, MustChecks
<1> QED BY <1>1, Meaning DEF VerdictInv, VerdictTypeOK

LEMMA InvListed == VerdictInv => ListedAsCounted
<1> SUFFICES ASSUME VerdictInv, NEW n \in Checks PROVE shown[n] = "clean-pass" <=> Proven(n)
  BY DEF ListedAsCounted
<1>1. CASE n < next
  BY <1>1, Meaning
<1>2. CASE n >= next
  BY <1>2 DEF VerdictInv, Proven, NoAnswer
<1>3. n \in Nat /\ next \in Nat
  BY VerdictAssumption DEF VerdictInv, Checks
<1> QED BY <1>1, <1>2, <1>3

\* An id is among those with a status exactly when a mandatory check of it is.
LEMMA InvRed == VerdictInv => RedIsReal
<1> SUFFICES ASSUME VerdictInv, Reported PROVE
        /\ report.aggregate = "fail" <=> MustViolated
        /\ report.exit = 2 <=> MustViolated
        /\ report.failures # {} <=> MustViolated
  BY DEF RedIsReal
<1>1. ReportMade
  BY DEF VerdictInv
<1>2. \A n \in Checks : /\ Effective(n) = "deviation" <=> Violated(n)
                        /\ shown[n] = "deviation" <=> Violated(n)
  BY AllGraded, Meaning
<1>3. IdsWith({"deviation"}) # {} <=> MustViolated
  <2>1. \A n \in MustChecks : Effective(n) \in {"deviation"} <=> Violated(n)
    BY <1>2 DEF MustChecks
  <2> QED BY <2>1, IdsOf DEF MustViolated
<1>4. JUnitFailures # {} <=> MustViolated
  BY <1>2 DEF JUnitFailures, MustViolated, MustChecks
<1>5. Verdict = "fail" <=> MustViolated
  BY <1>3 DEF Verdict
<1> QED BY <1>1, <1>3, <1>4, <1>5 DEF ReportMade

LEMMA InvPass == VerdictInv => PassIsEarned
<1> SUFFICES ASSUME VerdictInv, Reported, report.aggregate = "pass" PROVE
        /\ \A u \in ApplicableMusts : \E n \in MustChecks : u \in Rids(n) /\ Proven(n)
        /\ \A n \in MustChecks : Rids(n) # {} => Proven(n)
  BY DEF PassIsEarned
<1>1. /\ IdsWith({"deviation"}) = {} /\ IdsWith({"not-tested", "inconclusive"}) = {}
      /\ Untested = {}
  BY DEF VerdictInv, ReportMade, Verdict, Blocked
<1>2. \A n \in Checks : /\ Effective(n) \in Statuses
                        /\ Effective(n) = "clean-pass" <=> Proven(n)
  BY AllGraded, Meaning
<1>3. ASSUME NEW n \in MustChecks, Rids(n) # {} PROVE Proven(n)
  <2>1. Effective(n) \notin {"deviation"}
    BY <1>1, <1>3, IdsOf
  <2>2. Effective(n) \notin {"not-tested", "inconclusive"}
    BY <1>1, <1>3, IdsOf
  <2>3. n \in Checks
    BY DEF MustChecks
  <2>4. Effective(n) \in Statuses /\ (Effective(n) = "clean-pass" <=> Proven(n))
    BY <1>2, <2>3
  <2> QED BY <2>1, <2>2, <2>4 DEF Statuses
<1>4. ASSUME NEW u \in ApplicableMusts PROVE \E n \in MustChecks : u \in Rids(n) /\ Proven(n)
  <2>1. CASE u \in IdsWith({"clean-pass"})
    BY <2>1, <1>3 DEF IdsWith
  <2>2. CASE u \notin IdsWith({"clean-pass"})
    <3>1. ~Unexplained(u)
      BY <2>2, <1>1 DEF Untested
    <3>2. PICK n \in Checks : u \in Rids(n)
      BY <3>1 DEF Unexplained
    <3>3. n \in MustChecks
      <4>1. PICK row \in Register[server.version] : row.id = u /\ row.keyword \in Mandatory
        BY DEF ApplicableMusts
      <4>2. server.version \in Versions
        BY VerdictAssumption DEF VerdictInv, Server
      <4> QED BY <3>2, <4>1, <4>2, KeywordsAgree DEF Rids, MustChecks
    <3> QED BY <3>2, <3>3, <1>3
  <2> QED BY <2>1, <2>2
<1> QED BY <1>3, <1>4

\* Every check leaves a result and a line in the report, and has an answer
\* behind it exactly if it ran.
THEOREM VerdictTypes == VerdictSpec => []VerdictTypeOK
BY Grading, InvTypes, PTL

\* A pass is earned: no applicable mandatory row without a check that ran, was
\* satisfied and lets no mutation through.
THEOREM Earned == VerdictSpec => []PassIsEarned
BY Grading, InvPass, PTL

\* Verdict, exit code and JUnit report are red together, and only when the
\* server was seen to violate a mandatory row.
THEOREM Honest == VerdictSpec => []RedIsReal
BY Grading, InvRed, PTL

\* The report lists as passed exactly what the verdict counts.
THEOREM Listing == VerdictSpec => []ListedAsCounted
BY Grading, InvListed, PTL

-----------------------------------------------------------------------------
(* Sequence fuzzer *)

\* The state that the argument needs has its type, as long as nothing is lost.
FuzzTypes == drops \in Nat /\ (drops = 0 => ck \in Checkout)

\* A checkout that the stub can be in: completed with an order, and in progress
\* only if that is the defect.
Sane(c) ==
    /\ c.status = "completed" => c.order
    /\ c.status = "complete_in_progress" => plant = "in_progress_order"

\* An answer to an original: what it shows is the checkout as it now is.
Shows(resp, c) ==
    /\ resp \in Response /\ resp.code # 0
    /\ resp.code = 500 => plant = "500_on_quantity"
    /\ Ok(resp) => resp.status = c.status /\ resp.order = c.order

\* Within a sequence in which nothing was lost, the fuzzer knows the state of
\* the checkout, and what a replay sends again is what the stub has stored.
Agreement ==
    drops = 0 /\ plan # << >> =>
        /\ Sane(ck) /\ prev = ck.status
        /\ last.raw \in Bytes /\ last.code = idem.resp.code
        /\ idem # None /\ idem.raw = last.raw /\ Shows(idem.resp, ck)

Inv == FuzzTypes /\ Agreement /\ BlameIsFair

-----------------------------------------------------------------------------
(* The stub and the invariants *)

LEMMA BecomesFacts ==
  ASSUME NEW code \in {200, 201}, NEW d \in Checkout
  PROVE  Becomes(code, d).ck = d /\ Shows(Becomes(code, d).resp, d) /\ Ok(Becomes(code, d).resp)
BY DEF Becomes, Shown, Shows, Ok, Response, Checkout

LEMMA FailsFacts ==
  ASSUME NEW code \in {409, 500}, NEW d, code = 500 => plant = "500_on_quantity"
  PROVE  Fails(code, d).ck = d /\ Shows(Fails(code, d).resp, d) /\ ~Ok(Fails(code, d).resp)
BY DEF Fails, Error, Shows, Ok, Response

LEMMA Checkouts ==
  /\ \A st \in Status, b \in BOOLEAN : [status |-> st, order |-> b] \in Checkout
  /\ \A st \in {"ready_for_complete", "incomplete", "canceled"}, b \in BOOLEAN :
        st \in Status /\ Sane([status |-> st, order |-> b])
  /\ "completed" \in Status /\ Sane([status |-> "completed", order |-> TRUE])
  /\ "complete_in_progress" \in Status
  /\ plant = "in_progress_order" => Sane([status |-> "complete_in_progress", order |-> TRUE])
BY DEF Checkout, Status, TERMINAL, Sane

\* What _handle does.
LEMMA HandleFacts ==
  ASSUME NEW raw \in Bytes, NEW c \in Checkout
  PROVE  LET h == Handle(raw, c) IN
         /\ h.ck \in Checkout /\ Shows(h.resp, h.ck)
         /\ raw.op = "create" \/ Sane(c) => Sane(h.ck)
         /\ ~Ok(h.resp) => h.ck = c
         /\ raw.op = "create" => Ok(h.resp)
         /\ Ok(h.resp) /\ raw.op # "create" /\ c.status \in TERMINAL =>
               plant = "terminal_left" /\ raw.op = "update"
<1> DEFINE terminal == c.status \in TERMINAL
           left == raw.op = "update" /\ plant = "terminal_left"
           fails == raw.op = "update" /\ plant = "500_on_quantity" /\ raw.qty >= 2
<1>1. raw.op \in Originals /\ c.status \in Status /\ c.order \in BOOLEAN
  BY DEF Bytes, Checkout
<1>2. CASE raw.op = "create"
  <2> DEFINE d == [status |-> "ready_for_complete", order |-> FALSE]
  <2>1. Handle(raw, c) = Becomes(201, d)
    BY <1>2 DEF Handle
  <2>2. d \in Checkout /\ Sane(d)
    BY Checkouts
  <2> HIDE DEF d
  <2> QED BY <1>2, <2>1, <2>2, BecomesFacts
<1>3. CASE terminal /\ left
  <2> DEFINE d == [status |-> "incomplete", order |-> FALSE]
  <2>1. Handle(raw, c) = Becomes(200, d)
    BY <1>3 DEF Handle
  <2>2. d \in Checkout /\ Sane(d)
    BY Checkouts
  <2> HIDE DEF d
  <2> QED BY <1>3, <2>1, <2>2, BecomesFacts
<1>4. CASE raw.op # "create" /\ terminal /\ ~left
  <2>1. Handle(raw, c) = Fails(409, c)
    BY <1>4 DEF Handle
  <2> QED BY <1>4, <2>1, FailsFacts
<1>5. CASE ~terminal /\ fails
  <2>1. Handle(raw, c) = Fails(500, c)
    BY <1>5 DEF Handle
  <2>2. plant = "500_on_quantity"
    BY <1>5
  <2> QED BY <1>5, <2>1, <2>2, FailsFacts
<1>6. CASE raw.op = "update" /\ ~terminal /\ ~fails
  <2> DEFINE d == [status |-> "ready_for_complete", order |-> FALSE]
  <2>1. Handle(raw, c) = Becomes(200, d)
    BY <1>6 DEF Handle
  <2>2. d \in Checkout /\ Sane(d)
    BY Checkouts
  <2> HIDE DEF d
  <2> QED BY <1>6, <2>1, <2>2, BecomesFacts
<1>7. CASE raw.op = "complete" /\ ~terminal
  <2> DEFINE d == [status |-> IF plant = "in_progress_order" THEN "complete_in_progress"
                              ELSE "completed", order |-> TRUE]
  <2>1. Handle(raw, c) = Becomes(200, d)
    BY <1>7 DEF Handle
  <2>2. d \in Checkout /\ Sane(d)
    BY Checkouts
  <2> HIDE DEF d
  <2> QED BY <1>7, <2>1, <2>2, BecomesFacts
<1>8. CASE raw.op = "cancel" /\ ~terminal
  <2> DEFINE d == [c EXCEPT !.status = "canceled"]
  <2>1. Handle(raw, c) = Becomes(200, d)
    BY <1>8 DEF Handle
  <2>2. d = [status |-> "canceled", order |-> c.order]
    BY DEF Checkout
  <2>3. d \in Checkout /\ Sane(d)
    BY <1>1, <2>2, Checkouts
  <2> HIDE DEF d
  <2> QED BY <1>8, <2>1, <2>3, BecomesFacts
<1> QED BY <1>1, <1>2, <1>3, <1>4, <1>5, <1>6, <1>7, <1>8 DEF Originals

\* No invariant but the planted one fails on an answer that shows a sane
\* checkout, if the operation was not a replay that should not have been taken
\* and the checkout had not ended.
LEMMA FairAnswer ==
  ASSUME NEW c \in Checkout, Sane(c), NEW resp, Shows(resp, c),
         NEW op, NEW before, NEW orig,
         op = "replay_same" => resp.code = orig,
         op = "replay_mismatch" => resp.code = 409,
         op = "replay_reserialized" => resp.code = 409 \/ plant = "reserialized_cached",
         Ok(resp) /\ before \in TERMINAL /\ op \in {"update", "complete", "cancel"} =>
            plant = "terminal_left",
         op = "get" => resp.status = before
  PROVE  CheckStep(op, resp, before, orig) \subseteq Broken
<1>1. resp.code # 0
  BY DEF Shows
<1>2. CheckStep(op, resp, before, orig) = Failing(op, resp, before, orig)
  BY <1>1 DEF CheckStep
<1>3. I2(op, resp, before) => plant = "terminal_left"
  BY DEF I2
<1>4. I3(resp) => plant = "in_progress_order"
  BY DEF I3, Shows, Sane
<1>5. ~I4(resp)
  BY DEF I4, Shows, Sane
<1>6. I8(resp) => plant = "500_on_quantity"
  BY DEF I8, Shows, Response
<1>7. I9(op, resp, before, orig) => plant = "terminal_left"
  BY DEF I9
<1>8. I10(op, resp) => plant = "reserialized_cached"
  BY DEF I10
<1>9. /\ plant = "in_progress_order" => Broken = {"I3"}
      /\ plant = "terminal_left" => Broken = {"I2", "I9"}
      /\ plant = "500_on_quantity" => Broken = {"I8"}
      /\ plant = "reserialized_cached" => Broken = {"I10"}
  BY DEF Broken
<1> QED BY <1>2, <1>3, <1>4, <1>5, <1>6, <1>7, <1>8, <1>9 DEF Failing

-----------------------------------------------------------------------------
(* The fuzzer *)

\* A step that loses its answer blames nothing but the transport; one that does
\* not shows what the stub did, and nothing was lost after it that was not before.
LEMMA StepFacts ==
  ASSUME FuzzTypes, NEW op, NEW raw, NEW s, NEW before, NEW orig,
         Step(op, raw, s, before, orig)
  PROVE  /\ plant' = plant /\ drops' \in Nat /\ ck' \in {ck, s.ck}
         /\ dropped' => flagged' = {"I8"} /\ drops' # 0
         /\ drops' = 0 => /\ drops = 0 /\ ck' = s.ck
                          /\ idem' = IF op = "get" THEN idem ELSE s.idem
                          /\ last' = Remember(op, raw, s.resp)
                          /\ prev' = Believed(op, s.resp, before)
                          /\ flagged' = CheckStep(op, s.resp, before, orig)
<1>1. PICK sent, answered \in BOOLEAN :
        LET resp == IF sent /\ answered THEN s.resp ELSE Lost
            found == CheckStep(op, resp, before, orig)
        IN
        /\ answered => sent
        /\ dropped' = ~answered
        /\ drops' = IF answered THEN drops ELSE drops + 1
        /\ ck' = IF sent THEN s.ck ELSE ck
        /\ idem' = IF op = "get" THEN idem ELSE IF sent THEN s.idem
                   ELSE IF op \in Originals THEN None ELSE idem
        /\ last' = Remember(op, raw, resp)
        /\ prev' = Believed(op, resp, before)
        /\ flagged' = found
        /\ plant' = plant
  BY DEF Step
<1>2. CASE answered
  BY <1>1, <1>2 DEF FuzzTypes
<1>3. CASE ~answered
  <2>1. flagged' = CheckStep(op, Lost, before, orig)
    BY <1>1, <1>3
  <2>2. Lost.code = 0
    BY DEF Lost, Error
  <2>3. flagged' = {"I8"}
    BY <2>1, <2>2 DEF CheckStep
  <2>4. drops' \in Nat /\ drops' # 0
    BY <1>1, <1>3 DEF FuzzTypes
  <2> QED BY <1>1, <2>3, <2>4
<1> QED BY <1>2, <1>3

\* A step whose answer is fair keeps the fuzzer fair.
LEMMA StepIsFair ==
  ASSUME FuzzTypes, NEW op, NEW raw, NEW s, NEW before, NEW orig,
         Step(op, raw, s, before, orig),
         drops = 0 => CheckStep(op, s.resp, before, orig) \subseteq Broken
  PROVE  BlameIsFair'
<1>1. Broken' = Broken
  BY StepFacts DEF Broken
<1> QED BY <1>1, StepFacts DEF BlameIsFair

LEMMA SaneStays == ASSUME plant' = plant, NEW c, Sane(c) PROVE Sane(c)'
BY DEF Sane

LEMMA ShowsStays == ASSUME plant' = plant, NEW resp, NEW c, Shows(resp, c) PROVE Shows(resp, c)'
BY DEF Shows, Ok

\* Serve, for a key that the stub does not know: the case of an original.
LEMMA OriginalFacts ==
  ASSUME ck \in Checkout, NEW raw \in Bytes
  PROVE  LET s == Serve(raw, None, ck) IN
         /\ s.ck \in Checkout /\ Shows(s.resp, s.ck)
         /\ raw.op = "create" \/ Sane(ck) => Sane(s.ck)
         /\ s.idem = [raw |-> raw, resp |-> s.resp] /\ s.idem # None
         /\ ~Ok(s.resp) => s.ck = ck
         /\ raw.op = "create" => Ok(s.resp)
         /\ Ok(s.resp) /\ raw.op # "create" /\ ck.status \in TERMINAL =>
               plant = "terminal_left" /\ raw.op = "update"
<1> DEFINE h == Handle(raw, ck)
           s == Serve(raw, None, ck)
<1>1. s.resp = h.resp /\ s.ck = h.ck /\ s.idem = [raw |-> raw, resp |-> h.resp]
  BY DEF Serve
<1>2. /\ h.ck \in Checkout /\ Shows(h.resp, h.ck)
      /\ raw.op = "create" \/ Sane(ck) => Sane(h.ck)
      /\ ~Ok(h.resp) => h.ck = ck
      /\ raw.op = "create" => Ok(h.resp)
      /\ Ok(h.resp) /\ raw.op # "create" /\ ck.status \in TERMINAL =>
            plant = "terminal_left" /\ raw.op = "update"
  BY HandleFacts
<1>3. [raw |-> raw, resp |-> h.resp] # None
  BY <1>2, NoneAssumption DEF Shows
<1> HIDE DEF h, s
<1> QED BY <1>1, <1>2, <1>3 DEF s

\* An original keeps what the fuzzer knows.
LEMMA OriginalKeeps ==
  ASSUME FuzzTypes, NEW raw \in Bytes, NEW before,
         drops = 0 => raw.op = "create" \/ (Sane(ck) /\ before = ck.status),
         Step(raw.op, raw, Serve(raw, None, ck), before, 0)
  PROVE  FuzzTypes' /\ Agreement' /\ BlameIsFair'
<1> DEFINE s == Serve(raw, None, ck)
<1>1. raw.op \in Originals /\ raw.op # "get"
  BY DEF Bytes, Originals
<1>2. raw.op \notin Replays
  BY <1>1 DEF Originals, Replays
<1>3. FuzzTypes'
  BY StepFacts, OriginalFacts DEF FuzzTypes
<1>4. CASE drops # 0
  <2>1. drops' # 0
    BY <1>4, StepFacts
  <2>2. BlameIsFair'
    BY <1>4, StepIsFair
  <2> QED BY <1>3, <2>1, <2>2 DEF Agreement
<1>5. CASE drops = 0
  <2>1. /\ s.ck \in Checkout /\ Sane(s.ck) /\ Shows(s.resp, s.ck)
        /\ s.idem = [raw |-> raw, resp |-> s.resp] /\ s.idem # None
        /\ ~Ok(s.resp) => s.ck = ck
        /\ raw.op = "create" => Ok(s.resp)
        /\ Ok(s.resp) /\ raw.op # "create" /\ ck.status \in TERMINAL =>
              plant = "terminal_left" /\ raw.op = "update"
    BY <1>5, OriginalFacts DEF FuzzTypes
  <2> HIDE DEF s
  <2>2. CheckStep(raw.op, s.resp, before, 0) \subseteq Broken
    <3>1. raw.op # "replay_same" /\ raw.op # "replay_mismatch" /\ raw.op # "replay_reserialized"
      BY <1>2 DEF Replays
    <3>2. Ok(s.resp) /\ before \in TERMINAL /\ raw.op \in {"update", "complete", "cancel"} =>
            plant = "terminal_left"
      BY <1>5, <2>1
    <3> QED BY <1>1, <2>1, <3>1, <3>2, FairAnswer
  <2>3. BlameIsFair'
    BY <2>2, StepIsFair DEF s
  <2>4. ASSUME drops' = 0
        PROVE  /\ Sane(ck)' /\ prev' = ck'.status /\ last'.raw \in Bytes
               /\ last'.code = idem'.resp.code
               /\ idem' # None /\ idem'.raw = last'.raw /\ Shows(idem.resp, ck)'
    <3>1. /\ plant' = plant /\ ck' = s.ck /\ idem' = s.idem
          /\ last' = Remember(raw.op, raw, s.resp)
          /\ prev' = Believed(raw.op, s.resp, before)
      BY <1>1, <2>4, StepFacts DEF s
    <3>2. last' = [raw |-> raw, code |-> s.resp.code]
      BY <1>1, <3>1 DEF Remember
    <3>3. prev' = s.ck.status
      <4>1. CASE Ok(s.resp)
        BY <1>2, <2>1, <3>1, <4>1 DEF Believed, Shows, Replays
      <4>2. CASE ~Ok(s.resp)
        BY <1>5, <2>1, <3>1, <4>2 DEF Believed
      <4> QED BY <4>1, <4>2
    <3>4. Sane(ck)' /\ Shows(idem.resp, ck)'
      BY <2>1, <3>1 DEF Sane, Shows, Ok
    <3> QED BY <2>1, <3>1, <3>2, <3>3, <3>4
  <2> QED BY <1>3, <2>3, <2>4 DEF Agreement
<1> QED BY <1>4, <1>5

\* An operation that leaves the checkout and what is stored alone, and whose
\* answer shows the one or is an error, keeps what the fuzzer knows.
LEMMA OthersKeep ==
  ASSUME FuzzTypes, Agreement, plan # << >>, NEW op, op \notin Originals,
         NEW raw, NEW resp, NEW orig,
         Step(op, raw, [resp |-> resp, ck |-> ck, idem |-> idem], prev, orig),
         drops = 0 => /\ Shows(resp, ck)
                      /\ op = "replay_same" => resp.code = orig
                      /\ op = "replay_mismatch" => resp.code = 409
                      /\ op = "replay_reserialized" => resp.code = 409 \/ plant = "reserialized_cached"
                      /\ op = "get" => Ok(resp)
  PROVE  FuzzTypes' /\ Agreement' /\ BlameIsFair'
<1> DEFINE s == [resp |-> resp, ck |-> ck, idem |-> idem]
<1>1. s.resp = resp /\ s.ck = ck /\ s.idem = idem
  OBVIOUS
<1>2. Step(op, raw, s, prev, orig)
  OBVIOUS
<1> HIDE DEF s
<1>3. FuzzTypes'
  BY <1>1, <1>2, StepFacts DEF FuzzTypes
<1>4. CASE drops # 0
  <2>1. drops' # 0
    BY <1>2, <1>4, StepFacts
  <2>2. BlameIsFair'
    BY <1>2, <1>4, StepIsFair
  <2> QED BY <1>3, <2>1, <2>2 DEF Agreement
<1>5. CASE drops = 0
  <2>1. /\ Sane(ck) /\ prev = ck.status /\ last.raw \in Bytes /\ last.code = idem.resp.code
        /\ idem # None /\ idem.raw = last.raw /\ Shows(idem.resp, ck)
    BY <1>5 DEF Agreement
  <2>2. Ok(resp) => resp.status = ck.status
    BY <1>5 DEF Shows
  <2>3. CheckStep(op, s.resp, prev, orig) \subseteq Broken
    <3>1. ck \in Checkout
      BY <1>5 DEF FuzzTypes
    <3>2. op = "get" => resp.status = prev
      BY <1>5, <2>1, <2>2
    <3>3. op \notin {"update", "complete", "cancel"}
      BY DEF Originals
    <3> QED BY <1>1, <1>5, <2>1, <3>1, <3>2, <3>3, FairAnswer
  <2>4. BlameIsFair'
    BY <1>2, <2>3, StepIsFair
  <2>5. ASSUME drops' = 0
        PROVE  /\ Sane(ck)' /\ prev' = ck'.status /\ last'.raw \in Bytes
               /\ last'.code = idem'.resp.code
               /\ idem' # None /\ idem'.raw = last'.raw /\ Shows(idem.resp, ck)'
    <3>1. /\ plant' = plant /\ ck' = ck /\ idem' = idem
          /\ last' = Remember(op, raw, resp) /\ prev' = Believed(op, resp, prev)
      BY <1>1, <1>2, <2>5, StepFacts
    <3>2. last' = last
      BY <3>1 DEF Remember
    <3>3. prev' = ck.status
      BY <2>1, <2>2, <3>1 DEF Believed
    <3>4. Sane(ck)' /\ Shows(idem.resp, ck)'
      BY <2>1, <3>1 DEF Sane, Shows, Ok
    <3> QED BY <2>1, <3>1, <3>2, <3>3, <3>4
  <2> QED BY <1>3, <2>4, <2>5 DEF Agreement
<1> QED BY <1>4, <1>5

-----------------------------------------------------------------------------
(* The actions *)

LEMMA CreateKeeps == ASSUME Inv, Create PROVE Inv'
<1>1. PICK qty \in 1..MaxQty :
        LET raw == [op |-> "create", qty |-> qty, form |-> "compact"] IN
        Step("create", raw, Serve(raw, None, ck), None, 0)
  BY DEF Create
<1> DEFINE raw == [op |-> "create", qty |-> qty, form |-> "compact"]
<1>2. raw \in Bytes /\ raw.op = "create"
  BY FuzzAssumption DEF Bytes, Originals, Forms
<1>3. Step(raw.op, raw, Serve(raw, None, ck), None, 0)
  BY <1>1, <1>2
<1> HIDE DEF raw
<1> QED BY <1>2, <1>3, OriginalKeeps DEF Inv

LEMMA SendKeeps == ASSUME Inv, NEW op \in {"update", "complete", "cancel"}, Send(op) PROVE Inv'
<1>1. PICK qty \in 1..MaxQty :
        LET raw == [op |-> op, qty |-> IF op = "update" THEN qty ELSE 1, form |-> "compact"] IN
        Step(op, raw, Serve(raw, None, ck), prev, 0)
  BY DEF Send
<1> DEFINE raw == [op |-> op, qty |-> IF op = "update" THEN qty ELSE 1, form |-> "compact"]
<1>2. raw \in Bytes /\ raw.op = op
  BY FuzzAssumption DEF Bytes, Originals, Forms
<1>3. Step(raw.op, raw, Serve(raw, None, ck), prev, 0)
  BY <1>1, <1>2
<1>4. drops = 0 => Sane(ck) /\ prev = ck.status
  BY DEF Inv, Agreement, Send, Take
<1> HIDE DEF raw
<1> QED BY <1>2, <1>3, <1>4, OriginalKeeps DEF Inv

LEMMA GetKeeps == ASSUME Inv, Get PROVE Inv'
<1> DEFINE resp == Shown(200, ck)
<1>1. plan # << >> /\ "get" \notin Originals
  BY DEF Get, Take, Originals
<1>2. Step("get", None, [resp |-> resp, ck |-> ck, idem |-> idem], prev, 0)
  BY DEF Get
<1>3. drops = 0 => Shows(resp, ck) /\ Ok(resp)
  BY DEF Inv, FuzzTypes, Shown, Shows, Ok, Response, Checkout
<1> HIDE DEF resp
<1> QED BY <1>1, <1>2, <1>3, OthersKeep DEF Inv

\* What the stub answers to a replay.
LEMMA ReplayFacts ==
  ASSUME Inv, plan # << >>, drops = 0, NEW raw \in Bytes
  PROVE  LET resp == IF SameHash(raw, last.raw) THEN idem.resp ELSE Error(409) IN
         /\ Serve(raw, idem, ck) = [resp |-> resp, ck |-> ck, idem |-> idem]
         /\ Shows(resp, ck)
<1>1. idem # None /\ idem.raw = last.raw /\ Shows(idem.resp, ck)
  BY DEF Inv, Agreement
<1>2. Shows(Error(409), ck)
  BY FailsFacts DEF Fails
<1> QED BY <1>1, <1>2 DEF Serve

LEMMA ReplayKeeps == ASSUME Inv, NEW op \in Replays, Replay(op) PROVE Inv'
<1> DEFINE raw == CASE op = "replay_same" -> last.raw
                    [] op = "replay_mismatch" -> Mismatched(last.raw)
                    [] op = "replay_reserialized" -> Reserialized(last.raw)
           s == Serve(raw, idem, ck)
<1>1. plan # << >> /\ op \notin Originals
  BY DEF Replay, Take, Replays, Originals
<1>2. Step(op, raw, s, prev, last.code)
  BY DEF Replay
<1>3. CASE drops # 0
  <2>1. FuzzTypes
    BY DEF Inv
  <2> HIDE DEF raw, s
  <2>2. drops' # 0 /\ drops' \in Nat
    BY <1>2, <1>3, <2>1, StepFacts
  <2>3. BlameIsFair'
    BY <1>2, <1>3, <2>1, StepIsFair
  <2> QED BY <2>2, <2>3 DEF Inv, Agreement, FuzzTypes
<1>4. CASE drops = 0
  <2>1. last.raw \in Bytes /\ last.code = idem.resp.code
    BY <1>1, <1>4 DEF Inv, Agreement
  <2>2. last.raw.qty + 1 # last.raw.qty /\ last.raw.qty + 1 \in Nat
    BY <2>1 DEF Bytes
  <2>3. Other(last.raw.form) \in Forms /\ Other(last.raw.form) # last.raw.form
    BY <2>1 DEF Bytes, Forms, Other
  <2>4. /\ raw \in Bytes
        /\ op = "replay_same" => raw = last.raw
        /\ op = "replay_mismatch" => raw.qty # last.raw.qty
        /\ op = "replay_reserialized" => raw.form # last.raw.form
    <3>1. CASE op = "replay_same"
      BY <2>1, <3>1
    <3>2. CASE op = "replay_mismatch"
      BY <2>1, <2>2, <3>2 DEF Mismatched, Bytes
    <3>3. CASE op = "replay_reserialized"
      BY <2>1, <2>3, <3>3 DEF Reserialized, Bytes
    <3> QED BY <3>1, <3>2, <3>3 DEF Replays
  <2> HIDE DEF raw
  <2> DEFINE resp == IF SameHash(raw, last.raw) THEN idem.resp ELSE Error(409)
  <2>5. s = [resp |-> resp, ck |-> ck, idem |-> idem] /\ Shows(resp, ck)
    BY <1>1, <1>4, <2>4, ReplayFacts
  <2>6. op = "replay_same" => resp.code = last.code
    BY <2>1, <2>4 DEF SameHash
  <2>7. op = "replay_mismatch" => resp.code = 409
    BY <2>4 DEF SameHash, Error
  <2>8. op = "replay_reserialized" => resp.code = 409 \/ plant = "reserialized_cached"
    BY <2>4 DEF SameHash, Error
  <2>9. op # "get"
    BY DEF Replays
  <2>10. Step(op, raw, [resp |-> resp, ck |-> ck, idem |-> idem], prev, last.code)
    BY <1>2, <2>5
  <2> HIDE DEF resp, s
  <2> QED BY <1>1, <2>5, <2>6, <2>7, <2>8, <2>9, <2>10, OthersKeep DEF Inv
<1> QED BY <1>3, <1>4

LEMMA IdleKeeps ==
  ASSUME Inv, SkipMismatch \/ Finished \/ UNCHANGED vars
  PROVE  Inv'
<1>1. CASE SkipMismatch
  <2>1. plan # << >> /\ UNCHANGED <<plant, ck, idem, prev, last, drops>>
        /\ dropped' = FALSE /\ flagged' = {}
    BY <1>1 DEF SkipMismatch, Take, stub
  <2> QED BY <2>1 DEF Inv, FuzzTypes, Agreement, BlameIsFair, Sane, Shows, Ok
<1>2. CASE UNCHANGED vars
  BY <1>2 DEF vars, stub, Inv, FuzzTypes, Agreement, BlameIsFair, Broken, Sane, Shows, Ok
<1> QED BY <1>1, <1>2 DEF Finished

-----------------------------------------------------------------------------

\* Whatever is sent in whatever order, for sequences of any length and number,
\* the fuzzer blames the stub for nothing but the defect planted in it, and an
\* answer that never came for a transport failure only.
THEOREM Fair == Spec => []BlameIsFair
<1>1. Init => Inv
  BY DEF Init, Inv, FuzzTypes, Agreement, BlameIsFair, Checkout, Status, TERMINAL
<1>2. Inv /\ [Next]_vars => Inv'
  BY CreateKeeps, SendKeeps, GetKeeps, ReplayKeeps, IdleKeeps DEF Next
<1>3. Inv => BlameIsFair
  BY DEF Inv
<1> QED BY <1>1, <1>2, <1>3, PTL DEF Spec

-----------------------------------------------------------------------------
(* What the scripts find.  The first one, PROBE, is enough for the three    *)
(* defects that do not hang on a quantity: a re-serialized update answered  *)
(* from the cache, an order in progress, a completed checkout that leaves   *)
(* its status.                                                              *)

Findable == {"in_progress_order", "terminal_left", "reserialized_cached"}

Found == violations \cap Broken # {}

\* The first sequence is about to take step n of PROBE.
AtProbe(n) ==
    /\ sequences = 1
    /\ plan \in Seq(SUBSET Ops) /\ Len(plan) = 10 - n
    /\ \A i \in 1..10 - n : plan[i] = {PROBE[n - 1 + i]}

\* What is so of the checkout then, as long as nothing has been found.
Prepared(n) ==
    /\ n <= 6 => ck.status = "ready_for_complete"
    /\ n = 2 => idem.resp.code = 200
    /\ n \in 3..6 => plant # "reserialized_cached"
    /\ n >= 7 => plant = "terminal_left" /\ ck.status = "completed"

Hunt ==
    drops = 0 /\ mode = "enforce" /\ plant \in Findable =>
        \/ sequences = 0 /\ plan = << >>
        \/ Found
        \/ \E n \in 1..8 : AtProbe(n) /\ Prepared(n)

\* What is found stays found, and a step adds what it flags.
LEMMA StepAdds ==
  ASSUME NEW op, NEW raw, NEW s, NEW before, NEW orig, Step(op, raw, s, before, orig)
  PROVE  /\ violations' = violations \cup flagged' /\ mode' = mode
         /\ Broken' = Broken /\ (Found => Found')
<1>1. violations' = violations \cup flagged' /\ UNCHANGED <<plant, mode>>
  BY DEF Step
<1>2. Broken' = Broken
  BY <1>1 DEF Broken
<1> QED BY <1>1, <1>2 DEF Found

LEMMA Operations ==
  /\ \A i \in 1..9 : PROBE[i] \in Ops
  /\ PROBE[1] = "update" /\ PROBE[2] = "replay_reserialized" /\ PROBE[3] = "replay_same"
  /\ PROBE[4] = "replay_mismatch" /\ PROBE[5] = "get" /\ PROBE[6] = "complete"
  /\ PROBE[7] = "get" /\ PROBE[8] = "update"
<1>1. \A i \in 1..9 : i \in {1, 2, 3, 4, 5, 6, 7, 8, 9}
  OBVIOUS
<1> QED BY <1>1 DEF PROBE, Ops, Originals, Replays

\* A step of the script takes the operation that is due.
LEMMA ProbeTakes ==
  ASSUME NEW n \in 1..8, AtProbe(n), NEW op, Take(op)
  PROVE  op = PROBE[n] /\ AtProbe(n + 1)'
<1>1. /\ plan \in Seq(SUBSET Ops) /\ Len(plan) = 10 - n /\ plan # << >>
      /\ op \in Head(plan) /\ plan' = Tail(plan) /\ sequences' = 1
  BY DEF AtProbe, Take
<1>2. Head(plan) = plan[1] /\ plan[1] = {PROBE[n]}
  BY <1>1 DEF AtProbe
<1>3. /\ plan' \in Seq(SUBSET Ops) /\ Len(plan') = 10 - (n + 1)
      /\ \A i \in 1..10 - (n + 1) : plan'[i] = plan[i + 1]
  BY <1>1
<1>4. ASSUME NEW i \in 1..10 - (n + 1) PROVE plan'[i] = {PROBE[n + 1 - 1 + i]}
  <2>1. i + 1 \in 1..10 - n /\ n - 1 + (i + 1) = n + 1 - 1 + i
    OBVIOUS
  <2> QED BY <1>3, <2>1 DEF AtProbe
<1> QED BY <1>1, <1>2, <1>3, <1>4 DEF AtProbe

\* The sequence of the script begins.
LEMMA CreateHunts == ASSUME Inv, Hunt, Create PROVE Hunt'
<1>1. PICK qty \in 1..MaxQty :
        LET raw == [op |-> "create", qty |-> qty, form |-> "compact"] IN
        Step("create", raw, Serve(raw, None, ck), None, 0)
  BY DEF Create
<1> DEFINE raw == [op |-> "create", qty |-> qty, form |-> "compact"]
           s == Serve(raw, None, ck)
<1>2. Step("create", raw, s, None, 0) /\ raw.op = "create"
  BY <1>1
<1>3. s.ck.status = "ready_for_complete"
  BY <1>2 DEF Serve, Handle, Becomes
<1> HIDE DEF raw, s
<1>4. SUFFICES ASSUME drops' = 0, mode' = "enforce", plant' \in Findable
      PROVE  \/ Found' \/ \E n \in 1..8 : AtProbe(n)' /\ Prepared(n)'
  BY DEF Hunt
<1>5. drops = 0 /\ plant' = plant /\ mode' = mode /\ ck' = s.ck /\ (Found => Found')
  BY <1>2, <1>4, StepFacts, StepAdds DEF Inv
<1>6. ~dropped'
  BY <1>2, <1>4, StepFacts DEF Inv
<1>7. plan = << >> /\ sequences' = sequences + 1
      /\ \E p \in Plan(sequences + 1) : plan' = IF dropped' THEN << >> ELSE p
  BY DEF Create
<1>8. CASE sequences = 0
  <2>1. sequences' = 1 /\ plan' = Script(PROBE)
    BY <1>6, <1>7, <1>8 DEF Plan
  <2>2. DOMAIN PROBE = 1..9
    BY DEF PROBE
  <2>3. Script(PROBE) = [i \in 1..9 |-> {PROBE[i]}]
    BY <2>2 DEF Script
  <2>4. \A i \in 1..9 : {PROBE[i]} \in SUBSET Ops
    BY Operations
  <2>5. plan' \in Seq(SUBSET Ops) /\ Len(plan') = 9
    BY <2>1, <2>3, <2>4
  <2>6. \A i \in 1..9 : plan'[i] = {PROBE[1 - 1 + i]}
    BY <2>1, <2>3
  <2>7. AtProbe(1)'
    BY <2>1, <2>5, <2>6 DEF AtProbe
  <2>8. Prepared(1)'
    BY <1>3, <1>5 DEF Prepared
  <2> QED BY <2>7, <2>8
<1>9. CASE sequences # 0
  <2>1. \A n \in 1..8 : ~AtProbe(n)
    BY <1>7 DEF AtProbe
  <2> QED BY <1>4, <1>5, <1>9, <2>1 DEF Hunt
<1> QED BY <1>8, <1>9

\* What an update or a complete is answered, step by step.
LEMMA SentHunts ==
  ASSUME Inv, drops = 0, plant \in Findable, NEW n \in {1, 6, 8}, AtProbe(n), Prepared(n),
         NEW op \in {"update", "complete", "cancel"}, Send(op), drops' = 0
  PROVE  (n = 8 \/ (n = 6 /\ plant # "terminal_left") => flagged' \cap Broken # {})
         /\ (n = 1 => ck'.status = "ready_for_complete" /\ idem'.resp.code = 200)
         /\ (n = 6 /\ plant = "terminal_left" => ck'.status = "completed")
<1>1. PICK qty \in 1..MaxQty :
        LET raw == [op |-> op, qty |-> IF op = "update" THEN qty ELSE 1, form |-> "compact"] IN
        Step(op, raw, Serve(raw, None, ck), prev, 0)
  BY DEF Send
<1> DEFINE raw == [op |-> op, qty |-> IF op = "update" THEN qty ELSE 1, form |-> "compact"]
           s == Serve(raw, None, ck)
           h == Handle(raw, ck)
<1>2. Step(op, raw, s, prev, 0) /\ raw.op = op /\ s.resp = h.resp /\ s.ck = h.ck
      /\ s.idem.resp = h.resp
  BY <1>1 DEF Serve
<1>3. op = PROBE[n] /\ plan # << >> /\ prev = ck.status
  BY ProbeTakes DEF Send, Take, Inv, Agreement
<1>4. raw.op = (IF n = 6 THEN "complete" ELSE "update") /\ raw.op = op
  BY <1>2, <1>3, Operations
<1> HIDE DEF raw, s, h
<1>5. ck' = s.ck /\ idem' = s.idem /\ flagged' = CheckStep(op, s.resp, prev, 0)
  BY <1>2, StepFacts DEF Inv
<1>6. CASE n = 1
  <2>1. h = Becomes(200, [status |-> "ready_for_complete", order |-> FALSE])
    BY <1>4, <1>6 DEF Prepared, Handle, TERMINAL, Findable, h
  <2> QED BY <1>2, <1>5, <1>6, <2>1 DEF Becomes, Shown
<1>7. CASE n = 6
  <2>1. h = Becomes(200, [status |-> IF plant = "in_progress_order" THEN "complete_in_progress"
                                     ELSE "completed", order |-> TRUE])
    BY <1>4, <1>7 DEF Prepared, Handle, TERMINAL, h
  <2>2. CASE plant = "terminal_left"
    BY <1>2, <1>5, <1>7, <2>1, <2>2 DEF Becomes, Shown
  <2>3. CASE plant # "terminal_left"
    <3>1. plant = "in_progress_order"
      BY <1>7, <2>3 DEF Findable, Prepared
    <3>2. s.resp.code = 200 /\ I3(s.resp)
      BY <1>2, <2>1, <3>1 DEF Becomes, Shown, I3, Ok
    <3>3. "I3" \in flagged' /\ "I3" \in Broken
      BY <1>5, <3>1, <3>2 DEF CheckStep, Failing, Broken
    <3> QED BY <1>7, <2>3, <3>3
  <2> QED BY <2>2, <2>3
<1>8. CASE n = 8
  <2>1. plant = "terminal_left" /\ ck.status = "completed"
    BY <1>8 DEF Prepared
  <2>2. h = Becomes(200, [status |-> "incomplete", order |-> FALSE])
    BY <1>4, <1>8, <2>1 DEF Handle, TERMINAL, h
  <2>3. s.resp.code = 200 /\ I9(op, s.resp, prev, 0)
    BY <1>2, <1>3, <1>4, <1>8, <2>1, <2>2 DEF Becomes, Shown, I9, Ok, TERMINAL
  <2>4. "I9" \in flagged' /\ "I9" \in Broken
    BY <1>5, <2>1, <2>3 DEF CheckStep, Failing, Broken
  <2> QED BY <1>8, <2>4
<1> QED BY <1>6, <1>7, <1>8

LEMMA SendHunts ==
  ASSUME Inv, Hunt, NEW op \in {"update", "complete", "cancel"}, Send(op) PROVE Hunt'
<1>1. PICK raw, s : Step(op, raw, s, prev, 0)
  BY DEF Send
<1>2. SUFFICES ASSUME drops' = 0, mode' = "enforce", plant' \in Findable
      PROVE  \/ Found' \/ \E n \in 1..8 : AtProbe(n)' /\ Prepared(n)'
  BY DEF Hunt
<1>3. /\ drops = 0 /\ plant' = plant /\ mode' = mode /\ (Found => Found')
      /\ violations' = violations \cup flagged' /\ Broken' = Broken
  BY <1>1, <1>2, StepFacts, StepAdds DEF Inv
<1>4. Take(op) /\ plan # << >>
  BY DEF Send, Take
<1>5. CASE ~Found
  <2>1. PICK n \in 1..8 : AtProbe(n) /\ Prepared(n)
    BY <1>2, <1>3, <1>4, <1>5 DEF Hunt
  <2>2. op = PROBE[n] /\ AtProbe(n + 1)'
    BY <1>4, <2>1, ProbeTakes
  <2>3. n \in {1, 6, 8}
    <3>1. n \in {1, 2, 3, 4, 5, 6, 7, 8}
      OBVIOUS
    <3> QED BY <2>2, <3>1, Operations
  <2>4. CASE n = 1
    BY <1>2, <1>3, <2>1, <2>2, <2>4, SentHunts DEF Prepared
  <2>5. CASE n = 6 /\ plant = "terminal_left"
    BY <1>2, <1>3, <2>1, <2>2, <2>5, SentHunts DEF Prepared
  <2>6. CASE n = 8 \/ (n = 6 /\ plant # "terminal_left")
    BY <1>2, <1>3, <2>1, <2>3, <2>6, SentHunts DEF Found
  <2> QED BY <2>3, <2>4, <2>5, <2>6
<1> QED BY <1>3, <1>5

\* Steps that leave the checkout and what is stored as they were: the script
\* goes on, or the re-serialized update has been found.
LEMMA PassHunts ==
  ASSUME Hunt, NEW op, Take(op), drops' = 0, drops = 0, UNCHANGED <<plant, mode, ck>>,
         Found => Found',
         op \notin {"update", "complete", "cancel"},
         op = "replay_reserialized" /\ plant = "reserialized_cached" /\ mode = "enforce"
            /\ idem.resp.code = 200 => Found'
  PROVE  Hunt'
<1>1. SUFFICES ASSUME mode = "enforce", plant \in Findable, ~Found
      PROVE  \/ Found' \/ \E n \in 1..8 : AtProbe(n)' /\ Prepared(n)'
  BY DEF Hunt
<1>2. PICK n \in 1..8 : AtProbe(n) /\ Prepared(n)
  BY <1>1 DEF Hunt, Take
<1>3. op = PROBE[n] /\ AtProbe(n + 1)'
  BY <1>2, ProbeTakes
<1>4. n \in {2, 3, 4, 5, 7}
  <2>1. n \in {1, 2, 3, 4, 5, 6, 7, 8}
    OBVIOUS
  <2> QED BY <1>3, <2>1, Operations
<1>5. CASE n = 2 /\ plant = "reserialized_cached"
  BY <1>1, <1>2, <1>3, <1>5, Operations DEF Prepared
<1>6. CASE ~(n = 2 /\ plant = "reserialized_cached")
  BY <1>2, <1>3, <1>4, <1>6 DEF Prepared
<1> QED BY <1>5, <1>6

LEMMA GetHunts == ASSUME Inv, Hunt, Get PROVE Hunt'
<1> DEFINE s == [resp |-> Shown(200, ck), ck |-> ck, idem |-> idem]
<1>1. Step("get", None, s, prev, 0) /\ Take("get") /\ s.ck = ck
  BY DEF Get
<1> HIDE DEF s
<1>2. SUFFICES ASSUME drops' = 0 PROVE Hunt'
  BY DEF Hunt
<1>3. drops = 0 /\ UNCHANGED <<plant, mode, ck>> /\ (Found => Found')
  BY <1>1, <1>2, StepFacts, StepAdds DEF Inv
<1> QED BY <1>1, <1>2, <1>3, PassHunts

LEMMA ReplayHunts == ASSUME Inv, Hunt, NEW op \in Replays, Replay(op) PROVE Hunt'
<1> DEFINE raw == CASE op = "replay_same" -> last.raw
                    [] op = "replay_mismatch" -> Mismatched(last.raw)
                    [] op = "replay_reserialized" -> Reserialized(last.raw)
           s == Serve(raw, idem, ck)
<1>1. Step(op, raw, s, prev, last.code) /\ Take(op)
  BY DEF Replay
<1>2. plan # << >> /\ op \notin {"update", "complete", "cancel"} /\ op # "get"
  BY <1>1 DEF Take, Replays
<1>3. SUFFICES ASSUME drops' = 0 PROVE Hunt'
  BY DEF Hunt
<1>4. drops = 0
  BY <1>1, <1>3, StepFacts DEF Inv
<1>5. /\ idem # None /\ idem.raw = last.raw /\ last.raw \in Bytes
  BY <1>2, <1>4 DEF Inv, Agreement
<1>6. s.ck = ck /\ s.resp = IF SameHash(raw, idem.raw) THEN idem.resp ELSE Error(409)
  BY <1>5 DEF Serve
<1>7. op = "replay_reserialized" =>
        raw.op = last.raw.op /\ raw.qty = last.raw.qty
  BY <1>5 DEF Reserialized, Bytes
<1> HIDE DEF raw, s
<1>8. /\ UNCHANGED <<plant, mode, ck>> /\ (Found => Found')
      /\ violations' = violations \cup flagged' /\ Broken' = Broken
      /\ flagged' = CheckStep(op, s.resp, prev, last.code)
  BY <1>1, <1>3, <1>6, StepFacts, StepAdds DEF Inv
<1>9. ASSUME op = "replay_reserialized", plant = "reserialized_cached", mode = "enforce",
             idem.resp.code = 200
      PROVE  Found'
  <2>1. s.resp = idem.resp
    BY <1>5, <1>6, <1>7, <1>9 DEF SameHash
  <2>2. I10(op, s.resp) /\ Counted(op, s.resp) /\ s.resp.code # 0
    BY <1>9, <2>1 DEF I10, Counted
  <2>3. "I10" \in flagged' /\ "I10" \in Broken
    BY <1>8, <1>9, <2>2 DEF CheckStep, Failing, Broken
  <2> QED BY <1>8, <2>3 DEF Found
<1> QED BY <1>1, <1>2, <1>3, <1>4, <1>8, <1>9, PassHunts

LEMMA SkipHunts == ASSUME Inv, Hunt, SkipMismatch PROVE Hunt'
<1>1. Take("replay_mismatch") /\ UNCHANGED <<plant, ck, mode, violations, drops>>
  BY DEF SkipMismatch, stub
<1>2. Found => Found'
  BY <1>1 DEF Found, Broken
<1>3. SUFFICES ASSUME drops' = 0 PROVE Hunt'
  BY DEF Hunt
<1> QED BY <1>1, <1>2, <1>3, PassHunts

\* Whatever was sent, after the three scripts the fuzzer has found the planted
\* defect, if nothing was lost and the defect is not the one that hangs on a
\* quantity.
THEOREM ScriptsFind == Spec => []ScriptsFindDefects
<1> DEFINE Planted == plant \in Plants \cup {None}
<1>1. Init => Inv /\ Hunt /\ Planted
  BY DEF Init, Inv, FuzzTypes, Agreement, BlameIsFair, Checkout, Status, TERMINAL, Hunt
<1>2. Inv /\ [Next]_vars => Inv'
  BY CreateKeeps, SendKeeps, GetKeeps, ReplayKeeps, IdleKeeps DEF Next
<1>3. Inv /\ Hunt /\ UNCHANGED vars => Hunt'
  BY DEF vars, stub, Hunt, Found, Broken, AtProbe, Prepared
<1>4. Inv /\ Hunt /\ [Next]_vars => Hunt'
  BY <1>3, CreateHunts, SendHunts, GetHunts, ReplayHunts, SkipHunts DEF Next, Finished
<1>5. Planted /\ [Next]_vars => Planted'
  <2>1. ASSUME NEW op, NEW raw, NEW s, NEW before, NEW orig,
               Step(op, raw, s, before, orig)
        PROVE  plant' = plant
    BY <2>1 DEF Step
  <2>2. [Next]_vars => plant' = plant
    BY <2>1 DEF Next, vars, stub, Create, Send, Get, Replay, SkipMismatch, Finished
  <2> QED BY <2>2
<1>6. Inv /\ Hunt /\ Planted => ScriptsFindDefects
  <2> SUFFICES ASSUME Hunt, Planted, sequences >= 3, plan = << >>, drops = 0,
                      plant \notin {None, "500_on_quantity"}, mode = "enforce"
               PROVE  violations \cap Broken # {}
    BY DEF ScriptsFindDefects
  <2>1. plant \in Findable
    BY DEF Plants, Findable
  <2>2. ~(sequences = 0)
    OBVIOUS
  <2>3. ASSUME NEW n \in 1..8 PROVE ~AtProbe(n)
    BY DEF AtProbe
  <2> QED BY <2>1, <2>2, <2>3 DEF Hunt, Found
<1> QED BY <1>1, <1>2, <1>4, <1>5, <1>6, PTL DEF Spec
=============================================================================
