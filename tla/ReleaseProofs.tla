--------------------------- MODULE ReleaseProofs ---------------------------
(***************************************************************************)
(* What is on the site and on the package index has been proven, the site  *)
(* follows main, and evidence stays, for every history of commits, CI      *)
(* runs, deployments and releases.                                         *)
(***************************************************************************)
EXTENDS Release, SequenceTheorems, TLAPS

Sound == ReleaseTypeOK /\ RunsAreHonest

\* What RunsAreHonest says of one run.
Honest(r) ==
    IsSuiteRun(r) =>
        /\ Green(r) => r.check = "success"
        /\ r.check = "success" /\ r.event # "pull_request" => r.passed

\* The runs of every commit are well formed and honest after a step.
RunsGood ==
    /\ runs' \in Seq(Seq(Run))
    /\ \A s \in DOMAIN runs' : \A i \in DOMAIN runs'[s] : Honest(runs'[s][i])

\* A run that has passed is kept, wherever it moves in the list.
RunsKept ==
    \A s \in Shas :
        /\ s \in DOMAIN runs'
        /\ \A i \in DOMAIN runs[s] : runs[s][i].passed =>
               \E j \in DOMAIN runs'[s] : runs'[s][j].passed

\* What EvidenceStays says of a step.
Evidence(s) ==
    Proven(s) =>
        \/ Proven(s)' \/ Len(runs'[s]) > RunsPage
        \/ \E i \in DOMAIN runs[s] : Rerun(s, i)
EvidenceKept == \A s \in Shas : Evidence(s)

-----------------------------------------------------------------------------
(* Lists of runs *)

\* The runs of a commit that a step leaves alone prove what they did.
LEMMA SameEvidence ==
  ASSUME NEW s, runs'[s] = runs[s] PROVE Evidence(s)
BY DEF Evidence, Proven, CheckGreen, SuiteRan

\* A list of queued runs is a list of honest runs.
LEMMA QueuedRuns ==
  ASSUME NEW workflow \in Workflows, NEW event \in Events
  PROVE  Queued(workflow, event) \in Run /\ Honest(Queued(workflow, event))
BY DEF Queued, Run, Green, Events, Results, Honest

LEMMA PushedRuns ==
  ASSUME NEW c
  PROVE  Pushed(c) \in Seq(Run) /\ \A i \in DOMAIN Pushed(c) : Honest(Pushed(c)[i])
<1>1. Queued(SUITE_WORKFLOW, "push") \in Run /\ Honest(Queued(SUITE_WORKFLOW, "push"))
  BY QueuedRuns DEF Events, Workflows
<1> QED BY <1>1 DEF Pushed

\* Fresh runs put before those of a commit.
LEMMA Prepended ==
  ASSUME Sound, NEW s \in Shas, NEW fresh \in Seq(Run),
         \A i \in DOMAIN fresh : Honest(fresh[i]),
         runs' = [runs EXCEPT ![s] = fresh \o @]
  PROVE  RunsGood /\ RunsKept /\ EvidenceKept /\ Len(runs') = Len(runs)
<1> DEFINE old == runs[s]  new == fresh \o old
<1>1. runs \in Seq(Seq(Run)) /\ DOMAIN runs = Shas /\ old \in Seq(Run)
  BY DEF Sound, ReleaseTypeOK, Shas
<1>2. /\ new \in Seq(Run) /\ Len(new) = Len(fresh) + Len(old)
      /\ \A i \in 1..Len(fresh) + Len(old) :
            new[i] = IF i <= Len(fresh) THEN fresh[i] ELSE old[i - Len(fresh)]
  BY <1>1, ConcatProperties
<1>3. DOMAIN fresh = 1..Len(fresh) /\ DOMAIN old = 1..Len(old) /\ DOMAIN new = 1..Len(new)
      /\ Len(fresh) \in Nat /\ Len(old) \in Nat
  BY <1>1, <1>2
<1>4. \A i \in DOMAIN new : Honest(new[i]) \/ \E j \in DOMAIN old : new[i] = old[j]
  BY <1>2, <1>3
<1>5. \A j \in DOMAIN old : j + Len(fresh) \in DOMAIN new /\ new[j + Len(fresh)] = old[j]
  BY <1>2, <1>3
<1>6. runs' = [runs EXCEPT ![s] = new]
  OBVIOUS
<1>7. runs' \in Seq(Seq(Run)) /\ Len(runs') = Len(runs)
  BY <1>1, <1>2, <1>6
<1>8. \A t \in DOMAIN runs' : t \in Shas /\ runs'[t] = IF t = s THEN new ELSE runs[t]
  BY <1>1, <1>6
<1>9. DOMAIN runs' = Shas
  BY <1>1, <1>6
<1> HIDE DEF new, old
<1>10. RunsGood
  BY <1>1, <1>4, <1>7, <1>8 DEF RunsGood, Sound, RunsAreHonest, Honest, old
<1>11. runs'[s] = new /\ runs[s] = old /\ \A t \in Shas \ {s} : runs'[t] = runs[t]
  BY <1>8, <1>9 DEF old
<1>12. RunsKept
  <2> SUFFICES ASSUME NEW t \in Shas, NEW i \in DOMAIN runs[t], runs[t][i].passed
               PROVE  \E j \in DOMAIN runs'[t] : runs'[t][j].passed
    BY <1>9 DEF RunsKept
  <2>1. CASE t = s
    <3>1. i \in DOMAIN old /\ old[i].passed
      BY <1>11, <2>1
    <3>2. i + Len(fresh) \in DOMAIN new /\ new[i + Len(fresh)] = old[i]
      BY <1>5, <3>1
    <3> QED BY <1>11, <2>1, <3>1, <3>2
  <2>2. CASE t # s
    BY <1>11, <2>2
  <2> QED BY <2>1, <2>2
<1>13. Evidence(s)
  <2>1. runs'[s] = new /\ runs[s] = old
    BY <1>11
  <2> SUFFICES ASSUME Proven(s), Len(new) <= RunsPage PROVE Proven(s)'
    <3>1. Len(new) \in Nat /\ RunsPage \in Nat
      BY <1>2, ReleaseAssumption
    <3> QED BY <2>1, <3>1 DEF Evidence
  <2>2. CheckGreen(s)'
    BY <1>5, <2>1 DEF Proven, CheckGreen
  <2>3. SuiteRan(s)'
    <3>1. PICK j \in DOMAIN old :
            /\ IsSuiteRun(old[j]) /\ old[j].event # "pull_request" /\ Green(old[j])
      BY <2>1 DEF Proven, SuiteRan
    <3>2. j + Len(fresh) <= RunsPage
      BY <1>2, <1>3, ReleaseAssumption
    <3> QED BY <1>5, <2>1, <3>1, <3>2 DEF SuiteRan
  <2> QED BY <2>2, <2>3 DEF Proven
<1>14. \A t \in Shas \ {s} : Evidence(t)
  BY <1>11, SameEvidence
<1> QED BY <1>7, <1>10, <1>12, <1>13, <1>14 DEF EvidenceKept

\* A commit appended with fresh runs.
LEMMA Appended ==
  ASSUME Sound, NEW fresh \in Seq(Run), \A i \in DOMAIN fresh : Honest(fresh[i]),
         runs' = Append(runs, fresh)
  PROVE  RunsGood /\ RunsKept /\ EvidenceKept /\ Len(runs') = Len(runs) + 1
<1>1. runs \in Seq(Seq(Run)) /\ DOMAIN runs = Shas
  BY DEF Sound, ReleaseTypeOK, Shas
<1>2. /\ runs' \in Seq(Seq(Run)) /\ Len(runs') = Len(runs) + 1
      /\ \A t \in DOMAIN runs' : (t \in Shas /\ runs'[t] = runs[t]) \/ runs'[t] = fresh
      /\ \A t \in Shas : t \in DOMAIN runs' /\ runs'[t] = runs[t]
  BY <1>1
<1>3. RunsGood
  BY <1>1, <1>2 DEF RunsGood, Sound, RunsAreHonest, Honest
<1>4. RunsKept
  BY <1>1, <1>2 DEF RunsKept
<1>5. EvidenceKept
  BY <1>2, SameEvidence DEF EvidenceKept
<1> QED BY <1>2, <1>3, <1>4, <1>5

\* One run becomes another.
LEMMA Replaced ==
  ASSUME Sound, NEW s \in Shas, NEW i \in DOMAIN runs[s], NEW q \in Run, Honest(q),
         runs[s][i].passed => q.passed,
         runs' = [runs EXCEPT ![s] = [runs[s] EXCEPT ![i] = q]]
  PROVE  /\ RunsGood /\ RunsKept /\ Len(runs') = Len(runs)
         /\ \A t \in Shas \ {s} : runs'[t] = runs[t]
         /\ DOMAIN runs'[s] = DOMAIN runs[s] /\ runs'[s][i] = q
         /\ \A j \in DOMAIN runs[s] \ {i} : runs'[s][j] = runs[s][j]
<1>1. runs \in Seq(Seq(Run)) /\ DOMAIN runs = Shas /\ runs[s] \in Seq(Run)
  BY DEF Sound, ReleaseTypeOK, Shas
<1>2. /\ runs' \in Seq(Seq(Run)) /\ Len(runs') = Len(runs) /\ DOMAIN runs' = Shas
      /\ \A t \in Shas \ {s} : runs'[t] = runs[t]
      /\ runs'[s] = [runs[s] EXCEPT ![i] = q]
  BY <1>1
<1>3. /\ DOMAIN runs'[s] = DOMAIN runs[s] /\ runs'[s][i] = q
      /\ \A j \in DOMAIN runs[s] \ {i} : runs'[s][j] = runs[s][j]
  BY <1>1, <1>2
<1>4. RunsGood
  <2> SUFFICES ASSUME NEW t \in Shas, NEW j \in DOMAIN runs'[t] PROVE Honest(runs'[t][j])
    BY <1>2 DEF RunsGood
  <2>1. CASE t = s /\ j = i
    BY <1>3, <2>1
  <2>2. CASE ~(t = s /\ j = i)
    <3>1. j \in DOMAIN runs[t] /\ runs'[t][j] = runs[t][j]
      BY <1>2, <1>3, <2>2
    <3> QED BY <3>1 DEF Sound, RunsAreHonest, Honest
  <2> QED BY <2>1, <2>2
<1>5. RunsKept
  <2> SUFFICES ASSUME NEW t \in Shas, NEW j \in DOMAIN runs[t], runs[t][j].passed
               PROVE  j \in DOMAIN runs'[t] /\ runs'[t][j].passed
    BY <1>2 DEF RunsKept
  <2>1. CASE t = s /\ j = i
    BY <1>3, <2>1
  <2>2. CASE ~(t = s /\ j = i)
    BY <1>2, <1>3, <2>2
  <2> QED BY <2>1, <2>2
<1> QED BY <1>2, <1>3, <1>4, <1>5

\* A run that ends takes nothing back.
LEMMA Ended ==
  ASSUME Sound, NEW s \in Shas, NEW i \in DOMAIN runs[s], NEW q \in Run, Honest(q),
         runs[s][i].passed => q.passed,
         runs' = [runs EXCEPT ![s] = [runs[s] EXCEPT ![i] = q]],
         q.workflow = runs[s][i].workflow, q.event = runs[s][i].event,
         runs[s][i].check = "success" => q.check = "success",
         Green(runs[s][i]) => Green(q)
  PROVE  RunsGood /\ RunsKept /\ EvidenceKept /\ Len(runs') = Len(runs)
<1>1. /\ RunsGood /\ RunsKept /\ Len(runs') = Len(runs)
      /\ \A t \in Shas \ {s} : runs'[t] = runs[t]
      /\ DOMAIN runs'[s] = DOMAIN runs[s] /\ runs'[s][i] = q
      /\ \A j \in DOMAIN runs[s] \ {i} : runs'[s][j] = runs[s][j]
  BY Replaced
<1>2. \A j \in DOMAIN runs[s] :
        /\ runs'[s][j].workflow = runs[s][j].workflow /\ runs'[s][j].event = runs[s][j].event
        /\ runs[s][j].check = "success" => runs'[s][j].check = "success"
        /\ Green(runs[s][j]) => Green(runs'[s][j])
  BY <1>1
<1>3. CheckGreen(s) => CheckGreen(s)'
  BY <1>1, <1>2 DEF CheckGreen, IsSuiteRun
<1>4. SuiteRan(s) => SuiteRan(s)'
  BY <1>1, <1>2 DEF SuiteRan, IsSuiteRun
<1>5. Evidence(s)
  BY <1>3, <1>4 DEF Evidence, Proven
<1> QED BY <1>1, <1>5, SameEvidence DEF EvidenceKept

-----------------------------------------------------------------------------
(* Steps of the repository: commits, runs and tags *)

\* The tip of main is a commit.
LEMMA TipIsCommit == ReleaseTypeOK => Tip \in Shas /\ Merged \subseteq Shas /\ Tip \in Merged
BY DEF ReleaseTypeOK, Tip, Merged, Shas

LEMMA ChangedIsCommit ==
  ASSUME ReleaseTypeOK, NEW p \in Shas, NEW change \in Change
  PROVE  Changed(p, change) \in Commit
<1>1. commits[p] \in Commit /\ p \in Nat
  BY DEF ReleaseTypeOK, Shas
<1> QED BY <1>1 DEF Changed, Commit, Change, Kinds, Versions

\* Main goes on from where it was.
MainKept == \A i \in DOMAIN main : i \in DOMAIN main' /\ main'[i] = main[i]

\* What such a step does: commits, runs, main and tags stay well formed and only
\* grow, and nothing is deployed or published.
Grows ==
    /\ RunsGood /\ RunsKept /\ Len(runs') = Len(commits') /\ Shas \subseteq Shas'
    /\ agenda' \in Agenda /\ commits' \in Seq(Commit)
    /\ main' \in Seq(Shas') /\ Len(main') > 0 /\ MainKept
    /\ tags \subseteq tags' /\ tags' \subseteq [version : Versions, sha : Shas']
    /\ UNCHANGED <<tree, deploy, live, published>>

\* Runs alone.
LEMMA OnlyRuns ==
  ASSUME Sound, RunsGood, RunsKept, Len(runs') = Len(runs), UNCHANGED <<repo, owner, index>>
  PROVE  Grows
<1>1. /\ UNCHANGED <<agenda, commits, main, tags, tree, deploy, live, published>>
      /\ Shas' = Shas
  BY DEF repo, owner, index, Shas
<1> QED BY <1>1 DEF Grows, MainKept, Sound, ReleaseTypeOK

\* A run that is started.
LEMMA Started ==
  ASSUME Sound, NEW s \in Shas, NEW workflow \in Workflows, NEW event \in Events,
         runs' = Start(s, workflow, event)
  PROVE  RunsGood /\ RunsKept /\ EvidenceKept /\ Len(runs') = Len(runs)
<1> DEFINE q == Queued(workflow, event)
<1>1. q \in Run /\ Honest(q)
  BY QueuedRuns
<1> HIDE DEF q
<1>2. <<q>> \in Seq(Run) /\ \A i \in DOMAIN <<q>> : Honest(<<q>>[i])
  BY <1>1
<1>3. runs' = [runs EXCEPT ![s] = <<q>> \o @]
  BY DEF Start, q
<1> QED BY <1>2, <1>3, Prepended

LEMMA RunFields ==
  ASSUME Sound, NEW s \in Shas, NEW i \in DOMAIN runs[s]
  PROVE  runs \in Seq(Seq(Run)) /\ runs[s] \in Seq(Run) /\ runs[s][i] \in Run
         /\ Honest(runs[s][i])
BY DEF Sound, ReleaseTypeOK, RunsAreHonest, Honest, Shas

LEMMA EndCheckGrows ==
  ASSUME Sound, NEW s \in Shas, NEW i \in DOMAIN runs[s], EndCheck(s, i)
  PROVE  Grows /\ EvidenceKept
<1> DEFINE r == runs[s][i]
<1>1. PICK ok \in BOOLEAN :
        runs' = [runs EXCEPT ![s][i].check = Result(ok),
                             ![s][i].passed = r.passed \/ (ok /\ ~ShortCircuit(s, r))]
  BY DEF EndCheck
<1> DEFINE q == [r EXCEPT !.check = Result(ok),
                          !.passed = r.passed \/ (ok /\ ~ShortCircuit(s, r))]
<1>2. r \in Run /\ Honest(r) /\ runs \in Seq(Seq(Run)) /\ runs[s] \in Seq(Run)
  BY RunFields
<1>3. r.check = "none" /\ IsSuiteRun(r) /\ ~Green(r)
  BY <1>2 DEF EndCheck, Honest
<1>4. /\ q \in Run /\ q.workflow = r.workflow /\ q.event = r.event
      /\ q.conclusion = r.conclusion /\ q.check = Result(ok)
      /\ q.passed = (r.passed \/ (ok /\ ~ShortCircuit(s, r)))
  BY <1>2 DEF Run, Result, Results
<1>5. Honest(q)
  BY <1>3, <1>4 DEF Honest, Green, Result, ShortCircuit
<1>6. runs' = [runs EXCEPT ![s] = [runs[s] EXCEPT ![i] = q]]
  BY <1>1, <1>2
<1> HIDE DEF q
<1>7. RunsGood /\ RunsKept /\ EvidenceKept /\ Len(runs') = Len(runs)
  BY <1>3, <1>4, <1>5, <1>6, Ended
<1> QED BY <1>7, OnlyRuns DEF EndCheck

LEMMA EndRunGrows ==
  ASSUME Sound, NEW s \in Shas, NEW i \in DOMAIN runs[s], EndRun(s, i)
  PROVE  Grows /\ EvidenceKept
<1> DEFINE r == runs[s][i]
<1>1. PICK ok \in BOOLEAN :
        /\ ok /\ IsSuiteRun(r) => r.check = "success"
        /\ runs' = [runs EXCEPT ![s][i].conclusion = Result(ok)]
  BY DEF EndRun
<1> DEFINE q == [r EXCEPT !.conclusion = Result(ok)]
<1>2. r \in Run /\ Honest(r) /\ runs \in Seq(Seq(Run)) /\ runs[s] \in Seq(Run)
  BY RunFields
<1>3. r.conclusion = "none" /\ ~Green(r)
  BY DEF EndRun, Green
<1>4. /\ q \in Run /\ q.workflow = r.workflow /\ q.event = r.event /\ q.check = r.check
      /\ q.conclusion = Result(ok) /\ q.passed = r.passed
  BY <1>2 DEF Run, Result, Results
<1>5. Honest(q)
  BY <1>1, <1>2, <1>4 DEF Honest, Green, Result, IsSuiteRun
<1>6. runs' = [runs EXCEPT ![s] = [runs[s] EXCEPT ![i] = q]]
  BY <1>1, <1>2
<1> HIDE DEF q
<1>7. RunsGood /\ RunsKept /\ EvidenceKept /\ Len(runs') = Len(runs)
  BY <1>3, <1>4, <1>5, <1>6, Ended
<1> QED BY <1>7, OnlyRuns DEF EndRun

LEMMA RerunGrows ==
  ASSUME Sound, NEW s \in Shas, NEW i \in DOMAIN runs[s], Rerun(s, i)
  PROVE  Grows /\ EvidenceKept
<1> DEFINE r == runs[s][i]
           p == [r EXCEPT !.check = "none", !.conclusion = "none"]
           q == [r EXCEPT !.conclusion = "none"]
<1>1. r \in Run /\ Honest(r) /\ runs \in Seq(Seq(Run)) /\ runs[s] \in Seq(Run)
  BY RunFields
<1>2. /\ p \in Run /\ p.passed = r.passed /\ p.check = "none" /\ p.conclusion = "none"
      /\ q \in Run /\ q.passed = r.passed /\ q.check = r.check /\ q.conclusion = "none"
      /\ q.workflow = r.workflow /\ q.event = r.event
  BY <1>1 DEF Run, Results
<1>3. Honest(p) /\ Honest(q)
  BY <1>1, <1>2 DEF Honest, Green, IsSuiteRun
<1>4. \/ runs' = [runs EXCEPT ![s][i].check = "none", ![s][i].conclusion = "none"]
      \/ runs' = [runs EXCEPT ![s][i].conclusion = "none"]
  BY DEF Rerun
<1>5. \/ runs' = [runs EXCEPT ![s] = [runs[s] EXCEPT ![i] = p]]
      \/ runs' = [runs EXCEPT ![s] = [runs[s] EXCEPT ![i] = q]]
  BY <1>1, <1>4
<1> HIDE DEF p, q
<1>6. /\ RunsGood /\ RunsKept /\ Len(runs') = Len(runs)
      /\ \A t \in Shas \ {s} : runs'[t] = runs[t]
  BY <1>2, <1>3, <1>5, Replaced
<1>7. EvidenceKept
  BY <1>6, SameEvidence DEF EvidenceKept, Evidence
<1> QED BY <1>6, <1>7, OnlyRuns DEF Rerun

LEMMA DispatchGrows ==
  ASSUME Sound, NEW s \in Shas, NEW workflow \in {SUITE_WORKFLOW, "nightly.yml"},
         Dispatch(s, workflow)
  PROVE  Grows /\ EvidenceKept
<1>1. /\ runs' = Start(s, workflow, "workflow_dispatch") /\ UNCHANGED <<repo, owner, index>>
      /\ workflow \in Workflows /\ "workflow_dispatch" \in Events
  BY DEF Dispatch, Workflows, Events
<1> QED BY <1>1, Started, OnlyRuns

LEMMA ScheduleGrows ==
  ASSUME Sound, NEW workflow \in {SUITE_WORKFLOW, "nightly.yml"}, Schedule(workflow)
  PROVE  Grows /\ EvidenceKept
<1>1. /\ runs' = Start(Tip, workflow, "schedule") /\ UNCHANGED <<repo, owner, index>>
      /\ workflow \in Workflows /\ "schedule" \in Events /\ Tip \in Shas
  BY TipIsCommit DEF Schedule, Workflows, Events, Sound
<1> QED BY <1>1, Started, OnlyRuns

LEMMA PushTagGrows ==
  ASSUME Sound, NEW v \in Versions, NEW s \in Shas, PushTag(v, s)
  PROVE  Grows /\ EvidenceKept
<1>1. /\ runs' = Start(s, "release.yml", "push")
      /\ "release.yml" \in Workflows /\ "push" \in Events
      /\ UNCHANGED <<agenda, commits, main, tree, deploy, live, published>>
      /\ tags' = tags \cup {[version |-> v, sha |-> s]} /\ Shas' = Shas
  BY DEF PushTag, Workflows, Events, repo, owner, Shas
<1>2. RunsGood /\ RunsKept /\ EvidenceKept /\ Len(runs') = Len(runs)
  BY <1>1, Started
<1> QED BY <1>1, <1>2 DEF Grows, MainKept, Sound, ReleaseTypeOK

LEMMA OpenPullGrows == ASSUME Sound, OpenPull PROVE Grows /\ EvidenceKept
<1> DEFINE change == agenda.changes[1]
           c == Changed(Tip, change)
           fresh == <<Queued(SUITE_WORKFLOW, "pull_request")>>
                    \o (IF change.lane THEN Pushed(c) ELSE << >>)
<1>1. Tip \in Shas /\ commits \in Seq(Commit) /\ main \in Seq(Shas) /\ Len(main) > 0
  BY TipIsCommit DEF Sound, ReleaseTypeOK
<1>2. change \in Change /\ agenda' \in Agenda
  <2>1. agenda \in Agenda /\ agenda.changes # << >>
        /\ agenda' = [agenda EXCEPT !.changes = Tail(@)]
    BY DEF Sound, ReleaseTypeOK, OpenPull
  <2>2. agenda.changes \in Seq(Change)
    BY <2>1 DEF Agenda
  <2>3. agenda.changes[1] \in Change /\ Tail(agenda.changes) \in Seq(Change)
    BY <2>1, <2>2
  <2> QED BY <2>1, <2>3 DEF Agenda
<1>3. c \in Commit
  BY <1>1, <1>2, ChangedIsCommit DEF Sound
<1>4. fresh \in Seq(Run) /\ \A i \in DOMAIN fresh : Honest(fresh[i])
  <2> DEFINE q == Queued(SUITE_WORKFLOW, "pull_request")
             more == IF change.lane THEN Pushed(c) ELSE << >>
  <2>1. q \in Run /\ Honest(q)
    BY QueuedRuns DEF Events, Workflows
  <2>2. more \in Seq(Run) /\ \A i \in DOMAIN more : Honest(more[i])
    BY PushedRuns
  <2> HIDE DEF q, more
  <2>3. <<q>> \in Seq(Run) /\ Len(<<q>>) = 1 /\ <<q>>[1] = q
    BY <2>1
  <2>4. /\ <<q>> \o more \in Seq(Run) /\ Len(<<q>> \o more) = 1 + Len(more)
        /\ \A i \in 1..1 + Len(more) :
              (<<q>> \o more)[i] = IF i <= 1 THEN <<q>>[i] ELSE more[i - 1]
    BY <2>2, <2>3, ConcatProperties
  <2>5. \A i \in 1..1 + Len(more) : i = 1 \/ i - 1 \in DOMAIN more
    BY <2>2
  <2>6. DOMAIN (<<q>> \o more) = 1..1 + Len(more)
    BY <2>4
  <2>7. \A i \in DOMAIN (<<q>> \o more) : Honest((<<q>> \o more)[i])
    BY <2>1, <2>2, <2>3, <2>4, <2>5, <2>6
  <2> QED BY <2>4, <2>7 DEF q, more
<1>5. /\ commits' = Append(commits, c) /\ runs' = Append(runs, fresh)
      /\ UNCHANGED <<main, tree, deploy, live, tags, published>>
  BY DEF OpenPull, owner, index
<1> HIDE DEF change, c, fresh
<1>6. RunsGood /\ RunsKept /\ EvidenceKept /\ Len(runs') = Len(runs) + 1
  BY <1>4, <1>5, Appended
<1>7. commits' \in Seq(Commit) /\ Len(commits') = Len(commits) + 1 /\ Shas \subseteq Shas'
  BY <1>1, <1>3, <1>5 DEF Shas
<1>8. main' \in Seq(Shas') /\ Len(main') > 0 /\ MainKept
  BY <1>1, <1>5, <1>7 DEF MainKept
<1> QED BY <1>2, <1>5, <1>6, <1>7, <1>8 DEF Grows, Sound, ReleaseTypeOK

\* Commits put on main leave the others there.
LEMMA MainGrows ==
  ASSUME main \in Seq(Shas), Len(main) > 0, Shas \subseteq Shas',
         NEW more \in Seq(Shas'), main' = main \o more
  PROVE  main' \in Seq(Shas') /\ Len(main') > 0 /\ MainKept
<1> DEFINE S == Shas'
<1>1. main \in Seq(S)
  <2>1. \A i \in DOMAIN main : main[i] \in Shas'
    OBVIOUS
  <2>2. Len(main) \in Nat /\ main = [i \in 1..Len(main) |-> main[i]] /\ DOMAIN main = 1..Len(main)
    OBVIOUS
  <2> QED BY <2>1, <2>2
<1> HIDE DEF S
<1>2. more \in Seq(S)
  BY DEF S
<1>3. /\ main' \in Seq(S) /\ Len(main') = Len(main) + Len(more)
      /\ \A i \in 1..Len(main) + Len(more) :
            main'[i] = IF i <= Len(main) THEN main[i] ELSE more[i - Len(main)]
  BY <1>1, <1>2, ConcatProperties
<1>4. Len(main) \in Nat /\ Len(more) \in Nat
      /\ DOMAIN main = 1..Len(main) /\ DOMAIN main' = 1..Len(main) + Len(more)
  BY <1>1, <1>2, <1>3
<1>5. MainKept
  BY <1>3, <1>4 DEF MainKept
<1> QED BY <1>3, <1>4, <1>5 DEF S

LEMMA MergeGrows == ASSUME Sound, NEW s \in Shas, Merge(s) PROVE Grows /\ EvidenceKept
<1> DEFINE m == commits[s]
           n == Len(commits) + 1
<1>1. commits \in Seq(Commit) /\ main \in Seq(Shas) /\ Len(main) > 0 /\ m \in Commit
  BY DEF Sound, ReleaseTypeOK, Shas
<1>2. /\ commits' = Append(commits, m) /\ runs' = Append(runs, Pushed(m))
      /\ main' = Append(main, n) \/ main' = main \o <<s, n>>
      /\ UNCHANGED <<agenda, tree, deploy, live, tags, published>>
  BY DEF Merge, owner, index
<1> HIDE DEF m
<1>3. RunsGood /\ RunsKept /\ EvidenceKept /\ Len(runs') = Len(runs) + 1
  BY <1>2, PushedRuns, Appended
<1>4. commits' \in Seq(Commit) /\ Len(commits') = Len(commits) + 1
      /\ Shas \subseteq Shas' /\ n \in Shas' /\ s \in Shas'
  BY <1>1, <1>2 DEF Shas
<1> HIDE DEF n
<1>5. <<n>> \in Seq(Shas') /\ <<s, n>> \in Seq(Shas') /\ Append(main, n) = main \o <<n>>
  BY <1>1, <1>4
<1>6. main' \in Seq(Shas') /\ Len(main') > 0 /\ MainKept
  BY <1>1, <1>2, <1>4, <1>5, MainGrows
<1> QED BY <1>2, <1>3, <1>4, <1>6 DEF Grows, Sound, ReleaseTypeOK

LEMMA FastForwardGrows ==
  ASSUME Sound, NEW s \in Shas, FastForward(s) PROVE Grows /\ EvidenceKept
<1>1. commits \in Seq(Commit) /\ main \in Seq(Shas) /\ Len(main) > 0
  BY DEF Sound, ReleaseTypeOK
<1>2. /\ runs' = [runs EXCEPT ![s] = Pushed(commits[s]) \o @] /\ main' = Append(main, s)
      /\ UNCHANGED <<agenda, commits, tree, deploy, live, tags, published>> /\ Shas' = Shas
  BY DEF FastForward, owner, index, Shas
<1>3. RunsGood /\ RunsKept /\ EvidenceKept /\ Len(runs') = Len(runs)
  BY <1>2, PushedRuns, Prepended
<1>4. <<s>> \in Seq(Shas') /\ Append(main, s) = main \o <<s>>
  BY <1>1, <1>2
<1>5. main' \in Seq(Shas') /\ Len(main') > 0 /\ MainKept
  BY <1>1, <1>2, <1>4, MainGrows
<1> QED BY <1>2, <1>3, <1>5 DEF Grows, Sound, ReleaseTypeOK

\* The steps of the repository.
RepoStep ==
    \/ OpenPull
    \/ \E s \in Shas : CiStep(s) \/ Merge(s) \/ FastForward(s)
    \/ \E workflow \in {SUITE_WORKFLOW, "nightly.yml"} : Schedule(workflow)
    \/ \E v \in Versions, s \in Shas : PushTag(v, s)

LEMMA RepoGrows == ASSUME Sound, RepoStep PROVE Grows /\ EvidenceKept
<1>1. ASSUME NEW s \in Shas, CiStep(s) PROVE Grows /\ EvidenceKept
  BY <1>1, EndCheckGrows, EndRunGrows, RerunGrows, DispatchGrows DEF CiStep
<1> QED
  BY <1>1, OpenPullGrows, MergeGrows, FastForwardGrows, ScheduleGrows, PushTagGrows DEF RepoStep

LEMMA NextCases ==
  Next => \/ RepoStep \/ DeployStep
          \/ \E s \in Shas, dirty \in BOOLEAN : Checkout(s, dirty)
          \/ \E t \in tags : Publish(t)
BY DEF Next, RepoStep

-----------------------------------------------------------------------------
(* Types and honest runs *)

LEMMA GrowsSoundly == ASSUME Sound, Grows PROVE Sound'
<1>1. Shas \subseteq Shas' /\ tree' = tree /\ deploy' = deploy /\ live' = live
      /\ published' = published
  BY DEF Grows
<1>2. ReleaseTypeOK'
  BY <1>1 DEF Grows, RunsGood, Sound, ReleaseTypeOK
<1>3. DOMAIN runs' = Shas'
  BY <1>2 DEF ReleaseTypeOK, Shas
<1>4. RunsAreHonest'
  BY <1>3 DEF Grows, RunsGood, RunsAreHonest, Honest, Green, IsSuiteRun
<1> QED BY <1>2, <1>4 DEF Sound

\* The other steps leave the repository and its runs alone.
LEMMA Unmoved ==
  ASSUME UNCHANGED <<repo, runs>>
  PROVE  /\ Shas' = Shas /\ Merged' = Merged /\ Tip' = Tip
         /\ RunsAreHonest => RunsAreHonest'
         /\ \A s : Executed(s)' <=> Executed(s)
         /\ \A a, b : AtOrBefore(a, b)' <=> AtOrBefore(a, b)
<1>1. commits' = commits /\ main' = main /\ runs' = runs
  BY DEF repo
<1> QED BY <1>1 DEF Shas, Merged, Tip, RunsAreHonest, IsSuiteRun, Green, Executed, AtOrBefore

\* What they do to the checkout, deploy.sh, the site and the index.
Owns ==
    /\ UNCHANGED <<repo, runs, tags>>
    /\ tree' \in Tree /\ tree'.sha \in Shas
    /\ deploy' \in [step : Steps, sha : Nat]
    /\ live' = live \/ live' = tree
    /\ published' \subseteq tags

LEMMA OwnsSoundly == ASSUME Sound, Owns PROVE Sound'
<1>1. UNCHANGED <<agenda, commits, main, runs, tags>> /\ Shas' = Shas
  BY Unmoved DEF Owns, repo
<1>2. ReleaseTypeOK'
  BY <1>1 DEF Owns, Sound, ReleaseTypeOK
<1> QED BY <1>2, Unmoved DEF Owns, Sound

LEMMA GoTypes ==
  ASSUME NEW ok, NEW step \in Steps, NEW sha \in Nat, GoIf(ok, step, sha)
  PROVE  deploy' \in [step : Steps, sha : Nat]
BY DEF GoIf, Go, Refuse, Idle, Steps

LEMMA ChangedTypes ==
  ASSUME Sound, RefuseChanged
  PROVE  tree' \in Tree /\ tree'.sha = tree.sha /\ deploy' = Idle
BY DEF Sound, ReleaseTypeOK, Tree, RefuseChanged, Refuse

LEMMA DeployOwns == ASSUME Sound, DeployStep PROVE Owns
<1>1. /\ tree \in Tree /\ tree.sha \in Shas /\ tree.sha \in Nat /\ deploy.sha \in Nat
      /\ published \subseteq tags /\ deploy \in [step : Steps, sha : Nat]
  BY DEF Sound, ReleaseTypeOK, Tree
<1>2. {"gates", "provenance", "check", "ran", "preview", "main", "idle"} \subseteq Steps /\ 0 \in Nat
  BY DEF Steps
<1>3. Idle \in [step : Steps, sha : Nat]
  BY DEF Idle, Steps
<1>4. DeployTree => Owns
  BY <1>1, <1>2, <1>3, ChangedTypes DEF DeployTree, Go, Owns, index
<1>5. DeployGates => Owns
  BY <1>1, <1>2, <1>3, ChangedTypes DEF DeployGates, Go, Owns, index
<1>6. DeployProvenance => Owns
  BY <1>1, <1>2, GoTypes DEF DeployProvenance, Owns, index
<1>7. DeployCheck \/ DeployRan \/ DeployPreview => Owns
  BY <1>1, <1>2, GoTypes DEF DeployCheck, DeployRan, DeployPreview, Owns, index
<1>8. DeployMain => Owns
  BY <1>1, <1>3 DEF DeployMain, Refuse, Owns, index
<1> QED BY <1>4, <1>5, <1>6, <1>7, <1>8 DEF DeployStep

LEMMA CheckoutOwns ==
  ASSUME Sound, NEW s \in Shas, NEW dirty \in BOOLEAN, Checkout(s, dirty) PROVE Owns
<1>1. [sha |-> s, dirty |-> dirty] \in Tree
  BY DEF Tree, Shas, Sound, ReleaseTypeOK
<1> QED BY <1>1 DEF Checkout, Owns, Sound, ReleaseTypeOK, index

LEMMA PublishOwns == ASSUME Sound, NEW t \in tags, Publish(t) PROVE Owns
BY DEF Publish, Owns, Sound, ReleaseTypeOK, owner

LEMMA SoundInit == Init => Sound
<1> SUFFICES ASSUME Init PROVE Sound
  OBVIOUS
<1>1. PICK sound \in BOOLEAN :
        commits = <<[parent |-> 0, watched |-> TRUE, relevant |-> TRUE, sound |-> sound,
                     packaged |-> TRUE, version |-> "old", accepted |-> FALSE]>>
  BY DEF Init
<1>2. commits \in Seq(Commit) /\ Len(commits) = 1 /\ Shas = {1}
  BY <1>1 DEF Commit, Shas, Versions
<1> DEFINE q == Queued(SUITE_WORKFLOW, "push")
<1>3. q \in Run /\ Honest(q)
  BY QueuedRuns DEF Events, Workflows
<1>4. runs = << <<q>> >>
  BY DEF Init
<1> HIDE DEF q
<1>5. runs \in Seq(Seq(Run)) /\ Len(runs) = 1 /\ runs[1] = <<q>>
  BY <1>3, <1>4
<1>6. RunsAreHonest
  BY <1>2, <1>3, <1>5 DEF RunsAreHonest, Honest
<1>7. agenda \in Agenda
  BY ReleaseAssumption DEF Init
<1>8. ReleaseTypeOK
  BY <1>2, <1>5, <1>7 DEF Init, ReleaseTypeOK, Tree, Steps, Idle
<1> QED BY <1>6, <1>8 DEF Sound

LEMMA SoundStep == ASSUME Sound, [Next]_vars PROVE Sound'
<1>1. CASE UNCHANGED vars
  BY <1>1 DEF vars, Sound, ReleaseTypeOK, Shas, RunsAreHonest, IsSuiteRun, Green
<1>2. CASE Next
  BY <1>2, NextCases, RepoGrows, GrowsSoundly, DeployOwns, CheckoutOwns, PublishOwns, OwnsSoundly
<1> QED BY <1>1, <1>2

-----------------------------------------------------------------------------
(* What is shipped, while the owner leaves the checkout alone *)

Inv == Sound /\ ChecksStayTrue /\ ShippedIsProven

\* What has passed stays so, and what is on main stays there, in order.
LEMMA GrowsKeeps ==
  ASSUME Sound, Grows
  PROVE  /\ \A s \in Shas : Executed(s) => Executed(s)'
         /\ Merged \subseteq Merged'
         /\ \A a, b : AtOrBefore(a, b) =>
              \E p, q \in DOMAIN main' : p <= q /\ main'[p] = a /\ main'[q] = b
<1>1. ASSUME NEW s \in Shas, Executed(s) PROVE Executed(s)'
  BY <1>1 DEF Grows, RunsKept, Executed
<1>2. Merged \subseteq Merged'
  BY DEF Grows, MainKept, Merged
<1>3. ASSUME NEW a, NEW b, AtOrBefore(a, b)
      PROVE  \E p, q \in DOMAIN main' : p <= q /\ main'[p] = a /\ main'[q] = b
  <2>1. PICK p \in DOMAIN main, q \in DOMAIN main : p <= q /\ main[p] = a /\ main[q] = b
    BY <1>3 DEF AtOrBefore
  <2>2. /\ p \in DOMAIN main' /\ main'[p] = a
        /\ q \in DOMAIN main' /\ main'[q] = b
    BY <2>1 DEF Grows, MainKept
  <2> QED BY <2>1, <2>2
<1> QED BY <1>1, <1>2, <1>3

LEMMA GrowsStep == ASSUME Inv, Grows PROVE Inv'
<1>1. UNCHANGED <<tree, deploy, live, published>> /\ tree.sha \in Shas /\ Merged \subseteq Shas
  BY TipIsCommit DEF Grows, Inv, Sound, ReleaseTypeOK
<1>2. /\ \A s \in Shas : Executed(s) => Executed(s)'
      /\ Merged \subseteq Merged'
      /\ AtOrBefore(live.sha, tree.sha) =>
           \E p, q \in DOMAIN main' : p <= q /\ main'[p] = live.sha /\ main'[q] = tree.sha
  BY GrowsKeeps DEF Inv
<1>3. ChecksStayTrue'
  <2>1. AtOrBefore(live.sha, tree.sha) => AtOrBefore(live.sha, tree.sha)'
    BY <1>1, <1>2 DEF AtOrBefore
  <2> QED BY <1>1, <1>2, <2>1 DEF Inv, ChecksStayTrue
<1>4. ShippedIsProven'
  BY <1>1, <1>2 DEF Inv, ShippedIsProven
<1> QED BY <1>3, <1>4, GrowsSoundly DEF Inv

\* Whoever is on main is at or before its tip.
LEMMA TipIsLast ==
  ASSUME ReleaseTypeOK, NEW s \in Merged PROVE AtOrBefore(s, Tip)
<1>1. PICK p \in DOMAIN main : main[p] = s
  BY DEF Merged
<1>2. Len(main) \in DOMAIN main /\ p <= Len(main)
  BY DEF ReleaseTypeOK
<1> QED BY <1>1, <1>2 DEF AtOrBefore, Tip

\* What has been proven to run was executed.
LEMMA RanIsExecuted == ASSUME Sound, NEW s \in Shas, SuiteRan(s) PROVE Executed(s)
BY DEF SuiteRan, Sound, RunsAreHonest, Executed

\* A step of deploy.sh before the last: the next step has what it stands for.
LEMMA NextCheck ==
  ASSUME Inv, UNCHANGED <<repo, runs, tree, live, index>>, Sound',
         NEW ok, NEW step \in Steps, NEW sha \in Nat, GoIf(ok, step, sha),
         ok => /\ ~tree.dirty
               /\ step \in {"check", "ran", "preview", "main"} =>
                    /\ sha = tree.sha /\ tree.sha \in Merged
                    /\ live.sha # 0 => AtOrBefore(live.sha, tree.sha)
               /\ step \in {"preview", "main"} => Executed(tree.sha)
  PROVE  Inv'
<1>1. deploy' = Idle \/ (ok /\ deploy' = [step |-> step, sha |-> sha])
  BY DEF GoIf, Go, Refuse
<1>2. ChecksStayTrue'
  <2>1. CASE deploy' = Idle
    BY <2>1 DEF ChecksStayTrue, Idle
  <2>2. CASE ok /\ deploy' = [step |-> step, sha |-> sha]
    <3>1. deploy'.step = step /\ deploy'.sha = sha /\ tree' = tree /\ live' = live
      BY <2>2
    <3>2. Merged' = Merged
      BY Unmoved
    <3>3. step \in {"preview", "main"} => Executed(tree.sha)'
      BY <2>2, <3>1, Unmoved
    <3>4. AtOrBefore(live.sha, tree.sha)' <=> AtOrBefore(live.sha, tree.sha)
      BY <3>1, Unmoved DEF AtOrBefore, repo
    <3> QED BY <2>2, <3>1, <3>2, <3>3, <3>4 DEF ChecksStayTrue
  <2> QED BY <1>1, <2>1, <2>2
<1>3. ShippedIsProven'
  BY Unmoved DEF Inv, ShippedIsProven, index
<1> QED BY <1>2, <1>3 DEF Inv

\* A step after which deploy.sh does not run.
LEMMA Stopped ==
  ASSUME Inv, UNCHANGED <<repo, runs, live, published>>, deploy' = Idle, Sound' PROVE Inv'
<1>1. ChecksStayTrue'
  BY DEF ChecksStayTrue, Idle
<1>2. ShippedIsProven'
  BY Unmoved DEF Inv, ShippedIsProven
<1> QED BY <1>1, <1>2 DEF Inv

LEMMA DeployKeeps == ASSUME Inv, DeployStep, Sound' PROVE Inv'
<1>1. /\ tree \in Tree /\ tree.sha \in Shas /\ tree.sha \in Nat /\ deploy.sha \in Nat
      /\ Tip \in Merged /\ ReleaseTypeOK
      /\ "gates" \in Steps /\ "provenance" \in Steps /\ "check" \in Steps /\ "ran" \in Steps
      /\ "preview" \in Steps /\ "main" \in Steps
  BY TipIsCommit DEF Inv, Sound, ReleaseTypeOK, Tree, Steps
<1>2. CASE DeployTree
  <2>1. CASE ~tree.dirty /\ Go("gates", 0) /\ UNCHANGED tree
    <3>1. GoIf(~tree.dirty, "gates", 0) /\ 0 \in Nat /\ UNCHANGED <<repo, runs, tree, live, index>>
      BY <1>2, <2>1 DEF GoIf, DeployTree
    <3> QED BY <1>1, <3>1, NextCheck
  <2>2. CASE RefuseChanged
    BY <1>2, <2>2, Stopped DEF DeployTree, RefuseChanged, Refuse, index
  <2> QED BY <1>2, <2>1, <2>2 DEF DeployTree
<1>3. CASE DeployGates
  <2>1. CASE Go("provenance", 0) /\ UNCHANGED tree
    <3>1. GoIf(~tree.dirty, "provenance", 0) /\ 0 \in Nat
          /\ UNCHANGED <<repo, runs, tree, live, index>>
      BY <1>3, <2>1 DEF GoIf, DeployGates, Inv, ChecksStayTrue
    <3> QED BY <1>1, <3>1, NextCheck
  <2>2. CASE RefuseChanged
    BY <1>3, <2>2, Stopped DEF DeployGates, RefuseChanged, Refuse, index
  <2> QED BY <1>3, <2>1, <2>2 DEF DeployGates
<1>4. CASE DeployProvenance
  <2>1. PICK fetched \in BOOLEAN : GoIf(fetched /\ tree.sha = Tip, "check", tree.sha)
    BY <1>4 DEF DeployProvenance
  <2>2. UNCHANGED <<repo, runs, tree, live, index>> /\ ~tree.dirty
    BY <1>4 DEF DeployProvenance, Inv, ChecksStayTrue
  <2>3. live.sha # 0 => AtOrBefore(live.sha, Tip)
    BY <1>1, TipIsLast DEF Inv, ShippedIsProven
  <2> QED BY <1>1, <2>1, <2>2, <2>3, NextCheck
<1>5. ASSUME deploy.step \in {"check", "ran", "preview", "main"}
      PROVE  /\ ~tree.dirty /\ deploy.sha = tree.sha /\ tree.sha \in Merged
             /\ live.sha # 0 => AtOrBefore(live.sha, tree.sha)
             /\ deploy.step \in {"preview", "main"} => Executed(tree.sha)
  BY <1>5 DEF Inv, ChecksStayTrue
<1>6. CASE DeployCheck
  <2>1. PICK answered \in BOOLEAN : GoIf(answered /\ CheckGreen(deploy.sha), "ran", deploy.sha)
    BY <1>6 DEF DeployCheck
  <2>2. UNCHANGED <<repo, runs, tree, live, index>> /\ deploy.step = "check"
    BY <1>6 DEF DeployCheck
  <2> QED BY <1>1, <1>5, <2>1, <2>2, NextCheck
<1>7. CASE DeployRan
  <2>1. PICK answered \in BOOLEAN :
          GoIf(answered /\ SuiteRan(deploy.sha), "preview", deploy.sha)
    BY <1>7 DEF DeployRan
  <2>2. UNCHANGED <<repo, runs, tree, live, index>> /\ deploy.step = "ran"
    BY <1>7 DEF DeployRan
  <2>3. SuiteRan(deploy.sha) => Executed(tree.sha)
    BY <1>1, <1>5, <2>2, RanIsExecuted DEF Inv
  <2> QED BY <1>1, <1>5, <2>1, <2>2, <2>3, NextCheck
<1>8. CASE DeployPreview
  <2>1. PICK ok \in BOOLEAN : GoIf(ok, "main", deploy.sha)
    BY <1>8 DEF DeployPreview
  <2>2. UNCHANGED <<repo, runs, tree, live, index>> /\ deploy.step = "preview"
    BY <1>8 DEF DeployPreview
  <2> QED BY <1>1, <1>5, <2>1, <2>2, NextCheck
<1>9. CASE DeployMain
  <2>1. /\ deploy.step = "main" /\ deploy' = Idle
        /\ live' = live \/ live' = tree
        /\ UNCHANGED <<repo, runs, tree, index>>
    BY <1>9 DEF DeployMain, Refuse
  <2>2. CASE live' = live
    BY <2>1, <2>2, Stopped DEF index
  <2>3. CASE live' = tree
    <3>1. ChecksStayTrue'
      BY <2>1 DEF ChecksStayTrue, Idle
    <3>2. ShippedIsProven'
      BY <1>5, <2>1, <2>3, Unmoved DEF Inv, ShippedIsProven, index
    <3> QED BY <3>1, <3>2 DEF Inv
  <2> QED BY <2>1, <2>2, <2>3
<1> QED BY <1>2, <1>3, <1>4, <1>6, <1>7, <1>8, <1>9 DEF DeployStep

LEMMA CheckoutKeeps ==
  ASSUME HandsOff, Inv, NEW s \in Shas, NEW dirty \in BOOLEAN, Checkout(s, dirty), Sound'
  PROVE  Inv'
BY Stopped DEF Checkout, index

LEMMA PublishKeeps == ASSUME Inv, NEW t \in tags, Publish(t), Sound' PROVE Inv'
<1>1. /\ UNCHANGED <<repo, runs, tree, deploy, live>> /\ published' = published \cup {t}
      /\ t.sha \in Merged /\ Proven(t.sha) /\ t.sha \in Shas
  BY DEF Publish, Guards, owner, Inv, Sound, ReleaseTypeOK
<1>2. Executed(t.sha)
  BY <1>1, RanIsExecuted DEF Proven, Inv
<1>3. AtOrBefore(live.sha, tree.sha)' <=> AtOrBefore(live.sha, tree.sha)
  BY <1>1 DEF AtOrBefore, repo
<1>4. ChecksStayTrue'
  BY <1>1, <1>3, Unmoved DEF Inv, ChecksStayTrue
<1>5. ShippedIsProven'
  BY <1>1, <1>2, Unmoved DEF Inv, ShippedIsProven
<1> QED BY <1>4, <1>5 DEF Inv

LEMMA InvInit == Init => Inv
<1>1. Init => deploy.step = "idle" /\ live.sha = 0 /\ published = {}
  BY DEF Init, Idle
<1>2. Init => ChecksStayTrue /\ ShippedIsProven
  BY <1>1 DEF ChecksStayTrue, ShippedIsProven
<1> QED BY <1>2, SoundInit DEF Inv

LEMMA InvStep == ASSUME HandsOff, Inv, [Next]_vars PROVE Inv'
<1>1. Sound'
  BY SoundStep DEF Inv
<1>2. CASE UNCHANGED vars
  BY <1>1, <1>2 DEF vars, Inv, ChecksStayTrue, ShippedIsProven, Executed, Merged, AtOrBefore
<1>3. CASE RepoStep
  BY <1>3, RepoGrows, GrowsStep DEF Inv
<1>4. CASE DeployStep
  BY <1>1, <1>4, DeployKeeps
<1>5. CASE \E s \in Shas, dirty \in BOOLEAN : Checkout(s, dirty)
  BY <1>1, <1>5, CheckoutKeeps
<1>6. CASE \E t \in tags : Publish(t)
  BY <1>1, <1>6, PublishKeeps
<1> QED BY <1>2, <1>3, <1>4, <1>5, <1>6, NextCases

-----------------------------------------------------------------------------
(* Theorems *)

\* For every history of commits, pull requests, merges and CI runs: as long as
\* the owner leaves the checkout alone while deploy.sh runs, what the site and
\* the package index are given is a commit of main on which the suite has been
\* executed and was green.
THEOREM Shipped == ASSUME HandsOff PROVE Spec => []ShippedIsProven
<1>1. Inv /\ [Next]_vars => Inv'
  BY InvStep
<1>2. Inv => ShippedIsProven
  BY DEF Inv
<1> QED BY InvInit, <1>1, <1>2, PTL DEF Spec

\* Only the last step of deploy.sh changes the site.
LEMMA SiteSteps == ASSUME Sound, [Next]_vars, live' # live PROVE DeployMain
<1>1. ~UNCHANGED vars
  BY DEF vars
<1>2. ~RepoStep
  BY RepoGrows DEF Grows
<1>3. \A s, dirty : ~Checkout(s, dirty)
  BY DEF Checkout
<1>4. \A t : ~Publish(t)
  BY DEF Publish, owner
<1>5. ~(DeployTree \/ DeployGates \/ DeployProvenance \/ DeployCheck \/ DeployRan \/ DeployPreview)
  BY DEF DeployTree, DeployGates, DeployProvenance, DeployCheck, DeployRan, DeployPreview
<1> QED BY <1>1, <1>2, <1>3, <1>4, <1>5, NextCases DEF DeployStep

\* Under the same hypothesis the site never goes back to an older commit of main,
\* however often main moves while deploy.sh runs.
THEOREM Forward == ASSUME HandsOff PROVE Spec => SiteFollowsMain
<1>1. ASSUME Inv, [Next]_vars
      PROVE  [live' # live /\ live.sha # 0 => AtOrBefore(live.sha, live'.sha)]_vars
  <2> SUFFICES ASSUME live' # live, live.sha # 0 PROVE AtOrBefore(live.sha, live'.sha)
    OBVIOUS
  <2>1. DeployMain
    BY <1>1, SiteSteps DEF Inv
  <2>2. live' = tree /\ deploy.step = "main"
    BY <2>1 DEF DeployMain
  <2>3. AtOrBefore(live.sha, tree.sha)
    BY <1>1, <2>2 DEF Inv, ChecksStayTrue
  <2> QED BY <2>2, <2>3
<1>2. Inv /\ [Next]_vars => Inv'
  BY InvStep
<1> QED BY InvInit, <1>1, <1>2, PTL DEF Spec, SiteFollowsMain

\* Whatever the owner does to the checkout: a commit that CI has proven stays
\* proven over every later run, but for one that is run again and for a page of
\* newer runs.
THEOREM Evident == Spec => EvidenceStays
<1>1. ASSUME Sound, [Next]_vars
      PROVE  [\A s \in Shas :
                Proven(s) =>
                    \/ Proven(s)' \/ Len(runs'[s]) > RunsPage
                    \/ \E i \in DOMAIN runs[s] : Rerun(s, i)]_vars
  <2>1. CASE UNCHANGED vars
    BY <2>1 DEF vars
  <2>2. CASE RepoStep
    BY <1>1, <2>2, RepoGrows DEF EvidenceKept, Evidence
  <2>3. CASE runs' = runs
    BY <2>3, SameEvidence DEF Evidence
  <2>4. DeployStep => runs' = runs
    BY <1>1, DeployOwns DEF Owns
  <2>5. \A s \in Shas, dirty \in BOOLEAN : Checkout(s, dirty) => runs' = runs
    BY DEF Checkout
  <2>6. \A t \in tags : Publish(t) => runs' = runs
    BY DEF Publish
  <2> QED BY <1>1, <2>1, <2>2, <2>3, <2>4, <2>5, <2>6, NextCases
<1>2. Sound /\ [Next]_vars => Sound'
  BY SoundStep
<1> QED BY SoundInit, <1>1, <1>2, PTL DEF Spec, EvidenceStays
=============================================================================
