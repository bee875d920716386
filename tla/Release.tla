------------------------------ MODULE Release ------------------------------
(***************************************************************************)
(* What reaches the site and the package index, and on what evidence: the  *)
(* commits and the CI runs of the repository, deploy.sh on the owner's     *)
(* machine and release.yml on a pushed tag.                                *)
(***************************************************************************)
EXTENDS Naturals, Sequences

CONSTANTS
    RunsPage,   \* how many runs of a commit actions/runs lists: GitHub's page
    HandsOff,   \* whether the owner leaves the checkout alone while deploy.sh runs
    Agendas     \* the changes to come, one agenda of which a behaviour follows

SUITE_WORKFLOW == "conformance.yml"
Workflows == {SUITE_WORKFLOW, "nightly.yml", "release.yml"}
Events == {"push", "pull_request", "workflow_dispatch", "schedule"}
\* A change of what the suite reads, of action.yml alone, of files no workflow
\* watches, and the three edits of packaging/ that a release takes.
Kinds == {"suite", "action", "unwatched", "rc", "accept", "final"}
Versions == {"rc", "final"}
Results == {"none", "success", "failure"}

Change == [kind : Kinds, sound : BOOLEAN, packaged : BOOLEAN, lane : BOOLEAN]
Agenda == [deploys : BOOLEAN, commits : Nat, runs : Nat, reruns : BOOLEAN,
           changes : Seq(Change)]

\* watched, relevant: the change touches a path of on.push, of WATCHED_PATHS.
\* sound: the suite passes on the tree.  packaged: versions, bundle and changelog
\* agree (guards 2 to 4).
Commit == [parent : Nat, watched : BOOLEAN, relevant : BOOLEAN, sound : BOOLEAN,
           packaged : BOOLEAN, version : Versions \cup {"old"}, accepted : BOOLEAN]
\* check: the job selftest, which alone is required.  conclusion: all the jobs of
\* the run.  passed: history, the gates were executed here once and were green.
Run == [workflow : Workflows, event : Events, check : Results, conclusion : Results,
        passed : BOOLEAN]
Tree == [sha : Nat, dirty : BOOLEAN]
Steps == {"idle", "gates", "provenance", "check", "ran", "preview", "main"}

ASSUME ReleaseAssumption ==
    /\ RunsPage \in Nat \ {0}
    /\ HandsOff \in BOOLEAN
    /\ Agendas \subseteq Agenda

VARIABLES
    agenda,    \* the changes still to be made, whether the site is deployed, the
               \* bounds on commits and on dispatched and scheduled runs of each,
               \* and whether runs are run again
    commits,   \* all commits; a SHA is an index
    main,      \* origin/main and its ancestors, oldest first
    runs,      \* the runs of each commit, newest first
    tree,      \* the owner's checkout: its SHA and whether it is dirty
    deploy,    \* deploy.sh: the next step and the SHA of step 4
    live,      \* what the production branch of the site was given last
    tags,      \* the tags pushed: version and SHA
    published  \* the releases on the package index: version and SHA

vars == <<agenda, commits, main, runs, tree, deploy, live, tags, published>>
repo == <<agenda, commits, main>>
owner == <<tree, deploy, live>>
index == <<tags, published>>

Shas == DOMAIN commits
Tip == main[Len(main)]
Merged == {main[i] : i \in DOMAIN main}
Idle == [step |-> "idle", sha |-> 0]

-----------------------------------------------------------------------------
(* Commits and CI *)

\* A run that has just been started.
Queued(workflow, event) ==
    [workflow |-> workflow, event |-> event, check |-> "none", conclusion |-> "none",
     passed |-> FALSE]
Start(s, workflow, event) == [runs EXCEPT ![s] = <<Queued(workflow, event)>> \o @]

\* The filter of on.push: no run starts for a push that touches no watched path.
Pushed(c) == IF c.watched THEN <<Queued(SUITE_WORKFLOW, "push")>> ELSE << >>

\* The tree of a change on top of commit p.  What no gate reads cannot change
\* what the suite says.
Changed(p, change) ==
    LET relevant == change.kind \notin {"unwatched", "action"} IN
    [parent |-> p, watched |-> change.kind # "unwatched", relevant |-> relevant,
     sound |-> IF relevant THEN change.sound ELSE commits[p].sound,
     packaged |-> IF relevant THEN change.packaged ELSE commits[p].packaged,
     version |-> IF change.kind \in Versions THEN change.kind ELSE commits[p].version,
     accepted |-> commits[p].accepted \/ change.kind = "accept"]

\* A branch off main with a pull request, whose run always starts.  The push
\* of a lane branch starts a run of its own.  Nothing keeps the owner from
\* recording an acceptance whenever it pleases.
OpenPull ==
    /\ agenda.changes # << >> /\ Len(commits) < agenda.commits
    /\ LET change == agenda.changes[1]
           c == Changed(Tip, change) IN
        /\ commits' = Append(commits, c)
        /\ runs' = Append(runs, <<Queued(SUITE_WORKFLOW, "pull_request")>>
                                \o (IF change.lane THEN Pushed(c) ELSE << >>))
    /\ agenda' = [agenda EXCEPT !.changes = Tail(@)]
    /\ UNCHANGED <<main, owner, index>>

IsSuiteRun(r) == r.workflow = SUITE_WORKFLOW
Result(ok) == IF ok THEN "success" ELSE "failure"

\* The scope step: a pull request that touches no relevant path is green without
\* a gate run.
ShortCircuit(s, r) == r.event = "pull_request" /\ ~commits[s].relevant

\* The job selftest ends.  A suite that runs is green only on a sound tree, and
\* may be red on any.
EndCheck(s, i) ==
    LET r == runs[s][i] IN
    /\ IsSuiteRun(r) /\ r.check = "none"
    /\ \E ok \in BOOLEAN :
        /\ ok => ShortCircuit(s, r) \/ commits[s].sound
        /\ runs' = [runs EXCEPT ![s][i].check = Result(ok),
                                ![s][i].passed = r.passed \/ (ok /\ ~ShortCircuit(s, r))]
    /\ UNCHANGED <<repo, owner, index>>

\* All the jobs of a run have ended: action-selftest, which no branch requires,
\* may be red where selftest is green.
EndRun(s, i) ==
    LET r == runs[s][i] IN
    /\ r.conclusion = "none"
    /\ IsSuiteRun(r) => r.check # "none"
    /\ \E ok \in BOOLEAN :
        /\ ok /\ IsSuiteRun(r) => r.check = "success"
        /\ runs' = [runs EXCEPT ![s][i].conclusion = Result(ok)]
    /\ UNCHANGED <<repo, owner, index>>

\* By hand, in the web interface: a run is run again, all its jobs or only the
\* failed ones.
Rerun(s, i) ==
    LET r == runs[s][i] IN
    /\ agenda.reruns /\ r.conclusion # "none"
    /\ \/ runs' = [runs EXCEPT ![s][i].check = "none", ![s][i].conclusion = "none"]
       \/ /\ r.conclusion = "failure" /\ r.check = "success"
          /\ runs' = [runs EXCEPT ![s][i].conclusion = "none"]
    /\ UNCHANGED <<repo, owner, index>>

Dispatch(s, workflow) ==
    /\ Len(runs[s]) < agenda.runs
    /\ runs' = Start(s, workflow, "workflow_dispatch")
    /\ UNCHANGED <<repo, owner, index>>

\* The cron of a workflow runs it on main: weekly the suite, nightly the rest.
Schedule(workflow) ==
    /\ Len(runs[Tip]) < agenda.runs
    /\ runs' = Start(Tip, workflow, "schedule")
    /\ UNCHANGED <<repo, owner, index>>

\* verdict is "success": some run of the required check is green, were it not
\* the newest.  The page of 100 check-runs has all the jobs of RunsPage runs and
\* more, so that it is not cut here.
NewestGreen(s) ==
    \E i \in DOMAIN runs[s] :
        /\ IsSuiteRun(runs[s][i]) /\ runs[s][i].check = "success"
        /\ \A j \in 1..i - 1 : ~IsSuiteRun(runs[s][j])
CheckGreen(s) ==
    \E i \in DOMAIN runs[s] : IsSuiteRun(runs[s][i]) /\ runs[s][i].check = "success"

\* suite_ran is "ran": some run of the suite on the first page of the commit's
\* runs, which are those of every workflow, is green and not a pull request's.
Green(r) == r.conclusion = "success"
RanAnyWorkflow(s) ==
    \E i \in DOMAIN runs[s] :
        i <= RunsPage /\ runs[s][i].event # "pull_request" /\ Green(runs[s][i])
SuiteRan(s) ==
    \E i \in DOMAIN runs[s] :
        /\ i <= RunsPage /\ IsSuiteRun(runs[s][i])
        /\ runs[s][i].event # "pull_request" /\ Green(runs[s][i])

\* What both scripts ask of the CI history of a commit, if gh answers.
Proven(s) == CheckGreen(s) /\ SuiteRan(s)

\* Branch protection: the required check, newest run first, on a branch that is
\* up to date with main.
Mergeable(s) ==
    /\ s \notin Merged
    /\ commits[s].parent = Tip
    /\ NewestGreen(s)

\* A merge in the web interface mints a SHA with the tree of the branch.  A merge
\* commit makes the branch head an ancestor of main, a squash does not.
Merge(s) ==
    LET m == commits[s] IN
    /\ Mergeable(s)
    /\ Len(commits) < agenda.commits
    /\ commits' = Append(commits, m)
    /\ runs' = Append(runs, Pushed(m))
    /\ main' \in {Append(main, Len(commits) + 1), main \o <<s, Len(commits) + 1>>}
    /\ UNCHANGED <<agenda, owner, index>>

\* A fast-forward from the command line puts the branch head itself on main.
FastForward(s) ==
    /\ Mergeable(s)
    /\ main' = Append(main, s)
    /\ runs' = [runs EXCEPT ![s] = Pushed(commits[s]) \o @]
    /\ UNCHANGED <<agenda, commits, owner, index>>

-----------------------------------------------------------------------------
(* deploy.sh *)

Checkout(s, dirty) ==
    /\ agenda.deploys /\ (HandsOff => deploy = Idle)
    /\ tree' = [sha |-> s, dirty |-> dirty]
    /\ tree' # tree
    /\ UNCHANGED <<repo, runs, deploy, live, index>>

Go(step, sha) == deploy' = [step |-> step, sha |-> sha]
Refuse == deploy' = Idle
GoIf(ok, step, sha) == IF ok THEN Go(step, sha) ELSE Refuse

\* Steps 1 and 2 may leave files behind that they have made anew.
RefuseChanged ==
    /\ Refuse
    /\ \E changed \in BOOLEAN : tree' = [tree EXCEPT !.dirty = @ \/ changed]

\* Step 1: a clean tree, and the bundle as it would be made now.
DeployTree ==
    /\ agenda.deploys /\ deploy = Idle
    /\ \/ ~tree.dirty /\ Go("gates", 0) /\ UNCHANGED tree
       \/ RefuseChanged
    /\ UNCHANGED <<repo, runs, live, index>>

\* Steps 2 and 3 run the exports and a part of the gates: they may pass on a
\* tree on which the suite does not, and fail for want of a tool.
DeployGates ==
    /\ deploy.step = "gates"
    /\ \/ Go("provenance", 0) /\ UNCHANGED tree
       \/ RefuseChanged
    /\ UNCHANGED <<repo, runs, live, index>>

\* Defect: any commit of main will do.
ProvenanceOfMerged ==
    /\ deploy.step = "provenance"
    /\ \E fetched \in BOOLEAN : GoIf(fetched /\ tree.sha \in Merged, "check", tree.sha)
    /\ UNCHANGED <<repo, runs, tree, live, index>>

\* Step 4: first whether HEAD is origin/main, which must be fetched now.
DeployProvenance ==
    /\ deploy.step = "provenance"
    /\ \E fetched \in BOOLEAN : GoIf(fetched /\ tree.sha = Tip, "check", tree.sha)
    /\ UNCHANGED <<repo, runs, tree, live, index>>

\* Then, in two calls of gh, what the CI history of that SHA shows.  A call that
\* fails reads as no evidence.
DeployCheck ==
    /\ deploy.step = "check"
    /\ \E answered \in BOOLEAN :
        GoIf(answered /\ CheckGreen(deploy.sha), "ran", deploy.sha)
    /\ UNCHANGED <<repo, runs, tree, live, index>>

DeployRan ==
    /\ deploy.step = "ran"
    /\ \E answered \in BOOLEAN :
        GoIf(answered /\ SuiteRan(deploy.sha), "preview", deploy.sha)
    /\ UNCHANGED <<repo, runs, tree, live, index>>

\* Step 5 uploads the tree to a preview and fetches it back.
DeployPreview ==
    /\ deploy.step = "preview"
    /\ \E ok \in BOOLEAN : GoIf(ok, "main", deploy.sha)
    /\ UNCHANGED <<repo, runs, tree, live, index>>

\* Step 6 uploads the tree as it now is to the production branch.
DeployMain ==
    /\ deploy.step = "main"
    /\ \/ live' = tree /\ deploy' = Idle
       \/ Refuse /\ UNCHANGED live
    /\ UNCHANGED <<repo, runs, tree, index>>

-----------------------------------------------------------------------------
(* release.yml *)

\* A pushed tag starts the workflow.
PushTag(v, s) ==
    /\ ~agenda.deploys
    /\ ~\E t \in tags : t.version = v
    /\ tags' = tags \cup {[version |-> v, sha |-> s]}
    /\ runs' = Start(s, "release.yml", "push")
    /\ UNCHANGED <<repo, owner, published>>

\* release_guards.sh: the tag is the version of its tree, a final one has an
\* accepted candidate in its changelog, the commit is an ancestor of main and CI
\* has proven it.
Guards(t) ==
    LET c == commits[t.sha] IN
    /\ t.version = c.version
    /\ t.version = "final" => c.accepted
    /\ t.sha \in Merged /\ Proven(t.sha)
    /\ c.packaged

\* The workflow publishes, be it in its first run or in a later one.
Publish(t) ==
    /\ t \notin published
    /\ Guards(t)
    /\ published' = published \cup {t}
    /\ UNCHANGED <<repo, runs, owner, tags>>

-----------------------------------------------------------------------------
Init ==
    /\ agenda \in Agendas
    /\ \E sound \in BOOLEAN :
        commits = <<[parent |-> 0, watched |-> TRUE, relevant |-> TRUE, sound |-> sound,
                     packaged |-> TRUE, version |-> "old", accepted |-> FALSE]>>
    /\ main = <<1>>
    /\ runs = << <<Queued(SUITE_WORKFLOW, "push")>> >>
    /\ tree = [sha |-> 1, dirty |-> FALSE]
    /\ deploy = Idle
    /\ live = [sha |-> 0, dirty |-> FALSE]
    /\ tags = {} /\ published = {}

CiStep(s) ==
    \/ \E i \in DOMAIN runs[s] : EndCheck(s, i) \/ EndRun(s, i) \/ Rerun(s, i)
    \/ \E workflow \in {SUITE_WORKFLOW, "nightly.yml"} : Dispatch(s, workflow)

DeployStep ==
    \/ DeployTree \/ DeployGates \/ DeployProvenance \/ DeployCheck \/ DeployRan
    \/ DeployPreview \/ DeployMain

Next ==
    \/ OpenPull
    \/ \E s \in Shas : CiStep(s) \/ Merge(s) \/ FastForward(s)
    \/ \E workflow \in {SUITE_WORKFLOW, "nightly.yml"} : Schedule(workflow)
    \/ \E s \in Shas, dirty \in BOOLEAN : Checkout(s, dirty)
    \/ DeployStep
    \/ \E v \in Versions, s \in Shas : PushTag(v, s)
    \/ \E t \in tags : Publish(t)

Spec == Init /\ [][Next]_vars

-----------------------------------------------------------------------------
(* Properties *)

\* Commits, runs, the checkout, deploy.sh and the releases keep their types,
\* and name commits that exist.
ReleaseTypeOK ==
    /\ agenda \in Agenda
    /\ commits \in Seq(Commit)
    /\ runs \in Seq(Seq(Run)) /\ Len(runs) = Len(commits)
    /\ main \in Seq(Shas) /\ Len(main) > 0
    /\ tree \in Tree /\ tree.sha \in Shas
    /\ deploy \in [step : Steps, sha : Nat]
    /\ live \in Tree
    /\ tags \subseteq [version : Versions, sha : Shas]
    /\ published \subseteq tags

\* A run of the suite that is green has a green check, and outside a pull request
\* a green check has executed its gates: what suite_ran takes the event of a run
\* for.
RunsAreHonest ==
    \A s \in Shas : \A i \in DOMAIN runs[s] :
        LET r == runs[s][i] IN
        IsSuiteRun(r) =>
            /\ Green(r) => r.check = "success"
            /\ r.check = "success" /\ r.event # "pull_request" => r.passed

\* Some run of the suite has executed its gates on this commit and passed them.
Executed(s) == \E i \in DOMAIN runs[s] : runs[s][i].passed

\* Main was at one commit, or had it among its ancestors, before the other.
AtOrBefore(a, b) == \E p, q \in DOMAIN main : p <= q /\ main[p] = a /\ main[q] = b

\* What deploy.sh has found at one step is still so at the later ones, as long
\* as the owner leaves the checkout alone.
ChecksStayTrue ==
    /\ deploy.step # "idle" => ~tree.dirty
    /\ deploy.step \in {"check", "ran", "preview", "main"} =>
         /\ deploy.sha = tree.sha /\ tree.sha \in Merged
         /\ live.sha # 0 => AtOrBefore(live.sha, tree.sha)
    /\ deploy.step \in {"preview", "main"} => Executed(tree.sha)

\* Whatever the site or the package index is given is a commit of main on which
\* the suite was executed and passed: a green check that ran no gate, the green
\* run of another workflow, or a commit that was never merged will not do
\* (deploy.sh step 4, release_guards.sh 1c, check_run_verdict.py).
ShippedIsProven ==
    /\ live.sha # 0 => ~live.dirty /\ live.sha \in Merged /\ Executed(live.sha)
    /\ \A r \in published : r.sha \in Merged /\ Executed(r.sha)

\* The site only moves forward along main: although main moves on while deploy.sh
\* runs, no deployment puts an older commit in place of a newer one (deploy.sh
\* step 4, "HEAD is not origin/main").
SiteFollowsMain ==
    [][live' # live /\ live.sha # 0 => AtOrBefore(live.sha, live'.sha)]_vars

\* What has proven a commit once goes on proving it, whatever runs of whatever
\* workflow are queued, end green or end red after it (check_run_verdict.py, "a
\* newer in-progress run must never mask a green one"): only a run that is run
\* again takes its evidence back, and only a page full of newer runs hides it.
EvidenceStays ==
    [][\A s \in Shas :
        Proven(s) =>
            \/ Proven(s)' \/ Len(runs'[s]) > RunsPage
            \/ \E i \in DOMAIN runs[s] : Rerun(s, i)]_vars
=============================================================================
