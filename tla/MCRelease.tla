----------------------------- MODULE MCRelease -----------------------------
(* Agendas of deployments: a change that no workflow watches, one of        *)
(* action.yml with runs that are run again, and an unsound change with a    *)
(* sound one on a lane branch.  And of releases: an acceptance and a final  *)
(* version, a candidate, and a candidate whose parts disagree.  The page is *)
(* short enough for a lane branch to fill it.                               *)
EXTENDS Release

A(kind, sound, packaged, lane) ==
    [kind |-> kind, sound |-> sound, packaged |-> packaged, lane |-> lane]
Of(deploys, c, n, reruns, changes) ==
    [deploys |-> deploys, commits |-> c, runs |-> n, reruns |-> reruns, changes |-> changes]

MCAgendas ==
    { Of(TRUE, 2, 2, FALSE, <<A("unwatched", TRUE, TRUE, FALSE)>>),
      Of(TRUE, 3, 1, TRUE, <<A("action", TRUE, TRUE, FALSE)>>),
      Of(TRUE, 4, 1, FALSE, <<A("suite", FALSE, TRUE, FALSE), A("suite", TRUE, TRUE, TRUE)>>),
      Of(FALSE, 3, 0, FALSE, <<A("accept", TRUE, TRUE, FALSE), A("final", TRUE, TRUE, FALSE)>>),
      Of(FALSE, 3, 0, FALSE, <<A("rc", TRUE, TRUE, FALSE)>>),
      Of(FALSE, 3, 0, FALSE, <<A("rc", TRUE, FALSE, FALSE)>>) }
=============================================================================
