---------------------------- MODULE MCAutonomousRun ----------------------------
(***************************************************************************)
(* AutonomousRun with the role maps that repo_analyzer discovers, for      *)
(* every repository it can tell apart.  The built-in agents have two       *)
(* retries, which let a run be sent back twice on each loop and both loops *)
(* interleave; local agent files lower them to one, and to none, which     *)
(* makes the first failure the last.                                       *)
(***************************************************************************)
EXTENDS AutonomousRun, RoleDiscovery

AgentFile(role, retries) == [role |-> role, valid |-> TRUE, max_retries |-> retries]

\* The second file of the debugger cannot be parsed.
AgentFiles(debugger, implementer) ==
  <<AgentFile("debugger", debugger), AgentFile("implementer", implementer),
    [AgentFile("debugger", 5) EXCEPT !.valid = FALSE]>>

\* Custom roles are never asked for: one choice of what they come from is enough.
SmallRepositories ==
  {repo \in Repositories :
     repo.infrastructure /\ ~repo.e2e /\ repo.guides = <<"missing", "security", "plain">>}

MapsOf(repositories, directories) ==
  {PhaseRoles(BuildRoleMap(<<>>, AgentSpecs(repo, files))) :
     repo \in repositories, files \in directories}

\* An architect is called in one phase, whose retries nothing counts: repositories
\* without one need only one setting of the retries.
DiscoveredMaps ==
  MapsOf(SmallRepositories, {AgentFiles(1, 1)})
  \cup MapsOf({repo \in SmallRepositories : HasArchitecture(repo) /\ HasSource(repo)},
              {<<>>, AgentFiles(0, 1)})

\* TLC evaluates a definition that stands for a constant anew at every use, and one
\* that it names only once.
AllMaps == DiscoveredMaps

--------------------------------------------------------------------------------
(* What discovery means for a run.                                         *)

\* A run over a discovered role map that stops for a missing role has called one agent
\* at most, and neither implementer nor debugger: an architect, or, if it generates
\* tests, the QA engineer, whose result the executor may have applied before the
\* reviewer is missed.  Whoever can implement or debug is discovered together with
\* those who verify and review it.
StopsBeforeImplementing ==
  run.escalation_reason = "role" /\ run.phase_results # <<>> =>
    /\ Len(run.phase_results) = 1
    /\ ~Failing(run.phase_results[1])
    /\ \/ run.phase_results[1].phase = "design"
       \/ run.phase_results[1].phase = "verify" /\ run.flow = "test-generation"
================================================================================
