------------------------------ MODULE RoleDiscovery ------------------------------
(***************************************************************************)
(* Which agents a run has: repo_analyzer.analyze recommends roles from     *)
(* what it finds in a repository, hydrates them from the registry of agent *)
(* files, and _build_role_map makes the role map that the engine looks its *)
(* roles up in.  An agent is its max_retries, all that the engine takes    *)
(* from its specification.  Everything here is constant level.             *)
(***************************************************************************)
EXTENDS ExecutionPlan

--------------------------------------------------------------------------------
(* What the detectors report of a repository.                              *)

\* The number of languages counts up to two.  A REST framework is one of fastapi,
\* django and spring.  A contributing guide is looked for in three places.
Repositories ==
  [languages : 0..2, rest_framework : BOOLEAN, openapi : BOOLEAN, migrations : BOOLEAN,
   tests : BOOLEAN, ci : BOOLEAN, infrastructure : BOOLEAN, e2e : BOOLEAN,
   guides : [1..3 -> {"missing", "plain", "security"}]]

\* _parse_contributing_doc reads the first guide there is.
SecurityGuide(guides) ==
  \E i \in 1..3 : guides[i] = "security" /\ \A j \in 1..(i - 1) : guides[j] = "missing"

HasSource(repo) == repo.languages > 0

HasArchitecture(repo) ==
  repo.openapi \/ repo.rest_framework \/ repo.languages > 1 \/ repo.migrations

\* Mutation: a reviewer needs CI.
RecommendedNeedingCI(repo) ==
  {"orchestrator"}
  \cup {role \in {"implementer", "debugger"} : HasSource(repo)}
  \cup {role \in {"architect"} : HasArchitecture(repo)}
  \cup {role \in {"qa-engineer"} : repo.tests \/ HasSource(repo)}
  \cup {role \in {"reviewer"} : repo.ci}

\* _determine_roles, the built-in ones.
Recommended(repo) ==
  {"orchestrator"}
  \cup {role \in {"implementer", "debugger"} : HasSource(repo)}
  \cup {role \in {"architect"} : HasArchitecture(repo)}
  \cup {role \in {"qa-engineer"} : repo.tests \/ HasSource(repo)}
  \cup {role \in {"reviewer"} : repo.ci \/ HasSource(repo)}

\* The roles with specifications of their own.
CustomSpecs(repo) ==
  [role \in {r \in {"infra-engineer"} : repo.infrastructure}
            \cup {r \in {"test-automation-engineer"} : repo.e2e}
            \cup {r \in {"security-reviewer"} : SecurityGuide(repo.guides)} |->
     IF role = "test-automation-engineer" THEN 2 ELSE 1]

--------------------------------------------------------------------------------
(* The registry.                                                           *)

\* agent_core/agents/*.yaml
Builtin == [role \in Roles |-> IF role = "orchestrator" THEN 1 ELSE 2]

\* _load_from_dir: the files of a directory in the order they are read.  A file that
\* cannot be parsed, or that the schema refuses, is skipped; of the others the last
\* one of a role replaces what is known of it.
LoadFromDir(registry, files) ==
  LET Valid(role) == {i \in 1..Len(files) : files[i].valid /\ files[i].role = role}
      Last(role)  == CHOOSE i \in Valid(role) : \A j \in Valid(role) : j <= i
  IN  [role \in DOMAIN registry \cup {files[i].role : i \in {j \in 1..Len(files) : files[j].valid}} |->
         IF Valid(role) # {} THEN files[Last(role)].max_retries ELSE registry[role]]

\* Built-in agents first, the local ones over them.
Registry(files) == LoadFromDir(Builtin, files)

\* analyze: a recommended role with a specification of its own keeps it, the others
\* are looked up; one that nobody knows is dropped.
AgentSpecs(repo, files) ==
  LET custom == CustomSpecs(repo)
      known  == Recommended(repo) \cap DOMAIN Registry(files)
  IN  [role \in DOMAIN custom \cup known |->
         IF role \in DOMAIN custom THEN custom[role] ELSE Registry(files)[role]]

\* _build_role_map: agents of the configuration replace the discovered ones.
BuildRoleMap(agents, specs) == IF DOMAIN agents # {} THEN agents ELSE specs

\* The part of a role map that the phases of a plan can ask for.
PhaseRoles(map) == [role \in DOMAIN map \cap Roles |-> map[role]]
================================================================================
