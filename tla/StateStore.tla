------------------------------- MODULE StateStore -------------------------------
(***************************************************************************)
(* The state stores of persistence.py and drivers/redis_store.py, as far   *)
(* as their callers can tell them apart: which store a caller gets, which  *)
(* operations suspend the caller, and what of an entry is still there when *)
(* somebody else loads it.                                                 *)
(*                                                                         *)
(* A load answers None for a missing entry and for an unreadable one.  The *)
(* modules that use this one keep the two apart: a run that was lost is    *)
(* not a run that was never saved.                                         *)
(***************************************************************************)

Kinds == {"file", "memory", "redis"}

--------------------------------------------------------------------------------
(* Which store.                                                            *)

\* AGENT_SWARM_REDIS_URL and AGENT_SWARM_STATE_DIR: whether each is set.
Environments == [redis : BOOLEAN, dir : BOOLEAN]

\* The store that an engine of the API server works with: _build_api_config.
ApiConfig(env) ==
  [kind  |-> IF env.redis THEN "redis" ELSE "file",
   place |-> IF env.redis THEN "AGENT_SWARM_REDIS_URL"
             ELSE IF env.dir THEN "AGENT_SWARM_STATE_DIR" ELSE "state_dir"]

\* Every call makes a store of its own: of two memory stores neither sees what the
\* other keeps.
GetStateStore(config, caller) ==
  [kind  |-> config.kind,
   place |-> IF config.kind = "memory" THEN caller ELSE config.place]

\* The store that the requests of the API server read: get_default_state_store.
GetDefaultStateStore(env) ==
  CASE env.redis            -> [kind |-> "redis", place |-> "AGENT_SWARM_REDIS_URL"]
    [] ~env.redis /\ env.dir -> [kind |-> "file", place |-> "AGENT_SWARM_STATE_DIR"]
    [] OTHER                -> [kind |-> "file", place |-> "state_dir"]

--------------------------------------------------------------------------------
(* What is left of an entry.                                               *)

\* Only the Redis client gives way to other tasks while it loads or saves.
Suspends(kind) == kind = "redis"

\* What another call finds where one has saved an entry.
FoundAnew(kind, entry, none) == IF kind = "memory" THEN none ELSE entry

\* write_text truncates the file and then writes it: a save that is cut off in the
\* middle leaves a file that cannot be read.  SET is atomic.
CutOff(kind, entry, saving, torn) ==
  {entry} \cup (IF kind = "file" /\ saving THEN {torn} ELSE {})

\* A memory store is a dictionary of the process.
AfterCrash(kind, entry, saving, torn, none) ==
  IF kind = "memory" THEN {none} ELSE CutOff(kind, entry, saving, torn)

\* A key in Redis lapses _ttl seconds after the last save.
MayLapse(kind) == kind = "redis"
================================================================================
