---------------------------- MODULE PlatformDrivers ----------------------------
(***************************************************************************)
(* The platform drivers: when one can be built, and what each makes of the *)
(* reply of its platform before BaseAgentDriver.invoke sees it.            *)
(***************************************************************************)

Platforms == {"claude-code", "codex", "openai", "gemini", "generic"}

\* Nobody registers a driver for the generic platform.
Registered == Platforms \ {"generic"}

ClaudeBuilds(key) == key
CodexBuilds(key)  == key

\* Vertex AI takes its token from the environment, and needs no key.
GeminiBuilds(key, useVertex) == key \/ useVertex

\* _get_driver: an unregistered platform and a missing key raise.
DriverBuilds(platform, key, useVertex) ==
  CASE platform = "claude-code"          -> ClaudeBuilds(key)
    [] platform \in {"codex", "openai"}  -> CodexBuilds(key)
    [] platform = "gemini"               -> GeminiBuilds(key, useVertex)
    [] OTHER                             -> FALSE

--------------------------------------------------------------------------------
\* A body that is no JSON, or JSON but no object, or an object that lacks a field the
\* driver reads, or has null there; or one of the right shape, without or with a text.
Bodies == {"unreadable", "other", "lacking", "null", "empty", "text"}

\* A text that is no JSON, JSON but no object, an object that the schema refuses, or
\* a StructuredResult.
Texts == {"prose", "list", "refused", "result"}

Replies == [code : {200, 429, 500}, body : Bodies, text : Texts]

\* _parse_json_result.
Parse(text) ==
  CASE text \in {"prose", "refused"} -> "malformed"
    [] text = "list"                 -> "unexpected"
    [] OTHER                         -> "result"

ClaudeText(reply) ==
  CASE reply.body = "unreadable" -> "unexpected"
    [] reply.body = "text"       -> Parse(reply.text)
    [] OTHER                     -> "malformed"

\* Only missing keys and indices are expected; null raises a TypeError, and a content
\* that is null becomes the text None.
CodexText(reply) ==
  CASE reply.body \in {"unreadable", "null"} -> "unexpected"
    [] reply.body = "text"                   -> Parse(reply.text)
    [] reply.body = "empty"                  -> Parse("prose")
    [] OTHER                                 -> "malformed"

\* No parts make an empty text.
GeminiText(reply) ==
  CASE reply.body = "unreadable" -> "unexpected"
    [] reply.body = "text"       -> Parse(reply.text)
    [] reply.body = "empty"      -> Parse("prose")
    [] OTHER                     -> "malformed"

\* What invoke has of a reply: a result, or the kind of exception that is raised.
Outcome(platform, reply) ==
  CASE reply.code = 429 -> "rate_limit"
    [] reply.code = 500 -> "driver_error"
    [] reply.code = 200 /\ platform = "claude-code" -> ClaudeText(reply)
    [] reply.code = 200 /\ platform = "gemini"      -> GeminiText(reply)
    [] OTHER -> CodexText(reply)
================================================================================
