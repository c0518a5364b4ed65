--------------------------- MODULE MCAgentRuntime ---------------------------
(* Jobs and configurations for TLC.                                        *)
EXTENDS AgentRuntime

CONSTANTS f, a

Job(tool, path, old) == [tool |-> tool, path |-> path, old |-> old]

SomeJobs ==
  {Job(name, f, a) : name \in FileTools \cup {"command.exec", "tools.list", "echo", "nosuch", "none", ""}}
    \cup {Job("file.write", Outside, a)}

Config(mode, allowed, roots, commands) ==
  [mode |-> mode, allowed |-> allowed, roots |-> roots, commands |-> commands]

\* Everything allowed, in both modes the configuration knows; edits only, with any
\* planner; nothing allowed; one piece missing.
SomeConfigs ==
  {Config(mode, Registered, TRUE, TRUE) : mode \in {"basic", "loop"}}
    \cup {Config("planned", {"file.edit"}, TRUE, TRUE), Config("basic", {}, TRUE, TRUE),
          Config("loop", {"file.read", "file.edit"}, TRUE, FALSE),
          Config("basic", Registered, FALSE, TRUE), Config("loop", Registered, TRUE, FALSE)}
=============================================================================
