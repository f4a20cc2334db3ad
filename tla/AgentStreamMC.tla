--------------------------- MODULE AgentStreamMC ----------------------------
(* Values for model checking AgentStream: tools of every kind. *)
EXTENDS AgentStream

ToolNames == {"search", "write", "unknown"}
RegisteredNames == {"search", "write"}
RetryableNames == {"search"}
SerialNames == {"write"}

=============================================================================
