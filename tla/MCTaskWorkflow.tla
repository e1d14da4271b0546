--------------------------- MODULE MCTaskWorkflow ---------------------------
(* Instances of TaskWorkflow: the requests callers make of one task. *)
EXTENDS TaskWorkflow, TLC

Request(name, type) == [id |-> <<"api", name>>, key |-> <<"api", name>>, type |-> type]

MCStart == Request("start", "START")
MCPauseResume == {Request("pause", "PAUSE"), Request("resume", "RESUME")}
MCKill == {Request("kill", "KILL")}
MCCompletion == {Request("verify", "VERIFY"), Request("complete", "COMPLETE")} \cup MCKill
MCControls == MCPauseResume \cup MCKill
=============================================================================
