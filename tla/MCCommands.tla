----------------------------- MODULE MCCommands -----------------------------
(* Commands of clients, for TLC: commands on a task, tools.invoke and the   *)
(* policy commands.  The components share no state: one of them moves in a  *)
(* behaviour, so that their states add and do not multiply.                 *)
EXTENDS TaskRuntime, ToolInvoke, MCPolicyRelease

VARIABLE moving
commandVars == <<vars, invokeVars, policyVars, moving>>

\* The policy commands come from the callers of the task runtime.
CommandSymmetry == Permutations(Clients)

\* A component that does not move is in one of its initial states.
CommandInit ==
  /\ moving \in {"tasks", "calls", "policies"}
  /\ Init /\ InvokeInit /\ PolicyInit
  /\ moving # "policies" => inForce = NoPolicy /\ passed = {}

CommandNext ==
  \/ moving = "tasks" /\ Next /\ UNCHANGED <<invokeVars, policyVars, moving>>
  \/ moving = "calls" /\ InvokeNext /\ UNCHANGED <<vars, policyVars, moving>>
  \/ moving = "policies" /\ PolicyNext /\ UNCHANGED <<vars, invokeVars, moving>>

CommandSpec == CommandInit /\ [][CommandNext]_commandVars
=============================================================================
