------------------------------- MODULE ToolGate -------------------------------
(***************************************************************************)
(* execute_tool of tools/registry.py: look up, announce, gate, validate,   *)
(* run, save the tool_calls row, tell the observers.  The specialist's     *)
(* runner calls it, and next to it the confirmation and the approval       *)
(* workflow of any session of the same employee.  Every await ends a step. *)
(***************************************************************************)
EXTENDS ToolWorld, Sequences

CONSTANTS
  Unknown,    \* a name no tool has
  Accounts,   \* bound: the states the employee's account may start in
  MaxFaults   \* bound: failing store calls

ASSUME GateAssumption ==
  Unknown \notin Tools /\ Accounts \subseteq {"active", "locked"} /\ MaxFaults \in Nat

VARIABLES
  world,   \* what the handlers act on
  gate,    \* the call in progress of each caller
  rows,    \* the tool_calls rows of each caller, in the order they were saved
  did,     \* history: the work the handlers did, in order; whether its
           \* row said so, or was lost
  faults

gateVars == <<world, gate, rows, did, faults>>

Callers == {"specialist", "workflow"}
Names   == Tools \cup {Unknown}

(* run is the agent run the call belongs to; the workflows have none (0).  *)
Idle == [step |-> "idle", tool |-> Unknown, run |-> 0, authorized |-> FALSE,
         status |-> "none"]

Call == [step : {"idle", "announce", "handle", "save", "back"}, tool : Names,
         run : Nat, authorized : BOOLEAN, status : {"none", "succeeded", "failed"}]

ToolRow == [run : Nat, tool : Names, status : {"succeeded", "failed"}]

Work == [run : Nat, tool : Names, status : {"succeeded", "failed", "unaudited"}]

GateTypeOK ==
  /\ world \in World
  /\ gate \in [Callers -> Call]
  /\ rows \in [Callers -> Seq(ToolRow)] /\ did \in [Callers -> Seq(Work)]
  /\ faults \in Nat

GateInit ==
  /\ world \in {FreshWorld(account) : account \in Accounts}
  /\ gate = [c \in Callers |-> Idle]
  /\ rows = [c \in Callers |-> <<>>] /\ did = [c \in Callers |-> <<>>]
  /\ faults = 0

-----------------------------------------------------------------------------

AtGate(c, step) == gate[c].step = step

Pass(c, step)     == gate' = [gate EXCEPT ![c].step = step]
Settle(c, status) == gate' = [gate EXCEPT ![c].step = "save", ![c].status = status]

Entry(c, status) == [run |-> gate[c].run, tool |-> gate[c].tool, status |-> status]

Breaks == faults < MaxFaults /\ faults' = faults + 1

(* A caller enters execute_tool.                                           *)
Enter(c, t, run, authorized) ==
  /\ AtGate(c, "idle")
  /\ gate' = [gate EXCEPT ![c] =
       [step |-> IF t \in Tools THEN "announce" ELSE "save", tool |-> t, run |-> run,
        authorized |-> authorized, status |-> IF t \in Tools THEN "none" ELSE "failed"]]

(* Mutant: only the tools that change an account are held back.            *)
BlockedForIdentity(c) ==
  gate[c].tool \in Privileged \cap Catalogue.identity /\ ~gate[c].authorized

Blocked(c) == gate[c].tool \in Privileged /\ ~gate[c].authorized

(* TOOL_CALLED is recorded, and it changes nothing if that fails; then the *)
(* privilege gate and the validation of the parameters, with no await.     *)
Announce(c) ==
  /\ AtGate(c, "announce")
  /\ \/ Settle(c, "failed")
     \/ ~Blocked(c) /\ Pass(c, "handle")
  /\ UNCHANGED <<world, rows, did, faults>>

(* The handler returns.                                                    *)
HandlerWorks(c) ==
  /\ AtGate(c, "handle") /\ MayWork(gate[c].tool, world)
  /\ world' = After(gate[c].tool, world)
  /\ did' = [did EXCEPT ![c] = Append(@, Entry(c, "succeeded"))]
  /\ Settle(c, "succeeded")
  /\ UNCHANGED <<rows, faults>>

HandlerRaises(c) ==
  /\ AtGate(c, "handle") /\ MayRaise(gate[c].tool, world)
  /\ Settle(c, "failed")
  /\ UNCHANGED <<world, rows, did, faults>>

(* The store takes longer than TOOL_TIMEOUT_SECONDS, or fails: the handler *)
(* is cut off with its transaction committed or not.                       *)
HandlerCutOff(c) ==
  /\ AtGate(c, "handle") /\ gate[c].tool \in TicketingTools
  /\ Breaks
  /\ \/ UNCHANGED <<world, did>>
     \/ /\ world' = After(gate[c].tool, world)
        /\ did' = [did EXCEPT ![c] = Append(@, Entry(c, "failed"))]
  /\ Settle(c, "failed")
  /\ UNCHANGED rows

(* Mutant: the row says what the handler should have done.                 *)
SaveSucceeded(c) == rows' = [rows EXCEPT ![c] = Append(@, Entry(c, "succeeded"))]

SaveRow(c) == rows' = [rows EXCEPT ![c] = Append(@, Entry(c, gate[c].status))]

(* The row is saved and the outcome told, which may fail as it likes.      *)
Save(c) ==
  /\ AtGate(c, "save") /\ SaveRow(c) /\ Pass(c, "back")
  /\ UNCHANGED <<world, did, faults>>

Unaudited(work) == [work EXCEPT ![Len(work)].status = "unaudited"]

(* The result flows back to the caller without its row; nothing is told.   *)
SaveFails(c) ==
  /\ AtGate(c, "save") /\ Breaks /\ Pass(c, "back")
  /\ did' = IF gate[c].status = "succeeded"
            THEN [did EXCEPT ![c] = Unaudited(@)] ELSE did
  /\ UNCHANGED <<world, rows>>

ExecuteTool(c) ==
  \/ Announce(c) \/ HandlerWorks(c) \/ HandlerRaises(c) \/ HandlerCutOff(c)
  \/ Save(c) \/ SaveFails(c)

Leave(c) == AtGate(c, "back") /\ gate' = [gate EXCEPT ![c] = Idle]
=============================================================================
