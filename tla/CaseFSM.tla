------------------------------- MODULE CaseFSM -------------------------------
(***************************************************************************)
(* The finite-state machine of a recovery case (app/domain/fsm.py).        *)
(* case_service.transition refuses every move CanTransition rejects by     *)
(* raising ValueError, which rolls the surrounding DB transaction back.    *)
(***************************************************************************)

ActiveStatuses ==
  {"DETECTED", "ANALYZING", "DIAGNOSED", "PLANNED", "POLICY_CHECK",
   "AWAITING_APPROVAL", "APPROVED", "EXECUTING", "VERIFYING"}

TerminalStatuses ==
  {"RECOVERED", "CLOSED_UNRECOVERED", "EXPIRED", "CANCELLED", "BLOCKED",
   "ESCALATED", "FAILED"}

CaseStatuses == ActiveStatuses \cup TerminalStatuses

\* What the table lets the policy gate, the executor and the verifier do.
PolicyMoves == {"APPROVED", "AWAITING_APPROVAL", "PLANNED", "BLOCKED"}

\* Mutant: the executor's route to a human is missing from the table.
ExecutorMovesNoHuman == {"VERIFYING", "FAILED"}
ExecutorMoves == {"VERIFYING", "AWAITING_APPROVAL", "FAILED"}
VerifierMoves == {"RECOVERED", "CLOSED_UNRECOVERED", "DIAGNOSED"}

\* The authoritative transition table, the actor of each row left out.
TRANSITIONS ==
  {<<"DETECTED", "ANALYZING">>, <<"ANALYZING", "DIAGNOSED">>,
   <<"ANALYZING", "FAILED">>, <<"DIAGNOSED", "PLANNED">>,
   <<"PLANNED", "POLICY_CHECK">>, <<"APPROVED", "EXECUTING">>,
   <<"AWAITING_APPROVAL", "APPROVED">>, <<"AWAITING_APPROVAL", "ESCALATED">>}
    \cup ({"POLICY_CHECK"} \X PolicyMoves)
    \cup ({"EXECUTING"} \X ExecutorMoves)
    \cup ({"VERIFYING"} \X VerifierMoves)

\* can_transition: a status may always be "re-entered", the table's rows are
\* legal, the scheduler may expire or cancel any active case, and an observed
\* capture makes any active case RECOVERED.
CanTransition(frm, to) ==
  \/ frm = to
  \/ <<frm, to>> \in TRANSITIONS
  \/ frm \in ActiveStatuses /\ to \in {"EXPIRED", "CANCELLED", "RECOVERED"}

IsTerminal(s) == s \in TerminalStatuses
=============================================================================
