-------------------------------- MODULE Turn --------------------------------
(***************************************************************************)
(* One turn of the skill builder: runtime.handle_turn with its handlers,   *)
(* the AGUIEmitter it writes to (protocol/agui.py) and the tool layer it   *)
(* calls (tools.py).  A turn runs on one thread, so its steps are          *)
(* sequential; a step of the model is a stretch of code between two calls  *)
(* that may raise: the contract loaders, the model, the parser of a tool   *)
(* result and the patch library.  Whatever raises inside handle_turn's try *)
(* ends in its one `except Exception`, with the events emitted so far left *)
(* where they are.                                                         *)
(***************************************************************************)
EXTENDS DraftConfig

CONSTANTS
  Inputs,          \* the turns the gateway may ask for, a subset of Input
  Decisions,       \* what the model may answer, a subset of Decision
  MaxCalls,        \* model calls a turn may make: 2 in the code, one and one
                   \* more with the tool forced when it answered in prose
  ContractsSound   \* TRUE: no contract loader of contracts.py ever raises

VARIABLES
  input,      \* the parsed RunAgentInput of this turn
  pc,         \* which handler is about to run
  draft,      \* state.draft_config, the runtime's own copy
  events,     \* AGUIEmitter.events
  usage,      \* AGUIEmitter.usage, in model calls
  spent,      \* the model calls the provider has billed for in this turn
  decision    \* the ModelDecision being applied

vars == <<input, pc, draft, events, usage, spent, decision>>

----------------------------------------------------------------------------
(* Inputs and decisions.                                                   *)

Tools      == {"request_test_run", "request_finalize"}
Statuses   == {"succeeded", "rejected", "declined"}
ToolResult == [tool : Tools, status : Statuses]
NoTool     == [tool |-> "none", status |-> "none"]
Garbled    == [tool |-> "none", status |-> "garbled"]  \* parse_tool_result raises

(* kickoff: no assistant message in the history.  pending: the content of  *)
(* a trailing tool message.  catalog: the verticals for which the skills   *)
(* the gateway sent hold an active one of the customer's lead type; `Match`*)
(* of Library says which those are.  wired: a model is passed to           *)
(* handle_turn.                                                            *)
Input == [wellFormed : BOOLEAN, kickoff : BOOLEAN, edit : BOOLEAN,
          pending : ToolResult \cup {NoTool, Garbled},
          catalog : SUBSET Verticals, vertical : Verticals \cup {NoVertical},
          wired : BOOLEAN, config : Config, acceptance : Acceptance]

Actions == {"propose_section", "request_test_run", "request_finalize",
            "connect_existing", "await_human"}

Reasons == {"awaiting_phase_acceptance", "awaiting_decision",
            "awaiting_test_run", "awaiting_finalize"}
NoReason      == "None"
InventedReason == "invented"   \* any string outside the closed vocabulary

Phases == Sections \cup Members \cup {NoPhase, RootKey, UnknownKey, BadPointer}

(* An action string outside ACTIONS is treated as await_human.             *)
Decision == [action : Actions, phase : Phases, body : Body,
             vertical : Verticals \cup {NoVertical}, slugOk : BOOLEAN,
             reason : Reasons \cup {NoReason, InventedReason}]

NoDecision == [action |-> "await_human", phase |-> NoPhase, body |-> EmptyBody,
               vertical |-> NoVertical, slugOk |-> TRUE, reason |-> NoReason]

ASSUME InputsAssumption    == Inputs \subseteq Input
ASSUME DecisionsAssumption == Decisions \subseteq Decision
ASSUME SoundAssumption     == ContractsSound \in BOOLEAN
ASSUME CallsAssumption     == MaxCalls \in Nat \ {0}

----------------------------------------------------------------------------
(* The emitter.  Every method appends whole events.                        *)

Steps    == {"connect_or_build", "kickoff_confirmation", "connect",
             "request_declined", "review_test_results"}
NoStep   == "None"
Codes    == {"invalid_input", "invalid_config", "internal_error"}

(* usage 0 stands for the key left out of the result.                      *)
Result == [outcome : {"interrupt", "tool_call", "finalized"},
           reason : Reasons \cup {NoReason}, step : Steps \cup {NoStep},
           phase : Phases, tool : Tools \cup {"none"}, usage : 0 .. MaxCalls]

Event ==
  [type : {"RUN_STARTED", "TEXT_MESSAGE_START", "TEXT_MESSAGE_CONTENT",
           "TEXT_MESSAGE_END"}]
  \cup [type : {"TOOL_CALL_START", "TOOL_CALL_END"}, tool : Tools]
  \cup [type : {"TOOL_CALL_ARGS"}, tool : Tools, config : Config]
  \cup [type : {"STATE_SNAPSHOT"}, config : Config, acceptance : Acceptance]
  \cup [type : {"STATE_DELTA"}, patch : Patch]
  \cup [type : {"RUN_FINISHED"}, result : Result]
  \cup [type : {"RUN_ERROR"}, code : Codes]

RunStarted == <<[type |-> "RUN_STARTED"]>>

Message == <<[type |-> "TEXT_MESSAGE_START"], [type |-> "TEXT_MESSAGE_CONTENT"],
             [type |-> "TEXT_MESSAGE_END"]>>

(* Mutant: a tool call that is never closed.                               *)
ToolCallUnclosed(tool, config) ==
  <<[type |-> "TOOL_CALL_START", tool |-> tool],
    [type |-> "TOOL_CALL_ARGS", tool |-> tool, config |-> config]>>

ToolCall(tool, config) ==
  <<[type |-> "TOOL_CALL_START", tool |-> tool],
    [type |-> "TOOL_CALL_ARGS", tool |-> tool, config |-> config],
    [type |-> "TOOL_CALL_END", tool |-> tool]>>

StateSnapshot(config, acceptance) ==
  <<[type |-> "STATE_SNAPSHOT", config |-> config, acceptance |-> acceptance]>>

StateDelta(patch) == <<[type |-> "STATE_DELTA", patch |-> patch]>>

RunError(code) == <<[type |-> "RUN_ERROR", code |-> code]>>

(* run_finished attaches the usage recorded so far to whatever result the  *)
(* terminal path passes.                                                   *)
RunFinished(outcome, reason, step, phase, tool) ==
  <<[type |-> "RUN_FINISHED",
     result |-> [outcome |-> outcome, reason |-> reason, step |-> step,
                 phase |-> phase, tool |-> tool, usage |-> usage]]>>

(* Mutant: forward whatever the model wrote.                               *)
UncoercedReason(reason) == reason

CoerceInterruptReason(reason) ==
  IF reason \in Reasons THEN reason ELSE "awaiting_decision"

Interrupt(reason, step, phase) ==
  RunFinished("interrupt", CoerceInterruptReason(reason), step, phase, "none")

ToolRequested(tool) == RunFinished("tool_call", NoReason, NoStep, NoPhase, tool)

Finalized == RunFinished("finalized", NoReason, NoStep, NoPhase, "none")

Emit(frames) == events' = events \o frames

----------------------------------------------------------------------------
(* The handlers.                                                           *)

Goto(from, to) == pc = from /\ pc' = to

(* Mutant: the handler logs and forgets the RUN_ERROR.                     *)
CrashSilently(frames) == pc' = "done" /\ Emit(frames)

(* `except Exception` of handle_turn, after `frames` were emitted.         *)
Crash(frames) == pc' = "done" /\ Emit(frames \o RunError("internal_error"))

(* A call that loads a contract returns, or raises when one is unreadable. *)
ContractsRaise == ~ContractsSound

(* The envelope does not validate: no RUN_STARTED, a lone RUN_ERROR.       *)
RejectEnvelope ==
  /\ Goto("parse", "done")
  /\ ~input.wellFormed
  /\ Emit(RunError("invalid_input"))
  /\ UNCHANGED <<input, draft, usage, spent, decision>>

(* Mutant: a session is a session, whatever its mode.                      *)
RouteIgnoringMode ==
  IF input.pending # NoTool THEN "after_tool"
  ELSE IF input.kickoff THEN "kickoff" ELSE "continue"

Route == IF input.pending # NoTool THEN "after_tool"
         ELSE IF input.kickoff
              THEN IF input.edit THEN "kickoff_edit" ELSE "kickoff"
              ELSE "continue"

StartRun ==
  /\ Goto("parse", Route)
  /\ input.wellFormed
  /\ Emit(RunStarted)
  /\ UNCHANGED <<input, draft, usage, spent, decision>>

(* catalog.best_match: nothing matches a context without a vertical.       *)
CatalogHit == input.vertical \in input.catalog

(* _kickoff with a library match: recommend connecting, seed nothing.      *)
KickoffHit ==
  /\ Goto("kickoff", "prompt")
  /\ CatalogHit
  /\ Emit(Message \o Interrupt("awaiting_decision", "connect_or_build", NoPhase))
  /\ UNCHANGED <<input, draft, usage, spent, decision>>

(* _kickoff without one: message, skeleton, validation, snapshot.          *)
KickoffBuild ==
  /\ pc = "kickoff"
  /\ ~CatalogHit
  /\ draft' = Skeleton(input.vertical)
  /\ LET invalid == SchemaIssues(draft', FALSE) # {}
         opening == StateSnapshot(draft', input.acceptance)
                      \o Interrupt("awaiting_decision", "kickoff_confirmation", NoPhase)
     IN  \/ /\ pc' = (IF invalid THEN "done" ELSE "prompt")
            /\ Emit(Message \o (IF invalid THEN RunError("invalid_config") ELSE opening))
         \/ ContractsRaise /\ Crash(Message)
  /\ UNCHANGED <<input, usage, spent, decision>>

AuthoredSections(config) == {s \in Sections : config.sections[s] # EmptyBody}

(* _kickoff_edit refuses a session whose skill did not arrive with it.     *)
KickoffEditRefused ==
  /\ Goto("kickoff_edit", "done")
  /\ AuthoredSections(draft) = {}
  /\ Emit(RunError("invalid_input"))
  /\ UNCHANGED <<input, draft, usage, spent, decision>>

KickoffEdit ==
  /\ Goto("kickoff_edit", "prompt")
  /\ AuthoredSections(draft) # {}
  /\ Emit(Message \o Interrupt("awaiting_decision", "kickoff_confirmation", NoPhase))
  /\ UNCHANGED <<input, draft, usage, spent, decision>>

(* _continue composes the prompt before anything else.                     *)
Compose ==
  /\ pc = "continue"
  /\ \/ pc' = (IF input.wired THEN "decide" ELSE "fallback") /\ UNCHANGED events
     \/ ContractsRaise /\ Crash(<<>>)
  /\ UNCHANGED <<input, draft, usage, spent, decision>>

(* No model: the canned reply of either state, and never a tool call.      *)
Fallback ==
  /\ Goto("fallback", "done")
  /\ Emit(Message \o IF AllPhasesAccepted(input.acceptance)
                     THEN Interrupt("awaiting_test_run", NoStep, NoPhase)
                     ELSE Interrupt("awaiting_phase_acceptance", NoStep,
                                    NextOpenPhase(input.acceptance)))
  /\ UNCHANGED <<input, draft, usage, spent, decision>>

(* Mutant: bill the retry alone.                                           *)
RecordLastCall(calls) == usage' = usage + 1

RecordUsage(calls) == usage' = usage + calls

(* model.decide answers; its usage is recorded before the decision is      *)
(* applied, because applying it emits the terminal event.                  *)
ModelDecides ==
  /\ Goto("decide", "vertical")
  /\ \E d \in Decisions, calls \in 1 .. MaxCalls :
       /\ decision' = d
       /\ spent' = calls
       /\ RecordUsage(calls)
  /\ UNCHANGED <<input, draft, events>>

(* model.decide raises: the provider refuses, or it answers nothing usable *)
(* and is billed for it all the same.                                      *)
ModelRaises ==
  /\ pc = "decide"
  /\ spent' \in 0 .. MaxCalls
  /\ Crash(<<>>)
  /\ UNCHANGED <<input, draft, usage, decision>>

(* Mutant: emit the patch and forget the local copy.                       *)
EmitVerticalOnly(patch) == Emit(StateDelta(patch)) /\ UNCHANGED draft

RecordVertical(patch) == Emit(StateDelta(patch)) /\ draft' = ApplyPatch(draft, patch)

(* _apply_vertical: on any action, and only to fill a gap.                 *)
ApplyVertical ==
  /\ Goto("vertical", "apply")
  /\ IF decision.vertical = NoVertical \/ HasVertical(draft)
     THEN UNCHANGED <<draft, events>>
     ELSE RecordVertical(VerticalWrite(draft, decision.vertical, input.edit))
  /\ UNCHANGED <<input, usage, spent, decision>>

(* decision.phase or open_phase or ""                                      *)
TargetPhase ==
  IF decision.phase # NoPhase THEN decision.phase
  ELSE IF AllPhasesAccepted(input.acceptance) THEN UnknownKey
  ELSE NextOpenPhase(input.acceptance)

(* Mutant: the delta is emitted before the section is validated.           *)
ProposeBeforeGate ==
  /\ pc = "apply"
  /\ decision.action = "propose_section"
  /\ LET patch == SetSection(draft, TargetPhase, decision.body, input.edit)
     IN  \/ Crash(StateDelta(patch))
         \/ /\ pc' = "done"
            /\ Emit(StateDelta(patch) \o Message
                      \o Interrupt("awaiting_phase_acceptance", NoStep, TargetPhase))
  /\ UNCHANGED <<input, draft, usage, spent, decision>>

ProposeSection ==
  /\ pc = "apply"
  /\ decision.action = "propose_section"
  /\ LET patch     == SetSection(draft, TargetPhase, decision.body, input.edit)
         newConfig == ApplyPatch(draft, patch)
         handBack  == Interrupt("awaiting_phase_acceptance", NoStep, TargetPhase)
     IN  \/ /\ MayRaise(draft, TargetPhase) \/ ContractsRaise
            /\ Crash(<<>>)
            /\ UNCHANGED draft
         \/ /\ TargetPhase # BadPointer
            /\ SectionIssues(newConfig) # {}
            /\ pc' = "done"
            /\ Emit(Message \o handBack)
            /\ UNCHANGED draft
         \/ /\ TargetPhase # BadPointer
            /\ SectionIssues(newConfig) = {}
            /\ pc' = "done"
            /\ draft' = newConfig
            /\ Emit(Message \o StateDelta(patch) \o handBack)
  /\ UNCHANGED <<input, usage, spent, decision>>

(* The issues as a message, and the section to repair.                     *)
Blocked(phase) == Message \o Interrupt("awaiting_phase_acceptance", NoStep, phase)

(* Mutant: the argument is what the turn was given, not what it made.      *)
RequestedWithInput(tool) == ToolCall(tool, input.config) \o ToolRequested(tool)

Requested(tool) == ToolCall(tool, draft) \o ToolRequested(tool)

(* request_test_run / request_finalize through _emit_or_block.             *)
RequestTool ==
  /\ pc = "apply"
  /\ decision.action \in Tools
  /\ LET tool   == decision.action
         issues == GateIssues(tool, draft, decision.slugOk)
     IN  \/ ContractsRaise /\ Crash(Message)
         \/ /\ issues # {}
            /\ pc' = "done"
            /\ \E phase \in PhaseFromIssues(draft) : Emit(Message \o Blocked(phase))
         \/ /\ issues = {}
            /\ pc' = "done"
            /\ Emit(Message \o Requested(tool))
  /\ UNCHANGED <<input, draft, usage, spent, decision>>

ConnectExisting ==
  /\ Goto("apply", "done")
  /\ decision.action = "connect_existing"
  /\ Emit(Message \o Interrupt("awaiting_decision", "connect", NoPhase))
  /\ UNCHANGED <<input, draft, usage, spent, decision>>

AwaitHuman ==
  /\ Goto("apply", "done")
  /\ decision.action = "await_human"
  /\ Emit(Message \o Interrupt(decision.reason, NoStep, NoPhase))
  /\ UNCHANGED <<input, draft, usage, spent, decision>>

(* Mutant: whatever came back of a finalize, the session is over.          *)
ToolReplyByTool(result) ==
  IF result.tool = "request_finalize" /\ result.status # "rejected"
  THEN Finalized
  ELSE Interrupt("awaiting_decision", "review_test_results", NoPhase)

(* handle_tool_result: only a finalize that succeeded ends the session.    *)
ToolReply(result) ==
  IF result.status = "rejected"
  THEN Interrupt("awaiting_phase_acceptance", NoStep, NoPhase)
  ELSE IF result.status = "declined"
  THEN Interrupt("awaiting_decision", "request_declined", NoPhase)
  ELSE IF result.tool = "request_test_run"
  THEN Interrupt("awaiting_decision", "review_test_results", NoPhase)
  ELSE Finalized

(* Mutant: the control alone, without a message to go with it.             *)
AfterToolWordless ==
  /\ Goto("after_tool", "prompt")
  /\ Emit(ToolReply(input.pending))
  /\ UNCHANGED <<input, draft, usage, spent, decision>>

AfterTool ==
  /\ pc = "after_tool"
  /\ \/ input.pending = Garbled /\ Crash(<<>>)
     \/ /\ input.pending # Garbled
        /\ pc' = "prompt"
        /\ Emit(Message \o ToolReply(input.pending))
  /\ UNCHANGED <<input, draft, usage, spent, decision>>

(* _system_prompt, which these paths compose AFTER their terminal event.   *)
SystemPrompt ==
  /\ pc = "prompt"
  /\ \/ pc' = "done" /\ UNCHANGED events
     \/ ContractsRaise /\ Crash(<<>>)
  /\ UNCHANGED <<input, draft, usage, spent, decision>>

TurnStep ==
  \/ RejectEnvelope \/ StartRun
  \/ KickoffHit \/ KickoffBuild \/ KickoffEditRefused \/ KickoffEdit
  \/ Compose \/ Fallback \/ ModelDecides \/ ModelRaises
  \/ ApplyVertical \/ ProposeSection \/ RequestTool
  \/ ConnectExisting \/ AwaitHuman
  \/ AfterTool \/ SystemPrompt

(* The state handle_turn is in when it has parsed turn `in`.               *)
Begins(in) ==
  /\ pc = "parse"
  /\ draft = in.config
  /\ events = <<>>
  /\ usage = 0
  /\ spent = 0
  /\ decision = NoDecision

Init == input \in Inputs /\ Begins(input)

Spec == Init /\ [][TurnStep]_vars /\ WF_vars(TurnStep)
=============================================================================
