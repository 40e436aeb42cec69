------------------------------ MODULE Session ------------------------------
(***************************************************************************)
(* A builder session: one turn of Turn after another, the gateway that     *)
(* keeps the only state between them, the operator, and a transport that   *)
(* may cut any stream.  The runtime is stateless (runtime.py, state.py     *)
(* 1-22): a turn is computed from the gateway's row, its events are sent   *)
(* only when it is complete (server.py:133-143), and the gateway persists  *)
(* per full event (agui.py:41-43).                                         *)
(*                                                                         *)
(* The gateway and the operator are outside src/; their actions are read   *)
(* off the envelope the runtime parses, the pinned contracts under stubs/  *)
(* and the tool results the runtime handles.                               *)
(***************************************************************************)
EXTENDS Turn

CONSTANTS
  Openings,   \* the sessions: mode and the row the gateway starts them with
  Contexts,   \* what the org's context and catalog may say on a turn
  MaxCuts     \* how many streams the transport cuts

VARIABLES
  edit,       \* forwardedProps.mode is "edit"
  row,        \* skill_builder_sessions: the config and the acceptance flags
  said,       \* the transcript holds an assistant message
  tail,       \* a tool result the transcript ends with, or NoTool
  asked,      \* a complete tool call the gateway has not executed
  skill,      \* the config request_finalize turned into a skill
  live,       \* a turn is being computed or delivered
  sent,       \* how many of its frames arrived
  cuts        \* how many streams were cut

turnVars    == vars
gatewayVars == <<edit, row, said, tail, asked, skill>>
sessionVars == <<turnVars, gatewayVars, live, sent, cuts>>

Row      == [config : Config, acceptance : Acceptance]
Opening  == [edit : BOOLEAN, row : Row]
Context  == [catalog : SUBSET Verticals, vertical : Verticals \cup {NoVertical}]

NoAsk    == [tool |-> "none", config |-> BlankConfig]
Ask      == [tool : Tools, config : Config] \cup {NoAsk}

Skill    == [made : BOOLEAN, config : Config]
NoSkill  == [made |-> FALSE, config |-> BlankConfig]

ASSUME OpeningsAssumption == Openings \subseteq Opening
(* A build starts with no document (state.py:52, default_factory=dict).    *)
ASSUME BuildsAssumption   == \A o \in Openings : ~o.edit => o.row.config = BlankConfig
ASSUME ContextsAssumption == Contexts \subseteq Context
ASSUME MaxCutsAssumption  == MaxCuts \in Nat

----------------------------------------------------------------------------
(* The gateway starts a turn.                                              *)

(* The process keeps nothing between turns: the turn variables rest here.  *)
AtRest ==
  [wellFormed |-> TRUE, kickoff |-> FALSE, edit |-> FALSE, pending |-> NoTool,
   catalog |-> {}, vertical |-> NoVertical, wired |-> TRUE, config |-> BlankConfig,
   acceptance |-> [s \in Sections |-> FALSE]]

(* RunAgentInput: the row replayed verbatim, is_kickoff and                *)
(* pending_tool_result read off the transcript.                            *)
TurnInput(context, pending) ==
  [wellFormed |-> TRUE, kickoff |-> ~said, edit |-> edit, pending |-> pending,
   catalog |-> context.catalog, vertical |-> context.vertical, wired |-> TRUE,
   config |-> row.config, acceptance |-> row.acceptance]

BeginTurn(in) ==
  /\ live' = TRUE
  /\ input' = in
  /\ pc' = "parse"
  /\ draft' = in.config
  /\ UNCHANGED <<events, usage, spent, decision, sent, cuts>>

(* The operator writes, or opens the session.  A tool result that went     *)
(* unanswered is no longer the last message of the transcript.             *)
OperatorTurn ==
  /\ ~live /\ ~skill.made /\ asked = NoAsk
  /\ \E c \in Contexts : BeginTurn(TurnInput(c, NoTool))
  /\ tail' = NoTool
  /\ UNCHANGED <<edit, row, said, asked, skill>>

(* The gateway appended a tool result and wants it answered; after a cut   *)
(* it still does.                                                          *)
ResultTurn ==
  /\ ~live /\ tail # NoTool
  /\ \E c \in Contexts : BeginTurn(TurnInput(c, tail))
  /\ UNCHANGED gatewayVars

RunTurn ==
  /\ live
  /\ TurnStep
  /\ UNCHANGED <<gatewayVars, live, sent, cuts>>

----------------------------------------------------------------------------
(* The stream.                                                             *)

Frame == events[sent + 1]

(* One full event persisted.                                               *)
PersistFrame(frame) ==
  /\ row' = CASE frame.type = "STATE_SNAPSHOT" ->
                   [config |-> frame.config, acceptance |-> frame.acceptance]
              [] frame.type = "STATE_DELTA" /\ Applies(row.config, frame.patch) ->
                   [row EXCEPT !.config = ApplyPatch(row.config, frame.patch)]
              [] OTHER -> row
  /\ said' = (said \/ frame.type = "TEXT_MESSAGE_END")
  /\ tail' = IF frame.type = "TEXT_MESSAGE_END" THEN NoTool ELSE tail
  /\ asked' = IF frame.type = "TOOL_CALL_END"
              THEN [tool |-> frame.tool, config |-> events[sent].config]
              ELSE asked

Deliver ==
  /\ live /\ pc = "done" /\ sent < Len(events)
  /\ PersistFrame(Frame)
  /\ sent' = sent + 1
  /\ UNCHANGED <<turnVars, edit, skill, live, cuts>>

Rest ==
  /\ live' = FALSE
  /\ input' = AtRest /\ pc' = "parse" /\ draft' = BlankConfig
  /\ events' = <<>> /\ usage' = 0 /\ spent' = 0 /\ decision' = NoDecision
  /\ sent' = 0

CloseStream ==
  /\ live /\ pc = "done" /\ sent = Len(events)
  /\ Rest
  /\ UNCHANGED <<gatewayVars, cuts>>

(* The connection or the container is lost: the rest never arrives.        *)
CutStream ==
  /\ live /\ cuts < MaxCuts
  /\ pc = "done" => sent < Len(events)
  /\ Rest
  /\ cuts' = cuts + 1
  /\ UNCHANGED gatewayVars

----------------------------------------------------------------------------
(* The gateway executes a call, the operator settles a section.            *)

(* A call whose argument is not the persisted draft is rejected; otherwise *)
(* any answer is possible, and a finalize that succeeds takes the          *)
(* persisted draft.                                                        *)
ExecuteTool ==
  /\ ~live /\ asked # NoAsk
  /\ \E status \in Statuses :
       /\ asked.config # row.config => status = "rejected"
       /\ tail' = [tool |-> asked.tool, status |-> status]
       /\ skill' = IF asked.tool = "request_finalize" /\ status = "succeeded"
                   THEN [made |-> TRUE, config |-> row.config] ELSE skill
  /\ asked' = NoAsk
  /\ UNCHANGED <<turnVars, edit, row, said, live, sent, cuts>>

(* Accept or Request changes, on a section that is there to be judged.     *)
Settle ==
  /\ ~skill.made
  /\ \E s \in AuthoredSections(row.config) :
       row' = [row EXCEPT !.acceptance[s] = ~row.acceptance[s]]
  /\ UNCHANGED <<turnVars, edit, said, tail, asked, skill, live, sent, cuts>>

(* The skill exists, the operator was told, and the session is closed.     *)
Closed ==
  /\ skill.made /\ ~live /\ tail = NoTool
  /\ UNCHANGED sessionVars

SessionNext ==
  \/ OperatorTurn \/ ResultTurn \/ RunTurn
  \/ Deliver \/ CloseStream \/ CutStream
  \/ ExecuteTool \/ Settle \/ Closed

SessionInit ==
  /\ \E o \in Openings : edit = o.edit /\ row = o.row
  /\ said = FALSE /\ tail = NoTool /\ asked = NoAsk /\ skill = NoSkill
  /\ live = FALSE /\ sent = 0 /\ cuts = 0
  /\ input = AtRest /\ Begins(AtRest)

(* A turn runs to its end and is delivered, a call is executed and its     *)
(* result is sent back for an answer; nobody makes the operator write.     *)
SessionFairness ==
  /\ WF_sessionVars(RunTurn) /\ WF_sessionVars(Deliver)
  /\ WF_sessionVars(CloseStream) /\ WF_sessionVars(ExecuteTool)
  /\ WF_sessionVars(ResultTurn)

SessionSpec == SessionInit /\ [][SessionNext]_sessionVars /\ SessionFairness
=============================================================================
