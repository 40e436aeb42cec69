--------------------------- MODULE TurnProperties ---------------------------
(***************************************************************************)
(* What a turn promises, stated over the events it emits: the gateway sees *)
(* nothing else.  `GatewayCopy` is what a gateway that persists every full *)
(* event would hold.                                                       *)
(***************************************************************************)
EXTENDS Turn

EventsOf(type) == {i \in DOMAIN events : events[i].type = type}

----------------------------------------------------------------------------
(* The stream protocol, as an automaton over single frames.                *)

Frames == {"RUN_STARTED", "TEXT_MESSAGE_START", "TEXT_MESSAGE_CONTENT",
           "TEXT_MESSAGE_END", "TOOL_CALL_START", "TOOL_CALL_ARGS", "TOOL_CALL_END",
           "STATE_SNAPSHOT", "STATE_DELTA", "RUN_FINISHED", "RUN_ERROR"}

(* Inside a group the stage is the frame the group waits for.              *)
Grammar ==
  [at \in ({"unopened", "open", "finished", "failed"} \cup Frames \cup {"broken"}) \X Frames |->
     LET stage == at[1]  frame == at[2] IN
     CASE stage = "unopened" /\ frame = "RUN_STARTED"    -> "open"
       [] stage = "unopened" /\ frame = "RUN_ERROR"      -> "failed"
       [] stage = "open" /\ frame = "TEXT_MESSAGE_START" -> "TEXT_MESSAGE_CONTENT"
       [] stage = "open" /\ frame = "TOOL_CALL_START"    -> "TOOL_CALL_ARGS"
       [] stage = "open" /\ frame \in {"STATE_SNAPSHOT", "STATE_DELTA"} -> "open"
       [] stage = "open" /\ frame = "RUN_FINISHED"       -> "finished"
       [] stage = "open" /\ frame = "RUN_ERROR"          -> "failed"
       [] stage = frame /\ frame = "TEXT_MESSAGE_CONTENT" -> "TEXT_MESSAGE_END"
       [] stage = frame /\ frame = "TOOL_CALL_ARGS"       -> "TOOL_CALL_END"
       [] stage = frame /\ frame \in {"TEXT_MESSAGE_END", "TOOL_CALL_END"} -> "open"
       [] OTHER -> "broken"]

----------------------------------------------------------------------------
(* The gateway: where it stands in the stream, whether every delta so far  *)
(* applied, and its copy of the draft.                                     *)

Synced(stage, config) == [stage |-> stage, clean |-> TRUE, config |-> config]

Receive(gateway, event) ==
  LET read == [gateway EXCEPT !.stage = Grammar[@, event.type]] IN
  CASE event.type = "STATE_SNAPSHOT" -> [read EXCEPT !.config = event.config]
    [] event.type = "STATE_DELTA" ->
         [read EXCEPT !.clean  = @ /\ Applies(gateway.config, event.patch),
                      !.config = ApplyPatch(@, event.patch)]
    [] OTHER -> read

(* The gateway after each of the frames s.                                 *)
Receives(gateway, s) ==
  LET after[i \in 0 .. Len(s)] ==
        IF i = 0 THEN gateway ELSE Receive(after[i - 1], s[i])
  IN  after

(* The gateway starts a turn with the config it sent, and has read the     *)
(* first i frames of it.                                                   *)
CopyAfter(i) == Receives(Synced("unopened", input.config), events)[i]

GatewayCopy == CopyAfter(Len(events))

StreamStage == GatewayCopy.stage

Stream == INSTANCE AguiStream WITH stage <- StreamStage

(* Every turn's events follow the stream protocol: whole groups only,      *)
(* RUN_STARTED first unless the envelope is malformed, one terminal event  *)
(* and nothing after it (AGUIEmitter, agui.py:480-656).                    *)
StreamSafety == Stream!Safety

(* Every turn reaches its terminal event, whatever raises on the way: the  *)
(* turn never ends, or hangs, with its stream open (runtime.py:109-122).   *)
StreamTerminates == Stream!Termination

(* The same promise without the fold: a terminal event is the last one     *)
(* (RunFinishedEvent, agui.py:310-313: "End of a turn").                   *)
OneTerminal ==
  \A i \in EventsOf("RUN_FINISHED") \cup EventsOf("RUN_ERROR") : i = Len(events)

----------------------------------------------------------------------------
(* The gateway's copy of the draft.                                        *)

Failed == EventsOf("RUN_ERROR") # {}

(* Each delta applies to the copy the earlier ones produced, and the copy  *)
(* is the draft the runtime went on working with (draft.apply's promise,   *)
(* draft.py:185-192; contract #4's round trip).                            *)
DeltasReplay ==
  ~Failed => GatewayCopy.clean /\ GatewayCopy.config = draft

(* What the section gate and the tool gate are for, said of the document.  *)
Proposable(config) ==
  ~config.stray /\ \A s \in Sections : config.sections[s].faults \subseteq {"placeholder"}

Ready(tool, config) ==
  /\ config.complete /\ ~config.stray
  /\ \A s \in Sections : config.sections[s].faults = {}
  /\ tool = "request_finalize" => config.vertical \in Verticals

(* No section delta leaves the gateway with a config the section gate      *)
(* rejects, whatever else the turn changed before it (runtime.py:575-597). *)
ProposalsAreClean ==
  \A i \in EventsOf("STATE_DELTA") :
    events[i].patch.section # Keep => Proposable(CopyAfter(i).config)

(* A tool call spends money or makes a skill permanent.  The config it     *)
(* carries passes every gate of that tool, a model that was billed asked   *)
(* for it, and the turn ends by saying which call (tools.py:209-271).      *)
ToolCallsAreReady ==
  \A i \in EventsOf("TOOL_CALL_ARGS") :
    /\ Ready(events[i].tool, events[i].config)
    /\ usage > 0
    /\ \A j \in EventsOf("RUN_FINISHED") :
         /\ events[j].result.outcome = "tool_call"
         /\ events[j].result.tool = events[i].tool

(* The config a tool call validated is the one the gateway persisted from  *)
(* this turn's deltas: the gateway finalizes its own copy, and refuses a   *)
(* call whose argument differs (tool_schemas.json, finalize comment).      *)
ToolCallsMatchGateway ==
  \A i \in EventsOf("TOOL_CALL_ARGS") : events[i].config = CopyAfter(i).config

(* A blocked tool call hands the operator a section to repair whenever one *)
(* is at fault, and never a sound one (tools.py:149-167, 231-262).         *)
RepairIsNamed ==
  \A i \in EventsOf("RUN_FINISHED") :
    (decision.action \in Tools /\ events[i].result.outcome = "interrupt") =>
      LET phase == events[i].result.phase
      IN  IF \E s \in Sections : draft.sections[s].faults # {}
          THEN phase \in Sections /\ draft.sections[phase].faults # {}
          ELSE phase = NoPhase

(* An edit session touches a live skill.  Its slug is not renamed, its     *)
(* state is not snapshotted over, and no knob it omits is seeded, through  *)
(* every kind of turn (runtime.py:234-298, 525-541, draft.py:210-215).     *)
EditKeepsSkill ==
  input.edit =>
    /\ EventsOf("STATE_SNAPSHOT") = {}
    /\ GatewayCopy.config.slug = input.config.slug
    /\ \A s \in Sections :
         LET before == input.config.sections[s]
             after  == GatewayCopy.config.sections[s]
         IN  after # before => after.knob = decision.body.knob

(* A build session never sends a knob section without its knob, never      *)
(* overrides a number the model authored, and never stores a section       *)
(* nested under its own name, as long as its phase names a whole section   *)
(* (draft.py:195-304).                                                     *)
SectionsAreNormal ==
  \A i \in EventsOf("STATE_DELTA") :
    LET patch == events[i].patch
    IN  (patch.section \in Sections /\ decision.phase \notin Members) =>
          /\ ~patch.body.wrapped
          /\ decision.body.knob = "authored" => patch.body.knob = "authored"
          /\ (~input.edit /\ patch.section \in SEEDED) => patch.body.knob # "absent"

(* A vertical the draft already has is never overwritten by the model, and *)
(* one the model supplies takes the slug with it in a build (runtime.py    *)
(* 503-555), in the same event: no prefix of the stream separates them.    *)
VerticalIsAuthoritative ==
  \A i \in EventsOf("STATE_DELTA") :
    LET before == CopyAfter(i - 1).config
        after  == CopyAfter(i).config
    IN  after.vertical # before.vertical =>
          /\ before.vertical \notin Verticals
          /\ after.vertical \in Verticals
          /\ ~input.edit => after.slug = BuildSlug(after.vertical)

(* A turn that finishes reports every model call it was billed for         *)
(* (agui.py:564-584, runtime.py:364-369).                                  *)
UsageIsBilled ==
  \A i \in EventsOf("RUN_FINISHED") : events[i].result.usage = spent

(* A turn's cost is never lost, however the turn ends: "held on the        *)
(* emitter ... so a terminal path cannot forget to attach it"              *)
(* (agui.py:524-527).                                                      *)
CostSurvives == pc = "done" /\ Failed => spent = 0

(* A turn that fails before its terminal event loses the proposal it was   *)
(* about to make, and never half of it: every event it did emit applies,   *)
(* and the sections the gateway holds are the ones it sent (R2, agui.py    *)
(* 41-43; runtime.py:109-122).                                             *)
FailedTurnKeepsSections ==
  (Failed /\ EventsOf("RUN_FINISHED") = {}) =>
    /\ GatewayCopy.clean
    /\ GatewayCopy.config.sections = input.config.sections

(* "The operator repairs one section at a time" (tools.py:159): a section  *)
(* of a seeded skill that fails a check of today, rewritten so that it     *)
(* passes, is stored (runtime.py:570-597).                                 *)
RepairsOneAtATime ==
  (/\ pc = "done" /\ ~Failed /\ input.edit
   /\ decision.action = "propose_section" /\ TargetPhase \in Sections
   /\ ~(input.config.sections[TargetPhase].faults \subseteq {"placeholder"})
   /\ decision.body.faults = {})
    => \E i \in EventsOf("STATE_DELTA") : events[i].patch.section = TargetPhase

(* "Tell me the vertical ... and I'll check before we build anything new"  *)
(* (runtime.py:175-178): a build turn that records a vertical for which    *)
(* the library has a skill ends by proposing to connect one, as a kickoff  *)
(* that knew the vertical does.                                            *)
LibraryIsChecked ==
  (pc = "done" /\ ~Failed /\ ~input.edit) =>
    \A i \in EventsOf("STATE_DELTA") :
      events[i].patch.vertical \in input.catalog =>
        \E j \in EventsOf("RUN_FINISHED") :
          events[j].result.step \in {"connect_or_build", "connect"}

(* The gate for a test run: "True once every canonical phase is accepted   *)
(* -- the gate for a test run" (state.py:70-72).                           *)
TestRunIsAccepted ==
  \A i \in EventsOf("TOOL_CALL_ARGS") :
    events[i].tool = "request_test_run" => AllPhasesAccepted(input.acceptance)

----------------------------------------------------------------------------
(* The states a turn can be in.                                            *)

Controls == {"parse", "after_tool", "kickoff", "kickoff_edit", "continue", "fallback",
             "decide", "vertical", "apply", "prompt", "done"}

TypeOK ==
  /\ input \in Input
  /\ pc \in Controls
  /\ draft \in Config
  /\ events \in Seq(Event)
  /\ usage \in 0 .. MaxCalls
  /\ spent \in 0 .. MaxCalls
  /\ decision \in Decision
=============================================================================
