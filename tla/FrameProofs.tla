---------------------------- MODULE FrameProofs ----------------------------
(***************************************************************************)
(* What each frame of a turn says of that turn, and where in the stream it *)
(* may stand, proved for every instance: all that a gateway which gets     *)
(* only a prefix of the frames has to go by.                               *)
(***************************************************************************)
EXTENDS TurnProofs

FinalizeSucceeded == [tool |-> "request_finalize", status |-> "succeeded"]

(* A delta that writes one section, or one other key of the root.          *)
SectionWrite(patch) ==
  /\ patch.vertical = Keep /\ patch.slugOp = "none"
  /\ patch.section # UnknownKey
  /\ patch.section \in Sections => patch.body.faults \subseteq {"placeholder"}

(* A delta that records a vertical, and in a build the slug it implies.    *)
VerticalWritten(patch, in) ==
  /\ patch.section = Keep
  /\ patch.vertical \in Verticals
  /\ ~in.edit => IF patch.slugOp = "none"
                 THEN in.config.slug = BuildSlug(patch.vertical)
                 ELSE patch.slug = BuildSlug(patch.vertical)

NamesRepair(phase, config) ==
  IF \E s \in Sections : config.sections[s].faults # {}
  THEN phase \in Sections /\ config.sections[phase].faults # {}
  ELSE phase = NoPhase

(* One frame of the turn `in` in which the model decided d on the draft.   *)
Meant(e, in, d, config) ==
  /\ e.type \in {"STATE_SNAPSHOT", "STATE_DELTA", "TOOL_CALL_END"} => in.pending = NoTool
  /\ e.type = "STATE_SNAPSHOT" =>
       /\ in.kickoff /\ ~in.edit
       /\ e.config = Skeleton(in.vertical) /\ e.acceptance = in.acceptance
  /\ e.type = "STATE_DELTA" => ~in.kickoff
  /\ e.type = "RUN_FINISHED" =>
       /\ e.result.outcome = "finalized" => in.pending = FinalizeSucceeded
       /\ (d.action \in Tools /\ e.result.outcome = "interrupt") =>
            NamesRepair(e.result.phase, config)

(* A tool call ends behind its argument.                                   *)
CallsClose(s) ==
  \A i \in DOMAIN s :
    s[i].type = "TOOL_CALL_END" =>
      i > 1 /\ s[i - 1].type = "TOOL_CALL_ARGS" /\ s[i - 1].tool = s[i].tool

(* What a handler appends.                                                 *)
Plain(s, in, d, config) ==
  /\ s \in Seq(Event)
  /\ \A e \in Elems(s) :
       /\ Meant(e, in, d, config)
       /\ e.type = "STATE_DELTA" => SectionWrite(e.patch)
  /\ CallsClose(s)

(* The stream of a turn so far.                                            *)
Framed(s, in, d, config) ==
  /\ s \in Seq(Event)
  /\ \A e \in Elems(s) : Meant(e, in, d, config)
  /\ CallsClose(s)
  /\ s # <<>> => s[1].type \in {"RUN_STARTED", "RUN_ERROR"}
  /\ \A i \in DOMAIN s :
       s[i].type = "STATE_DELTA" =>
         SectionWrite(s[i].patch) \/ (i = 2 /\ VerticalWritten(s[i].patch, in))

----------------------------------------------------------------------------
(* Appending.                                                              *)

LEMMA CallsCloseConcat ==
  ASSUME NEW s \in Seq(Event), NEW t \in Seq(Event), CallsClose(s), CallsClose(t)
  PROVE  CallsClose(s \o t)
<1>0. DOMAIN (s \o t) = 1 .. Len(s) + Len(t)
  OBVIOUS
<1>1. SUFFICES ASSUME NEW i \in 1 .. Len(s) + Len(t), (s \o t)[i].type = "TOOL_CALL_END"
               PROVE  /\ i > 1 /\ (s \o t)[i - 1].type = "TOOL_CALL_ARGS"
                      /\ (s \o t)[i - 1].tool = (s \o t)[i].tool
  BY <1>0, Zenon DEF CallsClose
<1>2. CASE i <= Len(s)
  <2>1. i \in DOMAIN s /\ (s \o t)[i] = s[i]
    BY <1>2
  <2>2. i > 1 /\ s[i - 1].type = "TOOL_CALL_ARGS" /\ s[i - 1].tool = s[i].tool
    BY <1>1, <2>1 DEF CallsClose
  <2>3. (s \o t)[i - 1] = s[i - 1]
    BY <1>2, <2>2
  <2>4. QED BY <2>1, <2>2, <2>3
<1>3. CASE ~(i <= Len(s))
  <2> DEFINE k == i - Len(s)
  <2>1. k \in DOMAIN t /\ (s \o t)[i] = t[k] /\ k \in Nat
    BY <1>3
  <2>2. k > 1 /\ t[k - 1].type = "TOOL_CALL_ARGS" /\ t[k - 1].tool = t[k].tool
    BY <1>1, <2>1 DEF CallsClose
  <2>3. i > 1 /\ i - 1 \in 1 .. Len(s) + Len(t) /\ ~(i - 1 <= Len(s))
    BY <2>2
  <2>4. (s \o t)[i - 1] = t[(i - 1) - Len(s)] /\ (i - 1) - Len(s) = k - 1
    BY <2>3
  <2>5. QED BY <2>1, <2>2, <2>3, <2>4
<1>4. QED BY <1>2, <1>3

LEMMA PlainConcat ==
  ASSUME NEW s, NEW t, NEW in, NEW d, NEW config,
         Plain(s, in, d, config), Plain(t, in, d, config)
  PROVE  Plain(s \o t, in, d, config)
<1>1. /\ s \o t \in Seq(Event) /\ Elems(s \o t) = Elems(s) \cup Elems(t)
      /\ CallsClose(s \o t)
  BY ElemsConcat, CallsCloseConcat DEF Plain
<1>2. QED BY <1>1 DEF Plain

(* The turn's own decision and draft matter to its terminal event alone,   *)
(* so a handler that changes them keeps what is true of an opening.        *)
LEMMA OpeningStays ==
  ASSUME NEW s, NEW in, NEW d, NEW config, NEW d2, NEW config2,
         Opens(s), Framed(s, in, d, config)
  PROVE  Framed(s, in, d2, config2)
BY DEF Opens, Framed, Meant

LEMMA EmitPlain ==
  ASSUME NEW s, NEW t, NEW in, NEW d, NEW config,
         s # <<>>, Framed(s, in, d, config), Plain(t, in, d, config)
  PROVE  Framed(s \o t, in, d, config) /\ s \o t # <<>>
<1>1. s \in Seq(Event) /\ t \in Seq(Event)
  BY DEF Framed, Plain
<1>2. /\ s \o t \in Seq(Event) /\ Elems(s \o t) = Elems(s) \cup Elems(t)
      /\ CallsClose(s \o t)
  BY <1>1, ElemsConcat, CallsCloseConcat DEF Framed, Plain
<1>3. Len(s) \in Nat /\ Len(s) > 0 /\ Len(t) \in Nat
  BY <1>1 DEF Framed
<1>4. s \o t # <<>> /\ (s \o t)[1] = s[1]
  BY <1>1, <1>3
<1>5. ASSUME NEW i \in 1 .. Len(s) + Len(t), (s \o t)[i].type = "STATE_DELTA"
      PROVE  \/ SectionWrite((s \o t)[i].patch)
             \/ i = 2 /\ VerticalWritten((s \o t)[i].patch, in)
  <2>1. CASE i <= Len(s)
    <3>1. i \in DOMAIN s /\ (s \o t)[i] = s[i]
      BY <1>1, <2>1
    <3>2. QED BY <1>5, <3>1 DEF Framed
  <2>2. CASE ~(i <= Len(s))
    <3>1. i - Len(s) \in DOMAIN t /\ (s \o t)[i] = t[i - Len(s)]
      BY <1>1, <2>2
    <3>2. (s \o t)[i] \in Elems(t)
      BY <3>1 DEF Elems
    <3>3. QED BY <1>5, <3>2 DEF Plain
  <2>3. QED BY <2>1, <2>2
<1>6. DOMAIN (s \o t) = 1 .. Len(s) + Len(t)
  BY <1>1
<1>7. QED BY <1>2, <1>4, <1>5, <1>6 DEF Framed, Plain

----------------------------------------------------------------------------
(* What the emitter appends.                                               *)

LEMMA MessageIsPlain ==
  ASSUME NEW in, NEW d, NEW config
  PROVE  Plain(Message, in, d, config)
<1>1. Message \in Seq(Event)
  BY MessageIsInert DEF Inert
<1>2. \A e \in Elems(Message) :
        e.type \in {"TEXT_MESSAGE_START", "TEXT_MESSAGE_CONTENT", "TEXT_MESSAGE_END"}
  BY DEF Message, Elems
<1>3. \A i \in DOMAIN Message : Message[i].type # "TOOL_CALL_END"
  BY DEF Message
<1>4. QED BY <1>1, <1>2, <1>3 DEF Plain, Meant, CallsClose

LEMMA RunErrorIsPlain ==
  ASSUME NEW code \in Codes, NEW in, NEW d, NEW config
  PROVE  /\ Plain(RunError(code), in, d, config)
         /\ <<>> \o RunError(code) = RunError(code)
         /\ <<>> \o (<<>> \o RunError(code)) = RunError(code)
BY DEF RunError, Event, Elems, Plain, Meant, CallsClose

LEMMA RunFinishedIsPlain ==
  ASSUME NEW outcome \in {"interrupt", "tool_call", "finalized"},
         NEW reason \in Reasons \cup {NoReason}, NEW step \in Steps \cup {NoStep},
         NEW phase \in Phases, NEW tool \in Tools \cup {"none"},
         usage \in 0 .. MaxCalls, NEW in, NEW d, NEW config,
         outcome = "finalized" => in.pending = FinalizeSucceeded,
         (d.action \in Tools /\ outcome = "interrupt") => NamesRepair(phase, config)
  PROVE  Plain(RunFinished(outcome, reason, step, phase, tool), in, d, config)
<1> DEFINE result == [outcome |-> outcome, reason |-> reason, step |-> step,
                      phase |-> phase, tool |-> tool, usage |-> usage]
           finish == [type |-> "RUN_FINISHED", result |-> result]
<1>1. /\ RunFinished(outcome, reason, step, phase, tool) = <<finish>>
      /\ RunFinished(outcome, reason, step, phase, tool) \in Seq(Event)
  BY RunFinishedIsFinal DEF RunFinished, Final
<1>2. finish.type = "RUN_FINISHED" /\ finish.result.outcome = outcome
      /\ finish.result.phase = phase
  OBVIOUS
<1> HIDE DEF finish
<1>3. Elems(<<finish>>) = {finish} /\ CallsClose(<<finish>>)
  BY <1>2 DEF Elems, CallsClose
<1>4. QED BY <1>1, <1>2, <1>3 DEF Plain, Meant

LEMMA InterruptIsPlain ==
  ASSUME NEW reason, NEW step \in Steps \cup {NoStep}, NEW phase \in Phases,
         usage \in 0 .. MaxCalls, NEW in, NEW d, NEW config,
         d.action \in Tools => NamesRepair(phase, config)
  PROVE  Plain(Interrupt(reason, step, phase), in, d, config)
<1>1. CoerceInterruptReason(reason) \in Reasons \cup {NoReason}
  BY DEF CoerceInterruptReason, Reasons
<1>2. QED BY <1>1, RunFinishedIsPlain DEF Interrupt

LEMMA StateDeltaIsPlain ==
  ASSUME NEW patch \in Patch, SectionWrite(patch), NEW in, NEW d, NEW config,
         in.pending = NoTool, ~in.kickoff
  PROVE  Plain(StateDelta(patch), in, d, config)
<1>1. /\ StateDelta(patch) \in Seq(Event)
      /\ Elems(StateDelta(patch)) = {[type |-> "STATE_DELTA", patch |-> patch]}
  BY StateDeltaFrame
<1>2. CallsClose(StateDelta(patch))
  BY DEF CallsClose, StateDelta
<1>3. QED BY <1>1, <1>2 DEF Plain, Meant

LEMMA RequestedIsPlain ==
  ASSUME NEW tool \in Tools, draft \in Config, Ready(tool, draft),
         usage \in 0 .. MaxCalls, usage > 0, NEW in, NEW d, NEW config,
         in.pending = NoTool
  PROVE  Plain(Requested(tool), in, d, config)
<1> DEFINE begin  == [type |-> "TOOL_CALL_START", tool |-> tool]
           args   == [type |-> "TOOL_CALL_ARGS", tool |-> tool, config |-> draft]
           end    == [type |-> "TOOL_CALL_END", tool |-> tool]
           call   == ToolCall(tool, draft)
<1>1. Plain(ToolRequested(tool), in, d, config)
  BY RunFinishedIsPlain, NoPhaseIsPhase DEF ToolRequested
<1>2. call \in Seq(Event)
  BY DEF ToolCall, Event
<1>3. call = <<begin, args, end>> /\ Elems(call) = {begin, args, end}
  BY DEF ToolCall, Elems
<1>4. CallsClose(call)
  BY <1>3 DEF CallsClose
<1>5. \A e \in Elems(call) : Meant(e, in, d, config) /\ e.type # "STATE_DELTA"
  BY <1>3 DEF Meant
<1>6. Plain(call, in, d, config)
  BY <1>2, <1>4, <1>5 DEF Plain
<1>7. QED BY <1>1, <1>6, PlainConcat DEF Requested

LEMMA ToolReplyIsPlain ==
  ASSUME input.pending \in ToolResult, usage \in 0 .. MaxCalls,
         NEW d, d.action \notin Tools, NEW config
  PROVE  Plain(ToolReply(input.pending), input, d, config)
<1>1. ASSUME input.pending = FinalizeSucceeded
      PROVE  Plain(Finalized, input, d, config)
  BY <1>1, RunFinishedIsPlain, NoPhaseIsPhase DEF Finalized
<1>2. \A step \in Steps \cup {NoStep} : \A reason \in Reasons :
        Plain(Interrupt(reason, step, NoPhase), input, d, config)
  BY InterruptIsPlain, NoPhaseIsPhase
<1>3. \/ input.pending.status \in {"rejected", "declined"}
      \/ input.pending.tool = "request_test_run"
      \/ input.pending = FinalizeSucceeded
  BY DEF ToolResult, Tools, Statuses, FinalizeSucceeded
<1>4. CASE input.pending = FinalizeSucceeded
  BY <1>1, <1>4 DEF ToolReply, FinalizeSucceeded
<1>5. CASE input.pending # FinalizeSucceeded
  BY <1>2, <1>3, <1>5 DEF ToolReply, Steps, Reasons
<1>6. QED BY <1>4, <1>5

----------------------------------------------------------------------------
(* The inductive invariant.                                                *)

(* How a turn comes to each handler.                                       *)
FlowInv ==
  /\ pc # "parse" => events # <<>>
  /\ pc \notin {"vertical", "apply", "done"} => decision = NoDecision
  /\ pc \in {"parse", "continue", "fallback", "decide", "vertical"} => draft = input.config
  /\ pc \in {"continue", "fallback", "decide", "vertical"} => events = RunStarted
  /\ pc \in {"continue", "fallback", "decide", "vertical", "apply"} =>
       input.pending = NoTool /\ ~input.kickoff
  /\ pc = "kickoff" => input.pending = NoTool /\ input.kickoff /\ ~input.edit
  /\ pc = "after_tool" => input.pending # NoTool

FrameInv == FlowInv /\ Framed(events, input, decision, draft)

(* A handler's last append.                                                *)
LEMMA FrameEmits ==
  ASSUME TurnInv, FrameInv, pc \notin {"parse", "prompt", "done"},
         NEW t, NEW d, NEW config, Plain(t, input, d, config)
  PROVE  Framed(events \o t, input, d, config) /\ events \o t # <<>>
<1>1. Opens(events) /\ events # <<>>
  BY DEF TurnInv, EventsInv, FrameInv, FlowInv
<1>2. Framed(events, input, d, config)
  BY <1>1, OpeningStays DEF FrameInv
<1>3. QED BY <1>1, <1>2, EmitPlain

(* The handlers that only speak: one message, one terminal event.          *)
LEMMA FrameSpeaks ==
  ASSUME TurnInv, FrameInv, pc \notin {"parse", "prompt", "done"},
         NEW t, Plain(t, input, decision, draft),
         events' = events \o (Message \o t) \/ events' = events \o t,
         UNCHANGED <<input, draft, decision>>,
         pc' = "done" \/ (pc' = "prompt" /\ decision = NoDecision)
  PROVE  FrameInv'
<1>1. Plain(Message \o t, input, decision, draft)
  BY MessageIsPlain, PlainConcat
<1>2. Framed(events', input, decision, draft) /\ events' # <<>>
  BY <1>1, FrameEmits
<1>3. QED BY <1>2 DEF FrameInv, FlowInv

(* The first frame of a stream.                                            *)
LEMMA FirstFrame ==
  ASSUME NEW e \in Event, e.type \in {"RUN_STARTED", "RUN_ERROR"},
         NEW in, NEW d, NEW config
  PROVE  /\ Framed(<<e>>, in, d, config)
         /\ <<e>> # <<>> /\ <<>> \o <<e>> = <<e>>
<1>1. Elems(<<e>>) = {e} /\ CallsClose(<<e>>)
  BY DEF Elems, CallsClose
<1>2. QED BY <1>1 DEF Framed, Meant

LEMMA RejectEnvelopeFrames == TurnInv /\ FrameInv /\ RejectEnvelope => FrameInv'
<1> SUFFICES ASSUME TurnInv, FrameInv, RejectEnvelope PROVE FrameInv'
  OBVIOUS
<1> DEFINE e == [type |-> "RUN_ERROR", code |-> "invalid_input"]
<1>1. e \in Event /\ e.type = "RUN_ERROR"
  BY DEF Event, Codes
<1>2. events' = <<>> \o <<e>> /\ pc' = "done" /\ UNCHANGED <<input, decision, draft>>
  BY DEF RejectEnvelope, Goto, Emit, RunError, TurnInv, EventsInv
<1> HIDE DEF e
<1>3. QED BY <1>1, <1>2, FirstFrame DEF FrameInv, FlowInv

LEMMA StartRunFrames == TurnInv /\ FrameInv /\ StartRun => FrameInv'
<1> SUFFICES ASSUME TurnInv, FrameInv, StartRun, draft = input.config PROVE FrameInv'
  BY DEF FrameInv, FlowInv, StartRun, Goto
<1> DEFINE e == [type |-> "RUN_STARTED"]
<1>1. e \in Event /\ e.type = "RUN_STARTED" /\ RunStarted = <<e>>
  BY DEF Event, RunStarted
<1>2. /\ events' = <<>> \o <<e>> /\ UNCHANGED <<input, decision, draft>>
      /\ pc' = Route /\ decision = NoDecision
  BY <1>1 DEF StartRun, Goto, Emit, TurnInv, EventsInv, FrameInv, FlowInv
<1> HIDE DEF e
<1>3. Framed(events', input', decision', draft') /\ events' # <<>> /\ events' = RunStarted
  BY <1>1, <1>2, FirstFrame
<1>4. FlowInv'
  BY <1>2, <1>3 DEF FlowInv, Route, TurnInv, TypeOK, Input
<1>5. QED BY <1>3, <1>4 DEF FrameInv

LEMMA KickoffHitFrames == TurnInv /\ FrameInv /\ KickoffHit => FrameInv'
<1> SUFFICES ASSUME TurnInv, FrameInv, KickoffHit PROVE FrameInv'
  OBVIOUS
<1> DEFINE t == Interrupt("awaiting_decision", "connect_or_build", NoPhase)
<1>1. /\ pc = "kickoff" /\ pc' = "prompt" /\ UNCHANGED <<input, draft, decision>>
      /\ events' = events \o (Message \o t)
      /\ decision = NoDecision /\ usage \in 0 .. MaxCalls
  BY DEF KickoffHit, Goto, Emit, FrameInv, FlowInv, TurnInv, TypeOK
<1>2. Plain(t, input, decision, draft)
  BY <1>1, InterruptIsPlain, NoPhaseIsPhase DEF NoDecision, Tools, Steps
<1> HIDE DEF t
<1>3. QED BY <1>1, <1>2, FrameSpeaks

LEMMA KickoffBuildFrames == TurnInv /\ FrameInv /\ KickoffBuild => FrameInv'
<1> SUFFICES ASSUME TurnInv, FrameInv, KickoffBuild PROVE FrameInv'
  OBVIOUS
<1> DEFINE skeleton == Skeleton(input.vertical)
           confirm  == Interrupt("awaiting_decision", "kickoff_confirmation", NoPhase)
           snapshot == StateSnapshot(skeleton, input.acceptance)
           opened   == Message \o (snapshot \o confirm)
           crashed  == Message \o RunError("internal_error")
<1>1. /\ pc = "kickoff" /\ decision = NoDecision /\ usage \in 0 .. MaxCalls
      /\ input.pending = NoTool /\ input.kickoff /\ ~input.edit
  BY DEF KickoffBuild, FrameInv, FlowInv, TurnInv, TypeOK
<1>2. /\ skeleton \in Config /\ SchemaIssues(skeleton, FALSE) = {}
      /\ input.acceptance \in Acceptance
  BY SkeletonType DEF TurnInv, TypeOK, Input
<1>3. Plain(confirm, input, decision, skeleton)
  BY <1>1, InterruptIsPlain, NoPhaseIsPhase DEF NoDecision, Tools, Steps
<1>4. Plain(snapshot, input, decision, skeleton)
  <2> DEFINE e == [type |-> "STATE_SNAPSHOT", config |-> skeleton,
                   acceptance |-> input.acceptance]
  <2>1. snapshot = <<e>> /\ Elems(snapshot) = {e} /\ snapshot \in Seq(Event)
    BY <1>2 DEF StateSnapshot, Elems, Event
  <2>2. Meant(e, input, decision, skeleton) /\ e.type = "STATE_SNAPSHOT"
    BY <1>1 DEF Meant
  <2> HIDE DEF e, snapshot
  <2>3. QED BY <2>1, <2>2 DEF Plain, CallsClose
<1>5. Plain(opened, input, decision, skeleton)
  BY <1>3, <1>4, MessageIsPlain, PlainConcat
<1>6. Plain(crashed, input, decision, skeleton)
  BY RunErrorIsPlain, MessageIsPlain, PlainConcat DEF Codes
<1>7. /\ draft' = skeleton
      /\ UNCHANGED <<input, decision>>
      /\ \/ pc' = "prompt" /\ events' = events \o opened
         \/ pc' = "done" /\ events' = events \o crashed
  BY <1>2 DEF KickoffBuild, Crash, Emit
<1> HIDE DEF skeleton, opened, crashed
<1>8. Framed(events', input, decision, draft') /\ events' # <<>>
  BY <1>1, <1>5, <1>6, <1>7, FrameEmits
<1>9. QED BY <1>1, <1>7, <1>8 DEF FrameInv, FlowInv

LEMMA KickoffEditRefusedFrames == TurnInv /\ FrameInv /\ KickoffEditRefused => FrameInv'
<1> SUFFICES ASSUME TurnInv, FrameInv, KickoffEditRefused PROVE FrameInv'
  OBVIOUS
<1>1. /\ pc = "kickoff_edit" /\ pc' = "done" /\ UNCHANGED <<input, draft, decision>>
      /\ events' = events \o RunError("invalid_input")
  BY DEF KickoffEditRefused, Goto, Emit
<1>2. QED BY <1>1, RunErrorIsPlain, FrameSpeaks DEF Codes

LEMMA KickoffEditFrames == TurnInv /\ FrameInv /\ KickoffEdit => FrameInv'
<1> SUFFICES ASSUME TurnInv, FrameInv, KickoffEdit PROVE FrameInv'
  OBVIOUS
<1> DEFINE t == Interrupt("awaiting_decision", "kickoff_confirmation", NoPhase)
<1>1. /\ pc = "kickoff_edit" /\ pc' = "prompt" /\ UNCHANGED <<input, draft, decision>>
      /\ events' = events \o (Message \o t)
      /\ decision = NoDecision /\ usage \in 0 .. MaxCalls
  BY DEF KickoffEdit, Goto, Emit, FrameInv, FlowInv, TurnInv, TypeOK
<1>2. Plain(t, input, decision, draft)
  BY <1>1, InterruptIsPlain, NoPhaseIsPhase DEF NoDecision, Tools, Steps
<1> HIDE DEF t
<1>3. QED BY <1>1, <1>2, FrameSpeaks

LEMMA ComposeFrames == TurnInv /\ FrameInv /\ Compose => FrameInv'
<1> SUFFICES ASSUME TurnInv, FrameInv, Compose PROVE FrameInv'
  OBVIOUS
<1>1. CASE pc' \in {"decide", "fallback"} /\ UNCHANGED events
  BY <1>1 DEF Compose, FrameInv, FlowInv
<1>2. CASE Crash(<<>>)
  <2>1. /\ pc = "continue" /\ pc' = "done" /\ UNCHANGED <<input, draft, decision>>
        /\ events' = events \o RunError("internal_error")
    BY <1>2, RunErrorIsPlain DEF Compose, Crash, Emit, Codes
  <2>2. QED BY <2>1, RunErrorIsPlain, FrameSpeaks DEF Codes
<1>3. QED BY <1>1, <1>2 DEF Compose

LEMMA FallbackFrames == TurnInv /\ FrameInv /\ Fallback => FrameInv'
<1> SUFFICES ASSUME TurnInv, FrameInv, Fallback PROVE FrameInv'
  OBVIOUS
<1> DEFINE phase == NextOpenPhase(input.acceptance)
           tested == Interrupt("awaiting_test_run", NoStep, NoPhase)
           named  == Interrupt("awaiting_phase_acceptance", NoStep, phase)
<1>1. /\ pc = "fallback" /\ pc' = "done" /\ UNCHANGED <<input, draft, decision>>
      /\ \/ events' = events \o (Message \o tested)
         \/ events' = events \o (Message \o named)
      /\ decision = NoDecision /\ usage \in 0 .. MaxCalls
      /\ input.acceptance \in Acceptance
  BY DEF Fallback, Goto, Emit, FrameInv, FlowInv, TurnInv, TypeOK, Input
<1>2. phase \in Phases
  BY <1>1, NextOpenPhaseType, NoPhaseIsPhase
<1> HIDE DEF phase
<1>3. Plain(tested, input, decision, draft) /\ Plain(named, input, decision, draft)
  BY <1>1, <1>2, InterruptIsPlain, NoPhaseIsPhase DEF NoDecision, Tools
<1> HIDE DEF tested, named
<1>4. QED BY <1>1, <1>3, FrameSpeaks

LEMMA ModelDecidesFrames == TurnInv /\ FrameInv /\ ModelDecides => FrameInv'
<1> SUFFICES ASSUME TurnInv, FrameInv, ModelDecides PROVE FrameInv'
  OBVIOUS
<1>1. pc = "decide" /\ pc' = "vertical" /\ UNCHANGED <<input, draft, events>>
  BY DEF ModelDecides, Goto
<1>2. Framed(events', input', decision', draft')
  BY <1>1, OpeningStays DEF FrameInv, TurnInv, EventsInv
<1>3. QED BY <1>1, <1>2 DEF FrameInv, FlowInv

LEMMA ModelRaisesFrames == TurnInv /\ FrameInv /\ ModelRaises => FrameInv'
<1> SUFFICES ASSUME TurnInv, FrameInv, ModelRaises PROVE FrameInv'
  OBVIOUS
<1>1. /\ pc = "decide" /\ pc' = "done" /\ UNCHANGED <<input, draft, decision>>
      /\ events' = events \o RunError("internal_error")
  BY RunErrorIsPlain DEF ModelRaises, Crash, Emit, Codes
<1>2. QED BY <1>1, RunErrorIsPlain, FrameSpeaks DEF Codes

LEMMA TwoFrames ==
  ASSUME NEW a \in Event, NEW b \in Event
  PROVE  <<a>> \o <<b>> = <<a, b>>
<1> DEFINE s == <<a>> \o <<b>>
           t == <<a, b>>
<1>1. s \in Seq(Event) /\ t \in Seq(Event) /\ Len(s) = 2 /\ Len(t) = 2
  OBVIOUS
<1>2. s[1] = t[1] /\ s[2] = t[2]
  OBVIOUS
<1> HIDE DEF s, t
<1>3. \A i \in 1 .. 2 : s[i] = t[i]
  BY <1>2
<1>4. s = t
  BY <1>1, <1>3
<1>5. QED BY <1>4 DEF s, t

LEMMA ApplyVerticalFrames == TurnInv /\ FrameInv /\ ApplyVertical => FrameInv'
<1> SUFFICES ASSUME TurnInv, FrameInv, ApplyVertical PROVE FrameInv'
  OBVIOUS
<1> DEFINE patch == VerticalWrite(draft, decision.vertical, input.edit)
<1>1. /\ pc = "vertical" /\ pc' = "apply" /\ UNCHANGED <<input, decision>>
      /\ events = RunStarted /\ draft = input.config
      /\ input.pending = NoTool /\ ~input.kickoff
      /\ Opens(events) /\ draft \in Config
  BY DEF ApplyVertical, Goto, FrameInv, FlowInv, TurnInv, EventsInv, TypeOK
<1>2. CASE decision.vertical = NoVertical \/ HasVertical(draft)
  <2>1. UNCHANGED <<draft, events>>
    BY <1>2 DEF ApplyVertical
  <2>2. QED BY <1>1, <2>1 DEF FrameInv, FlowInv
<1>3. CASE ~(decision.vertical = NoVertical \/ HasVertical(draft))
  <2>1. events' = RunStarted \o StateDelta(patch) /\ draft' = ApplyPatch(draft, patch)
    BY <1>1, <1>3 DEF ApplyVertical, RecordVertical, Emit
  <2>2. decision.vertical \in Verticals /\ input.edit \in BOOLEAN
    BY <1>3 DEF TurnInv, TypeOK, Decision, Input
  <2>3. patch \in Patch
    BY <1>1, <2>2, VerticalWriteType
  <2>4. VerticalWritten(patch, input)
    BY <1>1, <2>2 DEF VerticalWritten, VerticalWrite, VerticalPatch
  <2> HIDE DEF patch
  <2> DEFINE begin == [type |-> "RUN_STARTED"]
             delta == [type |-> "STATE_DELTA", patch |-> patch]
  <2>5. RunStarted = <<begin>> /\ StateDelta(patch) = <<delta>>
    BY DEF RunStarted, StateDelta
  <2>6. begin \in Event /\ delta \in Event
    BY <2>3 DEF Event
  <2>7. Meant(begin, input, decision, draft') /\ Meant(delta, input, decision, draft')
    BY <1>1 DEF Meant
  <2>8. begin.type = "RUN_STARTED" /\ delta.type = "STATE_DELTA" /\ delta.patch = patch
    OBVIOUS
  <2> HIDE DEF begin, delta
  <2>9. events' = <<begin, delta>> /\ Elems(<<begin, delta>>) = {begin, delta}
    <3>1. <<begin>> \o <<delta>> = <<begin, delta>>
      BY <2>6, TwoFrames
    <3>2. Elems(<<begin, delta>>) = {begin, delta}
      BY DEF Elems
    <3>3. QED BY <2>1, <2>5, <3>1, <3>2
  <2>10. Framed(<<begin, delta>>, input, decision, draft') /\ <<begin, delta>> # <<>>
    BY <2>4, <2>9, <2>6, <2>7, <2>8 DEF Framed, CallsClose
  <2>11. QED BY <1>1, <2>9, <2>10 DEF FrameInv, FlowInv
<1>4. QED BY <1>2, <1>3

LEMMA ProposeSectionFrames == TurnInv /\ FrameInv /\ ProposeSection => FrameInv'
<1> SUFFICES ASSUME TurnInv, FrameInv, ProposeSection PROVE FrameInv'
  OBVIOUS
<1> DEFINE patch    == SetSection(draft, TargetPhase, decision.body, input.edit)
           handBack == Interrupt("awaiting_phase_acceptance", NoStep, TargetPhase)
<1>1. /\ pc = "apply" /\ pc' = "done" /\ UNCHANGED <<input, decision>>
      /\ input.pending = NoTool /\ ~input.kickoff /\ decision.action \notin Tools
      /\ usage \in 0 .. MaxCalls /\ draft \in Config
      /\ decision.body \in Body /\ input.edit \in BOOLEAN
  BY DEF ProposeSection, Crash, FrameInv, FlowInv, TurnInv, TypeOK, Decision, Input, Tools
<1>2. \A config : TargetPhase \in Phases => Plain(handBack, input, decision, config)
  BY <1>1, InterruptIsPlain
<1>3. TargetPhase \in Phases
  BY TargetPhaseType DEF Phases, TurnInv
<1>4. CASE Crash(<<>>) /\ UNCHANGED draft
  <2>1. events' = events \o RunError("internal_error")
    BY <1>4, RunErrorIsPlain DEF Crash, Emit, Codes
  <2>2. QED BY <1>1, <1>4, <2>1, RunErrorIsPlain, FrameSpeaks DEF Codes
<1>5. CASE Emit(Message \o handBack) /\ UNCHANGED draft
  <2>1. events' = events \o (Message \o handBack)
    BY <1>5 DEF Emit
  <2>2. Plain(handBack, input, decision, draft)
    BY <1>2, <1>3
  <2> HIDE DEF handBack
  <2>3. QED BY <1>1, <1>5, <2>1, <2>2, FrameSpeaks
<1>6. ASSUME TargetPhase # BadPointer,
             SectionIssues(ApplyPatch(draft, patch)) = {},
             draft' = ApplyPatch(draft, patch),
             Emit(Message \o StateDelta(patch) \o handBack)
      PROVE  FrameInv'
  <2>1. TargetPhase \in Sections \cup Members \cup {RootKey, UnknownKey}
    BY <1>6, TargetPhaseType DEF TurnInv
  <2>2. patch \in Patch /\ patch.vertical = Keep /\ patch.slugOp = "none"
    BY <1>1, <2>1, SetSectionType DEF SetSection, SectionPatch
  <2> HIDE DEF patch
  <2>3. draft' \in Config
    BY <1>1, <1>6, <2>2, ApplyPatchType
  <2>4. /\ ~draft'.stray
        /\ \A s \in Sections : draft'.sections[s].faults \subseteq {"placeholder"}
    BY <1>6, <2>3, SectionGateIsSound
  <2>5. SectionWrite(patch)
    BY <1>6, <2>2, <2>4 DEF SectionWrite, ApplyPatch
  <2>6. Plain(handBack, input, decision, draft')
    BY <1>2, <1>3
  <2>7. Plain(StateDelta(patch), input, decision, draft')
    BY <1>1, <2>2, <2>5, StateDeltaIsPlain
  <2> HIDE DEF handBack
  <2>8. Plain(Message \o StateDelta(patch) \o handBack, input, decision, draft')
    BY <2>6, <2>7, MessageIsPlain, PlainConcat
  <2>9. Framed(events', input, decision, draft') /\ events' # <<>>
    BY <1>1, <1>6, <2>8, FrameEmits DEF Emit
  <2>10. QED BY <1>1, <2>9 DEF FrameInv, FlowInv
<1> HIDE DEF patch, handBack
<1>7. QED BY <1>4, <1>5, <1>6 DEF ProposeSection, patch, handBack

(* A blocked call names a section at fault, if one is.                     *)
LEMMA RepairIsThere ==
  ASSUME NEW config \in Config, NEW phase \in PhaseFromIssues(config)
  PROVE  NamesRepair(phase, config)
<1>1. \A s \in Sections : config.sections[s].faults \subseteq {"schema", "coupling", "placeholder"}
  BY DEF Config, Body, Faults
<1>2. CASE \E s \in Sections : config.sections[s].faults # {}
  <2>1. PICK s \in Sections, f \in {"schema", "coupling", "placeholder"} :
          f \in config.sections[s].faults
    BY <1>1, <1>2
  <2>2. IssuesOf(config, f) # {}
    BY <2>1 DEF IssuesOf
  <2>3. \E g \in {"schema", "coupling", "placeholder"} : phase \in IssuesOf(config, g)
    BY <2>1, <2>2 DEF PhaseFromIssues, CouplingIssues, PlaceholderIssues
  <2>4. QED BY <1>2, <2>3 DEF NamesRepair, IssuesOf
<1>3. CASE ~\E s \in Sections : config.sections[s].faults # {}
  <2>1. \A f : IssuesOf(config, f) = {}
    BY <1>3 DEF IssuesOf
  <2>2. PhaseFromIssues(config) = {NoPhase}
    BY <2>1 DEF PhaseFromIssues, CouplingIssues, PlaceholderIssues
  <2>3. QED BY <1>3, <2>2 DEF NamesRepair
<1>4. QED BY <1>2, <1>3

LEMMA RequestToolFrames == TurnInv /\ FrameInv /\ RequestTool => FrameInv'
<1> SUFFICES ASSUME TurnInv, FrameInv, RequestTool PROVE FrameInv'
  OBVIOUS
<1> DEFINE tool    == decision.action
           issues  == GateIssues(tool, draft, decision.slugOk)
           failure == RunError("internal_error")
           request == Requested(tool)
<1>1. /\ pc = "apply" /\ pc' = "done" /\ UNCHANGED <<input, decision, draft>>
      /\ input.pending = NoTool /\ tool \in Tools
      /\ usage \in 0 .. MaxCalls /\ usage > 0 /\ draft \in Config
  BY DEF RequestTool, Crash, FrameInv, FlowInv, TurnInv, TypeOK, Accounts
<1>2. \/ events' = events \o (Message \o failure)
      \/ \E phase \in PhaseFromIssues(draft) : events' = events \o (Message \o Blocked(phase))
      \/ issues = {} /\ events' = events \o (Message \o request)
  BY DEF RequestTool, Crash, Emit
<1>3. Plain(failure, input, decision, draft)
  BY RunErrorIsPlain DEF Codes
<1>4. ASSUME NEW phase \in PhaseFromIssues(draft)
      PROVE  Plain(Blocked(phase), input, decision, draft)
  <2>1. phase \in Phases /\ NamesRepair(phase, draft)
    BY <1>1, PhaseFromIssuesType, NoPhaseIsPhase, RepairIsThere
  <2>2. Plain(Interrupt("awaiting_phase_acceptance", NoStep, phase), input, decision, draft)
    BY <1>1, <2>1, InterruptIsPlain
  <2>3. QED BY <2>2, MessageIsPlain, PlainConcat DEF Blocked
<1>5. ASSUME issues = {}
      PROVE  Plain(request, input, decision, draft)
  <2>1. Ready(tool, draft)
    BY <1>1, <1>5, GateIsSound DEF Ready
  <2>2. QED BY <1>1, <2>1, RequestedIsPlain
<1> HIDE DEF tool, issues, failure, request
<1>6. PICK t : Plain(t, input, decision, draft) /\ events' = events \o (Message \o t)
  BY <1>2, <1>3, <1>4, <1>5
<1>7. QED BY <1>1, <1>6, FrameSpeaks

LEMMA ConnectExistingFrames == TurnInv /\ FrameInv /\ ConnectExisting => FrameInv'
<1> SUFFICES ASSUME TurnInv, FrameInv, ConnectExisting PROVE FrameInv'
  OBVIOUS
<1> DEFINE t == Interrupt("awaiting_decision", "connect", NoPhase)
<1>1. /\ pc = "apply" /\ pc' = "done" /\ UNCHANGED <<input, draft, decision>>
      /\ events' = events \o (Message \o t)
      /\ decision.action \notin Tools /\ usage \in 0 .. MaxCalls
  BY DEF ConnectExisting, Goto, Emit, TurnInv, TypeOK, Tools
<1>2. Plain(t, input, decision, draft)
  BY <1>1, InterruptIsPlain, NoPhaseIsPhase DEF Steps
<1> HIDE DEF t
<1>3. QED BY <1>1, <1>2, FrameSpeaks

LEMMA AwaitHumanFrames == TurnInv /\ FrameInv /\ AwaitHuman => FrameInv'
<1> SUFFICES ASSUME TurnInv, FrameInv, AwaitHuman PROVE FrameInv'
  OBVIOUS
<1> DEFINE t == Interrupt(decision.reason, NoStep, NoPhase)
<1>1. /\ pc = "apply" /\ pc' = "done" /\ UNCHANGED <<input, draft, decision>>
      /\ events' = events \o (Message \o t)
      /\ decision.action \notin Tools /\ usage \in 0 .. MaxCalls
  BY DEF AwaitHuman, Goto, Emit, TurnInv, TypeOK, Tools
<1>2. Plain(t, input, decision, draft)
  BY <1>1, InterruptIsPlain, NoPhaseIsPhase
<1> HIDE DEF t
<1>3. QED BY <1>1, <1>2, FrameSpeaks

LEMMA AfterToolFrames == TurnInv /\ FrameInv /\ AfterTool => FrameInv'
<1> SUFFICES ASSUME TurnInv, FrameInv, AfterTool PROVE FrameInv'
  OBVIOUS
<1> DEFINE t == ToolReply(input.pending)
<1>1. /\ pc = "after_tool" /\ UNCHANGED <<input, draft, decision>>
      /\ decision = NoDecision /\ usage \in 0 .. MaxCalls
      /\ input.pending \in ToolResult \cup {Garbled}
  BY DEF AfterTool, FrameInv, FlowInv, TurnInv, TypeOK, Input
<1>2. CASE input.pending = Garbled /\ Crash(<<>>)
  <2>1. pc' = "done" /\ events' = events \o RunError("internal_error")
    BY <1>2, RunErrorIsPlain DEF Crash, Emit, Codes
  <2>2. QED BY <1>1, <2>1, RunErrorIsPlain, FrameSpeaks DEF Codes
<1>3. CASE input.pending # Garbled /\ pc' = "prompt" /\ Emit(Message \o t)
  <2>1. Plain(t, input, decision, draft)
    BY <1>1, <1>3, ToolReplyIsPlain DEF NoDecision, Tools
  <2> HIDE DEF t
  <2>2. QED BY <1>1, <1>3, <2>1, FrameSpeaks DEF Emit
<1>4. QED BY <1>2, <1>3 DEF AfterTool

LEMMA SystemPromptFrames == TurnInv /\ FrameInv /\ SystemPrompt => FrameInv'
<1> SUFFICES ASSUME TurnInv, FrameInv, SystemPrompt PROVE FrameInv'
  OBVIOUS
<1>1. /\ pc = "prompt" /\ pc' = "done" /\ UNCHANGED <<input, draft, decision>>
      /\ events # <<>>
  BY DEF SystemPrompt, Crash, FrameInv, FlowInv
<1>2. CASE UNCHANGED events
  BY <1>1, <1>2 DEF FrameInv, FlowInv
<1>3. CASE Crash(<<>>)
  <2>1. events' = events \o RunError("internal_error")
    BY <1>3, RunErrorIsPlain DEF Crash, Emit, Codes
  <2>2. Framed(events', input, decision, draft) /\ events' # <<>>
    BY <1>1, <2>1, RunErrorIsPlain, EmitPlain DEF FrameInv, Codes
  <2>3. QED BY <1>1, <2>2 DEF FrameInv, FlowInv
<1>4. QED BY <1>2, <1>3 DEF SystemPrompt

LEMMA FrameStepInv == TurnInv /\ FrameInv /\ TurnStep => FrameInv'
BY RejectEnvelopeFrames, StartRunFrames, KickoffHitFrames, KickoffBuildFrames,
   KickoffEditRefusedFrames, KickoffEditFrames, ComposeFrames, FallbackFrames,
   ModelDecidesFrames, ModelRaisesFrames, ApplyVerticalFrames, ProposeSectionFrames,
   RequestToolFrames, ConnectExistingFrames, AwaitHumanFrames, AfterToolFrames,
   SystemPromptFrames DEF TurnStep

LEMMA BeginsFrames == Begins(input) => FrameInv
BY DEF Begins, FrameInv, FlowInv, Framed, Elems, CallsClose

(* Every frame of every turn is meant: a snapshot is a kickoff's skeleton, *)
(* a delta writes a section that passed its gate or a vertical with its    *)
(* slug, a tool call ends behind its argument, and a session ends only on  *)
(* a finalize that succeeded (runtime.py:87-658, tools.py:209-391).        *)
THEOREM FrameInvHolds == Spec => []FrameInv
<1>1. Init => FrameInv
  BY BeginsFrames DEF Init
<1>2. TurnInv /\ FrameInv /\ [TurnStep]_vars => FrameInv'
  <2>1. FrameInv /\ UNCHANGED vars => FrameInv'
    BY DEF vars, FrameInv, FlowInv
  <2>2. QED BY <2>1, FrameStepInv
<1>3. QED BY <1>1, <1>2, TurnInvHolds, PTL DEF Spec

(* A blocked tool call hands back a section at fault whenever there is one *)
(* and never a sound one (tools.py:149-167, 231-262).                      *)
THEOREM RepairNamed == Spec => []RepairIsNamed
<1>1. FrameInv => RepairIsNamed
  <2>1. SUFFICES ASSUME FrameInv, NEW i \in EventsOf("RUN_FINISHED"),
                        decision.action \in Tools, events[i].result.outcome = "interrupt"
                 PROVE  NamesRepair(events[i].result.phase, draft)
    BY DEF RepairIsNamed, NamesRepair
  <2>2. events[i] \in Elems(events) /\ events[i].type = "RUN_FINISHED"
    BY DEF EventsOf, Elems
  <2>3. QED BY <2>1, <2>2 DEF FrameInv, Framed, Meant
<1>2. QED BY <1>1, FrameInvHolds, PTL
=============================================================================
