--------------------------- MODULE SessionProofs ---------------------------
(***************************************************************************)
(* A session keeps its promises for every instance: any sections, turns,   *)
(* answers of the model, and any number of cuts.                           *)
(***************************************************************************)
EXTENDS SessionProperties, StreamProofs

(* What the turn in progress knows of the session.                         *)
TurnLink ==
  live =>
    /\ input.edit = edit
    /\ ~input.kickoff => said
    /\ sent <= 1 => row.config = input.config
    /\ (input.kickoff /\ ~edit) =>
         AuthoredSections(row.config) = {} /\ row.acceptance = input.acceptance
    /\ skill.made => input.pending # NoTool
    /\ input.pending = FinalizeSucceeded => skill.made

(* Between turns nothing is left of one, and a frame is sent only of a     *)
(* turn that is over.                                                      *)
RestLink ==
  /\ ~live => Begins(input) /\ sent = 0
  /\ sent > 0 => pc = "done"

(* What the gateway holds.                                                 *)
GatewayLink ==
  /\ (~edit /\ ~said) => AuthoredSections(row.config) = {}
  /\ tail = FinalizeSucceeded => skill.made
  /\ asked # NoAsk => Ready(asked.tool, asked.config)

(* A session without the turn that runs in it.                             *)
RowInv ==
  /\ SessionTypeOK /\ TurnLink /\ RestLink /\ GatewayLink
  /\ RowIsProposable /\ SlugNamesVertical /\ SkillIsReady

SessionInv == TurnInv /\ FrameInv /\ RowInv

----------------------------------------------------------------------------
(* Documents and turns.                                                    *)

LEMMA BlankType ==
  /\ BlankConfig \in Config /\ AuthoredSections(BlankConfig) = {}
  /\ AtRest \in Input /\ AtRest.config = BlankConfig
<1>1. BlankConfig \in Config
  BY EmptyBodyType, SlugAssumption DEF BlankConfig, Config
<1>2. AuthoredSections(BlankConfig) = {}
  BY DEF AuthoredSections, BlankConfig
<1>3. AtRest \in Input /\ AtRest.config = BlankConfig
  BY <1>1 DEF AtRest, Input, Acceptance
<1>4. QED BY <1>1, <1>2, <1>3

LEMMA TurnInputType ==
  ASSUME SessionTypeOK, NEW c \in Contexts, NEW p \in ToolResult \cup {NoTool}
  PROVE  TurnInput(c, p) \in Input
<1>1. c.catalog \in SUBSET Verticals /\ c.vertical \in Verticals \cup {NoVertical}
  BY ContextsAssumption DEF Context
<1>2. QED BY <1>1 DEF TurnInput, Input, SessionTypeOK, Row

LEMMA BeginsNext ==
  (input \in Input /\ Begins(input))' => TurnInv' /\ FrameInv'
<1>1. input \in Input /\ Begins(input) => TurnInv /\ FrameInv
  BY BeginsInv, BeginsFrames
<1>2. QED BY <1>1, PTL

(* A frame's parts.                                                        *)
LEMMA FrameTypes ==
  ASSUME NEW e \in Event
  PROVE  /\ e.type = "STATE_SNAPSHOT" => e.config \in Config /\ e.acceptance \in Acceptance
         /\ e.type = "STATE_DELTA" => e.patch \in Patch
         /\ e.type = "TOOL_CALL_ARGS" => e.config \in Config /\ e.tool \in Tools
         /\ e.type = "TOOL_CALL_END" => e.tool \in Tools
BY DEF Event

(* The gateway's document after one patch.                                 *)
LEMMA SectionWriteKeeps ==
  ASSUME NEW config \in Config, NEW patch \in Patch, SectionWrite(patch)
  PROVE  LET after == ApplyPatch(config, patch)
         IN  /\ after.complete = config.complete /\ after.vertical = config.vertical
             /\ after.slug = config.slug
             /\ Proposable(config) => Proposable(after)
             /\ \A s \in Sections :
                  after.sections[s] # config.sections[s] => patch.section = s
BY DEF SectionWrite, ApplyPatch, Proposable, Config

LEMMA VerticalWrittenKeeps ==
  ASSUME NEW config \in Config, NEW patch \in Patch, NEW in,
         VerticalWritten(patch, in), in.config = config
  PROVE  LET after == ApplyPatch(config, patch)
         IN  /\ ~in.edit => after.slug = BuildSlug(after.vertical)
             /\ Proposable(config) => Proposable(after)
             /\ \A s \in Sections : after.sections[s] = config.sections[s]
<1> DEFINE after == ApplyPatch(config, patch)
<1>1. patch.section = Keep /\ patch.vertical \in Verticals /\ patch.vertical # Keep
  BY VerticalsAssumption DEF VerticalWritten
<1>2. Keep \notin Sections /\ Keep # UnknownKey
  BY SectionIsNoMarker DEF Keep, UnknownKey
<1>3. /\ after.vertical = patch.vertical
      /\ after.slug = IF patch.slugOp = "none" THEN config.slug ELSE patch.slug
      /\ after.stray = (config.stray \/ FALSE)
      /\ after.sections = [s \in Sections |-> config.sections[s]]
  BY <1>1, <1>2 DEF ApplyPatch
<1> HIDE DEF after
<1>4. ~in.edit => after.slug = BuildSlug(after.vertical)
  BY <1>3 DEF VerticalWritten
<1>5. \A s \in Sections : after.sections[s] = config.sections[s]
  BY <1>3
<1>6. Proposable(config) => Proposable(after)
  BY <1>3, <1>5 DEF Proposable
<1>7. QED BY <1>4, <1>5, <1>6 DEF after

----------------------------------------------------------------------------
(* The steps of the session.                                               *)

LEMMA SessionStarts == SessionInit => SessionInv
<1> SUFFICES ASSUME SessionInit PROVE SessionInv
  OBVIOUS
<1>1. TurnInv /\ FrameInv
  BY BeginsInv, BeginsFrames, BlankType DEF SessionInit
<1>2. PICK o \in Openings : edit = o.edit /\ row = o.row
  BY DEF SessionInit
<1>3. edit \in BOOLEAN /\ row \in Row /\ (~edit => row.config = BlankConfig)
  BY <1>2, OpeningsAssumption, BuildsAssumption DEF Opening
<1>4. /\ said = FALSE /\ tail = NoTool /\ asked = NoAsk /\ skill = NoSkill
      /\ live = FALSE /\ sent = 0 /\ cuts = 0 /\ Begins(input)
  BY DEF SessionInit
<1>5. SessionTypeOK
  <2>1. events = <<>> /\ Len(<<>>) = 0
    BY <1>4 DEF Begins
  <2>2. sent \in 0 .. Len(events) /\ cuts \in 0 .. MaxCuts
    BY <1>4, <2>1, MaxCutsAssumption
  <2>3. skill \in Skill /\ asked \in Ask
    BY <1>4, BlankType DEF Skill, NoSkill, Ask
  <2>4. QED BY <1>3, <1>4, <2>2, <2>3 DEF SessionTypeOK
<1>6. TurnLink /\ RestLink /\ GatewayLink
  BY <1>3, <1>4, BlankType
     DEF TurnLink, RestLink, GatewayLink, FinalizeSucceeded, NoTool
<1>7. RowIsProposable
  BY <1>3 DEF RowIsProposable, BlankConfig, EmptyBody
<1>8. SlugNamesVertical
  BY <1>3, VerticalsAssumption DEF SlugNamesVertical, BlankConfig
<1>9. SkillIsReady
  BY <1>4 DEF SkillIsReady, NoSkill
<1>10. QED BY <1>1, <1>5, <1>6, <1>7, <1>8, <1>9 DEF SessionInv, RowInv

(* A turn begins on the row as it is.                                      *)
LEMMA BeginTurnInv ==
  ASSUME SessionInv, ~live, NEW c \in Contexts, NEW p \in ToolResult \cup {NoTool},
         BeginTurn(TurnInput(c, p)),
         UNCHANGED <<edit, row, said, asked, skill>>,
         tail' \in {tail, NoTool},
         p = NoTool => ~skill.made,
         p = FinalizeSucceeded => skill.made
  PROVE  SessionInv'
<1> DEFINE in == TurnInput(c, p)
<1>1. in \in Input
  BY TurnInputType DEF SessionInv, RowInv
<1>2. /\ in.edit = edit /\ in.kickoff = ~said /\ in.pending = p
      /\ in.config = row.config /\ in.acceptance = row.acceptance
  BY DEF TurnInput
<1>3. Begins(input) /\ sent = 0
  BY DEF SessionInv, RowInv, RestLink
<1>4. /\ input' = in /\ pc' = "parse" /\ draft' = in.config
      /\ UNCHANGED <<events, usage, spent, decision, sent, cuts>> /\ live' = TRUE
  BY DEF BeginTurn
<1> HIDE DEF in
<1>5. input' \in Input /\ Begins(input)'
  BY <1>1, <1>3, <1>4 DEF Begins
<1>6. TurnInv' /\ FrameInv'
  BY <1>5, BeginsNext
<1>7. SessionTypeOK'
  BY <1>4 DEF SessionInv, RowInv, SessionTypeOK
<1>8. TurnLink'
  BY <1>2, <1>3, <1>4 DEF SessionInv, RowInv, GatewayLink, TurnLink
<1>9. RestLink' /\ GatewayLink'
  BY <1>3, <1>4 DEF SessionInv, RowInv, RestLink, GatewayLink, FinalizeSucceeded, NoTool
<1>10. RowIsProposable' /\ SlugNamesVertical' /\ SkillIsReady'
  BY DEF SessionInv, RowInv, RowIsProposable, SlugNamesVertical, SkillIsReady
<1>11. QED BY <1>6, <1>7, <1>8, <1>9, <1>10 DEF SessionInv, RowInv

LEMMA OperatorTurnInv == SessionInv /\ OperatorTurn => SessionInv'
<1> SUFFICES ASSUME SessionInv, OperatorTurn PROVE SessionInv'
  OBVIOUS
<1>1. PICK c \in Contexts : BeginTurn(TurnInput(c, NoTool))
  BY DEF OperatorTurn
<1>2. QED BY <1>1, BeginTurnInv DEF OperatorTurn, FinalizeSucceeded, NoTool

LEMMA ResultTurnInv == SessionInv /\ ResultTurn => SessionInv'
<1> SUFFICES ASSUME SessionInv, ResultTurn PROVE SessionInv'
  OBVIOUS
<1>1. PICK c \in Contexts : BeginTurn(TurnInput(c, tail))
  BY DEF ResultTurn
<1>2. tail \in ToolResult \cup {NoTool} /\ tail # NoTool
      /\ (tail = FinalizeSucceeded => skill.made)
  BY DEF ResultTurn, SessionInv, RowInv, SessionTypeOK, GatewayLink
<1>3. QED BY <1>1, <1>2, BeginTurnInv DEF ResultTurn, gatewayVars

LEMMA TurnIsNotDone == TurnStep => pc # "done"
BY DEF TurnStep, RejectEnvelope, StartRun, KickoffHit, KickoffBuild,
   KickoffEditRefused, KickoffEdit, Compose, Fallback, ModelDecides, ModelRaises,
   ApplyVertical, ProposeSection, RequestTool, ConnectExisting, AwaitHuman,
   AfterTool, SystemPrompt, Goto

LEMMA InputStays == TurnStep => input' = input
BY DEF TurnStep, RejectEnvelope, StartRun, KickoffHit, KickoffBuild,
   KickoffEditRefused, KickoffEdit, Compose, Fallback, ModelDecides, ModelRaises,
   ApplyVertical, ProposeSection, RequestTool, ConnectExisting, AwaitHuman,
   AfterTool, SystemPrompt

LEMMA RunTurnInv == SessionInv /\ RunTurn => SessionInv'
<1> SUFFICES ASSUME SessionInv, RunTurn PROVE SessionInv'
  OBVIOUS
<1>1. live /\ TurnStep /\ UNCHANGED <<gatewayVars, live, sent, cuts>>
  BY DEF RunTurn
<1>2. TurnInv' /\ FrameInv'
  BY <1>1, TurnStepInv, FrameStepInv DEF SessionInv
<1>3. sent = 0 /\ input' = input
  <2>1. sent \in Nat
    BY DEF SessionInv, RowInv, SessionTypeOK, TurnInv, TypeOK
  <2>2. QED BY <1>1, <2>1, TurnIsNotDone, InputStays DEF SessionInv, RowInv, RestLink
<1>4. SessionTypeOK'
  <2>1. Len(events') \in Nat
    BY <1>2 DEF TurnInv, TypeOK
  <2>2. sent' \in 0 .. Len(events')
    BY <1>1, <1>3, <2>1
  <2>3. QED BY <1>1, <2>2 DEF SessionInv, RowInv, SessionTypeOK, gatewayVars
<1>5. TurnLink' /\ RestLink' /\ GatewayLink'
  BY <1>1, <1>3 DEF SessionInv, RowInv, TurnLink, RestLink, GatewayLink, gatewayVars
<1>6. RowIsProposable' /\ SlugNamesVertical' /\ SkillIsReady'
  BY <1>1 DEF SessionInv, RowInv, RowIsProposable, SlugNamesVertical, SkillIsReady,
              gatewayVars
<1>7. QED BY <1>2, <1>4, <1>5, <1>6 DEF SessionInv, RowInv

LEMMA RestInv ==
  ASSUME SessionInv, Rest, UNCHANGED gatewayVars, cuts' \in 0 .. MaxCuts
  PROVE  SessionInv'
<1>1. /\ live' = FALSE /\ sent' = 0 /\ events' = <<>> /\ input' = AtRest
      /\ Begins(input)'
  BY BlankType DEF Rest, Begins
<1>2. TurnInv' /\ FrameInv'
  BY <1>1, BeginsNext, BlankType
<1>3. SessionTypeOK'
  <2>1. sent' \in 0 .. Len(events')
    BY <1>1
  <2>2. QED BY <1>1, <2>1 DEF SessionInv, RowInv, SessionTypeOK, gatewayVars
<1>4. TurnLink' /\ RestLink' /\ GatewayLink'
  BY <1>1 DEF SessionInv, RowInv, TurnLink, RestLink, GatewayLink, gatewayVars
<1>5. RowIsProposable' /\ SlugNamesVertical' /\ SkillIsReady'
  BY DEF SessionInv, RowInv, RowIsProposable, SlugNamesVertical, SkillIsReady, gatewayVars
<1>6. QED BY <1>2, <1>3, <1>4, <1>5 DEF SessionInv, RowInv

LEMMA JudgedCalls ==
  ASSUME TurnInv, NEW i \in DOMAIN events, events[i].type = "TOOL_CALL_ARGS"
  PROVE  Ready(events[i].tool, events[i].config)
<1>1. events[i] \in Elems(events)
  BY DEF Elems
<1>2. ~Opens(events)
  BY <1>1 DEF Opens
<1>3. QED BY <1>1, <1>2, EventsAreJudged DEF Judged

(* One full event is persisted: nothing of the turn moves.                 *)
LEMMA DeliverFacts ==
  ASSUME SessionInv, Deliver
  PROVE  /\ live /\ pc = "done" /\ sent \in Nat /\ sent + 1 \in DOMAIN events
         /\ Frame \in Event /\ Frame \in Elems(events)
         /\ Meant(Frame, input, decision, draft)
         /\ Frame.type = "STATE_DELTA" =>
              SectionWrite(Frame.patch)
                \/ (sent = 1 /\ VerticalWritten(Frame.patch, input))
         /\ Frame.type \in {"STATE_SNAPSHOT", "STATE_DELTA"} => sent > 0
<1>1. live /\ pc = "done" /\ sent < Len(events) /\ events \in Seq(Event)
      /\ sent \in 0 .. Len(events)
  BY DEF Deliver, SessionInv, RowInv, SessionTypeOK, TurnInv, TypeOK
<1>2. sent \in Nat /\ Len(events) \in Nat /\ sent + 1 \in DOMAIN events /\ events # <<>>
  BY <1>1
<1>3. Frame \in Event /\ Frame \in Elems(events)
  BY <1>1, <1>2 DEF Frame, Elems
<1>4. Framed(events, input, decision, draft)
  BY DEF SessionInv, FrameInv
<1>5. Frame.type = "STATE_DELTA" =>
        SectionWrite(Frame.patch) \/ (sent + 1 = 2 /\ VerticalWritten(Frame.patch, input))
  BY <1>2, <1>4 DEF Framed, Frame
<1>6. sent = 0 => Frame.type \in {"RUN_STARTED", "RUN_ERROR"}
  BY <1>2, <1>4 DEF Framed, Frame
<1>7. QED BY <1>1, <1>2, <1>3, <1>4, <1>5, <1>6 DEF Framed

(* What one frame does to the row.                                         *)
LEMMA DeliverRow ==
  ASSUME SessionInv, Deliver
  PROVE  /\ row' \in Row
         /\ row'.acceptance = row.acceptance
         /\ \A s \in AuthoredSections(row.config) :
              row'.config.sections[s] # row.config.sections[s] =>
                Frame.type = "STATE_DELTA" /\ Frame.patch.section = s
         /\ (~edit /\ input.kickoff) => AuthoredSections(row'.config) = {}
         /\ sent = 0 => row' = row
         /\ skill.made => row' = row
         /\ RowIsProposable' /\ SlugNamesVertical'
<1>1. /\ sent \in Nat /\ Frame \in Event /\ Meant(Frame, input, decision, draft)
      /\ Frame.type = "STATE_DELTA" =>
           SectionWrite(Frame.patch) \/ (sent = 1 /\ VerticalWritten(Frame.patch, input))
      /\ Frame.type \in {"STATE_SNAPSHOT", "STATE_DELTA"} => sent > 0
  BY DeliverFacts
<1>2. /\ input.edit = edit /\ (sent <= 1 => row.config = input.config)
      /\ (input.kickoff /\ ~edit) =>
           AuthoredSections(row.config) = {} /\ row.acceptance = input.acceptance
      /\ skill.made => input.pending # NoTool
  BY DeliverFacts DEF SessionInv, RowInv, TurnLink
<1>3. /\ row \in Row /\ row.config \in Config /\ row.acceptance \in Acceptance
      /\ edit \in BOOLEAN
  BY DEF SessionInv, RowInv, SessionTypeOK, Row
<1>4. RowIsProposable /\ SlugNamesVertical /\ UNCHANGED edit
  BY DEF SessionInv, RowInv, Deliver
<1>5. CASE Frame.type = "STATE_SNAPSHOT"
  <2>1. row' = [config |-> Frame.config, acceptance |-> Frame.acceptance]
    BY <1>5 DEF Deliver, PersistFrame
  <2>2. /\ input.kickoff /\ ~edit /\ input.pending = NoTool
        /\ Frame.config = Skeleton(input.vertical) /\ Frame.acceptance = input.acceptance
    BY <1>1, <1>2, <1>5 DEF Meant
  <2>3. row' \in Row
    BY <1>1, <1>5, <2>1, FrameTypes DEF Row
  <2>4. AuthoredSections(row'.config) = {}
    BY <2>1, <2>2 DEF AuthoredSections, Skeleton
  <2>5. RowIsProposable' /\ SlugNamesVertical'
    BY <2>1, <2>2 DEF RowIsProposable, SlugNamesVertical, Skeleton, EmptyBody
  <2>6. QED BY <1>1, <1>2, <1>5, <2>1, <2>2, <2>3, <2>4, <2>5
<1>6. CASE Frame.type = "STATE_DELTA" /\ Applies(row.config, Frame.patch)
  <2> DEFINE after == ApplyPatch(row.config, Frame.patch)
  <2>1. row' = [row EXCEPT !.config = after]
    BY <1>6 DEF Deliver, PersistFrame
  <2>2. Frame.patch \in Patch /\ after \in Config
    BY <1>1, <1>3, <1>6, FrameTypes, ApplyPatchType
  <2>3. ~input.kickoff /\ input.pending = NoTool
    BY <1>1, <1>6 DEF Meant
  <2>4. /\ Proposable(row.config) => Proposable(after)
        /\ \A s \in Sections :
             after.sections[s] # row.config.sections[s] => Frame.patch.section = s
        /\ \/ after.complete = row.config.complete /\ after.vertical = row.config.vertical
              /\ after.slug = row.config.slug
           \/ ~edit => after.slug = BuildSlug(after.vertical)
    <3>1. CASE SectionWrite(Frame.patch)
      BY <1>3, <2>2, <3>1, SectionWriteKeeps
    <3>2. CASE sent = 1 /\ VerticalWritten(Frame.patch, input)
      BY <1>2, <1>3, <2>2, <3>2, VerticalWrittenKeeps
    <3>3. QED BY <1>1, <1>6, <3>1, <3>2
  <2> HIDE DEF after
  <2>5. row' \in Row /\ row'.acceptance = row.acceptance /\ row'.config = after
    BY <1>3, <2>1, <2>2 DEF Row
  <2>6. RowIsProposable' /\ SlugNamesVertical'
    BY <1>4, <2>4, <2>5 DEF RowIsProposable, SlugNamesVertical, Proposable
  <2>7. QED BY <1>1, <1>2, <1>6, <2>3, <2>4, <2>5, <2>6 DEF AuthoredSections
<1>7. CASE ~(Frame.type = "STATE_SNAPSHOT")
           /\ ~(Frame.type = "STATE_DELTA" /\ Applies(row.config, Frame.patch))
  <2>1. row' = row
    BY <1>7 DEF Deliver, PersistFrame
  <2>2. QED BY <1>2, <1>3, <1>4, <2>1 DEF RowIsProposable, SlugNamesVertical
<1>8. QED BY <1>5, <1>6, <1>7

(* A complete tool call asks for a config that is ready for that tool.     *)
LEMMA DeliverAsks ==
  ASSUME SessionInv, Deliver
  PROVE  /\ asked' \in Ask
         /\ asked' # NoAsk => Ready(asked'.tool, asked'.config)
<1>1. asked \in Ask /\ (asked # NoAsk => Ready(asked.tool, asked.config))
  BY DEF SessionInv, RowInv, SessionTypeOK, GatewayLink
<1>2. CASE Frame.type = "TOOL_CALL_END"
  <2>1. /\ sent \in Nat /\ sent + 1 \in DOMAIN events /\ Frame \in Event
        /\ events \in Seq(Event)
    BY DeliverFacts DEF SessionInv, TurnInv, TypeOK
  <2>2. /\ sent + 1 > 1 /\ events[(sent + 1) - 1].type = "TOOL_CALL_ARGS"
        /\ events[(sent + 1) - 1].tool = Frame.tool
    BY <1>2, <2>1 DEF SessionInv, FrameInv, Framed, CallsClose, Frame
  <2>3. (sent + 1) - 1 = sent /\ sent \in DOMAIN events /\ events[sent] \in Event
    BY <2>1, <2>2
  <2>4. Ready(events[sent].tool, events[sent].config)
    BY <2>2, <2>3, JudgedCalls DEF SessionInv
  <2>5. asked' = [tool |-> Frame.tool, config |-> events[sent].config]
    BY <1>2 DEF Deliver, PersistFrame
  <2>6. events[sent].config \in Config /\ Frame.tool \in Tools
    BY <1>2, <2>1, <2>2, <2>3, FrameTypes
  <2>7. QED BY <2>2, <2>3, <2>4, <2>5, <2>6 DEF Ask
<1>3. CASE Frame.type # "TOOL_CALL_END"
  BY <1>1, <1>3 DEF Deliver, PersistFrame
<1>4. QED BY <1>2, <1>3

LEMMA DeliverInv == SessionInv /\ Deliver => SessionInv'
<1> SUFFICES ASSUME SessionInv, Deliver PROVE SessionInv'
  OBVIOUS
<1>1. /\ live /\ pc = "done" /\ sent \in Nat /\ sent + 1 \in DOMAIN events
      /\ sent' = sent + 1 /\ UNCHANGED <<turnVars, edit, skill, live, cuts>>
  BY DeliverFacts DEF Deliver
<1>2. UNCHANGED <<input, pc, draft, events, usage, spent, decision>>
  BY <1>1 DEF turnVars, vars
<1>3. TurnInv' /\ FrameInv'
  BY <1>2, StutterInv DEF SessionInv, FrameInv, FlowInv, vars
<1>4. /\ said' = (said \/ Frame.type = "TEXT_MESSAGE_END")
      /\ tail' \in {tail, NoTool}
  BY DEF Deliver, PersistFrame
<1>5. SessionTypeOK'
  <2>1. events \in Seq(Event)
    BY DEF SessionInv, TurnInv, TypeOK
  <2>2. sent' \in 0 .. Len(events')
    BY <1>1, <1>2, <2>1
  <2>3. said' \in BOOLEAN
    BY <1>4 DEF SessionInv, RowInv, SessionTypeOK
  <2>4. QED
    BY <1>1, <1>4, <2>2, <2>3, DeliverRow, DeliverAsks DEF SessionInv, RowInv, SessionTypeOK
<1>6. TurnLink'
  <2>1. /\ input.edit = edit
        /\ ~input.kickoff => said
        /\ sent <= 1 => row.config = input.config
        /\ (input.kickoff /\ ~edit) => row.acceptance = input.acceptance
        /\ skill.made => input.pending # NoTool
        /\ input.pending = FinalizeSucceeded => skill.made
    BY <1>1 DEF SessionInv, RowInv, TurnLink
  <2>2. sent' <= 1 => row'.config = input'.config
    BY <1>1, <1>2, <2>1, DeliverRow
  <2>3. (input'.kickoff /\ ~edit') =>
          AuthoredSections(row'.config) = {} /\ row'.acceptance = input'.acceptance
    BY <1>1, <1>2, <2>1, DeliverRow
  <2>4. ~input'.kickoff => said'
    BY <1>2, <1>4, <2>1
  <2>5. QED BY <1>1, <1>2, <2>1, <2>2, <2>3, <2>4 DEF TurnLink, AuthoredSections
<1>7. RestLink'
  BY <1>1, <1>2 DEF RestLink
<1>8. GatewayLink'
  <2>1. (~edit' /\ ~said') => AuthoredSections(row'.config) = {}
    BY <1>1, <1>4, DeliverRow DEF SessionInv, RowInv, TurnLink
  <2>2. tail' = FinalizeSucceeded => skill'.made
    BY <1>1, <1>4 DEF SessionInv, RowInv, GatewayLink, FinalizeSucceeded, NoTool
  <2>3. QED BY <2>1, <2>2, DeliverAsks DEF GatewayLink, AuthoredSections
<1>9. SkillIsReady'
  BY <1>1, DeliverRow DEF SessionInv, RowInv, SkillIsReady
<1>10. QED BY <1>3, <1>5, <1>6, <1>7, <1>8, <1>9, DeliverRow DEF SessionInv, RowInv

LEMMA ExecuteToolInv == SessionInv /\ ExecuteTool => SessionInv'
<1> SUFFICES ASSUME SessionInv, ExecuteTool PROVE SessionInv'
  OBVIOUS
<1>1. PICK status \in Statuses :
        /\ asked.config # row.config => status = "rejected"
        /\ tail' = [tool |-> asked.tool, status |-> status]
        /\ skill' = IF asked.tool = "request_finalize" /\ status = "succeeded"
                    THEN [made |-> TRUE, config |-> row.config] ELSE skill
  BY DEF ExecuteTool
<1>2. /\ ~live /\ asked # NoAsk /\ asked' = NoAsk
      /\ UNCHANGED <<turnVars, edit, row, said, live, sent, cuts>>
  BY DEF ExecuteTool
<1>3. UNCHANGED <<input, pc, draft, events, usage, spent, decision>>
  BY <1>2 DEF turnVars, vars
<1>4. TurnInv' /\ FrameInv'
  BY <1>3, StutterInv DEF SessionInv, FrameInv, FlowInv, vars
<1>5. /\ asked.tool \in Tools /\ asked.config \in Config /\ row \in Row /\ skill \in Skill
      /\ Ready(asked.tool, asked.config)
  BY <1>2 DEF SessionInv, RowInv, SessionTypeOK, GatewayLink, Ask
<1>6. tail' \in ToolResult /\ (tail' = FinalizeSucceeded => skill'.made)
  BY <1>1, <1>5 DEF ToolResult, FinalizeSucceeded
<1>7. skill' \in Skill /\ (skill.made => skill'.made)
  BY <1>1, <1>5 DEF Skill, Row
<1>8. SessionTypeOK'
  BY <1>2, <1>3, <1>6, <1>7 DEF SessionInv, RowInv, SessionTypeOK, Ask
<1>9. TurnLink' /\ RestLink' /\ GatewayLink'
  <2>1. Begins(input)'
    BY <1>2, <1>3 DEF SessionInv, RowInv, RestLink, Begins
  <2>2. QED
    BY <1>2, <1>3, <1>6, <2>1 DEF SessionInv, RowInv, TurnLink, RestLink, GatewayLink
<1>10. RowIsProposable' /\ SlugNamesVertical'
  BY <1>2 DEF SessionInv, RowInv, RowIsProposable, SlugNamesVertical
<1>11. SkillIsReady'
  <2>1. CASE asked.tool = "request_finalize" /\ status = "succeeded"
    BY <1>1, <1>2, <1>5, <2>1 DEF SkillIsReady, Ready
  <2>2. CASE ~(asked.tool = "request_finalize" /\ status = "succeeded")
    BY <1>1, <1>2, <2>2 DEF SessionInv, RowInv, SkillIsReady
  <2>3. QED BY <2>1, <2>2
<1>12. QED BY <1>4, <1>8, <1>9, <1>10, <1>11 DEF SessionInv, RowInv

LEMMA SettleInv == SessionInv /\ Settle => SessionInv'
<1> SUFFICES ASSUME SessionInv, Settle PROVE SessionInv'
  OBVIOUS
<1>1. PICK s \in AuthoredSections(row.config) :
        row' = [row EXCEPT !.acceptance[s] = ~row.acceptance[s]]
  BY DEF Settle
<1>2. ~skill.made /\ UNCHANGED <<turnVars, edit, said, tail, asked, skill, live, sent, cuts>>
  BY DEF Settle
<1>3. UNCHANGED <<input, pc, draft, events, usage, spent, decision>>
  BY <1>2 DEF turnVars, vars
<1>4. TurnInv' /\ FrameInv'
  BY <1>3, StutterInv DEF SessionInv, FrameInv, FlowInv, vars
<1>5. row' \in Row /\ row'.config = row.config
  BY <1>1 DEF SessionInv, RowInv, SessionTypeOK, Row, Acceptance, AuthoredSections
<1>6. SessionTypeOK'
  BY <1>2, <1>3, <1>5 DEF SessionInv, RowInv, SessionTypeOK
<1>7. AuthoredSections(row.config) # {}
  BY <1>1
<1>8. TurnLink'
  BY <1>2, <1>3, <1>5, <1>7 DEF SessionInv, RowInv, TurnLink
<1>9. RestLink' /\ GatewayLink'
  <2>1. ~live' => Begins(input)'
    BY <1>2, <1>3 DEF SessionInv, RowInv, RestLink, Begins
  <2>2. QED
    BY <1>2, <1>3, <1>5, <2>1
       DEF SessionInv, RowInv, RestLink, GatewayLink, AuthoredSections
<1>10. RowIsProposable' /\ SlugNamesVertical' /\ SkillIsReady'
  BY <1>2, <1>5 DEF SessionInv, RowInv, RowIsProposable, SlugNamesVertical, SkillIsReady
<1>11. QED BY <1>4, <1>6, <1>8, <1>9, <1>10 DEF SessionInv, RowInv

LEMMA SessionStutters == SessionInv /\ UNCHANGED sessionVars => SessionInv'
<1> SUFFICES ASSUME SessionInv, UNCHANGED sessionVars PROVE SessionInv'
  OBVIOUS
<1>1. UNCHANGED <<input, pc, draft, events, usage, spent, decision>>
      /\ UNCHANGED <<edit, row, said, tail, asked, skill, live, sent, cuts>>
  BY DEF sessionVars, turnVars, gatewayVars, vars
<1>2. TurnInv' /\ FrameInv'
  BY <1>1, StutterInv DEF SessionInv, FrameInv, FlowInv, vars
<1>3. SessionTypeOK' /\ TurnLink' /\ GatewayLink'
  BY <1>1 DEF SessionInv, RowInv, SessionTypeOK, TurnLink, GatewayLink
<1>4. RestLink'
  BY <1>1 DEF SessionInv, RowInv, RestLink, Begins
<1>5. RowIsProposable' /\ SlugNamesVertical' /\ SkillIsReady'
  BY <1>1 DEF SessionInv, RowInv, RowIsProposable, SlugNamesVertical, SkillIsReady
<1>6. QED BY <1>2, <1>3, <1>4, <1>5 DEF SessionInv, RowInv

LEMMA SessionStepInv == SessionInv /\ [SessionNext]_sessionVars => SessionInv'
<1> SUFFICES ASSUME SessionInv, [SessionNext]_sessionVars PROVE SessionInv'
  OBVIOUS
<1>1. CASE CloseStream
  <2>1. cuts' \in 0 .. MaxCuts
    BY <1>1 DEF CloseStream, SessionInv, RowInv, SessionTypeOK
  <2>2. QED BY <1>1, <2>1, RestInv DEF CloseStream
<1>2. CASE CutStream
  <2>1. cuts' \in 0 .. MaxCuts
    BY <1>2, MaxCutsAssumption DEF CutStream, SessionInv, RowInv, SessionTypeOK
  <2>2. QED BY <1>2, <2>1, RestInv DEF CutStream
<1>3. QED
  BY <1>1, <1>2, OperatorTurnInv, ResultTurnInv, RunTurnInv, DeliverInv, ExecuteToolInv,
     SettleInv, SessionStutters DEF SessionNext, Closed

----------------------------------------------------------------------------
(* The gateway's copy of the turn, through a whole session.                *)

LEMMA BeginsCopyNext == Begins(input)' => CopyInv'
BY BeginsCopy, PTL

LEMMA SessionCopyStarts == SessionInit => CopyInv
BY BeginsCopy DEF SessionInit

(* A turn begins with nothing sent, on a draft that is the row it got.     *)
LEMMA BeginTurnCopy ==
  ASSUME SessionInv, ~live, NEW in, BeginTurn(in)
  PROVE  CopyInv'
<1>1. Begins(input)
  BY DEF SessionInv, RowInv, RestLink
<1>2. Begins(input)'
  BY <1>1 DEF BeginTurn, Begins
<1>3. QED BY <1>2, BeginsCopyNext

LEMMA RestCopy == Rest => CopyInv'
<1> SUFFICES ASSUME Rest PROVE CopyInv'
  OBVIOUS
<1>1. Begins(input)'
  BY BlankType DEF Rest, Begins
<1>2. QED BY <1>1, BeginsCopyNext

LEMMA SessionStepCopy == SessionInv /\ CopyInv /\ [SessionNext]_sessionVars => CopyInv'
<1> SUFFICES ASSUME SessionInv, CopyInv, [SessionNext]_sessionVars PROVE CopyInv'
  OBVIOUS
<1>1. CASE OperatorTurn
  BY <1>1, BeginTurnCopy DEF OperatorTurn
<1>2. CASE ResultTurn
  BY <1>2, BeginTurnCopy DEF ResultTurn
<1>3. CASE RunTurn
  BY <1>3, CopyStepInv DEF RunTurn, SessionInv
<1>4. CASE CloseStream \/ CutStream
  BY <1>4, RestCopy DEF CloseStream, CutStream
<1>5. CASE Deliver \/ ExecuteTool \/ Settle \/ Closed \/ UNCHANGED sessionVars
  <2>1. UNCHANGED vars
    BY <1>5 DEF Deliver, ExecuteTool, Settle, Closed, sessionVars, turnVars, vars
  <2>2. QED BY <2>1, CopyStutters
<1>6. QED BY <1>1, <1>2, <1>3, <1>4, <1>5 DEF SessionNext

----------------------------------------------------------------------------
(* Behind a complete tool call a turn says only that it is over.           *)

Silent(s) == s \in Seq(Event) /\ \A e \in Elems(s) : e.type # "TOOL_CALL_END"

CallIsLast(s) ==
  \A i \in DOMAIN s : s[i].type = "TOOL_CALL_END" =>
    \A j \in DOMAIN s : j > i => s[j].type = "RUN_FINISHED"

CallInv == CallIsLast(events) /\ (pc # "done" => Silent(events))

LEMMA SilentConcat ==
  ASSUME NEW s, NEW t, Silent(s), Silent(t)
  PROVE  Silent(s \o t)
BY ElemsConcat DEF Silent

LEMMA SilentCalls ==
  ASSUME NEW s, Silent(s)
  PROVE  CallIsLast(s)
BY DEF Silent, CallIsLast, Elems

LEMMA CallIsLastConcat ==
  ASSUME NEW s, NEW t \in Seq(Event), Silent(s), CallIsLast(t)
  PROVE  CallIsLast(s \o t)
<1> DEFINE st == s \o t
<1>1. /\ s \in Seq(Event) /\ Len(s) \in Nat /\ Len(t) \in Nat /\ Len(st) = Len(s) + Len(t)
      /\ \A i \in 1 .. Len(s) : st[i] = s[i] /\ s[i].type # "TOOL_CALL_END"
      /\ \A j \in 1 .. Len(t) : st[Len(s) + j] = t[j]
      /\ DOMAIN st = 1 .. Len(st) /\ DOMAIN t = 1 .. Len(t)
  BY DEF Silent, Elems
<1> HIDE DEF st
<1>2. ASSUME NEW i \in DOMAIN st, st[i].type = "TOOL_CALL_END",
             NEW j \in DOMAIN st, j > i
      PROVE  st[j].type = "RUN_FINISHED"
  <2> DEFINE k == i - Len(s)
             l == j - Len(s)
  <2>1. ~(i <= Len(s))
    BY <1>1, <1>2
  <2>2. /\ k \in 1 .. Len(t) /\ l \in 1 .. Len(t) /\ l > k
        /\ i = Len(s) + k /\ j = Len(s) + l
    BY <1>1, <1>2, <2>1
  <2> HIDE DEF k, l
  <2>3. st[i] = t[k] /\ st[j] = t[l]
    BY <1>1, <2>2
  <2>4. QED BY <1>1, <1>2, <2>2, <2>3 DEF CallIsLast
<1>3. QED BY <1>2 DEF CallIsLast, st

(* What the emitter appends, but for a tool call.                          *)
LEMMA MessageIsSilent == Silent(Message)
<1>1. Message \in Seq(Event)
  BY MessageIsInert DEF Inert
<1>2. QED BY <1>1 DEF Silent, Message, Elems

LEMMA RunErrorIsSilent ==
  ASSUME NEW code \in Codes
  PROVE  Silent(RunError(code))
BY DEF Silent, RunError, Event, Elems

LEMMA FinishedIsSilent ==
  ASSUME NEW outcome, NEW reason, NEW step, NEW phase, NEW tool,
         RunFinished(outcome, reason, step, phase, tool) \in Seq(Event)
  PROVE  Silent(RunFinished(outcome, reason, step, phase, tool))
BY DEF Silent, RunFinished, Elems

LEMMA InterruptIsSilent ==
  ASSUME NEW reason, NEW step \in Steps \cup {NoStep}, NEW phase \in Phases,
         usage \in 0 .. MaxCalls
  PROVE  Silent(Interrupt(reason, step, phase))
<1>1. Interrupt(reason, step, phase) \in Seq(Event)
  BY InterruptIsFinal DEF Final
<1>2. QED BY <1>1, FinishedIsSilent DEF Interrupt

LEMMA ToolReplyIsSilent ==
  ASSUME NEW result, usage \in 0 .. MaxCalls
  PROVE  Silent(ToolReply(result))
<1>1. ToolReply(result) \in Seq(Event)
  BY ToolReplyIsFinal DEF Final
<1>2. QED BY <1>1, FinishedIsSilent DEF ToolReply, Finalized, Interrupt

LEMMA DeltaIsSilent ==
  ASSUME NEW patch \in Patch
  PROVE  Silent(StateDelta(patch))
BY StateDeltaFrame DEF Silent

(* A sequence behind another, one index at a time.                         *)
LEMMA ConcatReads ==
  ASSUME NEW S, NEW s \in Seq(S), NEW t \in Seq(S)
  PROVE  /\ s \o t \in Seq(S) /\ Len(s \o t) = Len(s) + Len(t)
         /\ \A i \in 1 .. Len(s) : (s \o t)[i] = s[i]
         /\ \A j \in 1 .. Len(t) : (s \o t)[Len(s) + j] = t[j]
OBVIOUS

(* A tool call and the finish that goes with it.                           *)
LEMMA RequestedIsLast ==
  ASSUME NEW tool \in Tools, draft \in Config, usage \in 0 .. MaxCalls
  PROVE  Requested(tool) \in Seq(Event) /\ CallIsLast(Requested(tool))
<1>1. ToolRequested(tool) \in Seq(Event)
  BY RunFinishedIsFinal, NoPhaseIsPhase DEF ToolRequested, Final
<1> DEFINE finish == ToolRequested(tool)[1]
           begin  == [type |-> "TOOL_CALL_START", tool |-> tool]
           args   == [type |-> "TOOL_CALL_ARGS", tool |-> tool, config |-> draft]
           end    == [type |-> "TOOL_CALL_END", tool |-> tool]
<1>2. ToolRequested(tool) = <<finish>> /\ finish.type = "RUN_FINISHED"
  BY DEF ToolRequested, RunFinished
<1>3. begin \in Event /\ args \in Event /\ end \in Event /\ finish \in Event
  BY <1>1, <1>2 DEF Event
<1>4. /\ begin.type = "TOOL_CALL_START" /\ args.type = "TOOL_CALL_ARGS"
      /\ ToolCall(tool, draft) = <<begin, args, end>>
  BY DEF ToolCall
<1> HIDE DEF finish, begin, args, end
<1> DEFINE call == <<begin, args, end>>
           over == <<finish>>
<1>5. /\ call \in Seq(Event) /\ Len(call) = 3 /\ over \in Seq(Event) /\ Len(over) = 1
      /\ call[1] = begin /\ call[2] = args /\ over[1] = finish
      /\ Requested(tool) = call \o over
  BY <1>2, <1>3, <1>4 DEF Requested
<1> HIDE DEF call, over
<1>6. /\ Requested(tool) \in Seq(Event) /\ Len(Requested(tool)) = 4
      /\ Requested(tool)[1] = begin /\ Requested(tool)[2] = args
      /\ Requested(tool)[4] = finish
  <2> DEFINE all == call \o over
  <2>1. /\ all \in Seq(Event) /\ Len(all) = Len(call) + Len(over)
        /\ \A i \in 1 .. Len(call) : all[i] = call[i]
        /\ \A j \in 1 .. Len(over) : all[Len(call) + j] = over[j]
    <3>1. call \in Seq(Event) /\ over \in Seq(Event)
      BY <1>5
    <3>2. QED BY ONLY <3>1, ConcatReads
  <2> HIDE DEF all
  <2>2. Requested(tool) = all
    BY <1>5 DEF all
  <2>3. Len(all) = 4 /\ all[1] = call[1] /\ all[2] = call[2] /\ all[3 + 1] = over[1]
    BY <1>5, <2>1
  <2>4. QED BY <1>5, <2>1, <2>2, <2>3
<1>7. CallIsLast(Requested(tool))
  BY <1>2, <1>4, <1>6 DEF CallIsLast
<1>8. QED BY <1>6, <1>7

(* A handler that emits no tool call.                                      *)
LEMMA StepsSilently ==
  ASSUME CallInv, pc # "done", NEW t, Silent(t), events' = events \o t
  PROVE  CallInv'
<1>1. Silent(events')
  BY SilentConcat DEF CallInv
<1>2. QED BY <1>1, SilentCalls DEF CallInv, CallIsLast, Silent

LEMMA SpeaksSilently ==
  ASSUME CallInv, pc # "done", NEW t, Silent(t), events' = events \o (Message \o t)
  PROVE  CallInv'
BY MessageIsSilent, SilentConcat, StepsSilently

LEMMA CallStepInv == TurnInv /\ FrameInv /\ CallInv /\ TurnStep => CallInv'
<1> SUFFICES ASSUME TurnInv, FrameInv, CallInv, TurnStep PROVE CallInv'
  OBVIOUS
<1>1. /\ pc # "done" /\ Silent(events) /\ usage \in 0 .. MaxCalls
      /\ draft \in Config /\ input \in Input /\ decision \in Decision
  BY TurnIsNotDone DEF CallInv, TurnInv, TypeOK
<1>2. \A code \in Codes : Silent(RunError(code))
  BY RunErrorIsSilent
<1>3. \A reason : \A step \in Steps \cup {NoStep} : \A phase \in Phases :
        Silent(Interrupt(reason, step, phase))
  BY <1>1, InterruptIsSilent
<1>4. {"invalid_input", "invalid_config", "internal_error"} \subseteq Codes
      /\ NoPhase \in Phases
      /\ {"connect_or_build", "kickoff_confirmation", "connect"} \subseteq Steps
  BY NoPhaseIsPhase DEF Codes, Steps
<1>5. ASSUME Crash(<<>>) PROVE CallInv'
  <2>1. events' = events \o RunError("internal_error")
    BY <1>5, RunErrorIsPlain DEF Crash, Emit, Codes
  <2>2. QED BY <1>1, <1>2, <1>4, <2>1, StepsSilently
<1>6. ASSUME UNCHANGED events PROVE CallInv'
  BY <1>1, <1>6 DEF CallInv
<1>7. CASE RejectEnvelope
  <2>1. events' = events \o RunError("invalid_input")
    BY <1>7 DEF RejectEnvelope, Emit
  <2>2. QED BY <1>1, <1>2, <1>4, <2>1, StepsSilently
<1>8. CASE StartRun
  <2>1. Silent(RunStarted) /\ events' = events \o RunStarted
    BY <1>8 DEF StartRun, Emit, RunStarted, Silent, Event, Elems
  <2>2. QED BY <1>1, <2>1, StepsSilently
<1>9. CASE KickoffHit \/ KickoffEdit \/ ConnectExisting \/ AwaitHuman
  <2>1. \/ events' = events \o (Message \o Interrupt("awaiting_decision", "connect_or_build", NoPhase))
        \/ events' = events \o (Message \o Interrupt("awaiting_decision", "kickoff_confirmation", NoPhase))
        \/ events' = events \o (Message \o Interrupt("awaiting_decision", "connect", NoPhase))
        \/ events' = events \o (Message \o Interrupt(decision.reason, NoStep, NoPhase))
    BY <1>9 DEF KickoffHit, KickoffEdit, ConnectExisting, AwaitHuman, Emit
  <2>2. PICK t : Silent(t) /\ events' = events \o (Message \o t)
    BY <1>3, <1>4, <2>1
  <2>3. QED BY <1>1, <2>2, SpeaksSilently
<1>10. CASE KickoffBuild
  <2> DEFINE snapshot == StateSnapshot(draft', input.acceptance)
             opening  == snapshot \o Interrupt("awaiting_decision", "kickoff_confirmation", NoPhase)
  <2>1. \/ events' = events \o (Message \o RunError("invalid_config"))
        \/ events' = events \o (Message \o RunError("internal_error"))
        \/ events' = events \o (Message \o opening)
    BY <1>10 DEF KickoffBuild, Crash, Emit
  <2>2. Silent(opening)
    <3>1. draft' \in Config /\ input.acceptance \in Acceptance
      BY <1>1, <1>10, SkeletonType DEF KickoffBuild, Input
    <3>2. Silent(snapshot)
      BY <3>1 DEF Silent, StateSnapshot, Event, Elems
    <3>3. QED BY <1>3, <1>4, <3>2, SilentConcat
  <2> HIDE DEF opening
  <2>3. PICK t : Silent(t) /\ events' = events \o (Message \o t)
    BY <1>2, <1>4, <2>1, <2>2
  <2>4. QED BY <1>1, <2>3, SpeaksSilently
<1>11. CASE KickoffEditRefused
  <2>1. events' = events \o RunError("invalid_input")
    BY <1>11 DEF KickoffEditRefused, Emit
  <2>2. QED BY <1>1, <1>2, <1>4, <2>1, StepsSilently
<1>12. CASE Compose \/ ModelDecides \/ ModelRaises \/ SystemPrompt
  <2>1. UNCHANGED events \/ Crash(<<>>)
    BY <1>12 DEF Compose, ModelDecides, ModelRaises, SystemPrompt
  <2>2. QED BY <1>5, <1>6, <2>1
<1>13. CASE Fallback
  <2>1. NextOpenPhase(input.acceptance) \in Phases \/ AllPhasesAccepted(input.acceptance)
    <3>1. input.acceptance \in Acceptance
      BY <1>1 DEF Input
    <3>2. QED BY <3>1, NextOpenPhaseType DEF Phases
  <2>2. \E reason : \E phase \in Phases :
          events' = events \o (Message \o Interrupt(reason, NoStep, phase))
    BY <1>4, <1>13, <2>1 DEF Fallback, Emit
  <2>3. PICK t : Silent(t) /\ events' = events \o (Message \o t)
    BY <1>3, <2>2
  <2>4. QED BY <1>1, <2>3, SpeaksSilently
<1>14. CASE ApplyVertical
  <2>1. CASE UNCHANGED events
    BY <1>6, <2>1
  <2>2. CASE ~UNCHANGED events
    <3> DEFINE patch == VerticalWrite(draft, decision.vertical, input.edit)
    <3>1. /\ decision.vertical # NoVertical
          /\ events' = events \o StateDelta(patch)
      BY <1>14, <2>2 DEF ApplyVertical, RecordVertical, Emit
    <3>2. decision.vertical \in Verticals /\ input.edit \in BOOLEAN
      BY <1>1, <3>1 DEF Decision, Input
    <3>3. patch \in Patch
      BY <1>1, <3>2, VerticalWriteType
    <3> HIDE DEF patch
    <3>4. QED BY <1>1, <3>1, <3>3, DeltaIsSilent, StepsSilently
  <2>3. QED BY <2>1, <2>2
<1>15. CASE ProposeSection
  <2> DEFINE patch    == SetSection(draft, TargetPhase, decision.body, input.edit)
             handBack == Interrupt("awaiting_phase_acceptance", NoStep, TargetPhase)
  <2>1. \/ Crash(<<>>)
        \/ /\ TargetPhase # BadPointer
           /\ \/ events' = events \o (Message \o handBack)
              \/ events' = events \o ((Message \o StateDelta(patch)) \o handBack)
    BY <1>15 DEF ProposeSection, Emit
  <2>2. /\ TargetPhase \in Phases
        /\ TargetPhase # BadPointer =>
             TargetPhase \in Sections \cup Members \cup {RootKey, UnknownKey}
    BY TargetPhaseType DEF Phases, TurnInv
  <2>3. Silent(handBack)
    BY <1>3, <2>2
  <2>4. TargetPhase # BadPointer => Silent(StateDelta(patch))
    <3>1. decision.body \in Body /\ input.edit \in BOOLEAN
      BY <1>1 DEF Decision, Input
    <3>2. QED BY <1>1, <2>2, <3>1, SetSectionType, DeltaIsSilent
  <2> HIDE DEF patch, handBack
  <2>5. CASE events' = events \o (Message \o handBack)
    BY <1>1, <2>3, <2>5, SpeaksSilently
  <2>6. CASE TargetPhase # BadPointer
              /\ events' = events \o ((Message \o StateDelta(patch)) \o handBack)
    <3>1. Silent((Message \o StateDelta(patch)) \o handBack)
      BY <2>3, <2>4, <2>6, MessageIsSilent, SilentConcat
    <3>2. QED BY <1>1, <2>6, <3>1, StepsSilently
  <2>7. QED BY <1>5, <2>1, <2>5, <2>6
<1>16. CASE RequestTool
  <2> DEFINE tool == decision.action
  <2>1. tool \in Tools /\ pc' = "done"
    BY <1>16 DEF RequestTool, Crash
  <2>2. \/ events' = events \o (Message \o RunError("internal_error"))
        \/ \E phase \in PhaseFromIssues(draft) :
             events' = events \o (Message \o Blocked(phase))
        \/ events' = events \o (Message \o Requested(tool))
    BY <1>16 DEF RequestTool, Crash, Emit
  <2>3. \A phase \in PhaseFromIssues(draft) : Silent(Blocked(phase))
    <3>1. \A phase \in PhaseFromIssues(draft) : phase \in Phases
      BY PhaseFromIssuesType, NoPhaseIsPhase DEF Phases
    <3>2. \A phase \in PhaseFromIssues(draft) :
            Silent(Interrupt("awaiting_phase_acceptance", NoStep, phase))
      BY <1>3, <3>1
    <3>3. QED BY <3>2, MessageIsSilent, SilentConcat DEF Blocked
  <2>4. CASE events' = events \o (Message \o Requested(tool))
    <3>1. Requested(tool) \in Seq(Event) /\ CallIsLast(Requested(tool))
      BY <1>1, <2>1, RequestedIsLast
    <3> HIDE DEF tool
    <3>2. /\ Message \o Requested(tool) \in Seq(Event)
          /\ CallIsLast(Message \o Requested(tool))
      BY <3>1, MessageIsSilent, CallIsLastConcat, ElemsConcat DEF Silent
    <3>3. CallIsLast(events')
      BY <1>1, <2>4, <3>2, CallIsLastConcat
    <3>4. QED BY <2>1, <3>3 DEF CallInv, CallIsLast
  <2>5. CASE events' # events \o (Message \o Requested(tool))
    <3>1. PICK t : Silent(t) /\ events' = events \o (Message \o t)
      BY <1>2, <1>4, <2>2, <2>3, <2>5
    <3>2. QED BY <1>1, <3>1, SpeaksSilently
  <2>6. QED BY <2>4, <2>5
<1>17. CASE AfterTool
  <2>1. Crash(<<>>) \/ events' = events \o (Message \o ToolReply(input.pending))
    BY <1>17 DEF AfterTool, Emit
  <2>2. QED BY <1>1, <1>5, <2>1, ToolReplyIsSilent, SpeaksSilently
<1>18. QED
  BY <1>7, <1>8, <1>9, <1>10, <1>11, <1>12, <1>13, <1>14, <1>15, <1>16, <1>17 DEF TurnStep

LEMMA NothingIsSilent == Silent(<<>>) /\ CallIsLast(<<>>)
BY DEF Silent, CallIsLast, Elems

LEMMA BeginsSilently == Begins(input) => CallInv
BY NothingIsSilent DEF Begins, CallInv

LEMMA SessionCallStarts == SessionInit => CallInv
BY BeginsSilently DEF SessionInit

LEMMA SessionStepCall == SessionInv /\ CallInv /\ [SessionNext]_sessionVars => CallInv'
<1> SUFFICES ASSUME SessionInv, CallInv, [SessionNext]_sessionVars PROVE CallInv'
  OBVIOUS
<1>1. CASE OperatorTurn \/ ResultTurn
  <2>1. events' = events /\ events = <<>>
    BY <1>1 DEF OperatorTurn, ResultTurn, BeginTurn, SessionInv, RowInv, RestLink, Begins
  <2>2. QED BY <2>1, NothingIsSilent DEF CallInv
<1>2. CASE RunTurn
  BY <1>2, CallStepInv DEF RunTurn, SessionInv
<1>3. CASE CloseStream \/ CutStream
  BY <1>3, NothingIsSilent DEF CloseStream, CutStream, Rest, CallInv
<1>4. CASE Deliver \/ ExecuteTool \/ Settle \/ Closed \/ UNCHANGED sessionVars
  <2>1. UNCHANGED <<pc, events>>
    BY <1>4 DEF Deliver, ExecuteTool, Settle, Closed, sessionVars, turnVars, vars
  <2>2. QED BY <2>1 DEF CallInv
<1>5. QED BY <1>1, <1>2, <1>3, <1>4 DEF SessionNext

----------------------------------------------------------------------------
(* The call and the row.                                                   *)

(* Of the stream in delivery only the finish is left.                      *)
OnlyFinishLeft ==
  /\ pc = "done"
  /\ \A j \in DOMAIN events : j > sent => events[j].type = "RUN_FINISHED"

(* The row is the copy the gateway has made of the stream so far, and a    *)
(* call that waits for its execution asks for that row: nothing that is    *)
(* still on its way writes it, and no result waits for an answer.          *)
HandoverInv ==
  /\ live => row.config = CopyAfter(sent).config
  /\ (live /\ input.pending = NoTool) => tail = NoTool
  /\ skill.made => asked = NoAsk
  /\ asked # NoAsk =>
       /\ asked.config = row.config
       /\ tail = NoTool
       /\ live => OnlyFinishLeft

LEMMA HandoverStarts == SessionInit => HandoverInv
BY DEF SessionInit, HandoverInv, NoSkill

LEMMA NothingSent ==
  ASSUME Len(events) \in Nat
  PROVE  CopyAfter(0).config = input.config
BY ReceivesReads DEF CopyAfter, Synced

LEMMA NothingSentNext == (Len(events) \in Nat)' => (CopyAfter(0).config = input.config)'
BY NothingSent, PTL

(* A turn begins.                                                          *)
LEMMA BeginTurnHandover ==
  ASSUME SessionInv, HandoverInv, ~live, asked = NoAsk,
         NEW c, NEW p \in {NoTool, tail}, BeginTurn(TurnInput(c, p)),
         UNCHANGED <<row, asked, skill>>,
         p = NoTool => tail' = NoTool
  PROVE  HandoverInv'
<1>1. sent = 0 /\ events = <<>>
  BY DEF SessionInv, RowInv, RestLink, Begins
<1>2. /\ sent' = 0 /\ events' = <<>>
      /\ input'.config = row.config /\ input'.pending = p
  BY <1>1 DEF BeginTurn, TurnInput
<1>3. CopyAfter(0)'.config = input'.config
  BY <1>2, NothingSentNext
<1>4. row'.config = CopyAfter(sent)'.config
  BY <1>2, <1>3 DEF CopyAfter
<1>5. QED BY <1>2, <1>4 DEF HandoverInv

LEMMA RunTurnHandover == SessionInv /\ HandoverInv /\ RunTurn => HandoverInv'
<1> SUFFICES ASSUME SessionInv, HandoverInv, RunTurn PROVE HandoverInv'
  OBVIOUS
<1>1. live /\ pc # "done" /\ input' = input /\ UNCHANGED <<gatewayVars, live, sent, cuts>>
  BY TurnIsNotDone, InputStays DEF RunTurn
<1>2. sent = 0
  <2>1. sent \in Nat
    BY DEF SessionInv, RowInv, SessionTypeOK, TurnInv, TypeOK
  <2>2. QED BY <1>1, <2>1 DEF SessionInv, RowInv, RestLink
<1>3. asked = NoAsk
  BY <1>1 DEF HandoverInv, OnlyFinishLeft
<1>4. row.config = input.config
  BY <1>1, <1>2 DEF SessionInv, RowInv, TurnLink
<1>5. row'.config = CopyAfter(sent)'.config
  <2>1. (Len(events) \in Nat)'
    BY RunTurnInv DEF SessionInv, TurnInv, TypeOK
  <2>2. CopyAfter(0)'.config = input'.config
    BY <2>1, NothingSentNext
  <2>3. QED BY <1>1, <1>2, <1>4, <2>2 DEF CopyAfter, gatewayVars
<1>6. QED BY <1>1, <1>3, <1>5 DEF HandoverInv, gatewayVars

LEMMA QuietHandover ==
  ASSUME HandoverInv, UNCHANGED <<input, pc, events, live, sent>>,
         row'.config = row.config,
         asked' = asked /\ tail' = tail /\ skill' = skill
  PROVE  HandoverInv'
<1>1. CopyAfter(sent)' = CopyAfter(sent)
  BY DEF CopyAfter
<1>2. QED BY <1>1 DEF HandoverInv, OnlyFinishLeft

(* The gateway's copy keeps its fields.                                    *)
LEMMA ReceiveFields ==
  ASSUME NEW g, NEW e, DOMAIN g = {"stage", "clean", "config"}
  PROVE  /\ DOMAIN Receive(g, e) = {"stage", "clean", "config"}
         /\ e.type = "STATE_SNAPSHOT" => Receive(g, e).config = e.config
         /\ e.type = "STATE_DELTA" => Receive(g, e).config = ApplyPatch(g.config, e.patch)
         /\ e.type \notin {"STATE_SNAPSHOT", "STATE_DELTA"} => Receive(g, e).config = g.config
BY DEF Receive

LEMMA CopyFields ==
  ASSUME CopyInv, NEW i \in 0 .. Len(events)
  PROVE  DOMAIN CopyAfter(i) = {"stage", "clean", "config"}
<1> DEFINE T == {k \in 0 .. Len(events) : DOMAIN CopyAfter(k) = {"stage", "clean", "config"}}
<1>1. /\ Len(events) \in Nat /\ DOMAIN events = 1 .. Len(events)
      /\ \A k \in DOMAIN events : CopyAfter(k) = Receive(CopyAfter(k - 1), events[k])
  BY FramesAreFaithful
<1>2. 0 \in T
  <2>1. CopyAfter(0) = Synced("unopened", input.config)
    BY <1>1, ReceivesReads DEF CopyAfter
  <2>2. QED BY <1>1, <2>1 DEF Synced
<1>3. \A k \in 1 .. Len(events) : k - 1 \in T => k \in T
  BY <1>1, ReceiveFields
<1> HIDE DEF T
<1>4. 0 .. Len(events) \subseteq T
  BY <1>1, <1>2, <1>3, UpTo
<1>5. QED BY <1>4 DEF T

(* What a frame means for the call that waits.                             *)
LEMMA DeliverHands ==
  ASSUME SessionInv, CopyInv, CallInv, HandoverInv, Deliver
  PROVE  /\ row'.config = CopyAfter(sent + 1).config
         /\ row'.config # row.config => asked' = asked /\ asked = NoAsk /\ ~skill.made
         /\ Frame.type # "TOOL_CALL_END" => asked' = asked
         /\ Frame.type = "TOOL_CALL_END" =>
              /\ row' = row /\ asked = NoAsk /\ ~skill.made
              /\ asked'.config = row.config /\ asked'.tool = Frame.tool
              /\ asked' # NoAsk
              /\ tail = NoTool
         /\ asked # NoAsk => Frame.type = "RUN_FINISHED"
<1>1. /\ live /\ pc = "done" /\ sent \in Nat /\ sent + 1 \in DOMAIN events
      /\ Frame \in Event /\ Meant(Frame, input, decision, draft)
  BY DeliverFacts
<1>2. /\ (sent + 1) - 1 = sent /\ sent \in 0 .. Len(events) /\ Frame = events[sent + 1]
      /\ events \in Seq(Event) /\ DOMAIN events = 1 .. Len(events)
  BY <1>1 DEF SessionInv, RowInv, SessionTypeOK, TurnInv, TypeOK, Frame
<1>3. /\ CopyAfter(sent + 1) = Receive(CopyAfter(sent), Frame)
      /\ Faithful(CopyAfter(sent), Frame, input)
  BY <1>1, <1>2, FramesAreFaithful
<1>4. row.config = CopyAfter(sent).config /\ row \in Row
  BY <1>1 DEF HandoverInv, SessionInv, RowInv, SessionTypeOK
<1>5. /\ Frame.type = "STATE_SNAPSHOT" => CopyAfter(sent + 1).config = Frame.config
      /\ Frame.type = "STATE_DELTA" =>
           /\ CopyAfter(sent + 1).config = ApplyPatch(row.config, Frame.patch)
           /\ Applies(row.config, Frame.patch)
      /\ Frame.type \notin {"STATE_SNAPSHOT", "STATE_DELTA"} =>
           CopyAfter(sent + 1).config = row.config
  <2>1. DOMAIN CopyAfter(sent) = {"stage", "clean", "config"}
    BY <1>2, CopyFields
  <2>2. Frame.type = "STATE_DELTA" => Applies(row.config, Frame.patch)
    BY <1>3, <1>4 DEF Faithful
  <2>3. QED BY <1>3, <1>4, <2>1, <2>2, ReceiveFields
<1>6. /\ Frame.type = "STATE_SNAPSHOT" => row'.config = Frame.config
      /\ Frame.type = "STATE_DELTA" => row'.config = ApplyPatch(row.config, Frame.patch)
      /\ Frame.type \notin {"STATE_SNAPSHOT", "STATE_DELTA"} => row' = row
  BY <1>4, <1>5 DEF Deliver, PersistFrame, Row
<1>7. row'.config = CopyAfter(sent + 1).config
  BY <1>5, <1>6
<1>8. asked # NoAsk => Frame.type = "RUN_FINISHED"
  BY <1>1, <1>2 DEF HandoverInv, OnlyFinishLeft
<1>9. Frame.type # "TOOL_CALL_END" => asked' = asked
  BY DEF Deliver, PersistFrame
<1>10. Frame.type \in {"STATE_SNAPSHOT", "STATE_DELTA", "TOOL_CALL_END"} =>
         asked = NoAsk /\ ~skill.made /\ tail = NoTool
  <2>1. SUFFICES ASSUME Frame.type \in {"STATE_SNAPSHOT", "STATE_DELTA", "TOOL_CALL_END"}
                 PROVE  asked = NoAsk /\ ~skill.made /\ tail = NoTool
    OBVIOUS
  <2>2. input.pending = NoTool
    BY <1>1, <2>1 DEF Meant
  <2>3. ~skill.made
    BY <1>1, <2>2 DEF SessionInv, RowInv, TurnLink
  <2>4. QED BY <1>1, <1>8, <2>1, <2>2, <2>3 DEF HandoverInv
<1>11. ASSUME Frame.type = "TOOL_CALL_END"
       PROVE  /\ asked' = [tool |-> Frame.tool, config |-> row.config]
              /\ asked' # NoAsk
  <2>1. /\ sent + 1 > 1 /\ events[(sent + 1) - 1].type = "TOOL_CALL_ARGS"
    BY <1>1, <1>2, <1>11 DEF SessionInv, FrameInv, Framed, CallsClose
  <2>2. sent \in DOMAIN events /\ events[sent].type = "TOOL_CALL_ARGS"
    BY <1>1, <1>2, <2>1
  <2>3. /\ Faithful(CopyAfter(sent - 1), events[sent], input)
        /\ CopyAfter(sent) = Receive(CopyAfter(sent - 1), events[sent])
    BY <2>2, FramesAreFaithful
  <2>4. events[sent].config = row.config
    BY <1>4, <2>2, <2>3 DEF Faithful
  <2>5. asked' = [tool |-> Frame.tool, config |-> row.config]
    BY <1>11, <2>4 DEF Deliver, PersistFrame
  <2>6. Frame.tool \in Tools
    BY <1>1, <1>11, FrameTypes
  <2>7. QED BY <2>5, <2>6 DEF NoAsk, Tools
<1>12. QED BY <1>6, <1>7, <1>8, <1>9, <1>10, <1>11

LEMMA DeliverHandover ==
  SessionInv /\ CopyInv /\ CallInv /\ HandoverInv /\ Deliver => HandoverInv'
<1> SUFFICES ASSUME SessionInv, CopyInv, CallInv, HandoverInv, Deliver
             PROVE  HandoverInv'
  OBVIOUS
<1>1. /\ live /\ pc = "done" /\ sent \in Nat /\ sent + 1 \in DOMAIN events
      /\ DOMAIN events \subseteq Nat /\ Frame = events[sent + 1]
  BY DeliverFacts DEF SessionInv, TurnInv, TypeOK, Frame
<1>2. /\ sent' = sent + 1 /\ UNCHANGED <<input, pc, events, skill, live>>
      /\ tail' \in {tail, NoTool}
  BY DEF Deliver, PersistFrame, turnVars, vars
<1>3. live' => row'.config = CopyAfter(sent)'.config
  <2>1. row'.config = CopyAfter(sent + 1).config
    BY DeliverHands
  <2>2. CopyAfter(sent)' = CopyAfter(sent + 1)
    BY <1>2 DEF CopyAfter
  <2>3. QED BY <2>1, <2>2
<1>4. (live' /\ input'.pending = NoTool) => tail' = NoTool
  BY <1>1, <1>2 DEF HandoverInv
<1>5. CASE Frame.type = "TOOL_CALL_END"
  <2>1. /\ ~skill.made /\ asked'.config = row.config /\ row' = row /\ tail = NoTool
    BY <1>5, DeliverHands
  <2>2. OnlyFinishLeft'
    BY <1>1, <1>2, <1>5 DEF CallInv, CallIsLast, OnlyFinishLeft
  <2>3. QED BY <1>2, <1>3, <1>4, <2>1, <2>2 DEF HandoverInv
<1>6. CASE Frame.type # "TOOL_CALL_END"
  <2>1. /\ asked' = asked
        /\ row'.config # row.config => asked = NoAsk
    BY <1>6, DeliverHands
  <2>2. asked' # NoAsk => OnlyFinishLeft'
    BY <1>1, <1>2, <2>1 DEF HandoverInv, OnlyFinishLeft
  <2>3. QED BY <1>2, <1>3, <1>4, <2>1, <2>2 DEF HandoverInv
<1>7. QED BY <1>5, <1>6

LEMMA SessionStepHandover ==
  SessionInv /\ CopyInv /\ CallInv /\ HandoverInv /\ [SessionNext]_sessionVars
    => HandoverInv'
<1> SUFFICES ASSUME SessionInv, CopyInv, CallInv, HandoverInv, [SessionNext]_sessionVars
             PROVE  HandoverInv'
  OBVIOUS
<1>1. CASE OperatorTurn
  <2>1. PICK c \in Contexts : BeginTurn(TurnInput(c, NoTool))
    BY <1>1 DEF OperatorTurn
  <2>2. QED BY <1>1, <2>1, BeginTurnHandover DEF OperatorTurn
<1>2. CASE ResultTurn
  <2>1. PICK c \in Contexts : BeginTurn(TurnInput(c, tail))
    BY <1>2 DEF ResultTurn
  <2>2. ~live /\ tail # NoTool /\ asked = NoAsk /\ UNCHANGED <<row, asked, skill>>
    BY <1>2 DEF ResultTurn, gatewayVars, HandoverInv
  <2>3. QED BY <2>1, <2>2, BeginTurnHandover
<1>3. CASE RunTurn
  BY <1>3, RunTurnHandover
<1>4. CASE Deliver
  BY <1>4, DeliverHandover
<1>5. CASE CloseStream \/ CutStream
  <2>1. ~live' /\ UNCHANGED <<row, tail, asked, skill>>
    BY <1>5 DEF CloseStream, CutStream, Rest, gatewayVars
  <2>2. QED BY <2>1 DEF HandoverInv
<1>6. CASE ExecuteTool
  <2>1. ~live' /\ asked' = NoAsk
    BY <1>6 DEF ExecuteTool
  <2>2. QED BY <2>1 DEF HandoverInv
<1>7. CASE Settle
  <2>1. row'.config = row.config
    BY <1>7 DEF Settle, SessionInv, RowInv, SessionTypeOK, Row
  <2>2. UNCHANGED <<input, pc, events, live, sent, tail, asked, skill>>
    BY <1>7 DEF Settle, turnVars, vars
  <2>3. QED BY <2>1, <2>2, QuietHandover
<1>8. CASE Closed \/ UNCHANGED sessionVars
  <2>1. UNCHANGED <<input, pc, events, live, sent, row, tail, asked, skill>>
    BY <1>8 DEF Closed, sessionVars, turnVars, gatewayVars, vars
  <2>2. QED BY <2>1, QuietHandover
<1>9. QED BY <1>1, <1>2, <1>3, <1>4, <1>5, <1>6, <1>7, <1>8 DEF SessionNext

(* Each step of a session writes the draft while nobody asks, asks for it, *)
(* refuses, makes the skill, or says nothing of the three.                 *)
LEMMA HandoverSteps ==
  ASSUME SessionInv, CopyInv, CallInv, HandoverInv, [SessionNext]_sessionVars
  PROVE  \/ Handover!Next
         \/ UNCHANGED <<row.config,
                        IF asked.tool = "request_finalize" THEN {asked.config} ELSE {},
                        IF skill.made THEN {skill.config} ELSE {}>>
<1> DEFINE a == IF asked.tool = "request_finalize" THEN {asked.config} ELSE {}
           m == IF skill.made THEN {skill.config} ELSE {}
<1>1. asked = NoAsk => a = {}
  BY DEF NoAsk
<1>2. row \in Row /\ asked \in Ask
  BY DEF SessionInv, RowInv, SessionTypeOK
<1>3. CASE Deliver
  <2>1. skill' = skill
    BY <1>3 DEF Deliver
  <2>2. CASE row'.config # row.config
    <3>1. asked' = asked /\ asked = NoAsk /\ ~skill.made
      BY <1>3, <2>2, DeliverHands
    <3>2. QED BY <1>1, <2>1, <2>2, <3>1 DEF Handover!Next, Handover!Write
  <2>3. CASE Frame.type = "TOOL_CALL_END" /\ Frame.tool = "request_finalize"
    <3>1. /\ row' = row /\ asked = NoAsk /\ ~skill.made
          /\ asked'.config = row.config /\ asked'.tool = "request_finalize"
          /\ asked' # NoAsk
      BY <1>3, <2>3, DeliverHands
    <3>2. Ready("request_finalize", row.config)
      BY <1>3, <3>1, DeliverAsks
    <3>3. row.config \in FinishedConfigs
      BY <1>2, <3>2 DEF FinishedConfigs, Ready, Row
    <3>4. QED BY <1>1, <2>1, <3>1, <3>3 DEF Handover!Next, Handover!Ask
  <2>4. CASE Frame.type = "TOOL_CALL_END" /\ Frame.tool # "request_finalize"
    <3>1. row' = row /\ asked = NoAsk /\ asked'.tool # "request_finalize"
      BY <1>3, <2>4, DeliverHands
    <3>2. QED BY <1>1, <2>1, <3>1
  <2>5. CASE Frame.type # "TOOL_CALL_END" /\ row'.config = row.config
    <3>1. asked' = asked
      BY <1>3, <2>5, DeliverHands
    <3>2. QED BY <2>1, <2>5, <3>1
  <2>6. QED BY <2>2, <2>3, <2>4, <2>5
<1>4. CASE ExecuteTool
  <2>1. PICK status \in Statuses :
          skill' = IF asked.tool = "request_finalize" /\ status = "succeeded"
                   THEN [made |-> TRUE, config |-> row.config] ELSE skill
    BY <1>4 DEF ExecuteTool
  <2>2. /\ asked # NoAsk /\ asked' = NoAsk /\ row' = row
        /\ asked.config = row.config /\ ~skill.made
    BY <1>4 DEF ExecuteTool, HandoverInv, SessionInv, RowInv, SessionTypeOK, Skill
  <2>3. a' = {}
    BY <2>2 DEF NoAsk
  <2>4. CASE asked.tool = "request_finalize" /\ status = "succeeded"
    <3>1. a = {row.config} /\ m = {} /\ m' = {row.config}
      BY <2>1, <2>2, <2>4
    <3>2. QED BY <2>2, <2>3, <3>1 DEF Handover!Next, Handover!Make
  <2>5. CASE asked.tool = "request_finalize" /\ status # "succeeded"
    <3>1. a = {row.config} /\ m' = m
      BY <2>1, <2>2, <2>5
    <3>2. QED BY <2>2, <2>3, <3>1 DEF Handover!Next, Handover!Refuse
  <2>6. CASE asked.tool # "request_finalize"
    BY <2>1, <2>2, <2>3, <2>6
  <2>7. QED BY <2>4, <2>5, <2>6
<1>5. CASE Settle
  <2>1. row'.config = row.config /\ UNCHANGED <<asked, skill>>
    BY <1>2, <1>5 DEF Settle, Row
  <2>2. QED BY <2>1
<1>6. CASE OperatorTurn \/ ResultTurn \/ RunTurn \/ CloseStream \/ CutStream \/ Closed
           \/ UNCHANGED sessionVars
  <2>1. UNCHANGED <<row, asked, skill>>
    BY <1>6 DEF OperatorTurn, ResultTurn, RunTurn, CloseStream, CutStream, Closed,
                sessionVars, gatewayVars
  <2>2. QED BY <2>1
<1>7. QED BY <1>3, <1>4, <1>5, <1>6 DEF SessionNext

----------------------------------------------------------------------------
(* The theorems.                                                           *)

(* The turn in progress, the row and the transcript stay in step through   *)
(* every interleaving of turns, cuts, executed calls and settled sections  *)
(* (runtime.py:56-122, server.py:133-143).                                 *)
THEOREM SessionInvHolds == SessionSpec => []SessionInv
BY SessionStarts, SessionStepInv, PTL DEF SessionSpec

(* Every session keeps its types.                                          *)
THEOREM SessionTypeCorrect == SessionSpec => []SessionTypeOK
<1>1. SessionInv => SessionTypeOK
  BY DEF SessionInv, RowInv
<1>2. QED BY <1>1, SessionInvHolds, PTL

(* At every frame a build's row holds only what the section gate lets      *)
(* through (runtime.py:575-597, agui.py:41-43).                            *)
THEOREM RowProposable == SessionSpec => []RowIsProposable
<1>1. SessionInv => RowIsProposable
  BY DEF SessionInv, RowInv
<1>2. QED BY <1>1, SessionInvHolds, PTL

(* At every frame the slug of a build names its vertical (runtime.py       *)
(* 503-555, draft.py:112-117).                                             *)
THEOREM SlugNamed == SessionSpec => []SlugNamesVertical
<1>1. SessionInv => SlugNamesVertical
  BY DEF SessionInv, RowInv
<1>2. QED BY <1>1, SessionInvHolds, PTL

(* A skill that was made passed every gate, in the form the gateway holds  *)
(* (tools.py:209-309).                                                     *)
THEOREM SkillReady == SessionSpec => []SkillIsReady
<1>1. SessionInv => SkillIsReady
  BY DEF SessionInv, RowInv
<1>2. QED BY <1>1, SessionInvHolds, PTL

(* The operator is told of a skill only when there is one (tools.py        *)
(* 337-391).                                                               *)
THEOREM FinalizedTrue == SessionSpec => []FinalizedIsTrue
<1>1. SessionInv => FinalizedIsTrue
  <2>1. SUFFICES ASSUME SessionInv, NEW i \in DOMAIN events,
                        events[i].type = "RUN_FINISHED",
                        events[i].result.outcome = "finalized"
                 PROVE  skill.made
    BY DEF FinalizedIsTrue
  <2>2. events[i] \in Elems(events)
    BY DEF Elems
  <2>3. input.pending = FinalizeSucceeded
    BY <2>1, <2>2 DEF SessionInv, FrameInv, Framed, Meant
  <2>4. live
    BY <2>1, <2>2 DEF SessionInv, RowInv, RestLink, Begins, Elems
  <2>5. QED BY <2>1, <2>3, <2>4 DEF SessionInv, RowInv, TurnLink
<1>2. QED BY <1>1, SessionInvHolds, PTL

(* In every turn of every session the copy the gateway makes of the stream *)
(* stays the one CopyInv describes (agui.py:255-343, runtime.py:56-122).   *)
THEOREM SessionCopyHolds == SessionSpec => []CopyInv
BY SessionInvHolds, SessionCopyStarts, SessionStepCopy, PTL DEF SessionSpec

(* A turn that fails leaves every section as it was, or as one whole       *)
(* proposal put it, in every turn of every session (runtime.py:104-122,    *)
(* 597-620).                                                               *)
THEOREM FailedTurnKeptInSession == SessionSpec => []FailedTurnKeepsSections
BY SessionCopyHolds, CopyFailsWhole, PTL

(* No frame takes away an authored section or an operator's verdict        *)
(* (runtime.py:99-106, 234-250).                                           *)
THEOREM WorkKept == SessionSpec => WorkIsKept
<1> DEFINE KeepsWork == sent' = sent + 1 =>
                          /\ row'.acceptance = row.acceptance
                     /\ \A s \in AuthoredSections(row.config) :
                          row'.config.sections[s] # row.config.sections[s] =>
                            Frame.type = "STATE_DELTA" /\ Frame.patch.section = s
<1>1. SessionInv /\ [SessionNext]_sessionVars => [KeepsWork]_sessionVars
  <2>1. SUFFICES ASSUME SessionInv, [SessionNext]_sessionVars, sent' = sent + 1
                 PROVE  KeepsWork \/ UNCHANGED sessionVars
    OBVIOUS
  <2>2. sent \in Nat
    BY <2>1 DEF SessionInv, RowInv, SessionTypeOK, TurnInv, TypeOK
  <2>3. Deliver
    BY <2>1, <2>2
       DEF SessionNext, OperatorTurn, ResultTurn, BeginTurn, RunTurn, CloseStream,
           CutStream, Rest, ExecuteTool, Settle, Closed, sessionVars
  <2>4. QED BY <2>1, <2>3, DeliverRow
<1>2. QED BY <1>1, SessionInvHolds, PTL DEF SessionSpec, WorkIsKept

(* In every turn of every session a complete tool call is the last thing   *)
(* but the finish, and while it waits for its execution the row is the one *)
(* it asks for, whatever was cut (tools.py:209-309, runtime.py:627-644).   *)
THEOREM HandoverInvHolds == SessionSpec => [](CallInv /\ HandoverInv)
BY SessionInvHolds, SessionCopyHolds, SessionCallStarts, SessionStepCall,
   HandoverStarts, SessionStepHandover, PTL DEF SessionSpec

(* A session implements Builder: the skill is made of the very draft the   *)
(* operator was asked about, which held still from the call to its answer, *)
(* and nothing changes after it (tools.py:209-309, runtime.py:627-644).    *)
THEOREM SessionIsBuilder == SessionSpec => SkillIsWhatWasAsked
<1>1. SessionInit => Handover!Init
  BY DEF SessionInit, Handover!Init, NoAsk, NoSkill
<1>2. SessionInv /\ CopyInv /\ (CallInv /\ HandoverInv) /\ [SessionNext]_sessionVars
        => [Handover!Next]_<<row.config,
                             IF asked.tool = "request_finalize" THEN {asked.config} ELSE {},
                             IF skill.made THEN {skill.config} ELSE {}>>
  BY HandoverSteps
<1>3. QED
  BY <1>1, <1>2, SessionInvHolds, SessionCopyHolds, HandoverInvHolds, PTL
     DEF SessionSpec, SkillIsWhatWasAsked, Handover!Spec
=============================================================================
