----------------------------- MODULE TurnProofs -----------------------------
(***************************************************************************)
(* The invariants of one turn, proved for every list of sections, every    *)
(* set of inputs and of decisions, and every number of model calls.  First *)
(* what a write to the draft keeps well formed and what the gates of       *)
(* tools.py let through, for every set of verticals and every content.     *)
(***************************************************************************)
EXTENDS TurnProperties, WellFoundedInduction, TLAPS

----------------------------------------------------------------------------
(* The draft document.                                                     *)

(* No section has the name of a value that stands for absent data.         *)
LEMMA SectionIsNoMarker ==
  ASSUME NEW s \in Sections
  PROVE  /\ s \in STRING
         /\ s \notin {NoPhase, RootKey, UnknownKey, BadPointer, Keep}
<1>1. PICK i \in DOMAIN PHASES : s = PHASES[i]
  BY DEF Sections
<1>2. s \in STRING
  BY <1>1, PhasesAssumption
<1>3. {NoPhase, RootKey, UnknownKey, BadPointer, Keep} \cap Sections = {}
  BY Zenon, PhasesAssumption
<1>4. QED BY <1>2, <1>3

(* The smallest open index exists, so next_open_phase names a section      *)
(* whenever one is open (state.py:59-68).                                  *)
LEMMA NextOpenPhaseType ==
  ASSUME NEW acceptance \in Acceptance
  PROVE  /\ AllPhasesAccepted(acceptance) => NextOpenPhase(acceptance) = NoPhase
         /\ ~AllPhasesAccepted(acceptance) =>
              /\ NextOpenPhase(acceptance) \in Sections
              /\ ~acceptance[NextOpenPhase(acceptance)]
<1>1. CASE AllPhasesAccepted(acceptance)
  BY <1>1 DEF NextOpenPhase
<1>2. CASE ~AllPhasesAccepted(acceptance)
  <2>1. OpenIndices(acceptance) \subseteq Nat /\ OpenIndices(acceptance) # {}
    BY <1>2, PhasesAssumption DEF AllPhasesAccepted, OpenIndices, Sections
  <2>2. PICK i \in OpenIndices(acceptance) :
          \A j \in OpenIndices(acceptance) : ~(<<j, i>> \in OpToRel(<, Nat))
    BY <2>1, NatLessThanWellFounded, WFMin, Zenon
  <2>3. \A j \in OpenIndices(acceptance) : i <= j
    <3>1. SUFFICES ASSUME NEW j \in OpenIndices(acceptance) PROVE i <= j
      OBVIOUS
    <3>2. i \in Nat /\ j \in Nat
      BY <2>1
    <3>3. ~(j < i)
      BY <2>2, <3>1, <3>2, Zenon DEF OpToRel
    <3>4. QED BY <3>2, <3>3
  <2>4. PICK k \in OpenIndices(acceptance) : NextOpenPhase(acceptance) = PHASES[k]
    BY <1>2, <2>3 DEF NextOpenPhase
  <2>5. QED BY <1>2, <2>4 DEF OpenIndices, Sections
<1>3. QED BY <1>1, <1>2

----------------------------------------------------------------------------
(* Every write stays inside the document's type.                           *)

LEMMA EmptyBodyType == EmptyBody \in Body
BY DEF EmptyBody, Body, Knobs

LEMMA BuildSlugType ==
  ASSUME NEW v
  PROVE  BuildSlug(v) \in Slugs
BY SlugAssumption DEF BuildSlug

(* The skeleton is complete, empty, and passes the schema (draft.py        *)
(* 120-177; runtime.py:200-208 calls the opposite impossible).             *)
LEMMA SkeletonType ==
  ASSUME NEW v \in Verticals \cup {NoVertical}
  PROVE  /\ Skeleton(v) \in Config
         /\ SchemaIssues(Skeleton(v), TRUE) = {}
         /\ SchemaIssues(Skeleton(v), FALSE) = {}
<1>1. Skeleton(v) \in Config
  BY EmptyBodyType, BuildSlugType DEF Skeleton, Config
<1>2. IssuesOf(Skeleton(v), "schema") = {}
  BY DEF IssuesOf, Skeleton, EmptyBody
<1>3. QED BY <1>1, <1>2 DEF SchemaIssues, Skeleton

LEMMA SectionBodyType ==
  ASSUME NEW phase, NEW body \in Body, NEW edit \in BOOLEAN
  PROVE  SectionBody(phase, body, edit) \in Body
<1>1. UnwrapSelfNamed(body) \in Body
  BY DEF UnwrapSelfNamed, Body
<1>2. WithSeededDefaults(phase, UnwrapSelfNamed(body)) \in Body
  BY <1>1 DEF WithSeededDefaults, Body, Knobs
<1>3. QED BY <1>1, <1>2 DEF SectionBody

(* What a section write stores: never the section nested under its own     *)
(* name, always the number the model authored, and in a build a knob       *)
(* wherever the section has one (draft.py:195-304).                        *)
THEOREM SectionBodyIsNormal ==
  ASSUME NEW phase, NEW body \in Body, NEW edit \in BOOLEAN
  PROVE  LET stored == SectionBody(phase, body, edit)
         IN  /\ ~stored.wrapped
             /\ stored.text = body.text /\ stored.faults = body.faults
             /\ body.knob = "authored" => stored.knob = "authored"
             /\ (~edit /\ phase \in SEEDED) => stored.knob # "absent"
<1> DEFINE opened == UnwrapSelfNamed(body)
<1>1. /\ ~opened.wrapped /\ opened.text = body.text
      /\ opened.faults = body.faults /\ opened.knob = body.knob
      /\ opened \in Body
  BY DEF UnwrapSelfNamed, Body
<1> HIDE DEF opened
<1>2. LET seeded == WithSeededDefaults(phase, opened)
      IN  /\ ~seeded.wrapped /\ seeded.text = opened.text
          /\ seeded.faults = opened.faults
          /\ opened.knob # "absent" => seeded.knob = opened.knob
          /\ phase \in SEEDED => seeded.knob # "absent"
  BY <1>1 DEF WithSeededDefaults, Body
<1>3. SectionBody(phase, body, edit) =
        IF edit THEN opened ELSE WithSeededDefaults(phase, opened)
  BY DEF SectionBody, opened
<1>4. QED BY <1>1, <1>2, <1>3

LEMMA SetSectionType ==
  ASSUME NEW config \in Config,
         NEW phase \in Sections \cup Members \cup {RootKey, UnknownKey},
         NEW body \in Body, NEW edit \in BOOLEAN
  PROVE  SetSection(config, phase, body, edit) \in Patch
<1>1. SectionBody(phase, body, edit) \in Body
  BY SectionBodyType
<1>2. CASE phase \in Sections
  <2>1. config.sections[phase] \in Body
    BY <1>2 DEF Config
  <2>2. QED BY <1>1, <1>2, <2>1 DEF SetSection, SectionPatch, Patch
<1>3. CASE phase \in Members
  <2>1. SectionOf[phase] \in Sections /\ phase \notin Sections
    BY <1>3, MembersAssumption
  <2>2. config.sections[SectionOf[phase]] \in Body
    BY <2>1 DEF Config
  <2>3. QED BY <1>3, <2>1, <2>2 DEF SetSection, SectionPatch, Patch
<1>4. CASE phase \notin Sections \cup Members
  BY <1>4, EmptyBodyType DEF SetSection, SectionPatch, Patch
<1>5. QED BY <1>2, <1>3, <1>4

LEMMA VerticalWriteType ==
  ASSUME NEW config \in Config, NEW v \in Verticals, NEW edit \in BOOLEAN
  PROVE  /\ VerticalWrite(config, v, edit) \in Patch
         /\ VerticalWrite(config, v, edit).section = Keep
<1>1. \A op \in {"none", "add", "replace"} : \A slug \in Slugs \cup {Keep} :
        (op = "none" <=> slug = Keep) =>
          /\ VerticalPatch(v, op, slug) \in Patch
          /\ VerticalPatch(v, op, slug).section = Keep
  BY EmptyBodyType DEF VerticalPatch, Patch
<1>2. BuildSlug(v) \in Slugs /\ Keep \notin Slugs
  BY BuildSlugType, SlugAssumption
<1>3. QED BY <1>1, <1>2 DEF VerticalWrite

LEMMA ApplyPatchType ==
  ASSUME NEW config \in Config, NEW patch \in Patch
  PROVE  ApplyPatch(config, patch) \in Config
<1>1. (config.stray \/ patch.section = UnknownKey) \in BOOLEAN
  OBVIOUS
<1>2. [s \in Sections |->
         IF s = patch.section THEN patch.body ELSE config.sections[s]] \in [Sections -> Body]
  BY DEF Config, Patch
<1>3. /\ (IF patch.vertical = Keep THEN config.vertical ELSE patch.vertical)
            \in Verticals \cup {NoVertical}
      /\ (IF patch.slugOp = "none" THEN config.slug ELSE patch.slug) \in Slugs
      /\ config.complete \in BOOLEAN
  BY DEF Config, Patch
<1>4. QED BY <1>1, <1>2, <1>3 DEF ApplyPatch, Config

----------------------------------------------------------------------------
(* What the gates let through.                                             *)

LEMMA NoIssuesOf ==
  ASSUME NEW config, NEW fault, IssuesOf(config, fault) = {}
  PROVE  \A s \in Sections : fault \notin config.sections[s].faults
BY DEF IssuesOf

(* A config without issues at the tool gate is complete, declares nothing  *)
(* the schema refuses, fails no check in any section and, for a finalize,  *)
(* names its vertical (tools.py:170-271).                                  *)
THEOREM GateIsSound ==
  ASSUME NEW config \in Config, NEW tool, NEW slugOk,
         GateIssues(tool, config, slugOk) = {}
  PROVE  /\ config.complete /\ ~config.stray
         /\ \A s \in Sections : config.sections[s].faults = {}
         /\ tool = "request_finalize" => config.vertical \in Verticals
<1>1. /\ SchemaIssues(config, TRUE) = {}
      /\ CouplingIssues(config) = {} /\ PlaceholderIssues(config) = {}
      /\ tool = "request_finalize" => FinalizeOnlyIssues(config) = {}
  BY DEF GateIssues
<1>2. config.complete /\ ~config.stray /\ IssuesOf(config, "schema") = {}
  BY <1>1 DEF SchemaIssues, Config
<1>3. \A s \in Sections : config.sections[s].faults = {}
  <2>1. SUFFICES ASSUME NEW s \in Sections PROVE config.sections[s].faults = {}
    OBVIOUS
  <2>2. config.sections[s].faults \subseteq {"schema", "coupling", "placeholder"}
    BY DEF Config, Body, Faults
  <2>3. QED BY <1>1, <1>2, <2>2, NoIssuesOf DEF CouplingIssues, PlaceholderIssues
<1>4. tool = "request_finalize" => config.vertical \in Verticals
  BY <1>1 DEF FinalizeOnlyIssues, HasVertical
<1>5. QED BY <1>2, <1>3, <1>4

(* The section gate leaves placeholders for the tool gate, and no more     *)
(* (runtime.py:575-597).                                                   *)
THEOREM SectionGateIsSound ==
  ASSUME NEW config \in Config, SectionIssues(config) = {}
  PROVE  /\ ~config.stray
         /\ \A s \in Sections : config.sections[s].faults \subseteq {"placeholder"}
<1>1. /\ ~config.stray
      /\ IssuesOf(config, "schema") = {} /\ IssuesOf(config, "coupling") = {}
  BY DEF SectionIssues, SchemaIssues, CouplingIssues
<1>2. \A s \in Sections : config.sections[s].faults \subseteq Faults
  BY DEF Config, Body
<1>3. QED BY <1>1, <1>2, NoIssuesOf DEF Faults

(* A blocked call hands back a section or nothing (tools.py:149-167).      *)
LEMMA PhaseFromIssuesType ==
  ASSUME NEW config
  PROVE  PhaseFromIssues(config) \subseteq Sections \cup {NoPhase}
BY DEF PhaseFromIssues, IssuesOf, CouplingIssues, PlaceholderIssues

----------------------------------------------------------------------------
(* The events as a set, which is how the inductive invariant sees them.    *)

Elems(s) == {s[i] : i \in DOMAIN s}

LEMMA ElemsConcat ==
  ASSUME NEW S, NEW s \in Seq(S), NEW t \in Seq(S)
  PROVE  /\ s \o t \in Seq(S)
         /\ Elems(s \o t) = Elems(s) \cup Elems(t)
<1>1. /\ s \o t \in Seq(S)
      /\ Len(s \o t) = Len(s) + Len(t)
      /\ DOMAIN (s \o t) = 1 .. Len(s) + Len(t)
      /\ DOMAIN s = 1 .. Len(s) /\ DOMAIN t = 1 .. Len(t)
      /\ Len(s) \in Nat /\ Len(t) \in Nat
  OBVIOUS
<1>2. \A i \in 1 .. Len(s) + Len(t) :
        (s \o t)[i] = IF i <= Len(s) THEN s[i] ELSE t[i - Len(s)]
  OBVIOUS
<1>3. Elems(s \o t) \subseteq Elems(s) \cup Elems(t)
  <2>1. SUFFICES ASSUME NEW i \in 1 .. Len(s) + Len(t)
                 PROVE  (s \o t)[i] \in Elems(s) \cup Elems(t)
    BY <1>1 DEF Elems
  <2>2. CASE i <= Len(s)
    BY <1>1, <1>2, <2>2 DEF Elems
  <2>3. CASE ~(i <= Len(s))
    <3>1. i - Len(s) \in 1 .. Len(t)
      BY <1>1, <2>3
    <3>2. QED BY <1>1, <1>2, <2>3, <3>1 DEF Elems
  <2>4. QED BY <2>2, <2>3
<1>4. Elems(s) \subseteq Elems(s \o t)
  BY <1>1, <1>2 DEF Elems
<1>5. Elems(t) \subseteq Elems(s \o t)
  <2>1. SUFFICES ASSUME NEW i \in 1 .. Len(t) PROVE t[i] \in Elems(s \o t)
    BY <1>1 DEF Elems
  <2>2. Len(s) + i \in 1 .. Len(s) + Len(t) /\ ~(Len(s) + i <= Len(s))
    BY <1>1
  <2>3. (s \o t)[Len(s) + i] = t[i]
    BY <1>1, <1>2, <2>2
  <2>4. QED BY <1>1, <2>2, <2>3 DEF Elems
<1>6. QED BY <1>1, <1>3, <1>4, <1>5

----------------------------------------------------------------------------
(* The strengthening.  A turn's events fall into three kinds: those that   *)
(* open it (Opens), those any handler may put before its terminal event  *)
(* (Inert), and a sequence that ends with the terminal event and satisfies *)
(* what the properties say of it (Final).                                  *)

Terminals == {"RUN_FINISHED", "RUN_ERROR"}

(* A terminal event is the last one.                                       *)
Ended(s) == \A i \in DOMAIN s : s[i].type \in Terminals => i = Len(s)

DeltaIsNormal(patch, in, d) ==
  (patch.section \in Sections /\ d.phase \notin Members) =>
    /\ ~patch.body.wrapped
    /\ d.body.knob = "authored" => patch.body.knob = "authored"
    /\ (~in.edit /\ patch.section \in SEEDED) => patch.body.knob # "absent"

(* RUN_STARTED, and the delta that records a vertical.                     *)
Opens(s) ==
  /\ s \in Seq(Event)
  /\ \A e \in Elems(s) :
       /\ e.type \in {"RUN_STARTED", "STATE_DELTA"}
       /\ e.type = "STATE_DELTA" => e.patch.section = Keep

Inert(s, in, d) ==
  /\ s \in Seq(Event)
  /\ \A e \in Elems(s) :
       /\ e.type \notin Terminals \cup {"TOOL_CALL_ARGS"}
       /\ e.type = "STATE_DELTA" => DeltaIsNormal(e.patch, in, d)

(* used: the calls the emitter recorded; cost: the calls billed.           *)
Judged(s, used, cost, in, d) ==
  /\ \A e \in Elems(s) : e.type = "RUN_FINISHED" => e.result.usage = cost
  /\ \A e \in Elems(s) : e.type = "STATE_DELTA" => DeltaIsNormal(e.patch, in, d)
  /\ \A e \in Elems(s) : e.type = "TOOL_CALL_ARGS" =>
       /\ Ready(e.tool, e.config)
       /\ used > 0
       /\ \A f \in Elems(s) : f.type = "RUN_FINISHED" =>
            f.result.outcome = "tool_call" /\ f.result.tool = e.tool

Final(s, used, cost, in, d) ==
  /\ s \in Seq(Event)
  /\ Ended(s)
  /\ Judged(s, used, cost, in, d)

LEMMA OpeningIsInert ==
  ASSUME NEW s, NEW in, NEW d, Opens(s)
  PROVE  Inert(s, in, d)
<1>1. Keep \notin Sections
  BY SectionIsNoMarker
<1>2. QED BY <1>1 DEF Opens, Inert, DeltaIsNormal, Terminals

LEMMA InertConcat ==
  ASSUME NEW s, NEW t, NEW in, NEW d, Inert(s, in, d), Inert(t, in, d)
  PROVE  Inert(s \o t, in, d)
BY ElemsConcat DEF Inert

(* What precedes the terminal event does not move it from the end.         *)
LEMMA EndedConcat ==
  ASSUME NEW s \in Seq(Event), NEW t \in Seq(Event), Ended(t),
         \A e \in Elems(s) : e.type \notin Terminals
  PROVE  Ended(s \o t)
<1>1. SUFFICES ASSUME NEW i \in 1 .. Len(s) + Len(t),
                      (s \o t)[i].type \in Terminals
               PROVE  i = Len(s) + Len(t)
  BY DEF Ended
<1>2. ~(i <= Len(s))
  <2>1. SUFFICES ASSUME i <= Len(s) PROVE FALSE
    OBVIOUS
  <2>2. i \in DOMAIN s /\ (s \o t)[i] = s[i]
    BY <2>1
  <2>3. QED BY <1>1, <2>2 DEF Elems
<1>3. i - Len(s) \in DOMAIN t /\ (s \o t)[i] = t[i - Len(s)]
  BY <1>2
<1>4. QED BY <1>1, <1>3 DEF Ended

LEMMA FinalConcat ==
  ASSUME NEW s, NEW t, NEW used, NEW cost, NEW in, NEW d,
         Inert(s, in, d), Final(t, used, cost, in, d)
  PROVE  Final(s \o t, used, cost, in, d)
<1>1. s \in Seq(Event) /\ t \in Seq(Event)
  BY DEF Inert, Final
<1>2. /\ s \o t \in Seq(Event)
      /\ Elems(s \o t) = Elems(s) \cup Elems(t)
  BY <1>1, ElemsConcat
<1>3. Ended(s \o t)
  BY <1>1, EndedConcat DEF Inert, Final
<1>4. Judged(s \o t, used, cost, in, d)
  BY <1>2 DEF Inert, Final, Judged, Terminals
<1>5. QED BY <1>2, <1>3, <1>4 DEF Final

----------------------------------------------------------------------------
(* What the emitter appends.                                               *)

LEMMA MessageIsInert ==
  ASSUME NEW in, NEW d
  PROVE  Inert(Message, in, d)
<1>1. Message \in Seq(Event)
  BY DEF Message, Event
<1>2. \A e \in Elems(Message) :
        e.type \in {"TEXT_MESSAGE_START", "TEXT_MESSAGE_CONTENT", "TEXT_MESSAGE_END"}
  BY DEF Message, Elems
<1>3. QED BY <1>1, <1>2 DEF Inert, Terminals

LEMMA RunStartedIsOpening == Opens(RunStarted)
BY DEF RunStarted, Opens, Elems, Event

LEMMA StateDeltaFrame ==
  ASSUME NEW patch \in Patch
  PROVE  /\ StateDelta(patch) \in Seq(Event)
         /\ Elems(StateDelta(patch)) = {[type |-> "STATE_DELTA", patch |-> patch]}
BY DEF StateDelta, Event, Elems

LEMMA StateSnapshotIsInert ==
  ASSUME NEW config \in Config, NEW acceptance \in Acceptance, NEW in, NEW d
  PROVE  Inert(StateSnapshot(config, acceptance), in, d)
BY DEF StateSnapshot, Event, Elems, Inert, Terminals

LEMMA RunErrorIsFinal ==
  ASSUME NEW code \in Codes, NEW used, NEW cost, NEW in, NEW d
  PROVE  Final(RunError(code), used, cost, in, d)
BY DEF RunError, Event, Elems, Final, Judged, Ended

LEMMA RunFinishedIsFinal ==
  ASSUME NEW outcome \in {"interrupt", "tool_call", "finalized"},
         NEW reason \in Reasons \cup {NoReason}, NEW step \in Steps \cup {NoStep},
         NEW phase \in Phases, NEW tool \in Tools \cup {"none"},
         usage \in 0 .. MaxCalls, NEW used, NEW in, NEW d
  PROVE  Final(RunFinished(outcome, reason, step, phase, tool), used, usage, in, d)
<1> DEFINE result == [outcome |-> outcome, reason |-> reason, step |-> step,
                      phase |-> phase, tool |-> tool, usage |-> usage]
<1>1. result \in Result
  BY DEF Result
<1>2. [type |-> "RUN_FINISHED", result |-> result] \in Event
  BY <1>1 DEF Event
<1>3. RunFinished(outcome, reason, step, phase, tool) =
        <<[type |-> "RUN_FINISHED", result |-> result]>>
  BY DEF RunFinished
<1> HIDE DEF result
<1>4. result.usage = usage
  BY DEF result
<1>5. QED BY <1>2, <1>3, <1>4 DEF Elems, Final, Judged, Ended

(* A reason the vocabulary does not have is coerced (agui.py:384-407), so  *)
(* an interrupt is a legal terminal whatever the model wrote.              *)
LEMMA InterruptIsFinal ==
  ASSUME NEW reason, NEW step \in Steps \cup {NoStep}, NEW phase \in Phases,
         usage \in 0 .. MaxCalls, NEW used, NEW in, NEW d
  PROVE  Final(Interrupt(reason, step, phase), used, usage, in, d)
<1>1. CoerceInterruptReason(reason) \in Reasons \cup {NoReason}
  BY DEF CoerceInterruptReason, Reasons
<1>2. QED BY <1>1, RunFinishedIsFinal DEF Interrupt

LEMMA NoPhaseIsPhase == NoPhase \in Phases /\ Sections \subseteq Phases
BY DEF Phases

(* A tool call's frames and its terminal event: the config is ready for    *)
(* that tool, and the terminal event names the same tool.                  *)
LEMMA RequestedIsFinal ==
  ASSUME NEW tool \in Tools, draft \in Config, Ready(tool, draft),
         usage \in 0 .. MaxCalls, usage > 0, NEW in, NEW d
  PROVE  Final(Requested(tool), usage, usage, in, d)
<1> DEFINE finish == ToolRequested(tool)
           call   == ToolCall(tool, draft)
           begin  == [type |-> "TOOL_CALL_START", tool |-> tool]
           args   == [type |-> "TOOL_CALL_ARGS", tool |-> tool, config |-> draft]
           end    == [type |-> "TOOL_CALL_END", tool |-> tool]
           result == [outcome |-> "tool_call", reason |-> NoReason, step |-> NoStep,
                      phase |-> NoPhase, tool |-> tool, usage |-> usage]
<1>1. Final(finish, usage, usage, in, d)
  BY RunFinishedIsFinal, NoPhaseIsPhase DEF ToolRequested
<1>2. Elems(finish) = {[type |-> "RUN_FINISHED", result |-> result]}
  BY DEF ToolRequested, RunFinished, Elems
<1>3. call \in Seq(Event)
  BY DEF ToolCall, Event
<1>4. Elems(call) = {begin, args, end}
  BY DEF ToolCall, Elems
<1>5. /\ Requested(tool) = call \o finish
      /\ Requested(tool) \in Seq(Event)
      /\ Elems(Requested(tool)) = Elems(call) \cup Elems(finish)
  BY <1>1, <1>3, ElemsConcat DEF Requested, Final
<1>6. Ended(Requested(tool))
  BY <1>1, <1>3, <1>4, <1>5, EndedConcat DEF Final, Terminals
<1>7. Judged(Requested(tool), usage, usage, in, d)
  BY <1>2, <1>4, <1>5 DEF Judged
<1>8. QED BY <1>5, <1>6, <1>7 DEF Final

LEMMA ToolReplyIsFinal ==
  ASSUME NEW result, usage \in 0 .. MaxCalls, NEW used, NEW in, NEW d
  PROVE  Final(ToolReply(result), used, usage, in, d)
<1>1. Final(Finalized, used, usage, in, d)
  BY RunFinishedIsFinal, NoPhaseIsPhase DEF Finalized
<1>2. \A step \in Steps \cup {NoStep} : \A reason \in Reasons :
        Final(Interrupt(reason, step, NoPhase), used, usage, in, d)
  BY InterruptIsFinal, NoPhaseIsPhase
<1>3. QED BY <1>1, <1>2 DEF ToolReply, Steps, Reasons

----------------------------------------------------------------------------
(* The inductive invariant.                                                *)

Early == {"parse", "after_tool", "kickoff", "kickoff_edit", "continue", "fallback",
          "decide"}

(* The calls recorded are the calls billed until the turn is over, and a   *)
(* decision is only ever applied with at least one of them recorded.       *)
Accounts ==
  /\ pc # "done" => usage = spent
  /\ pc \in Early \cup {"prompt"} => usage = 0
  /\ pc \in {"vertical", "apply"} => usage > 0

(* Until a handler has emitted its terminal event the turn has only opened *)
(* its stream; from then on the properties hold of what it emitted.  Only  *)
(* a contract that fails to load puts an event behind the terminal one.    *)
EventsInv ==
  /\ pc \notin {"prompt", "done"} => Opens(events)
  /\ pc = "parse" => events = <<>>
  /\ pc \in {"prompt", "done"} =>
       /\ Judged(events, usage, spent, input, decision)
       /\ ContractsSound => Ended(events)

TurnInv == TypeOK /\ Accounts /\ EventsInv

(* The last step of every handler: what it appends is Final.               *)
LEMMA EmitFinal ==
  ASSUME NEW frames, NEW used, NEW cost, NEW in, NEW d,
         NEW s, Opens(s), Final(frames, used, cost, in, d)
  PROVE  Final(s \o frames, used, cost, in, d)
BY OpeningIsInert, FinalConcat

LEMMA MessageFirst ==
  ASSUME NEW frames, NEW used, NEW cost, NEW in, NEW d,
         Final(frames, used, cost, in, d)
  PROVE  Final(Message \o frames, used, cost, in, d)
BY MessageIsInert, FinalConcat

(* A turn about to be parsed satisfies it, whatever the envelope holds.    *)
LEMMA BeginsInv == input \in Input /\ Begins(input) => TurnInv
<1> SUFFICES ASSUME input \in Input, Begins(input) PROVE TurnInv
  OBVIOUS
<1> USE DEF Begins
<1>1. NoDecision \in Decision
  BY EmptyBodyType, NoPhaseIsPhase DEF NoDecision, Decision, Actions
<1>2. TypeOK
  BY <1>1, CallsAssumption DEF TypeOK, Input, Controls
<1>3. Accounts
  BY DEF Accounts
<1>4. EventsInv
  BY DEF EventsInv, Opens, Elems
<1>5. QED BY <1>2, <1>3, <1>4 DEF TurnInv

LEMMA InitInv == Init => TurnInv
BY BeginsInv, InputsAssumption DEF Init

LEMMA RejectEnvelopeInv == TurnInv /\ RejectEnvelope => TurnInv'
<1> SUFFICES ASSUME TurnInv, RejectEnvelope PROVE TurnInv'
  OBVIOUS
<1> USE DEF TurnInv, RejectEnvelope, Goto, Emit
<1>1. Final(events \o RunError("invalid_input"), usage, spent, input, decision)
  BY RunErrorIsFinal, EmitFinal DEF EventsInv, Codes
<1>2. TypeOK'
  BY <1>1 DEF TypeOK, Controls, Final
<1>3. Accounts'
  BY DEF Accounts, Early
<1>4. EventsInv'
  BY <1>1 DEF EventsInv, Final
<1>5. QED BY <1>2, <1>3, <1>4

LEMMA StartRunInv == TurnInv /\ StartRun => TurnInv'
<1> SUFFICES ASSUME TurnInv, StartRun PROVE TurnInv'
  OBVIOUS
<1> USE DEF TurnInv, StartRun, Goto, Emit
<1>1. pc' \in Early /\ pc' # "parse"
  BY DEF Route, Early
<1>2. events' = RunStarted
  BY DEF EventsInv, RunStarted
<1>3. Opens(events')
  BY <1>2, RunStartedIsOpening
<1>4. TypeOK'
  BY <1>1, <1>3 DEF TypeOK, Controls, Early, Opens
<1>5. Accounts'
  BY <1>1 DEF Accounts, Early
<1>6. EventsInv'
  BY <1>1, <1>3 DEF EventsInv, Early
<1>7. QED BY <1>4, <1>5, <1>6

LEMMA KickoffHitInv == TurnInv /\ KickoffHit => TurnInv'
<1> SUFFICES ASSUME TurnInv, KickoffHit PROVE TurnInv'
  OBVIOUS
<1> USE DEF TurnInv, KickoffHit, Goto, Emit
<1> DEFINE frames == Interrupt("awaiting_decision", "connect_or_build", NoPhase)
<1>1. usage = spent /\ usage = 0 /\ usage \in 0 .. MaxCalls
  BY DEF Accounts, Early, TypeOK
<1>2. Final(Message \o frames, usage, spent, input, decision)
  BY <1>1, InterruptIsFinal, NoPhaseIsPhase, MessageFirst DEF Steps
<1>3. Final(events \o (Message \o frames), usage, spent, input, decision)
  BY <1>2, EmitFinal DEF EventsInv
<1> HIDE DEF frames
<1>4. events' = events \o (Message \o frames)
  BY DEF frames
<1>5. TypeOK'
  BY <1>3, <1>4 DEF TypeOK, Controls, Final
<1>6. Accounts'
  BY <1>1 DEF Accounts, Early
<1>7. EventsInv'
  BY <1>3, <1>4 DEF EventsInv, Final
<1>8. QED BY <1>5, <1>6, <1>7

LEMMA KickoffBuildInv == TurnInv /\ KickoffBuild => TurnInv'
<1> SUFFICES ASSUME TurnInv, KickoffBuild PROVE TurnInv'
  OBVIOUS
<1> USE DEF TurnInv
<1> DEFINE skeleton == Skeleton(input.vertical)
           confirm  == Interrupt("awaiting_decision", "kickoff_confirmation", NoPhase)
           snapshot == StateSnapshot(skeleton, input.acceptance)
           opened   == Message \o (snapshot \o confirm)
           crashed  == Message \o RunError("internal_error")
<1>1. usage = spent /\ usage = 0 /\ usage \in 0 .. MaxCalls /\ Opens(events)
  BY DEF KickoffBuild, Accounts, Early, TypeOK, EventsInv
<1>2. /\ skeleton \in Config /\ SchemaIssues(skeleton, FALSE) = {}
      /\ input.acceptance \in Acceptance
  BY SkeletonType DEF TypeOK, Input
<1>3. Final(snapshot \o confirm, usage, spent, input, decision)
  <2>1. Inert(snapshot, input, decision)
    BY <1>2, StateSnapshotIsInert
  <2>2. Final(confirm, usage, spent, input, decision)
    BY <1>1, InterruptIsFinal, NoPhaseIsPhase DEF Steps
  <2>3. QED BY <2>1, <2>2, FinalConcat
<1>4. Final(events \o opened, usage, spent, input, decision)
  BY <1>1, <1>3, MessageFirst, EmitFinal
<1>5. Final(events \o crashed, usage, spent, input, decision)
  BY <1>1, RunErrorIsFinal, MessageFirst, EmitFinal DEF Codes
<1>6. /\ draft' = skeleton
      /\ UNCHANGED <<input, usage, spent, decision>>
      /\ \/ pc' = "prompt" /\ events' = events \o opened
         \/ pc' = "done" /\ events' = events \o crashed
  BY <1>2 DEF KickoffBuild, Crash, Emit
<1> HIDE DEF skeleton, opened, crashed
<1>7. TypeOK'
  BY <1>2, <1>4, <1>5, <1>6 DEF TypeOK, Controls, Final
<1>8. Accounts'
  BY <1>1, <1>6 DEF Accounts, Early
<1>9. EventsInv'
  BY <1>4, <1>5, <1>6 DEF EventsInv, Final
<1>10. QED BY <1>7, <1>8, <1>9

LEMMA KickoffEditRefusedInv == TurnInv /\ KickoffEditRefused => TurnInv'
<1> SUFFICES ASSUME TurnInv, KickoffEditRefused PROVE TurnInv'
  OBVIOUS
<1> USE DEF TurnInv, KickoffEditRefused, Goto, Emit
<1>1. Final(events \o RunError("invalid_input"), usage, spent, input, decision)
  BY RunErrorIsFinal, EmitFinal DEF EventsInv, Codes
<1>2. TypeOK'
  BY <1>1 DEF TypeOK, Controls, Final
<1>3. Accounts'
  BY DEF Accounts, Early
<1>4. EventsInv'
  BY <1>1 DEF EventsInv, Final
<1>5. QED BY <1>2, <1>3, <1>4

LEMMA KickoffEditInv == TurnInv /\ KickoffEdit => TurnInv'
<1> SUFFICES ASSUME TurnInv, KickoffEdit PROVE TurnInv'
  OBVIOUS
<1> USE DEF TurnInv, KickoffEdit, Goto, Emit
<1> DEFINE frames == Interrupt("awaiting_decision", "kickoff_confirmation", NoPhase)
<1>1. usage = spent /\ usage = 0 /\ usage \in 0 .. MaxCalls
  BY DEF Accounts, Early, TypeOK
<1>2. Final(Message \o frames, usage, spent, input, decision)
  BY <1>1, InterruptIsFinal, NoPhaseIsPhase, MessageFirst DEF Steps
<1>3. Final(events \o (Message \o frames), usage, spent, input, decision)
  BY <1>2, EmitFinal DEF EventsInv
<1> HIDE DEF frames
<1>4. events' = events \o (Message \o frames)
  BY DEF frames
<1>5. TypeOK'
  BY <1>3, <1>4 DEF TypeOK, Controls, Final
<1>6. Accounts'
  BY <1>1 DEF Accounts, Early
<1>7. EventsInv'
  BY <1>3, <1>4 DEF EventsInv, Final
<1>8. QED BY <1>5, <1>6, <1>7

LEMMA ComposeInv == TurnInv /\ Compose => TurnInv'
<1> SUFFICES ASSUME TurnInv, Compose PROVE TurnInv'
  OBVIOUS
<1> USE DEF TurnInv, Compose, Crash, Emit
<1> DEFINE crashed == events \o (<<>> \o RunError("internal_error"))
<1>1. Opens(events) /\ events \in Seq(Event)
  BY DEF EventsInv, TypeOK
<1>2. <<>> \o RunError("internal_error") = RunError("internal_error")
  BY DEF RunError
<1>3. Final(crashed, usage, spent, input, decision)
  BY <1>1, <1>2, RunErrorIsFinal, EmitFinal DEF Codes
<1>4. \/ pc' \in {"decide", "fallback"} /\ UNCHANGED events
      \/ pc' = "done" /\ events' = crashed
  OBVIOUS
<1> HIDE DEF crashed
<1>5. TypeOK'
  BY <1>3, <1>4 DEF TypeOK, Controls, Final
<1>6. Accounts'
  BY <1>4 DEF Accounts, Early
<1>7. EventsInv'
  BY <1>1, <1>3, <1>4 DEF EventsInv, Final
<1>8. QED BY <1>5, <1>6, <1>7

LEMMA FallbackInv == TurnInv /\ Fallback => TurnInv'
<1> SUFFICES ASSUME TurnInv, Fallback PROVE TurnInv'
  OBVIOUS
<1> USE DEF TurnInv, Fallback, Goto, Emit
<1> DEFINE canned == IF AllPhasesAccepted(input.acceptance)
                     THEN Interrupt("awaiting_test_run", NoStep, NoPhase)
                     ELSE Interrupt("awaiting_phase_acceptance", NoStep,
                                    NextOpenPhase(input.acceptance))
<1>1. usage = spent /\ usage \in 0 .. MaxCalls
  BY DEF Accounts, TypeOK
<1>2. AllPhasesAccepted(input.acceptance) \/ NextOpenPhase(input.acceptance) \in Phases
  BY NextOpenPhaseType, NoPhaseIsPhase DEF TypeOK, Input
<1>3. Final(canned, usage, spent, input, decision)
  BY <1>1, <1>2, InterruptIsFinal, NoPhaseIsPhase
<1> HIDE DEF canned
<1>4. Final(events \o (Message \o canned), usage, spent, input, decision)
  BY <1>3, MessageFirst, EmitFinal DEF EventsInv
<1>5. events' = events \o (Message \o canned)
  BY DEF canned
<1>6. TypeOK'
  BY <1>4, <1>5 DEF TypeOK, Controls, Final
<1>7. Accounts'
  BY DEF Accounts, Early
<1>8. EventsInv'
  BY <1>4, <1>5 DEF EventsInv, Final
<1>9. QED BY <1>6, <1>7, <1>8

LEMMA ModelDecidesInv == TurnInv /\ ModelDecides => TurnInv'
<1> SUFFICES ASSUME TurnInv, ModelDecides PROVE TurnInv'
  OBVIOUS
<1> USE DEF TurnInv, ModelDecides, Goto, RecordUsage
<1>1. PICK d \in Decisions, calls \in 1 .. MaxCalls :
        decision' = d /\ spent' = calls /\ usage' = usage + calls
  OBVIOUS
<1>2. usage = 0 /\ MaxCalls \in Nat
  BY CallsAssumption DEF Accounts, Early
<1>3. usage' = spent' /\ usage' \in 0 .. MaxCalls /\ usage' > 0
  BY <1>1, <1>2
<1>4. TypeOK'
  BY <1>1, <1>3, DecisionsAssumption DEF TypeOK, Controls
<1>5. Accounts'
  BY <1>3 DEF Accounts, Early
<1>6. EventsInv'
  BY DEF EventsInv
<1>7. QED BY <1>4, <1>5, <1>6

LEMMA ModelRaisesInv == TurnInv /\ ModelRaises => TurnInv'
<1> SUFFICES ASSUME TurnInv, ModelRaises PROVE TurnInv'
  OBVIOUS
<1> USE DEF TurnInv, ModelRaises, Crash, Emit
<1>1. Opens(events)
  BY DEF EventsInv
<1>2. <<>> \o RunError("internal_error") = RunError("internal_error")
  BY DEF RunError
<1>3. \A cost : Final(events \o (<<>> \o RunError("internal_error")), usage, cost,
                     input, decision)
  BY <1>1, <1>2, RunErrorIsFinal, EmitFinal DEF Codes
<1>4. TypeOK'
  BY <1>3 DEF TypeOK, Controls, Final
<1>5. Accounts'
  BY DEF Accounts, Early
<1>6. Final(events', usage', spent', input', decision')
  BY <1>3
<1>7. EventsInv'
  BY <1>6 DEF EventsInv, Final
<1>8. QED BY <1>4, <1>5, <1>7

LEMMA ApplyVerticalInv == TurnInv /\ ApplyVertical => TurnInv'
<1> SUFFICES ASSUME TurnInv, ApplyVertical PROVE TurnInv'
  OBVIOUS
<1> USE DEF TurnInv, ApplyVertical, Goto
<1> DEFINE patch == VerticalWrite(draft, decision.vertical, input.edit)
<1>1. Opens(events) /\ draft \in Config /\ events \in Seq(Event)
  BY DEF EventsInv, TypeOK
<1>2. CASE decision.vertical = NoVertical \/ HasVertical(draft)
  <2>1. UNCHANGED <<draft, events>>
    BY <1>2
  <2>2. TypeOK' /\ Accounts' /\ EventsInv'
    BY <1>1, <2>1 DEF TypeOK, Controls, Accounts, Early, EventsInv
  <2>3. QED BY <2>2
<1>3. CASE ~(decision.vertical = NoVertical \/ HasVertical(draft))
  <2>1. events' = events \o StateDelta(patch) /\ draft' = ApplyPatch(draft, patch)
    BY <1>3 DEF RecordVertical, Emit
  <2>2. decision.vertical \in Verticals /\ input.edit \in BOOLEAN
    BY <1>3 DEF TypeOK, Decision, Input
  <2>3. patch \in Patch /\ patch.section = Keep
    BY <1>1, <2>2, VerticalWriteType
  <2> HIDE DEF patch
  <2>4. ApplyPatch(draft, patch) \in Config
    BY <1>1, <2>3, ApplyPatchType
  <2>5. Opens(events')
    <3>1. /\ StateDelta(patch) \in Seq(Event)
          /\ Elems(StateDelta(patch)) = {[type |-> "STATE_DELTA", patch |-> patch]}
      BY <2>3, StateDeltaFrame
    <3>2. /\ events' \in Seq(Event)
          /\ Elems(events') = Elems(events) \cup Elems(StateDelta(patch))
      BY <1>1, <2>1, <3>1, ElemsConcat
    <3>3. QED BY <1>1, <2>3, <3>1, <3>2 DEF Opens
  <2>6. TypeOK'
    BY <2>1, <2>4, <2>5 DEF TypeOK, Controls, Opens
  <2>7. Accounts' /\ EventsInv'
    BY <2>5 DEF Accounts, Early, EventsInv
  <2>8. QED BY <2>6, <2>7
<1>4. QED BY <1>2, <1>3

LEMMA TargetPhaseType ==
  ASSUME TypeOK
  PROVE  /\ TargetPhase \in Sections \cup Members \cup {RootKey, UnknownKey, BadPointer}
         /\ TargetPhase \in Members => TargetPhase = decision.phase
<1>1. decision.phase \in Phases /\ input.acceptance \in Acceptance
  BY DEF TypeOK, Decision, Input
<1>2. QED BY <1>1, NextOpenPhaseType, MembersAssumption DEF TargetPhase, Phases

LEMMA ProposeSectionInv == TurnInv /\ ProposeSection => TurnInv'
<1> SUFFICES ASSUME TurnInv, ProposeSection PROVE TurnInv'
  OBVIOUS
<1> USE DEF TurnInv
<1> DEFINE patch    == SetSection(draft, TargetPhase, decision.body, input.edit)
           handBack == Interrupt("awaiting_phase_acceptance", NoStep, TargetPhase)
           crashed  == <<>> \o RunError("internal_error")
<1>1. /\ usage = spent /\ usage \in 0 .. MaxCalls /\ Opens(events)
      /\ draft \in Config /\ decision.body \in Body /\ input.edit \in BOOLEAN
  BY DEF ProposeSection, Accounts, EventsInv, TypeOK, Decision, Input
<1>2. Final(handBack, usage, spent, input, decision)
  BY <1>1, TargetPhaseType, InterruptIsFinal DEF Phases
<1>3. /\ UNCHANGED <<input, usage, spent, decision>>
      /\ pc' = "done"
      /\ \/ events' = events \o crashed /\ UNCHANGED draft
         \/ events' = events \o (Message \o handBack) /\ UNCHANGED draft
         \/ /\ TargetPhase # BadPointer
            /\ draft' = ApplyPatch(draft, patch)
            /\ events' = events \o ((Message \o StateDelta(patch)) \o handBack)
  BY DEF ProposeSection, Crash, Emit
<1>4. Final(events \o crashed, usage, spent, input, decision)
  <2>1. crashed = RunError("internal_error")
    BY DEF RunError
  <2>2. QED BY <1>1, <2>1, RunErrorIsFinal, EmitFinal DEF Codes
<1>5. Final(events \o (Message \o handBack), usage, spent, input, decision)
  BY <1>1, <1>2, MessageFirst, EmitFinal
<1>6. ASSUME TargetPhase # BadPointer
      PROVE  /\ ApplyPatch(draft, patch) \in Config
             /\ Final(events \o ((Message \o StateDelta(patch)) \o handBack),
                      usage, spent, input, decision)
  <2>1. TargetPhase \in Sections \cup Members \cup {RootKey, UnknownKey}
    BY <1>6, TargetPhaseType
  <2>2. patch \in Patch
    BY <1>1, <2>1, SetSectionType
  <2>3. DeltaIsNormal(patch, input, decision)
    <3>1. CASE TargetPhase \in Sections
      <4>1. patch.section = TargetPhase
            /\ patch.body = SectionBody(TargetPhase, decision.body, input.edit)
        BY <3>1 DEF SetSection, SectionPatch
      <4> DEFINE stored == SectionBody(TargetPhase, decision.body, input.edit)
      <4>2. /\ ~stored.wrapped
            /\ decision.body.knob = "authored" => stored.knob = "authored"
            /\ (~input.edit /\ TargetPhase \in SEEDED) => stored.knob # "absent"
        BY <1>1, SectionBodyIsNormal
      <4> HIDE DEF patch, stored
      <4>3. patch.section = TargetPhase /\ patch.body = stored
        BY <4>1 DEF stored
      <4>4. QED BY <4>2, <4>3 DEF DeltaIsNormal
    <3>2. CASE TargetPhase \in Members
      <4>1. decision.phase \in Members
        BY <3>2, TargetPhaseType
      <4>2. QED BY <4>1 DEF DeltaIsNormal
    <3>3. CASE TargetPhase \notin Sections \cup Members
      <4>1. patch.section = TargetPhase
        BY <3>3 DEF SetSection, SectionPatch
      <4>2. QED BY <3>3, <4>1 DEF DeltaIsNormal
    <3>4. QED BY <3>1, <3>2, <3>3
  <2> HIDE DEF patch, handBack
  <2>4. Inert(StateDelta(patch), input, decision)
    BY <2>2, <2>3, StateDeltaFrame DEF Inert, Terminals
  <2>5. Final((Message \o StateDelta(patch)) \o handBack, usage, spent, input, decision)
    BY <1>2, <2>4, MessageIsInert, InertConcat, FinalConcat
  <2>6. QED BY <1>1, <2>2, <2>5, ApplyPatchType, EmitFinal
<1> HIDE DEF patch, handBack, crashed
<1>7. Final(events', usage', spent', input', decision') /\ draft' \in Config
  BY <1>1, <1>3, <1>4, <1>5, <1>6
<1>8. TypeOK'
  BY <1>3, <1>7 DEF TypeOK, Controls, Final
<1>9. Accounts'
  BY <1>3 DEF Accounts, Early
<1>10. EventsInv'
  BY <1>3, <1>7 DEF EventsInv, Final
<1>11. QED BY <1>8, <1>9, <1>10

LEMMA RequestToolInv == TurnInv /\ RequestTool => TurnInv'
<1> SUFFICES ASSUME TurnInv, RequestTool PROVE TurnInv'
  OBVIOUS
<1> USE DEF TurnInv
<1> DEFINE tool    == decision.action
           issues  == GateIssues(tool, draft, decision.slugOk)
           crashed == Message \o RunError("internal_error")
           granted == Message \o Requested(tool)
<1>1. /\ usage = spent /\ usage \in 0 .. MaxCalls /\ usage > 0 /\ Opens(events)
      /\ draft \in Config /\ tool \in Tools
  BY DEF RequestTool, Accounts, EventsInv, TypeOK
<1>2. /\ UNCHANGED <<input, draft, usage, spent, decision>>
      /\ pc' = "done"
      /\ \/ events' = events \o crashed
         \/ \E phase \in PhaseFromIssues(draft) :
              events' = events \o (Message \o Blocked(phase))
         \/ issues = {} /\ events' = events \o granted
  BY DEF RequestTool, Crash, Emit
<1>3. Final(events \o crashed, usage, spent, input, decision)
  BY <1>1, RunErrorIsFinal, MessageFirst, EmitFinal DEF Codes
<1>4. ASSUME NEW phase \in PhaseFromIssues(draft)
      PROVE  Final(events \o (Message \o Blocked(phase)), usage, spent, input, decision)
  <2>1. phase \in Phases
    BY PhaseFromIssuesType, NoPhaseIsPhase
  <2>2. Final(Interrupt("awaiting_phase_acceptance", NoStep, phase),
              usage, spent, input, decision)
    BY <1>1, <2>1, InterruptIsFinal
  <2>3. Final(Blocked(phase), usage, spent, input, decision)
    BY <2>2, MessageFirst DEF Blocked
  <2>4. QED BY <1>1, <2>3, MessageFirst, EmitFinal
<1>5. ASSUME issues = {}
      PROVE  Final(events \o granted, usage, spent, input, decision)
  <2>1. Ready(tool, draft)
    BY <1>1, <1>5, GateIsSound DEF Ready
  <2>2. Final(Requested(tool), usage, spent, input, decision)
    BY <1>1, <2>1, RequestedIsFinal
  <2>3. QED BY <1>1, <2>2, MessageFirst, EmitFinal
<1> HIDE DEF tool, issues, crashed, granted
<1>6. Final(events', usage', spent', input', decision')
  BY <1>2, <1>3, <1>4, <1>5
<1>7. TypeOK'
  BY <1>2, <1>6 DEF TypeOK, Controls, Final
<1>8. Accounts'
  BY <1>2 DEF Accounts, Early
<1>9. EventsInv'
  BY <1>2, <1>6 DEF EventsInv, Final
<1>10. QED BY <1>7, <1>8, <1>9

LEMMA ConnectExistingInv == TurnInv /\ ConnectExisting => TurnInv'
<1> SUFFICES ASSUME TurnInv, ConnectExisting PROVE TurnInv'
  OBVIOUS
<1> USE DEF TurnInv, ConnectExisting, Goto, Emit
<1> DEFINE frames == Message \o Interrupt("awaiting_decision", "connect", NoPhase)
<1>1. usage = spent /\ usage \in 0 .. MaxCalls /\ Opens(events)
  BY DEF Accounts, TypeOK, EventsInv
<1>2. Final(events \o frames, usage, spent, input, decision)
  BY <1>1, InterruptIsFinal, NoPhaseIsPhase, MessageFirst, EmitFinal DEF Steps
<1>3. events' = events \o frames
  OBVIOUS
<1> HIDE DEF frames
<1>4. TypeOK'
  BY <1>2, <1>3 DEF TypeOK, Controls, Final
<1>5. Accounts'
  BY DEF Accounts, Early
<1>6. EventsInv'
  BY <1>2, <1>3 DEF EventsInv, Final
<1>7. QED BY <1>4, <1>5, <1>6

LEMMA AwaitHumanInv == TurnInv /\ AwaitHuman => TurnInv'
<1> SUFFICES ASSUME TurnInv, AwaitHuman PROVE TurnInv'
  OBVIOUS
<1> USE DEF TurnInv, AwaitHuman, Goto, Emit
<1> DEFINE frames == Message \o Interrupt(decision.reason, NoStep, NoPhase)
<1>1. usage = spent /\ usage \in 0 .. MaxCalls /\ Opens(events)
  BY DEF Accounts, TypeOK, EventsInv
<1>2. Final(events \o frames, usage, spent, input, decision)
  BY <1>1, InterruptIsFinal, NoPhaseIsPhase, MessageFirst, EmitFinal
<1>3. events' = events \o frames
  OBVIOUS
<1> HIDE DEF frames
<1>4. TypeOK'
  BY <1>2, <1>3 DEF TypeOK, Controls, Final
<1>5. Accounts'
  BY DEF Accounts, Early
<1>6. EventsInv'
  BY <1>2, <1>3 DEF EventsInv, Final
<1>7. QED BY <1>4, <1>5, <1>6

LEMMA AfterToolInv == TurnInv /\ AfterTool => TurnInv'
<1> SUFFICES ASSUME TurnInv, AfterTool PROVE TurnInv'
  OBVIOUS
<1> USE DEF TurnInv
<1> DEFINE crashed  == <<>> \o RunError("internal_error")
           answered == Message \o ToolReply(input.pending)
<1>1. usage = spent /\ usage = 0 /\ usage \in 0 .. MaxCalls /\ Opens(events)
  BY DEF AfterTool, Accounts, Early, TypeOK, EventsInv
<1>2. /\ UNCHANGED <<input, draft, usage, spent, decision>>
      /\ \/ pc' = "done" /\ events' = events \o crashed
         \/ pc' = "prompt" /\ events' = events \o answered
  BY DEF AfterTool, Crash, Emit
<1>3. Final(events \o crashed, usage, spent, input, decision)
  <2>1. crashed = RunError("internal_error")
    BY DEF RunError
  <2>2. QED BY <1>1, <2>1, RunErrorIsFinal, EmitFinal DEF Codes
<1>4. Final(events \o answered, usage, spent, input, decision)
  BY <1>1, ToolReplyIsFinal, MessageFirst, EmitFinal
<1> HIDE DEF crashed, answered
<1>5. Final(events', usage', spent', input', decision')
  BY <1>2, <1>3, <1>4
<1>6. TypeOK'
  BY <1>2, <1>5 DEF TypeOK, Controls, Final
<1>7. Accounts'
  BY <1>1, <1>2 DEF Accounts, Early
<1>8. EventsInv'
  BY <1>2, <1>5 DEF EventsInv, Final
<1>9. QED BY <1>6, <1>7, <1>8

(* The one step that may put an event behind the terminal one.             *)
LEMMA SystemPromptInv == TurnInv /\ SystemPrompt => TurnInv'
<1> SUFFICES ASSUME TurnInv, SystemPrompt PROVE TurnInv'
  OBVIOUS
<1> USE DEF TurnInv
<1> DEFINE error == [type |-> "RUN_ERROR", code |-> "internal_error"]
           last  == <<error>>
<1>1. /\ UNCHANGED <<input, draft, usage, spent, decision>>
      /\ pc' = "done"
      /\ \/ UNCHANGED events
         \/ ~ContractsSound /\ events' = events \o (<<>> \o last)
  BY DEF SystemPrompt, Crash, Emit, ContractsRaise, RunError
<1>2. <<>> \o last = last /\ last \in Seq(Event) /\ Elems(last) = {error}
  BY DEF Event, Codes, Elems
<1> HIDE DEF error, last
<1>3. events \in Seq(Event) /\ Judged(events, usage, spent, input, decision)
  BY DEF SystemPrompt, EventsInv, TypeOK
<1>4. CASE UNCHANGED events
  BY <1>1, <1>4 DEF SystemPrompt, TypeOK, Controls, Accounts, Early, EventsInv
<1>5. CASE ~ContractsSound /\ events' = events \o (<<>> \o last)
  <2>1. events' \in Seq(Event) /\ Elems(events') = Elems(events) \cup {error}
    <3>1. events' = events \o last
      BY <1>2, <1>5
    <3>2. QED BY <1>2, <1>3, <3>1, ElemsConcat
  <2>2. Judged(events', usage', spent', input', decision')
    BY <1>1, <1>3, <2>1 DEF Judged, error
  <2>3. TypeOK' /\ Accounts'
    BY <1>1, <2>1 DEF TypeOK, Controls, Accounts, Early
  <2>4. EventsInv'
    BY <1>1, <1>5, <2>2 DEF EventsInv
  <2>5. QED BY <2>3, <2>4
<1>6. QED BY <1>1, <1>4, <1>5

LEMMA StutterInv == TurnInv /\ UNCHANGED vars => TurnInv'
BY DEF TurnInv, vars, TypeOK, Accounts, EventsInv

(* The invariant is inductive: every step of a turn keeps it, whoever asked *)
(* for the turn and whoever listens.                                       *)
LEMMA TurnStepInv == TurnInv /\ TurnStep => TurnInv'
BY RejectEnvelopeInv, StartRunInv, KickoffHitInv, KickoffBuildInv, KickoffEditRefusedInv,
   KickoffEditInv, ComposeInv, FallbackInv, ModelDecidesInv, ModelRaisesInv,
   ApplyVerticalInv, ProposeSectionInv, RequestToolInv, ConnectExistingInv,
   AwaitHumanInv, AfterToolInv, SystemPromptInv DEF TurnStep

(* Every state a turn reaches satisfies it (runtime.py:56-658).            *)
THEOREM TurnInvHolds == Spec => []TurnInv
<1>1. Init => TurnInv
  BY InitInv
<1>2. TurnInv /\ [TurnStep]_vars => TurnInv'
  BY TurnStepInv, StutterInv
<1>3. QED BY <1>1, <1>2, PTL DEF Spec

----------------------------------------------------------------------------
(* The properties.                                                         *)

LEMMA EventsAreJudged ==
  ASSUME TurnInv
  PROVE  \/ Opens(events)
         \/ Judged(events, usage, spent, input, decision)
BY DEF TurnInv, EventsInv

(* Every turn keeps its types, whatever the envelope holds and the model   *)
(* answers (runtime.py:56-658).                                            *)
THEOREM TypeCorrect == Spec => []TypeOK
<1>1. TurnInv => TypeOK
  BY DEF TurnInv
<1>2. QED BY <1>1, TurnInvHolds, PTL

(* A tool call is only ever emitted for a config that passes every gate of *)
(* that tool, and the turn's result names that call (tools.py:209-309).    *)
THEOREM ToolCallsReady == Spec => []ToolCallsAreReady
<1>1. TurnInv => ToolCallsAreReady
  <2>1. SUFFICES ASSUME TurnInv, NEW i \in EventsOf("TOOL_CALL_ARGS")
                 PROVE  /\ Ready(events[i].tool, events[i].config)
                        /\ usage > 0
                        /\ \A j \in EventsOf("RUN_FINISHED") :
                             /\ events[j].result.outcome = "tool_call"
                             /\ events[j].result.tool = events[i].tool
    BY DEF ToolCallsAreReady
  <2>2. \A j \in DOMAIN events : events[j] \in Elems(events)
    BY DEF Elems
  <2>3. i \in DOMAIN events /\ events[i].type = "TOOL_CALL_ARGS"
    BY DEF EventsOf
  <2>4. ~Opens(events)
    BY <2>2, <2>3 DEF Opens
  <2>5. Judged(events, usage, spent, input, decision)
    BY <2>1, <2>4, EventsAreJudged
  <2>6. QED BY <2>2, <2>3, <2>5 DEF Judged, EventsOf
<1>2. QED BY <1>1, TurnInvHolds, PTL

(* A turn that finishes reports the model calls it was billed for          *)
(* (agui.py:564-584, runtime.py:364-369).                                  *)
THEOREM UsageBilled == Spec => []UsageIsBilled
<1>1. TurnInv => UsageIsBilled
  <2>1. SUFFICES ASSUME TurnInv, NEW i \in EventsOf("RUN_FINISHED")
                 PROVE  events[i].result.usage = spent
    BY DEF UsageIsBilled
  <2>2. events[i] \in Elems(events) /\ events[i].type = "RUN_FINISHED"
    BY DEF EventsOf, Elems
  <2>3. ~Opens(events)
    BY <2>2 DEF Opens
  <2>4. QED BY <2>1, <2>2, <2>3, EventsAreJudged DEF Judged
<1>2. QED BY <1>1, TurnInvHolds, PTL

(* Every section the gateway is sent is unwrapped and has the knob it must *)
(* have (draft.py:195-304).                                                *)
THEOREM SectionsNormal == Spec => []SectionsAreNormal
<1>1. TurnInv => SectionsAreNormal
  <2>1. SUFFICES ASSUME TurnInv, NEW i \in EventsOf("STATE_DELTA")
                 PROVE  DeltaIsNormal(events[i].patch, input, decision)
    BY DEF SectionsAreNormal, DeltaIsNormal
  <2>2. events[i] \in Elems(events) /\ events[i].type = "STATE_DELTA"
    BY DEF EventsOf, Elems
  <2>3. CASE Opens(events)
    BY <2>2, <2>3, SectionIsNoMarker DEF Opens, DeltaIsNormal
  <2>4. CASE Judged(events, usage, spent, input, decision)
    BY <2>2, <2>4 DEF Judged
  <2>5. QED BY <2>1, <2>3, <2>4, EventsAreJudged
<1>2. QED BY <1>1, TurnInvHolds, PTL

(* Where every contract loads, a terminal event is the last one of its     *)
(* turn (runtime.py:56-122, agui.py:310-313).                              *)
THEOREM TerminalIsLast == ContractsSound => (Spec => []OneTerminal)
<1> SUFFICES ASSUME ContractsSound PROVE Spec => []OneTerminal
  OBVIOUS
<1>1. TurnInv => OneTerminal
  <2>1. SUFFICES ASSUME TurnInv,
                        NEW i \in EventsOf("RUN_FINISHED") \cup EventsOf("RUN_ERROR")
                 PROVE  i = Len(events)
    BY DEF OneTerminal
  <2>2. i \in DOMAIN events /\ events[i] \in Elems(events)
        /\ events[i].type \in Terminals
    BY DEF EventsOf, Elems, Terminals
  <2>3. ~Opens(events)
    BY <2>2 DEF Opens, Terminals
  <2>4. Ended(events)
    BY <2>1, <2>3 DEF TurnInv, EventsInv
  <2>5. QED BY <2>2, <2>4 DEF Ended
<1>2. QED BY <1>1, TurnInvHolds, PTL
=============================================================================
