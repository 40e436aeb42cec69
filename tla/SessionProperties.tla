------------------------- MODULE SessionProperties -------------------------
(***************************************************************************)
(* What a whole session promises: the gateway's row, the skill it makes    *)
(* and what the operator is told, at every frame and through every cut.    *)
(***************************************************************************)
EXTENDS Session, TurnProperties

(* At every frame of every turn, in a build and for the skill at the end,  *)
(* the row holds no section the section gate refuses and no key the schema *)
(* does not declare; only placeholders wait for the tool gate.  A stream   *)
(* cut between two frames leaves the same (R2, agui.py:41-43).             *)
RowIsProposable ==
  ~edit => /\ ~row.config.stray
           /\ \A s \in Sections :
                row.config.sections[s].faults \subseteq {"placeholder"}

(* The slug of a build names its vertical at every frame: the two are set  *)
(* together at kickoff and re-derived in one delta when the model obtains  *)
(* the vertical later (runtime.py:503-555, draft.py:112-117).              *)
SlugNamesVertical ==
  (~edit /\ (row.config.vertical \in Verticals \/ row.config.complete)) =>
    row.config.slug = BuildSlug(row.config.vertical)

(* A skill that was made is one that every gate passed, in the very form   *)
(* the gateway persisted, whatever was cut or retried on the way           *)
(* (tools.py:209-309).                                                     *)
SkillIsReady ==
  skill.made =>
    /\ skill.config.complete /\ ~skill.config.stray
    /\ skill.config.vertical \in Verticals
    /\ \A s \in Sections : skill.config.sections[s].faults = {}
    /\ skill.config = row.config

(* The operator is told the skill exists only when it does, and the        *)
(* session ends only then: a declined or rejected finalize goes on         *)
(* (tools.py:337-391, "A rejection is never terminal").                    *)
FinalizedIsTrue ==
  \A i \in DOMAIN events :
    (events[i].type = "RUN_FINISHED" /\ events[i].result.outcome = "finalized")
      => skill.made

(* No frame takes away what the session had: a section that is authored    *)
(* changes only by a delta that proposes that section, one at a time, and  *)
(* an acceptance flag changes only by the operator's hand, never by a      *)
(* snapshot (runtime.py:99-106, 234-250).                                  *)
WorkIsKept ==
  [][ sent' = sent + 1 =>
        /\ row'.acceptance = row.acceptance
        /\ \A s \in AuthoredSections(row.config) :
             row'.config.sections[s] # row.config.sections[s] =>
               Frame.type = "STATE_DELTA" /\ Frame.patch.section = s ]_sessionVars

(* A tool result is answered: the turn it starts speaks, whatever was cut  *)
(* before, and only then does it stop being the last message               *)
(* (agui.py:188-194, runtime.py:627-644).                                  *)
ResultIsAnswered == (tail # NoTool) ~> (tail = NoTool)

(* The configs every gate lets through.                                    *)
FinishedConfigs ==
  {c \in Config : /\ c.complete /\ ~c.stray /\ c.vertical \in Verticals
                  /\ \A s \in Sections : c.sections[s].faults = {}}

Handover == INSTANCE Builder WITH
  Finished <- FinishedConfigs,
  draft    <- row.config,
  asked    <- IF asked.tool = "request_finalize" THEN {asked.config} ELSE {},
  made     <- IF skill.made THEN {skill.config} ELSE {}

(* The skill is made of what the operator was asked about: while a         *)
(* finalize call waits the row holds still, cuts and retries included, and *)
(* once it is executed neither the row nor the skill changes               *)
(* (tools.py:209-309, runtime.py:627-644).                                 *)
SkillIsWhatWasAsked == Handover!Spec

(* A build writes sections into a skeleton: "build new only on an explicit *)
(* operator decline or no match" (catalog.py:6-7) promises a new build     *)
(* after a decline too.                                                    *)
BuildHasSkeleton ==
  (~edit /\ AuthoredSections(row.config) # {}) => row.config.complete

SessionTypeOK ==
  /\ edit \in BOOLEAN /\ row \in Row /\ said \in BOOLEAN
  /\ tail \in ToolResult \cup {NoTool}
  /\ asked \in Ask
  /\ skill \in Skill
  /\ live \in BOOLEAN
  /\ sent \in 0 .. Len(events)
  /\ cuts \in 0 .. MaxCuts
=============================================================================
