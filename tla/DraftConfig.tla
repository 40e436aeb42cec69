---------------------------- MODULE DraftConfig ----------------------------
(***************************************************************************)
(* The config document the builder edits, and every function that writes   *)
(* or judges it: app/skill_builder/draft.py (skeleton, set_section, apply, *)
(* diff, build_slug), state.py (acceptance), validator.py, and the gates   *)
(* of tools.py.                                                            *)
(*                                                                         *)
(* A section body keeps what the properties tell apart: which content it   *)
(* carries, whether it is wrapped in its own name, whether its             *)
(* _SEEDED_DEFAULTS knob is there and who put it there, and which of the   *)
(* three content checks it fails.  A missing section and {} are one value: *)
(* no code path in the runtime tells them apart but the op of a patch,     *)
(* which applies either way.                                               *)
(***************************************************************************)
EXTENDS Naturals, Sequences, FiniteSets

CONSTANTS
  PHASES,      \* the authoring sections, a sequence in canonical order
  SEEDED,      \* the sections that have a knob in _SEEDED_DEFAULTS
  SectionOf,   \* the section a pointer below one, as "geography/targeting", is in
  Verticals,   \* the verticals _has_vertical accepts
  Slugs,       \* the values of the slug key, NoSlug among them
  SlugOf,      \* build_slug on those verticals
  Texts        \* the contents a section body may carry

NoVertical    == "null"       \* key absent, or a value str.strip() empties
NoSlug        == "no slug"    \* key absent
GenericSlug   == "prospect-scanner"
NoText        == ""
NoPhase       == "None"       \* a phase the model or the interrupt leaves out
RootKey       == "run_parameters"  \* a root key the schema types as an object
UnknownKey    == "unknown key"     \* "" or any key the schema root refuses
BadPointer    == "bad pointer"     \* a phase no JSON pointer can address
Keep          == "keep"       \* a member a patch leaves alone

Sections == {PHASES[i] : i \in DOMAIN PHASES}
Members  == DOMAIN SectionOf

ASSUME PhasesAssumption ==
  /\ PHASES \in Seq(STRING)
  /\ PHASES # <<>>
  /\ \A i, j \in DOMAIN PHASES : PHASES[i] = PHASES[j] => i = j
  /\ {NoPhase, RootKey, UnknownKey, BadPointer, Keep} \cap Sections = {}
ASSUME SeededAssumption == SEEDED \subseteq Sections
ASSUME MembersAssumption ==
  /\ SectionOf \in [Members -> Sections]
  /\ Members \subseteq STRING
  /\ (Sections \cup {NoPhase, RootKey, UnknownKey, BadPointer, Keep}) \cap Members = {}
ASSUME VerticalsAssumption ==
  Verticals \subseteq STRING /\ {NoVertical, Keep} \cap Verticals = {}
ASSUME SlugAssumption ==
  /\ {NoSlug, GenericSlug} \subseteq Slugs
  /\ Keep \notin Slugs
  /\ SlugOf \in [Verticals -> Slugs \ {NoSlug}]

Knobs  == {"absent", "default", "authored"}
Faults == {"schema", "coupling", "placeholder"}

Body == [text : Texts \cup {NoText}, wrapped : BOOLEAN,
         knob : Knobs, faults : SUBSET Faults]

EmptyBody == [text |-> NoText, wrapped |-> FALSE, knob |-> "absent", faults |-> {}]

(* `complete` stands for the two keys the schema root requires, version    *)
(* and run_parameters, which only the skeleton and a seeded skill carry:   *)
(* version is a const string, so no section write can supply it.  `stray`  *)
(* says the root holds a key the schema does not declare.                  *)
Config == [complete : BOOLEAN, stray : BOOLEAN,
           vertical : Verticals \cup {NoVertical}, slug : Slugs,
           sections : [Sections -> Body]]

Acceptance == [Sections -> BOOLEAN]

BlankConfig ==
  [complete |-> FALSE, stray |-> FALSE, vertical |-> NoVertical,
   slug |-> NoSlug, sections |-> [s \in Sections |-> EmptyBody]]

----------------------------------------------------------------------------
(* state.py: acceptance is read, never written, by the runtime.            *)

AllPhasesAccepted(acceptance) == \A s \in Sections : acceptance[s]

OpenIndices(acceptance) == {i \in DOMAIN PHASES : ~acceptance[PHASES[i]]}

NextOpenPhase(acceptance) ==
  IF AllPhasesAccepted(acceptance)
  THEN NoPhase
  ELSE PHASES[CHOOSE i \in OpenIndices(acceptance) :
                \A j \in OpenIndices(acceptance) : i <= j]

----------------------------------------------------------------------------
(* draft.py                                                                *)

BuildSlug(vertical) ==
  IF vertical \in Verticals THEN SlugOf[vertical] ELSE GenericSlug

Skeleton(vertical) ==
  [complete |-> TRUE, stray |-> FALSE, vertical |-> vertical,
   slug |-> BuildSlug(vertical),
   sections |-> [s \in Sections |-> EmptyBody]]

HasVertical(config) == config.vertical \in Verticals

(* Mutant: trust the tool description, repair nothing.                     *)
UnwrapNothing(body) == body

UnwrapSelfNamed(body) == [body EXCEPT !.wrapped = FALSE]

WithSeededDefaults(phase, body) ==
  IF phase \in SEEDED /\ body.knob = "absent"
  THEN [body EXCEPT !.knob = "default"]
  ELSE body

(* The body set_section stores for the one the model sent.                 *)
SectionBody(phase, body, edit) ==
  IF edit
  THEN UnwrapSelfNamed(body)
  ELSE WithSeededDefaults(phase, UnwrapSelfNamed(body))

(* A patch: `base` is the body the section diff was computed against, so   *)
(* the patch applies only to a copy that still holds it; a "replace" of    *)
(* the slug applies only where there is one.                               *)
Patch ==
  {p \in [vertical : Verticals \cup {Keep}, slugOp : {"none", "add", "replace"},
          slug : Slugs \cup {Keep}, section : Sections \cup {Keep, RootKey, UnknownKey},
          base : Body, body : Body] :
     p.slugOp = "none" <=> p.slug = Keep}

SectionPatch(phase, base, body) ==
  [vertical |-> Keep, slugOp |-> "none", slug |-> Keep,
   section |-> phase, base |-> base, body |-> body]

VerticalPatch(vertical, slugOp, slug) ==
  [vertical |-> vertical, slugOp |-> slugOp, slug |-> slug,
   section |-> Keep, base |-> EmptyBody, body |-> EmptyBody]

Applies(config, patch) ==
  /\ patch.slugOp = "replace" => config.slug # NoSlug
  /\ patch.section \in Sections => config.sections[patch.section] = patch.base

ApplyPatch(config, patch) ==
  [complete |-> config.complete,
   stray    |-> config.stray \/ patch.section = UnknownKey,
   vertical |-> IF patch.vertical = Keep THEN config.vertical ELSE patch.vertical,
   slug     |-> IF patch.slugOp = "none" THEN config.slug ELSE patch.slug,
   sections |-> [s \in Sections |->
                   IF s = patch.section THEN patch.body ELSE config.sections[s]]]

(* The patch of one section write; ApplyPatch on it gives the new config.  *)
(* The phase is the model's own string, put into a JSON pointer: one with  *)
(* a slash writes below a section, and neither normalisation is for it.    *)
(* `body` is then the section as the write leaves it.                      *)
SetSection(config, phase, body, edit) ==
  IF phase \in Sections
  THEN SectionPatch(phase, config.sections[phase], SectionBody(phase, body, edit))
  ELSE IF phase \in Members
  THEN SectionPatch(SectionOf[phase], config.sections[SectionOf[phase]], body)
  ELSE SectionPatch(phase, EmptyBody, EmptyBody)

(* Writing below a section raises where the section is missing.            *)
MayRaise(config, phase) ==
  \/ phase = BadPointer
  \/ phase \in Members /\ config.sections[SectionOf[phase]] = EmptyBody

(* Mutant: re-derive the slug in an edit session too.                      *)
VerticalWriteRenaming(config, vertical, edit) ==
  IF config.slug = BuildSlug(vertical)
  THEN VerticalPatch(vertical, "none", Keep)
  ELSE VerticalPatch(vertical, IF config.slug = NoSlug THEN "add" ELSE "replace",
                     BuildSlug(vertical))

(* Mutant: keep the slug the kickoff derived from nothing.                 *)
VerticalWriteKeepingSlug(config, vertical, edit) ==
  VerticalPatch(vertical, "none", Keep)

(* The patch that records a vertical the model obtained: an edit session   *)
(* never renames the skill, a build re-derives the slug where it differs.  *)
VerticalWrite(config, vertical, edit) ==
  IF edit \/ config.slug = BuildSlug(vertical)
  THEN VerticalPatch(vertical, "none", Keep)
  ELSE VerticalPatch(vertical, IF config.slug = NoSlug THEN "add" ELSE "replace",
                     BuildSlug(vertical))

----------------------------------------------------------------------------
(* The checks.  An issue names the section it points at, or NoPhase.       *)

IssuesOf(config, fault) ==
  {s \in Sections : fault \in config.sections[s].faults}

SchemaIssues(config, requireComplete) ==
  IssuesOf(config, "schema")
    \cup (IF config.stray \/ (requireComplete /\ ~config.complete)
          THEN {NoPhase} ELSE {})

CouplingIssues(config)    == IssuesOf(config, "coupling")
PlaceholderIssues(config) == IssuesOf(config, "placeholder")

(* _finalize_only_issues: stricter than the schema, which lets it be null. *)
FinalizeOnlyIssues(config) == IF HasVertical(config) THEN {} ELSE {NoPhase}

(* Mutant: R12 left to the tool gate.                                      *)
SectionIssuesSchemaOnly(config) == SchemaIssues(config, FALSE)

(* The section gate of _apply_decision.                                    *)
SectionIssues(config) == SchemaIssues(config, FALSE) \cup CouplingIssues(config)

(* Mutant: finalize gated like a test run.                                 *)
GateIssuesWithoutVertical(tool, config, slugOk) ==
  SchemaIssues(config, TRUE) \cup CouplingIssues(config) \cup PlaceholderIssues(config)

(* The tool gate of _emit_or_block; slugOk is the verdict of the argument  *)
(* schema, which only request_finalize's slug can fail.                    *)
GateIssues(tool, config, slugOk) ==
  SchemaIssues(config, TRUE) \cup CouplingIssues(config)
    \cup PlaceholderIssues(config)
    \cup (IF tool = "request_finalize"
          THEN FinalizeOnlyIssues(config) \cup (IF slugOk THEN {} ELSE {NoPhase})
          ELSE {})

(* Mutant: read the JSON-pointer spelling only, so lints name no section.  *)
PhaseFromPointers(config) ==
  IF IssuesOf(config, "schema") # {} THEN IssuesOf(config, "schema") ELSE {NoPhase}

(* _phase_from_issues: the first issue that names a section.  The lists    *)
(* come in the order schema, R12, placeholder; the order inside one list   *)
(* is left open.                                                           *)
PhaseFromIssues(config) ==
  LET schema == IssuesOf(config, "schema")
      r12    == CouplingIssues(config)
      holes  == PlaceholderIssues(config)
  IN  IF schema # {} THEN schema
      ELSE IF r12 # {} THEN r12
      ELSE IF holes # {} THEN holes
      ELSE {NoPhase}
============================================================================
