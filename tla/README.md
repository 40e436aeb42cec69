# The skill builder runtime in TLA+

The repository is the Conversational Skill Builder: an agent runtime that turns
an organisation's onboarding context into a *config document* for a
prospect-scanning skill, section by section, in a chat with an operator. A
**gateway** (another repository) owns the session. It sends one envelope per
turn, persists the events it gets back, runs the expensive tools and makes the
skill. The runtime keeps nothing between turns. A script deploys it as one
runtime on a cloud account.

These modules model what a turn does with the document and with the event
stream, what a session made of such turns does to the gateway's copy, how the
server and the model client behind it share one process, what the pure readers
(lints, catalog, context, contracts, prompt) answer, and what the deployment
script leaves behind. Source paths below are under `src/app/skill_builder/`
unless they say otherwise.

## Inventory

| Component | State it keeps | Operations | Interacts with |
|---|---|---|---|
| Turn handler `runtime.py` | none between turns; in a turn, `state.draft_config` and the emitter | `handle_turn`, `_kickoff`, `_kickoff_edit`, `_continue`, `_apply_vertical`, `_apply_decision`, `_after_tool`, `_system_prompt` | calls all the others |
| AG-UI emitter `protocol/agui.py` | `events`, `usage` | `run_started`, `message`, `state_delta`, `state_snapshot`, `tool_call`, `interrupt`, `run_finished`, `run_error`, `record_usage` | its events are the only output |
| Draft document `draft.py` | none (pure) | `skeleton`, `build_slug`, `set_section`, `diff`, `apply` | written by the turn handler, replayed by the gateway |
| Builder state `state.py` | `draft_config`, `acceptance` of one turn | `next_open_phase`, `all_phases_accepted` | replayed by the gateway on every turn |
| Tool layer `tools.py` | none | `request_test_run`, `request_finalize`, `handle_tool_result` | validator, the two lints, emitter |
| Validator, R12 lint, placeholder lint | cached schema | `validate_config`, `lint_org_coupling`, `lint_authoring_placeholders` | contracts |
| Catalog `catalog.py` | none | `match`, `best_match` | kickoff only |
| Context `context.py` | the customer blob | `vertical`, `lead_type`, `icp_summary`, ... | kickoff, prompt |
| Contracts `contracts.py` | an `lru_cache` of files | five loaders, any of which may raise | nearly everything |
| Prompt `prompt.py` | none | `compose`, the cached prefix, the bindings and shapes layers | contracts, context, model client |
| Model client `model.py` | the SDK client | `decide`: one call, one more with the tool forced | the provider |
| Server `server.py` | a model singleton | `/ping`, `/invocations` | thread pool, event loop, callers |
| Deployment `src/scripts/provision.py` | none; the account and the working tree are its state | ensure repository and role, build and push, create or update | ECR, IAM, AgentCore, git |
| Settings, stubs, other `src/scripts/` | text and data | - | - |

What is hard here:

* **Order inside a turn.** Events are appended as the turn goes; an exception
  leaves those already appended. Usage is recorded before the terminal event,
  the prompt is rendered after it, the vertical is written before the decision
  it rides on is judged.
* **Two copies of one document.** The gateway rebuilds the draft from patches.
  Each patch has to apply to the copy the earlier ones left, in the same turn
  and across turns, and the tools act on the gateway's copy.
* **Gates.** A section gate, a tool gate and a finalize-only gate judge
  different things; the document has to be safe at every frame all the same.
* **Sessions.** Build and edit share every path but two; a kickoff is only
  recognised by the absence of an assistant message and a tool result only by
  being the last message, so a stream cut in the middle decides what the next
  turn is.
* **One process for several sessions.** A blocked model call, a frame and a
  health check want a thread of one pool; the client is built lazily, without a
  lock; callers hang up and nobody tells the thread.
* **Two readers of one contract.** The prompt teaches a vocabulary and the lint
  enforces it, from files that may be replaced under the process.
* **A deployment without a transaction.** Every remote call may be denied or be
  the last, the tree is read three times, and somebody else may run the script.

`PROJECT.json` lists each of these at the line where it bites, with the
properties that watch it (40 hazards; one has no property and says why).

## Modules

| Module | Models | Variables |
|---|---|---|
| `DraftConfig` | the document, everything that writes it and everything that judges it | none |
| `Turn` (extends `DraftConfig`) | one turn: `handle_turn`, the emitter, the tool layer | `input pc draft events usage spent decision` |
| `AguiStream` | abstract: a stream opens, and finishes or fails, once | `stage` |
| `TurnProperties` (extends `Turn`) | what a turn promises; `StreamStage` is the refinement mapping into `AguiStream` | - |
| `Session` (extends `Turn`) | turns, gateway, operator and transport composed | adds `edit row said tail asked skill live sent cuts` |
| `Builder` | abstract: a finished draft is asked for, holds still until it is answered, and a skill is made of that draft only | `draft asked made` |
| `SessionProperties` (extends `Session`, `TurnProperties`) | what a session promises; `Handover` is the refinement mapping into `Builder` | - |
| `ChatModel` | abstract: a model call decides or raises, is billed a bounded number of times, and a decision reports what it was billed for | `answer billed reported` |
| `ModelClient` | `BedrockChatModel.decide`: the unforced call, prose, the forced retry, the verdict | `call responses billed usage` |
| `Server` (extends `ModelClient`) | both endpoints on one pool and one event loop | adds `stage queue singleton built gone left deaths` |
| `Deploy` | `provision.py`: one action per remote call or read of the tree, any number of runs | `tree granted roleMade repo tags runtime job` |
| `Lints` | the two lints over nested documents, the spelling of locations, `_phase_from_issues`, the repairs the messages ask for | `config` |
| `Library` | the context readers, the catalog match, the kickoff's opener | `blob catalog` |
| `Prompt` | the contract loaders with their cache, the prompt layers, the lint of the same turn | `disk cached hash prompt before enforced` |
| `TurnProofs`, `FrameProofs`, `StreamProofs`, `SessionProofs`, `ServerProofs`, `DeployProofs`, `DocumentProofs`, `LintProofs` | theorems, see Proofs | - |
| `MCTurn`, `MCSession`, `MCServer`, `MCDocuments`, `MCDeploy` | the small instances, some used by several `.cfg` files | - |

Three levels fit together at named seams. `Session` composes `Turn` with the
gateway. `Turn` takes its model's answers from `ModelDecides` and `ModelRaises`,
which are what `ChatModel` allows; `ModelClient` implements `ChatModel`, alone
and inside `Server`, so `Server` may treat `handle_turn` as one step around its
model call, and `Turn` may treat the model call as one step. `DraftConfig`
reduces a section to the checks it fails; `Lints` says over real documents when
those checks fail, what they name, and what a repair does.

### Turn

`draft` is `state.draft_config`; `events` and `usage` are the emitter's fields;
`pc` names the handler about to run; `decision` is the `ModelDecision` being
applied; `spent` is a history variable that counts the calls the provider billed
for. A turn runs on one thread, so the actions are sequential, and one action is
a stretch of code between two calls that may raise. Every action that makes such
a call has an alternative `Crash`, the one `except Exception` of `handle_turn`,
with the frames emitted so far.

A section body is abstracted to what the properties tell apart: its `text` (a
label of the content), whether it is `wrapped` in its own name, who put in its
`knob` (a key of `_SEEDED_DEFAULTS`: absent, the default, or authored), and
which of the three content checks it fails (`faults`). A patch is the section or
the vertical and slug it writes and the base it was computed against; `Applies`
says when the JSON-patch library would accept it.

* A missing section and `{}` are one value. No code path tells them apart but
  the `op` of a patch, which applies either way.
* `complete` stands for `version` and `run_parameters`, the root keys the schema
  requires. `version` is a constant string, so no section write supplies it.
* The phase of a proposal is whatever string the model wrote: a section, a
  pointer below one (`SectionOf`), a root key (`RootKey`), a key the schema
  refuses or the empty string (`UnknownKey`), or one no pointer can address
  (`BadPointer`).
* The contract loaders are memoised, but an exception is not cached; the model
  lets every load raise when `ContractsSound` is FALSE, which includes each real
  order of failures.
* A model without usage figures (the test double) is left out: a decision has
  one or two billed calls.

### Session

`row` is the gateway's persisted config and acceptance, `said` whether the
transcript holds an assistant message, `tail` the tool result it ends with,
`asked` a complete tool call not executed yet, `skill` the result of a finalize.
`Deliver` persists one frame, `CutStream` loses the rest of a turn (before it is
computed, or between any two frames), and `ExecuteTool` answers a call: with a
rejection when its argument differs from the row, as the pinned tool schema
demands. The gateway and operator actions are outside `src/` and marked external
in the map. The operator of `Session` does not write while a tool call is
outstanding; a tool result that cannot be parsed is covered by `Turn` only.

`Builder` is the session as the skill sees it, without turns, frames or
transport. Its `draft` is the row's config, its `asked` the config of an
outstanding finalize call, its `made` the skill. Almost every step of a session is
a stutter of it: of the frames, only a document write is a `Write` and only the
TOOL_CALL_END of a finalize is an `Ask`; an executed call is a `Refuse` or a
`Make`. What it forbids is what no single turn can see: a frame that moves the row
while the operator decides, a skill made of something else than he was asked
about, a second skill, a row that goes on changing under a skill that exists.

### ModelClient and Server

A response is its first tool block (none, a decision, or one that is unusable:
truncated, undecodable, without an action), its first text block and whether a
later text block says something. That is what `decide` tells apart when it
looks for the first tool block and the first text, with `_has_text`,
`_parse_wire_decision` and `_decision_from_mapping`. A first answer whose
text *is* the envelope is still retried, as in the code: only prose-or-not is
asked before the forced call. The SDK's own retries (`max_retries`) are
below this interface, and a response without usage figures, which the code
counts as zero, is left out.

`stage` says where a request is and what it holds a thread for; `queue` is the
thread pool's; a frame of a response is one trip through the queue. `HangUp` is
the caller leaving: only a response between two frames is cancelled, a running
turn is not. `Die` is the container restarting with nothing of before. A name in
`Turns` or `Probes` is reused once its request is over, so runs have no end.

### Deploy

An image is its source, since a digest names content; a tag is what git calls a
source, and every uncommitted edit of one commit has the tag of that commit with
`-dirty`. `job` holds each run's locals; `Crash` is a raise, a failed build or
an interrupt. `still` is a history bit: between a run's two reads of the tree
nobody edited it and nobody moved its tag. `granted` is what the identity may do:
create the repository, write the runtime, or both; without the second a run gets
as far as `WriteRuntime` and is denied there. Whether the role is readable is
open at each read. A container is pinned to the image and environment it started
with. `--skip-push` deploys by tag, which moves by design; `StampIsTrue` speaks of
deployments by digest. Two limits: an ARN given with `--role-arn` is taken to name
a role that exists, and `list_agent_runtimes` is read as one page that holds every
runtime, as in the code, so a runtime on a second page is not modelled.

### Lints, Library, Prompt

Documents are finite trees of dicts, lists, texts, numbers and nulls. A text says
a context field's name or something else and may have a `[bracket]` or an inline
reference; the regular expressions are reduced to that. `Walk` is the recursion of
`_collect_stray_refs` and `_walk_strings` as a function of the depth: what is
visited within `n` steps, each node with the path carried to it; `Entered` is where
it goes on, which the two decide differently at a binding. A location is a sequence
of labels and marks, since schema, R12 and placeholder issues spell one place in
three ways (`/a/b/0`, `a.b.0`, `a.b[0]`), and nothing but a label tells what it
names. A key that itself contains a separator is outside this: it would make two
places share a spelling.

The schema is there as the set `Schema` of the places it types and what it asks of
each (`Accepts`): a string, a list or a map with something in it, an object, the
binding-or-list of `$defs/boundStringList`, and the `not: {}` of `seed_firms`.
`Covers` is how the schema library comes to a place: `*` is a member of an object, `#`
an item of a list, and below a value of another type nothing is judged. `MCSchema`
takes the rules from the pinned `config_schema.json`. Left out are `required` (the
bit `complete` of `DraftConfig` stands for the root's; a source of the documents
is meant to have the other keys it needs), ranges and enumerations.

`Remedies` is what each message tells the model to do, done to the letter. Where a
message leaves a choice the model takes any: a bracket is replaced by a concrete
value or bound, a literal is bound with or without a default, an unknown reference
becomes any published one, a value of a wrong type becomes one the schema accepts
(`samples`). The message of an inline reference asks for an object whatever the
schema wants at that place, and is modelled so.

In `Library` a text is a word and its spelling (plain, cased, spaced, hyphened),
which is what `_norm` and the catch-all test tell apart. In `Prompt` the schema is the shapes layer's view
of it: sections with properties, references into `$defs`, the single-`allOf` idiom,
maps, forbidden keys, malformed sections.

## Runs

| Run | Distinct states | What it shows |
|---|---|---|
| `turn` | 261,644 | every kind of turn from every small row with every small decision: 10 invariants, the refinement of `AguiStream` (`StreamSafety`) and `StreamTerminates` |
| `session` | 303,044 | whole build and edit sessions, one stream cut anywhere, contract loads that may raise on any turn: 5 invariants, the refinement of `Builder` (`SkillIsWhatWasAsked`), `WorkIsKept`, `ResultIsAnswered` |
| `service` | 289,297 | turns, health checks and the model client on one pool: 3 invariants, the refinement of `ChatModel` (`DecidesAsPromised`), `ProbesAreAnswered`, `TurnsAreIndependent` |
| `documents` | 44,301 | the pure readers over small inputs of every shape: 7 invariants, `RepairsEnd` |
| `deploy` | 891,002 | two racing, denied, killed and repeated runs of the script: 3 invariants, `CheckIsReadOnly`, `ArnIsKept`, `RerunFinishes` |
| `decline`, `two_terminals`, `cost`, `test_run`, `repair`, `raw_500`, `late_vertical` | - | one finding each, see below |

### Bounds and why they are enough

* **`turn`.** Two sections, one with a seeded knob and one without: every rule
  treats a section alone, or compares it with the others, and two are enough for
  "this one and another". A row holds any combination of missing, sound, seeded,
  authored and singly faulty sections, with and without a vertical; a decision is
  any action with any phase, a body that is empty, sound, wrapped, authored or
  singly faulty, and a vertical or none; two verticals, so that one can overwrite
  another. `MaxCalls` is 2, as in the code.
* **`session`.** One vertical, bodies that are sound or fail one of two checks,
  one model call per decision, and `MaxCuts = 1`: a second cut meets a state a
  first cut already produced, since a cut leaves only the row and the transcript.
  One decision brings the vertical and asks for finalize at once: it is the one
  turn that writes the row and asks for it, so that the order of the two frames
  and the copy the call carries matter.
  The number of turns is not bounded, and deadlock is checked: a session never
  gets stuck before its skill is made.
* **`service`.** Two turns and one health check on two threads: the turns can
  fill the pool but for the thread the others need (see fairness), and both can
  be inside the unlocked singleton check at once. Two frames per response, so
  that a cancellation falls between two; one death, since it resets everything
  but its own count. Requests repeat for ever, deadlock is checked.
* **`documents`.** Two sections with an enforced position each and a reserved one;
  bindings at, beside, inside and below positions and in lists; each kind of hole,
  at the root, at positions and in the search texts of a source, where the schema
  wants strings; each form the schema asks for, met and missed. A document has
  the defects of one section and beside them at most one of the other section and
  one at the root: a message looks at one place, and a remedy writes one place, or
  two of one section;
  two industry paths and three ICP paths, with every kind of value; two catalog
  entries out of five; four field files and two schemas, each able to be
  unreadable or replaced, over processes with two hash orders. The walks may go 7
  deep (`MaxDepth`) and the deepest document is 6 deep; lists have up to three
  places (`Index`). The three readers share no state and are explored one at a
  time.
* **`deploy`.** Two runs, in all three modes, on a commit and an edit of it. A
  third source or run adds no new pair of steps: every property compares one run
  with what one other run or edit did between two of its steps. The proofs
  remove these bounds altogether.

Deadlock is switched off where the system really stops: a turn that is done, and
a document or a repair that is finished.

### Fairness

* **Turn**: weak fairness of its steps. `handle_turn` is a call on its own thread
  that waits for nothing but the model, and the SDK client gives up on a request
  after its default timeout, which surfaces as an exception (`ModelRaises`).
* **Session**: weak fairness of running and delivering a turn, of closing its
  stream, of executing a tool call and of sending its result back for an answer;
  nothing is assumed of the operator. The gateway's retry after a cut is an
  assumption about another program; without it `ResultIsAnswered` would fail.
* **Server**: weak fairness of the pool (`Grant`), of each turn's own work and of
  answering a health check that has its thread; of the provider only for the
  turns outside `Hanging`. `service` has one hanging turn on two threads: with as
  many hanging calls as threads no promise can hold, and the code makes none.
* **Documents**: weak fairness of repairing. The model is a language model and
  promises nothing, so `RepairsEnd` is a statement about the messages: whoever goes
  on doing what they say gets through. Which issue is taken next, and by which of its
  remedies, is open.
* **Deploy**: the administrator and both permissions arrive, a run takes its next
  step, somebody starts a deployment with the role's ARN again and again (strong,
  because a start is only possible between runs), and from some time on nobody
  kills a run. `pc = "died"` keeps a killed run apart from one that ended blocked.

## Findings

Each is a sentence of the repository that the code does not live up to, with a
run whose counterexample shows it. `PROJECT.json` quotes the sentences.

1. **`decline`.** When the library has a match, the kickoff seeds no skeleton
   (`runtime.py:140`), and a declined match never gets one: sections are written
   into `{}`, and the root keys the tool gate requires can never appear.
2. **`two_terminals`.** The prompt is rendered after RUN_FINISHED within the same
   `try`, so a contract that does not load appends RUN_ERROR behind it.
3. **`cost`.** Cost travels with the returned decision, so a `decide` that raises
   after its calls were billed is billed to nobody.
4. **`test_run`.** Nothing but the prompt keeps a test run back until every
   section is accepted.
5. **`repair`.** The section gate judges the whole config, so in a skill saved
   before a check was added two faulty sections block each other's repair.
6. **`raw_500`.** `get_chat_model` is a dependency: when the client cannot be
   constructed, no handler exists to turn that into a RUN_ERROR.
7. **`late_vertical`.** The opener asks for the vertical and promises to check the
   library with it; a vertical that arrives later is recorded and never checked.

Smaller observations met while modelling, none of them checked by a run:

* `_collect_stray_refs` does not descend below a dict that has `context_ref`; its
  docstring speaks of every ref. The model walks as the code does.
* The comment of the pinned contract (`stubs/context_field_keys.json`) wants the
  *exact* reference at each enforced position; the lint accepts any published key.
* An organisation name with brackets enters the config's name verbatim
  (`draft.py:156`), blocks every tool gate, names no section to repair, and no
  section write can remove it. `PhaseNamesDefect` states the part that holds.
* The opener says "none found" also when only the lead type is unknown, or when
  the vertical is white space (`runtime.py:169`).
* The prompt says never to author a `default` (`prompt.py:538-542`); the lint's
  message offers to keep one (`org_coupling.py:93-95`). Every check accepts
  both: a default the schema refused would send a literal round for ever, from
  the lint's binding to the schema's list and back, which is how `RepairsEnd` is
  mutated.
* The message of an inline reference asks for an object binding
  (`authoring_placeholders.py:88-100`), and the test of it puts the defect in a
  query (`test_skill_builder_authoring_placeholders.py:16-39`). The schema wants a
  string there, so the remedy done to the letter is refused by the next check and
  costs another round; the same happens to the message's object, and to the bracket
  message's "or bind it to a context field", in an item of a literal list or in the
  name. The repair still ends, because a wrong type is then answered with a value
  that has no hole (`RepairsEnd`). No count of issues falls at every step.
* White space or a number at an earlier ICP path hides what later paths hold;
  `IcpIsReported` excludes just that.
* A phase that points below a section is written without the seeded knob, so
  `SectionsAreNormal` speaks of phases that name a whole section.
* The shapes layer does not expand a reference below the single-`allOf` idiom, and
  a forbidden key directly under a section is not flagged; the pinned schema has
  no such key.

## Proofs

Every theorem is checked by TLAPS for all values of the constants. The
assumptions are the `ASSUME`s of the modules, and TLC evaluates each of them in
every run that extends its module: in `DraftConfig` section names are distinct and none is the
name of an absent value, `SectionOf` and `SlugOf` are total, inputs, decisions,
responses, openings and contexts are well typed, a build opens without a document
(`BuildsAssumption`), bounds are numbers, runs use known sources and modes; a path
of the customer's blob holds a text, a structure, another type or nothing, and a
catalog entry that can be read has a slug that can be compared
(`LibraryAssumption`); no contract file looks like the mark of one that cannot be
read (`FilesAssumption`), no field name occurs twice (`KeyOrderAssumption`), and
every schema is as well formed as the pinned one (`SchemaAssumption`, see below),
a schema's rules have samples they accept (`LintSchemaAssumption`);
no section is named like a list's place, a binding's marker or no section, and the
places of a list have different names (`LintNamesAssumption`), an enforced or
reserved position lies in a section (`PositionsAssumption`), and the walks reach at
least the four steps of a reserved position (`DepthAssumption`).

| Module | Results | Assumes beyond the types |
|---|---|---|
| `TurnProofs` | `GateIsSound`, `SectionGateIsSound`, `SectionBodyIsNormal` of the document; `TurnInvHolds`; `TypeOK`, `ToolCallsAreReady`, `UsageIsBilled`, `SectionsAreNormal` always; `OneTerminal` when no contract load raises | `ContractsSound` for `OneTerminal` only |
| `FrameProofs` | `FrameInvHolds`; `RepairIsNamed` | - |
| `StreamProofs` | `CopyInvHolds`; `DeltasReplay`, `ProposalsAreClean`, `ToolCallsMatchGateway`, `VerticalIsAuthoritative`, `EditKeepsSkill`, `FailedTurnKeepsSections`, and that every stream implements `AguiStream` (`StreamSafety`) | `ContractsSound` for `StreamSafety` only |
| `SessionProofs` | `SessionInvHolds`; `SessionTypeOK`, `RowIsProposable`, `SlugNamesVertical`, `SkillIsReady`, `FinalizedIsTrue`, and the action property `WorkIsKept`; `SessionCopyHolds`, and with it `FailedTurnKeepsSections` of every turn of a session; `HandoverInvHolds`, and with it that a session implements `Builder` (`SessionIsBuilder`) | `BuildsAssumption` |
| `ServerProofs` | `ServerInvHolds`; `ServerTypeOK`, `ClientIsShared`, `GivesUpInTime`, and that the calls of the server implement `ChatModel` (`DecidesAsPromised`) | - |
| `DeployProofs` | `DeployInvHolds`; `DeployTypeOK`, `RuntimeCanStart`, `StampIsTrue`, `ArnIsKept`, `CheckIsReadOnly` | - |
| `DocumentProofs` | `LibraryTypeOK`, `VerdictIsTrue`, `IcpIsReported`; `PromptInvHolds`, `TaughtIsEnforced`, `PrefixIsStable`, `ShapesAreTaught` | `LibraryAssumption`; `FilesAssumption`, `SchemaAssumption` |
| `LintProofs` | `LintsSound` (`LintsAreExact`), `PhaseIsSound` (`PhaseNamesDefect`) | `LintNamesAssumption`, `PositionsAssumption`, `DepthAssumption` |

**Documents written.** The first lemmas of `TurnProofs` say what each write keeps well formed
and what an empty list of issues means about the config. They are what lets the
state machines speak of `Ready` and `Proposable` documents instead of issues.

**A turn.** None of the stream properties is inductive: after RUN_FINISHED the
next handler may still append, and nothing in the property says which handler can
run then. `TurnInv` adds two parts. `Accounts` ties `usage`, `spent` and
`decision` to the control point. `EventsInv` describes the whole stream at each
control point: an opening (RUN_STARTED and perhaps the delta of a vertical) before
the decision is applied, and afterwards a sequence in which every event was judged
by its gate. Each handler ends in one append, so a step needs only that what it
appends is `Final`, and that the opening before it is `Inert`. `OneTerminal` needs
`ContractsSound`: the run `two_terminals` is its counterexample otherwise.

**Frames.** A gateway that gets only a prefix of a stream has only the frames to
go by, so the session needs more than the turn's invariant says: `FrameInv` adds
what a single frame means for the turn it belongs to (`Meant`), that a tool call
ends right behind its argument (`CallsClose`), that a delta is a section write or,
in second place, the recorded vertical, and by which way a turn comes to each
handler (`FlowInv`).

**The gateway's copy.** `GatewayCopy` reads the whole stream again in every state,
so what a step does to it has to come from what it appends. `Receives` is a
recursive *function* on `0 .. Len(events)`; its defining equation, and that reading
two streams one after the other is reading their concatenation (`ReceivesConcat`),
are proved by induction in the form the provers can use: the least number of a set
of counterexamples (`NatSets`), with the set written out in place of the operator
that the library's induction theorems ask for. `Leads(a, s, b)` then says of any
frames `s` that they take a gateway from `a` to `b` and that each proposal and each
tool call among them is what the copy held at that frame; every emitter method gets one such
lemma, and they concatenate (`LeadsConcat`). `CopyInv` states at each control point where
the gateway stands in the stream and that its copy is the draft. It needs what
happens *between*: that before the decision is applied the draft is the input's,
that an edit's draft keeps slug and knobs (`Kept`), and that there is one failure
after which draft and copy differ: a build's kickoff that crashed over its own
skeleton (`Abandoned`); that the copy then still is the row the turn started
from is what `FailedTurnKeepsSections` asks. `StreamSafety` follows from the stage
in `CopyInv`, with a step lemma for each stage, if contracts load: otherwise
RUN_ERROR may follow RUN_FINISHED (run `two_terminals`). `CopyInv` is carried
through a session by the same step lemmas, since a session's next turn begins
exactly as `Spec`'s first one.

**A session.** `SessionInv` is `TurnInv`, `FrameInv` and `RowInv`. The four
properties of the row need each other and three links. `TurnLink`: until a second
frame arrives the row is the one the turn was computed from, so the slug that a
delta leaves alone is the one it was compared with; a kickoff runs over a row
without sections, so its snapshot overwrites nothing, and the operator cannot
settle anything meanwhile; once the skill is made, turns only answer a tool
result, and such a turn sends no document. `RestLink`: frames are sent only of a
turn that is over, and nothing of a turn remains after it, cut or not.
`GatewayLink`: without an assistant message a build has no section, a finalize
that succeeded left a skill, and an outstanding call asks for a config that was
ready. The number of turns, cuts, sections and verticals is arbitrary.

**The handover.** That a session implements `Builder` does not follow from
`SessionInv`: it says that an outstanding call asks for a config that *was* ready,
not that the row still is that config. Two things keep it so. `CallInv` is about
one turn: a complete tool call is followed by RUN_FINISHED and by nothing else,
contract loads that raise included, since the handler that requests a tool renders
no prompt behind it; so once a call is out, no later frame of its stream writes. `HandoverInv` is about the session: while a turn
is live the row is what a gateway that applied the frames sent so far has
(`CopyAfter(sent)`, tied to the draft by `CopyInv`), so that the call's argument is
the row at that frame; a waiting call's config is the row's; a turn that answers a
tool result asks for nothing; and nothing is asked for once the skill is made.
`SessionStepHandover` carries it through each action, cuts and retries included,
and `HandoverSteps` maps each step of a session to a step of `Builder` or a
stutter. It needs no assumption on the operator beyond those of `Session`.

**The lints.** `LintsAreExact` compares two descriptions of a document that have
nothing in common: what a walk of the tree reports, spelled as text, and the places
that break a rule, taken one by one. `PathsOfLevels` and `WalkVisits` say, by
induction on the depth, that a walk visits exactly the places with no binding
strictly above them, each with the node that is there (`AtNext`: a step further
down is a child). `LocationReads` says, by induction on the prefix of a path, that
a location in each of the three spellings reads back as its path, whatever the
labels are; so no two places share a location, and a stray binding the position
pass has already reported is not lost or doubled. The coupling lint is then
compared place by place, `OrgCouplingFound` for what it reports and
`OrgCouplingMissed` for what it could miss. `PhaseIsSound` adds `HeadOfLocation`
(the head of a location that names a section is the path's first step, in each
spelling), and two directions: every issue of a section is due to a defect in it
(`BlameIsDue`), and a defect in a section is blamed by some pass
(`DefectIsBlamed`), so "no section" is said only when no section has one. Nothing is
assumed of the documents: a config may be any value, as long as the walks' depth is
finite.

**The server.** `ServerInv` joins `ClientInv` (a billed call is one of `MaxCalls`,
and what is reported is what was billed), `StageInv` (what a request holds at each
stage), `QueueInv` (the queue holds, once each, only those that wait for a thread)
and `CountInv`: threads are not over-committed, and the clients built plus the
threads about to build one are at most the threads, since a thread that saw no
singleton is in the constructor or about to assign. That count is what makes
`ClientIsShared` inductive. Its step lemma is one per action; the refinement maps
each step of `Server` to a step or a stutter of the abstract call of each turn.

**The deployment.** `DeployInv` is `RuntimeCanStart` and `StampIsTrue` with what a
run has to know to keep them when it writes. `JobInv` says per run that what its
locals remember (the repository, the role, a pushed tag) is still so at each later
step, whatever other runs did since; `StillInv` says what the locals amount to as
long as nobody edited the tree or moved the tag, which is the only case in which a
stamp can name its source.

**Documents read.** `VerdictIsTrue` and `IcpIsReported` need nothing of the history
but the types: the first path that holds anything and the first hit of a sorted
catalog are minima of sets of positions, and `LeastNat` says that they exist for
lists of any length. For the prompt, `PromptInv` adds what the two files in the cache
have to do with the prompt: the file it was composed from is the one the lint of
the same turn will load, because a cached file is never read again, and a prefix,
also the one remembered from another process, is the function `Prefix` of files and
customer. `PrefixIsStable` is then an equality of two applications, since the keys
are sorted before they are rendered; `TaughtIsEnforced` is that a loader that
returns has returned the whole file. `ShapesAreTaught` compares the
lines the walk prints with the paths the schema declares. The schema may refer to
itself, so there is no induction over it: the walk is bounded at three keys, and the
lemmas `TaughtKeys` and `DeclaresKeys` reduce both sides to the same statement for
paths of one, two and three keys.

It holds of the schemas that are `WellFormed`. Three clauses of that are limits of
the walk that the pinned schema (`stubs/config_schema.json`) respects: a forbidden
key directly under a section would be taught as authorable, a reference inside the
single-`allOf` idiom is not expanded, and a map of a referenced type is read as the
reference. A schema that breaks one of them would be taught wrongly, and nothing in
the code would say so.

Only model-checked, not proved:

* liveness (`StreamTerminates`, `ResultIsAnswered`, `ProbesAreAnswered`,
  `TurnsAreIndependent`, `RerunFinishes`, `RepairsEnd`): outside the prover's reach.

## Not modelled

* **The JSON-schema evaluation.** A library; its verdict is the fault `schema` in
  `DraftConfig`, and in `Lints` the types, bindings and forbidden keys of the places
  its documents use. The wording
  helpers `_shape_hint` and `_owning_description` shape messages only.
* **Text**: the prompt's instruction layers, notes and budgets, the fence around
  customer text, `_to_anthropic_messages`, ids, logging, event encoding.
* **The SDK** below `messages.create`: its timeout and retries.
* **Settings**: environment variables read once. The build version among them is
  in `Deploy`.
* **Contract stubs**: data. Their shapes are what `Prompt` and `DraftConfig` stand
  for.
* **Smoke, access and documentation scripts**: command-line probes and a static
  check, no part of the runtime.

## What is left

* A section accepted on one turn and rewritten on a later one keeps its flag
  (`runtime.py:593`). Whether the code owes the operator a reset is not decided
  in it, so it is listed as a hazard without a property.
* That repairs end for every document and schema. It is liveness; its safety half
  would be a weight that every remedy lowers, a hole weighing more than a wrong type
  and a wrong type more than a literal or an unknown reference, and that is an
  induction over the tree a remedy replaces.
* A key that contains a separator (`a.b`) makes two places share a location; the
  lint then takes a stray binding at one for a report already made at the other
  (`org_coupling.py:180-182`). The pinned schema has no such key, and `Lints` does
  not model it.
