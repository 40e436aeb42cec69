------------------------------- MODULE Prompt -------------------------------
(***************************************************************************)
(* The contract files, the vocabulary they publish, and the two readers    *)
(* that must agree on it: the prompt that teaches it (prompt.py) and the   *)
(* lint that enforces it (org_coupling.py), through the loaders of         *)
(* contracts.py.  A file is read once per process; a deployment may        *)
(* replace it under a running one.                                         *)
(***************************************************************************)
EXTENDS Naturals, Sequences, FiniteSets, SequencesExt, Functions

CONSTANTS
  FieldFiles,   \* what context_field_keys.json may hold
  SchemaFiles,  \* what config_schema.json may hold
  KeyOrder,     \* every context field's name, in alphabetical order
  Shaped,       \* _SHAPED_SECTIONS
  Blobs,        \* the customer contexts
  Tasks         \* the per-turn instructions

VARIABLES
  disk,      \* the two files as they are
  cached,    \* _load_json's lru_cache
  hash,      \* this process's iteration order of a frozenset
  prompt,    \* the composed prompt of the turn, or NoPrompt
  before,    \* the prefix composed before it, of whatever process, and of what
  enforced   \* the vocabulary the turn's lint ran with, or NoRules

promptVars == <<disk, cached, hash, prompt, before, enforced>>

Unreadable == [readable |-> FALSE]
NotLoaded  == [loaded |-> FALSE]
Raised     == [ok |-> FALSE]
Returned(value) == [ok |-> TRUE, value |-> value]

ASSUME KeyOrderAssumption == \A i, j \in DOMAIN KeyOrder : KeyOrder[i] = KeyOrder[j] => i = j

ASSUME FilesAssumption ==
  /\ FieldFiles \cap {Unreadable, NotLoaded} = {}
  /\ SchemaFiles \cap {Unreadable, NotLoaded} = {}

----------------------------------------------------------------------------
(* contracts.py: a loader returns every rule of the file, or raises.       *)

(* The value of key_list or keys: an array, a map, another type, absent.   *)
ContextFieldKeys(file) ==
  LET keys == IF file.key_list.form # "absent" THEN file.key_list ELSE file.keys
  IN  IF keys.form \in {"list", "map"} /\ keys.names # {}
      THEN Returned(keys.names) ELSE Raised

ConfigPositions(file) ==
  IF file.config_positions.form = "list" /\ file.config_positions.entries # {}
       /\ \A e \in file.config_positions.entries : e.whole
  THEN Returned(file.config_positions.entries)
  ELSE Raised

(* An absent block is legitimate, an entry that cannot be read is not.     *)
RuntimePopulated(file) ==
  IF file.runtime_populated.form = "absent" THEN Returned({})
  ELSE IF file.runtime_populated.form = "list"
            /\ \A e \in file.runtime_populated.entries :
                 e.whole /\ e.pattern = "<collection>.*.<leaf>"
  THEN Returned(file.runtime_populated.entries)
  ELSE Raised

Rules(file) == [keys      |-> ContextFieldKeys(file),
                positions |-> ConfigPositions(file),
                reserved  |-> RuntimePopulated(file)]
NoRules == [keys |-> Raised, positions |-> Raised, reserved |-> Raised]

Sound(rules) == rules.keys.ok /\ rules.positions.ok /\ rules.reserved.ok

----------------------------------------------------------------------------
(* prompt.py: the shapes of the sections, from the schema.                 *)

(* A subschema: a reference into $defs (`ref`, also when wrapped in the    *)
(* one-element allOf), a map of name to subschema (`each`), or a type with *)
(* properties; `forbidden` is `not: {}`.                                   *)
NoRef == "none"

Deref(schema, name) ==
  IF name \in DOMAIN schema.defs THEN schema.defs[name].props ELSE <<>>

(* The properties below a node; nothing is expanded below an allOf.        *)
PropsBelow(schema, node) ==
  IF node.ref # NoRef THEN IF node.wrapped THEN <<>> ELSE Deref(schema, node.ref)
  ELSE IF node.each # <<>> THEN
         LET inner == node.each[1]
         IN  IF inner.ref # NoRef THEN Deref(schema, inner.ref) ELSE inner.props
  ELSE IF node.type = "object" THEN node.props ELSE <<>>

(* A property's hint: the binding, what is required and forbidden of an    *)
(* object, or a type's name.                                               *)
TypeHint(schema, node) ==
  IF node.ref = "boundStringList" THEN "binding or list"
  ELSE IF node.ref # NoRef THEN "object"
  ELSE IF node.each # <<>> THEN "map" ELSE node.type

Line(path, key, flag, hint) ==
  [path |-> Append(path, key), flag |-> flag, hint |-> hint]

(* The keys listed below a node; a binding is explained elsewhere.         *)
KeysBelow(schema, node) ==
  LET keys == DOMAIN PropsBelow(schema, node)
  IN  IF "context_ref" \in keys THEN {} ELSE keys

KeyLines(schema, node, path) ==
  LET props == PropsBelow(schema, node)
  IN  {Line(path, k, IF props[k].forbidden THEN "never" ELSE "key", TypeHint(schema, props[k])) :
         k \in KeysBelow(schema, node)}

(* Mutant: the walk descends into a key it has just forbidden.             *)
NestedLinesIntoForbidden(schema, node, path) ==
  LET props == PropsBelow(schema, node)
  IN  KeyLines(schema, node, path)
        \cup UNION {KeyLines(schema, props[k], Append(path, k)) : k \in KeysBelow(schema, node)}

(* _MAX_NESTING_DEPTH is 2: the keys of a node, and of those not forbidden *)
(* theirs.                                                                 *)
NestedLines(schema, node, path) ==
  LET props == PropsBelow(schema, node)
      open  == {k \in KeysBelow(schema, node) : ~props[k].forbidden}
  IN  KeyLines(schema, node, path)
        \cup UNION {KeyLines(schema, props[k], Append(path, k)) : k \in open}

(* A section's own keys and the two levels below them; a malformed section *)
(* gets one closed line.                                                   *)
SectionLines(schema, s) ==
  IF schema.sections[s].form = "malformed"
  THEN {Line(<<>>, s, "unavailable", "none")}
  ELSE LET props == schema.sections[s].props
       IN  {Line(<<s>>, k, "key", TypeHint(schema, props[k])) : k \in DOMAIN props}
             \cup UNION {NestedLines(schema, props[k], <<s, k>>) :
                           k \in DOMAIN props}

Unratified(schema, s) ==
  \/ schema.sections[s].form = "absent"
  \/ schema.sections[s].form = "object" /\ DOMAIN schema.sections[s].props = {}

(* _UNRATIFIED_SECTION_KNOBS is empty: a section without internals raises, *)
(* and so does a schema in which no section declares any.                  *)
SectionShapes(schema) ==
  IF \/ \E s \in Shaped : Unratified(schema, s)
     \/ \A s \in Shaped : schema.sections[s].form # "object"
  THEN Raised
  ELSE Returned(UNION {SectionLines(schema, s) : s \in Shaped})

----------------------------------------------------------------------------
(* compose and split.                                                      *)

(* Mutant: the keys as the set yields them.                                *)
KeysAsIterated(keys) == SelectSeq(hash, LAMBDA k : k \in keys)

SortedKeys(keys) == SelectSeq(KeyOrder, LAMBDA k : k \in keys)

(* The task and the tools come after the five layers the cache holds.      *)
Prefix(files, blob) ==
  LET rules == Rules(files.fields)
  IN  <<blob, SortedKeys(rules.keys.value), rules.positions, rules.reserved,
        SectionShapes(files.schema).value>>

Compose(files, blob, task) ==
  LET rules == Rules(files.fields)
  IN  IF ~Sound(rules) \/ ~SectionShapes(files.schema).ok THEN Raised
      ELSE [prefix |-> Prefix(files, blob), suffix |-> task,
            blob |-> blob, files |-> files, rules |-> rules]

NoPrompt == [none |-> TRUE]
Composed(p) == p \notin {NoPrompt, Raised}

----------------------------------------------------------------------------
(* The process.                                                            *)

(* Mutant: the file is read whenever it is asked for.                      *)
LoadAfresh(name) == disk[name]

(* _load_json: what was read once, or the file; an error is not cached.    *)
Load(name) == IF cached[name] = NotLoaded THEN disk[name] ELSE cached[name]

Cache(names) ==
  cached' = [n \in DOMAIN cached |->
               IF n \in names /\ Load(n) # Unreadable THEN Load(n) ELSE cached[n]]

(* What the provider's cache saw last.                                     *)
Remember ==
  before' = IF Composed(prompt)
            THEN [blob |-> prompt.blob, files |-> prompt.files, prefix |-> prompt.prefix]
            ELSE before

(* A turn composes its prompt, or fails.                                   *)
ComposeTurn ==
  /\ \E blob \in Blobs, task \in Tasks :
       LET files == [fields |-> Load("fields"), schema |-> Load("schema")]
       IN  prompt' = IF Unreadable \in {files.fields, files.schema} THEN Raised
                     ELSE Compose(files, blob, task)
  /\ Cache({"fields", "schema"})
  /\ Remember
  /\ enforced' = NoRules
  /\ UNCHANGED <<disk, hash>>

(* The same turn lints the section the model proposed on that prompt.      *)
LintTurn ==
  /\ Composed(prompt) /\ enforced = NoRules
  /\ Load("fields") # Unreadable
  /\ enforced' = Rules(Load("fields"))
  /\ Cache({"fields"})
  /\ UNCHANGED <<disk, hash, prompt, before>>

Repin ==
  /\ disk' \in [fields : FieldFiles \cup {Unreadable}, schema : SchemaFiles]
  /\ UNCHANGED <<cached, hash, prompt, before, enforced>>

Orders == {KeyOrder, Reverse(KeyOrder)}

(* A new process: nothing is cached, and sets iterate in another order.    *)
Restart ==
  /\ cached' = [n \in DOMAIN cached |-> NotLoaded]
  /\ hash' \in Orders
  /\ Remember
  /\ prompt' = NoPrompt
  /\ enforced' = NoRules
  /\ UNCHANGED disk

PromptNext == ComposeTurn \/ LintTurn \/ Repin \/ Restart

PromptInit ==
  /\ disk \in [fields : FieldFiles, schema : SchemaFiles]
  /\ cached = [n \in {"fields", "schema"} |-> NotLoaded]
  /\ hash = KeyOrder
  /\ prompt = NoPrompt /\ before = NoPrompt /\ enforced = NoRules

PromptSpec == PromptInit /\ [][PromptNext]_promptVars

----------------------------------------------------------------------------
(* What the prompt promises.                                               *)

Complete(file, rules) ==
  /\ rules.keys = Returned((IF file.key_list.form # "absent"
                            THEN file.key_list ELSE file.keys).names)
  /\ rules.positions = Returned(file.config_positions.entries)
  /\ rules.reserved = Returned(IF file.runtime_populated.form # "absent"
                                THEN file.runtime_populated.entries ELSE {})

(* What the prompt taught is what the lint of that turn judges by, even    *)
(* when the file was replaced between the two, and it is every rule the    *)
(* file holds: one that cannot be read stops the turn instead of getting   *)
(* lost (contracts.py:24-29, 47-201; prompt.py:496-560).                   *)
TaughtIsEnforced ==
  (Composed(prompt) /\ enforced # NoRules) =>
    /\ enforced = prompt.rules
    /\ Complete(prompt.files.fields, enforced)

(* The cached prefix of a prompt is the same to the byte on the next turn  *)
(* and in the next process, whatever the task, as long as the customer's   *)
(* context and the files are (prompt.py:115-125, 513-525).                 *)
PrefixIsStable ==
  (/\ Composed(prompt) /\ Composed(before)
   /\ prompt.blob = before.blob /\ prompt.files = before.files)
    => prompt.prefix = before.prefix

(* The properties the schema gives a node, its own or those of the         *)
(* definition it, or each entry of its map, refers to.                     *)
Properties(schema, node) ==
  LET inner == IF node.each # <<>> THEN node.each[1] ELSE node
  IN  IF inner.ref # NoRef THEN Deref(schema, inner.ref) ELSE inner.props

(* The nodes on a path, key by key.                                        *)
NodesOn(schema, node, path) ==
  LET at[n \in 0 .. Len(path)] ==
        IF n = 0 THEN node ELSE Properties(schema, at[n - 1])[path[n]]
  IN  at

(* A path the model may or must not author: nothing on the way to its last *)
(* key is forbidden or a binding.                                          *)
Declares(schema, node, path) ==
  LET at == NodesOn(schema, node, path)
  IN  \A n \in 1 .. Len(path) :
        LET keys == DOMAIN Properties(schema, at[n - 1])
        IN  /\ path[n] \in keys /\ "context_ref" \notin keys
            /\ n < Len(path) => ~at[n].forbidden

(* A node the walk reads as the schema means it: a reference is no map,    *)
(* one in an allOf leads to no properties or to a binding, and what has    *)
(* properties of its own is an object.                                     *)
Regular(schema, node) ==
  /\ node.ref # NoRef =>
       /\ node.each = <<>>
       /\ node.wrapped => \/ Deref(schema, node.ref) = <<>>
                          \/ "context_ref" \in DOMAIN Deref(schema, node.ref)
  /\ (node.ref = NoRef /\ node.each = <<>> /\ node.type # "object") => node.props = <<>>

(* The schema as it is pinned (stubs/config_schema.json): no section is a  *)
(* binding, none of their own keys is forbidden, and all that is within    *)
(* reach is regular.                                                       *)
WellFormed(schema) ==
  \A s \in Shaped :
    LET section == schema.sections[s]
    IN  /\ section.form \in {"absent", "malformed", "object"}
        /\ section.form = "object" =>
             /\ section.ref = NoRef /\ section.each = <<>>
             /\ "context_ref" \notin DOMAIN section.props
             /\ \A k \in DOMAIN section.props :
                  LET node == section.props[k]
                  IN  /\ ~node.forbidden /\ Regular(schema, node)
                      /\ \A m \in DOMAIN Properties(schema, node) :
                           Regular(schema, Properties(schema, node)[m])

ASSUME SchemaAssumption == \A schema \in SchemaFiles : WellFormed(schema)

NamesIn(lines) == UNION {Range(l.path) : l \in lines}

Below(s, path) == <<s>> \o path

(* The paths of one to three keys below the sections the schema shapes.    *)
KeyPaths(schema, keys) ==
  {Below(s, path) : s \in {t \in Shaped : schema.sections[t].form = "object"},
                    path \in UNION {[1 .. n -> keys] : n \in 1 .. 3}}

Shapes(schema, path) == Declares(schema, schema.sections[path[1]], Tail(path))

ClosedPaths(schema) == {<<s>> : s \in {t \in Shaped : schema.sections[t].form = "malformed"}}

KeysIn(schema) == UNION {DOMAIN schema.defs[d].props : d \in DOMAIN schema.defs}

(* The shapes a composed prompt teaches are those the schema declares, to  *)
(* three keys, no more and no fewer: each once, a forbidden one as such    *)
(* with nothing below it, and a section whose shape is malformed as closed *)
(* (prompt.py:323-495).                                                    *)
ShapesAreTaught ==
  Composed(prompt) =>
    LET lines  == prompt.prefix[5]
        schema == prompt.files.schema
        paths  == KeyPaths(schema, KeysIn(schema) \cup NamesIn(lines))
    IN  /\ {l.path : l \in lines}
             = {p \in paths : Shapes(schema, p)} \cup ClosedPaths(schema)
        /\ \A l, m \in lines : l.path = m.path => l = m
=============================================================================
