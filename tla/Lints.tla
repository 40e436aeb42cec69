------------------------------- MODULE Lints -------------------------------
(***************************************************************************)
(* The two lints and the tool gate's choice of a section, over the nested  *)
(* document they walk: org_coupling.py, authoring_placeholders.py and      *)
(* _phase_from_issues of tools.py.  DraftConfig reduces a section to the   *)
(* checks it fails; this module says when it fails them.                   *)
(*                                                                         *)
(* A document is a tree.  A text says a context field's name or something  *)
(* else, and may have holes: a [bracket] or an inline {context_ref: ...}.  *)
(* A location is the sequence of its tokens, labels and marks, since the   *)
(* three checks spell one place in different ways.                         *)
(***************************************************************************)
EXTENDS Naturals, Sequences, FiniteSets, SequencesExt, Functions

CONSTANTS
  AuthoringSections,   \* PHASES
  ContextKeys,         \* contracts.context_field_keys()
  Positions,           \* contracts.config_positions()
  Reserved,            \* contracts.runtime_populated_positions()
  Schema,              \* contracts.config_schema(), the places it speaks of
  Index,               \* how the places of a list's items are spelled
  Documents,           \* the configs the lints are given
  MaxDepth             \* how deep the walks recurse

VARIABLE config

(* A section is not named like an item, a binding or a missing section.    *)
ASSUME LintNamesAssumption ==
  /\ Index \in Seq(STRING) /\ \A i, j \in DOMAIN Index : Index[i] = Index[j] => i = j
  /\ AuthoringSections \subseteq STRING \ ({"", "None", "context_ref"} \cup Range(Index))
  /\ ContextKeys \subseteq STRING /\ ContextKeys # {}
ASSUME PositionsAssumption ==
  /\ Positions \subseteq
       [section : AuthoringSections, key : STRING, ref : ContextKeys]
  /\ Reserved \subseteq
       [section : AuthoringSections, collection : STRING, leaf : STRING,
        from : ContextKeys]
(* The walks reach the deepest enforced position; Python's own limit is    *)
(* far beyond any config's depth.                                          *)
ASSUME DepthAssumption == MaxDepth \in Nat /\ MaxDepth >= 4

----------------------------------------------------------------------------
(* Documents.                                                              *)

Null          == [kind |-> "null"]
Number        == [kind |-> "number"]
Text(says, holes)  == [kind |-> "text", says |-> says, holes |-> holes]
Blank         == Text("", {})
List(items)   == [kind |-> "list", items |-> items]
Dict(members) == [kind |-> "dict", members |-> members]
Bind(ref)     == Dict([m \in {"context_ref"} |-> ref])
Key(name)     == Text(name, {})

IsBinding(node) == node.kind = "dict" /\ "context_ref" \in DOMAIN node.members

(* The member of a dict or the item of a list, and Null for neither.       *)
Children(node) ==
  CASE node.kind = "dict" -> DOMAIN node.members
    [] node.kind = "list" -> {Index[i] : i \in DOMAIN node.items \cap DOMAIN Index}
    [] OTHER -> {}

Child(node, step) ==
  IF step \notin Children(node) THEN Null
  ELSE IF node.kind = "dict" THEN node.members[step]
  ELSE node.items[CHOOSE i \in DOMAIN Index : Index[i] = step]

(* The node at a path.                                                     *)
At(node, path) ==
  LET at[n \in 0 .. Len(path)] == IF n = 0 THEN node ELSE Child(at[n - 1], path[n])
  IN  at[Len(path)]

(* Mutant: the walk goes through dicts only.                               *)
EnteredDicts(node, into) ==
  IF node.kind = "list" \/ (~into /\ IsBinding(node)) THEN {} ELSE Children(node)

(* The steps a walk takes from a node; `into` says whether it descends     *)
(* into a binding's own members.                                           *)
Entered(node, into) == IF ~into /\ IsBinding(node) THEN {} ELSE Children(node)

(* Every node a recursive walk visits, with the path it carries along.     *)
Walk(doc, into) ==
  LET root == [path |-> <<>>, node |-> doc]
      visited[n \in 0 .. MaxDepth] ==
        IF n = 0 THEN {root}
        ELSE {root} \cup UNION {{[path |-> Append(v.path, s), node |-> Child(v.node, s)] :
                                   s \in Entered(v.node, into)} : v \in visited[n - 1]}
  IN  visited[MaxDepth]

----------------------------------------------------------------------------
(* Locations.                                                              *)

Mark(text)  == [mark |-> TRUE, text |-> text]
Label(text) == [mark |-> FALSE, text |-> text]

(* What the last of n steps adds: "/a/b/0", "a.b[0]" or "a.b.0".           *)
Part(doc, spelling, path, n) ==
  CASE spelling = "slashed" -> <<Mark("/"), Label(path[n])>>
    [] spelling = "bracketed" /\ At(doc, SubSeq(path, 1, n - 1)).kind = "list" ->
         <<Mark("["), Label(path[n]), Mark("]")>>
    [] OTHER -> IF n = 1 THEN <<Label(path[n])>> ELSE <<Mark("."), Label(path[n])>>

Location(doc, spelling, path) ==
  LET parts[n \in 0 .. Len(path)] ==
        IF n = 0 THEN <<>> ELSE parts[n - 1] \o Part(doc, spelling, path, n)
  IN  IF spelling = "slashed" /\ path = <<>> THEN <<Mark("/")>> ELSE parts[Len(path)]

(* The names in a location.                                                *)
PathOf(location) ==
  LET names[n \in 0 .. Len(location)] ==
        IF n = 0 THEN <<>>
        ELSE IF location[n].mark THEN names[n - 1]
        ELSE Append(names[n - 1], location[n].text)
  IN  names[Len(location)]

----------------------------------------------------------------------------
(* org_coupling.py                                                         *)

Issue(rule, location) == [rule |-> rule, location |-> location]

(* An empty dict is deliberately not empty.                                *)
IsEmpty(node) ==
  \/ node.kind = "null"
  \/ node.kind = "list" /\ node.items = <<>>
  \/ node.kind = "text" /\ node.says = ""

RefResolves(binding) ==
  LET ref == binding.members["context_ref"]
  IN  ref.kind = "text" /\ ref.says \in ContextKeys

Dotted(doc, path) == Location(doc, "dotted", path)

PositionIssues(doc) ==
  UNION {LET path  == <<p.section, p.key>>
             value == At(doc, path)
         IN  IF Child(doc, p.section).kind # "dict" \/ IsEmpty(value) THEN {}
             ELSE IF ~IsBinding(value) THEN {Issue("literal", Dotted(doc, path))}
             ELSE IF ~RefResolves(value)
             THEN {Issue("unknown", Dotted(doc, Append(path, "context_ref")))}
             ELSE {} :
         p \in Positions}

(* Neither a literal nor a binding: the scan runtime fills the leaf.       *)
ReservedIssues(doc) ==
  UNION {LET entries == At(doc, <<p.section, p.collection>>)
             authored == {e \in Children(entries) :
                            /\ Child(doc, p.section).kind = "dict"
                            /\ entries.kind = "dict" /\ Child(entries, e).kind = "dict"
                            /\ ~IsEmpty(Child(Child(entries, e), p.leaf))}
         IN  {Issue("reserved", Dotted(doc, <<p.section, p.collection, e, p.leaf>>)) :
                e \in authored} :
         p \in Reserved}

(* Every binding that does not resolve; a binding's own members are not    *)
(* walked.  One the position pass reported has the same location, and is   *)
(* not repeated.                                                           *)
StrayRefs(doc) ==
  {Issue("unknown", Dotted(doc, Append(v.path, "context_ref"))) :
     v \in {w \in Walk(doc, FALSE) : IsBinding(w.node) /\ ~RefResolves(w.node)}}

LintOrgCoupling(doc) ==
  PositionIssues(doc) \cup ReservedIssues(doc) \cup StrayRefs(doc)

----------------------------------------------------------------------------
(* authoring_placeholders.py                                               *)

(* A string with both kinds of hole has two issues.                        *)
LintAuthoringPlaceholders(doc) ==
  UNION {{Issue(h, Location(doc, "bracketed", v.path)) : h \in v.node.holes} :
           v \in {w \in Walk(doc, TRUE) : w.node.kind = "text"}}

----------------------------------------------------------------------------
(* The tool gate: validator.py's issues, then R12's, then the placeholders.*)

(* What the schema asks of a place: $defs/contextRef and boundStringList,  *)
(* a type, one with something in it, or `not: {}`.                         *)
Forms == {"text", "list", "dict", "map", "bound", "nothing"}

(* Mutant: the contract has no default beside a context_ref.               *)
IsBareRef(node) ==
  /\ IsBinding(node) /\ DOMAIN node.members = {"context_ref"}
  /\ node.members["context_ref"].kind = "text"

IsContextRef(node) ==
  /\ IsBinding(node) /\ DOMAIN node.members \subseteq {"context_ref", "default"}
  /\ node.members["context_ref"].kind = "text"

IsTextList(node) ==
  node.kind = "list" /\ \A i \in DOMAIN node.items : node.items[i].kind = "text"

Accepts(form, node) ==
  CASE form = "text"    -> node.kind = "text"
    [] form = "list"    -> node.kind = "list" /\ node.items # <<>>
    [] form = "dict"    -> node.kind = "dict"
    [] form = "map"     -> node.kind = "dict" /\ DOMAIN node.members # {}
    [] form = "bound"   -> IsContextRef(node) \/ IsTextList(node)
    [] form = "nothing" -> FALSE

(* A rule's samples are what a model that is told of the misfit writes.    *)
ASSUME LintSchemaAssumption ==
  \A r \in Schema : /\ r.place \in Seq(STRING) /\ r.form \in Forms
                    /\ \A sample \in r.samples : Accepts(r.form, sample)

(* A place of the schema holds for a path: * is any member of a dict, # any *)
(* item of a list.  What stands below a value of another type is not judged.*)
Covers(doc, path, place) ==
  /\ Len(path) = Len(place)
  /\ \A n \in DOMAIN place :
       LET above == At(doc, SubSeq(path, 1, n - 1)).kind
       IN  \/ path[n] = place[n]
           \/ place[n] = "*" /\ above = "dict"
           \/ place[n] = "#" /\ above = "list"

RulesFor(doc, path) == {r \in Schema : Covers(doc, path, r.place)}

Misfit(doc, path) == \E r \in RulesFor(doc, path) : ~Accepts(r.form, At(doc, path))

(* The schema library's errors of type, at _location: what `required` asks *)
(* for is left to DraftConfig, ranges and enumerations are left out.       *)
TypeErrors(doc) ==
  {Issue("type", Location(doc, "slashed", v.path)) :
     v \in {w \in Walk(doc, TRUE) : Misfit(doc, w.path)}}

GatePasses(doc) ==
  <<TypeErrors(doc), LintOrgCoupling(doc), LintAuthoringPlaceholders(doc)>>

GateIssues(doc) == UNION Range(GatePasses(doc))

NameAt(location, n) ==
  IF n > Len(location) \/ location[n].mark THEN "" ELSE location[n].text

(* Mutant: the schema's own spelling is not stripped.                      *)
HeadAsSpelled(location) == NameAt(location, 1)

(* lstrip("/"), then what is before the first separator.                   *)
HeadOf(location) ==
  NameAt(location, IF location # <<>> /\ location[1] = Mark("/") THEN 2 ELSE 1)

SectionsNamed(issues) == {HeadOf(i.location) : i \in issues} \cap AuthoringSections

NoSection == "None"

(* _phase_from_issues: the first issue that names a section; the order     *)
(* inside one list is left open.                                           *)
PhaseFromIssues(passes) ==
  LET naming == {n \in DOMAIN passes : SectionsNamed(passes[n]) # {}}
  IN  IF naming = {} THEN {NoSection}
      ELSE SectionsNamed(passes[CHOOSE n \in naming : \A m \in naming : n <= m])

----------------------------------------------------------------------------
(* What each message tells the model to do, done to the letter.            *)

(* The node with one member or item replaced.                              *)
With(node, step, below) ==
  IF node.kind = "list"
  THEN List([i \in DOMAIN node.items |-> IF Index[i] = step THEN below ELSE node.items[i]])
  ELSE Dict([m \in DOMAIN node.members \cup {step} |->
               IF m = step THEN below ELSE node.members[m]])

Put(node, path, value) ==
  LET rebuilt[n \in 0 .. Len(path)] ==
        IF n = Len(path) THEN value
        ELSE With(At(node, SubSeq(path, 1, n)), path[n + 1], rebuilt[n + 1])
  IN  rebuilt[0]

Omit(node, path) ==
  LET holder == At(node, Front(path))
  IN  Put(node, Front(path),
          Dict([m \in DOMAIN holder.members \ {Last(path)} |-> holder.members[m]]))

(* "Replace it with {context_ref}, optionally keeping the current value as *)
(* an adjacent default."                                                   *)
BindRemedies(doc, path) ==
  {Put(doc, path, binding) :
     binding \in UNION {{Bind(Key(p.ref)),
                         Dict([m \in {"context_ref", "default"} |->
                                 IF m = "default" THEN At(doc, path) ELSE Key(p.ref)])} :
                        p \in {q \in Positions : <<q.section, q.key>> = path}}}

(* "Author <from> as a binding instead and omit this field."               *)
ReservedRemedies(doc, path) ==
  {Put(Omit(doc, path), <<p.section, p.from>>, Bind(Key(p.from))) :
     p \in {q \in Reserved : <<q.section, q.collection, q.leaf>>
                               = <<path[1], path[2], path[4]>>}}

(* "A context_ref must be an object binding, not text inside a string":    *)
(* said of every string, of those too that the schema wants as strings.    *)
Rebound(doc, path) == {Put(doc, path, Bind(Key(k))) : k \in ContextKeys}

(* "Replace it with a concrete value, or bind it to a context field."      *)
BracketRemedies(doc, path) ==
  {Put(doc, path, Text("concrete", At(doc, path).holes \ {"bracket"}))}
    \cup Rebound(doc, path)

(* A value the schema accepts; none does where nothing may be authored.    *)
TypeRemedies(doc, path) ==
  UNION {IF r.samples = {} THEN {Omit(doc, path)}
         ELSE {Put(doc, path, sample) : sample \in r.samples} : r \in RulesFor(doc, path)}

Remedies(doc, issue) ==
  LET path == PathOf(issue.location)
  IN  CASE issue.rule = "literal"  -> BindRemedies(doc, path)
        [] issue.rule = "unknown"  -> {Put(doc, path, Key(k)) : k \in ContextKeys}
        [] issue.rule = "reserved" -> ReservedRemedies(doc, path)
        [] issue.rule = "inline"   -> Rebound(doc, path)
        [] issue.rule = "bracket"  -> BracketRemedies(doc, path)
        [] issue.rule = "type"     -> TypeRemedies(doc, path)

(* The model takes one issue of the list and does what it says.            *)
Repair ==
  \E issue \in GateIssues(config) : config' \in Remedies(config, issue)

LintInit == config \in Documents

LintSpec == LintInit /\ [][Repair]_config

----------------------------------------------------------------------------
(* What the lints promise.                                                 *)

(* Every place of a document: a step leads to a child.                     *)
PathsOf(doc) ==
  LET paths[n \in 0 .. MaxDepth] ==
        IF n = 0 THEN {<<>>}
        ELSE {<<>>} \cup UNION {{Append(p, s) : s \in Children(At(doc, p))} :
                                  p \in paths[n - 1]}
  IN  paths[MaxDepth]

(* The lints' rules of places, not of a walk, and as the code and its      *)
(* tests have them: a binding may name any published key.                  *)
Above(path) == {SubSeq(path, 1, n) : n \in 0 .. Len(path) - 1}

BindingIsBroken(doc, path) ==
  /\ IsBinding(At(doc, path)) /\ ~RefResolves(At(doc, path))
  /\ \A above \in Above(path) : ~IsBinding(At(doc, above))

InDicts(doc, path) ==
  \A above \in Above(path) \ {<<>>} : At(doc, above).kind = "dict"

PositionIsBroken(doc, path) ==
  /\ \E p \in Positions : path = <<p.section, p.key>>
  /\ InDicts(doc, path) /\ ~IsEmpty(At(doc, path))
  /\ IsBinding(At(doc, path)) => ~RefResolves(At(doc, path))

ReservedIsAuthored(doc, path) ==
  /\ \E p \in Reserved : \E e \in Children(At(doc, <<p.section, p.collection>>)) :
       path = <<p.section, p.collection, e, p.leaf>>
  /\ InDicts(doc, path) /\ ~IsEmpty(At(doc, path))

PlaceIsBroken(doc, path) ==
  \/ BindingIsBroken(doc, path)
  \/ PositionIsBroken(doc, path)
  \/ ReservedIsAuthored(doc, path)

Unfilled(doc, path) == At(doc, path).kind = "text" /\ At(doc, path).holes # {}

(* The place a location speaks of: an unknown ref is its binding's defect. *)
PlaceOf(issue) ==
  LET path == PathOf(issue.location)
  IN  IF issue.rule = "unknown" THEN Front(path) ELSE path

(* The lints miss no place that breaks a rule and blame none that keeps    *)
(* it, however deep it is, in a list or under a source: the verdict is the *)
(* gateway's (org_coupling.py:63-199, authoring_placeholders.py:59-115).   *)
LintsAreExact ==
  LET paths == PathsOf(config)
  IN  /\ {PlaceOf(i) : i \in LintOrgCoupling(config)}
           = {p \in paths : PlaceIsBroken(config, p)}
      /\ {PathOf(i.location) : i \in LintAuthoringPlaceholders(config)}
           = {p \in paths : Unfilled(config, p)}

(* A model that does to the letter what one reported issue asks for, then  *)
(* what one of the next list asks for, whichever it takes, ends with a     *)
(* config every gate accepts.  One message may be answered with what       *)
(* another check refuses, as an object where the schema wants a string,    *)
(* but the checks never send the config round (org_coupling.py:88-95,      *)
(* 145-155; authoring_placeholders.py:88-112; validator.py:180-223).       *)
RepairsEnd == <>[](GateIssues(config) = {})

(* A blocked tool call names a section that holds a defect, whichever of   *)
(* the three spellings reported it, and names none only when the defects   *)
(* are all at the root, such as brackets in the organisation's name, where *)
(* no section is to blame (tools.py:149-167, draft.py:156).                *)
PhaseNamesDefect ==
  LET defective == {s \in AuthoringSections :
                      \E p \in PathsOf(config) :
                        /\ p # <<>> /\ p[1] = s
                        /\ \/ PlaceIsBroken(config, p) \/ Unfilled(config, p)
                           \/ Misfit(config, p)}
  IN  \A phase \in PhaseFromIssues(GatePasses(config)) :
        IF defective = {} THEN phase = NoSection ELSE phase \in defective

=============================================================================
