---------------------------- MODULE MCDocuments ----------------------------
(* The documents a turn reads, each kind on its own: a config and its      *)
(* repairs, the customer's blob and the catalog, the contract files.       *)
EXTENDS Lints, Library, Prompt

----------------------------------------------------------------------------
(* Two sections with an enforced position each, one of them with a source  *)
(* whose seed firms the runtime fills, and the name at the root.           *)

NoConfig == Dict(<<>>)

MCSections == {"geography", "discovery"}
MCKeys     == {"home_markets", "lookalike_sources"}
MCIndex    == <<"0", "1", "2">>
MCPositions ==
  {[section |-> "geography", key |-> "home_markets", ref |-> "home_markets"],
   [section |-> "discovery", key |-> "lookalike_sources", ref |-> "lookalike_sources"]}
MCReserved ==
  {[section |-> "discovery", collection |-> "sources", leaf |-> "seed_firms",
    from |-> "lookalike_sources"]}

Plain   == Text("concrete", {})
Inline  == Text("concrete", {"inline"})
Bracket == Text("concrete", {"bracket"})
Both    == Text("concrete", {"inline", "bracket"})
BadRef  == Bind(Key("titles"))
Queries == List(<<Plain>>)

(* The places the pinned schema speaks of, among those of the documents.   *)
Rule(place, form, samples) == [place |-> place, form |-> form, samples |-> samples]
Source   == <<"discovery", "sources", "*">>
BoundTo(key) == {List(<<Plain>>), Bind(Key(key))}
MCSchema ==
  {Rule(<<"name">>, "text", {Plain}),
   Rule(<<"geography">>, "dict", {NoConfig}),
   Rule(<<"geography", "home_markets">>, "bound", BoundTo("home_markets")),
   Rule(<<"geography", "targeting">>, "dict", {NoConfig}),
   Rule(<<"discovery">>, "dict", {NoConfig}),
   Rule(<<"discovery", "lookalike_sources">>, "bound", BoundTo("lookalike_sources")),
   Rule(<<"discovery", "sources">>, "map", {Dict("web" :> Dict("queries" :> Queries))}),
   Rule(Source, "dict", {Dict("queries" :> Queries)}),
   Rule(Source \o <<"queries">>, "list", {Queries}),
   Rule(Source \o <<"queries", "#">>, "text", {Plain}),
   Rule(Source \o <<"seed_firms">>, "nothing", {})}

(* What the model writes at a position, and elsewhere.                     *)
AtPosition ==
  {Null, List(<<Plain, Both>>), List(<<BadRef>>), Bind(Number),
   Dict([m \in {"context_ref", "default"} |->
           IF m = "default" THEN List(<<Bracket>>) ELSE Key("titles")])}
Elsewhere == {Null, Number, List(<<Plain, BadRef>>)}

Geographies ==
  {Bracket, BadRef}
    \cup {Dict("home_markets" :> p @@ "targeting" :> Dict("cities" :> List(<<Plain, BadRef>>))) :
            p \in AtPosition}
    \cup {Dict("targeting" :> Dict("cities" :> e)) : e \in Elsewhere}
    \cup {Dict("targeting" :> Number)}

(* The search texts of a source, and its seed firms, which are not its own.*)
QueryLists ==
  {Number, List(<<>>), List(<<Plain, Inline>>), List(<<Both>>), List(<<BadRef, Bracket>>)}
SeedFirms == {Blank, List(<<Inline>>), Bind(Key("home_markets"))}
SourceMaps ==
  {List(<<BadRef>>), Dict("web" :> Plain)}
    \cup {Dict("web" :> Dict("queries" :> q)) : q \in QueryLists}
    \cup {Dict("web" :> Dict("queries" :> Queries @@ "seed_firms" :> s)) : s \in SeedFirms}
Discoveries ==
  {Dict("sources" :> s) : s \in SourceMaps}
    \cup {Dict("lookalike_sources" :> l @@ "sources" :> s) :
            l \in {Null, List(<<Plain>>)},
            s \in {List(<<BadRef>>)} \cup {Dict("web" :> Dict("queries" :> Queries @@ "seed_firms" :> f)) :
                                             f \in SeedFirms}}

(* Each section with a defect of its own beside it, at the root or in the  *)
(* other section.                                                          *)
MCDocuments ==
  {Dict("name" :> name @@ "geography" :> g) : name \in {Plain, Both}, g \in Geographies}
    \cup {Dict("geography" :> g @@ "discovery" :> d) :
            g \in {NoConfig, BadRef}, d \in Discoveries}
    \cup {Dict("name" :> name @@ "geography" :> Bracket @@ "discovery" :> Dict("sources" :> s)) :
            name \in {Inline, Bracket}, s \in SourceMaps}

----------------------------------------------------------------------------
(* An industry at two paths, an ICP at three.                              *)

MCIndustryPaths == <<"industry", "organization.industry">>
MCLeadTypePaths == <<"lead_type">>
MCSummaryPaths  == <<"icp_summary">>
MCSeedPaths     == <<"icp.icp_attributes", "icp_seeds">>

MCValues ==
  [p \in Range(MCIndustryPaths) |->
     {Nothing, Word(CatchAll, "cased"), Word("hvac", "spaced"), Word("hvac", "hyphened"),
      Spaces, OtherType}]
  @@ [p \in Range(MCLeadTypePaths) |-> {Nothing, Word("a", "cased")}]
  @@ [p \in Range(MCSummaryPaths) |-> {Nothing, Word("icp", "plain")}]
  @@ [p \in Range(MCSeedPaths) |-> {Nothing, Word("icp", "plain"), Seeds}]

Scanner(slug, vertical, active) ==
  Skill(slug, vertical, Word("a", "plain"), DefaultSkillType, active)

MCEntries ==
  {Malformed, Scanner(1, Word("hvac", "cased"), TRUE), Scanner(2, Word("hvac", "plain"), TRUE),
   Scanner(0, Word("hvac", "plain"), FALSE), Scanner(3, Word(CatchAll, "plain"), TRUE)}

----------------------------------------------------------------------------
(* The files as they are pinned, and pinned badly.                         *)

MCKeyOrder == <<"home_markets", "industry">>
MCShaped   == {"discovery", "scoring", "contacts"}
MCBlobs    == {"customer", "customer with an ICP"}
MCTasks    == {"continue", "finalize"}

Entry(name, whole, pattern) == [name |-> name, whole |-> whole, pattern |-> pattern]
Listed(entries) == [form |-> "list", entries |-> entries]
SoundFile ==
  [key_list |-> [form |-> "list", names |-> {"home_markets", "industry"}],
   keys |-> [form |-> "map", names |-> {"home_markets"}],
   config_positions |-> Listed({Entry("geography.home_markets", TRUE, "")}),
   runtime_populated |-> Listed({Entry("discovery", TRUE, "<collection>.*.<leaf>")})]

MCFieldFiles ==
  {SoundFile,
   [SoundFile EXCEPT !.key_list.names = {}, !.config_positions.entries = {}],
   [SoundFile EXCEPT !.key_list = [form |-> "absent"],
                     !.runtime_populated = [form |-> "absent"]],
   [SoundFile EXCEPT !.runtime_populated.entries = @ \cup {Entry("scoring", TRUE, "<leaf>")}]}

Typed(type) == [ref |-> NoRef, wrapped |-> FALSE, each |-> <<>>, type |-> type,
                forbidden |-> FALSE, props |-> <<>>]
Object(props) == [Typed("object") EXCEPT !.props = props]
Refer(name) == [Typed("value") EXCEPT !.ref = name]

(* A source refers to itself below its fit, as a recursive schema would.   *)
SourceDef ==
  Object("queries" :> Typed("array")
           @@ "seed_firms" :> [Object("firm" :> Typed("string")) EXCEPT !.forbidden = TRUE]
           @@ "fit" :> Object("region" :> Refer("source")))
Section(props) == [Object(props) EXCEPT !.type = "value"] @@ [form |-> "object"]
SoundSchema ==
  [defs |-> "source" :> SourceDef @@ "contextRef" :> Object("context_ref" :> Typed("string")),
   sections |->
     "discovery" :> Section(
         "sources" :> [Typed("object") EXCEPT !.each = <<Refer("source")>>]
           @@ "titles" :> [Refer("boundStringList") EXCEPT !.wrapped = TRUE]
           @@ "org" :> Refer("contextRef"))
       @@ "scoring" :> Section("gate" :> Object("state" :> Typed("string")))
       @@ "contacts" :> [Section(<<>>) EXCEPT !.form = "malformed"]]

MCSchemaFiles ==
  {SoundSchema,
   [SoundSchema EXCEPT !.sections["scoring"].props = <<>>]}

----------------------------------------------------------------------------
(* Each kind runs with the others at rest.                                 *)

RestingFiles == [fields |-> SoundFile, schema |-> SoundSchema]

Init ==
  /\ LintInit \/ config = NoConfig
  /\ LibraryInit
  /\ PromptInit /\ disk = RestingFiles

ReadsConfig  == config # NoConfig
ReadsLibrary == config = NoConfig /\ PromptInit /\ disk = RestingFiles
ReadsFiles   == config = NoConfig /\ LibraryInit

RepairConfig == ReadsConfig /\ Repair /\ UNCHANGED <<libraryVars, promptVars>>

Next ==
  \/ RepairConfig
  \/ ReadsLibrary /\ LibraryNext /\ UNCHANGED <<config, promptVars>>
  \/ ReadsFiles /\ PromptNext /\ UNCHANGED <<config, libraryVars>>

vars == <<config, libraryVars, promptVars>>

(* A model that is shown issues goes on repairing them.                    *)
Spec == Init /\ [][Next]_vars /\ WF_vars(RepairConfig)
=============================================================================
