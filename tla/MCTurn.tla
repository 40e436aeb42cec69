------------------------------- MODULE MCTurn -------------------------------
(* Two sections, one with a knob and one without; two verticals; every     *)
(* body that fails at most one check.                                      *)
EXTENDS TurnProperties

MCPhases    == <<"geography", "contacts">>
MCSeeded    == {"geography"}
MCSectionOf == [m \in {"geography/targeting"} |-> "geography"]
MCVerticals == {"hvac", "retail"}
MCSlugOf    == [v \in MCVerticals |-> IF v = "hvac" THEN "hvac-scanner"
                                                    ELSE "retail-scanner"]
MCSlugs     == {NoSlug, GenericSlug} \cup {MCSlugOf[v] : v \in MCVerticals}
MCTexts     == {"old", "new"}

Filled(text, knob, faults) ==
  [text |-> text, wrapped |-> FALSE, knob |-> knob, faults |-> faults]

(* What a gateway row may hold in a section: nothing yet, a section some   *)
(* build stored, or one of a seeded skill that fails a check of today.     *)
RowBodies(s) ==
  {EmptyBody}
    \cup {Filled("old", IF s \in SEEDED THEN k ELSE "absent", {}) :
            k \in {"default", "absent"}}
    \cup {Filled("old", IF s \in SEEDED THEN "authored" ELSE "absent", {f}) :
            f \in Faults}

RowConfigs ==
  {[complete |-> TRUE, stray |-> FALSE, vertical |-> v, slug |-> BuildSlug(v),
    sections |-> [s \in Sections |-> IF s = "geography" THEN g ELSE c]] :
      v \in {NoVertical, "hvac"}, g \in RowBodies("geography"),
      c \in RowBodies("contacts")}
  \cup {BlankConfig}

NewBodies ==
  {EmptyBody, Filled("new", "absent", {}), Filled("new", "authored", {}),
   [Filled("new", "absent", {}) EXCEPT !.wrapped = TRUE]}
    \cup {Filled("new", "absent", {f}) : f \in Faults}

MCDecisions ==
  {[NoDecision EXCEPT !.action = "propose_section", !.phase = p, !.body = b,
                      !.vertical = v] :
      p \in Phases, b \in NewBodies, v \in {NoVertical, "retail"}}
  \cup {[NoDecision EXCEPT !.action = t, !.vertical = v, !.slugOk = ok] :
          t \in Tools, v \in {NoVertical, "retail"}, ok \in BOOLEAN}
  \cup {[NoDecision EXCEPT !.action = a, !.vertical = v] :
          a \in {"connect_existing", "await_human"}, v \in {NoVertical, "retail"}}
  \cup {[NoDecision EXCEPT !.reason = r] : r \in Reasons \cup {InventedReason}}

MCAcceptance == {[s \in Sections |-> a] : a \in BOOLEAN}
                  \cup {[s \in Sections |-> s = "geography"]}

BaseInput == [wellFormed |-> TRUE, kickoff |-> FALSE, edit |-> FALSE,
              pending |-> NoTool, catalog |-> {}, vertical |-> NoVertical,
              wired |-> TRUE, config |-> BlankConfig,
              acceptance |-> [s \in Sections |-> FALSE]]

Seeded == [Skeleton("hvac") EXCEPT !.sections["geography"] = Filled("old", "default", {})]

MCInputs ==
  {[BaseInput EXCEPT !.wellFormed = FALSE]}
  \cup {[BaseInput EXCEPT !.kickoff = TRUE, !.edit = e, !.catalog = k, !.vertical = v,
                          !.config = c] :
          e \in BOOLEAN, k \in {{}, {"hvac"}, {"retail"}}, v \in {NoVertical, "hvac"}, c \in RowConfigs}
  \cup {[BaseInput EXCEPT !.edit = e, !.pending = r, !.kickoff = k] :
          e \in BOOLEAN, r \in ToolResult \cup {Garbled}, k \in BOOLEAN}
  \cup {[BaseInput EXCEPT !.edit = e, !.config = c, !.acceptance = a, !.wired = w] :
          e \in BOOLEAN, c \in RowConfigs, a \in MCAcceptance, w \in BOOLEAN}

(* One turn into each handler, for the runs in which anything may raise.   *)
MCFaultInputs ==
  {[BaseInput EXCEPT !.kickoff = TRUE, !.edit = e, !.catalog = k, !.vertical = "hvac",
                     !.config = c] :
     e \in BOOLEAN, k \in {{}, {"hvac"}}, c \in {BlankConfig, Seeded}}
  \cup {[BaseInput EXCEPT !.pending = r] : r \in ToolResult \cup {Garbled}}
  \cup {[BaseInput EXCEPT !.config = c, !.wired = w] :
          c \in {BlankConfig, Skeleton(NoVertical), Seeded}, w \in BOOLEAN}
  \cup {[BaseInput EXCEPT !.config = Skeleton(NoVertical), !.catalog = {"retail"}]}
=============================================================================
