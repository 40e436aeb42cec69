----------------------------- MODULE MCSession -----------------------------
(* A build from a blank row and an edit of a live skill, one or two        *)
(* sections, and a model that proposes good, faulty and unfinished bodies, *)
(* finds the vertical, asks for either tool, or does both in one answer.   *)
EXTENDS SessionProperties

MCPhases    == <<"geography", "contacts">>
MCSeeded    == {"geography"}
MCSectionOf == [m \in {"geography/targeting"} |-> "geography"]
MCVerticals == {"hvac"}
MCSlugOf    == [v \in MCVerticals |-> "hvac-scanner"]
MCSlugs     == {NoSlug, GenericSlug, "renamed"} \cup {MCSlugOf[v] : v \in MCVerticals}
MCTexts     == {"old", "new"}

Filled(text, faults) ==
  [text |-> text, wrapped |-> FALSE, knob |-> "absent", faults |-> faults]

Unaccepted == [s \in Sections |-> FALSE]

LiveSkill ==
  [complete |-> TRUE, stray |-> FALSE, vertical |-> "hvac", slug |-> "renamed",
   sections |-> [s \in Sections |-> Filled("old", {})]]

MCOpenings ==
  {[edit |-> FALSE, row |-> [config |-> BlankConfig, acceptance |-> Unaccepted]],
   [edit |-> TRUE,  row |-> [config |-> LiveSkill, acceptance |-> Unaccepted]],
   [edit |-> TRUE,  row |-> [config |-> [LiveSkill EXCEPT !.vertical = NoVertical],
                             acceptance |-> Unaccepted]]}

MCContexts == {[catalog |-> {}, vertical |-> NoVertical],
               [catalog |-> {}, vertical |-> "hvac"],
               [catalog |-> {"hvac"}, vertical |-> "hvac"]}

Proposals ==
  {[NoDecision EXCEPT !.action = "propose_section", !.phase = "geography",
                      !.body = Filled("new", f)] :
     f \in {{}, {"coupling"}, {"placeholder"}}}
  \cup {[NoDecision EXCEPT !.action = "propose_section", !.phase = "contacts",
                           !.body = Filled("new", {}), !.vertical = "hvac"]}
  \cup {[NoDecision EXCEPT !.action = "propose_section", !.phase = "geography/targeting",
                           !.body = Filled("new", {})]}

MCDecisions ==
  Proposals
    \cup {[NoDecision EXCEPT !.action = t] : t \in Tools}
    \cup {[NoDecision EXCEPT !.action = a, !.vertical = "hvac"] :
             a \in {"await_human", "request_finalize"}}
=============================================================================
