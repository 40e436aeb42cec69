------------------------------ MODULE MCServer ------------------------------
(* Two sessions, the provider of one of which may never answer, and one    *)
(* health checker, on a pool that those two could fill.                    *)
EXTENDS Server

Said(tool, text, more) == [tool |-> tool, text |-> text, more |-> more]

(* A decision, a truncated one, prose (in the first block or a later one), *)
(* the envelope as text, and a thinking block alone.                       *)
MCResponses == {Said("decision", "blank", FALSE), Said("unusable", "prose", FALSE),
                Said("none", "prose", FALSE), Said("none", "blank", TRUE),
                Said("none", "decision", FALSE), Said("none", "blank", FALSE)}
=============================================================================
