----------------------------- MODULE AguiStream -----------------------------
(***************************************************************************)
(* What one turn promises the gateway about its event stream, and nothing  *)
(* about how the turn is computed: the stream opens with RUN_STARTED or is *)
(* a lone RUN_ERROR, grows by complete groups of events only, and ends     *)
(* with exactly one terminal event.                                        *)
(***************************************************************************)

VARIABLE stage

Stages == {"unopened", "open", "finished", "failed"}
Closed == {"finished", "failed"}

TypeOK == stage \in Stages

Init == stage = "unopened"

(* RUN_STARTED.                                                            *)
Open   == stage = "unopened" /\ stage' = "open"

(* RUN_FINISHED: only a run that was opened finishes.                      *)
Finish == stage = "open" /\ stage' = "finished"

(* RUN_ERROR: of an opened run, or alone for a malformed envelope.         *)
Fail   == stage \in {"unopened", "open"} /\ stage' = "failed"

Next == Open \/ Finish \/ Fail

(* The order of the stages, and that a turn may not stop before its        *)
(* terminal event.                                                         *)
Safety      == Init /\ [][Next]_stage
Spec        == Safety /\ WF_stage(Next)
Termination == <>(stage \in Closed)
=============================================================================
