------------------------------- MODULE Builder -------------------------------
(***************************************************************************)
(* What a builder session promises about the skill it makes, and nothing   *)
(* about turns, frames or transports.  A call asks for a finished draft,   *)
(* the draft holds still until the call is answered, a skill is made only  *)
(* of the very draft that was asked for, and of one only.                  *)
(***************************************************************************)

CONSTANT Finished   \* the drafts a skill may be made of

VARIABLES
  draft,   \* the config as it is kept between turns
  asked,   \* {draft} while a call to make a skill of it waits, or {}
  made     \* {the skill}, or {}

Init == asked = {} /\ made = {}

Write ==
  /\ asked = {} /\ made = {}
  /\ draft' # draft
  /\ UNCHANGED <<asked, made>>

Ask ==
  /\ asked = {} /\ made = {}
  /\ draft \in Finished
  /\ asked' = {draft}
  /\ UNCHANGED <<draft, made>>

(* The operator declines, or the gateway rejects the call or fails.        *)
Refuse ==
  /\ asked # {}
  /\ asked' = {}
  /\ UNCHANGED <<draft, made>>

Make ==
  /\ asked = {draft} /\ made = {}
  /\ made' = asked /\ asked' = {}
  /\ UNCHANGED draft

Next == Write \/ Ask \/ Refuse \/ Make

Spec == Init /\ [][Next]_<<draft, asked, made>>
=============================================================================
