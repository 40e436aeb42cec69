------------------------------ MODULE ChatModel ------------------------------
(***************************************************************************)
(* What a turn relies on when it calls ChatModel.decide (model.py), and    *)
(* all that module Turn knows of it: the call decides or raises, it was    *)
(* billed a bounded number of times when it does, and a decision reports   *)
(* exactly what it was billed for.  It does not promise to return.         *)
(***************************************************************************)
EXTENDS Naturals

CONSTANTS
  Turns,     \* whoever may have a call running
  MaxCalls   \* what one decision may cost, in provider calls

VARIABLES
  answer,    \* of each turn's call
  billed,    \* the provider calls its latest call was billed for
  reported   \* the usage its decision carries

vars == <<answer, billed, reported>>

Answers == {"none", "pending", "decided", "raised"}

TypeOK ==
  /\ answer \in [Turns -> Answers]
  /\ billed \in [Turns -> 0 .. MaxCalls]
  /\ reported \in [Turns -> 0 .. MaxCalls]

Init ==
  /\ answer = [t \in Turns |-> "none"]
  /\ billed = [t \in Turns |-> 0]
  /\ reported = [t \in Turns |-> 0]

(* A new turn, which never finds the call of an old one still running.     *)
Begin(t) ==
  /\ answer[t] # "pending"
  /\ answer' = [answer EXCEPT ![t] = "none"]
  /\ billed' = [billed EXCEPT ![t] = 0]
  /\ reported' = [reported EXCEPT ![t] = 0]

Call(t) ==
  /\ answer[t] = "none"
  /\ answer' = [answer EXCEPT ![t] = "pending"]
  /\ UNCHANGED <<billed, reported>>

Bill(t) ==
  /\ answer[t] = "pending"
  /\ billed[t] < MaxCalls
  /\ billed' = [billed EXCEPT ![t] = @ + 1]
  /\ UNCHANGED <<answer, reported>>

Decide(t) ==
  /\ answer[t] = "pending"
  /\ billed[t] > 0
  /\ answer' = [answer EXCEPT ![t] = "decided"]
  /\ reported' = [reported EXCEPT ![t] = billed[t]]
  /\ UNCHANGED billed

(* A call that fails may have been billed for the very request that failed. *)
Raise(t) ==
  /\ answer[t] = "pending"
  /\ answer' = [answer EXCEPT ![t] = "raised"]
  /\ \E n \in {billed[t], billed[t] + 1} :
       n <= MaxCalls /\ billed' = [billed EXCEPT ![t] = n]
  /\ UNCHANGED reported

(* The process died with every call it was waiting for.                    *)
Abandon ==
  /\ answer' = [t \in Turns |-> "none"]
  /\ billed' = [t \in Turns |-> 0]
  /\ reported' = [t \in Turns |-> 0]

Next == Abandon \/ \E t \in Turns : Begin(t) \/ Call(t) \/ Bill(t) \/ Decide(t) \/ Raise(t)

Spec == Init /\ [][Next]_vars
=============================================================================
