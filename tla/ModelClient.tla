----------------------------- MODULE ModelClient -----------------------------
(***************************************************************************)
(* BedrockChatModel.decide (model.py): the call to the provider with the   *)
(* decision tool offered but not forced, one more with it forced when the  *)
(* answer was prose, and the judgement of what came back.  One call per    *)
(* turn that runs; the provider may answer anything, refuse, or never      *)
(* answer.  Usage is counted in provider calls.                            *)
(***************************************************************************)
EXTENDS Naturals, Sequences

CONSTANTS
  Turns,      \* the requests that may be running a turn
  Responses   \* what the provider may answer, a subset of Response

VARIABLES
  call,       \* where each turn is in decide
  responses,  \* what the provider answered it so far
  billed,     \* the provider calls it was billed for
  usage       \* the usage decide has added up

clientVars == <<call, responses, billed, usage>>

MaxCalls == 2

(* The blocks of one response.  tool: the first tool_use block, whose      *)
(* input is a decision or is not one.  text: the first text block; more:   *)
(* a later text block is not blank.                                        *)
ToolUses == {"none", "decision", "unusable"}
TextBlocks == {"blank", "prose", "decision", "unusable"}
Response == [tool : ToolUses, text : TextBlocks, more : BOOLEAN]

ASSUME ResponsesAssumption == Responses \subseteq Response

Calls == {"idle", "unforced", "forced", "answered", "decided", "failed", "gave_up"}
Waiting == {"unforced", "forced"}

ClientTypeOK ==
  /\ call \in [Turns -> Calls]
  /\ responses \in [Turns -> Seq(Response)]
  /\ \A t \in Turns : Len(responses[t]) <= MaxCalls
  /\ billed \in [Turns -> 0 .. MaxCalls]
  /\ usage \in [Turns -> 0 .. MaxCalls]

ClientInit ==
  /\ call = [t \in Turns |-> "idle"]
  /\ responses = [t \in Turns |-> <<>>]
  /\ billed = [t \in Turns |-> 0]
  /\ usage = [t \in Turns |-> 0]

Latest(t) == responses[t][Len(responses[t])]

HasText(response) == response.text # "blank" \/ response.more

(* Mutant: retry on an empty answer too.                                   *)
RetryableAlways(t) == Len(responses[t]) = 1 /\ Latest(t).tool = "none"

(* Mutant: as long as the model answers in prose.                          *)
RetryableForever(t) == Latest(t).tool = "none" /\ HasText(Latest(t))

(* Prose, and the tool has not been forced yet: worth one more call.       *)
Retryable(t) ==
  Len(responses[t]) = 1 /\ Latest(t).tool = "none" /\ HasText(Latest(t))

(* _decision_from_mapping and the guards before it: a tool call decides by *)
(* its input alone, and without one the first text block has to be the     *)
(* envelope itself.                                                        *)
Usable(response) ==
  IF response.tool = "none" THEN response.text = "decision"
                            ELSE response.tool = "decision"

StartCall(t) ==
  /\ call[t] = "idle"
  /\ call' = [call EXCEPT ![t] = "unforced"]
  /\ UNCHANGED <<responses, billed, usage>>

EndCall(t) ==
  /\ call' = [call EXCEPT ![t] = "idle"]
  /\ responses' = [responses EXCEPT ![t] = <<>>]
  /\ billed' = [billed EXCEPT ![t] = 0]
  /\ usage' = [usage EXCEPT ![t] = 0]

(* Mutant: the retry's usage replaces the first call's.                    *)
ReplaceUsage(t) == usage' = [usage EXCEPT ![t] = 1]

AddUsage(t) == usage' = [usage EXCEPT ![t] = @ + 1]

ProviderAnswers(t) ==
  /\ call[t] \in Waiting
  /\ \E response \in Responses :
       responses' = [responses EXCEPT ![t] = Append(@, response)]
  /\ billed' = [billed EXCEPT ![t] = @ + 1]
  /\ AddUsage(t)
  /\ call' = [call EXCEPT ![t] = "answered"]

(* messages.create raises: refused, or lost on the way back and billed.    *)
ProviderFails(t) ==
  /\ call[t] \in Waiting
  /\ \E n \in 0 .. 1 : billed' = [billed EXCEPT ![t] = @ + n]
  /\ call' = [call EXCEPT ![t] = "failed"]
  /\ UNCHANGED <<responses, usage>>

ForceTool(t) ==
  /\ call[t] = "answered"
  /\ Retryable(t)
  /\ call' = [call EXCEPT ![t] = "forced"]
  /\ UNCHANGED <<responses, billed, usage>>

JudgeAnswer(t) ==
  /\ call[t] = "answered"
  /\ ~Retryable(t)
  /\ call' = [call EXCEPT ![t] = IF Usable(Latest(t)) THEN "decided" ELSE "gave_up"]
  /\ UNCHANGED <<responses, billed, usage>>

(* The promise, with the calls as Turn sees them.                          *)
Answer(t) == CASE call[t] = "idle" -> "none"
               [] call[t] \in {"unforced", "forced", "answered"} -> "pending"
               [] call[t] = "decided" -> "decided"
               [] OTHER -> "raised"

Promise == INSTANCE ChatModel WITH
  answer   <- [t \in Turns |-> Answer(t)],
  reported <- [t \in Turns |-> IF call[t] = "decided" THEN usage[t] ELSE 0]

(* decide keeps the promise of ChatModel: at most two billed calls, and a  *)
(* decision that reports them both (model.py:275-311, 321-359).            *)
DecidesAsPromised == Promise!Spec

(* A turn that gives up has left nothing untried that could have helped:   *)
(* it forced the tool on an answer in prose, and it did not pay twice for  *)
(* an answer that was cut off before it said anything (model.py:278-292,   *)
(* 362-369).                                                               *)
GivesUpInTime ==
  \A t \in Turns :
    call[t] = "gave_up" =>
      LET first == responses[t][1]
      IN  /\ ~Usable(Latest(t))
          /\ Len(responses[t]) = 2 <=> (first.tool = "none" /\ HasText(first))
=============================================================================
