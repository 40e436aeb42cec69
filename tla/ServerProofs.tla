---------------------------- MODULE ServerProofs ----------------------------
(***************************************************************************)
(* The promises of the service and of its model client, proved for any     *)
(* number of sessions, health checks and threads, whatever the provider    *)
(* answers.                                                                *)
(***************************************************************************)
EXTENDS Server, FiniteSetTheorems, TLAPS

----------------------------------------------------------------------------
(* The model client: what each control point of decide implies of the      *)
(* answers so far and of what they cost.                                   *)

CallInv(t) ==
  /\ Len(responses[t]) <= MaxCalls
  /\ usage[t] = Len(responses[t])
  /\ call[t] # "failed" => billed[t] = usage[t]
  /\ call[t] \in {"idle", "unforced"} => responses[t] = <<>>
  /\ call[t] = "forced" => Len(responses[t]) = 1
  /\ call[t] \in {"answered", "decided", "gave_up"} => Len(responses[t]) > 0
  /\ call[t] = "forced" \/ Len(responses[t]) = 2 =>
       responses[t][1].tool = "none" /\ HasText(responses[t][1])
  /\ call[t] \in {"decided", "gave_up"} => ~Retryable(t)
  /\ call[t] = "gave_up" => ~Usable(Latest(t))

ClientInv == ClientTypeOK /\ \A t \in Turns : CallInv(t)

(* Every step of the model client keeps it.                                *)
ClientStep ==
  \E t \in Turns : StartCall(t) \/ EndCall(t) \/ ProviderAnswers(t) \/ ProviderFails(t)
                     \/ ForceTool(t) \/ JudgeAnswer(t)

LEMMA ClientInitInv == ClientInit => ClientInv
BY DEF ClientInit, ClientInv, ClientTypeOK, CallInv, Calls, MaxCalls

LEMMA ClientResets ==
  ASSUME ClientInv,
         call' = [t \in Turns |-> "idle"], responses' = [t \in Turns |-> <<>>],
         billed' = [t \in Turns |-> 0], usage' = [t \in Turns |-> 0]
  PROVE  ClientInv'
BY DEF ClientInv, ClientTypeOK, CallInv, Calls, MaxCalls

LEMMA ClientStutters ==
  ASSUME ClientInv, UNCHANGED clientVars
  PROVE  ClientInv'
BY DEF ClientInv, ClientTypeOK, CallInv, clientVars, Retryable, Latest

LEMMA ClientStepKeepsInv ==
  ASSUME ClientInv, ClientStep
  PROVE  ClientInv'
<1> USE DEF ClientInv, ClientTypeOK, MaxCalls, Calls, Waiting
<1> PICK t \in Turns : StartCall(t) \/ EndCall(t) \/ ProviderAnswers(t) \/ ProviderFails(t)
                         \/ ForceTool(t) \/ JudgeAnswer(t)
  BY DEF ClientStep
<1>0. /\ Len(responses[t]) \in Nat /\ Len(responses[t]) <= 2
      /\ usage[t] \in 0 .. 2 /\ billed[t] \in 0 .. 2
      /\ CallInv(t)
  BY DEF CallInv
<1>o. ASSUME NEW u \in Turns, u # t,
             call'[u] = call[u], responses'[u] = responses[u],
             billed'[u] = billed[u], usage'[u] = usage[u]
      PROVE  CallInv(u)'
  BY <1>o DEF CallInv, Retryable, Latest
<1>1. CASE StartCall(t)
  <2>1. ClientTypeOK'
    BY <1>1 DEF StartCall
  <2>2. CallInv(t)'
    BY <1>0, <1>1 DEF StartCall, CallInv
  <2>3. QED BY <1>1, <1>o, <2>1, <2>2 DEF StartCall
<1>2. CASE EndCall(t)
  <2>1. ClientTypeOK'
    BY <1>2 DEF EndCall
  <2>2. CallInv(t)'
    BY <1>0, <1>2 DEF EndCall, CallInv
  <2>3. QED BY <1>2, <1>o, <2>1, <2>2 DEF EndCall
<1>3. CASE ProviderAnswers(t)
  <2> PICK response \in Responses : responses' = [responses EXCEPT ![t] = Append(@, response)]
    BY <1>3 DEF ProviderAnswers
  <2>1. /\ Len(responses[t]) <= 1 /\ usage[t] = Len(responses[t]) /\ billed[t] = usage[t]
        /\ Len(responses[t]) = 1 => responses[t][1].tool = "none" /\ HasText(responses[t][1])
    BY <1>0, <1>3 DEF ProviderAnswers, CallInv
  <2>2. response \in Response
    BY ResponsesAssumption
  <2>3. /\ responses'[t] = Append(responses[t], response)
        /\ responses'[t] \in Seq(Response)
        /\ Len(responses'[t]) = Len(responses[t]) + 1
        /\ Len(responses[t]) = 1 => responses'[t][1] = responses[t][1]
    BY <1>0, <2>2
  <2>4. ClientTypeOK'
    <3>1. responses' \in [Turns -> Seq(Response)]
      BY <2>2, <2>3
    <3>2. \A u \in Turns : Len(responses'[u]) <= MaxCalls
      BY <2>1, <2>3
    <3>3. /\ call' \in [Turns -> Calls] /\ billed' \in [Turns -> 0 .. MaxCalls]
          /\ usage' \in [Turns -> 0 .. MaxCalls]
      BY <1>0, <1>3, <2>1 DEF ProviderAnswers, AddUsage
    <3>4. QED BY <3>1, <3>2, <3>3
  <2>5. CallInv(t)'
    BY <1>0, <1>3, <2>1, <2>3 DEF ProviderAnswers, AddUsage, CallInv, HasText
  <2>6. QED BY <1>3, <1>o, <2>4, <2>5 DEF ProviderAnswers, AddUsage
<1>4. CASE ProviderFails(t)
  <2>1. /\ billed[t] <= 1 /\ usage[t] = Len(responses[t])
        /\ Len(responses[t]) <= 1
    BY <1>0, <1>4 DEF ProviderFails, CallInv
  <2>2. ClientTypeOK'
    BY <1>0, <1>4, <2>1 DEF ProviderFails
  <2>3. CallInv(t)'
    BY <1>0, <1>4, <2>1 DEF ProviderFails, CallInv
  <2>4. QED BY <1>4, <1>o, <2>2, <2>3 DEF ProviderFails
<1>5. CASE ForceTool(t)
  <2>1. ClientTypeOK'
    BY <1>5 DEF ForceTool
  <2>2. CallInv(t)'
    BY <1>0, <1>5 DEF ForceTool, CallInv, Retryable, Latest
  <2>3. QED BY <1>5, <1>o, <2>1, <2>2 DEF ForceTool
<1>6. CASE JudgeAnswer(t)
  <2>1. ClientTypeOK'
    BY <1>6 DEF JudgeAnswer
  <2>2. CallInv(t)'
    BY <1>0, <1>6 DEF JudgeAnswer, CallInv, Retryable, Latest
  <2>3. QED BY <1>6, <1>o, <2>1, <2>2 DEF JudgeAnswer
<1>7. QED BY <1>1, <1>2, <1>3, <1>4, <1>5, <1>6

----------------------------------------------------------------------------
(* The pool.  Whoever waits in the queue is marked as waiting, once; a     *)
(* response that is on its way has frames left; and as long as the global  *)
(* is unset, the clients built are those of the requests about to set it.  *)

QueueInv ==
  /\ queue \in Seq(Requests)
  /\ \A i \in DOMAIN queue : stage[queue[i]] \in Queued
  /\ \A i, j \in DOMAIN queue : queue[i] = queue[j] => i = j

StageInv ==
  /\ stage \in [Requests -> Stages]
  /\ gone \in [Turns -> BOOLEAN]
  /\ left \in [Turns -> 0 .. MaxFrames]
  /\ deaths \in 0 .. MaxDeaths
  /\ \A t \in Turns : stage[t] \in {"to_frame", "frame"} => left[t] > 0

Constructing == {t \in Turns : stage[t] = "construct"}
Assigning    == {t \in Turns : stage[t] = "assign"}

CountInv ==
  /\ built \in Nat /\ singleton \in BOOLEAN
  /\ Cardinality(Holders) <= Threads
  /\ built + Cardinality(Constructing) <= Threads
  /\ ~singleton => built = Cardinality(Assigning)

ServerInv == ClientInv /\ StageInv /\ QueueInv /\ CountInv

LEMMA FiniteRequests == IsFiniteSet(Requests)
BY ServiceAssumption, FS_Union DEF Requests

LEMMA Counts ==
  ASSUME stage \in [Requests -> Stages]
  PROVE  /\ IsFiniteSet(Holders) /\ Cardinality(Holders) \in Nat
         /\ IsFiniteSet(Constructing) /\ Cardinality(Constructing) \in Nat
         /\ IsFiniteSet(Assigning) /\ Cardinality(Assigning) \in Nat
<1>1. Holders \in SUBSET Requests /\ Constructing \in SUBSET Turns /\ Assigning \in SUBSET Turns
  BY DEF Holders, Constructing, Assigning
<1>2. IsFiniteSet(Holders) /\ IsFiniteSet(Constructing) /\ IsFiniteSet(Assigning)
  BY <1>1, FiniteRequests, ServiceAssumption, FS_Subset
<1>3. QED BY <1>2, FS_CardinalityType

(* A request moves neither from nor to the construction of a client, and   *)
(* takes a thread only if there is one.                                    *)
LEMMA QuietMove ==
  ASSUME stage \in [Requests -> Stages], CountInv, NEW r \in Requests, NEW s \in Stages,
         MoveTo(r, s), UNCHANGED <<built, singleton>>,
         stage[r] \notin {"construct", "assign"}, s \notin {"construct", "assign"},
         \/ stage[r] \in OnThread
         \/ s \notin OnThread
         \/ Cardinality(Holders) < Threads
  PROVE  CountInv'
<1>1. Constructing' = Constructing /\ Assigning' = Assigning
  BY DEF Constructing, Assigning, MoveTo, Requests
<1>2. Holders' = IF s \in OnThread THEN Holders \cup {r} ELSE Holders \ {r}
  BY DEF Holders, MoveTo
<1>3. /\ stage[r] \in OnThread <=> r \in Holders
      /\ Threads \in Nat
  BY ServiceAssumption DEF Holders
<1>4. Cardinality(Holders') <= Threads
  <2>1. CASE s \in OnThread
    <3>1. Cardinality(Holders') = IF r \in Holders THEN Cardinality(Holders)
                                                   ELSE Cardinality(Holders) + 1
      BY <1>2, <2>1, Counts, FS_AddElement
    <3>2. QED BY <1>3, <2>1, <3>1, Counts DEF CountInv
  <2>2. CASE s \notin OnThread
    <3>1. Cardinality(Holders') = IF r \in Holders THEN Cardinality(Holders) - 1
                                                   ELSE Cardinality(Holders)
      BY <1>2, <2>2, Counts, FS_RemoveElement
    <3>2. QED BY <1>3, <3>1, Counts DEF CountInv
  <2>3. QED BY <2>1, <2>2
<1>5. QED BY <1>1, <1>4 DEF CountInv

LEMMA ReadSingletonCounts ==
  ASSUME StageInv, CountInv, NEW t \in Turns, ReadSingleton(t)
  PROVE  CountInv'
<1>0. /\ t \in Requests /\ stage[t] = "dependency" /\ stage \in [Requests -> Stages]
      /\ UNCHANGED <<built, singleton>> /\ Threads \in Nat
  BY ServiceAssumption DEF ReadSingleton, Requests, StageInv
<1>1. CASE singleton
  BY <1>0, <1>1, QuietMove DEF ReadSingleton, Leave, Stages, OnThread, CountInv
<1>2. CASE ~singleton
  <2>1. MoveTo(t, "construct")
    BY <1>2 DEF ReadSingleton, Leave
  <2>2. Holders' = Holders /\ Assigning' = Assigning /\ Constructing' = Constructing \cup {t}
    BY <1>0, <2>1 DEF MoveTo, Holders, Assigning, Constructing, OnThread, Requests
  <2>3. t \notin Constructing /\ t \notin Assigning
    BY <1>0 DEF Constructing, Assigning
  <2>4. Cardinality(Constructing') = Cardinality(Constructing) + 1
    BY <1>0, <2>2, <2>3, Counts, FS_AddElement
  <2>5. Cardinality(Assigning \cup Constructing')
          = Cardinality(Assigning) + Cardinality(Constructing')
    <3>1. Assigning \cap Constructing' = {}
      BY <2>2, <2>3 DEF Assigning, Constructing
    <3>2. IsFiniteSet(Constructing') /\ IsFiniteSet(Assigning)
      BY <1>0, <2>2, Counts, FS_AddElement
    <3>3. Cardinality(Assigning \cup Constructing')
            = Cardinality(Assigning) + Cardinality(Constructing') - Cardinality(Assigning \cap Constructing')
      BY <3>2, FS_Union
    <3>4. QED BY <1>0, <2>4, <3>1, <3>3, Counts, FS_EmptySet
  <2>6. Cardinality(Assigning \cup Constructing') <= Cardinality(Holders)
    <3>1. Assigning \cup Constructing' \in SUBSET Holders
      BY <1>0, <2>2 DEF Assigning, Constructing, Holders, OnThread, Requests
    <3>2. QED BY <1>0, <3>1, Counts, FS_Subset
  <2>7. built = Cardinality(Assigning)
    BY <1>2 DEF CountInv
  <2>8. QED BY <1>0, <1>2, <2>2, <2>4, <2>5, <2>6, <2>7, Counts DEF CountInv
<1>3. QED BY <1>1, <1>2

LEMMA ConstructCounts ==
  ASSUME StageInv, CountInv, NEW t \in Turns, Construct(t)
  PROVE  CountInv'
<1>0. /\ t \in Requests /\ stage[t] = "construct" /\ stage \in [Requests -> Stages]
      /\ UNCHANGED singleton /\ Threads \in Nat
      /\ t \in Constructing /\ t \notin Assigning
  BY ServiceAssumption DEF Construct, Requests, StageInv, Constructing, Assigning
<1>1. CASE MoveTo(t, "assign") /\ built' = built + 1
  <2>1. /\ Holders' = Holders /\ Constructing' = Constructing \ {t}
        /\ Assigning' = Assigning \cup {t}
    BY <1>0, <1>1 DEF MoveTo, Holders, Assigning, Constructing, OnThread, Requests
  <2>2. /\ Cardinality(Constructing') = Cardinality(Constructing) - 1
        /\ Cardinality(Assigning') = Cardinality(Assigning) + 1
    BY <1>0, <2>1, Counts, FS_RemoveElement, FS_AddElement
  <2>3. built' + Cardinality(Constructing') <= Threads /\ built' \in Nat
    BY <1>0, <1>1, <2>2, Counts DEF CountInv
  <2>4. ~singleton => built' = Cardinality(Assigning')
    BY <1>1, <2>2 DEF CountInv
  <2>5. QED BY <1>0, <2>1, <2>3, <2>4 DEF CountInv
<1>2. CASE MoveTo(t, "error_500") /\ built' = built
  <2>1. /\ Holders' = Holders \ {t} /\ Constructing' = Constructing \ {t}
        /\ Assigning' = Assigning
    BY <1>0, <1>2 DEF MoveTo, Holders, Assigning, Constructing, OnThread, Requests
  <2>2. /\ Cardinality(Constructing') <= Cardinality(Constructing)
        /\ Cardinality(Holders') <= Cardinality(Holders)
        /\ Cardinality(Constructing') \in Nat /\ Cardinality(Holders') \in Nat
    BY <1>0, <2>1, Counts, FS_Subset, FS_RemoveElement, FS_CardinalityType
  <2>3. QED BY <1>0, <1>2, <2>1, <2>2, Counts DEF CountInv
<1>3. QED BY <1>1, <1>2 DEF Construct, Leave

LEMMA AssignCounts ==
  ASSUME StageInv, CountInv, NEW t \in Turns, Assign(t)
  PROVE  CountInv'
<1>0. /\ t \in Requests /\ stage[t] = "assign" /\ stage \in [Requests -> Stages]
      /\ MoveTo(t, "body") /\ singleton' = TRUE /\ built' = built /\ Threads \in Nat
  BY ServiceAssumption DEF Assign, Leave, Requests, StageInv
<1>1. Holders' = Holders \ {t} /\ Constructing' = Constructing
  BY <1>0 DEF MoveTo, Holders, Constructing, OnThread, Requests
<1>2. Cardinality(Holders') <= Cardinality(Holders) /\ Cardinality(Holders') \in Nat
  BY <1>0, <1>1, Counts, FS_Subset, FS_RemoveElement, FS_CardinalityType
<1>3. QED BY <1>0, <1>1, <1>2, Counts DEF CountInv

----------------------------------------------------------------------------
(* The queue under the three things that happen to it.                     *)

LEMMA NotQueued ==
  ASSUME QueueInv, NEW r \in Requests, stage[r] \notin Queued
  PROVE  \A i \in DOMAIN queue : queue[i] # r
BY DEF QueueInv

LEMMA LeaveKeepsQueue ==
  ASSUME QueueInv, StageInv, NEW r \in Requests, NEW s, stage[r] \notin Queued, Leave(r, s)
  PROVE  QueueInv'
<1>1. queue' = queue /\ stage' = [stage EXCEPT ![r] = s]
  BY DEF Leave, MoveTo
<1>2. \A i \in DOMAIN queue : queue[i] \in Requests /\ queue[i] # r
  BY NotQueued DEF QueueInv
<1>3. \A i \in DOMAIN queue : stage'[queue[i]] = stage[queue[i]]
  BY <1>1, <1>2 DEF StageInv
<1>4. QED BY <1>1, <1>3 DEF QueueInv

LEMMA SubmitKeepsQueue ==
  ASSUME QueueInv, StageInv, NEW r \in Requests, NEW s \in Queued, stage[r] \notin Queued,
         Submit(r, s)
  PROVE  QueueInv'
<1>1. queue' = Append(queue, r) /\ stage' = [stage EXCEPT ![r] = s] /\ queue \in Seq(Requests)
  BY DEF Submit, MoveTo, QueueInv
<1>2. \A i \in DOMAIN queue : queue[i] \in Requests /\ queue[i] # r
  BY NotQueued DEF QueueInv
<1>3. /\ queue' \in Seq(Requests) /\ DOMAIN queue' = 1 .. Len(queue) + 1
      /\ DOMAIN queue = 1 .. Len(queue) /\ Len(queue) \in Nat
      /\ queue'[Len(queue) + 1] = r
      /\ \A i \in DOMAIN queue : queue'[i] = queue[i]
  BY <1>1
<1>4. \A i \in DOMAIN queue' : i \in DOMAIN queue \/ i = Len(queue) + 1
  BY <1>3
<1>5. stage'[r] = s /\ \A i \in DOMAIN queue : stage'[queue[i]] = stage[queue[i]]
  BY <1>1, <1>2 DEF StageInv
<1>6. \A i \in DOMAIN queue' : stage'[queue'[i]] \in Queued
  BY <1>3, <1>4, <1>5 DEF QueueInv
<1>7. \A i, j \in DOMAIN queue' : queue'[i] = queue'[j] => i = j
  BY <1>2, <1>3, <1>4 DEF QueueInv
<1>8. QED BY <1>3, <1>6, <1>7 DEF QueueInv

LEMMA GrantKeepsQueue ==
  ASSUME QueueInv, StageInv, Grant
  PROVE  QueueInv'
<1>1. /\ queue # <<>> /\ queue' = Tail(queue) /\ queue \in Seq(Requests)
      /\ stage' = [stage EXCEPT ![Head(queue)] = Grants[stage[Head(queue)]]]
  BY DEF Grant, MoveTo, QueueInv
<1>2. /\ queue' \in Seq(Requests) /\ Head(queue) = queue[1]
      /\ DOMAIN queue = 1 .. Len(queue) /\ 1 \in DOMAIN queue
      /\ \A i \in DOMAIN queue' :
           i + 1 \in DOMAIN queue /\ i + 1 # 1 /\ queue'[i] = queue[i + 1] /\ i \in Nat
  BY <1>1
<1>3. \A i \in DOMAIN queue' : queue'[i] # Head(queue) /\ queue'[i] \in Requests
  BY <1>2 DEF QueueInv
<1>4. \A i \in DOMAIN queue' : stage'[queue'[i]] = stage[queue'[i]]
  BY <1>1, <1>3 DEF StageInv
<1>5. \A i \in DOMAIN queue' : stage'[queue'[i]] \in Queued
  BY <1>2, <1>4 DEF QueueInv
<1>6. \A i, j \in DOMAIN queue' : queue'[i] = queue'[j] => i = j
  <2>1. SUFFICES ASSUME NEW i \in DOMAIN queue', NEW j \in DOMAIN queue', queue'[i] = queue'[j]
                 PROVE  i = j
    OBVIOUS
  <2>2. i + 1 = j + 1
    BY <1>2, <2>1 DEF QueueInv
  <2>3. QED BY <1>2, <2>2
<1>7. QED BY <1>2, <1>5, <1>6 DEF QueueInv

LEMMA CancelKeepsQueue ==
  ASSUME QueueInv, StageInv, NEW t \in Turns, CancelResponse(t)
  PROVE  QueueInv'
<1>1. PICK n \in DOMAIN queue :
        queue[n] = t /\ queue' = SubSeq(queue, 1, n - 1) \o SubSeq(queue, n + 1, Len(queue))
  BY DEF CancelResponse
<1>2. /\ queue \in Seq(Requests) /\ n \in 1 .. Len(queue) /\ Len(queue) \in Nat
      /\ DOMAIN queue = 1 .. Len(queue)
  BY DEF QueueInv
<1> DEFINE a == SubSeq(queue, 1, n - 1)
           b == SubSeq(queue, n + 1, Len(queue))
           From(i) == IF i < n THEN i ELSE i + 1
<1>3. /\ a \in Seq(Requests) /\ b \in Seq(Requests)
      /\ Len(a) = n - 1 /\ Len(b) = Len(queue) - n
  BY <1>2
<1>4. /\ \A i \in 1 .. n - 1 : a[i] = queue[i]
      /\ \A i \in 1 .. Len(queue) - n : b[i] = queue[i + n]
  BY <1>2
<1>q. queue' = a \o b
  BY <1>1
<1> HIDE DEF a, b
<1>5. /\ queue' \in Seq(Requests) /\ Len(queue') = Len(queue) - 1
      /\ DOMAIN queue' = 1 .. Len(queue) - 1
  <2>1. a \o b \in Seq(Requests) /\ Len(a \o b) = Len(a) + Len(b)
    BY <1>3
  <2>2. (n - 1) + (Len(queue) - n) = Len(queue) - 1
    BY <1>2
  <2>3. queue' \in Seq(Requests) /\ Len(queue') = Len(queue) - 1
    BY <1>3, <1>q, <2>1, <2>2
  <2>4. DOMAIN queue' = 1 .. Len(queue')
    BY <2>3
  <2>5. QED BY <2>3, <2>4
<1>6. \A i \in DOMAIN queue' : queue'[i] = queue[From(i)]
  <2>1. SUFFICES ASSUME NEW i \in 1 .. Len(queue) - 1 PROVE queue'[i] = queue[From(i)]
    BY <1>5
  <2>2. CASE i < n
    BY <1>2, <1>3, <1>4, <1>q, <2>2
  <2>3. CASE ~(i < n)
    <3>1. queue'[i] = b[i - (n - 1)] /\ i - (n - 1) \in 1 .. Len(queue) - n
      BY <1>2, <1>3, <1>q, <2>3
    <3>2. b[i - (n - 1)] = queue[i - (n - 1) + n] /\ i - (n - 1) + n = i + 1
      BY <1>2, <1>4, <3>1
    <3>3. QED BY <2>3, <3>1, <3>2
  <2>4. QED BY <2>2, <2>3
<1>7. \A i \in DOMAIN queue' : From(i) \in DOMAIN queue /\ From(i) # n
  BY <1>2, <1>5
<1>8. \A i, j \in DOMAIN queue' : From(i) = From(j) => i = j
  BY <1>2, <1>5
<1> HIDE DEF From
<1>9. \A i \in DOMAIN queue' : queue'[i] # t /\ queue'[i] \in Requests
  <2>1. SUFFICES ASSUME NEW i \in DOMAIN queue' PROVE queue'[i] # t /\ queue'[i] \in Requests
    OBVIOUS
  <2>2. queue'[i] = queue[From(i)] /\ From(i) \in DOMAIN queue /\ From(i) # n
    BY <1>6, <1>7
  <2>3. queue'[i] # t
    BY <1>1, <2>2 DEF QueueInv
  <2>4. QED BY <1>5, <2>3
<1>10. stage' = [stage EXCEPT ![t] = "dropped"]
  BY DEF CancelResponse, MoveTo
<1>11. \A i \in DOMAIN queue' : stage'[queue'[i]] = stage[queue'[i]]
  BY <1>9, <1>10 DEF StageInv
<1>12. \A i \in DOMAIN queue' : stage'[queue'[i]] \in Queued
  BY <1>6, <1>7, <1>11 DEF QueueInv
<1>13. \A i, j \in DOMAIN queue' : queue'[i] = queue'[j] => i = j
  BY <1>6, <1>7, <1>8 DEF QueueInv
<1>14. QED BY <1>5, <1>12, <1>13 DEF QueueInv

----------------------------------------------------------------------------
(* The steps of the service.                                               *)

LEMMA ServerInitInv == Init => ServerInv
<1> SUFFICES ASSUME Init PROVE ServerInv
  OBVIOUS
<1>1. ClientInv
  BY ClientInitInv DEF Init
<1>2. StageInv /\ QueueInv
  BY ServiceAssumption DEF Init, StageInv, QueueInv, Stages, Over, Requests
<1>3. Holders = {} /\ Constructing = {} /\ Assigning = {}
  BY DEF Init, Holders, Constructing, Assigning, OnThread, Requests
<1>4. Cardinality(Holders) = 0 /\ Cardinality(Constructing) = 0 /\ Cardinality(Assigning) = 0
  BY <1>3, FS_EmptySet, Zenon
<1>5. CountInv
  <2>1. built = 0 /\ singleton \in BOOLEAN /\ Threads \in Nat
    BY ServiceAssumption DEF Init
  <2>2. /\ Cardinality(Holders) <= Threads
        /\ built + Cardinality(Constructing) <= Threads
    BY <1>4, <2>1
  <2>3. QED BY <1>4, <2>1, <2>2 DEF CountInv
<1>6. QED BY <1>1, <1>2, <1>5 DEF ServerInv

LEMMA DieKeepsInv ==
  ASSUME ServerInv, Die
  PROVE  ServerInv'
<1>1. ClientInv'
  BY ClientResets DEF ServerInv, Die
<1>2. StageInv'
  <2>1. deaths' \in 0 .. MaxDeaths /\ left' \in [Turns -> 0 .. MaxFrames] /\ gone' \in [Turns -> BOOLEAN]
    BY ServiceAssumption DEF ServerInv, StageInv, Die
  <2>2. stage' \in [Requests -> Over]
    BY DEF Die, Over
  <2>3. QED BY <2>1, <2>2 DEF StageInv, Stages, Over, Requests
<1>q. QueueInv'
  BY DEF Die, QueueInv
<1>3. Holders' = {} /\ Constructing' = {} /\ Assigning' = {}
  BY DEF ServerInv, StageInv, Die, Holders, Constructing, Assigning, OnThread, Over, Requests
<1>4. Cardinality(Holders') = 0 /\ Cardinality(Constructing') = 0 /\ Cardinality(Assigning') = 0
  BY <1>3, FS_EmptySet, Zenon
<1>5. CountInv'
  <2>1. built' = 0 /\ singleton' \in BOOLEAN /\ Threads \in Nat
    BY ServiceAssumption DEF Die
  <2>2. /\ Cardinality(Holders') <= Threads
        /\ built' + Cardinality(Constructing') <= Threads
    BY <1>4, <2>1
  <2>3. QED BY <1>4, <2>1, <2>2 DEF CountInv
<1>6. QED BY <1>1, <1>2, <1>q, <1>5 DEF ServerInv

LEMMA GrantKeepsInv ==
  ASSUME ServerInv, Grant
  PROVE  ServerInv'
<1> DEFINE r == Head(queue)
<1>1. /\ r \in Requests /\ stage[r] \in Queued /\ MoveTo(r, Grants[stage[r]])
      /\ UNCHANGED <<clientVars, singleton, built, gone, left, deaths>>
      /\ Cardinality(Holders) < Threads
  BY DEF ServerInv, QueueInv, Grant
<1>2. /\ Grants[stage[r]] \in {"dependency", "turn", "frame", "probe"}
      /\ Grants[stage[r]] = "frame" => stage[r] = "to_frame"
  BY <1>1 DEF Grants, Queued
<1> HIDE DEF r
<1>3. ClientInv'
  BY <1>1, ClientStutters DEF ServerInv
<1>4. StageInv'
  BY <1>1, <1>2 DEF ServerInv, StageInv, MoveTo, Stages, OnThread, Requests
<1>5. QueueInv'
  BY GrantKeepsQueue DEF ServerInv
<1>6. CountInv'
  BY <1>1, <1>2, QuietMove DEF ServerInv, StageInv, Queued, Stages, OnThread
<1>7. QED BY <1>3, <1>4, <1>5, <1>6 DEF ServerInv

(* What does not move a request.                                           *)
LEMMA StillKeepsInv ==
  ASSUME ServerInv, ClientInv', UNCHANGED <<stage, queue, singleton, built, left, deaths>>,
         gone' \in [Turns -> BOOLEAN]
  PROVE  ServerInv'
BY DEF ServerInv, StageInv, QueueInv, CountInv, Holders, Constructing, Assigning

(* What puts a request in the queue or takes it off its thread.            *)
LEMMA SubmitKeepsInv ==
  ASSUME ServerInv, ClientInv', NEW r \in Requests, NEW s \in Queued, Submit(r, s),
         stage[r] \notin Queued, stage[r] \notin {"construct", "assign"},
         UNCHANGED <<singleton, built, gone, deaths>>, left' \in [Turns -> 0 .. MaxFrames],
         \A t \in Turns : t # r => left'[t] = left[t],
         r \in Turns /\ s = "to_frame" => left'[r] > 0
  PROVE  ServerInv'
<1>1. QueueInv'
  BY SubmitKeepsQueue DEF ServerInv
<1>2. MoveTo(r, s) /\ s \in Stages /\ s \notin OnThread /\ s \notin {"construct", "assign", "frame"}
  BY DEF Submit, Queued, Stages, OnThread
<1>3. StageInv'
  BY <1>2 DEF ServerInv, StageInv, MoveTo
<1>4. CountInv'
  BY <1>2, QuietMove DEF ServerInv, StageInv
<1>5. QED BY <1>1, <1>3, <1>4 DEF ServerInv

LEMMA LeaveKeepsInv ==
  ASSUME ServerInv, UNCHANGED clientVars, NEW r \in Requests, NEW s \in Stages, Leave(r, s),
         stage[r] \notin Queued, s \notin {"to_frame", "frame"}, CountInv',
         UNCHANGED deaths, left' \in [Turns -> 0 .. MaxFrames], gone' \in [Turns -> BOOLEAN],
         \A t \in Turns : t # r => left'[t] = left[t]
  PROVE  ServerInv'
<1>1. QueueInv'
  BY LeaveKeepsQueue DEF ServerInv
<1>2. StageInv'
  BY DEF ServerInv, StageInv, Leave, MoveTo
<1>3. ClientInv'
  BY ClientStutters DEF ServerInv
<1>4. QED BY <1>1, <1>2, <1>3 DEF ServerInv

LEMMA TurnKeepsInv ==
  ASSUME ServerInv, NEW t \in Turns,
         Arrive(t) \/ TurnWork(t) \/ Provider(t) \/ HangUp(t) \/ CancelResponse(t)
  PROVE  ServerInv'
<1> USE DEF ServerInv
<1>0. /\ t \in Requests /\ stage \in [Requests -> Stages]
      /\ left \in [Turns -> 0 .. MaxFrames] /\ gone \in [Turns -> BOOLEAN] /\ MaxFrames \in Nat
  BY ServiceAssumption DEF Requests, StageInv
<1>a. CASE Arrive(t)
  <2>1. stage[t] \in Over /\ UNCHANGED clientVars
    BY <1>a DEF Arrive
  <2>2. ClientInv'
    BY <2>1, ClientStutters
  <2>3. QED BY <1>0, <1>a, <2>1, <2>2, SubmitKeepsInv DEF Arrive, Over, Queued
<1>b. CASE ReadSingleton(t)
  <2>1. CountInv'
    BY <1>b, ReadSingletonCounts
  <2>2. /\ (IF singleton THEN "body" ELSE "construct") \in Stages
        /\ (IF singleton THEN "body" ELSE "construct") \notin {"to_frame", "frame"}
    BY DEF Stages, OnThread
  <2>3. QED BY <1>0, <1>b, <2>1, <2>2, LeaveKeepsInv DEF ReadSingleton, Queued
<1>c. CASE Construct(t)
  <2>1. CountInv'
    BY <1>c, ConstructCounts
  <2>2. "assign" \in Stages /\ "error_500" \in Stages
    BY DEF Stages, OnThread, Over
  <2>3. CASE Leave(t, "assign") /\ UNCHANGED gone
    BY <1>0, <1>c, <2>1, <2>2, <2>3, LeaveKeepsInv DEF Construct, Queued
  <2>4. CASE Leave(t, "error_500") /\ CallerIsServed(t)
    BY <1>0, <1>c, <2>1, <2>2, <2>4, LeaveKeepsInv DEF Construct, CallerIsServed, Queued
  <2>5. QED BY <1>c, <2>3, <2>4 DEF Construct
<1>d. CASE Assign(t)
  <2>1. CountInv'
    BY <1>d, AssignCounts
  <2>2. "body" \in Stages
    BY DEF Stages
  <2>3. QED BY <1>0, <1>d, <2>1, <2>2, LeaveKeepsInv DEF Assign, Queued
<1>e. CASE ReadBody(t)
  <2>1. stage[t] = "body" /\ UNCHANGED clientVars
    BY <1>e DEF ReadBody
  <2>2. ClientInv'
    BY <2>1, ClientStutters
  <2>3. CASE Submit(t, "to_turn") /\ UNCHANGED left
    BY <1>0, <1>e, <2>1, <2>2, <2>3, SubmitKeepsInv DEF ReadBody, Queued
  <2>4. CASE Submit(t, "to_frame") /\ left' = [left EXCEPT ![t] = 1]
    <3>1. left' \in [Turns -> 0 .. MaxFrames] /\ left'[t] > 0
      BY <1>0, <2>4, ServiceAssumption
    <3>2. QED BY <1>0, <1>e, <2>1, <2>2, <2>4, <3>1, SubmitKeepsInv DEF ReadBody, Queued
  <2>5. QED BY <1>e, <2>3, <2>4 DEF ReadBody
<1>f. CASE AskModel(t) \/ Client(t) \/ Provider(t)
  <2>1. ClientStep /\ UNCHANGED serverVars
    BY <1>f DEF AskModel, Client, Provider, ClientStep
  <2>2. ClientInv'
    BY <2>1, ClientStepKeepsInv
  <2>3. QED BY <1>0, <2>1, <2>2, StillKeepsInv DEF serverVars
<1>g. CASE EndTurn(t)
  <2>1. ClientInv'
    BY <1>g, ClientStepKeepsInv DEF EndTurn, ClientStep
  <2>2. PICK n \in 1 .. MaxFrames : left' = [left EXCEPT ![t] = n]
    BY <1>g DEF EndTurn
  <2>3. left' \in [Turns -> 0 .. MaxFrames] /\ left'[t] > 0
    BY <1>0, <2>2
  <2>4. stage[t] \in Running
    BY <1>g DEF EndTurn
  <2>5. QED BY <1>0, <1>g, <2>1, <2>2, <2>3, <2>4, SubmitKeepsInv DEF EndTurn, Running, Queued
<1>h. CASE SendFrame(t)
  <2>1. /\ stage[t] = "frame" /\ UNCHANGED clientVars /\ left[t] > 0
        /\ left' = [left EXCEPT ![t] = left[t] - 1]
    BY <1>0, <1>h DEF SendFrame, StageInv
  <2>2. ClientInv'
    BY <2>1, ClientStutters
  <2>3. left' \in [Turns -> 0 .. MaxFrames] /\ left'[t] = left[t] - 1
    BY <1>0, <2>1
  <2>4. CASE left[t] = 1
    <3>1. "answered" \in Stages /\ "answered" \notin OnThread
      BY DEF Stages, Over, OnThread
    <3>2. Leave(t, "answered") /\ gone' = [gone EXCEPT ![t] = FALSE]
      BY <1>h, <2>4 DEF SendFrame, CallerIsServed
    <3>3. CountInv'
      BY <1>0, <1>h, <2>1, <3>1, <3>2, QuietMove DEF SendFrame, Leave
    <3>4. QED BY <1>0, <1>h, <2>1, <2>3, <3>1, <3>2, <3>3, LeaveKeepsInv DEF SendFrame, Queued
  <2>5. CASE left[t] # 1
    <3>1. Submit(t, "to_frame") /\ left'[t] > 0
      BY <1>0, <1>h, <2>1, <2>3, <2>5 DEF SendFrame
    <3>2. QED BY <1>0, <1>h, <2>1, <2>2, <2>3, <2>5, <3>1, SubmitKeepsInv DEF SendFrame, Queued
  <2>6. QED BY <2>4, <2>5
<1>i. CASE HangUp(t)
  <2>1. ClientInv'
    BY <1>i, ClientStutters DEF HangUp
  <2>2. QED BY <1>0, <1>i, <2>1, StillKeepsInv DEF HangUp
<1>j. CASE CancelResponse(t)
  <2>1. /\ stage[t] = "to_frame" /\ MoveTo(t, "dropped") /\ UNCHANGED <<clientVars, singleton, built, deaths>>
        /\ gone' = [gone EXCEPT ![t] = FALSE] /\ left' = [left EXCEPT ![t] = 0]
    BY <1>j DEF CancelResponse, CallerIsServed
  <2>2. QueueInv'
    BY <1>j, CancelKeepsQueue
  <2>3. "dropped" \in Stages /\ "dropped" \notin OnThread
    BY DEF Stages, Over, OnThread
  <2>4. CountInv'
    BY <1>0, <2>1, <2>3, QuietMove
  <2>5. StageInv'
    BY <1>0, <2>1, <2>3 DEF StageInv, MoveTo
  <2>6. QED BY <2>1, <2>2, <2>4, <2>5, ClientStutters
<1>k. QED BY <1>a, <1>b, <1>c, <1>d, <1>e, <1>f, <1>g, <1>h, <1>i, <1>j DEF TurnWork

LEMMA ProbeKeepsInv ==
  ASSUME ServerInv, NEW p \in Probes, Probe(p) \/ AnswerProbe(p)
  PROVE  ServerInv'
<1>0. /\ p \in Requests /\ p \notin Turns /\ stage \in [Requests -> Stages]
      /\ left \in [Turns -> 0 .. MaxFrames] /\ gone \in [Turns -> BOOLEAN]
  BY ServiceAssumption DEF Requests, ServerInv, StageInv
<1>1. UNCHANGED clientVars
  BY DEF Probe, AnswerProbe
<1>2. ClientInv'
  BY <1>1, ClientStutters DEF ServerInv
<1>3. CASE Probe(p)
  BY <1>0, <1>2, <1>3, SubmitKeepsInv DEF Probe, Over, Queued
<1>4. CASE AnswerProbe(p)
  <2>1. "answered" \in Stages /\ "answered" \notin OnThread /\ stage[p] = "probe"
    BY <1>4 DEF Stages, Over, OnThread, AnswerProbe
  <2>2. CountInv'
    BY <1>0, <1>4, <2>1, QuietMove DEF ServerInv, AnswerProbe, Leave, OnThread
  <2>3. QED BY <1>0, <1>1, <1>4, <2>1, <2>2, LeaveKeepsInv DEF AnswerProbe, Queued
<1>5. QED BY <1>3, <1>4

LEMMA NextKeepsInv == ServerInv /\ [Next]_vars => ServerInv'
<1>1. CASE Next
  BY <1>1, GrantKeepsInv, DieKeepsInv, TurnKeepsInv, ProbeKeepsInv DEF Next
<1>2. ASSUME ServerInv, UNCHANGED vars PROVE ServerInv'
  <2>1. ClientInv' /\ gone' \in [Turns -> BOOLEAN]
    BY <1>2, ClientStutters DEF vars, serverVars, ServerInv, StageInv
  <2>2. QED BY <1>2, <2>1, StillKeepsInv DEF vars, serverVars
<1>3. QED BY <1>1, <1>2

----------------------------------------------------------------------------
(* What follows for every run of the service.                              *)

(* The inductive invariant: the accounting of provider calls at each       *)
(* control point of decide, and of clients built at each of the unlocked   *)
(* singleton (model.py:218-359, server.py:45-56).                          *)
THEOREM ServerInvHolds == Spec => []ServerInv
<1>1. QED BY ServerInitInv, NextKeepsInv, PTL DEF Spec

(* Every reachable state of the service is well typed; in particular no    *)
(* turn is billed for a third provider call and no frame is sent that the  *)
(* response does not have (server.py:100-140, model.py:278-319).           *)
THEOREM ServerTypeCorrect == Spec => []ServerTypeOK
<1>1. ServerInv => ServerTypeOK
  BY DEF ServerInv, ClientInv, StageInv, QueueInv, CountInv, ServerTypeOK
<1>2. QED BY <1>1, ServerInvHolds, PTL

(* However many first requests race for the unlocked singleton, on however *)
(* many threads, they build at most one client each (server.py:45-56).     *)
THEOREM ClientShared == Spec => []ClientIsShared
<1>1. ServerInv => ClientIsShared
  <2>1. SUFFICES ASSUME ServerInv PROVE ClientIsShared
    OBVIOUS
  <2>2. Cardinality(Constructing) \in Nat
    BY <2>1, Counts DEF ServerInv, StageInv
  <2>3. QED BY <2>1, <2>2, ServiceAssumption DEF ServerInv, CountInv, ClientIsShared
<1>2. QED BY <1>1, ServerInvHolds, PTL

(* A turn that gives up forced the tool exactly when the first answer was  *)
(* prose, whatever the provider may answer (model.py:278-292, 362-369).    *)
THEOREM GivesUp == Spec => []GivesUpInTime
<1>1. ServerInv => GivesUpInTime
  <2>1. SUFFICES ASSUME ServerInv, NEW t \in Turns, call[t] = "gave_up"
                 PROVE  LET first == responses[t][1]
                        IN  /\ ~Usable(Latest(t))
                            /\ Len(responses[t]) = 2 <=> (first.tool = "none" /\ HasText(first))
    BY DEF GivesUpInTime
  <2>2. CallInv(t) /\ Len(responses[t]) \in Nat
    BY <2>1 DEF ServerInv, ClientInv, ClientTypeOK
  <2>3. Len(responses[t]) = 1 \/ Len(responses[t]) = 2
    <3>1. Len(responses[t]) <= 2 /\ Len(responses[t]) > 0
      BY <2>1, <2>2 DEF CallInv, MaxCalls
    <3>2. \A n \in Nat : n <= 2 /\ n > 0 => n = 1 \/ n = 2
      OBVIOUS
    <3>3. QED BY <2>2, <3>1, <3>2
  <2>4. ~Usable(Latest(t)) /\ ~Retryable(t)
    BY <2>1, <2>2 DEF CallInv
  <2>5. CASE Len(responses[t]) = 2
    BY <2>1, <2>2, <2>4, <2>5 DEF CallInv
  <2>6. CASE Len(responses[t]) = 1
    BY <2>4, <2>6 DEF Retryable, Latest
  <2>7. QED BY <2>3, <2>5, <2>6
<1>2. QED BY <1>1, ServerInvHolds, PTL

----------------------------------------------------------------------------
(* The model client implements ChatModel: each step of the service is one  *)
(* of its steps or leaves what it sees alone.                              *)

Finished == {"idle", "decided", "failed", "gave_up"}

LEMMA PromiseOfStep ==
  ASSUME ServerInv, NEW t \in Turns,
         \/ StartCall(t) \/ ProviderAnswers(t) \/ ProviderFails(t)
         \/ ForceTool(t) \/ JudgeAnswer(t)
         \/ call[t] \in Finished /\ EndCall(t)
  PROVE  \/ Promise!Begin(t) \/ Promise!Call(t) \/ Promise!Bill(t)
         \/ Promise!Decide(t) \/ Promise!Raise(t) \/ UNCHANGED Promise!vars
<1>1. /\ CallInv(t) /\ Len(responses[t]) \in Nat
      /\ call \in [Turns -> Calls] /\ billed \in [Turns -> 0 .. 2] /\ usage \in [Turns -> 0 .. 2]
  BY DEF ServerInv, ClientInv, ClientTypeOK, MaxCalls
<1> USE DEF Answer, Calls, Waiting, MaxCalls
<1>2. CASE StartCall(t)
  <2>1. Promise!Call(t)
    BY <1>1, <1>2 DEF StartCall, Promise!Call
  <2>2. QED BY <2>1
<1>3. CASE ProviderAnswers(t)
  <2>1. billed[t] < 2
    <3>1. billed[t] = Len(responses[t])
      BY <1>1, <1>3 DEF ProviderAnswers, CallInv
    <3>2. responses[t] = <<>> \/ Len(responses[t]) = 1
      BY <1>1, <1>3 DEF ProviderAnswers, CallInv
    <3>3. Len(<<>>) = 0
      OBVIOUS
    <3>4. billed[t] = 0 \/ billed[t] = 1
      BY <3>1, <3>2, <3>3
    <3>5. QED BY <3>4
  <2>2. Promise!Bill(t)
    BY <1>1, <1>3, <2>1 DEF ProviderAnswers, AddUsage, Promise!Bill
  <2>3. QED BY <2>2
<1>4. CASE ProviderFails(t)
  <2>1. billed[t] < 2
    <3>1. billed[t] = Len(responses[t])
      BY <1>1, <1>4 DEF ProviderFails, CallInv
    <3>2. responses[t] = <<>> \/ Len(responses[t]) = 1
      BY <1>1, <1>4 DEF ProviderFails, CallInv
    <3>3. Len(<<>>) = 0
      OBVIOUS
    <3>4. billed[t] = 0 \/ billed[t] = 1
      BY <3>1, <3>2, <3>3
    <3>5. QED BY <3>4
  <2>2. PICK n \in 0 .. 1 : billed' = [billed EXCEPT ![t] = @ + n]
    BY <1>4 DEF ProviderFails
  <2>3. billed[t] + n \in {billed[t], billed[t] + 1} /\ billed[t] + n <= 2
    BY <1>1, <2>1
  <2>4. Promise!Raise(t)
    BY <1>1, <1>4, <2>2, <2>3 DEF ProviderFails, Promise!Raise
  <2>5. QED BY <2>4
<1>5. CASE ForceTool(t)
  <2>1. UNCHANGED Promise!vars
    BY <1>1, <1>5 DEF ForceTool, Promise!vars
  <2>2. QED BY <2>1
<1>6. CASE JudgeAnswer(t)
  <2>1. usage[t] = billed[t] /\ billed[t] > 0 /\ call[t] = "answered"
    BY <1>1, <1>6 DEF JudgeAnswer, CallInv
  <2>2. CASE Usable(Latest(t))
    <3>1. Promise!Decide(t)
      BY <1>1, <1>6, <2>1, <2>2 DEF JudgeAnswer, Promise!Decide
    <3>2. QED BY <3>1
  <2>3. CASE ~Usable(Latest(t))
    <3>1. Promise!Raise(t)
      <4>1. Answer(t)' = "raised" /\ \A u \in Turns : u # t => Answer(u)' = Answer(u)
        BY <1>1, <1>6, <2>3 DEF JudgeAnswer
      <4>2. /\ Answer(t) = "pending" /\ UNCHANGED <<billed, usage>>
            /\ \A u \in Turns : (call'[u] = "decided") <=> (call[u] = "decided")
        BY <1>1, <1>6, <2>1, <2>3 DEF JudgeAnswer
      <4>3. billed[t] \in {billed[t], billed[t] + 1} /\ billed[t] <= 2 /\ billed' = [billed EXCEPT ![t] = billed[t]]
        BY <1>1, <4>2
      <4>4. QED BY <4>1, <4>2, <4>3 DEF Promise!Raise
    <3>2. QED BY <3>1
  <2>4. QED BY <2>2, <2>3
<1>7. CASE call[t] \in Finished /\ EndCall(t)
  <2>1. Promise!Begin(t)
    BY <1>1, <1>7 DEF EndCall, Finished, Promise!Begin
  <2>2. QED BY <2>1
<1>8. QED BY <1>2, <1>3, <1>4, <1>5, <1>6, <1>7

LEMMA PromiseOfRest ==
  ASSUME ServerInv, Die \/ UNCHANGED clientVars
  PROVE  Promise!Abandon \/ UNCHANGED Promise!vars
<1>1. CASE Die
  BY <1>1 DEF Die, Answer, Promise!Abandon
<1>2. CASE UNCHANGED clientVars
  BY <1>2 DEF clientVars, Answer, Promise!vars
<1>3. QED BY <1>1, <1>2

LEMMA StepsOfClient ==
  ASSUME Next
  PROVE  \/ Die \/ UNCHANGED clientVars
         \/ \E t \in Turns : \/ StartCall(t) \/ ProviderAnswers(t) \/ ProviderFails(t)
                             \/ ForceTool(t) \/ JudgeAnswer(t)
                             \/ call[t] \in Finished /\ EndCall(t)
<1>1. CASE Grant \/ Die \/ \E p \in Probes : Probe(p) \/ AnswerProbe(p)
  BY <1>1 DEF Grant, Probe, AnswerProbe
<1>2. ASSUME NEW t \in Turns,
             \/ Arrive(t) \/ ReadSingleton(t) \/ Construct(t) \/ Assign(t) \/ ReadBody(t)
             \/ SendFrame(t) \/ HangUp(t) \/ CancelResponse(t)
      PROVE  UNCHANGED clientVars
  BY <1>2 DEF Arrive, ReadSingleton, Construct, Assign, ReadBody, SendFrame, HangUp, CancelResponse
<1>3. ASSUME NEW t \in Turns, AskModel(t) \/ Client(t) \/ Provider(t) \/ EndTurn(t)
      PROVE  \/ StartCall(t) \/ ProviderAnswers(t) \/ ProviderFails(t)
             \/ ForceTool(t) \/ JudgeAnswer(t)
             \/ call[t] \in Finished /\ EndCall(t)
  BY <1>3 DEF AskModel, Client, Provider, EndTurn, Finished
<1>4. QED BY <1>1, <1>2, <1>3 DEF Next, TurnWork

(* Whatever the provider answers, refuses or loses, the model client keeps *)
(* the promise the turn handler is built on: a decision reports every call *)
(* it was billed for, and they are at most two (model.py:275-311, 321-359).*)
THEOREM PromiseKept == Spec => DecidesAsPromised
<1>1. Init => Promise!Init
  BY DEF Init, ClientInit, Answer, Promise!Init
<1>2. ServerInv /\ [Next]_vars => [Promise!Next]_(Promise!vars)
  <2>1. SUFFICES ASSUME ServerInv, [Next]_vars PROVE Promise!Next \/ UNCHANGED Promise!vars
    OBVIOUS
  <2>2. CASE Next
    BY <2>1, <2>2, StepsOfClient, PromiseOfStep, PromiseOfRest DEF Promise!Next
  <2>3. CASE UNCHANGED vars
    BY <2>1, <2>3, PromiseOfRest DEF vars, Promise!Next
  <2>4. QED BY <2>1, <2>2, <2>3
<1>3. QED BY <1>1, <1>2, ServerInvHolds, PTL DEF Spec, DecidesAsPromised, Promise!Spec
=============================================================================
