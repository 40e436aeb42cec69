-------------------------------- MODULE Server --------------------------------
(***************************************************************************)
(* server.py: POST /invocations and GET /ping of one runtime process.  An  *)
(* async handler runs on the event loop; everything synchronous runs on a  *)
(* thread of a pool of Threads, in order of arrival: the get_chat_model    *)
(* dependency, handle_turn, every frame of a response, and ping itself.    *)
(* The pool, the loop and the health checker are FastAPI's, anyio's and    *)
(* the platform's; they are modelled as the handlers use them.             *)
(*                                                                         *)
(* handle_turn is one step here but for its model call, which may last     *)
(* forever.  It returns on every path (module Turn).                       *)
(***************************************************************************)
EXTENDS ModelClient, FiniteSets

CONSTANTS
  Probes,     \* health checks, each of them repeated for ever
  Threads,    \* threads of the pool
  MaxFrames,  \* frames of a response
  Hanging,    \* turns whose provider may never answer
  MaxDeaths   \* times the process dies and is started again

VARIABLES
  stage,      \* of every request
  queue,      \* the requests that wait for a thread
  singleton,  \* _model_singleton is set
  built,      \* model clients this process has built
  gone,       \* the caller has hung up
  left,       \* frames still to send
  deaths

serverVars == <<stage, queue, singleton, built, gone, left, deaths>>
vars == <<clientVars, serverVars>>

Requests == Turns \cup Probes

ASSUME ServiceAssumption ==
  /\ IsFiniteSet(Turns) /\ IsFiniteSet(Probes)
  /\ Turns \cap Probes = {}
  /\ Hanging \subseteq Turns
  /\ Threads \in Nat \ {0} /\ MaxFrames \in Nat \ {0} /\ MaxDeaths \in Nat

(* What a request holds a thread for, and what it queues for.              *)
OnThread == {"dependency", "construct", "assign", "turn", "frame", "probe"}
Queued   == {"to_dependency", "to_turn", "to_frame", "to_probe"}
Over     == {"none", "answered", "error_500", "dropped", "cut"}
Running  == {"turn", "inline"}
Stages   == OnThread \cup Queued \cup Over \cup {"body", "inline"}

Grants == [to_dependency |-> "dependency", to_turn |-> "turn",
           to_frame |-> "frame", to_probe |-> "probe"]

(* "inline" would be a turn on the event loop itself, which then serves    *)
(* nobody else: what server.py:129-136 is written to avoid.                *)
LoopIsFree == \A t \in Turns : stage[t] # "inline"

Holders == {r \in Requests : stage[r] \in OnThread}

ServerTypeOK ==
  /\ ClientTypeOK
  /\ stage \in [Requests -> Stages]
  /\ queue \in Seq(Requests)
  /\ singleton \in BOOLEAN
  /\ built \in Nat
  /\ gone \in [Turns -> BOOLEAN]
  /\ left \in [Turns -> 0 .. MaxFrames]
  /\ deaths \in 0 .. MaxDeaths

Init ==
  /\ ClientInit
  /\ stage = [r \in Requests |-> "none"]
  /\ queue = <<>>
  /\ singleton = FALSE
  /\ built = 0
  /\ gone = [t \in Turns |-> FALSE]
  /\ left = [t \in Turns |-> 0]
  /\ deaths = 0

----------------------------------------------------------------------------
(* The pool.                                                               *)

MoveTo(r, s) == stage' = [stage EXCEPT ![r] = s]

(* run_in_threadpool: the request waits behind everyone who came before.   *)
Submit(r, s) == MoveTo(r, s) /\ queue' = Append(queue, r)

Leave(r, s) == MoveTo(r, s) /\ UNCHANGED queue

CallerIsServed(t) == gone' = [gone EXCEPT ![t] = FALSE]

Grant ==
  /\ LoopIsFree
  /\ queue # <<>>
  /\ Cardinality(Holders) < Threads
  /\ MoveTo(Head(queue), Grants[stage[Head(queue)]])
  /\ queue' = Tail(queue)
  /\ UNCHANGED <<clientVars, singleton, built, gone, left, deaths>>

----------------------------------------------------------------------------
(* POST /invocations.  A finished request's name is free for the next.     *)

(* get_chat_model is a dependency: it runs before the handler does.        *)
Arrive(t) ==
  /\ LoopIsFree
  /\ stage[t] \in Over
  /\ Submit(t, "to_dependency")
  /\ UNCHANGED <<clientVars, singleton, built, gone, left, deaths>>

(* `if _model_singleton is None`, read without a lock.                     *)
ReadSingleton(t) ==
  /\ stage[t] = "dependency"
  /\ Leave(t, IF singleton THEN "body" ELSE "construct")
  /\ UNCHANGED <<clientVars, singleton, built, gone, left, deaths>>

(* The SDK client is built, or its constructor raises: no handler has      *)
(* started, so the framework answers.                                      *)
Construct(t) ==
  /\ stage[t] = "construct"
  /\ \/ Leave(t, "assign") /\ built' = built + 1 /\ UNCHANGED gone
     \/ Leave(t, "error_500") /\ CallerIsServed(t) /\ UNCHANGED built
  /\ UNCHANGED <<clientVars, singleton, left, deaths>>

(* Mutant: without `global`, the assignment is to a local.                 *)
AssignLocal(t) ==
  /\ stage[t] = "assign"
  /\ Leave(t, "body")
  /\ UNCHANGED <<clientVars, singleton, built, gone, left, deaths>>

Assign(t) ==
  /\ stage[t] = "assign"
  /\ singleton' = TRUE
  /\ Leave(t, "body")
  /\ UNCHANGED <<clientVars, built, gone, left, deaths>>

(* Mutant: handle_turn is called where it stands, on the event loop.       *)
ReadBodyInline(t) ==
  /\ stage[t] = "body"
  /\ Leave(t, "inline")
  /\ UNCHANGED <<clientVars, singleton, built, gone, left, deaths>>

(* request.json() on the event loop.  A body that is no JSON object, or    *)
(* does not arrive because the caller hung up, is answered with one frame. *)
ReadBody(t) ==
  /\ LoopIsFree
  /\ stage[t] = "body"
  /\ \/ Submit(t, "to_turn") /\ UNCHANGED left
     \/ Submit(t, "to_frame") /\ left' = [left EXCEPT ![t] = 1]
  /\ UNCHANGED <<clientVars, singleton, built, gone, deaths>>

(* handle_turn reaches model.decide; most kinds of turn do not.            *)
AskModel(t) ==
  /\ stage[t] \in Running
  /\ StartCall(t)
  /\ UNCHANGED serverVars

(* One step of decide, which needs its thread and nothing else.            *)
Provider(t) == (ProviderAnswers(t) \/ ProviderFails(t)) /\ UNCHANGED serverVars
Client(t)   == (ForceTool(t) \/ JudgeAnswer(t)) /\ UNCHANGED serverVars

(* handle_turn returns an emitter, whatever its model call did, and the    *)
(* locals of decide are gone.                                              *)
EndTurn(t) ==
  /\ stage[t] \in Running
  /\ call[t] \in {"idle", "decided", "failed", "gave_up"}
  /\ Submit(t, "to_frame")
  /\ \E n \in 1 .. MaxFrames : left' = [left EXCEPT ![t] = n]
  /\ EndCall(t)
  /\ UNCHANGED <<singleton, built, gone, deaths>>

(* iterate_in_threadpool: a thread per frame, so other work gets between.  *)
SendFrame(t) ==
  /\ stage[t] = "frame"
  /\ left' = [left EXCEPT ![t] = @ - 1]
  /\ IF left[t] = 1 THEN Leave(t, "answered") /\ CallerIsServed(t)
                    ELSE Submit(t, "to_frame") /\ UNCHANGED gone
  /\ UNCHANGED <<clientVars, singleton, built, deaths>>

(* The caller gives up waiting, and the thread that runs its turn is not   *)
(* told; only a response between two frames is cancelled.                  *)
HangUp(t) ==
  /\ stage[t] \notin Over
  /\ ~gone[t]
  /\ gone' = [gone EXCEPT ![t] = TRUE]
  /\ UNCHANGED <<clientVars, stage, queue, singleton, built, left, deaths>>

CancelResponse(t) ==
  /\ LoopIsFree
  /\ stage[t] = "to_frame"
  /\ gone[t]
  /\ MoveTo(t, "dropped")
  /\ \E n \in DOMAIN queue :
       /\ queue[n] = t
       /\ queue' = SubSeq(queue, 1, n - 1) \o SubSeq(queue, n + 1, Len(queue))
  /\ CallerIsServed(t)
  /\ left' = [left EXCEPT ![t] = 0]
  /\ UNCHANGED <<clientVars, singleton, built, deaths>>

----------------------------------------------------------------------------
(* GET /ping, and the process.                                             *)

(* Mutant: the health check resolves get_chat_model like everyone else.    *)
AnswerProbeWithModel(p) ==
  /\ stage[p] = "probe"
  /\ singleton
  /\ Leave(p, "answered")
  /\ UNCHANGED <<clientVars, singleton, built, gone, left, deaths>>

Probe(p) ==
  /\ LoopIsFree
  /\ stage[p] \in Over
  /\ Submit(p, "to_probe")
  /\ UNCHANGED <<clientVars, singleton, built, gone, left, deaths>>

AnswerProbe(p) ==
  /\ stage[p] = "probe"
  /\ Leave(p, "answered")
  /\ UNCHANGED <<clientVars, singleton, built, gone, left, deaths>>

(* The container dies and starts again, with nothing of before.            *)
Die ==
  /\ deaths < MaxDeaths
  /\ deaths' = deaths + 1
  /\ stage' = [r \in Requests |-> IF stage[r] \in Over THEN stage[r] ELSE "cut"]
  /\ queue' = <<>>
  /\ singleton' = FALSE
  /\ built' = 0
  /\ call' = [t \in Turns |-> "idle"]
  /\ responses' = [t \in Turns |-> <<>>]
  /\ billed' = [t \in Turns |-> 0]
  /\ usage' = [t \in Turns |-> 0]
  /\ gone' = [t \in Turns |-> FALSE]
  /\ left' = [t \in Turns |-> 0]

TurnWork(t) ==
  \/ ReadSingleton(t) \/ Construct(t) \/ Assign(t) \/ ReadBody(t)
  \/ AskModel(t) \/ Client(t) \/ EndTurn(t) \/ SendFrame(t)

Next ==
  \/ Grant \/ Die
  \/ \E t \in Turns : Arrive(t) \/ TurnWork(t) \/ Provider(t)
                       \/ HangUp(t) \/ CancelResponse(t)
  \/ \E p \in Probes : Probe(p) \/ AnswerProbe(p)

(* Threads get on with what they run and the loop with what is ready; a    *)
(* provider answers, refuses or times out, but for the Hanging.  Nobody    *)
(* has to call, hang up or die.                                            *)
Fairness ==
  /\ WF_vars(Grant)
  /\ \A t \in Turns : WF_vars(TurnWork(t))
  /\ \A t \in Turns \ Hanging : WF_vars(Provider(t))
  /\ \A p \in Probes : WF_vars(AnswerProbe(p))

Spec == Init /\ [][Next]_vars /\ Fairness

----------------------------------------------------------------------------
(* What the service promises.                                              *)

(* A health check is answered, whatever the turns in progress wait for and *)
(* whether or not a model client can be built: the process is never taken  *)
(* for dead because the model is slow (server.py:86-97, 129-136).          *)
ProbesAreAnswered ==
  \A p \in Probes : (stage[p] = "to_probe") ~> (stage[p] \in {"answered", "cut"})

(* A turn ends though the provider of another one never answers: sessions  *)
(* do not queue behind each other's model call (server.py:132-133, "flatten *)
(* the 3-concurrent-session cap (D6) to an effective 1").                  *)
TurnsAreIndependent ==
  \A t \in Turns \ Hanging : (stage[t] = "to_dependency") ~> (stage[t] \in Over)

(* The client is built on demand and then shared.  The check of the global *)
(* is not locked, so first requests may race; they build one client each   *)
(* at most, and no request after them builds another (server.py:45-56).    *)
ClientIsShared == built <= Threads

(* "Requests never surface a raw 500: a bad body or any failure becomes an *)
(* in-stream RUN_ERROR" (server.py:17-18).                                 *)
NoRaw500 == \A t \in Turns : stage[t] # "error_500"
=============================================================================
