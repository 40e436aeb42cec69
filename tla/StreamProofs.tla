---------------------------- MODULE StreamProofs ----------------------------
(***************************************************************************)
(* What the gateway makes of a turn's frames, proved for every instance:   *)
(* the frames follow the stream protocol, every delta applies to the copy  *)
(* the earlier ones left, and the copy is the runtime's own draft.         *)
(***************************************************************************)
EXTENDS FrameProofs

----------------------------------------------------------------------------
(* Induction, said of a set: the only form in which the provers can use it *)
(* is one without an operator for a parameter.                             *)

LEMMA NatSets ==
  ASSUME NEW T \in SUBSET Nat, 0 \in T, \A n \in T : n + 1 \in T
  PROVE  T = Nat
<1> DEFINE R == OpToRel(<, Nat)
<1>1. IsWellFoundedOn(R, Nat)
  BY NatLessThanWellFounded
<1>2. \A m, n \in Nat : <<m, n>> \in R <=> m < n
  BY Zenon DEF OpToRel
<1> HIDE DEF R
<1>3. SUFFICES ASSUME Nat \ T # {} PROVE FALSE
  OBVIOUS
<1>4. PICK x \in Nat \ T : \A y \in Nat \ T : ~(<<y, x>> \in R)
  BY <1>1, <1>3, WFMin, Zenon
<1>5. x \in Nat /\ x \notin T
  BY <1>4
<1>6. x # 0 /\ x - 1 \in Nat /\ x - 1 < x
  BY <1>5
<1>7. x - 1 \in T
  BY <1>2, <1>4, <1>5, <1>6
<1>8. QED BY <1>5, <1>6, <1>7

(* The same up to a bound.                                                 *)
LEMMA UpTo ==
  ASSUME NEW n \in Nat, NEW T, 0 \in T,
         \A i \in 1 .. n : i - 1 \in T => i \in T
  PROVE  0 .. n \subseteq T
<1> DEFINE S == {m \in Nat : m <= n => m \in T}
<1>1. 0 \in S
  OBVIOUS
<1>2. ASSUME NEW m \in S PROVE m + 1 \in S
  <2>1. m \in Nat /\ (m <= n => m \in T)
    OBVIOUS
  <2>2. m + 1 <= n => m + 1 \in 1 .. n /\ (m + 1) - 1 = m /\ m <= n
    BY <2>1
  <2>3. m + 1 <= n => m + 1 \in T
    BY <2>1, <2>2
  <2>4. QED BY <2>1, <2>3
<1> HIDE DEF S
<1>3. S = Nat
  BY <1>1, <1>2, NatSets DEF S
<1>4. QED BY <1>3 DEF S

----------------------------------------------------------------------------
(* Reading frames.                                                         *)

Reads(f, g, s, n) == f = [i \in 0 .. n |-> IF i = 0 THEN g ELSE Receive(f[i - 1], s[i])]

LEMMA ReadsExists ==
  ASSUME NEW g, NEW s, NEW n \in Nat
  PROVE  \E f : Reads(f, g, s, n)
<1> DEFINE T == {m \in Nat : \E f : Reads(f, g, s, m)}
<1>1. 0 \in T
  <2>1. Reads([i \in 0 .. 0 |-> g], g, s, 0)
    BY DEF Reads
  <2>2. QED BY <2>1
<1>2. ASSUME NEW m \in T PROVE m + 1 \in T
  <2>1. PICK f : Reads(f, g, s, m)
    OBVIOUS
  <2> DEFINE h == [i \in 0 .. m + 1 |->
                     IF i = m + 1 THEN Receive(f[m], s[m + 1]) ELSE f[i]]
  <2>2. \A i \in 0 .. m : h[i] = f[i]
    OBVIOUS
  <2>3. \A i \in 0 .. m : f[i] = IF i = 0 THEN g ELSE Receive(f[i - 1], s[i])
    BY <2>1 DEF Reads
  <2>4. ASSUME NEW i \in 0 .. m + 1
        PROVE  h[i] = IF i = 0 THEN g ELSE Receive(h[i - 1], s[i])
    <3>1. CASE i = m + 1
      BY <2>2, <3>1
    <3>2. CASE i # m + 1
      BY <2>2, <2>3, <3>2
    <3>3. QED BY <3>1, <3>2
  <2>5. Reads(h, g, s, m + 1)
    BY <2>4 DEF Reads
  <2> HIDE DEF h
  <2>6. QED BY <2>5
<1> HIDE DEF T
<1>3. T = Nat
  BY <1>1, <1>2, NatSets DEF T
<1>4. QED BY <1>3 DEF T

LEMMA ReceivesReads ==
  ASSUME NEW g, NEW s, Len(s) \in Nat
  PROVE  /\ Receives(g, s)[0] = g
         /\ \A i \in 1 .. Len(s) :
              Receives(g, s)[i] = Receive(Receives(g, s)[i - 1], s[i])
<1>1. \E f : Reads(f, g, s, Len(s))
  BY ReadsExists
<1>2. Reads(Receives(g, s), g, s, Len(s))
  BY <1>1 DEF Receives, Reads
<1> DEFINE f == Receives(g, s)
<1> HIDE DEF f
<1>3. f = [i \in 0 .. Len(s) |-> IF i = 0 THEN g ELSE Receive(f[i - 1], s[i])]
  BY <1>2 DEF Reads, f
<1>4. f[0] = g /\ \A i \in 1 .. Len(s) : f[i] = Receive(f[i - 1], s[i])
  BY <1>3
<1>5. QED BY <1>4 DEF f

(* A gateway that reads s and then t reads s \o t.                         *)
LEMMA ReceivesConcat ==
  ASSUME NEW S, NEW s \in Seq(S), NEW t \in Seq(S), NEW g,
         NEW m, m = Receives(g, s)[Len(s)]
  PROVE  /\ \A i \in 0 .. Len(s) : Receives(g, s \o t)[i] = Receives(g, s)[i]
         /\ \A j \in 0 .. Len(t) : Receives(g, s \o t)[Len(s) + j] = Receives(m, t)[j]
<1> DEFINE st == s \o t
           whole == Receives(g, st)
           front == Receives(g, s)
           back  == Receives(m, t)
<1>1. /\ Len(s) \in Nat /\ Len(t) \in Nat /\ Len(st) = Len(s) + Len(t)
      /\ \A i \in 1 .. Len(s) : st[i] = s[i]
      /\ \A j \in 1 .. Len(t) : st[Len(s) + j] = t[j]
  OBVIOUS
<1>2. m = front[Len(s)]
  OBVIOUS
<1> HIDE DEF st
<1>3. /\ whole[0] = g /\ \A i \in 1 .. Len(st) : whole[i] = Receive(whole[i - 1], st[i])
      /\ front[0] = g /\ \A i \in 1 .. Len(s) : front[i] = Receive(front[i - 1], s[i])
      /\ back[0] = m /\ \A i \in 1 .. Len(t) : back[i] = Receive(back[i - 1], t[i])
  <2>1. Len(st) \in Nat
    BY <1>1
  <2>2. whole[0] = g /\ \A i \in 1 .. Len(st) : whole[i] = Receive(whole[i - 1], st[i])
    BY <2>1, ReceivesReads
  <2>3. front[0] = g /\ \A i \in 1 .. Len(s) : front[i] = Receive(front[i - 1], s[i])
    BY <1>1, ReceivesReads
  <2>4. back[0] = m /\ \A i \in 1 .. Len(t) : back[i] = Receive(back[i - 1], t[i])
    BY <1>1, ReceivesReads
  <2>5. QED BY <2>2, <2>3, <2>4
<1> HIDE DEF whole, front, back
<1>4. \A i \in 0 .. Len(s) : whole[i] = front[i]
  <2> DEFINE T == {i \in 0 .. Len(s) : whole[i] = front[i]}
  <2>1. 0 \in T
    BY <1>1, <1>3
  <2>2. ASSUME NEW i \in 1 .. Len(s), i - 1 \in T PROVE i \in T
    <3>1. i \in 1 .. Len(st) /\ st[i] = s[i] /\ whole[i - 1] = front[i - 1]
      BY <1>1, <2>2
    <3>2. QED BY <1>3, <3>1
  <2> HIDE DEF T
  <2>3. 0 .. Len(s) \subseteq T
    BY <1>1, <2>1, <2>2, UpTo
  <2>4. QED BY <2>3 DEF T
<1>5. \A j \in 0 .. Len(t) : whole[Len(s) + j] = back[j]
  <2> DEFINE T == {j \in 0 .. Len(t) : whole[Len(s) + j] = back[j]}
  <2>1. 0 \in T
    <3>1. Len(s) \in 0 .. Len(s) /\ Len(s) + 0 = Len(s)
      BY <1>1
    <3>2. whole[Len(s)] = back[0]
      BY <1>3, <1>2, <1>4, <3>1
    <3>3. QED BY <1>1, <3>1, <3>2
  <2>2. ASSUME NEW j \in 1 .. Len(t), j - 1 \in T PROVE j \in T
    <3>1. /\ Len(s) + j \in 1 .. Len(st) /\ (Len(s) + j) - 1 = Len(s) + (j - 1)
          /\ st[Len(s) + j] = t[j] /\ whole[Len(s) + (j - 1)] = back[j - 1]
      BY <1>1, <2>2
    <3>2. QED BY <1>3, <3>1
  <2> HIDE DEF T
  <2>3. 0 .. Len(t) \subseteq T
    BY <1>1, <2>1, <2>2, UpTo
  <2>4. QED BY <2>3 DEF T
<1>6. QED BY <1>4, <1>5 DEF whole, front, back, st

----------------------------------------------------------------------------
(* What may be said of each frame, given the gateway that reads it.        *)

Faithful(g, e, in) ==
  LET after == Receive(g, e) IN
  /\ e.type = "STATE_DELTA" =>
       /\ Applies(g.config, e.patch)
       /\ e.patch.section # Keep => Proposable(after.config)
       /\ after.config.vertical # g.config.vertical =>
            /\ g.config.vertical \notin Verticals
            /\ after.config.vertical \in Verticals
            /\ ~in.edit => after.config.slug = BuildSlug(after.config.vertical)
  /\ e.type = "TOOL_CALL_ARGS" => e.config = after.config

(* The frames s take a gateway from g to h, each of them faithful.         *)
Leads(g, s, h, in) ==
  /\ s \in Seq(Event)
  /\ Receives(g, s)[Len(s)] = h
  /\ \A i \in 1 .. Len(s) : Faithful(Receives(g, s)[i - 1], s[i], in)

LEMMA LeadsConcat ==
  ASSUME NEW g, NEW m, NEW h, NEW s, NEW t, NEW in, Leads(g, s, m, in), Leads(m, t, h, in)
  PROVE  Leads(g, s \o t, h, in)
<1> DEFINE st == s \o t
<1>1. /\ s \in Seq(Event) /\ t \in Seq(Event) /\ st \in Seq(Event)
      /\ Len(s) \in Nat /\ Len(t) \in Nat /\ Len(st) = Len(s) + Len(t)
      /\ \A i \in 1 .. Len(s) : st[i] = s[i]
      /\ \A j \in 1 .. Len(t) : st[Len(s) + j] = t[j]
  BY DEF Leads
<1>2. m = Receives(g, s)[Len(s)]
  BY DEF Leads
<1>3. /\ \A i \in 0 .. Len(s) : Receives(g, st)[i] = Receives(g, s)[i]
      /\ \A j \in 0 .. Len(t) : Receives(g, st)[Len(s) + j] = Receives(m, t)[j]
  BY <1>1, <1>2, ReceivesConcat
<1> HIDE DEF st
<1>4. Receives(g, st)[Len(st)] = h
  BY <1>1, <1>3 DEF Leads
<1>5. ASSUME NEW i \in 1 .. Len(st) PROVE Faithful(Receives(g, st)[i - 1], st[i], in)
  <2>1. CASE i <= Len(s)
    <3>1. i \in 1 .. Len(s) /\ i - 1 \in 0 .. Len(s)
      BY <1>1, <2>1
    <3>2. st[i] = s[i] /\ Receives(g, st)[i - 1] = Receives(g, s)[i - 1]
      BY <1>1, <1>3, <3>1
    <3>3. QED BY <3>1, <3>2 DEF Leads
  <2>2. CASE ~(i <= Len(s))
    <3> DEFINE j == i - Len(s)
    <3>1. /\ j \in 1 .. Len(t) /\ j - 1 \in 0 .. Len(t)
          /\ i = Len(s) + j /\ i - 1 = Len(s) + (j - 1)
      BY <1>1, <2>2
    <3> HIDE DEF j
    <3>2. st[i] = t[j] /\ Receives(g, st)[i - 1] = Receives(m, t)[j - 1]
      BY <1>1, <1>3, <3>1
    <3>3. QED BY <3>1, <3>2 DEF Leads
  <2>3. QED BY <2>1, <2>2
<1>6. QED BY <1>1, <1>4, <1>5 DEF Leads, st

LEMMA LeadsOne ==
  ASSUME NEW e \in Event, NEW g, NEW in, Faithful(g, e, in)
  PROVE  Leads(g, <<e>>, Receive(g, e), in)
<1> DEFINE s == <<e>>
<1>1. s \in Seq(Event) /\ Len(s) = 1 /\ s[1] = e
  OBVIOUS
<1> HIDE DEF s
<1>2. Receives(g, s)[0] = g /\ Receives(g, s)[1] = Receive(g, e)
  <2>1. Receives(g, s)[1] = Receive(Receives(g, s)[1 - 1], s[1])
    BY <1>1, ReceivesReads
  <2>2. Receives(g, s)[0] = g /\ 1 - 1 = 0
    BY <1>1, ReceivesReads
  <2>3. QED BY <1>1, <2>1, <2>2
<1>3. \A i \in 1 .. Len(s) : i = 1 /\ i - 1 = 0
  BY <1>1
<1>4. QED BY <1>1, <1>2, <1>3 DEF Leads, s

LEMMA LeadsNone ==
  ASSUME NEW g, NEW in
  PROVE  Leads(g, <<>>, g, in)
<1>1. <<>> \in Seq(Event) /\ Len(<<>>) = 0 /\ 1 .. 0 = {}
  OBVIOUS
<1>2. Receives(g, <<>>)[0] = g
  BY <1>1, ReceivesReads
<1>3. QED BY <1>1, <1>2 DEF Leads

(* What each frame of the protocol does to a gateway in a stage that takes *)
(* it.                                                                     *)
LEMMA GrammarSteps ==
  /\ Grammar["unopened", "RUN_STARTED"] = "open"
  /\ Grammar["unopened", "RUN_ERROR"] = "failed"
  /\ Grammar["open", "TEXT_MESSAGE_START"] = "TEXT_MESSAGE_CONTENT"
  /\ Grammar["TEXT_MESSAGE_CONTENT", "TEXT_MESSAGE_CONTENT"] = "TEXT_MESSAGE_END"
  /\ Grammar["TEXT_MESSAGE_END", "TEXT_MESSAGE_END"] = "open"
  /\ Grammar["open", "TOOL_CALL_START"] = "TOOL_CALL_ARGS"
  /\ Grammar["TOOL_CALL_ARGS", "TOOL_CALL_ARGS"] = "TOOL_CALL_END"
  /\ Grammar["TOOL_CALL_END", "TOOL_CALL_END"] = "open"
  /\ Grammar["open", "STATE_SNAPSHOT"] = "open"
  /\ Grammar["open", "STATE_DELTA"] = "open"
  /\ Grammar["open", "RUN_FINISHED"] = "finished"
  /\ Grammar["open", "RUN_ERROR"] = "failed"
BY DEF Grammar, Frames

LEMMA ReceiveQuiet ==
  ASSUME NEW e, e.type \notin {"STATE_SNAPSHOT", "STATE_DELTA"}, NEW stage, NEW config
  PROVE  Receive(Synced(stage, config), e) = Synced(Grammar[stage, e.type], config)
BY DEF Receive, Synced

LEMMA ReceiveDelta ==
  ASSUME NEW e, e.type = "STATE_DELTA", NEW stage, NEW config, Applies(config, e.patch)
  PROVE  Receive(Synced(stage, config), e) =
           Synced(Grammar[stage, e.type], ApplyPatch(config, e.patch))
BY DEF Receive, Synced

LEMMA ReceiveSnapshot ==
  ASSUME NEW e, e.type = "STATE_SNAPSHOT", NEW stage, NEW config
  PROVE  Receive(Synced(stage, config), e) = Synced(Grammar[stage, e.type], e.config)
BY DEF Receive, Synced

----------------------------------------------------------------------------
(* What the emitter appends.                                               *)

(* Frames that say nothing of the draft.                                   *)
Passes(s, a, b, in) ==
  \A config : Leads(Synced(a, config), s, Synced(b, config), in)

LEMMA PassesConcat ==
  ASSUME NEW s, NEW t, NEW a, NEW b, NEW c, NEW in,
         Passes(s, a, b, in), Passes(t, b, c, in)
  PROVE  Passes(s \o t, a, c, in)
BY LeadsConcat DEF Passes

LEMMA QuietFrame ==
  ASSUME NEW e \in Event, e.type \notin {"STATE_SNAPSHOT", "STATE_DELTA", "TOOL_CALL_ARGS"},
         NEW a, NEW b, Grammar[a, e.type] = b, NEW in
  PROVE  Passes(<<e>>, a, b, in)
<1>1. SUFFICES ASSUME NEW config
               PROVE  Leads(Synced(a, config), <<e>>, Synced(b, config), in)
  BY DEF Passes
<1>2. Receive(Synced(a, config), e) = Synced(b, config)
  BY ReceiveQuiet
<1>3. Faithful(Synced(a, config), e, in)
  BY DEF Faithful
<1>4. QED BY <1>2, <1>3, LeadsOne

LEMMA ThreeFrames ==
  ASSUME NEW a \in Event, NEW b \in Event, NEW c \in Event
  PROVE  (<<a>> \o <<b>>) \o <<c>> = <<a, b, c>>
<1>1. <<a>> \o <<b>> = <<a, b>>
  BY TwoFrames
<1> DEFINE s == <<a, b>> \o <<c>>
           t == <<a, b, c>>
<1>2. s \in Seq(Event) /\ t \in Seq(Event) /\ Len(s) = 3 /\ Len(t) = 3
  OBVIOUS
<1>3. s[1] = t[1] /\ s[2] = t[2] /\ s[3] = t[3]
  OBVIOUS
<1> HIDE DEF s, t
<1>4. \A i \in 1 .. 3 : s[i] = t[i]
  BY <1>3
<1>5. s = t
  BY <1>2, <1>4
<1>6. QED BY <1>1, <1>5 DEF s, t

LEMMA MessagePasses ==
  ASSUME NEW in
  PROVE  Passes(Message, "open", "open", in)
<1> DEFINE a == [type |-> "TEXT_MESSAGE_START"]
           b == [type |-> "TEXT_MESSAGE_CONTENT"]
           c == [type |-> "TEXT_MESSAGE_END"]
<1>1. a \in Event /\ b \in Event /\ c \in Event
  BY DEF Event
<1>2. /\ a.type = "TEXT_MESSAGE_START" /\ b.type = "TEXT_MESSAGE_CONTENT"
      /\ c.type = "TEXT_MESSAGE_END" /\ Message = <<a, b, c>>
  BY DEF Message
<1> HIDE DEF a, b, c
<1>3. /\ Passes(<<a>>, "open", "TEXT_MESSAGE_CONTENT", in)
      /\ Passes(<<b>>, "TEXT_MESSAGE_CONTENT", "TEXT_MESSAGE_END", in)
      /\ Passes(<<c>>, "TEXT_MESSAGE_END", "open", in)
  BY <1>1, <1>2, QuietFrame, GrammarSteps
<1>4. Passes((<<a>> \o <<b>>) \o <<c>>, "open", "open", in)
  BY <1>3, PassesConcat
<1>5. QED BY <1>1, <1>2, <1>4, ThreeFrames

LEMMA RunStartedPasses ==
  ASSUME NEW in
  PROVE  Passes(RunStarted, "unopened", "open", in)
<1> DEFINE e == [type |-> "RUN_STARTED"]
<1>1. e \in Event /\ e.type = "RUN_STARTED" /\ RunStarted = <<e>>
  BY DEF Event, RunStarted
<1> HIDE DEF e
<1>2. QED BY <1>1, QuietFrame, GrammarSteps

(* An error is an end wherever one may come, and is never taken for one    *)
(* behind a terminal event.                                                *)
LEMMA RunErrorPasses ==
  ASSUME NEW code \in Codes, NEW in
  PROVE  /\ Passes(RunError(code), "unopened", "failed", in)
         /\ Passes(RunError(code), "open", "failed", in)
         /\ Passes(RunError(code), "finished", "broken", in)
<1> DEFINE e == [type |-> "RUN_ERROR", code |-> code]
<1>1. e \in Event /\ e.type = "RUN_ERROR" /\ RunError(code) = <<e>>
  BY DEF Event, RunError
<1> HIDE DEF e
<1>2. Grammar["finished", "RUN_ERROR"] = "broken"
  BY DEF Grammar, Frames
<1>3. QED BY <1>1, <1>2, QuietFrame, GrammarSteps

LEMMA RunFinishedPasses ==
  ASSUME NEW outcome, NEW reason, NEW step, NEW phase, NEW tool, NEW in,
         RunFinished(outcome, reason, step, phase, tool) \in Seq(Event)
  PROVE  /\ Passes(RunFinished(outcome, reason, step, phase, tool), "open", "finished", in)
         /\ \E e \in Elems(RunFinished(outcome, reason, step, phase, tool)) :
              e.type = "RUN_FINISHED"
<1> DEFINE e == [type |-> "RUN_FINISHED",
                 result |-> [outcome |-> outcome, reason |-> reason, step |-> step,
                             phase |-> phase, tool |-> tool, usage |-> usage]]
<1>1. e.type = "RUN_FINISHED" /\ RunFinished(outcome, reason, step, phase, tool) = <<e>>
  BY DEF RunFinished
<1> HIDE DEF e
<1>2. <<e>>[1] = e /\ Len(<<e>>) = 1 /\ <<e>> \in Seq(Event)
  BY <1>1
<1>3. e \in Event
  BY <1>2
<1>4. e \in Elems(<<e>>)
  BY DEF Elems
<1>5. QED BY <1>1, <1>3, <1>4, QuietFrame, GrammarSteps

LEMMA InterruptPasses ==
  ASSUME NEW reason, NEW step \in Steps \cup {NoStep}, NEW phase \in Phases,
         usage \in 0 .. MaxCalls, NEW in
  PROVE  /\ Passes(Interrupt(reason, step, phase), "open", "finished", in)
         /\ Interrupt(reason, step, phase) \in Seq(Event)
         /\ \E e \in Elems(Interrupt(reason, step, phase)) : e.type = "RUN_FINISHED"
<1>1. Interrupt(reason, step, phase) \in Seq(Event)
  BY InterruptIsFinal DEF Final
<1>2. QED BY <1>1, RunFinishedPasses DEF Interrupt

LEMMA ToolReplyPasses ==
  ASSUME NEW result, usage \in 0 .. MaxCalls, NEW in
  PROVE  Passes(ToolReply(result), "open", "finished", in)
<1>1. ToolReply(result) \in Seq(Event)
  BY ToolReplyIsFinal DEF Final
<1>2. Finalized \in Seq(Event) => Passes(Finalized, "open", "finished", in)
  BY RunFinishedPasses DEF Finalized
<1>3. \A step \in Steps \cup {NoStep} : \A reason \in Reasons :
        Passes(Interrupt(reason, step, NoPhase), "open", "finished", in)
  BY InterruptPasses, NoPhaseIsPhase
<1>4. QED BY <1>1, <1>2, <1>3 DEF ToolReply, Steps, Reasons

(* A tool call carries the draft, and only a gateway whose copy is that    *)
(* draft may be told so.                                                   *)
LEMMA RequestedLeads ==
  ASSUME NEW tool \in Tools, draft \in Config, usage \in 0 .. MaxCalls, NEW in
  PROVE  Leads(Synced("open", draft), Requested(tool),
               Synced("finished", draft), in)
<1> DEFINE a == [type |-> "TOOL_CALL_START", tool |-> tool]
           b == [type |-> "TOOL_CALL_ARGS", tool |-> tool, config |-> draft]
           c == [type |-> "TOOL_CALL_END", tool |-> tool]
           At(stage) == Synced(stage, draft)
<1>1. a \in Event /\ b \in Event /\ c \in Event
  BY DEF Event
<1>2. /\ a.type = "TOOL_CALL_START" /\ b.type = "TOOL_CALL_ARGS"
      /\ b.config = draft /\ c.type = "TOOL_CALL_END" /\ ToolCall(tool, draft) = <<a, b, c>>
  BY DEF ToolCall
<1> HIDE DEF a, b, c
<1>3. /\ Leads(At("open"), <<a>>, At("TOOL_CALL_ARGS"), in)
      /\ Leads(At("TOOL_CALL_END"), <<c>>, At("open"), in)
  BY <1>1, <1>2, QuietFrame, GrammarSteps DEF Passes
<1>4. Leads(At("TOOL_CALL_ARGS"), <<b>>, At("TOOL_CALL_END"), in)
  <2>1. Receive(At("TOOL_CALL_ARGS"), b) = At("TOOL_CALL_END")
    <3>1. Grammar["TOOL_CALL_ARGS", b.type] = "TOOL_CALL_END"
      BY <1>2, GrammarSteps
    <3>2. b.type \notin {"STATE_SNAPSHOT", "STATE_DELTA"}
      BY <1>2
    <3>3. Receive(At("TOOL_CALL_ARGS"), b)
            = Synced(Grammar["TOOL_CALL_ARGS", b.type], draft)
      BY <3>2, ReceiveQuiet
    <3>4. QED BY <3>1, <3>3
  <2>2. Faithful(At("TOOL_CALL_ARGS"), b, in)
    BY <1>2, <2>1 DEF Faithful, Synced
  <2>3. QED BY <1>1, <2>1, <2>2, LeadsOne
<1>5. Leads(At("open"), ToolCall(tool, draft), At("open"), in)
  <2>1. Leads(At("open"), <<a>> \o <<b>>, At("TOOL_CALL_END"), in)
    BY <1>3, <1>4, LeadsConcat
  <2>2. Leads(At("open"), (<<a>> \o <<b>>) \o <<c>>, At("open"), in)
    BY <1>3, <2>1, LeadsConcat
  <2>3. QED BY <1>1, <1>2, <2>2, ThreeFrames
<1>6. Passes(ToolRequested(tool), "open", "finished", in)
  <2>1. ToolRequested(tool) \in Seq(Event)
    BY RunFinishedIsFinal, NoPhaseIsPhase DEF ToolRequested, Final
  <2>2. QED BY <2>1, RunFinishedPasses DEF ToolRequested
<1>7. Leads(At("open"), ToolRequested(tool), At("finished"), in)
  BY <1>6 DEF Passes
<1> HIDE DEF At
<1>8. Leads(At("open"), Requested(tool), At("finished"), in)
  BY <1>5, <1>7, LeadsConcat DEF Requested
<1>9. QED BY <1>8 DEF At

(* The one frame that writes the draft: the gateway follows it, and the    *)
(* frame is faithful when the patch is what its handler promises.          *)
LEMMA DeltaLeads ==
  ASSUME NEW config, NEW patch \in Patch, NEW in,
         Applies(config, patch),
         LET after == ApplyPatch(config, patch)
         IN  /\ patch.section # Keep => Proposable(after)
             /\ after.vertical # config.vertical =>
                  /\ config.vertical \notin Verticals
                  /\ after.vertical \in Verticals
                  /\ ~in.edit => after.slug = BuildSlug(after.vertical)
  PROVE  Leads(Synced("open", config), StateDelta(patch),
               Synced("open", ApplyPatch(config, patch)), in)
<1> DEFINE e == [type |-> "STATE_DELTA", patch |-> patch]
           g == Synced("open", config)
           after == ApplyPatch(config, patch)
           h == Synced("open", after)
<1>1. e \in Event /\ e.type = "STATE_DELTA" /\ e.patch = patch /\ StateDelta(patch) = <<e>>
  BY DEF Event, StateDelta
<1> HIDE DEF e
<1>2. Grammar["open", e.type] = "open"
  BY <1>1, GrammarSteps
<1>3. Receive(g, e) = Synced(Grammar["open", e.type], ApplyPatch(config, e.patch))
  BY <1>1, ReceiveDelta
<1>4. Receive(g, e) = h
  BY <1>1, <1>2, <1>3
<1>5. g.config = config /\ h.config = after
  BY DEF Synced
<1> HIDE DEF g, h
<1>6. /\ patch.section # Keep => Proposable(after)
      /\ after.vertical # config.vertical =>
           /\ config.vertical \notin Verticals
           /\ after.vertical \in Verticals
           /\ ~in.edit => after.slug = BuildSlug(after.vertical)
  OBVIOUS
<1> HIDE DEF after
<1>7. Faithful(g, e, in)
  BY <1>1, <1>4, <1>5, <1>6 DEF Faithful
<1>8. Leads(g, <<e>>, h, in)
  BY <1>1, <1>4, <1>7, LeadsOne
<1>9. QED BY <1>1, <1>8 DEF g, h, after

(* _apply_vertical: the slug, where there is one to replace, is replaced   *)
(* in the same frame, and no section is touched (runtime.py:503-555).      *)
LEMMA VerticalLeads ==
  ASSUME NEW config \in Config, NEW vertical \in Verticals, NEW in, in.edit \in BOOLEAN,
         ~HasVertical(config),
         NEW patch, patch = VerticalWrite(config, vertical, in.edit)
  PROVE  /\ Leads(Synced("open", config), StateDelta(patch),
                  Synced("open", ApplyPatch(config, patch)), in)
         /\ ApplyPatch(config, patch).sections = config.sections
         /\ in.edit => ApplyPatch(config, patch).slug = config.slug
<1> DEFINE after == ApplyPatch(config, patch)
<1>1. patch \in Patch /\ patch.section = Keep
  BY VerticalWriteType
<1>2. /\ patch.vertical = vertical
      /\ patch.slugOp = "none" => in.edit \/ config.slug = BuildSlug(vertical)
      /\ patch.slugOp # "none" => ~in.edit /\ patch.slug = BuildSlug(vertical)
      /\ patch.slugOp = "replace" => config.slug # NoSlug
  BY DEF VerticalWrite, VerticalPatch
<1>3. Keep \notin Sections /\ vertical # Keep
  BY SectionIsNoMarker, VerticalsAssumption
<1>4. Applies(config, patch)
  BY <1>1, <1>2, <1>3 DEF Applies
<1>5. /\ after.vertical = vertical
      /\ after.slug = IF patch.slugOp = "none" THEN config.slug ELSE patch.slug
  BY <1>2, <1>3 DEF ApplyPatch
<1>6. after.sections = config.sections
  <2>1. after.sections = [s \in Sections |-> config.sections[s]]
    BY <1>1, <1>3 DEF ApplyPatch
  <2>2. config.sections \in [Sections -> Body]
    BY DEF Config
  <2>3. QED BY <2>1, <2>2
<1>7. /\ config.vertical \notin Verticals
      /\ ~in.edit => after.slug = BuildSlug(after.vertical)
      /\ in.edit => after.slug = config.slug
  BY <1>2, <1>5 DEF HasVertical
<1> HIDE DEF after
<1>8. Leads(Synced("open", config), StateDelta(patch),
            Synced("open", ApplyPatch(config, patch)), in)
  BY <1>1, <1>4, <1>5, <1>7, DeltaLeads DEF after
<1>9. QED BY <1>6, <1>7, <1>8 DEF after

(* set_section behind its gate: the patch was computed on the very copy it *)
(* is applied to, and a live skill keeps its slug and its knobs            *)
(* (draft.py:195-304, runtime.py:570-597).                                 *)
LEMMA SectionLeads ==
  ASSUME NEW config \in Config, NEW body \in Body, NEW in, in.edit \in BOOLEAN,
         NEW phase \in Sections \cup Members \cup {RootKey, UnknownKey},
         NEW patch, patch = SetSection(config, phase, body, in.edit),
         SectionIssues(ApplyPatch(config, patch)) = {}
  PROVE  /\ Leads(Synced("open", config), StateDelta(patch),
                  Synced("open", ApplyPatch(config, patch)), in)
         /\ ApplyPatch(config, patch).slug = config.slug
         /\ in.edit => \A s \in Sections :
              LET now == ApplyPatch(config, patch).sections[s]
              IN  now # config.sections[s] => now.knob = body.knob
<1> DEFINE after == ApplyPatch(config, patch)
<1>1. patch \in Patch /\ after \in Config
  BY SetSectionType, ApplyPatchType
<1>2. patch.vertical = Keep /\ patch.slugOp = "none"
  BY DEF SetSection, SectionPatch
<1>3. Proposable(after)
  BY <1>1, SectionGateIsSound DEF Proposable
<1>4. Applies(config, patch)
  <2>1. RootKey \notin Sections /\ UnknownKey \notin Sections
    BY SectionIsNoMarker
  <2>2. patch.section \in Sections => config.sections[patch.section] = patch.base
    BY <2>1 DEF SetSection, SectionPatch
  <2>3. QED BY <1>2, <2>2 DEF Applies
<1>5. after.vertical = config.vertical /\ after.slug = config.slug
  BY <1>2 DEF ApplyPatch
<1>6. Leads(Synced("open", config), StateDelta(patch),
            Synced("open", ApplyPatch(config, patch)), in)
  BY <1>1, <1>3, <1>4, <1>5, DeltaLeads
<1>7. ASSUME in.edit, NEW s \in Sections, after.sections[s] # config.sections[s]
      PROVE  after.sections[s].knob = body.knob
  <2>1. s = patch.section /\ after.sections[s] = patch.body
    BY <1>7 DEF ApplyPatch
  <2>2. UnwrapSelfNamed(body).knob = body.knob
    BY DEF UnwrapSelfNamed, Body
  <2>3. RootKey \notin Sections /\ UnknownKey \notin Sections
    BY SectionIsNoMarker
  <2>4. patch.body = UnwrapSelfNamed(body) \/ patch.body = body
    BY <1>7, <2>1, <2>3 DEF SetSection, SectionPatch, SectionBody
  <2>5. QED BY <2>1, <2>2, <2>4
<1>8. QED BY <1>5, <1>6, <1>7

----------------------------------------------------------------------------
(* The inductive invariant.                                                *)

Has(s, type) == \E e \in Elems(s) : e.type = type

(* The gateway that got the frames s of turn `in`.                         *)
Held(s, in, stage, config) ==
  Leads(Synced("unopened", in.config), s, Synced(stage, config), in)

(* Until the turn says that it finished, no section has changed.           *)
Stands(s, in, stage, config) ==
  /\ Held(s, in, stage, config)
  /\ Has(s, "RUN_FINISHED") \/ config.sections = in.config.sections

Ends(s, in, config) ==
  \E stage \in {"finished", "failed", "broken"} :
    /\ Stands(s, in, stage, config)
    /\ ContractsSound => stage # "broken"

(* A kickoff that failed over its own skeleton: the gateway never saw it.  *)
Abandoned(s, in) ==
  Held(s, in, "failed", in.config) /\ Has(s, "RUN_ERROR") /\ ~in.edit

(* A live skill keeps its slug and the knobs the model left alone.         *)
Kept(in, config, d) ==
  in.edit =>
    /\ config.slug = in.config.slug
    /\ \A s \in Sections :
         config.sections[s] # in.config.sections[s] => config.sections[s].knob = d.body.knob

CopyInv ==
  /\ pc = "parse" => Stands(events, input, "unopened", draft)
  /\ pc \notin {"parse", "prompt", "done"} => Stands(events, input, "open", draft)
  /\ pc = "prompt" => Stands(events, input, "finished", draft)
  /\ pc = "done" => Ends(events, input, draft) \/ Abandoned(events, input)
  /\ pc \notin {"apply", "prompt", "done"} => draft = input.config
  /\ Kept(input, draft, decision)

LEMMA HeldOn ==
  ASSUME NEW s, NEW t, NEW in, NEW a, NEW b, NEW config, NEW after,
         Held(s, in, a, config),
         Leads(Synced(a, config), t, Synced(b, after), in)
  PROVE  /\ Held(s \o t, in, b, after)
         /\ s \in Seq(Event) /\ t \in Seq(Event)
         /\ Elems(s \o t) = Elems(s) \cup Elems(t)
<1>1. s \in Seq(Event) /\ t \in Seq(Event)
  BY DEF Held, Leads
<1>2. Held(s \o t, in, b, after)
  BY LeadsConcat DEF Held
<1>3. QED BY <1>1, <1>2, ElemsConcat

LEMMA StandsOn ==
  ASSUME NEW s, NEW t, NEW in, NEW a, NEW b, NEW config,
         Stands(s, in, a, config),
         Leads(Synced(a, config), t, Synced(b, config), in)
  PROVE  Stands(s \o t, in, b, config)
BY HeldOn DEF Stands, Has

LEMMA MessageLeads ==
  ASSUME NEW t, NEW b, NEW config, NEW after, NEW in,
         Leads(Synced("open", config), t, Synced(b, after), in)
  PROVE  Leads(Synced("open", config), Message \o t, Synced(b, after), in)
BY MessagePasses, LeadsConcat DEF Passes

(* The handlers that only speak: one message, one terminal event.          *)
LEMMA CopySpeaks ==
  ASSUME CopyInv, pc \notin {"parse", "prompt", "done"},
         NEW t, NEW b \in {"finished", "failed"},
         Leads(Synced("open", draft), t, Synced(b, draft), input),
         events' = events \o (Message \o t) \/ events' = events \o t,
         UNCHANGED <<input, draft, decision>>,
         pc' = "done" \/ (pc' = "prompt" /\ b = "finished")
  PROVE  CopyInv'
<1>1. Leads(Synced("open", draft), Message \o t, Synced(b, draft), input)
  BY MessageLeads
<1>2. Stands(events', input, b, draft)
  BY <1>1, StandsOn DEF CopyInv
<1>3. Ends(events', input, draft)
  BY <1>2 DEF Ends
<1>4. QED BY <1>2, <1>3 DEF CopyInv

LEMMA CopyFails ==
  ASSUME CopyInv, pc \notin {"parse", "prompt", "done"},
         NEW code \in Codes, NEW t, t = RunError(code),
         events' = events \o (Message \o t) \/ events' = events \o t,
         UNCHANGED <<input, draft, decision>>, pc' = "done"
  PROVE  CopyInv'
BY RunErrorPasses, CopySpeaks DEF Passes

LEMMA RejectEnvelopeCopy == TurnInv /\ CopyInv /\ RejectEnvelope => CopyInv'
<1> SUFFICES ASSUME TurnInv, CopyInv, RejectEnvelope PROVE CopyInv'
  OBVIOUS
<1>1. /\ pc = "parse" /\ pc' = "done" /\ UNCHANGED <<input, draft, decision>>
      /\ events' = events \o RunError("invalid_input")
  BY DEF RejectEnvelope, Goto, Emit
<1>2. Stands(events', input, "failed", draft)
  BY <1>1, RunErrorPasses, StandsOn DEF CopyInv, Passes, Codes
<1>3. QED BY <1>1, <1>2 DEF CopyInv, Ends

LEMMA StartRunCopy == TurnInv /\ CopyInv /\ StartRun => CopyInv'
<1> SUFFICES ASSUME TurnInv, CopyInv, StartRun PROVE CopyInv'
  OBVIOUS
<1>1. /\ pc = "parse" /\ UNCHANGED <<input, draft, decision>>
      /\ events' = events \o RunStarted
      /\ pc' \in {"after_tool", "kickoff", "kickoff_edit", "continue"}
  BY DEF StartRun, Goto, Emit, Route
<1>2. Stands(events', input, "open", draft)
  BY <1>1, RunStartedPasses, StandsOn DEF CopyInv, Passes
<1>3. QED BY <1>1, <1>2 DEF CopyInv

LEMMA KickoffHitCopy == TurnInv /\ CopyInv /\ KickoffHit => CopyInv'
<1> SUFFICES ASSUME TurnInv, CopyInv, KickoffHit PROVE CopyInv'
  OBVIOUS
<1> DEFINE t == Interrupt("awaiting_decision", "connect_or_build", NoPhase)
<1>1. /\ pc = "kickoff" /\ pc' = "prompt" /\ UNCHANGED <<input, draft, decision>>
      /\ events' = events \o (Message \o t) /\ usage \in 0 .. MaxCalls
  BY DEF KickoffHit, Goto, Emit, TurnInv, TypeOK
<1>2. Passes(t, "open", "finished", input)
  BY <1>1, InterruptPasses, NoPhaseIsPhase DEF Steps
<1> HIDE DEF t
<1>3. QED BY <1>1, <1>2, CopySpeaks DEF Passes

(* The one handler whose draft and copy may part: the draft is the         *)
(* skeleton before anything is sent, and the snapshot is what carries it.  *)
LEMMA KickoffBuildCopy == TurnInv /\ FrameInv /\ CopyInv /\ KickoffBuild => CopyInv'
<1> SUFFICES ASSUME TurnInv, FrameInv, CopyInv, KickoffBuild PROVE CopyInv'
  OBVIOUS
<1> DEFINE skeleton == Skeleton(input.vertical)
           confirm  == Interrupt("awaiting_decision", "kickoff_confirmation", NoPhase)
           snapshot == StateSnapshot(skeleton, input.acceptance)
           opened   == snapshot \o confirm
           failure  == RunError("internal_error")
<1>1. /\ pc = "kickoff" /\ usage \in 0 .. MaxCalls /\ ~input.edit
      /\ input.acceptance \in Acceptance /\ input.vertical \in Verticals \cup {NoVertical}
  BY DEF KickoffBuild, FrameInv, FlowInv, TurnInv, TypeOK, Input
<1>2. skeleton \in Config /\ SchemaIssues(skeleton, FALSE) = {}
  BY <1>1, SkeletonType
<1>3. /\ draft' = skeleton /\ UNCHANGED <<input, decision>>
      /\ \/ pc' = "prompt" /\ events' = events \o (Message \o opened)
         \/ pc' = "done" /\ events' = events \o (Message \o failure)
  BY <1>2 DEF KickoffBuild, Crash, Emit
<1>4. Held(events, input, "open", draft) /\ draft = input.config
  BY <1>1 DEF CopyInv, Stands
<1>5. Passes(confirm, "open", "finished", input) /\ Has(confirm, "RUN_FINISHED")
  BY <1>1, InterruptPasses, NoPhaseIsPhase DEF Steps, Has
<1>6. Leads(Synced("open", draft), snapshot, Synced("open", skeleton), input)
  <2> DEFINE e == [type |-> "STATE_SNAPSHOT", config |-> skeleton,
                   acceptance |-> input.acceptance]
  <2>1. /\ e \in Event /\ e.type = "STATE_SNAPSHOT" /\ e.config = skeleton
        /\ snapshot = <<e>>
    BY <1>1, <1>2 DEF StateSnapshot, Event
  <2> HIDE DEF e, snapshot, skeleton
  <2>2. Grammar["open", e.type] = "open"
    BY <2>1, GrammarSteps
  <2>3. Receive(Synced("open", draft), e) =
          Synced(Grammar["open", e.type], e.config)
    BY <2>1, ReceiveSnapshot
  <2>4. Faithful(Synced("open", draft), e, input)
    BY <2>1 DEF Faithful
  <2>5. QED BY <2>1, <2>2, <2>3, <2>4, LeadsOne
<1> HIDE DEF skeleton, confirm, snapshot
<1>7. CASE pc' = "prompt" /\ events' = events \o (Message \o opened)
  <2>1. Leads(Synced("open", skeleton), confirm,
              Synced("finished", skeleton), input)
    BY <1>5 DEF Passes
  <2>2. Leads(Synced("open", draft), opened, Synced("finished", skeleton), input)
    BY <1>6, <2>1, LeadsConcat
  <2>3. Leads(Synced("open", draft), Message \o opened,
              Synced("finished", skeleton), input)
    BY <2>2, MessageLeads
  <2>4. /\ Elems(opened) = Elems(snapshot) \cup Elems(confirm)
        /\ Elems(Message \o opened) = Elems(Message) \cup Elems(opened)
    <3>1. snapshot \in Seq(Event) /\ confirm \in Seq(Event)
      BY <1>6, <2>1 DEF Leads
    <3>2. opened \in Seq(Event)
      BY <2>2 DEF Leads
    <3>3. Message \in Seq(Event)
      BY MessageIsInert DEF Inert
    <3>4. Elems(snapshot \o confirm) = Elems(snapshot) \cup Elems(confirm)
      BY <3>1, ElemsConcat
    <3>5. Elems(Message \o opened) = Elems(Message) \cup Elems(opened)
      <4> HIDE DEF opened
      <4>1. QED BY <3>2, <3>3, ElemsConcat
    <3>6. QED BY <3>4, <3>5
  <2>5. /\ Held(events', input, "finished", skeleton)
        /\ Elems(events') = Elems(events) \cup Elems(Message \o opened)
    BY <1>4, <1>7, <2>3, HeldOn
  <2>6. Stands(events', input, "finished", skeleton)
    BY <1>5, <2>4, <2>5 DEF Stands, Has
  <2>7. QED BY <1>1, <1>3, <1>7, <2>6 DEF CopyInv, Kept
<1>8. CASE pc' = "done" /\ events' = events \o (Message \o failure)
  <2>1. Leads(Synced("open", draft), failure, Synced("failed", draft), input)
    BY RunErrorPasses DEF Passes, Codes
  <2>2. \E e \in Elems(failure) : e.type = "RUN_ERROR"
    BY DEF RunError, Elems
  <2> HIDE DEF failure
  <2>3. Leads(Synced("open", draft), Message \o failure,
              Synced("failed", draft), input)
    BY <2>1, MessageLeads
  <2>4. Elems(Message \o failure) = Elems(Message) \cup Elems(failure)
    BY <2>1, MessagePasses, ElemsConcat DEF Leads, Passes
  <2>5. /\ Held(events', input, "failed", input.config)
        /\ Elems(events') = Elems(events) \cup Elems(Message \o failure)
    BY <1>4, <1>8, <2>3, HeldOn
  <2>6. Abandoned(events', input)
    BY <1>1, <2>2, <2>4, <2>5 DEF Abandoned, Has
  <2>7. QED BY <1>1, <1>3, <1>8, <2>6 DEF CopyInv, Kept
<1>9. QED BY <1>3, <1>7, <1>8

LEMMA KickoffEditRefusedCopy == TurnInv /\ CopyInv /\ KickoffEditRefused => CopyInv'
<1> SUFFICES ASSUME TurnInv, CopyInv, KickoffEditRefused PROVE CopyInv'
  OBVIOUS
<1>1. /\ pc = "kickoff_edit" /\ pc' = "done" /\ UNCHANGED <<input, draft, decision>>
      /\ events' = events \o RunError("invalid_input")
  BY DEF KickoffEditRefused, Goto, Emit
<1>2. QED BY <1>1, CopyFails DEF Codes

LEMMA KickoffEditCopy == TurnInv /\ CopyInv /\ KickoffEdit => CopyInv'
<1> SUFFICES ASSUME TurnInv, CopyInv, KickoffEdit PROVE CopyInv'
  OBVIOUS
<1> DEFINE t == Interrupt("awaiting_decision", "kickoff_confirmation", NoPhase)
<1>1. /\ pc = "kickoff_edit" /\ pc' = "prompt" /\ UNCHANGED <<input, draft, decision>>
      /\ events' = events \o (Message \o t) /\ usage \in 0 .. MaxCalls
  BY DEF KickoffEdit, Goto, Emit, TurnInv, TypeOK
<1>2. Passes(t, "open", "finished", input)
  BY <1>1, InterruptPasses, NoPhaseIsPhase DEF Steps
<1> HIDE DEF t
<1>3. QED BY <1>1, <1>2, CopySpeaks DEF Passes

LEMMA ComposeCopy == TurnInv /\ CopyInv /\ Compose => CopyInv'
<1> SUFFICES ASSUME TurnInv, CopyInv, Compose PROVE CopyInv'
  OBVIOUS
<1>1. pc = "continue" /\ UNCHANGED <<input, draft, decision>>
  BY DEF Compose
<1>2. CASE pc' \in {"decide", "fallback"} /\ UNCHANGED events
  BY <1>1, <1>2 DEF CopyInv
<1>3. CASE Crash(<<>>)
  <2>1. pc' = "done" /\ events' = events \o RunError("internal_error")
    BY <1>3, RunErrorIsPlain DEF Crash, Emit, Codes
  <2>2. QED BY <1>1, <2>1, CopyFails DEF Codes
<1>4. QED BY <1>2, <1>3 DEF Compose

LEMMA FallbackCopy == TurnInv /\ CopyInv /\ Fallback => CopyInv'
<1> SUFFICES ASSUME TurnInv, CopyInv, Fallback PROVE CopyInv'
  OBVIOUS
<1> DEFINE phase == NextOpenPhase(input.acceptance)
           tested == Interrupt("awaiting_test_run", NoStep, NoPhase)
           named  == Interrupt("awaiting_phase_acceptance", NoStep, phase)
<1>1. /\ pc = "fallback" /\ pc' = "done" /\ UNCHANGED <<input, draft, decision>>
      /\ \/ events' = events \o (Message \o tested)
         \/ events' = events \o (Message \o named)
      /\ usage \in 0 .. MaxCalls /\ input.acceptance \in Acceptance
  BY DEF Fallback, Goto, Emit, TurnInv, TypeOK, Input
<1>2. phase \in Phases
  BY <1>1, NextOpenPhaseType, NoPhaseIsPhase
<1> HIDE DEF phase
<1>3. Passes(tested, "open", "finished", input) /\ Passes(named, "open", "finished", input)
  BY <1>1, <1>2, InterruptPasses, NoPhaseIsPhase
<1> HIDE DEF tested, named
<1>4. QED BY <1>1, <1>3, CopySpeaks DEF Passes

LEMMA ModelDecidesCopy == TurnInv /\ CopyInv /\ ModelDecides => CopyInv'
<1> SUFFICES ASSUME TurnInv, CopyInv, ModelDecides PROVE CopyInv'
  OBVIOUS
<1>1. pc = "decide" /\ pc' = "vertical" /\ UNCHANGED <<input, draft, events>>
  BY DEF ModelDecides, Goto
<1>2. Kept(input', draft', decision')
  BY <1>1 DEF CopyInv, Kept
<1>3. QED BY <1>1, <1>2 DEF CopyInv

LEMMA ModelRaisesCopy == TurnInv /\ CopyInv /\ ModelRaises => CopyInv'
<1> SUFFICES ASSUME TurnInv, CopyInv, ModelRaises PROVE CopyInv'
  OBVIOUS
<1>1. /\ pc = "decide" /\ pc' = "done" /\ UNCHANGED <<input, draft, decision>>
      /\ events' = events \o RunError("internal_error")
  BY RunErrorIsPlain DEF ModelRaises, Crash, Emit, Codes
<1>2. QED BY <1>1, CopyFails DEF Codes

LEMMA ApplyVerticalCopy == TurnInv /\ CopyInv /\ ApplyVertical => CopyInv'
<1> SUFFICES ASSUME TurnInv, CopyInv, ApplyVertical PROVE CopyInv'
  OBVIOUS
<1> DEFINE patch == VerticalWrite(draft, decision.vertical, input.edit)
           after == ApplyPatch(draft, patch)
<1>1. /\ pc = "vertical" /\ pc' = "apply" /\ UNCHANGED <<input, decision>>
      /\ draft = input.config /\ Stands(events, input, "open", draft)
      /\ draft \in Config /\ input.edit \in BOOLEAN
  BY DEF ApplyVertical, Goto, CopyInv, TurnInv, TypeOK, Input
<1>2. CASE decision.vertical = NoVertical \/ HasVertical(draft)
  <2>1. UNCHANGED <<draft, events>>
    BY <1>2 DEF ApplyVertical
  <2>2. QED BY <1>1, <2>1 DEF CopyInv
<1>3. CASE ~(decision.vertical = NoVertical \/ HasVertical(draft))
  <2>1. events' = events \o StateDelta(patch) /\ draft' = after
    BY <1>3 DEF ApplyVertical, RecordVertical, Emit
  <2>2. decision.vertical \in Verticals
    BY <1>3 DEF TurnInv, TypeOK, Decision
  <2>3. /\ Leads(Synced("open", draft), StateDelta(patch),
                 Synced("open", after), input)
        /\ after.sections = draft.sections
        /\ input.edit => after.slug = draft.slug
    <3>1. patch = VerticalWrite(draft, decision.vertical, input.edit)
      OBVIOUS
    <3> HIDE DEF patch
    <3>2. QED BY <1>1, <1>3, <2>2, <3>1, VerticalLeads
  <2> HIDE DEF patch, after
  <2>4. Held(events', input, "open", after)
    BY <1>1, <2>1, <2>3, HeldOn DEF Stands
  <2>5. Stands(events', input, "open", after) /\ Kept(input, after, decision)
    BY <1>1, <2>3, <2>4 DEF Stands, Kept
  <2>6. QED BY <1>1, <2>1, <2>5 DEF CopyInv
<1>4. QED BY <1>2, <1>3

LEMMA ProposeSectionCopy == TurnInv /\ CopyInv /\ ProposeSection => CopyInv'
<1> SUFFICES ASSUME TurnInv, CopyInv, ProposeSection PROVE CopyInv'
  OBVIOUS
<1> DEFINE patch    == SetSection(draft, TargetPhase, decision.body, input.edit)
           after    == ApplyPatch(draft, patch)
           delta    == StateDelta(patch)
           handBack == Interrupt("awaiting_phase_acceptance", NoStep, TargetPhase)
<1>1. /\ pc = "apply" /\ pc' = "done" /\ UNCHANGED <<input, decision>>
      /\ Stands(events, input, "open", draft) /\ Kept(input, draft, decision)
      /\ usage \in 0 .. MaxCalls /\ draft \in Config
      /\ decision.body \in Body /\ input.edit \in BOOLEAN
  BY DEF ProposeSection, Crash, CopyInv, TurnInv, TypeOK, Decision, Input
<1>2. TargetPhase \in Phases
  BY TargetPhaseType DEF Phases, TurnInv
<1>3. Passes(handBack, "open", "finished", input) /\ Has(handBack, "RUN_FINISHED")
  BY <1>1, <1>2, InterruptPasses DEF Has
<1>4. CASE Crash(<<>>) /\ UNCHANGED draft
  <2>1. events' = events \o RunError("internal_error")
    BY <1>4, RunErrorIsPlain DEF Crash, Emit, Codes
  <2>2. QED BY <1>1, <1>4, <2>1, CopyFails DEF Codes
<1>5. CASE Emit(Message \o handBack) /\ UNCHANGED draft
  <2> HIDE DEF handBack
  <2>1. events' = events \o (Message \o handBack)
    BY <1>5 DEF Emit
  <2>2. QED BY <1>1, <1>3, <1>5, <2>1, CopySpeaks DEF Passes
<1>6. ASSUME TargetPhase # BadPointer, SectionIssues(after) = {},
             draft' = after, Emit(Message \o delta \o handBack)
      PROVE  CopyInv'
  <2>1. TargetPhase \in Sections \cup Members \cup {RootKey, UnknownKey}
    BY <1>6, TargetPhaseType DEF TurnInv
  <2>2. /\ Leads(Synced("open", draft), delta, Synced("open", after), input)
        /\ after.slug = draft.slug
        /\ input.edit => \A s \in Sections :
             after.sections[s] # draft.sections[s] => after.sections[s].knob = decision.body.knob
    <3>1. patch = SetSection(draft, TargetPhase, decision.body, input.edit)
      OBVIOUS
    <3>2. SectionIssues(ApplyPatch(draft, patch)) = {}
      BY <1>6
    <3> HIDE DEF patch
    <3>3. QED BY <1>1, <2>1, <3>1, <3>2, SectionLeads
  <2> HIDE DEF patch, after, delta, handBack
  <2>3. Leads(Synced("open", after), handBack, Synced("finished", after), input)
    BY <1>3 DEF Passes
  <2>4. Leads(Synced("open", draft), Message \o delta,
              Synced("open", after), input)
    BY <2>2, MessageLeads
  <2>5. Leads(Synced("open", draft), Message \o delta \o handBack,
              Synced("finished", after), input)
    BY <2>3, <2>4, LeadsConcat
  <2>6. Elems(Message \o delta \o handBack) = Elems(Message \o delta) \cup Elems(handBack)
    <3>1. Message \o delta \in Seq(Event) /\ handBack \in Seq(Event)
      BY <2>3, <2>4 DEF Leads
    <3>2. QED BY <3>1, ElemsConcat
  <2>7. /\ Held(events', input, "finished", after)
        /\ Elems(events') = Elems(events) \cup Elems(Message \o delta \o handBack)
    BY <1>1, <1>6, <2>5, HeldOn DEF Stands, Emit
  <2>8. Stands(events', input, "finished", after)
    BY <1>3, <2>6, <2>7 DEF Stands, Has
  <2>9. Kept(input, after, decision)
    BY <1>1, <2>2 DEF Kept
  <2>10. QED BY <1>1, <1>6, <2>8, <2>9 DEF CopyInv, Ends
<1> HIDE DEF patch, after, delta, handBack
<1>7. QED BY <1>4, <1>5, <1>6 DEF ProposeSection, patch, after, delta, handBack

LEMMA RequestToolCopy == TurnInv /\ CopyInv /\ RequestTool => CopyInv'
<1> SUFFICES ASSUME TurnInv, CopyInv, RequestTool PROVE CopyInv'
  OBVIOUS
<1> DEFINE tool    == decision.action
           failure == RunError("internal_error")
           request == Requested(tool)
<1>1. /\ pc = "apply" /\ pc' = "done" /\ UNCHANGED <<input, decision, draft>>
      /\ tool \in Tools /\ usage \in 0 .. MaxCalls /\ draft \in Config
  BY DEF RequestTool, Crash, TurnInv, TypeOK
<1>2. \/ events' = events \o (Message \o failure)
      \/ \E phase \in PhaseFromIssues(draft) : events' = events \o (Message \o Blocked(phase))
      \/ events' = events \o (Message \o request)
  BY DEF RequestTool, Crash, Emit
<1>3. CASE events' = events \o (Message \o failure)
  BY <1>1, <1>3, CopyFails DEF Codes
<1>4. ASSUME NEW phase \in PhaseFromIssues(draft),
             events' = events \o (Message \o Blocked(phase))
      PROVE  CopyInv'
  <2>1. phase \in Phases
    BY PhaseFromIssuesType, NoPhaseIsPhase
  <2>2. Passes(Interrupt("awaiting_phase_acceptance", NoStep, phase), "open", "finished", input)
    BY <1>1, <2>1, InterruptPasses
  <2>3. Passes(Blocked(phase), "open", "finished", input)
    BY <2>2, MessagePasses, PassesConcat DEF Blocked
  <2>4. QED BY <1>1, <1>4, <2>3, CopySpeaks DEF Passes
<1>5. CASE events' = events \o (Message \o request)
  <2>1. Leads(Synced("open", draft), request, Synced("finished", draft), input)
    BY <1>1, RequestedLeads
  <2> HIDE DEF request
  <2>2. QED BY <1>1, <1>5, <2>1, CopySpeaks
<1> HIDE DEF failure, request
<1>6. QED BY <1>2, <1>3, <1>4, <1>5

LEMMA ConnectExistingCopy == TurnInv /\ CopyInv /\ ConnectExisting => CopyInv'
<1> SUFFICES ASSUME TurnInv, CopyInv, ConnectExisting PROVE CopyInv'
  OBVIOUS
<1> DEFINE t == Interrupt("awaiting_decision", "connect", NoPhase)
<1>1. /\ pc = "apply" /\ pc' = "done" /\ UNCHANGED <<input, draft, decision>>
      /\ events' = events \o (Message \o t) /\ usage \in 0 .. MaxCalls
  BY DEF ConnectExisting, Goto, Emit, TurnInv, TypeOK
<1>2. Passes(t, "open", "finished", input)
  BY <1>1, InterruptPasses, NoPhaseIsPhase DEF Steps
<1> HIDE DEF t
<1>3. QED BY <1>1, <1>2, CopySpeaks DEF Passes

LEMMA AwaitHumanCopy == TurnInv /\ CopyInv /\ AwaitHuman => CopyInv'
<1> SUFFICES ASSUME TurnInv, CopyInv, AwaitHuman PROVE CopyInv'
  OBVIOUS
<1> DEFINE t == Interrupt(decision.reason, NoStep, NoPhase)
<1>1. /\ pc = "apply" /\ pc' = "done" /\ UNCHANGED <<input, draft, decision>>
      /\ events' = events \o (Message \o t) /\ usage \in 0 .. MaxCalls
  BY DEF AwaitHuman, Goto, Emit, TurnInv, TypeOK
<1>2. Passes(t, "open", "finished", input)
  BY <1>1, InterruptPasses, NoPhaseIsPhase
<1> HIDE DEF t
<1>3. QED BY <1>1, <1>2, CopySpeaks DEF Passes

LEMMA AfterToolCopy == TurnInv /\ CopyInv /\ AfterTool => CopyInv'
<1> SUFFICES ASSUME TurnInv, CopyInv, AfterTool PROVE CopyInv'
  OBVIOUS
<1> DEFINE t == ToolReply(input.pending)
<1>1. /\ pc = "after_tool" /\ UNCHANGED <<input, draft, decision>>
      /\ usage \in 0 .. MaxCalls
  BY DEF AfterTool, TurnInv, TypeOK
<1>2. CASE Crash(<<>>)
  <2>1. pc' = "done" /\ events' = events \o RunError("internal_error")
    BY <1>2, RunErrorIsPlain DEF Crash, Emit, Codes
  <2>2. QED BY <1>1, <2>1, CopyFails DEF Codes
<1>3. CASE pc' = "prompt" /\ Emit(Message \o t)
  <2>1. Passes(t, "open", "finished", input)
    BY <1>1, ToolReplyPasses
  <2> HIDE DEF t
  <2>2. QED BY <1>1, <1>3, <2>1, CopySpeaks DEF Emit, Passes
<1>4. QED BY <1>2, <1>3 DEF AfterTool

(* The error of a prompt that could not be composed comes behind the       *)
(* turn's terminal event, and no gateway knows what to make of it.         *)
LEMMA SystemPromptCopy == TurnInv /\ CopyInv /\ SystemPrompt => CopyInv'
<1> SUFFICES ASSUME TurnInv, CopyInv, SystemPrompt PROVE CopyInv'
  OBVIOUS
<1>1. /\ pc = "prompt" /\ pc' = "done" /\ UNCHANGED <<input, draft, decision>>
      /\ Stands(events, input, "finished", draft)
  BY DEF SystemPrompt, Crash, CopyInv
<1>2. CASE UNCHANGED events
  BY <1>1, <1>2 DEF CopyInv, Ends
<1>3. CASE ContractsRaise /\ Crash(<<>>)
  <2>1. events' = events \o RunError("internal_error") /\ ~ContractsSound
    BY <1>3, RunErrorIsPlain DEF Crash, Emit, Codes, ContractsRaise
  <2>2. Stands(events', input, "broken", draft)
    BY <1>1, <2>1, RunErrorPasses, StandsOn DEF Passes, Codes
  <2>3. QED BY <1>1, <2>1, <2>2 DEF CopyInv, Ends
<1>4. QED BY <1>2, <1>3 DEF SystemPrompt

LEMMA CopyStepInv == TurnInv /\ FrameInv /\ CopyInv /\ TurnStep => CopyInv'
BY RejectEnvelopeCopy, StartRunCopy, KickoffHitCopy, KickoffBuildCopy,
   KickoffEditRefusedCopy, KickoffEditCopy, ComposeCopy, FallbackCopy,
   ModelDecidesCopy, ModelRaisesCopy, ApplyVerticalCopy, ProposeSectionCopy,
   RequestToolCopy, ConnectExistingCopy, AwaitHumanCopy, AfterToolCopy,
   SystemPromptCopy DEF TurnStep

LEMMA CopyStutters == CopyInv /\ UNCHANGED vars => CopyInv'
BY DEF CopyInv, vars

LEMMA BeginsCopy == Begins(input) => CopyInv
<1> SUFFICES ASSUME Begins(input) PROVE CopyInv
  OBVIOUS
<1>1. pc = "parse" /\ draft = input.config /\ events = <<>>
  BY DEF Begins
<1>2. Stands(events, input, "unopened", draft)
  BY <1>1, LeadsNone DEF Stands, Held
<1>3. QED BY <1>1, <1>2 DEF CopyInv, Kept

(* At every frame of every turn the gateway stands where the turn's own    *)
(* bookkeeping says (agui.py:480-656, draft.py:185-192).                   *)
THEOREM CopyInvHolds == Spec => []CopyInv
<1>1. Init => CopyInv
  BY BeginsCopy DEF Init
<1>2. TurnInv /\ FrameInv /\ CopyInv /\ [TurnStep]_vars => CopyInv'
  BY CopyStepInv, CopyStutters
<1>3. QED BY <1>1, <1>2, TurnInvHolds, FrameInvHolds, PTL DEF Spec

----------------------------------------------------------------------------
(* What it says of a turn.                                                 *)

LEMMA CopyIsHeld ==
  ASSUME CopyInv
  PROVE  \E stage, config : Held(events, input, stage, config)
<1>1. CASE pc # "done"
  BY <1>1 DEF CopyInv, Stands
<1>2. CASE pc = "done"
  BY <1>2 DEF CopyInv, Ends, Abandoned, Stands
<1>3. QED BY <1>1, <1>2

LEMMA HeldIsCopy ==
  ASSUME NEW stage, NEW config, Held(events, input, stage, config)
  PROVE  GatewayCopy = Synced(stage, config)
BY DEF Held, Leads, GatewayCopy, CopyAfter

LEMMA FramesAreFaithful ==
  ASSUME CopyInv
  PROVE  /\ events \in Seq(Event)
         /\ \A i \in DOMAIN events :
              /\ Faithful(CopyAfter(i - 1), events[i], input)
              /\ CopyAfter(i) = Receive(CopyAfter(i - 1), events[i])
<1>1. PICK stage, config : Held(events, input, stage, config)
  BY CopyIsHeld
<1> DEFINE start == Synced("unopened", input.config)
<1>2. /\ events \in Seq(Event)
      /\ \A i \in 1 .. Len(events) : Faithful(Receives(start, events)[i - 1], events[i], input)
  BY <1>1 DEF Held, Leads
<1>3. \A i \in 1 .. Len(events) :
        Receives(start, events)[i] = Receive(Receives(start, events)[i - 1], events[i])
  BY <1>2, ReceivesReads
<1>4. \A i : CopyAfter(i) = Receives(start, events)[i]
  BY DEF CopyAfter
<1>5. DOMAIN events = 1 .. Len(events)
  BY <1>2
<1> HIDE DEF start
<1>6. QED BY <1>2, <1>3, <1>4, <1>5

LEMMA EventsOfHas ==
  ASSUME NEW type
  PROVE  EventsOf(type) # {} <=> Has(events, type)
BY DEF EventsOf, Has, Elems

(* The copy the gateway is left with, whatever it was sent.                *)
LEMMA CopyIsDraft ==
  ASSUME CopyInv
  PROVE  \/ /\ GatewayCopy.clean /\ GatewayCopy.config = draft
            /\ Has(events, "RUN_FINISHED") \/ draft.sections = input.config.sections
         \/ /\ GatewayCopy.clean /\ GatewayCopy.config = input.config
            /\ Has(events, "RUN_ERROR") /\ ~input.edit
<1>1. ASSUME NEW stage, Stands(events, input, stage, draft)
      PROVE  /\ GatewayCopy.clean /\ GatewayCopy.config = draft
             /\ Has(events, "RUN_FINISHED") \/ draft.sections = input.config.sections
  <2>1. GatewayCopy = Synced(stage, draft)
    BY <1>1, HeldIsCopy DEF Stands
  <2>2. QED BY <1>1, <2>1 DEF Stands, Synced
<1>2. ASSUME Abandoned(events, input)
      PROVE  /\ GatewayCopy.clean /\ GatewayCopy.config = input.config
             /\ Has(events, "RUN_ERROR") /\ ~input.edit
  <2>1. GatewayCopy = Synced("failed", input.config)
    BY <1>2, HeldIsCopy DEF Abandoned
  <2>2. QED BY <1>2, <2>1 DEF Abandoned, Synced
<1>3. (\E stage : Stands(events, input, stage, draft)) \/ Abandoned(events, input)
  BY DEF CopyInv, Ends
<1>4. QED BY <1>1, <1>2, <1>3

(* Each delta applies to the copy the earlier ones produced, and the copy  *)
(* of a turn that did not fail is the runtime's draft (draft.py:185-192).  *)
THEOREM DeltasReplayed == Spec => []DeltasReplay
<1>1. CopyInv => DeltasReplay
  BY CopyIsDraft, EventsOfHas DEF DeltasReplay, Failed
<1>2. QED BY <1>1, CopyInvHolds, PTL

(* No section delta leaves the gateway with a config the section gate      *)
(* rejects, whatever else the turn changed before it (runtime.py:575-597). *)
THEOREM ProposalsClean == Spec => []ProposalsAreClean
<1>1. CopyInv => ProposalsAreClean
  BY FramesAreFaithful DEF ProposalsAreClean, EventsOf, Faithful
<1>2. QED BY <1>1, CopyInvHolds, PTL

(* The config a tool call validated is the one the gateway persisted from  *)
(* this turn's deltas (tools.py:209-309).                                  *)
THEOREM ToolCallsMatch == Spec => []ToolCallsMatchGateway
<1>1. CopyInv => ToolCallsMatchGateway
  BY FramesAreFaithful DEF ToolCallsMatchGateway, EventsOf, Faithful
<1>2. QED BY <1>1, CopyInvHolds, PTL

(* A vertical the draft already has is never overwritten by the model, and *)
(* one it supplies takes the slug with it in a build, in the same frame    *)
(* (runtime.py:503-555).                                                   *)
THEOREM VerticalAuthoritative == Spec => []VerticalIsAuthoritative
<1>1. CopyInv => VerticalIsAuthoritative
  BY FramesAreFaithful DEF VerticalIsAuthoritative, EventsOf, Faithful
<1>2. QED BY <1>1, CopyInvHolds, PTL

(* An edit session never snapshots over a live skill, renames it, or seeds *)
(* a knob it omits, whatever the turn (runtime.py:234-298, 525-541).       *)
THEOREM EditKept == Spec => []EditKeepsSkill
<1>1. FrameInv /\ CopyInv => EditKeepsSkill
  <2>1. SUFFICES ASSUME FrameInv, CopyInv, input.edit PROVE
          /\ EventsOf("STATE_SNAPSHOT") = {}
          /\ GatewayCopy.config.slug = input.config.slug
          /\ \A s \in Sections :
               GatewayCopy.config.sections[s] # input.config.sections[s] =>
                 GatewayCopy.config.sections[s].knob = decision.body.knob
    BY DEF EditKeepsSkill
  <2>2. ~Has(events, "STATE_SNAPSHOT")
    BY <2>1 DEF FrameInv, Framed, Meant, Has
  <2>3. GatewayCopy.config = draft
    BY <2>1, CopyIsDraft
  <2>4. QED BY <2>1, <2>2, <2>3, EventsOfHas DEF CopyInv, Kept
<1>2. QED BY <1>1, FrameInvHolds, CopyInvHolds, PTL

LEMMA CopyFailsWhole == CopyInv => FailedTurnKeepsSections
BY CopyIsDraft, EventsOfHas DEF FailedTurnKeepsSections, Failed

(* A turn that fails before its terminal event loses the proposal it was   *)
(* about to make, and never half of it (R2, agui.py:41-43,                 *)
(* runtime.py:109-122).                                                    *)
THEOREM FailedTurnKept == Spec => []FailedTurnKeepsSections
BY CopyFailsWhole, CopyInvHolds, PTL

----------------------------------------------------------------------------
(* The stream protocol.                                                    *)

(* The stage the gateway is in when the turn is at a given handler.        *)
LEMMA StageOfTurn ==
  ASSUME CopyInv, ContractsSound
  PROVE  /\ pc = "parse" => StreamStage = "unopened"
         /\ pc \notin {"parse", "prompt", "done"} => StreamStage = "open"
         /\ pc = "prompt" => StreamStage = "finished"
         /\ pc = "done" => StreamStage \in {"finished", "failed"}
<1>1. \A stage, config : Held(events, input, stage, config) => StreamStage = stage
  BY HeldIsCopy DEF StreamStage, Synced
<1>2. \A stage : Stands(events, input, stage, draft) => StreamStage = stage
  BY <1>1 DEF Stands
<1>3. Ends(events, input, draft) \/ Abandoned(events, input)
        => StreamStage \in {"finished", "failed"}
  BY <1>1, <1>2 DEF Ends, Abandoned
<1>4. QED BY <1>2, <1>3 DEF CopyInv

LEMMA StageSteps ==
  ASSUME ContractsSound, CopyInv, CopyInv', [TurnStep]_vars
  PROVE  [Stream!Next]_StreamStage
<1>0. \A stage, config : Held(events', input', stage, config)
                          => StreamStage' = stage
  BY DEF Held, Leads, StreamStage, GatewayCopy, CopyAfter, Synced
<1>1. /\ pc' = "parse" => StreamStage' = "unopened"
      /\ pc' \notin {"parse", "prompt", "done"} => StreamStage' = "open"
      /\ pc' = "prompt" => StreamStage' = "finished"
      /\ pc' = "done" => StreamStage' \in {"finished", "failed"}
  <2>1. \A stage : Stands(events', input', stage, draft') => StreamStage' = stage
    BY <1>0 DEF Stands
  <2>2. Ends(events', input', draft') \/ Abandoned(events', input')
          => StreamStage' \in {"finished", "failed"}
    BY <1>0, <2>1 DEF Ends, Abandoned
  <2>3. QED BY <2>1, <2>2 DEF CopyInv
<1>2. CASE UNCHANGED vars
  BY <1>2 DEF vars, StreamStage, GatewayCopy, CopyAfter
<1>3. CASE RejectEnvelope
  <2>1. /\ pc = "parse" /\ pc' = "done" /\ UNCHANGED <<input, draft, decision>>
        /\ events' = events \o RunError("invalid_input")
    BY <1>3 DEF RejectEnvelope, Goto, Emit
  <2>2. Stands(events', input, "failed", draft)
    BY <2>1, RunErrorPasses, StandsOn DEF CopyInv, Passes, Codes
  <2>3. StreamStage' = "failed"
    BY <1>0, <2>1, <2>2 DEF Stands
  <2>4. QED BY <2>1, <2>3, StageOfTurn DEF Stream!Next, Stream!Fail
<1>4. CASE SystemPrompt
  <2>1. UNCHANGED <<events, input>>
    BY <1>4 DEF SystemPrompt, ContractsRaise
  <2>2. QED BY <2>1 DEF StreamStage, GatewayCopy, CopyAfter
<1>5. CASE TurnStep /\ ~RejectEnvelope /\ ~SystemPrompt
  <2>1. /\ pc \notin {"prompt", "done"}
        /\ pc = "parse" => pc' \notin {"parse", "prompt", "done"}
        /\ pc # "parse" => pc' # "parse"
    BY <1>5 DEF TurnStep, StartRun, KickoffHit, KickoffBuild, KickoffEditRefused,
         KickoffEdit, Compose, Fallback, ModelDecides, ModelRaises, ApplyVertical,
         ProposeSection, RequestTool, ConnectExisting, AwaitHuman, AfterTool,
         Goto, Crash, Route
  <2>2. QED BY <1>1, <2>1, StageOfTurn
            DEF Stream!Next, Stream!Open, Stream!Finish, Stream!Fail
<1>6. QED BY <1>2, <1>3, <1>4, <1>5

(* Every turn's frames follow the stream protocol as long as the contracts *)
(* load: RUN_STARTED first unless the envelope is malformed, whole groups  *)
(* only, one terminal event and nothing after it (agui.py:480-656).  A     *)
(* contract that fails to load behind a terminal event breaks it.          *)
THEOREM StreamIsSafe == ContractsSound => (Spec => StreamSafety)
<1> SUFFICES ASSUME ContractsSound PROVE Spec => StreamSafety
  OBVIOUS
<1>1. Init => Stream!Init
  <2>1. SUFFICES ASSUME Init PROVE StreamStage = "unopened"
    BY DEF Stream!Init
  <2>2. CopyInv /\ pc = "parse"
    BY <2>1, BeginsCopy DEF Init, Begins
  <2>3. QED BY <2>1, <2>2, StageOfTurn
<1>2. CopyInv /\ CopyInv' /\ [TurnStep]_vars => [Stream!Next]_StreamStage
  BY StageSteps
<1>3. QED BY <1>1, <1>2, CopyInvHolds, PTL DEF Spec, StreamSafety, Stream!Safety
=============================================================================
