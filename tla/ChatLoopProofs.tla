---------------------------- MODULE ChatLoopProofs ----------------------------
(***************************************************************************)
(* The tool loop sends well-formed requests within the cache budget, its   *)
(* stream and its trace tell one story, and every step of it is a step of  *)
(* the agent stream its callers program against: for any round cap, number *)
(* of tool calls and length of the client's history.                       *)
(***************************************************************************)
EXTENDS ChatLoop, FiniteSetTheorems, SequenceTheorems, TLAPS

Message == [role : {"user", "assistant"}, uses : Seq(ToolUse),
            answers : Seq(ToolUse), mark : BOOLEAN]
FrameSet == [event : {"round_start", "text", "usage", "tool_start", "tool_call",
                      "error", "done", "result"},
             use : Seq(ToolUse)]

-----------------------------------------------------------------------------
(* Turns alternate and every turn answers the tool calls of the one before. *)
Chained(msgs) ==
  \A i \in 1..(Len(msgs) - 1) : /\ msgs[i].role # msgs[i+1].role
                                /\ msgs[i].uses = msgs[i+1].answers

(* Where a tool round is, the calls of the newest answer are those answered *)
(* so far and those still to run; a request ends with a user turn.          *)
ConvInv ==
  /\ Len(messages) > 0
  /\ Chained(messages)
  /\ pc \in {"round", "streaming"} =>
       messages[Len(messages)].role = "user" /\ messages[Len(messages)].uses = <<>>
  /\ pc = "streaming" => \A i \in 1..Len(messages) : messages[i].mark = (i = Len(messages))
  /\ pc \in {"tools", "calling", "executing"} =>
       /\ messages[Len(messages)].role = "assistant"
       /\ messages[Len(messages)].uses = answers \o todo
  /\ pc \in {"calling", "executing"} => todo # <<>>
  /\ pc \in {"streaming", "tools", "calling", "executing"} => round_i < Cap

-----------------------------------------------------------------------------
(* Every started call of a stream is answered at once, the newest excepted. *)
Paired(o) ==
  \A i \in 1..Len(o) :
    /\ o[i].event = "tool_call" => i > 1 /\ o[i-1] = ToolFrame("tool_start", o[i].use[1])
    /\ o[i].event = "tool_start" /\ i < Len(o) => o[i+1] = ToolFrame("tool_call", o[i].use[1])

(* A call was started last exactly where the loop is about to run it.       *)
PairInv ==
  /\ IF trace.error = "exception" THEN ToolFramesPaired ELSE Paired(out)
  /\ pc \in {"calling", "executing"} =>
       Len(out) > 0 /\ out[Len(out)] = ToolFrame("tool_start", Head(todo))
  /\ pc \notin {"calling", "executing"} \cup Final /\ Len(out) > 0 =>
       out[Len(out)].event # "tool_start"

(* The trace is open until the generator is done with, and no stream is     *)
(* shown to complete before.                                                *)
TraceInv ==
  /\ trace.ended <=> pc \in Final
  /\ pc \notin Final => trace.error = "none"
  /\ pc = "raised" => trace.error = "exception"
  /\ pc = "cancelled" => trace.error = "cancelled"
  /\ pc = "closed" => trace.error \in {"none", "exception"}
  /\ pc \in {"finishing", "returned"} \/ (pc = "closed" /\ trace.error = "none") =>
       trace.stop # "none"

Without(o, e) == \A i \in 1..Len(o) : o[i].event # e

EndInv ==
  /\ pc \notin {"returned", "cancelled", "closed"} => Without(out, "done")
  /\ trace.error = "exception" => Without(out, "done")
  /\ pc # "closed" \/ trace.error = "exception" => Without(out, "result")
  /\ pc = "returned" => Frames("done") = {Len(out)}
  /\ pc = "closed" /\ trace.error = "none" =>
       \E d \in 1..Len(out) : /\ Frames("done") = {d}
                              /\ \A j \in 1..Len(out) : j > d => out[j].event = "result"

-----------------------------------------------------------------------------
(* Only an agent has a terminal tool, and only a cancelled loop leaves a    *)
(* worker thread behind.                                                    *)
AgentInv ==
  /\ ~agent => /\ ~captured
               /\ \A i \in 1..Len(todo) : todo[i].kind # "terminal"
               /\ \A u \in zombie : u.kind # "terminal"
  /\ zombie # {} => pc = "cancelled"
  /\ pc = "closed" /\ trace.error = "none" => (Frames("result") # {} <=> captured)

IInv == TypeOK /\ ConvInv /\ PairInv /\ TraceInv /\ EndInv /\ AgentInv

-----------------------------------------------------------------------------
(* Facts about the data.                                                    *)

(* The two kinds of turn the loop appends.                                  *)
LEMMA TurnsAreMessages ==
  ASSUME NEW us \in Seq(ToolUse), NEW mark \in BOOLEAN
  PROVE  /\ UserTurn(us, mark) \in Message /\ AssistantTurn(us, mark) \in Message
         /\ UserTurn(us, mark).role = "user" /\ UserTurn(us, mark).uses = <<>>
         /\ UserTurn(us, mark).answers = us
         /\ AssistantTurn(us, mark).role = "assistant" /\ AssistantTurn(us, mark).uses = us
         /\ AssistantTurn(us, mark).answers = <<>>
  BY EmptySeq DEF UserTurn, AssistantTurn, Message

(* The frames the loop sends.                                               *)
LEMMA FramesAreFrames ==
  /\ \A e \in {"round_start", "text", "usage", "error", "done", "result"} :
       Frame(e) \in FrameSet /\ Frame(e).event = e
  /\ \A u \in ToolUse, e \in {"tool_start", "tool_call"} :
       /\ ToolFrame(e, u) \in FrameSet
       /\ ToolFrame(e, u).event = e /\ ToolFrame(e, u).use[1] = u
  BY EmptySeq DEF Frame, ToolFrame, FrameSet

(* The calls of an answer; only an agent is offered the terminal tool.      *)
LEMMA CallsAreCalls ==
  ASSUME NEW r \in 0..Cap, NEW us \in ToolUses(r) \cup {<<>>}
  PROVE  /\ us \in Seq(ToolUse)
         /\ ~agent => \A i \in 1..Len(us) : us[i].kind # "terminal"
<1>1. CASE us = <<>>
  BY <1>1, EmptySeq
<1>2. CASE us \in ToolUses(r)
  <2> DEFINE Kinds == IF agent THEN ToolKind ELSE ToolKind \ {"terminal"}
             Calls(n) == { [k \in 1..n |-> [round |-> r, k |-> k, kind |-> kinds[k]]] :
                             kinds \in [1..n -> Kinds] }
  <2>0. ToolUses(r) = UNION {Calls(n) : n \in 1..MaxTools}
    BY DEF ToolUses
  <2>1. PICK n \in 1..MaxTools : us \in Calls(n)
    <3> HIDE DEF Calls
    <3> QED
      BY <1>2, <2>0
  <2>2. PICK kinds \in [1..n -> Kinds] :
          us = [k \in 1..n |-> [round |-> r, k |-> k, kind |-> kinds[k]]]
    BY <2>1
  <2>3. \A k \in 1..n : /\ [round |-> r, k |-> k, kind |-> kinds[k]] \in ToolUse
                        /\ ~agent => kinds[k] # "terminal"
    BY <2>2, CapAssumption DEF ToolUse, ToolKind
  <2>4. n \in Nat /\ us \in [1..n -> ToolUse] /\ \A k \in 1..n : us[k].kind = kinds[k]
    BY <2>2, <2>3, CapAssumption
  <2>5. us \in Seq(ToolUse) /\ Len(us) = n
    BY <2>4
  <2> QED
    BY <2>3, <2>4, <2>5
<1> QED
  BY <1>1, <1>2

(* What the client may send is a conversation that a request may carry.     *)
LEMMA ConversationType ==
  ASSUME NEW c \in Conversations
  PROVE  /\ c \in Seq(Message) /\ Len(c) > 0 /\ Chained(c)
         /\ c[Len(c)].role = "user" /\ c[Len(c)].uses = <<>>
<1>1. PICK mk \in [1..MaxHistory -> BOOLEAN], n \in {m \in 1..MaxHistory : m % 2 = 1} :
        c = [i \in 1..n |-> IF i % 2 = 1 THEN UserTurn(<<>>, mk[i])
                                         ELSE AssistantTurn(<<>>, mk[i])]
  BY DEF Conversations
<1>2. n \in Nat /\ n > 0 /\ n % 2 = 1 /\ \A i \in 1..n : mk[i] \in BOOLEAN
  BY CapAssumption
<1>3. \A i \in 1..n : /\ c[i] = IF i % 2 = 1 THEN UserTurn(<<>>, mk[i])
                                             ELSE AssistantTurn(<<>>, mk[i])
                      /\ c[i] \in Message
                      /\ c[i].role = IF i % 2 = 1 THEN "user" ELSE "assistant"
                      /\ c[i].uses = <<>> /\ c[i].answers = <<>>
  <2> SUFFICES ASSUME NEW i \in 1..n
               PROVE  LET x == IF i % 2 = 1 THEN UserTurn(<<>>, mk[i])
                                            ELSE AssistantTurn(<<>>, mk[i])
                      IN  /\ c[i] = x /\ x \in Message
                          /\ x.role = IF i % 2 = 1 THEN "user" ELSE "assistant"
                          /\ x.uses = <<>> /\ x.answers = <<>>
    OBVIOUS
  <2>1. <<>> \in Seq(ToolUse) /\ mk[i] \in BOOLEAN
    BY <1>2, EmptySeq
  <2>2. CASE i % 2 = 1
    BY <1>1, <2>1, <2>2, TurnsAreMessages
  <2>3. CASE i % 2 # 1
    BY <1>1, <2>1, <2>3, TurnsAreMessages
  <2> QED
    BY <2>2, <2>3
<1>4. c \in Seq(Message) /\ Len(c) = n
  BY <1>1, <1>2, <1>3
<1>5. \A i \in 1..n - 1 : i \in 1..n /\ i + 1 \in 1..n /\ (i % 2 = 1 <=> (i + 1) % 2 # 1)
  BY <1>2
<1>6. Chained(c)
  BY <1>3, <1>4, <1>5 DEF Chained
<1> QED
  BY <1>2, <1>3, <1>4, <1>6

(* Moving the breakpoint changes nothing but the marks.                     *)
LEMMA ShiftEffect ==
  ASSUME NEW msgs \in Seq(Message)
  PROVE  LET new == ShiftBreakpoint(msgs)
         IN  /\ new \in Seq(Message) /\ Len(new) = Len(msgs)
             /\ \A i \in 1..Len(msgs) :
                  /\ new[i].mark = (i = Len(msgs)) /\ new[i].role = msgs[i].role
                  /\ new[i].uses = msgs[i].uses /\ new[i].answers = msgs[i].answers
<1>1. ASSUME NEW m \in Message, NEW b \in BOOLEAN
      PROVE  LET x == [m EXCEPT !.mark = b]
             IN  /\ x \in Message /\ x.mark = b /\ x.role = m.role
                 /\ x.uses = m.uses /\ x.answers = m.answers
  BY <1>1 DEF Message
<1>2. /\ Len(msgs) \in Nat /\ DOMAIN msgs = 1..Len(msgs)
      /\ \A i \in 1..Len(msgs) : msgs[i] \in Message
  OBVIOUS
<1>3. \A i \in 1..Len(msgs) : ShiftBreakpoint(msgs)[i] = [msgs[i] EXCEPT !.mark = (i = Len(msgs))]
  BY <1>2 DEF ShiftBreakpoint
<1>5. \A i \in 1..Len(msgs) :
        LET x == ShiftBreakpoint(msgs)[i]
        IN  /\ x \in Message /\ x.mark = (i = Len(msgs)) /\ x.role = msgs[i].role
            /\ x.uses = msgs[i].uses /\ x.answers = msgs[i].answers
  <2> SUFFICES ASSUME NEW i \in 1..Len(msgs)
               PROVE  LET x == [msgs[i] EXCEPT !.mark = (i = Len(msgs))]
                      IN  /\ x \in Message /\ x.mark = (i = Len(msgs)) /\ x.role = msgs[i].role
                          /\ x.uses = msgs[i].uses /\ x.answers = msgs[i].answers
    BY <1>3
  <2>1. msgs[i] \in Message /\ (i = Len(msgs)) \in BOOLEAN
    BY <1>2
  <2> QED
    BY <1>1, <2>1, Zenon
<1>6. ShiftBreakpoint(msgs) \in [1..Len(msgs) -> Message]
  BY <1>2, <1>3, <1>5 DEF ShiftBreakpoint
<1>7. ShiftBreakpoint(msgs) \in Seq(Message) /\ Len(ShiftBreakpoint(msgs)) = Len(msgs)
  BY <1>2, <1>6
<1> QED
  BY <1>5, <1>7

(* Taking one call from the list of those to run.                           *)
LEMMA TakeCall ==
  ASSUME NEW done \in Seq(ToolUse), NEW rest \in Seq(ToolUse), rest # <<>>
  PROVE  /\ Head(rest) \in ToolUse /\ Tail(rest) \in Seq(ToolUse)
         /\ Append(done, Head(rest)) \in Seq(ToolUse)
         /\ Append(done, Head(rest)) \o Tail(rest) = done \o rest
         /\ Head(rest) = rest[1]
         /\ \A i \in 1..Len(Tail(rest)) : \E k \in 1..Len(rest) : Tail(rest)[i] = rest[k]
<1>1. Head(rest) \in ToolUse /\ Tail(rest) \in Seq(ToolUse) /\ Head(rest) = rest[1]
      /\ Len(rest) \in Nat /\ Len(rest) > 0 /\ Len(Tail(rest)) = Len(rest) - 1
      /\ \A i \in 1..Len(Tail(rest)) : Tail(rest)[i] = rest[i+1]
  BY HeadTailProperties
<1>2. Append(done, Head(rest)) \in Seq(ToolUse)
  BY <1>1
<1>3. Append(done, Head(rest)) \o Tail(rest) = done \o rest
  BY <1>1
<1>4. \A i \in 1..Len(Tail(rest)) : i + 1 \in 1..Len(rest)
  BY <1>1
<1> QED
  BY <1>1, <1>2, <1>3, <1>4

(* One more frame.                                                          *)
LEMMA AppendFrame ==
  ASSUME NEW o \in Seq(FrameSet), NEW f \in FrameSet
  PROVE  LET new == Append(o, f)
         IN  /\ new \in Seq(FrameSet) /\ Len(new) = Len(o) + 1 /\ Len(o) \in Nat
             /\ new[Len(o) + 1] = f /\ \A i \in 1..Len(o) : new[i] = o[i]
             /\ \A e : Without(o, e) /\ f.event # e => Without(new, e)
<1> DEFINE new == Append(o, f)
<1>1. /\ new \in Seq(FrameSet) /\ Len(new) = Len(o) + 1 /\ Len(o) \in Nat
      /\ new[Len(o) + 1] = f /\ \A i \in 1..Len(o) : new[i] = o[i]
  OBVIOUS
<1> HIDE DEF new
<1>2. \A i \in 1..Len(new) : i \in 1..Len(o) \/ i = Len(o) + 1
  BY <1>1
<1>3. \A e : Without(o, e) /\ f.event # e => Without(new, e)
  BY <1>1, <1>2 DEF Without
<1> QED
  BY <1>1, <1>3 DEF new

(* A frame that closes an open tool, or follows a closed one, keeps the     *)
(* pairing.                                                                 *)
LEMMA AppendPaired ==
  ASSUME NEW o \in Seq(FrameSet), NEW f \in FrameSet, Paired(o),
         f.event = "tool_call" => Len(o) > 0 /\ o[Len(o)] = ToolFrame("tool_start", f.use[1]),
         Len(o) > 0 /\ o[Len(o)].event = "tool_start" =>
           f = ToolFrame("tool_call", o[Len(o)].use[1])
  PROVE  Paired(Append(o, f))
<1> DEFINE new == Append(o, f)
<1>1. /\ Len(new) = Len(o) + 1 /\ Len(o) \in Nat
      /\ new[Len(o) + 1] = f /\ \A i \in 1..Len(o) : new[i] = o[i]
  BY AppendFrame
<1> HIDE DEF new
<1> SUFFICES ASSUME NEW i \in 1..Len(new)
             PROVE  /\ new[i].event = "tool_call" =>
                         i > 1 /\ new[i-1] = ToolFrame("tool_start", new[i].use[1])
                    /\ new[i].event = "tool_start" /\ i < Len(new) =>
                         new[i+1] = ToolFrame("tool_call", new[i].use[1])
  BY DEF Paired, new
<1>2. CASE i = Len(o) + 1
  BY <1>1, <1>2
<1>3. CASE i \in 1..Len(o)
  <2>1. new[i] = o[i] /\ i \in Nat
    BY <1>1, <1>3
  <2>2. o[i].event = "tool_call" => i > 1 /\ o[i-1] = ToolFrame("tool_start", o[i].use[1])
    BY <1>3 DEF Paired
  <2>3. o[i].event = "tool_start" /\ i < Len(o) => o[i+1] = ToolFrame("tool_call", o[i].use[1])
    BY <1>3 DEF Paired
  <2>4. i > 1 => i - 1 \in 1..Len(o)
    BY <1>1, <1>3
  <2>5. i < Len(o) => i + 1 \in 1..Len(o)
    BY <1>1, <1>3
  <2>6. ~(i < Len(o)) => i = Len(o) /\ Len(o) > 0
    BY <1>1, <1>3
  <2> QED
    BY <1>1, <2>1, <2>2, <2>3, <2>4, <2>5, <2>6
<1> QED
  BY <1>1, <1>2, <1>3

(* Pairing by neighbours gives pairing by counts.                           *)
LEMMA PairedMeans ==
  ASSUME out \in Seq(FrameSet), Paired(out)
  PROVE  ToolFramesPaired
  BY DEF Paired, ToolFramesPaired

(* No index carries an event that was never sent.                           *)
LEMMA WithoutMeans ==
  ASSUME out \in Seq(FrameSet)
  PROVE  \A e : Without(out, e) <=> Frames(e) = {}
  BY DEF Without, Frames

-----------------------------------------------------------------------------
(* The initial states.                                                      *)

(* A request begins with the invariant.                                     *)
LEMMA InitInv == Init => IInv
<1> SUFFICES ASSUME Init
             PROVE  IInv
  OBVIOUS
<1>1. /\ messages \in Seq(Message) /\ Len(messages) > 0 /\ Chained(messages)
      /\ messages[Len(messages)].role = "user" /\ messages[Len(messages)].uses = <<>>
  BY ConversationType DEF Init
<1>2. TypeOK
  <2>1. round_i \in 0..Cap
    BY CapAssumption DEF Init
  <2>2. todo \in Seq(ToolUse) /\ answers \in Seq(ToolUse) /\ out \in Seq(FrameSet)
    BY EmptySeq DEF Init
  <2>3. trace \in [ended : BOOLEAN, stop : Stop \cup {"none", "max_rounds"},
                   error : {"none", "exception", "cancelled"}]
    BY DEF Init
  <2> QED
    BY <1>1, <2>1, <2>2, <2>3 DEF Init, TypeOK, Message, FrameSet
<1>3. ConvInv
  BY <1>1 DEF Init, ConvInv
<1>4. PairInv
  BY DEF Init, PairInv, Paired, Final
<1>5. TraceInv
  BY DEF Init, TraceInv, Final
<1>6. EndInv
  BY DEF Init, EndInv, Without
<1>7. AgentInv
  BY DEF Init, AgentInv
<1> QED
  BY <1>2, <1>3, <1>4, <1>5, <1>6, <1>7 DEF IInv

-----------------------------------------------------------------------------
(* Every step keeps the types.                                              *)

(* The sequences of a well-typed state.                                     *)
LEMMA Typing ==
  TypeOK => /\ messages \in Seq(Message) /\ out \in Seq(FrameSet)
            /\ todo \in Seq(ToolUse) /\ answers \in Seq(ToolUse)
  BY DEF TypeOK, Message, FrameSet

(* A delivery moves the first pending tool call to the answers.             *)
LEMMA DeliverEffect ==
  ASSUME TypeOK, todo # <<>>, Deliver
  PROVE  /\ out' = Append(out, ToolFrame("tool_call", Head(todo))) /\ out' \in Seq(FrameSet)
         /\ todo' \in Seq(ToolUse) /\ answers' \in Seq(ToolUse)
         /\ answers' \o todo' = answers \o todo
         /\ \A i \in 1..Len(todo') : \E k \in 1..Len(todo) : todo'[i] = todo[k]
  BY Typing, TakeCall, FramesAreFrames, AppendFrame, SMTT(30) DEF Deliver

(* Each step keeps the loop well-typed.                                     *)
LEMMA TypedStep == IInv /\ Next => TypeOK'
<1> SUFFICES ASSUME IInv, Next
             PROVE  TypeOK'
  OBVIOUS
<1>0. TypeOK
  BY DEF IInv
<1>a. /\ messages \in Seq(Message) /\ out \in Seq(FrameSet)
      /\ todo \in Seq(ToolUse) /\ answers \in Seq(ToolUse)
  BY <1>0, Typing
<1>b. pc \in {"calling", "executing"} => todo # <<>>
  BY DEF IInv, ConvInv
<1>c. ASSUME messages' \in Seq(Message), out' \in Seq(FrameSet), todo' \in Seq(ToolUse),
             answers' \in Seq(ToolUse), agent' = agent,
             pc' \in {"round", "streaming", "tools", "calling", "executing", "finishing",
                      "returned"} \cup Final,
             round_i' \in 0..Cap, captured' \in BOOLEAN, zombie' \subseteq ToolUse,
             trace' \in [ended : BOOLEAN, stop : Stop \cup {"none", "max_rounds"},
                         error : {"none", "exception", "cancelled"}]
      PROVE  TypeOK'
  BY <1>0, <1>c DEF TypeOK, Message, FrameSet
<1>d. /\ agent \in BOOLEAN /\ captured \in BOOLEAN /\ round_i \in 0..Cap /\ zombie \subseteq ToolUse
      /\ trace \in [ended : BOOLEAN, stop : Stop \cup {"none", "max_rounds"},
                    error : {"none", "exception", "cancelled"}]
      /\ pc \in {"round", "streaming", "tools", "calling", "executing", "finishing",
                 "returned"} \cup Final
  BY <1>0 DEF TypeOK
<1> USE <1>a, <1>d
<1>1. CASE RoundStart
  <2>1. messages' \in Seq(Message) /\ out' \in Seq(FrameSet)
    BY <1>1, ShiftEffect, FramesAreFrames, AppendFrame DEF RoundStart
  <2> QED
    BY <1>1, <1>c, <2>1 DEF RoundStart
<1>2. CASE TextDelta
  <2>1. out' \in Seq(FrameSet)
    BY <1>2, FramesAreFrames, AppendFrame DEF TextDelta
  <2> QED
    BY <1>2, <1>c, <2>1 DEF TextDelta
<1>3. ASSUME NEW stop \in Stop, NEW us \in ToolUses(round_i) \cup {<<>>}, Answer(stop, us)
      PROVE  TypeOK'
  <2>1. us \in Seq(ToolUse)
    BY CallsAreCalls
  <2>2. messages' \in Seq(Message)
    <3>1. AssistantTurn(us, FALSE) \in Message
      BY <2>1, TurnsAreMessages
    <3>2. messages' = Append(messages, AssistantTurn(us, FALSE))
      BY <1>3 DEF Answer
    <3> QED
      BY <3>1, <3>2, AppendProperties
  <2>3. out' \in Seq(FrameSet)
    BY <1>3, FramesAreFrames, AppendFrame DEF Answer
  <2>4. todo' \in Seq(ToolUse) /\ answers' \in Seq(ToolUse)
    BY <1>3, <2>1, EmptySeq DEF Answer
  <2>5. pc' \in {"tools", "finishing"}
    BY <1>3 DEF Answer
  <2>6. trace' \in [ended : BOOLEAN, stop : Stop \cup {"none", "max_rounds"},
                    error : {"none", "exception", "cancelled"}]
    BY <1>3 DEF Answer
  <2> QED
    BY <1>3, <1>c, <2>2, <2>3, <2>4, <2>5, <2>6 DEF Answer
<1>4. CASE Finish
  <2>1. Frame("error") \in FrameSet /\ Frame("done") \in FrameSet
    BY FramesAreFrames
  <2>2. out' \in Seq(FrameSet)
    BY <1>4, <2>1 DEF Finish
  <2> QED
    BY <1>4, <1>c, <2>2 DEF Finish
<1>5. CASE ToolStart
  <2>1. Head(todo) \in ToolUse
    BY <1>5 DEF ToolStart
  <2>2. out' \in Seq(FrameSet)
    BY <1>5, <2>1, FramesAreFrames, AppendFrame DEF ToolStart
  <2> QED
    BY <1>5, <1>c, <2>2 DEF ToolStart
<1>6. CASE Dispatch
  BY <1>6, <1>c DEF Dispatch
<1>7. CASE UnknownTool
  <2>1. out' \in Seq(FrameSet) /\ todo' \in Seq(ToolUse) /\ answers' \in Seq(ToolUse)
    BY <1>0, <1>7, <1>b, DeliverEffect DEF UnknownTool
  <2> QED
    BY <1>7, <1>c, <2>1 DEF UnknownTool, Deliver
<1>8. CASE ToolReturns
  <2>1. out' \in Seq(FrameSet) /\ todo' \in Seq(ToolUse) /\ answers' \in Seq(ToolUse)
    BY <1>0, <1>8, <1>b, DeliverEffect DEF ToolReturns
  <2> QED
    BY <1>8, <1>c, <2>1 DEF ToolReturns, Deliver
<1>9. CASE RoundEnd
  <2>1. messages' \in Seq(Message)
    <3>1. UserTurn(answers, FALSE) \in Message
      BY TurnsAreMessages
    <3>2. messages' = Append(messages, UserTurn(answers, FALSE))
      BY <1>9 DEF RoundEnd
    <3> QED
      BY <3>1, <3>2, AppendProperties
  <2>2. round_i' \in 0..Cap
    BY <1>9, CapAssumption DEF RoundEnd, IInv, ConvInv
  <2> QED
    BY <1>9, <1>c, <2>1, <2>2 DEF RoundEnd
<1>10. CASE CapReached
  BY <1>10, <1>c DEF CapReached
<1>11. CASE Return
  <2>1. out' \in Seq(FrameSet)
    BY <1>11, FramesAreFrames, AppendFrame DEF Return
  <2> QED
    BY <1>11, <1>c, <2>1 DEF Return, Final
<1>12. CASE Fail
  <2>1. out' \in Seq(FrameSet)
    <3>1. Append(out, Frame("error")) \in Seq(FrameSet)
      BY FramesAreFrames, AppendFrame
    <3> QED
      BY <1>12, <3>1 DEF Fail
  <2> QED
    BY <1>12, <1>c, <2>1 DEF Fail, Final
<1>13. CASE Cancel
  <2>1. zombie' \subseteq ToolUse
    BY <1>13, <1>b DEF Cancel
  <2> QED
    BY <1>13, <1>c, <2>1 DEF Cancel, Final
<1>14. CASE ZombieReturns
  BY <1>14, <1>c DEF ZombieReturns
<1> QED
  BY <1>1, <1>2, <1>3, <1>4, <1>5, <1>6, <1>7, <1>8, <1>9, <1>10, <1>11, <1>12, <1>13, <1>14
     DEF Next, Step

-----------------------------------------------------------------------------
(* Every step keeps the conversation well formed.                           *)

(* One more turn.                                                           *)
LEMMA AppendChained ==
  ASSUME NEW msgs \in Seq(Message), NEW m \in Message, Len(msgs) > 0, Chained(msgs),
         msgs[Len(msgs)].role # m.role, msgs[Len(msgs)].uses = m.answers
  PROVE  LET new == Append(msgs, m)
         IN  Len(new) > 0 /\ Chained(new) /\ new[Len(new)] = m
<1> DEFINE new == Append(msgs, m)
<1>1. /\ Len(new) = Len(msgs) + 1 /\ Len(msgs) \in Nat /\ new[Len(msgs) + 1] = m
      /\ \A i \in 1..Len(msgs) : new[i] = msgs[i]
  BY AppendProperties
<1> HIDE DEF new
<1>2. ASSUME NEW i \in 1..(Len(new) - 1)
      PROVE  new[i].role # new[i+1].role /\ new[i].uses = new[i+1].answers
  <2>1. i \in 1..Len(msgs) /\ new[i] = msgs[i]
    BY <1>1
  <2>2. CASE i = Len(msgs)
    BY <1>1, <2>1, <2>2
  <2>3. CASE i # Len(msgs)
    <3>1. i \in 1..(Len(msgs) - 1) /\ i + 1 \in 1..Len(msgs)
      BY <1>1, <2>1, <2>3
    <3> QED
      BY <1>1, <2>1, <3>1 DEF Chained
  <2> QED
    BY <2>2, <2>3
<1> QED
  BY <1>1, <1>2 DEF Chained, new

(* Each step keeps the conversation one the model API accepts.              *)
LEMMA ConvStep == IInv /\ Next => ConvInv'
<1> SUFFICES ASSUME IInv, Next
             PROVE  ConvInv'
  OBVIOUS
<1>0. ConvInv /\ TypeOK
  BY DEF IInv
<1>a. /\ messages \in Seq(Message) /\ todo \in Seq(ToolUse) /\ answers \in Seq(ToolUse)
      /\ round_i \in 0..Cap
  BY <1>0, Typing DEF TypeOK
<1> USE <1>0 DEF ConvInv
<1>1. CASE RoundStart
  <2>1. /\ messages' = ShiftBreakpoint(messages) /\ pc' = "streaming" /\ round_i' < Cap
        /\ pc = "round"
    BY <1>1 DEF RoundStart
  <2>2. /\ Len(messages') = Len(messages)
        /\ \A i \in 1..Len(messages) :
             /\ messages'[i].mark = (i = Len(messages)) /\ messages'[i].role = messages[i].role
             /\ messages'[i].uses = messages[i].uses /\ messages'[i].answers = messages[i].answers
    BY <1>a, <2>1, ShiftEffect
  <2>3. Len(messages) \in Nat
    BY <1>a
  <2>4. Chained(messages')
    <3>1. \A i \in 1..(Len(messages) - 1) : i \in 1..Len(messages) /\ i + 1 \in 1..Len(messages)
      BY <2>3
    <3> QED
      BY <2>2, <3>1 DEF Chained
  <2> QED
    BY <2>1, <2>2, <2>3, <2>4
<1>2. CASE TextDelta
  BY <1>2 DEF TextDelta
<1>3. ASSUME NEW stop \in Stop, NEW us \in ToolUses(round_i) \cup {<<>>}, Answer(stop, us)
      PROVE  ConvInv'
  <2> DEFINE m == AssistantTurn(us, FALSE)
  <2>1. us \in Seq(ToolUse)
    BY <1>a, CallsAreCalls
  <2>2. m \in Message /\ m.role = "assistant" /\ m.uses = us /\ m.answers = <<>>
    BY <2>1, TurnsAreMessages
  <2>3. messages' = Append(messages, m) /\ pc = "streaming" /\ pc' \in {"tools", "finishing"}
    BY <1>3 DEF Answer
  <2> HIDE DEF m
  <2>4. Len(messages') > 0 /\ Chained(messages') /\ messages'[Len(messages')] = m
    BY <1>a, <2>2, <2>3, AppendChained
  <2>5. pc' = "tools" => todo' = us /\ answers' = <<>>
    BY <1>3 DEF Answer
  <2>6. us = <<>> \o us
    BY <2>1
  <2>7. round_i' = round_i
    BY <1>3 DEF Answer
  <2> QED
    BY <2>2, <2>3, <2>4, <2>5, <2>6, <2>7
<1>4. CASE Finish
  BY <1>4 DEF Finish
<1>5. CASE ToolStart
  BY <1>5 DEF ToolStart
<1>6. CASE Dispatch
  BY <1>6 DEF Dispatch
<1>7. CASE UnknownTool \/ ToolReturns
  <2>1. pc \in {"calling", "executing"} /\ Deliver /\ pc' = "tools" /\ UNCHANGED <<messages, round_i>>
    BY <1>7 DEF UnknownTool, ToolReturns, Deliver
  <2>2. answers' \o todo' = answers \o todo
    BY <2>1, DeliverEffect
  <2> QED
    BY <2>1, <2>2
<1>8. CASE RoundEnd
  <2> DEFINE m == UserTurn(answers, FALSE)
  <2>1. m \in Message /\ m.role = "user" /\ m.uses = <<>> /\ m.answers = answers
    BY <1>a, TurnsAreMessages
  <2>2. messages' = Append(messages, m) /\ pc = "tools" /\ pc' = "round" /\ todo = <<>>
    BY <1>8 DEF RoundEnd
  <2> HIDE DEF m
  <2>3. messages[Len(messages)].uses = answers
    BY <1>a, <2>2
  <2>4. Len(messages') > 0 /\ Chained(messages') /\ messages'[Len(messages')] = m
    BY <1>a, <2>1, <2>2, <2>3, AppendChained
  <2> QED
    BY <2>1, <2>2, <2>4
<1>9. CASE CapReached
  BY <1>9 DEF CapReached
<1>10. CASE Return
  BY <1>10 DEF Return
<1>11. CASE Fail
  BY <1>11 DEF Fail
<1>12. CASE Cancel
  BY <1>12 DEF Cancel
<1>13. CASE ZombieReturns
  BY <1>13 DEF ZombieReturns
<1> QED
  BY <1>1, <1>2, <1>3, <1>4, <1>5, <1>6, <1>7, <1>8, <1>9, <1>10, <1>11, <1>12, <1>13
     DEF Next, Step

-----------------------------------------------------------------------------
(* Every step keeps started and answered calls paired.                      *)

(* A frame about no tool, after a frame that starts none.                   *)
LEMMA AppendPlain ==
  ASSUME NEW o \in Seq(FrameSet), Paired(o), Len(o) > 0 => o[Len(o)].event # "tool_start",
         NEW e \in {"round_start", "text", "usage", "error", "done", "result"}
  PROVE  LET new == Append(o, Frame(e))
         IN  /\ new \in Seq(FrameSet) /\ Paired(new) /\ Len(new) = Len(o) + 1
             /\ new[Len(new)] = Frame(e) /\ new[Len(new)].event # "tool_start"
<1>1. Frame(e) \in FrameSet /\ Frame(e).event \notin {"tool_start", "tool_call"}
  BY FramesAreFrames
<1>2. Paired(Append(o, Frame(e)))
  BY <1>1, AppendPaired
<1> QED
  BY <1>1, <1>2, AppendFrame

(* Each step keeps every tool frame with its partner.                       *)
LEMMA PairStep == IInv /\ Next => PairInv'
<1> SUFFICES ASSUME IInv, Next
             PROVE  PairInv'
  OBVIOUS
<1>0. PairInv /\ TraceInv /\ ConvInv /\ TypeOK
  BY DEF IInv
<1>a. /\ out \in Seq(FrameSet) /\ todo \in Seq(ToolUse)
      /\ trace \in [ended : BOOLEAN, stop : Stop \cup {"none", "max_rounds"},
                    error : {"none", "exception", "cancelled"}]
  BY <1>0, Typing DEF TypeOK
<1>b. /\ pc \notin Final => trace.error = "none" /\ Paired(out)
      /\ pc \in {"calling", "executing"} =>
           Len(out) > 0 /\ out[Len(out)] = ToolFrame("tool_start", Head(todo))
      /\ pc \notin {"calling", "executing"} \cup Final /\ Len(out) > 0 =>
           out[Len(out)].event # "tool_start"
      /\ pc \in {"calling", "executing"} => todo # <<>>
  BY <1>0 DEF PairInv, TraceInv, ConvInv
<1> USE DEF Final
<1>1. ASSUME NEW e \in {"round_start", "text", "usage"}, pc \in {"round", "streaming"},
             out' = Append(out, Frame(e)), trace'.error = "none",
             pc' \in {"streaming", "tools", "finishing"}
      PROVE  PairInv'
  <2>1. Paired(out') /\ out'[Len(out')].event # "tool_start"
    BY <1>a, <1>b, <1>1, AppendPlain
  <2> QED
    BY <1>1, <2>1 DEF PairInv
<1>2. CASE RoundStart
  BY <1>1, <1>2, <1>b DEF RoundStart
<1>3. CASE TextDelta
  BY <1>1, <1>3, <1>b DEF TextDelta
<1>4. ASSUME NEW stop \in Stop, NEW us \in ToolUses(round_i) \cup {<<>>}, Answer(stop, us)
      PROVE  PairInv'
  <2>1. trace'.error = "none"
    BY <1>a, <1>b, <1>4 DEF Answer
  <2> QED
    BY <1>1, <1>4, <2>1 DEF Answer
<1>5. CASE Finish
  <2>1. /\ pc = "finishing" /\ pc' = "returned" /\ trace' = trace
        /\ \/ out' = out \o <<Frame("error"), Frame("done")>>
           \/ out' = out \o <<Frame("done")>>
    BY <1>5 DEF Finish
  <2>2. CASE out' = out \o <<Frame("done")>>
    <3>1. out' = Append(out, Frame("done"))
      BY <1>a, <2>2, FramesAreFrames
    <3>2. Paired(out') /\ out'[Len(out')].event # "tool_start"
      BY <1>a, <1>b, <2>1, <3>1, AppendPlain
    <3> QED
      BY <1>b, <2>1, <3>2 DEF PairInv
  <2>3. CASE out' = out \o <<Frame("error"), Frame("done")>>
    <3> DEFINE o == Append(out, Frame("error"))
    <3>1. /\ o \in Seq(FrameSet) /\ Paired(o) /\ o[Len(o)].event # "tool_start"
      BY <1>a, <1>b, <2>1, AppendPlain
    <3>2. out' = Append(o, Frame("done"))
      BY <1>a, <2>3, FramesAreFrames
    <3> HIDE DEF o
    <3>3. Paired(out') /\ out'[Len(out')].event # "tool_start"
      BY <3>1, <3>2, AppendPlain
    <3> QED
      BY <1>b, <2>1, <3>3 DEF PairInv
  <2> QED
    BY <2>1, <2>2, <2>3
<1>6. CASE ToolStart
  <2> DEFINE f == ToolFrame("tool_start", Head(todo))
  <2>1. pc = "tools" /\ todo # <<>> /\ out' = Append(out, f) /\ pc' = "calling"
        /\ UNCHANGED <<todo, trace>>
    BY <1>6 DEF ToolStart
  <2>2. f \in FrameSet /\ f.event = "tool_start"
    BY <1>a, <2>1, FramesAreFrames
  <2> HIDE DEF f
  <2>3. Paired(out') /\ Len(out') > 0 /\ out'[Len(out')] = f
    BY <1>a, <1>b, <2>1, <2>2, AppendPaired, AppendFrame
  <2> QED
    BY <1>b, <2>1, <2>3 DEF PairInv, f
<1>7. CASE Dispatch
  BY <1>7, <1>b DEF Dispatch, PairInv
<1>8. CASE UnknownTool \/ ToolReturns
  <2> DEFINE f == ToolFrame("tool_call", Head(todo))
  <2>1. pc \in {"calling", "executing"} /\ out' = Append(out, f) /\ pc' = "tools" /\ trace' = trace
    BY <1>8 DEF UnknownTool, ToolReturns, Deliver
  <2>2. Head(todo) \in ToolUse
    BY <1>a, <1>b, <2>1
  <2>3. /\ f \in FrameSet /\ f.event = "tool_call" /\ f.use[1] = Head(todo)
        /\ ToolFrame("tool_start", Head(todo)).use[1] = Head(todo)
    BY <2>2, FramesAreFrames
  <2>4. f = ToolFrame("tool_call", Head(todo))
    OBVIOUS
  <2> HIDE DEF f
  <2>5. Len(out) > 0 /\ out[Len(out)] = ToolFrame("tool_start", Head(todo))
    BY <1>b, <2>1
  <2>6. Paired(out') /\ out'[Len(out')] = f
    BY <1>a, <1>b, <2>1, <2>3, <2>4, <2>5, AppendPaired, AppendFrame
  <2> QED
    BY <1>b, <2>1, <2>3, <2>6 DEF PairInv
<1>9. CASE RoundEnd
  BY <1>9, <1>b DEF RoundEnd, PairInv
<1>10. CASE CapReached
  <2>1. trace'.error = "none"
    BY <1>10, <1>a, <1>b DEF CapReached
  <2> QED
    BY <1>10, <1>b, <2>1 DEF CapReached, PairInv
<1>11. CASE Return
  <2>1. trace'.error = "none" /\ pc' = "closed" /\ pc = "returned"
    BY <1>11, <1>a, <1>b DEF Return
  <2>2. Paired(out')
    BY <1>11, <1>a, <1>b, AppendPlain DEF Return
  <2> QED
    BY <2>1, <2>2 DEF PairInv
<1>12. CASE Fail
  <2>1. trace'.error = "exception" /\ pc' \in Final
    BY <1>12, <1>a DEF Fail
  <2>2. ToolFramesPaired'
    <3>1. CASE UNCHANGED out
      <4>1. Paired(out)'
        BY <1>12, <1>b, <3>1 DEF Fail, Paired
      <4> QED
        BY <1>a, <3>1, <4>1 DEF Paired, ToolFramesPaired
    <3>2. CASE out' = Append(out, Frame("error"))
      <4>1. /\ Frame("error") \in FrameSet /\ Frame("error").event = "error"
        BY FramesAreFrames
      <4>2. /\ out' \in Seq(FrameSet) /\ Len(out') = Len(out) + 1 /\ Len(out) \in Nat
            /\ out'[Len(out) + 1] = Frame("error") /\ \A i \in 1..Len(out) : out'[i] = out[i]
        BY <1>a, <3>2, <4>1, AppendFrame
      <4>3. Paired(out)
        BY <1>12, <1>b DEF Fail
      <4> SUFFICES ASSUME NEW i \in DOMAIN out'
                   PROVE  /\ out'[i].event = "tool_call" =>
                               i > 1 /\ out'[i-1] = ToolFrame("tool_start", out'[i].use[1])
                          /\ out'[i].event = "tool_start" /\ i < Len(out') =>
                               \/ out'[i+1] = ToolFrame("tool_call", out'[i].use[1])
                               \/ /\ trace'.error = "exception" /\ i = Len(out') - 1
                                  /\ out'[i+1].event = "error"
        BY Zenon DEF ToolFramesPaired
      <4>4. i \in 1..Len(out) + 1
        BY <4>2
      <4>5. CASE i = Len(out) + 1
        BY <4>1, <4>2, <4>5
      <4>6. CASE i = Len(out)
        <5>1. i \in 1..Len(out) /\ out'[i] = out[i] /\ (i > 1 => i - 1 \in 1..Len(out))
          BY <4>2, <4>4, <4>6
        <5> QED
          BY <2>1, <4>1, <4>2, <4>3, <4>6, <5>1 DEF Paired
      <4>7. CASE i \in 1..Len(out) /\ i < Len(out)
        <5>1. /\ out'[i] = out[i] /\ (i > 1 => i - 1 \in 1..Len(out)) /\ i + 1 \in 1..Len(out)
          BY <4>2, <4>7
        <5> QED
          BY <4>2, <4>3, <4>7, <5>1 DEF Paired
      <4> QED
        BY <4>2, <4>4, <4>5, <4>6, <4>7
    <3> QED
      BY <1>12, <3>1, <3>2 DEF Fail
  <2> QED
    BY <2>1, <2>2 DEF PairInv
<1>13. CASE Cancel
  <2>1. trace'.error = "cancelled" /\ pc' = "cancelled" /\ out' = out /\ pc \notin Final
    BY <1>13, <1>a DEF Cancel
  <2> QED
    BY <1>b, <2>1 DEF PairInv
<1>14. CASE ZombieReturns
  BY <1>0, <1>14 DEF ZombieReturns, PairInv, ToolFramesPaired
<1> QED
  BY <1>2, <1>3, <1>4, <1>5, <1>6, <1>7, <1>8, <1>9, <1>10, <1>11, <1>12, <1>13, <1>14
     DEF Next, Step

-----------------------------------------------------------------------------
(* Every step keeps the trace.                                              *)

(* Each step keeps the trace in agreement with the frames sent.             *)
LEMMA TraceStep == IInv /\ Next => TraceInv'
<1> SUFFICES ASSUME IInv, Next
             PROVE  TraceInv'
  OBVIOUS
<1>0. TraceInv
  BY DEF IInv
<1>a. trace \in [ended : BOOLEAN, stop : Stop \cup {"none", "max_rounds"},
                 error : {"none", "exception", "cancelled"}]
  BY DEF IInv, TypeOK
<1> USE <1>0, <1>a DEF TraceInv, Final
<1>1. CASE RoundStart \/ TextDelta \/ ToolStart \/ Dispatch \/ UnknownTool \/ ToolReturns \/ RoundEnd
  <2>1. UNCHANGED trace /\ pc \notin Final \cup {"finishing", "returned"}
        /\ pc' \notin Final \cup {"finishing", "returned"}
    BY <1>1 DEF RoundStart, TextDelta, ToolStart, Dispatch, UnknownTool, ToolReturns, Deliver, RoundEnd
  <2> QED
    BY <2>1
<1>2. ASSUME NEW stop \in Stop, NEW us \in ToolUses(round_i) \cup {<<>>}, Answer(stop, us)
      PROVE  TraceInv'
  <2>1. pc = "streaming" /\ (pc' = "tools" \/ (pc' = "finishing" /\ trace'.stop = stop))
        /\ trace'.ended = trace.ended /\ trace'.error = trace.error
    BY <1>2 DEF Answer
  <2> QED
    BY <2>1 DEF Stop
<1>3. CASE Finish
  BY <1>3 DEF Finish
<1>4. CASE CapReached
  BY <1>4 DEF CapReached
<1>5. CASE Return
  BY <1>5 DEF Return
<1>6. CASE Fail
  BY <1>6 DEF Fail
<1>7. CASE Cancel
  BY <1>7 DEF Cancel
<1>8. CASE ZombieReturns
  BY <1>8 DEF ZombieReturns
<1> QED
  BY <1>1, <1>2, <1>3, <1>4, <1>5, <1>6, <1>7, <1>8 DEF Next, Step

-----------------------------------------------------------------------------
(* Every step keeps the end of the stream.                                  *)

(* Frames of other events leave a stream without what it is without.        *)
LEMMA WithoutAppend ==
  ASSUME NEW o \in Seq(FrameSet), NEW f \in FrameSet, NEW e, Without(o, e), f.event # e
  PROVE  Without(Append(o, f), e)
  BY AppendFrame

(* Each step keeps an ended stream as its final frames say.                 *)
LEMMA EndStep == IInv /\ Next => EndInv'
<1> SUFFICES ASSUME IInv, Next
             PROVE  EndInv'
  OBVIOUS
<1>0. EndInv /\ TraceInv /\ ConvInv /\ TypeOK
  BY DEF IInv
<1>a. /\ out \in Seq(FrameSet) /\ todo \in Seq(ToolUse)
      /\ trace \in [ended : BOOLEAN, stop : Stop \cup {"none", "max_rounds"},
                    error : {"none", "exception", "cancelled"}]
  BY <1>0, Typing DEF TypeOK
<1>b. /\ pc \notin Final => trace.error = "none" /\ Without(out, "result")
      /\ pc \notin Final \cup {"returned"} => Without(out, "done")
      /\ pc = "returned" => Frames("done") = {Len(out)}
      /\ pc \in {"calling", "executing"} => todo # <<>>
  BY <1>0 DEF EndInv, TraceInv, ConvInv, Final
<1>c. ASSUME Without(out', "done"), Without(out', "result"),
             pc' # "returned", pc' = "closed" => trace'.error # "none"
      PROVE  EndInv'
  BY <1>c DEF EndInv
<1> USE DEF Final
(* Most steps add a frame that is neither, or none. *)
<1>1. ASSUME NEW f \in FrameSet, f.event \notin {"done", "result"}, out' = Append(out, f),
             pc \notin Final \cup {"returned"}, pc' \notin Final \cup {"returned"}
      PROVE  EndInv'
  BY <1>a, <1>b, <1>c, <1>1, WithoutAppend
<1>2. CASE RoundStart
  <2>1. Frame("round_start") \in FrameSet /\ Frame("round_start").event = "round_start"
    BY FramesAreFrames
  <2> QED
    BY <1>1, <1>2, <2>1 DEF RoundStart
<1>3. CASE TextDelta
  <2>1. Frame("text") \in FrameSet /\ Frame("text").event = "text"
    BY FramesAreFrames
  <2> QED
    BY <1>1, <1>3, <2>1 DEF TextDelta
<1>4. ASSUME NEW stop \in Stop, NEW us \in ToolUses(round_i) \cup {<<>>}, Answer(stop, us)
      PROVE  EndInv'
  <2>1. Frame("usage") \in FrameSet /\ Frame("usage").event = "usage"
    BY FramesAreFrames
  <2>2. out' = Append(out, Frame("usage")) /\ pc = "streaming" /\ pc' \in {"tools", "finishing"}
    BY <1>4 DEF Answer
  <2> QED
    BY <1>1, <2>1, <2>2
<1>5. CASE Finish
  <2>1. /\ pc = "finishing" /\ pc' = "returned" /\ trace' = trace
        /\ \/ out' = out \o <<Frame("error"), Frame("done")>>
           \/ out' = out \o <<Frame("done")>>
    BY <1>5 DEF Finish
  <2>2. /\ Frame("error") \in FrameSet /\ Frame("error").event = "error"
        /\ Frame("done") \in FrameSet /\ Frame("done").event = "done"
    BY FramesAreFrames
  <2>3. PICK o \in Seq(FrameSet) : /\ out' = Append(o, Frame("done"))
                                   /\ Without(o, "done") /\ Without(o, "result")
    <3>1. CASE out' = out \o <<Frame("done")>>
      <4>1. out' = Append(out, Frame("done"))
        BY <1>a, <2>2, <3>1
      <4> QED
        BY <1>a, <1>b, <2>1, <4>1
    <3>2. CASE out' = out \o <<Frame("error"), Frame("done")>>
      <4>1. out' = Append(Append(out, Frame("error")), Frame("done"))
        BY <1>a, <2>2, <3>2
      <4>2. Append(out, Frame("error")) \in Seq(FrameSet)
        BY <1>a, <2>2, AppendFrame
      <4>3. Without(Append(out, Frame("error")), "done")
            /\ Without(Append(out, Frame("error")), "result")
        BY <1>a, <1>b, <2>1, <2>2, WithoutAppend
      <4> QED
        BY <4>1, <4>2, <4>3
    <3> QED
      BY <2>1, <3>1, <3>2
  <2>4. /\ out' \in Seq(FrameSet) /\ Len(out') = Len(o) + 1 /\ Len(o) \in Nat
        /\ out'[Len(o) + 1] = Frame("done") /\ \A i \in 1..Len(o) : out'[i] = o[i]
    BY <2>2, <2>3, AppendFrame
  <2>5. Frames("done")' = {Len(out')}
    BY <2>2, <2>3, <2>4 DEF Frames, Without
  <2>6. Without(out', "result")
    BY <2>2, <2>3, WithoutAppend
  <2> QED
    BY <1>b, <2>1, <2>5, <2>6 DEF EndInv
<1>6. CASE ToolStart
  <2>1. Head(todo) \in ToolUse
    BY <1>6, <1>a DEF ToolStart
  <2>2. ToolFrame("tool_start", Head(todo)) \in FrameSet
        /\ ToolFrame("tool_start", Head(todo)).event = "tool_start"
    BY <2>1, FramesAreFrames
  <2> QED
    BY <1>1, <1>6, <2>2 DEF ToolStart
<1>7. CASE UnknownTool \/ ToolReturns
  <2>1. /\ pc \in {"calling", "executing"} /\ pc' = "tools"
        /\ out' = Append(out, ToolFrame("tool_call", Head(todo)))
    BY <1>7 DEF UnknownTool, ToolReturns, Deliver
  <2>2. Head(todo) \in ToolUse
    BY <1>a, <1>b, <2>1
  <2>3. ToolFrame("tool_call", Head(todo)) \in FrameSet
        /\ ToolFrame("tool_call", Head(todo)).event = "tool_call"
    BY <2>2, FramesAreFrames
  <2> QED
    BY <1>1, <2>1, <2>3
<1>8. CASE Dispatch \/ RoundEnd \/ CapReached
  <2>1. out' = out /\ pc \notin Final \cup {"returned"} /\ pc' \notin Final \cup {"returned"}
    BY <1>8 DEF Dispatch, RoundEnd, CapReached
  <2> QED
    BY <1>b, <1>c, <2>1
<1>9. CASE Return
  <2>1. /\ pc = "returned" /\ pc' = "closed" /\ trace'.error = "none"
        /\ Frames("done") = {Len(out)}
        /\ out' = out \/ out' = Append(out, Frame("result"))
    BY <1>9, <1>a, <1>b DEF Return
  <2>2. Frame("result") \in FrameSet /\ Frame("result").event = "result"
    BY FramesAreFrames
  <2>3. Len(out) \in DOMAIN out /\ out[Len(out)].event = "done"
    BY <2>1 DEF Frames
  <2>4. \E d \in 1..Len(out') : /\ Frames("done")' = {d}
                                /\ \A j \in 1..Len(out') : j > d => out'[j].event = "result"
    <3>1. CASE out' = out
      <4>1. Frames("done")' = {Len(out')}
        BY <2>1, <3>1 DEF Frames
      <4>2. Len(out') \in 1..Len(out') /\ \A j \in 1..Len(out') : ~(j > Len(out'))
        BY <1>a, <2>3, <3>1
      <4> QED
        BY <4>1, <4>2
    <3>2. CASE out' = Append(out, Frame("result"))
      <4>1. /\ out' \in Seq(FrameSet) /\ Len(out') = Len(out) + 1 /\ Len(out) \in Nat
            /\ out'[Len(out) + 1] = Frame("result") /\ \A i \in 1..Len(out) : out'[i] = out[i]
        BY <1>a, <2>2, <3>2, AppendFrame
      <4>2. Frames("done")' = {Len(out)}
        <5>1. \A i \in 1..Len(out) : out[i].event = "done" <=> i = Len(out)
          BY <1>a, <2>1 DEF Frames
        <5> QED
          BY <1>a, <2>2, <2>3, <4>1, <5>1, SMTT(30) DEF Frames
      <4>3. /\ Len(out) \in 1..Len(out')
            /\ \A j \in 1..Len(out') : j > Len(out) => out'[j].event = "result"
        BY <1>a, <2>2, <2>3, <4>1
      <4> QED
        BY <4>2, <4>3
    <3> QED
      BY <2>1, <3>1, <3>2
  <2> QED
    BY <2>1, <2>4 DEF EndInv
<1>10. CASE Fail
  <2>1. /\ pc \in {"streaming", "executing"} /\ trace'.error = "exception"
        /\ pc' \in {"raised", "closed"} /\ (out' = out \/ out' = Append(out, Frame("error")))
    BY <1>10, <1>a DEF Fail
  <2>2. Frame("error") \in FrameSet /\ Frame("error").event = "error"
    BY FramesAreFrames
  <2>3. Without(out', "done") /\ Without(out', "result")
    BY <1>a, <1>b, <2>1, <2>2, WithoutAppend
  <2> QED
    BY <1>c, <2>1, <2>3
<1>11. CASE Cancel
  <2>1. trace'.error = "cancelled" /\ pc' = "cancelled" /\ out' = out /\ pc \notin Final
    BY <1>11, <1>a DEF Cancel
  <2> QED
    BY <1>b, <2>1 DEF EndInv
<1>12. CASE ZombieReturns
  BY <1>0, <1>12 DEF ZombieReturns, EndInv, Frames
<1> QED
  BY <1>2, <1>3, <1>4, <1>5, <1>6, <1>7, <1>8, <1>9, <1>10, <1>11, <1>12 DEF Next, Step

-----------------------------------------------------------------------------
(* Every step keeps captures to agents and worker threads to cancellations. *)

(* Each step keeps what the agent's caller relies on.                       *)
LEMMA AgentStep == IInv /\ Next => AgentInv'
<1> SUFFICES ASSUME IInv, Next
             PROVE  AgentInv'
  OBVIOUS
<1>0. AgentInv /\ EndInv /\ TraceInv /\ ConvInv /\ TypeOK
  BY DEF IInv
<1>a. /\ out \in Seq(FrameSet) /\ todo \in Seq(ToolUse) /\ round_i \in 0..Cap /\ captured \in BOOLEAN
      /\ trace \in [ended : BOOLEAN, stop : Stop \cup {"none", "max_rounds"},
                    error : {"none", "exception", "cancelled"}]
  BY <1>0, Typing DEF TypeOK
<1>b. /\ pc \notin Final => trace.error = "none" /\ Without(out, "result") /\ zombie = {}
      /\ pc \in {"calling", "executing"} => todo # <<>>
      /\ ~agent => /\ ~captured
                   /\ \A i \in 1..Len(todo) : todo[i].kind # "terminal"
                   /\ \A u \in zombie : u.kind # "terminal"
  BY <1>0 DEF EndInv, TraceInv, ConvInv, AgentInv, Final
<1> USE DEF Final
<1>1. CASE RoundStart \/ TextDelta \/ Finish \/ ToolStart \/ Dispatch \/ RoundEnd \/ CapReached
  <2>1. UNCHANGED <<agent, todo, captured, zombie>> /\ pc' \notin Final /\ pc \notin Final
    BY <1>1 DEF RoundStart, TextDelta, Finish, ToolStart, Dispatch, RoundEnd, CapReached
  <2> QED
    BY <1>b, <2>1 DEF AgentInv
<1>2. ASSUME NEW stop \in Stop, NEW us \in ToolUses(round_i) \cup {<<>>}, Answer(stop, us)
      PROVE  AgentInv'
  <2>1. /\ UNCHANGED <<agent, captured, zombie>> /\ pc' \notin Final /\ pc \notin Final
        /\ todo' = us \/ todo' = todo
    BY <1>2 DEF Answer
  <2>2. ~agent => \A i \in 1..Len(us) : us[i].kind # "terminal"
    BY <1>a, CallsAreCalls
  <2> QED
    BY <1>b, <2>1, <2>2 DEF AgentInv
<1>3. CASE UnknownTool \/ ToolReturns
  <2>1. /\ pc \in {"calling", "executing"} /\ Deliver /\ pc' = "tools" /\ UNCHANGED <<agent, zombie>>
        /\ captured' = captured \/ (Head(todo).kind = "terminal" /\ captured' = TRUE)
    BY <1>3 DEF UnknownTool, ToolReturns, Deliver
  <2>2. \A i \in 1..Len(todo') : \E k \in 1..Len(todo) : todo'[i] = todo[k]
    BY <1>0, <1>b, <2>1, DeliverEffect
  <2>3. \E k \in 1..Len(todo) : Head(todo) = todo[k]
    BY <1>a, <1>b, <2>1
  <2> QED
    BY <1>b, <2>1, <2>2, <2>3 DEF AgentInv
<1>4. CASE Return
  <2>1. /\ pc = "returned" /\ pc' = "closed" /\ UNCHANGED <<agent, todo, captured, zombie>>
        /\ out' = IF agent /\ captured THEN Append(out, Frame("result")) ELSE out
    BY <1>4 DEF Return
  <2>2. Without(out, "result") /\ (captured => agent)
    BY <1>b, <2>1
  <2>3. CASE captured
    <3>1. Frame("result") \in FrameSet /\ Frame("result").event = "result"
      BY FramesAreFrames
    <3>2. /\ out' \in Seq(FrameSet) /\ Len(out') = Len(out) + 1 /\ Len(out) \in Nat
          /\ out'[Len(out) + 1] = Frame("result")
      BY <1>a, <2>1, <2>2, <2>3, <3>1, AppendFrame
    <3>3. Frames("result")' # {}
      BY <3>1, <3>2 DEF Frames
    <3> QED
      BY <1>b, <2>1, <2>2, <2>3, <3>3 DEF AgentInv
  <2>4. CASE ~captured
    <3>1. Frames("result")' = {}
      BY <1>a, <2>1, <2>2, <2>4 DEF Frames, Without
    <3> QED
      BY <1>b, <2>1, <2>4, <3>1 DEF AgentInv
  <2> QED
    BY <2>3, <2>4
<1>5. CASE Fail
  <2>1. /\ trace'.error = "exception" /\ pc \notin Final /\ UNCHANGED <<agent, todo, captured, zombie>>
    BY <1>5, <1>a DEF Fail
  <2> QED
    BY <1>b, <2>1 DEF AgentInv
<1>6. CASE Cancel
  <2>1. /\ pc' = "cancelled" /\ pc \notin Final /\ UNCHANGED <<agent, todo, captured>>
        /\ zombie' \subseteq {Head(todo)} /\ (zombie' # {} => pc = "executing")
    BY <1>6 DEF Cancel
  <2>2. zombie' # {} => \E k \in 1..Len(todo) : Head(todo) = todo[k]
    BY <1>a, <1>b, <2>1
  <2> QED
    BY <1>b, <2>1, <2>2 DEF AgentInv
<1>7. CASE ZombieReturns
  <2>1. PICK u \in zombie : /\ zombie' = zombie \ {u}
                            /\ (u.kind = "terminal" /\ captured' = TRUE) \/ UNCHANGED captured
                            /\ UNCHANGED <<agent, pc, todo, out, trace>>
    BY <1>7 DEF ZombieReturns
  <2>2. pc = "cancelled"
    BY <1>0, <2>1 DEF AgentInv
  <2> QED
    BY <1>b, <2>1, <2>2 DEF AgentInv
<1> QED
  BY <1>1, <1>2, <1>3, <1>4, <1>5, <1>6, <1>7 DEF Next, Step

-----------------------------------------------------------------------------
(* The inductive invariant holds in every reachable state.                  *)
THEOREM LoopInductive == Spec => []IInv
<1>1. IInv /\ UNCHANGED vars => IInv'
  <2> SUFFICES ASSUME IInv, UNCHANGED vars
               PROVE  IInv'
    OBVIOUS
  <2> USE DEF vars, IInv
  <2>1. TypeOK'
    BY DEF TypeOK
  <2>2. ConvInv'
    BY DEF ConvInv
  <2>3. PairInv'
    BY DEF PairInv, ToolFramesPaired
  <2>4. TraceInv'
    BY DEF TraceInv
  <2>5. EndInv'
    BY DEF EndInv, Frames
  <2>6. AgentInv'
    BY DEF AgentInv, Frames
  <2> QED
    BY <2>1, <2>2, <2>3, <2>4, <2>5, <2>6
<1>2. IInv /\ [Next]_vars => IInv'
  BY <1>1, TypedStep, ConvStep, PairStep, TraceStep, EndStep, AgentStep DEF IInv
<1> QED
  BY <1>2, InitInv, PTL DEF Spec

(* The loop's state is well-typed; in particular no more than Cap rounds    *)
(* are ever run.                                                            *)
THEOREM LoopTypeCorrect == Spec => []TypeOK
  BY LoopInductive, PTL DEF IInv

(* Every request is one the model API accepts.                              *)
THEOREM RequestsAccepted == Spec => []RequestsWellFormed
<1>1. IInv => RequestsWellFormed
  BY DEF IInv, ConvInv, Chained, RequestsWellFormed
<1> QED
  BY <1>1, LoopInductive, PTL

(* A request spends one breakpoint on the conversation, on its newest turn. *)
THEOREM BudgetKept == Spec => []BreakpointBudget
<1>1. IInv => BreakpointBudget
  <2> SUFFICES ASSUME IInv, pc = "streaming"
               PROVE  /\ SystemBreakpoints + ToolBreakpoints + Cardinality(Marked(messages))
                           <= MaxBreakpoints
                      /\ Len(messages) \in Marked(messages)
    BY DEF BreakpointBudget
  <2>1. /\ messages \in Seq(Message) /\ Len(messages) > 0
        /\ \A i \in 1..Len(messages) : messages[i].mark = (i = Len(messages))
    BY Typing DEF IInv, ConvInv
  <2>2. DOMAIN messages = 1..Len(messages) /\ Len(messages) \in 1..Len(messages)
    BY <2>1
  <2>3. \A i \in 1..Len(messages) : messages[i].mark <=> i = Len(messages)
    BY <2>1, Zenon
  <2>4. Marked(messages) = {Len(messages)}
    BY <2>2, <2>3 DEF Marked
  <2>5. Cardinality(Marked(messages)) = 1
    BY <2>4, FS_Singleton
  <2> QED
    BY <2>4, <2>5 DEF SystemBreakpoints, ToolBreakpoints, MaxBreakpoints
<1> QED
  BY <1>1, LoopInductive, PTL

(* The stream and the log tell one story.                                   *)
THEOREM StreamToldTruly == Spec => []TraceTellsTheStream
<1>1. IInv => TraceTellsTheStream
  <2> SUFFICES ASSUME IInv
               PROVE  TraceTellsTheStream
    OBVIOUS
  <2>1. out \in Seq(FrameSet)
    BY Typing DEF IInv
  <2>2. ToolFramesPaired
    BY <2>1, PairedMeans DEF IInv, PairInv
  <2>3. ASSUME trace.ended, trace.error = "none"
        PROVE  /\ Cardinality(Frames("done")) = 1
               /\ \A d \in Frames("done"), j \in (DOMAIN out) : j > d => out[j].event = "result"
               /\ trace.stop # "none"
    <3>1. pc = "closed"
      BY <2>3 DEF IInv, TraceInv, Final
    <3>2. PICK d \in 1..Len(out) : /\ Frames("done") = {d}
                                   /\ \A j \in 1..Len(out) : j > d => out[j].event = "result"
      BY <2>3, <3>1 DEF IInv, EndInv
    <3>3. Cardinality(Frames("done")) = 1
      BY <3>2, FS_Singleton
    <3>4. trace.stop # "none"
      BY <2>3, <3>1 DEF IInv, TraceInv
    <3> QED
      BY <2>1, <3>2, <3>3, <3>4
  <2>4. trace.error = "exception" => Frames("done") = {} /\ Frames("result") = {}
    BY <2>1, WithoutMeans DEF IInv, EndInv
  <2>5. trace.ended /\ trace.error = "cancelled" => Frames("result") = {}
    BY <2>1, WithoutMeans DEF IInv, EndInv, TraceInv, Final
  <2> QED
    BY <2>2, <2>3, <2>4, <2>5 DEF TraceTellsTheStream
<1> QED
  BY <1>1, LoopInductive, PTL

-----------------------------------------------------------------------------
(* The loop implements the stream.                                          *)

(* A loop that has not run is an agent stream that has not.                 *)
LEMMA StreamInit == Init => Stream!Init
  BY DEF Init, Stream!Init, Frames

(* Every step of the loop is a step of the agent stream, or none.           *)
LEMMA StreamStep == IInv /\ IInv' /\ [Next]_vars => [Stream!Next]_(Stream!streamVars)
<1> SUFFICES ASSUME IInv, IInv', [Next]_vars
             PROVE  Stream!Next \/ UNCHANGED Stream!streamVars
  OBVIOUS
<1>a. /\ out \in Seq(FrameSet) /\ out' \in Seq(FrameSet)
      /\ trace \in [ended : BOOLEAN, stop : Stop \cup {"none", "max_rounds"},
                    error : {"none", "exception", "cancelled"}]
      /\ captured \in BOOLEAN /\ captured' \in BOOLEAN
  BY DEF IInv, TypeOK, FrameSet
<1>b. /\ pc # "closed" => Frames("result") = {}
      /\ trace.error = "exception" => Frames("result") = {}
  BY <1>a, WithoutMeans DEF IInv, EndInv
<1>c. /\ pc' # "closed" => Frames("result")' = {}
      /\ trace'.error = "exception" => Frames("result")' = {}
  <2>1. \A e : Without(out', e) <=> Frames(e)' = {}
    BY <1>a DEF Without, Frames
  <2> QED
    BY <2>1 DEF IInv, EndInv
<1> USE DEF Final
<1>1. ASSUME pc \notin Final, pc' \notin Final, captured' = captured
      PROVE  UNCHANGED Stream!streamVars
  BY <1>1, <1>b, <1>c DEF Stream!streamVars
<1>2. CASE RoundStart \/ TextDelta \/ Finish \/ ToolStart \/ Dispatch \/ UnknownTool
           \/ RoundEnd \/ CapReached
  BY <1>1, <1>2 DEF RoundStart, TextDelta, Finish, ToolStart, Dispatch, UnknownTool, Deliver,
                    RoundEnd, CapReached
<1>3. ASSUME NEW stop \in Stop, NEW us \in ToolUses(round_i) \cup {<<>>}, Answer(stop, us)
      PROVE  UNCHANGED Stream!streamVars
  BY <1>1, <1>3 DEF Answer
<1>4. CASE ToolReturns
  <2>1. pc = "executing" /\ pc' = "tools" /\ (captured' = TRUE \/ captured' = captured)
    BY <1>4 DEF ToolReturns, Deliver
  <2>2. CASE captured' = captured
    BY <1>1, <2>1, <2>2
  <2>3. CASE captured' = TRUE
    BY <1>b, <1>c, <2>1, <2>3 DEF Stream!Next, Stream!Ack
  <2> QED
    BY <2>1, <2>2, <2>3
<1>5. CASE Return
  <2>1. /\ pc = "returned" /\ pc' = "closed" /\ captured' = captured /\ trace'.error = "none"
    BY <1>5, <1>a DEF Return, IInv, TraceInv
  <2>2. Frames("result")' # {} <=> captured'
    BY <2>1 DEF IInv, AgentInv
  <2>3. (Frames("result")' # {}) = captured
    <3>1. CASE captured = TRUE
      BY <2>1, <2>2, <3>1
    <3>2. CASE captured = FALSE
      BY <2>1, <2>2, <3>2
    <3> QED
      BY <1>a, <3>1, <3>2
  <2> QED
    BY <2>1, <2>3 DEF Stream!Next, Stream!Return
<1>6. CASE Fail
  <2>1. /\ pc \notin Final /\ pc' \in {"raised", "closed"} /\ captured' = captured
        /\ trace'.error = "exception"
    BY <1>6, <1>a DEF Fail
  <2> QED
    BY <1>b, <1>c, <2>1 DEF Stream!Next, Stream!Raise
<1>7. CASE Cancel
  <2>1. pc \notin Final /\ pc' = "cancelled" /\ captured' = captured
    BY <1>7 DEF Cancel
  <2> QED
    BY <1>b, <1>c, <2>1 DEF Stream!Next, Stream!Cancel
<1>8. CASE ZombieReturns
  <2>1. /\ pc = "cancelled" /\ pc' = pc /\ trace' = trace
        /\ captured' = TRUE \/ captured' = captured
    BY <1>8 DEF ZombieReturns, IInv, AgentInv
  <2> QED
    BY <1>b, <1>c, <2>1 DEF Stream!Next, Stream!Ack, Stream!streamVars
<1>9. CASE UNCHANGED vars
  BY <1>9 DEF vars, Stream!streamVars, Frames
<1> QED
  BY <1>2, <1>3, <1>4, <1>5, <1>6, <1>7, <1>8, <1>9 DEF Next, Step

(* Every run of the tool loop is, to whoever iterates it, a run of the      *)
(* agent stream: the safety half of ImplementsAgentStream.                  *)
THEOREM LoopImplementsStream == Spec => Stream!Init /\ [][Stream!Next]_(Stream!streamVars)
  BY LoopInductive, StreamInit, StreamStep, PTL DEF Spec
=============================================================================
