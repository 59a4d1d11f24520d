------------------------------ MODULE ChatLoop ------------------------------
(***************************************************************************)
(* One agent's LLM tool loop: chat.py's _run_chat_inner, wrapped either by *)
(* the single-agent branch of _run_chat or by the per-agent generators of  *)
(* multiagent.py (_run_supervisor_stage, _iter_segment_agent).             *)
(*                                                                         *)
(* The model's answer, the tools' outcomes, exceptions and the moment the  *)
(* consumer goes away are nondeterministic.  Texts, tool inputs and tool   *)
(* outputs are abstracted away; what is kept is the conversation sent to   *)
(* the model, the prompt-cache marks on it, the frames streamed to the     *)
(* client, the request trace, and what the terminal tool captured.         *)
(***************************************************************************)
EXTENDS Naturals, Sequences, FiniteSets

CONSTANTS Cap,        \* rounds_cap: CHAT_MAX_TOOL_ROUNDS or max_rounds
          MaxTools,   \* bound: tool_use blocks in one model answer
          MaxHistory  \* bound: turns of the conversation the client sent

ASSUME CapAssumption == Cap \in Nat /\ MaxTools \in Nat \ {0} /\ MaxHistory \in Nat \ {0}

VARIABLES
  agent,      \* TRUE: run by the coordinator, with a terminal tool; FALSE: mode="single"
  pc,         \* where the generator is suspended
  round_i,    \* index of the current round
  messages,   \* the conversation sent to the model
  todo,       \* tool_use blocks of the current answer still to be run
  answers,    \* tool_results: ids answered so far in this round
  out,        \* the SSE frames yielded, with the captured result as the last item
  trace,      \* RequestTrace: whether request_end was written, stop_reason, error
  captured,   \* result_captured / plan_captured holds a value
  zombie      \* tools whose worker thread outlived the cancelled loop

vars == <<agent, pc, round_i, messages, todo, answers, out, trace, captured, zombie>>

-----------------------------------------------------------------------------
(* Data.                                                                    *)

ToolKind == {"known", "unknown", "terminal"}

(* A tool_use block; its id is unique in the conversation.                  *)
ToolUse == [round : 0..Cap, k : 1..MaxTools, kind : ToolKind]

Stop == {"end_turn", "max_tokens", "tool_use"}

(* A turn: the tool_use blocks it asks for, the tool_use ids it answers and *)
(* whether its last content block carries cache_control.                    *)
UserTurn(ans, mark) == [role |-> "user", uses |-> <<>>, answers |-> ans, mark |-> mark]
AssistantTurn(us, mark) == [role |-> "assistant", uses |-> us, answers |-> <<>>, mark |-> mark]

(* _sse frames: the event's name and the tool_use it is about, if any.      *)
Frame(e) == [event |-> e, use |-> <<>>]
ToolFrame(e, u) == [event |-> e, use |-> <<u>>]

Final == {"closed", "raised", "cancelled"}

(* _cached_system and _cached_tools each spend one breakpoint per request.  *)
SystemBreakpoints == 1
ToolBreakpoints == 1
MaxBreakpoints == 4

Marked(msgs) == {i \in DOMAIN msgs : msgs[i].mark}

(* Slip: earlier marks are not cleared.                                     *)
ShiftBreakpointKeepingOld(msgs) ==
  [i \in DOMAIN msgs |-> [msgs[i] EXCEPT !.mark = @ \/ (i = Len(msgs))]]

(* _shift_message_cache_breakpoint: forget every earlier mark, mark the     *)
(* last block of the last message.                                          *)
ShiftBreakpoint(msgs) == [i \in DOMAIN msgs |-> [msgs[i] EXCEPT !.mark = (i = Len(msgs))]]

(* What a client sends: turns alternate and the user speaks last.  A client *)
(* may send block content that already carries cache_control.               *)
Conversations ==
  { [i \in 1..n |-> IF i % 2 = 1 THEN UserTurn(<<>>, mk[i]) ELSE AssistantTurn(<<>>, mk[i])] :
      mk \in [1..MaxHistory -> BOOLEAN], n \in {m \in 1..MaxHistory : m % 2 = 1} }

ToolUses(r) == UNION { { [k \in 1..n |-> [round |-> r, k |-> k, kind |-> kinds[k]]] :
                           kinds \in [1..n -> IF agent THEN ToolKind ELSE ToolKind \ {"terminal"}] }
                       : n \in 1..MaxTools }

-----------------------------------------------------------------------------
Init ==
  /\ agent \in BOOLEAN
  /\ pc = "round"
  /\ round_i = 0
  /\ messages \in Conversations
  /\ todo = <<>> /\ answers = <<>> /\ out = <<>>
  /\ trace = [ended |-> FALSE, stop |-> "none", error |-> "none"]
  /\ captured = FALSE
  /\ zombie = {}

(* Top of the for loop: mark the conversation, announce the round, send it. *)
RoundStart ==
  /\ pc = "round"
  /\ round_i < Cap
  /\ messages' = ShiftBreakpoint(messages)
  /\ out' = Append(out, Frame("round_start"))
  /\ pc' = "streaming"
  /\ UNCHANGED <<agent, round_i, todo, answers, trace, captured, zombie>>

(* A text delta; one frame stands for any number of them in a row.          *)
TextDelta ==
  /\ pc = "streaming"
  /\ out[Len(out)].event = "round_start"
  /\ out' = Append(out, Frame("text"))
  /\ UNCHANGED <<agent, pc, round_i, messages, todo, answers, trace, captured, zombie>>

(* get_final_message: the usage frame, then the answer joins the            *)
(* conversation and stop_reason decides between running its tools and       *)
(* finishing.  An answer cut off by max_tokens may hold a tool_use block.   *)
Answer(stop, us) ==
  /\ pc = "streaming"
  /\ (stop = "tool_use") => us # <<>>
  /\ (stop = "end_turn") => us = <<>>
  /\ messages' = Append(messages, AssistantTurn(us, FALSE))
  /\ out' = Append(out, Frame("usage"))
  /\ \/ /\ stop = "tool_use"
        /\ pc' = "tools"
        /\ todo' = us
        /\ answers' = <<>>
        /\ UNCHANGED trace
     \/ /\ stop # "tool_use"
        /\ pc' = "finishing"
        /\ trace' = [trace EXCEPT !.stop = stop]
        /\ UNCHANGED <<todo, answers>>
  /\ UNCHANGED <<agent, round_i, captured, zombie>>

SaidText == \E i \in DOMAIN out :
              out[i].event = "text" /\ i = Len(out) - 1

(* Slip: an answer cut off before any text ends without a done frame.       *)
FinishWithoutDone ==
  /\ pc = "finishing"
  /\ out' = out \o (IF trace.stop = "max_tokens" /\ ~SaidText
                    THEN <<Frame("error")>> ELSE <<Frame("done")>>)
  /\ pc' = "returned"
  /\ UNCHANGED <<agent, round_i, messages, todo, answers, trace, captured, zombie>>

(* The last frames of an orderly run.                                       *)
Finish ==
  /\ pc = "finishing"
  /\ out' = out \o (IF trace.stop = "max_rounds" \/ (trace.stop = "max_tokens" /\ ~SaidText)
                    THEN <<Frame("error"), Frame("done")>>
                    ELSE <<Frame("done")>>)
  /\ pc' = "returned"
  /\ UNCHANGED <<agent, round_i, messages, todo, answers, trace, captured, zombie>>

ToolStart ==
  /\ pc = "tools"
  /\ todo # <<>>
  /\ out' = Append(out, ToolFrame("tool_start", Head(todo)))
  /\ pc' = "calling"
  /\ UNCHANGED <<agent, round_i, messages, todo, answers, trace, captured, zombie>>

(* An implementation exists: it runs in a worker thread.                    *)
Dispatch ==
  /\ pc = "calling"
  /\ Head(todo).kind # "unknown"
  /\ pc' = "executing"
  /\ UNCHANGED <<agent, round_i, messages, todo, answers, out, trace, captured, zombie>>

(* The call's frame, its summary for the model, and on to the next block.   *)
Deliver ==
  /\ out' = Append(out, ToolFrame("tool_call", Head(todo)))
  /\ answers' = Append(answers, Head(todo))
  /\ todo' = Tail(todo)
  /\ pc' = "tools"
  /\ UNCHANGED <<agent, round_i, messages, trace, zombie>>

(* Slips: the unknown tool is skipped without its frame, or without the     *)
(* tool_result the model is owed.                                           *)
UnknownToolSilent ==
  /\ pc = "calling"
  /\ Head(todo).kind = "unknown"
  /\ answers' = Append(answers, Head(todo))
  /\ todo' = Tail(todo)
  /\ pc' = "tools"
  /\ UNCHANGED <<agent, round_i, messages, out, trace, captured, zombie>>

UnknownToolUnanswered ==
  /\ pc = "calling"
  /\ Head(todo).kind = "unknown"
  /\ out' = Append(out, ToolFrame("tool_call", Head(todo)))
  /\ todo' = Tail(todo)
  /\ pc' = "tools"
  /\ UNCHANGED <<agent, round_i, messages, answers, trace, captured, zombie>>

UnknownTool ==
  /\ pc = "calling"
  /\ Head(todo).kind = "unknown"
  /\ Deliver
  /\ UNCHANGED captured

(* Slip: a tool that raised is called again, for as long as it raises.      *)
ToolReturnsOrRetries ==
  /\ pc = "executing"
  /\ \/ /\ pc' = "calling"
        /\ UNCHANGED <<agent, round_i, messages, todo, answers, out, trace, captured, zombie>>
     \/ /\ Deliver
        /\ \/ Head(todo).kind = "terminal" /\ captured' = TRUE
           \/ UNCHANGED captured

(* The tool returned, or raised and was answered {"error"}: either way it   *)
(* is answered.  A terminal tool whose arguments validate captures them.    *)
ToolReturns ==
  /\ pc = "executing"
  /\ Deliver
  /\ \/ Head(todo).kind = "terminal" /\ captured' = TRUE
     \/ UNCHANGED captured

RoundEnd ==
  /\ pc = "tools"
  /\ todo = <<>>
  /\ messages' = Append(messages, UserTurn(answers, FALSE))
  /\ round_i' = round_i + 1
  /\ pc' = "round"
  /\ UNCHANGED <<agent, todo, answers, out, trace, captured, zombie>>

CapReached ==
  /\ pc = "round"
  /\ round_i = Cap
  /\ trace' = [trace EXCEPT !.stop = "max_rounds"]
  /\ pc' = "finishing"
  /\ UNCHANGED <<agent, round_i, messages, todo, answers, out, captured, zombie>>

(* The generator is exhausted: the trace closes, and a coordinator's agent  *)
(* yields what its terminal tool captured.                                  *)
Return ==
  /\ pc = "returned"
  /\ trace' = [trace EXCEPT !.ended = TRUE]
  /\ out' = IF agent /\ captured THEN Append(out, Frame("result")) ELSE out
  /\ pc' = "closed"
  /\ UNCHANGED <<agent, round_i, messages, todo, answers, captured, zombie>>

(* Slip: the captured result is yielded from a finally clause.              *)
FailYieldingResult ==
  /\ pc \in {"streaming", "executing"}
  /\ trace' = [trace EXCEPT !.ended = TRUE, !.error = "exception"]
  /\ IF agent THEN /\ pc' = "raised"
                   /\ out' = IF captured THEN Append(out, Frame("result")) ELSE out
              ELSE pc' = "closed" /\ out' = Append(out, Frame("error"))
  /\ UNCHANGED <<agent, round_i, messages, todo, answers, captured, zombie>>

(* The model's stream, or the serialisation of a tool's output, raises.  In *)
(* single mode _run_chat turns the exception into an error frame; an agent  *)
(* lets it through to its task.                                             *)
Fail ==
  /\ pc \in {"streaming", "executing"}
  /\ trace' = [trace EXCEPT !.ended = TRUE, !.error = "exception"]
  /\ IF agent THEN pc' = "raised" /\ UNCHANGED out
              ELSE pc' = "closed" /\ out' = Append(out, Frame("error"))
  /\ UNCHANGED <<agent, round_i, messages, todo, answers, captured, zombie>>

(* The consumer goes away, or wait_for gives up: the generator is unwound   *)
(* where it is suspended, but a worker thread cannot be interrupted.        *)
Cancel ==
  /\ pc \notin Final
  /\ trace' = [trace EXCEPT !.ended = TRUE, !.error = "cancelled"]
  /\ pc' = "cancelled"
  /\ zombie' = IF pc = "executing" THEN {Head(todo)} ELSE {}
  /\ UNCHANGED <<agent, round_i, messages, todo, answers, out, captured>>

ZombieReturns ==
  \E u \in zombie :
    /\ zombie' = zombie \ {u}
    /\ \/ u.kind = "terminal" /\ captured' = TRUE
       \/ UNCHANGED captured
    /\ UNCHANGED <<agent, pc, round_i, messages, todo, answers, out, trace>>

Step == RoundStart \/ (\E stop \in Stop, us \in ToolUses(round_i) \cup {<<>>} : Answer(stop, us))
        \/ Finish \/ ToolStart \/ Dispatch \/ UnknownTool \/ ToolReturns
        \/ RoundEnd \/ CapReached \/ Return \/ Fail

Next == Step \/ TextDelta \/ Cancel \/ ZombieReturns

(* The SDK client has a 240 s timeout, tools are bounded computations: the  *)
(* loop, if not cancelled, keeps stepping.                                  *)
Spec == Init /\ [][Next]_vars /\ WF_vars(Step)

-----------------------------------------------------------------------------
(* Properties.                                                              *)

TypeOK ==
  /\ agent \in BOOLEAN
  /\ pc \in {"round", "streaming", "tools", "calling", "executing", "finishing", "returned"} \cup Final
  /\ round_i \in 0..Cap
  /\ messages \in Seq([role : {"user", "assistant"}, uses : Seq(ToolUse),
                       answers : Seq(ToolUse), mark : BOOLEAN])
  /\ todo \in Seq(ToolUse) /\ answers \in Seq(ToolUse)
  /\ out \in Seq([event : {"round_start", "text", "usage", "tool_start", "tool_call",
                           "error", "done", "result"},
                  use : Seq(ToolUse)])
  /\ trace \in [ended : BOOLEAN, stop : Stop \cup {"none", "max_rounds"},
                error : {"none", "exception", "cancelled"}]
  /\ captured \in BOOLEAN
  /\ zombie \subseteq ToolUse

(* Every request the loop sends is one the model API accepts: turns         *)
(* alternate, the user speaks last, and the turn after an answer with       *)
(* tool_use blocks answers exactly those, in order (chat.py 513-579).       *)
RequestsWellFormed ==
  pc = "streaming" =>
    /\ messages[Len(messages)].role = "user"
    /\ \A i \in 1..(Len(messages) - 1) :
         /\ messages[i].role # messages[i+1].role
         /\ messages[i].uses = messages[i+1].answers

(* A request never carries more than the four cache_control breakpoints     *)
(* the API allows, and one of them is on the newest turn, however many      *)
(* rounds the conversation has and whatever marks the client sent.          *)
BreakpointBudget ==
  pc = "streaming" =>
    /\ SystemBreakpoints + ToolBreakpoints + Cardinality(Marked(messages)) <= MaxBreakpoints
    /\ Len(messages) \in Marked(messages)

Frames(e) == {i \in DOMAIN out : out[i].event = e}

(* What the browser's running-tool indicators rely on: every tool_call      *)
(* follows the tool_start of the same call with no other tool frame in      *)
(* between, and every started call is answered unless the run was cut off   *)
(* while it was running (chat.py 533-578, chat.js addToolPending).          *)
ToolFramesPaired ==
  \A i \in DOMAIN out :
    /\ out[i].event = "tool_call" => /\ i > 1
                                     /\ out[i-1] = ToolFrame("tool_start", out[i].use[1])
    /\ (out[i].event = "tool_start" /\ i < Len(out)) =>
         \/ out[i+1] = ToolFrame("tool_call", out[i].use[1])
         \/ trace.error = "exception" /\ i = Len(out) - 1 /\ out[i+1].event = "error"

(* The stream can be followed and the log tells the same story: tool frames *)
(* are paired, an end logged without error follows exactly one done frame,  *)
(* which is the last frame but for the captured result; what is logged as   *)
(* an exception or a cancellation was never shown to complete (chat.py      *)
(* 275-310, 533-578).                                                       *)
TraceTellsTheStream ==
  /\ ToolFramesPaired
  /\ trace.ended =>
       /\ trace.error = "none" =>
            /\ Cardinality(Frames("done")) = 1
            /\ \A d \in Frames("done"), j \in (DOMAIN out) : j > d => out[j].event = "result"
            /\ trace.stop # "none"
       /\ trace.error = "exception" => Frames("done") = {} /\ Frames("result") = {}
       /\ trace.error = "cancelled" => Frames("result") = {}

(* The loop ends, whatever the model keeps asking for and whatever its      *)
(* tools do: the round cap bounds the rounds, and within a round each call  *)
(* is run once, also one that raises (chat.py 435, 531-578, 581).           *)
Terminates == <>(pc \in Final)

(* The loop implements the stream its callers program against.              *)
Stream == INSTANCE AgentStream WITH
  st <- IF pc \in {"raised", "cancelled"} THEN pc
        ELSE IF pc # "closed" THEN "open"
        ELSE IF trace.error = "exception" THEN "raised" ELSE "returned",
  acked <- captured,
  gave <- Frames("result") # {}

ImplementsAgentStream == Stream!Spec
=============================================================================
