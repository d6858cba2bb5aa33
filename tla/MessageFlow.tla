----------------------------- MODULE MessageFlow -----------------------------
(***************************************************************************)
(* What an agent says on its way to the client (internals/journals,        *)
(* message, internals/chat): every message is written to a journal, which  *)
(* puts a thought on hold until it knows that the next message does not     *)
(* say the same, remembers what belongs to the conversation, and hands on   *)
(* what the client's filter lets through.  The tools of an agent run at the *)
(* same time.  The last message of a request carries the answer and the     *)
(* conversation, which the client sends back with its next request.         *)
(*                                                                         *)
(* A write of a journal waits for nothing, so it is one step.               *)
(***************************************************************************)
EXTENDS Integers, Sequences, FiniteSets, Functions

CONSTANTS
  Tools,       \* the tools of the agent that LangChain runs itself
  UserTexts,   \* what users say: see Text
  Texts,       \* what LLMs say
  Configs,     \* see ConfigType
  MaxTurns,    \* bound on the requests of the conversation
  MaxThoughts, \* bound on the LLM calls of a request
  MaxRuns,     \* bound on the runs of tools in a request
  MaxRetries   \* bound on the retries of the chain

\* The client's chat filter; the agent's structure_formats and max_message_history;
\* whether errors are told (NORA_LOG_SENSITIVE).
ConfigType == [filter : {"MINIMAL", "MAXIMAL", "null"}, formats : Seq({"yaml", "json"}), limit : Int, logs : BOOLEAN]
\* Whatever is said has words, which are not the "null" that stands for None.
FlowAssumption == /\ MaxTurns \in Nat /\ MaxThoughts \in Nat /\ MaxRuns \in Nat /\ MaxRetries \in Nat
                  /\ Configs \subseteq ConfigType /\ "null" \notin Tools
                  /\ \A t \in UserTexts \cup Texts :
                       t \in [words : {t.words}, block : BOOLEAN, escaped : {FALSE}] /\ t.words # "null"

VARIABLES
  config,
  turn, phase,
  context,  \* the chat context the client holds
  history,  \* chat_history of the front man
  pending,  \* pending of its journal
  runs,     \* the runs of tools, by run_id
  indices,  \* Origination.tool_to_index_map
  hopper,   \* what was put on the queue in this request
  said,     \* (history) all that users, agents and tools have said
  thoughts, \* (history) what the LLM said in this request, in order
  retries

flowVars == <<config, turn, phase, context, history, pending, runs, indices, hopper, said, thoughts, retries>>
-----------------------------------------------------------------------------
(* Messages *)

\* A text may hold a block of JSON, whose braces are escaped in a chat context.
Text(words, block) == [words |-> words, block |-> block, escaped |-> FALSE]
NoText == Text("null", FALSE)
Plain(words) == Text(words, FALSE)
NoContext == [there |-> FALSE, origin |-> <<>>, messages |-> <<>>]
EmptyContext == [NoContext EXCEPT !.there = TRUE]

Message(type, text) ==
  [type |-> type, origin |-> <<>>, text |-> text, structure |-> "null", context |-> NoContext, result |-> <<>>]
NoMessage == Message("none", NoText)
AgentMessage(text, structure) == [Message("AGENT", text) EXCEPT !.structure = structure]
ToolResult(text, origin) == [Message("AGENT_TOOL_RESULT", text) EXCEPT !.result = origin]
\* A framework message always carries a chat context, an empty one if it has none.
FrameworkMessage(text) == [Message("AGENT_FRAMEWORK", text) EXCEPT !.context = EmptyContext]

FrontMan == <<[tool |-> "front", index |-> 0]>>

\* The messages at the places I, in their order.
Only(I, messages) ==
  LET kept[n \in 0..Len(messages)] ==
        IF n = 0 THEN <<>> ELSE IF n \in I THEN Append(kept[n - 1], messages[n]) ELSE kept[n - 1]
  IN kept[Len(messages)]
-----------------------------------------------------------------------------
(* Structure in a text, and the answer *)

\* JsonStructureParser: the block, and what is left of the text without it.  The
\* escaped braces of old messages make odd JSON.
ParseJson(text) ==
  IF text.block THEN [structure |-> IF text.escaped THEN "odd" ELSE text.words, remainder |-> Plain("rest")]
  ELSE [structure |-> "null", remainder |-> text]
\* The first of the formats that there is a parser for and that is found.
ParseStructure(formats, text) ==
  IF "json" \in Range(formats) THEN ParseJson(text) ELSE [structure |-> "null", remainder |-> text]

IsAnswer(m) ==
  /\ m.type \in {"AI", "AGENT_FRAMEWORK"} /\ Len(m.origin) <= 1
  /\ m.text # NoText \/ m.structure # "null"

NoAnswer == [answer |-> NoText, structure |-> "null", context |-> EmptyContext, tokens |-> "null"]
\* Mutant: the structure of an earlier message stays.
StaleStructure(formats, known, m) ==
  LET parsed == ParseStructure(formats, m.text)
  IN IF ~IsAnswer(m) THEN known
     ELSE IF m.structure # "null" THEN [known EXCEPT !.answer = m.text, !.structure = m.structure]
     ELSE IF parsed.structure = "null" THEN [known EXCEPT !.answer = m.text]
     ELSE [known EXCEPT !.answer = parsed.remainder, !.structure = parsed.structure]
\* AnswerMessageProcessor: the last message that may be an answer is the answer.
ReceiveAnswer(formats, known, m) ==
  LET parsed == ParseStructure(formats, m.text)
      told == [known EXCEPT !.answer = IF m.text # NoText THEN m.text ELSE @,
                            !.structure = IF m.structure # "null" THEN m.structure ELSE @]
  IN IF ~IsAnswer(m) THEN known
     ELSE IF m.structure # "null" \/ m.text = NoText THEN told
     ELSE [told EXCEPT !.structure = parsed.structure, !.answer = parsed.remainder]

HasContext(m) == m.type = "AGENT_FRAMEWORK" /\ m.context.there
IsAccounting(m) == m.type = "AGENT" /\ Len(m.origin) <= 1 /\ m.structure \in {"main tokens", "all tokens"}
ReceiveContext(known, m) == IF HasContext(m) THEN [known EXCEPT !.context = m.context] ELSE known
ReceiveTokens(known, m) == IF IsAccounting(m) THEN [known EXCEPT !.tokens = m.structure] ELSE known

\* BasicMessageProcessor: what a client makes of the messages it gets.
Receive(known, m) == ReceiveTokens(ReceiveContext(ReceiveAnswer(<<>>, known, m), m), m)
Client(messages) ==
  LET known[n \in 0..Len(messages)] == IF n = 0 THEN NoAnswer ELSE Receive(known[n - 1], messages[n])
  IN known[Len(messages)]
\* What the agent makes of its own messages.
Conclusion(formats, messages) ==
  LET known[n \in 0..Len(messages)] ==
        IF n = 0 THEN NoAnswer ELSE ReceiveAnswer(formats, known[n - 1], messages[n])
  IN known[Len(messages)]
-----------------------------------------------------------------------------
(* The way to the queue *)

\* What a request asks for, if it is known.
FilterFor(asked) == IF asked = "MAXIMAL" THEN "MAXIMAL" ELSE "MINIMAL"
Allows(asked, m) == FilterFor(asked) = "MAXIMAL" \/ HasContext(m)

\* StructureMessageProcessor
AddStructure(formats, m) ==
  LET parsed == ParseStructure(formats, m.text)
  IN IF m.type # "AGENT_FRAMEWORK" \/ m.structure # "null" \/ parsed.structure = "null" THEN m
     ELSE [m EXCEPT !.text = parsed.remainder, !.structure = parsed.structure]

\* MessageJournal.write_message(), for messages of one origin
ToDict(origin, messages) == [i \in DOMAIN messages |-> [messages[i] EXCEPT !.origin = origin]]
Delivered(origin, messages) ==
  LET all == ToDict(origin, messages)
      sent == Only({i \in DOMAIN all : Allows(config.filter, all[i])}, all)
  IN [i \in DOMAIN sent |-> AddStructure(config.formats, sent[i])]

\* Mutant: what is on hold is written whatever comes.
FlushAlways(held, m) == IF held = NoMessage THEN <<>> ELSE <<held>>
Flushed(held, m) == IF held = NoMessage \/ held.text = m.text THEN <<>> ELSE <<held>>

\* What LangChain knows; the instructions it gets anyway.
IsRelevant(m) == m.type \in {"SYSTEM", "HUMAN", "AI", "AGENT_TOOL_RESULT"}
Remember(past, m) ==
  IF ~IsRelevant(m) \/ m.type = "SYSTEM" THEN past
  ELSE Append(past, IF m.type = "AGENT_TOOL_RESULT" THEN Message("AI", m.text) ELSE m)

\* OriginatingJournal.write_message()
Write(m) ==
  /\ history' = Remember(history, m) /\ pending' = NoMessage
  /\ hopper' = hopper \o Delivered(FrontMan, Append(Flushed(pending, m), m))
Says(m) == said' = Append(said, Message(IF m.type = "HUMAN" THEN "HUMAN" ELSE "AI", m.text))
-----------------------------------------------------------------------------
(* The conversation from one request to the next *)

Escape(text) == [text EXCEPT !.escaped = @ \/ text.block]

\* Mutant: the oldest messages are kept.
LimitOldest(limit, messages) ==
  IF limit <= 1 \/ Len(messages) <= limit THEN messages ELSE SubSeq(messages, 1, limit + 1)
\* Mutant: one message too many is kept.
LimitOffByOne(limit, messages) ==
  LET rest == Tail(messages)
  IN IF limit <= 1 THEN messages
     ELSE <<Head(messages)>> \o IF Len(rest) <= limit THEN rest ELSE SubSeq(rest, Len(rest) - limit, Len(rest))
\* The first message is kept for the instructions, and the last ones.
Limit(limit, messages) ==
  LET rest == Tail(messages)
  IN IF limit <= 1 THEN messages
     ELSE <<Head(messages)>> \o IF Len(rest) <= limit THEN rest ELSE SubSeq(rest, Len(rest) - limit + 1, Len(rest))

\* ChatHistoryMessageProcessor: the first instructions are redacted.
ToHistory(messages) ==
  LET able == Only({i \in DOMAIN messages : messages[i].type \in {"HUMAN", "SYSTEM", "AI"}}, messages)
      IsFirst(i) == able[i].type = "SYSTEM" /\ \A j \in 1..(i - 1) : able[j].type # "SYSTEM"
      ready == [i \in DOMAIN able |-> [able[i] EXCEPT !.text = IF IsFirst(i) THEN Plain("redacted") ELSE Escape(@)]]
  IN Only({i \in DOMAIN ready : ready[i].text # NoText}, ready)

PrepareContext(limit, messages) ==
  [there |-> TRUE, origin |-> FrontMan, messages |-> Limit(limit, ToHistory(messages))]

FromDict(messages) == Only({i \in DOMAIN messages : IsRelevant(messages[i])}, messages)
\* The messages of a chat context that is the front man's.
Restored(from) == IF from.origin = FrontMan THEN FromDict(from.messages) ELSE <<>>
-----------------------------------------------------------------------------
Init ==
  /\ config \in Configs
  /\ turn = 0 /\ phase = "idle" /\ context = EmptyContext
  /\ history = <<>> /\ pending = NoMessage /\ runs = <<>> /\ indices = [t \in Tools |-> 0]
  /\ hopper = <<>> /\ said = <<>> /\ thoughts = <<>> /\ retries = 0

\* A request: the journal hears of the instructions, if the conversation is new, and
\* of the user's words.
Start ==
  \E text \in UserTexts :
    LET human == Message("HUMAN", text)
        past == Restored(context)
        instructions == IF past = <<>> THEN <<Message("SYSTEM", Plain("instructions"))>> ELSE <<>>
    IN /\ phase = "idle" /\ turn < MaxTurns
       /\ turn' = turn + 1 /\ phase' = "running"
       /\ history' = Remember(past, human) /\ pending' = NoMessage
       /\ hopper' = Delivered(FrontMan, Append(instructions, human))
       /\ runs' = <<>> /\ indices' = [t \in Tools |-> 0] /\ thoughts' = <<>> /\ retries' = 0
       /\ Says(human) /\ UNCHANGED <<config, context>>

\* Mutant: what is on hold makes room for the new thought.
HoldOnly(m) == pending' = m /\ UNCHANGED <<history, hopper>>
\* write_message_if_next_not_dupe()
Hold(m) ==
  /\ pending' = m /\ UNCHANGED history
  /\ hopper' = IF pending = NoMessage THEN hopper ELSE hopper \o Delivered(FrontMan, <<pending>>)

\* on_llm_end()
LlmEnd ==
  \E text \in Texts :
    /\ phase = "running" /\ Len(thoughts) < MaxThoughts
    /\ Hold(AgentMessage(text, "null")) /\ thoughts' = Append(thoughts, text)
    /\ UNCHANGED <<config, turn, phase, context, runs, indices, said, retries>>

\* add_spec_name_to_origin()
NewOrigin(t) == Append(FrontMan, [tool |-> t, index |-> indices[t]])

\* on_tool_start(): the caller tells of it, then the tool in a journal of its own
ToolStart ==
  \E t \in Tools :
    LET origin == NewOrigin(t)
        call == AgentMessage(Plain("invoking"), "params")
        args == AgentMessage(Plain("received"), "tool_args")
    IN /\ phase = "running" /\ thoughts # <<>> /\ Len(runs) < MaxRuns
       /\ runs' = Append(runs, [tool |-> t, origin |-> origin, state |-> "running"])
       /\ indices' = [indices EXCEPT ![t] = @ + 1]
       /\ pending' = NoMessage /\ UNCHANGED history
       /\ hopper' = hopper \o Delivered(FrontMan, Append(Flushed(pending, call), call)) \o Delivered(origin, <<args>>)
       /\ UNCHANGED <<config, turn, phase, context, said, thoughts, retries>>

\* Mutant: the origin of the tool that started last.
LastOrigin(r) == runs[Len(runs)].origin
OriginOf(r) == runs[r].origin

\* on_tool_end()
ToolEnd ==
  \E r \in DOMAIN runs :
    LET result == ToolResult(Plain(runs[r].tool), OriginOf(r))
        end == AgentMessage(Plain("got"), "tool_output")
    IN /\ phase = "running" /\ runs[r].state = "running"
       /\ runs' = [runs EXCEPT ![r].state = "ended"]
       /\ history' = Remember(history, result) /\ pending' = NoMessage
       /\ hopper' = hopper \o Delivered(FrontMan, Append(Flushed(pending, result), result)) \o Delivered(OriginOf(r), <<end>>)
       /\ Says(result) /\ UNCHANGED <<config, turn, phase, context, indices, thoughts, retries>>

Lost == [r \in DOMAIN runs |-> IF runs[r].state = "running" THEN [runs[r] EXCEPT !.state = "lost"] ELSE runs[r]]

\* journal_retry_reason(): an attempt failed, with the tools it had running
Retry ==
  /\ phase = "running" /\ retries < MaxRetries
  /\ retries' = retries + 1 /\ runs' = Lost
  /\ IF config.logs THEN Write(FrameworkMessage(Plain("retrying"))) ELSE UNCHANGED <<history, pending, hopper>>
  /\ UNCHANGED <<config, turn, phase, context, indices, said, thoughts>>

\* The end of the chain, or of the time it has: the AI's message, mostly what it said
\* last, and the accounting, which ends what is on hold.
Answer ==
  \E text \in {Plain("stopped")} \cup (IF thoughts = <<>> THEN {} ELSE {thoughts[Len(thoughts)]}) :
    LET ai == Message("AI", text)
        tokens == <<AgentMessage(Plain(""), "main tokens"), AgentMessage(Plain(""), "all tokens")>>
    IN /\ phase = "running"
       /\ text = Plain("stopped") \/ \A r \in DOMAIN runs : runs[r].state # "running"
       /\ phase' = "answered" /\ runs' = Lost
       /\ history' = Remember(history, ai) /\ pending' = NoMessage
       /\ hopper' = hopper \o Delivered(FrontMan, Append(Flushed(pending, ai), ai) \o tokens)
       /\ Says(ai) /\ UNCHANGED <<config, turn, context, indices, thoughts, retries>>

\* run_it(): the last message, of no origin
Finish ==
  LET messages == ToDict(FrontMan, history)
      known == Conclusion(config.formats, messages)
      final == [FrameworkMessage(IF known.answer = NoText THEN Plain("") ELSE known.answer) EXCEPT
                  !.structure = known.structure, !.context = PrepareContext(config.limit, messages)]
  IN /\ phase = "answered" /\ phase' = "idle"
     /\ hopper' = hopper \o Delivered(<<>>, <<final>>)
     /\ context' = Client(hopper').context
     /\ UNCHANGED <<config, turn, history, pending, runs, indices, said, thoughts, retries>>

Next == Start \/ LlmEnd \/ ToolStart \/ ToolEnd \/ Retry \/ Answer \/ Finish
-----------------------------------------------------------------------------
(* Properties *)

\* What users and LLMs say, the names of tools, and the server's own words.
Words == {t.words : t \in UserTexts \cup Texts} \cup Tools \cup
         {"null", "", "instructions", "redacted", "rest", "invoking", "received", "got", "retrying", "stopped"}
Structures == Words \cup {"odd", "params", "tool_args", "tool_output", "main tokens", "all tokens"}
MessageTypes == {"none", "SYSTEM", "HUMAN", "AI", "AGENT", "AGENT_TOOL_RESULT", "AGENT_FRAMEWORK"}
Origins == Seq([tool : Tools \cup {"front"}, index : Nat])
IsMessage(m) == m \in [type : MessageTypes, origin : Origins, structure : Structures, result : Origins,
                       text : [words : Words, block : BOOLEAN, escaped : BOOLEAN], context : {m.context}]
\* The variables have the types the code gives them.
TypeOK ==
  /\ config \in Configs /\ turn \in 0..MaxTurns /\ phase \in {"idle", "running", "answered"}
  /\ IsMessage(pending) /\ \A i \in DOMAIN history : IsMessage(history[i])
  /\ \A i \in DOMAIN hopper : IsMessage(hopper[i]) /\ Allows(config.filter, hopper[i])
  /\ indices \in [Tools -> Nat] /\ retries \in 0..MaxRetries

Answered == phase = "idle" /\ turn > 0

\* The answer and the structure a client ends with are those of the agent's own last
\* words, whatever it let through before, and not of a tool or a failed attempt
\* (answer_message_processor.py, data_driven_chat_session.py, run_it).
AnswerIsTheAgents ==
  Answered =>
    LET parsed == ParseStructure(config.formats, said[Len(said)].text)  client == Client(hopper)
    IN client.answer = parsed.remainder /\ client.structure = parsed.structure

\* A client that wants everything hears every thought of the agent
\* (originating_journal.py, write_message_if_next_not_dupe).
ThoughtsAreTold ==
  phase \in {"idle", "answered"} /\ config.filter = "MAXIMAL" =>
    \A i \in DOMAIN thoughts :
      \E j \in DOMAIN hopper : hopper[j].origin = FrontMan /\ hopper[j].text = thoughts[i]

\* The agent's answer is not told as a thought right before, unless the LLM had said
\* it before that (originating_journal.py, write_message).
AnswerIsToldOnce ==
  \A i \in 2..Len(hopper) :
    /\ hopper[i].type = "AI" /\ hopper[i - 1].type = "AGENT" /\ hopper[i - 1].origin = FrontMan
    /\ hopper[i].text = hopper[i - 1].text
    => Cardinality({j \in DOMAIN thoughts : thoughts[j] = hopper[i].text}) > 1

\* Every result of a tool is told under the origin of the run it is the result of,
\* and no two runs share an origin (journaling_callback_handler.py, origination.py).
ToolResultsMatch ==
  /\ \A r, s \in DOMAIN runs : runs[r].origin = runs[s].origin => r = s
  /\ \A i \in DOMAIN hopper :
       hopper[i].type = "AGENT_TOOL_RESULT" =>
         \E r \in DOMAIN runs : /\ runs[r].origin = hopper[i].result /\ runs[r].state = "ended"
                                /\ hopper[i].text = Plain(runs[r].tool)

\* The agent goes into a request with what was last said in the conversation, by
\* users, itself and its tools, and with all of it if there is no limit, that is a
\* number that is not positive (chat_history_message_processor.py,
\* langchain_run_context.py, update_from_chat_context).
ConversationContinues ==
  turn > 0 =>
    LET n == IF config.limit <= 0 \/ config.limit > Len(said) THEN Len(said) ELSE config.limit
        m == Len(history)
    IN /\ config.limit <= 0 => m = Len(said)
       /\ m >= n
       /\ \A i \in 0..(n - 1) : /\ history[m - i].type = said[Len(said) - i].type
                                /\ history[m - i].text.words = said[Len(said) - i].text.words

\* A chat context holds no more than the limit and the message kept for the
\* instructions (chat_history_message_processor.py).  Not so for a limit of 1,
\* which Limit takes for none, as the code does, although only numbers that are
\* not positive are said to be none: that context grows with the conversation.
ContextIsBounded == config.limit > 0 /\ config.limit # 1 => Len(context.messages) <= config.limit + 1
=============================================================================
