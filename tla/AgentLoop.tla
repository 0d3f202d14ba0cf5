------------------------------ MODULE AgentLoop ------------------------------
(* One prompt of the assistant with tools: the bridge (ollama_bridge.py), which *)
(* asks the model, calls the tools it names and streams what it says to the      *)
(* chat, and the MCP server (server.py) at the other end of two pipes.           *)
(*                                                                          *)
(* What the model says in answer to chat c is two fragments, <<c, 1>> and        *)
(* <<c, 2>>.  A reply says nothing, is blank, asks the user for what was given   *)
(* already (_looks_like_noop_response), or says something.  An answer of the     *)
(* server is known by the request it was made for: its id.                       *)
EXTENDS Integers, Sequences, SequencesExt, FiniteSets

CONSTANT AgentScopes    \* prompts, with what the model and the server may do

\* A tool call of the model: with its binary, without it, without a name, with
\* arguments that are no JSON.
CallKinds == {"good", "bare", "nameless", "badargs"}
Texts == {"none", "blank", "noop", "said"}

ASSUME AgentAssumption ==
    \A s \in AgentScopes :
        /\ {s.needsTools, s.direct, s.toolless, s.breaks, s.dies, s.noise} \subseteq BOOLEAN
        /\ s.hints \in 0..6 /\ s.steps \in Nat \ {0}
        /\ s.texts \subseteq Texts
        /\ \A q \in s.calls : q \in Seq(CallKinds)

VARIABLES
    agentScope,
    at,            \* what the bridge does next
    messages,      \* the conversation with the model
    bubble,        \* what the chat shows of the answer
    step, talks,   \* the round of the loop; the chats so far
    offered,       \* the tools are offered to the model
    retried,       \* retried_after_noop
    said, idle,    \* last_content, and whether it looks like no answer
    calls, call,   \* tool_calls and the one being worked on
    purpose, hint, \* what a binary is looked for, and the hints that are left
    response,      \* what run_agent_once returns
    toServer, toBridge,     \* the pipes
    awaits,        \* the request whose answer is read, 0 for none
    nextId,        \* client._next_id
    serving,       \* the server runs
    spoilt         \* ghost: a stream broke off, or a synthesis was blank

answerVars == <<bubble, response, spoilt>>
talkVars == <<messages, step, talks, offered, retried, said, idle, calls>>
pipeVars == <<toServer, toBridge, awaits, nextId, serving>>
agentVars == <<agentScope, at, call, purpose, hint, answerVars, talkVars, pipeVars>>

Content(c, text) == IF text = "none" THEN <<>> ELSE <<<<c, 1>>, <<c, 2>>>>
LooksIdle(text) == text # "said"

\* What _auto_tool_fallback makes of a result.
Extract == <<<<0, 1>>, <<0, 2>>>>

User == [role |-> "user", calls |-> <<>>]
Assistant(q) == [role |-> "assistant", calls |-> q]
ToolSays(c, id, got) == [role |-> "tool", call |-> c, id |-> id, got |-> got]

AgentInit ==
    /\ agentScope \in AgentScopes
    /\ at = "initialize" /\ messages = <<User>> /\ bubble = <<>> /\ step = 1 /\ talks = 0
    /\ offered = agentScope.needsTools /\ retried = FALSE /\ said = <<>> /\ idle = FALSE
    /\ calls = <<>> /\ call = 0 /\ purpose = "" /\ hint = 0 /\ response = <<>>
    /\ toServer = <<>> /\ toBridge = <<>> /\ awaits = 0 /\ nextId = 1
    /\ serving = TRUE /\ spoilt = FALSE

-----------------------------------------------------------------------------
(* The server and its pipes *)

Noise == [id |-> 0, ok |-> FALSE]

\* handle_request and the loop of run_stdio_server: a result that is ok or not.  A
\* tool may print a line of its own before it.
Serve ==
    /\ serving /\ toServer # <<>>
    /\ toServer' = Tail(toServer)
    /\ \E ok \in BOOLEAN, noise \in {<<>>} \cup IF agentScope.noise THEN {<<Noise>>} ELSE {} :
          toBridge' = toBridge \o noise \o <<[id |-> Head(toServer), ok |-> ok]>>
    /\ UNCHANGED <<agentScope, at, call, purpose, hint, answerVars, talkVars>>
    /\ UNCHANGED <<awaits, nextId, serving>>

ServerDies ==
    /\ agentScope.dies /\ serving
    /\ serving' = FALSE /\ toServer' = <<>>
    /\ UNCHANGED <<agentScope, at, call, purpose, hint, answerVars, talkVars>>
    /\ UNCHANGED <<toBridge, awaits, nextId>>

Requesting == at \in {"initialize", "list", "find", "call", "extract"}

\* McpStdioClient.request writes its line,
Write ==
    /\ Requesting /\ awaits = 0 /\ serving
    /\ awaits' = nextId /\ nextId' = nextId + 1 /\ toServer' = Append(toServer, nextId)
    /\ UNCHANGED <<agentScope, at, call, purpose, hint, answerVars, talkVars>>
    /\ UNCHANGED <<toBridge, serving>>

\* Mutant: whatever is read is the answer.
AnswersAny(r) == TRUE

Answers(r) == r.id = awaits

\* and reads one: at a line that is not its answer, and when the server is gone, it
\* raises.
Raised == [id |-> 0, ok |-> FALSE]
Reads == awaits # 0 /\ toBridge # <<>>
Answer == IF Reads /\ Answers(Head(toBridge)) THEN Head(toBridge) ELSE Raised

Read ==
    /\ Reads \/ ~serving
    /\ toBridge' = IF Reads THEN Tail(toBridge) ELSE toBridge
    /\ awaits' = 0
    /\ UNCHANGED <<toServer, nextId, serving>>

\* initialize and tools/list, without which there is no run.
Connect ==
    /\ at \in {"initialize", "list"} /\ Read
    /\ at' = IF Answer = Raised THEN "failed" ELSE IF at = "initialize" THEN "list" ELSE "chat"
    /\ UNCHANGED <<agentScope, call, purpose, hint, answerVars, talkVars>>

-----------------------------------------------------------------------------
(* The ways through run_agent_once *)

\* The end of main: what was not shown yet is shown.
Finish(shown, content) ==
    /\ at' = "done" /\ response' = content
    /\ bubble' = IF shown = <<>> THEN content ELSE shown

\* The next round of the loop, or its end with the last content.
NextRound(shown) ==
    /\ step' = step + 1
    /\ IF step < agentScope.steps THEN at' = "chat" /\ bubble' = shown /\ UNCHANGED response
       ELSE Finish(shown, said)

\* _resolve_binary_from_prompt has found a file, or not.
Resolved(why, found) ==
    CASE why = "call" -> at' = "call" /\ UNCHANGED <<bubble, response>>
      [] why # "call" /\ found -> at' = "extract" /\ UNCHANGED <<bubble, response>>
      [] why = "prefetch" /\ ~found -> at' = "plain" /\ UNCHANGED <<bubble, response>>
      [] why = "fallback" /\ ~found -> Finish(bubble, said)

\* The path the prompt names, or one request for each name in it.
LookFor(why) ==
    /\ purpose' = why /\ hint' = agentScope.hints
    /\ IF agentScope.direct \/ agentScope.hints = 0 THEN Resolved(why, agentScope.direct)
       ELSE at' = "find" /\ UNCHANGED <<bubble, response>>

FindFile ==
    /\ at = "find" /\ Read
    /\ hint' = hint - 1
    /\ IF Answer.ok \/ hint = 1 THEN Resolved(purpose, Answer.ok)
       ELSE UNCHANGED <<at, bubble, response>>
    /\ UNCHANGED <<agentScope, call, purpose, spoilt, talkVars>>

\* A call to the model that ends; the bubble shows what is streamed.
Says(text, q) ==
    /\ talks' = talks + 1 /\ said' = Content(talks', text) /\ idle' = LooksIdle(text)
    /\ messages' = Append(messages, Assistant(q)) /\ calls' = q
    /\ UNCHANGED <<step, offered, retried>>

\* What was shown when a stream breaks off.
Breaks ==
    /\ agentScope.breaks /\ talks' = talks + 1
    /\ \E shown \in {<<>>, <<<<talks', 1>>>>} :
          bubble' = bubble \o shown /\ spoilt' = (spoilt \/ shown # <<>>)

\* token_rollback when tool calls come with a text.
AfterSaying(text, q) ==
    LET new == Content(talks + 1, text)
    IN IF q # <<>> /\ new # <<>> THEN <<>> ELSE bubble \o new

Chat ==
    /\ at = "chat" /\ ~(agentScope.toolless /\ offered)
    /\ \/ \E text \in agentScope.texts, q \in IF offered THEN agentScope.calls ELSE {<<>>} :
             /\ Says(text, q) /\ bubble' = AfterSaying(text, q)
             /\ at' = IF q = <<>> THEN "judge" ELSE "tools"
             /\ UNCHANGED spoilt
       \/ /\ Breaks /\ at' = "failed"
          /\ UNCHANGED <<messages, step, offered, retried, said, idle, calls>>
    /\ call' = 0
    /\ UNCHANGED <<agentScope, purpose, hint, response, pipeVars>>

\* OllamaToolsUnsupportedError: what the tools would have told is fetched first.
ChatRefused ==
    /\ at = "chat" /\ agentScope.toolless /\ offered
    /\ offered' = FALSE /\ LookFor("prefetch")
    /\ UNCHANGED <<agentScope, call, messages, step, talks, retried, said, idle, calls>>
    /\ UNCHANGED <<spoilt, pipeVars>>

\* Without tools: streamed, and when that fails asked for as a whole.
PlainChat ==
    /\ at = "plain"
    /\ \/ \E text \in agentScope.texts :
             Says(text, <<>>) /\ bubble' = AfterSaying(text, <<>>) /\ at' = "judge" /\ UNCHANGED spoilt
       \/ /\ Breaks /\ at' = "whole"
          /\ UNCHANGED <<messages, step, offered, retried, said, idle, calls>>
    /\ UNCHANGED <<agentScope, call, purpose, hint, response, pipeVars>>

WholeChat ==
    /\ at = "whole"
    /\ \/ \E text \in agentScope.texts :
             Says(text, <<>>) /\ bubble' = AfterSaying(text, <<>>) /\ at' = "judge"
       \/ at' = "failed" /\ UNCHANGED <<bubble, talkVars>>
    /\ UNCHANGED <<agentScope, call, purpose, hint, response, spoilt, pipeVars>>

\* A reply without calls: asked again once when it looks like no answer, then the
\* tools are called without the model.
Judge ==
    /\ at = "judge"
    /\ LET again == agentScope.needsTools /\ idle
       IN \/ /\ again /\ ~retried
             /\ retried' = TRUE /\ messages' = Append(messages, User) /\ NextRound(<<>>)
             /\ UNCHANGED <<purpose, hint>>
          \/ /\ again /\ retried
             /\ LookFor("fallback") /\ UNCHANGED <<retried, messages, step>>
          \/ /\ ~again
             /\ Finish(bubble, said) /\ UNCHANGED <<retried, messages, step, purpose, hint>>
    /\ UNCHANGED <<agentScope, call, talks, offered, said, idle, calls, spoilt, pipeVars>>

\* The loop over tool_calls: what has no name is passed over, arguments that are no
\* JSON end the run.
TakeCall ==
    /\ at = "tools"
    /\ call' = call + 1
    /\ \/ /\ call = Len(calls)
          /\ NextRound(bubble) /\ UNCHANGED <<purpose, hint>>
       \/ /\ call < Len(calls)
          /\ CASE calls[call'] = "nameless" -> UNCHANGED <<at, purpose, hint, bubble, response>>
               [] calls[call'] = "badargs" ->
                      at' = "failed" /\ UNCHANGED <<purpose, hint, bubble, response>>
               [] calls[call'] = "good" ->
                      at' = "call" /\ UNCHANGED <<purpose, hint, bubble, response>>
               [] calls[call'] = "bare" -> LookFor("call")
          /\ UNCHANGED step
    /\ UNCHANGED <<agentScope, messages, talks, offered, retried, said, idle, calls>>
    /\ UNCHANGED <<spoilt, pipeVars>>

\* A call that raises has its error as its result.
CallEnds ==
    /\ at = "call" /\ Read
    /\ messages' = Append(messages, ToolSays(call, awaits, Answer.id))
    /\ at' = "tools"
    /\ UNCHANGED <<agentScope, call, purpose, hint, answerVars, step, talks>>
    /\ UNCHANGED <<offered, retried, said, idle, calls>>

\* _auto_tool_fallback: its request is the run's, so that when it raises the run ends.
ExtractEnds ==
    /\ at = "extract" /\ Read
    /\ CASE Answer = Raised -> at' = "failed" /\ UNCHANGED <<messages, bubble, response>>
         [] Answer # Raised /\ ~Answer.ok -> Resolved(purpose, FALSE) /\ UNCHANGED messages
         [] Answer.ok /\ purpose = "prefetch" ->
                at' = "plain" /\ UNCHANGED <<messages, bubble, response>>
         [] Answer.ok /\ purpose = "fallback" ->
                /\ at' = "synthesis" /\ bubble' = <<>> /\ messages' = Append(messages, User)
                /\ UNCHANGED response
    /\ UNCHANGED <<agentScope, call, purpose, hint, spoilt, step, talks>>
    /\ UNCHANGED <<offered, retried, said, idle, calls>>

\* The model is asked to explain what was extracted; what was extracted is the answer
\* if it does not.
Synthesis ==
    /\ at = "synthesis"
    /\ \/ \E text \in agentScope.texts :
             LET new == Content(talks + 1, text)
             IN /\ Finish(bubble \o new, IF text \in {"none", "blank"} THEN Extract ELSE new)
                /\ spoilt' = (spoilt \/ text = "blank") /\ talks' = talks + 1
       \/ /\ agentScope.breaks /\ talks' = talks + 1
          /\ \E new \in {<<>>, <<<<talks', 1>>>>} :
                Finish(bubble \o new, Extract) /\ spoilt' = (spoilt \/ new # <<>>)
    /\ UNCHANGED <<agentScope, call, purpose, hint, messages, step>>
    /\ UNCHANGED <<offered, retried, said, idle, calls, pipeVars>>

AgentNext ==
    \/ Serve \/ ServerDies \/ Write \/ Connect \/ FindFile
    \/ Chat \/ ChatRefused \/ PlainChat \/ WholeChat \/ Judge
    \/ TakeCall \/ CallEnds \/ ExtractEnds \/ Synthesis

AgentSpec == AgentInit /\ [][AgentNext]_agentVars

-----------------------------------------------------------------------------
(* Properties *)

AgentTypeOK ==
    /\ at \in {"initialize", "list", "chat", "find", "call", "extract", "plain", "whole", "judge",
               "tools", "synthesis", "done", "failed"}
    /\ purpose \in {"", "call", "prefetch", "fallback"} /\ hint \in -1..6
    /\ step \in 1..(agentScope.steps + 1) /\ call \in 0..(Len(calls) + 1)
    /\ awaits \in 0..nextId /\ nextId \in Nat \ {0} /\ talks \in Nat
    /\ {offered, retried, idle, serving, spoilt} \subseteq BOOLEAN

\* How many of the first k calls have a name.
NamedCalls(q, k) == Cardinality({j \in 1..k : q[j] # "nameless"})

\* The first k calls of the reply at i are followed by their results.
Followed(ms, i, k) ==
    \A j \in 1..k :
        ms[i].calls[j] # "nameless" =>
            LET place == i + NamedCalls(ms[i].calls, j)
            IN place <= Len(ms) /\ ms[place].role = "tool" /\ ms[place].call = j

\* And so are all of them, and then there is no other.
Whole(ms, i) ==
    LET all == Len(ms[i].calls)
        end == i + NamedCalls(ms[i].calls, all)
    IN /\ Followed(ms, i, all)
       /\ end <= Len(ms) /\ (end < Len(ms) => ms[end + 1].role # "tool")

\* Whenever the model is asked, each of its calls that has a name is followed by its
\* result, in the order of the calls: the server's answer to that very request or the
\* error it ended with, never the answer to another request, however the lines a tool
\* prints and the death of the server have shifted the pipe (McpStdioClient.request,
\* the tool loop of run_agent_once).
ToolResultsMatch ==
    \A i \in 1..Len(messages) :
        LET m == messages[i] IN
        /\ (m.role = "tool") => (m.got \in {0, m.id})
        /\ (at = "chat" /\ m.role = "assistant") => Whole(messages, i)

\* When the run is over the chat shows exactly the answer that is returned and stored,
\* not the texts that came with tool calls or the replies that were asked again, unless
\* a stream broke off or a synthesis was blank (the token_rollback events, main).
ShownIsAnswer == (at = "done" /\ ~spoilt) => (bubble = response)

\* Both ends of the agent are faithful: the model reads its tools' own results, and the
\* user the answer that is kept (run_agent_once).
TalkFaithful == ToolResultsMatch /\ ShownIsAnswer
=============================================================================
