----------------------------- MODULE ChatSession -----------------------------
(* The AI chat of the hub: the conversations of the webview                    *)
(* (front/shared/outils.js, messages.js), the host that runs one bridge         *)
(* process per prompt (static/staticHandlers.ts, shared/sharedHandlers.ts) and   *)
(* the history stored by shared/chatHistoryBridge.ts and chat_history.py.        *)
(*                                                                          *)
(* A message is who said it and the prompt it belongs to, 0 for one of an       *)
(* earlier session.  A message of the webview reaches its handler at once; those *)
(* of the host wait their turn.  Fragments of an answer wait to be painted.      *)
EXTENDS Integers, Sequences, FiniteSets

CONSTANTS
    Conversations,  \* identifiers, never used twice
    MaxPrompts,     \* bound: prompts sent
    NoBackup,       \* no revision is under way
    ChatScopes      \* documents at first, bounds and what the environment may do

Prompts == 1..MaxPrompts
Speakers == {"user", "assistant", "system"}
Said(role, p) == [role |-> role, of |-> p]

\* Conversations by their identifiers, of turns of these.
IsHistory(h, turns) == \E held \in SUBSET Conversations : h \in [held -> Seq(turns)]

\* What is stored at first was said in earlier sessions, and there is an identifier
\* left for the conversation that is opened meanwhile.
ASSUME ChatAssumption ==
    /\ MaxPrompts \in Nat \ {0}
    /\ \A s \in ChatScopes : LET old == s.document IN
          /\ s \in [document : {old}, late : BOOLEAN, slow : BOOLEAN, failing : BOOLEAN,
                    commands : Nat, prompts : Nat, saves : Nat]
          /\ old \in [chats : {old.chats}, current : Conversations]
          /\ IsHistory(old.chats, {Said(role, 0) : role \in Speakers})
          /\ DOMAIN old.chats # Conversations /\ (DOMAIN old.chats # {} => old.current \in DOMAIN old.chats)

VARIABLES
    chats,          \* webview: ollamaUiState.history, the messages of each conversation
    current,        \* webview: activeConversationId
    chatBusy,       \* webview: ollamaUiState.busy
    awaited,        \* webview: activeAiRequestId, 0 for ''
    live,           \* webview: fragments waiting for the next paint, fragments painted
    dueAnswer,      \* webview: _pendingResultCallback, the prompt whose answer it holds
    backup,         \* webview: activeConversationRevisionBackup
    listingModels,  \* host: a list of models is on its way
    replies,        \* host: the process of each prompt
    toPanel,        \* messages on their way to the webview
    chain,          \* host: saves chained on pendingMutation
    document,       \* what chat_history.py stores
    loading,        \* host: the load of the history has not been read yet
    \* ghosts: the conversation of each prompt, prompts stopped, last save refused
    askedIn, stopped, saveFailed,
    chatScope

webviewVars == <<chats, current, chatBusy, awaited, live, dueAnswer, backup>>
hostVars == <<listingModels, replies, toPanel, chain, document, loading>>
chatVars == <<webviewVars, hostVars, askedIn, stopped, saveFailed, chatScope>>

NothingLive == [waiting |-> FALSE, painted |-> FALSE]
Unlisted(h, c) == [d \in DOMAIN h \ {c} |-> h[d]]
Blank(c) == [d \in {c} |-> <<>>]
With(h, c, messages) == [d \in DOMAIN h \cup {c} |-> IF d = c THEN messages ELSE h[d]]

\* Identifiers nothing refers to; which one comes next is a matter of names.
FreshIds ==
    Conversations \ (DOMAIN chats \cup DOMAIN document.chats \cup {askedIn[p] : p \in Prompts}
        \cup UNION {DOMAIN chain[i].chats : i \in DOMAIN chain}
        \cup UNION {DOMAIN toPanel[i].chats : i \in {j \in DOMAIN toPanel : toPanel[j].type = "history"}})

FreshId == CHOOSE c \in FreshIds : TRUE

\* hydrateOllamaConversationHistory, then requestOllamaModels
ChatInit ==
    /\ chatScope \in ChatScopes /\ document = chatScope.document
    /\ current = CHOOSE c \in Conversations \ DOMAIN document.chats : TRUE
    /\ chats = Blank(current) /\ askedIn = [p \in Prompts |-> current]
    /\ chatBusy = TRUE /\ listingModels = TRUE
    /\ awaited = 0 /\ live = NothingLive /\ dueAnswer = 0 /\ backup = NoBackup
    /\ replies = [p \in Prompts |-> "none"] /\ toPanel = <<>> /\ chain = <<>>
    /\ loading = TRUE /\ stopped = {} /\ saveFailed = FALSE

\* syncActiveOllamaConversationInHistory, then persistOllamaConversation
Persist(h, c) ==
    /\ Len(chain) < chatScope.saves
    /\ chats' = h /\ current' = c
    /\ chain' = Append(chain, [chats |-> h, current |-> c])

\* Unless the scope says otherwise, the user waits for the stored conversations.
HistoryThere ==
    chatScope.late \/ (~loading /\ \A i \in DOMAIN toPanel : toPanel[i].type # "history")

-----------------------------------------------------------------------------
(* The webview: prompts *)

\* submitOllamaChatPrompt, once nothing refuses it.
Submitting(context) ==
    /\ ~chatBusy /\ HistoryThere
    /\ \E p \in Prompts :
          /\ p <= chatScope.prompts
          /\ replies[p] = "none" /\ \A q \in 1..(p - 1) : replies[q] # "none"
          /\ Persist(With(chats, current, Append(context, Said("user", p))), current)
          /\ awaited' = p /\ replies' = [replies EXCEPT ![p] = "running"]
          /\ askedIn' = [askedIn EXCEPT ![p] = current]
    /\ chatBusy' = TRUE /\ live' = NothingLive /\ dueAnswer' = 0
    /\ UNCHANGED <<listingModels, toPanel, document, loading, stopped, saveFailed, chatScope>>

SendPrompt == Submitting(chats[current]) /\ UNCHANGED backup

\* Editing a prompt, or regenerating its answer: what follows it is replaced.
Revise ==
    \E i \in DOMAIN chats[current] :
        /\ chats[current][i].role = "user"
        /\ backup' = chats[current]
        /\ Submitting(SubSeq(chats[current], 1, i - 1))

\* A prompt refused, because another is under way, it is empty, or the user declines
\* a truncated context: the fragments not yet painted are dropped all the same, and
\* so is the answer that waits for them.
RefusedPrompt ==
    /\ HistoryThere
    /\ live.waiting \/ dueAnswer # 0
    /\ live' = [live EXCEPT !.waiting = FALSE] /\ dueAnswer' = 0
    /\ UNCHANGED <<chats, current, chatBusy, awaited, backup, hostVars, askedIn, stopped, saveFailed, chatScope>>

\* A revision refused puts the messages back and stores them again.
RefusedRevision ==
    /\ ~chatBusy /\ HistoryThere /\ chatScope.commands > 0
    /\ \E i \in DOMAIN chats[current] : chats[current][i].role = "user"
    /\ Persist(chats, current)
    /\ live' = NothingLive /\ dueAnswer' = 0 /\ backup' = NoBackup
    /\ chatScope' = [chatScope EXCEPT !.commands = @ - 1]
    /\ UNCHANGED <<chatBusy, awaited, listingModels, replies, toPanel, document, loading, askedIn, stopped, saveFailed>>

\* cancelOllamaChatPrompt and hubAiCancel.  The button is disabled until the answer;
\* a process no longer registered has had its last word.
StopPrompt ==
    /\ chatBusy /\ awaited # 0
    /\ \A i \in DOMAIN toPanel : toPanel[i].type = "cancelled" => toPanel[i].of # awaited
    /\ \E flushed \in {<<>>, <<[type |-> "token", of |-> awaited]>>} :
          /\ replies[awaited] # "running" => flushed = <<>>
          /\ toPanel' = toPanel \o flushed \o <<[type |-> "cancelled", of |-> awaited]>>
    /\ replies' = [replies EXCEPT ![awaited] = IF @ = "running" THEN "killed" ELSE @]
    /\ stopped' = stopped \cup {awaited}
    /\ UNCHANGED <<webviewVars, listingModels, chain, document, loading, askedIn, saveFailed, chatScope>>

-----------------------------------------------------------------------------
(* The webview: conversations *)

ChatCommand ==
    /\ ~chatBusy /\ HistoryThere /\ chatScope.commands > 0
    /\ chatScope' = [chatScope EXCEPT !.commands = @ - 1]
    /\ live' = [live EXCEPT !.painted = FALSE]

\* clearOllamaConversation
NewChat ==
    /\ ChatCommand
    /\ FreshIds # {}
    /\ Persist(With(IF chats[current] # <<>> THEN chats ELSE Unlisted(chats, current), FreshId, <<>>), FreshId)
    /\ UNCHANGED <<chatBusy, awaited, dueAnswer, backup, listingModels, replies, toPanel,
                   document, loading, askedIn, stopped, saveFailed>>

\* switchOllamaConversation
SwitchChat ==
    /\ ChatCommand
    /\ \E c \in DOMAIN chats \ {current} : Persist(chats, c)
    /\ UNCHANGED <<chatBusy, awaited, dueAnswer, backup, listingModels, replies, toPanel,
                   document, loading, askedIn, stopped, saveFailed>>

\* deleteOllamaConversation: the next one is the most recent, and a new one is
\* opened when none is left.
DeleteChat ==
    /\ ChatCommand
    /\ \E c \in DOMAIN chats :
          LET rest == Unlisted(chats, c) IN
          \/ c # current /\ Persist(rest, current)
          \/ c = current /\ \E d \in DOMAIN rest : Persist(rest, d)
          \/ DOMAIN rest = {} /\ FreshIds # {} /\ Persist(With(rest, FreshId, <<>>), FreshId)
    /\ UNCHANGED <<chatBusy, awaited, dueAnswer, backup, listingModels, replies, toPanel,
                   document, loading, askedIn, stopped, saveFailed>>

\* clearOllamaConversationHistory
ClearChats ==
    /\ ChatCommand
    /\ FreshIds # {} /\ Persist(Blank(FreshId), FreshId)
    /\ UNCHANGED <<chatBusy, awaited, dueAnswer, backup, listingModels, replies, toPanel,
                   document, loading, askedIn, stopped, saveFailed>>

\* requestOllamaModels, and the hubOllamaModels message
ListModels ==
    /\ ~chatBusy /\ chatScope.commands > 0
    /\ chatBusy' = TRUE /\ listingModels' = TRUE
    /\ chatScope' = [chatScope EXCEPT !.commands = @ - 1]
    /\ UNCHANGED <<chats, current, awaited, live, dueAnswer, backup, replies, toPanel, chain,
                   document, loading, askedIn, stopped, saveFailed>>

ModelsListed ==
    /\ listingModels /\ listingModels' = FALSE /\ chatBusy' = FALSE
    /\ UNCHANGED <<chats, current, awaited, live, dueAnswer, backup, replies, toPanel, chain,
                   document, loading, askedIn, stopped, saveFailed, chatScope>>

-----------------------------------------------------------------------------
(* The host: prompts *)

Reply(p, from, to) == replies[p] \in from /\ replies' = [replies EXCEPT ![p] = to]
Post(m) == toPanel' = Append(toPanel, m)
HostStep == UNCHANGED <<webviewVars, listingModels, chain, document, loading, askedIn, stopped, saveFailed, chatScope>>

\* A batch of fragments, or the rollback of those sent before a tool call.  A killed
\* process may still have lines to be read.
Fragment(p) ==
    /\ replies[p] \in {"running", "killed"}
    /\ \E type \in {"token", "rollback"} :
          /\ \A i \in DOMAIN toPanel : toPanel[i].type \notin {"token", "rollback"}
          /\ Post([type |-> type, of |-> p])
    /\ UNCHANGED replies /\ HostStep

\* The line "done" or "error": the request is no longer registered, and its result
\* is posted a paint window later.
LastLine(p) ==
    /\ \E outcome \in {"answered", "refused"} : Reply(p, {"running", "killed"}, outcome)
    /\ UNCHANGED toPanel /\ HostStep

\* In time, the last fragments were painted meanwhile.
PostResult(p) ==
    /\ replies[p] \in {"answered", "refused"}
    /\ chatScope.slow \/ (~live.waiting /\ \A i \in DOMAIN toPanel : toPanel[i].type # "token")
    /\ Post([type |-> replies[p], of |-> p])
    /\ Reply(p, {"answered", "refused"}, "over") /\ HostStep

\* The process ends without a last line; it is reported unless it was killed.
BridgeEnds(p) ==
    \/ Reply(p, {"running"}, "over") /\ Post([type |-> "refused", of |-> p]) /\ HostStep
    \/ Reply(p, {"killed"}, "over") /\ UNCHANGED toPanel /\ HostStep

-----------------------------------------------------------------------------
(* The host: the stored history *)

\* loadHistory, read by a process of its own
LoadHistory ==
    /\ loading /\ loading' = FALSE
    /\ \/ Post([type |-> "history", of |-> 0, chats |-> document.chats, current |-> document.current])
       \/ chatScope.failing /\ UNCHANGED toPanel
    /\ UNCHANGED <<webviewVars, listingModels, replies, chain, document, askedIn, stopped, saveFailed, chatScope>>

Stored(i) ==
    /\ \/ document' = chain[i] /\ saveFailed' = FALSE
       \/ chatScope.failing /\ UNCHANGED document /\ saveFailed' = TRUE
    /\ UNCHANGED <<webviewVars, listingModels, replies, toPanel, loading, askedIn, stopped, chatScope>>

\* Mutant: every save has its process at once.
SaveAny ==
    \E i \in DOMAIN chain :
        /\ chain' = SubSeq(chain, 1, i - 1) \o SubSeq(chain, i + 1, Len(chain))
        /\ Stored(i)

\* saveHistory: each save waits for the one before, and replaces every conversation.
SaveNext == chain # <<>> /\ chain' = Tail(chain) /\ Stored(1)

-----------------------------------------------------------------------------
(* The webview: messages of the host *)

\* pushOllamaMessage
PushMessage(role, p) ==
    /\ Persist([chats EXCEPT ![current] = Append(@, Said(role, p))], current)
    /\ backup' = NoBackup

\* restoreOllamaConversationRevision
RestoreBackup == Persist([chats EXCEPT ![current] = backup], current) /\ backup' = NoBackup

NotPushed == UNCHANGED <<chats, current, chain, backup>>

\* Mutant: a result is taken whoever asked for it.
Anyones(m) == TRUE

\* What is not about the request awaited is dropped.
Awaited(m) == m.of = awaited

Receive(type) ==
    /\ toPanel # <<>> /\ Head(toPanel).type = type /\ toPanel' = Tail(toPanel)
    /\ UNCHANGED <<listingModels, replies, document, loading, askedIn, stopped, saveFailed, chatScope>>

TakeFragment ==
    \E type \in {"token", "rollback"} :
        /\ Receive(type)
        /\ LET mine == Awaited(Head(toPanel)) IN
           /\ live' = CASE mine /\ type = "token" -> [live EXCEPT !.waiting = TRUE]
                        [] mine /\ type = "rollback" -> NothingLive
                        [] OTHER -> live
           /\ dueAnswer' = IF mine /\ type = "rollback" THEN 0 ELSE dueAnswer
        /\ NotPushed /\ UNCHANGED <<chatBusy, awaited>>

DropResult ==
    \E type \in {"answered", "refused", "cancelled"} :
        Receive(type) /\ ~Awaited(Head(toPanel)) /\ NotPushed /\ UNCHANGED <<chatBusy, awaited, live, dueAnswer>>

Result(type) == Receive(type) /\ Awaited(Head(toPanel)) /\ chatBusy' = FALSE /\ awaited' = 0

\* The answer is pushed when the last fragments have been painted.
TakeAnswer ==
    /\ Result("answered")
    /\ IF live.waiting
       THEN dueAnswer' = Head(toPanel).of /\ NotPushed /\ UNCHANGED live
       ELSE PushMessage("assistant", Head(toPanel).of) /\ live' = NothingLive /\ UNCHANGED dueAnswer

\* A failed revision puts the messages back.
TakeFailure ==
    /\ Result("refused") /\ live' = NothingLive /\ dueAnswer' = 0
    /\ IF backup # NoBackup THEN RestoreBackup ELSE PushMessage("system", Head(toPanel).of)

\* What was painted of a stopped answer is kept.
TakeStop ==
    /\ Result("cancelled") /\ live' = NothingLive /\ dueAnswer' = 0
    /\ IF live.painted THEN PushMessage("assistant", Head(toPanel).of)
       ELSE IF backup # NoBackup THEN RestoreBackup ELSE NotPushed

\* applyOllamaConversationHistory, whatever the user has done since it was asked
TakeHistory ==
    /\ Receive("history")
    /\ IF DOMAIN Head(toPanel).chats # {}
       THEN chats' = Head(toPanel).chats /\ current' = Head(toPanel).current
       ELSE FreshIds # {} /\ chats' = Blank(FreshId) /\ current' = FreshId
    /\ live' = [live EXCEPT !.painted = FALSE]
    /\ UNCHANGED <<chatBusy, awaited, dueAnswer, backup, chain>>

\* _drainStreamToken
Paint ==
    /\ live.waiting
    /\ IF dueAnswer # 0
       THEN PushMessage("assistant", dueAnswer) /\ live' = NothingLive /\ dueAnswer' = 0
       ELSE live' = [waiting |-> FALSE, painted |-> TRUE] /\ NotPushed /\ UNCHANGED dueAnswer
    /\ UNCHANGED <<chatBusy, awaited, listingModels, replies, toPanel, document, loading,
                   askedIn, stopped, saveFailed, chatScope>>

-----------------------------------------------------------------------------
Conversing ==
    \/ SendPrompt \/ Revise \/ RefusedPrompt \/ RefusedRevision \/ StopPrompt
    \/ NewChat \/ SwitchChat \/ DeleteChat \/ ClearChats \/ ListModels \/ ModelsListed

ReplyStep(p) == Fragment(p) \/ LastLine(p) \/ PostResult(p) \/ BridgeEnds(p)

Receiving ==
    \/ TakeFragment \/ DropResult \/ TakeAnswer \/ TakeFailure \/ TakeStop \/ TakeHistory \/ Paint

ChatNext == Conversing \/ (\E p \in Prompts : ReplyStep(p)) \/ LoadHistory \/ SaveNext \/ Receiving

ChatSpec == ChatInit /\ [][ChatNext]_chatVars

-----------------------------------------------------------------------------
Turns == [role : Speakers, of : 0..MaxPrompts]

ChatTypeOK ==
    /\ IsHistory(chats, Turns) /\ current \in DOMAIN chats
    /\ IsHistory(document.chats, Turns) /\ (DOMAIN document.chats # {} => document.current \in DOMAIN document.chats)
    /\ chatBusy \in BOOLEAN /\ awaited \in 0..MaxPrompts /\ dueAnswer \in 0..MaxPrompts
    /\ live \in [waiting : BOOLEAN, painted : BOOLEAN]
    /\ replies \in [Prompts -> {"none", "running", "killed", "answered", "refused", "over"}]
    /\ \A i \in DOMAIN chain : IsHistory(chain[i].chats, Turns) /\ chain[i].current \in DOMAIN chain[i].chats

\* Every question of this session stands in the conversation it was asked in, its
\* answer or its error next to it and nowhere else; only a question under way, or one
\* that was stopped, has none.  A revision under way is always settled.  That is when
\* the stored history arrives before the user acts and the last fragments are painted
\* before the result, as the two delays of the host and the webview intend.
AnswersInPlace ==
    ~chatScope.late /\ ~chatScope.slow =>
        /\ backup # NoBackup => awaited # 0
        /\ \A c \in DOMAIN chats : \A i \in DOMAIN chats[c] :
              LET m == chats[c][i] IN
              m.of # 0 =>
                /\ askedIn[m.of] = c
                /\ m.role # "user" => i > 1 /\ chats[c][i - 1] = Said("user", m.of)
                /\ m.role = "user" =>
                      \/ m.of = awaited \/ m.of \in stopped
                      \/ i < Len(chats[c]) /\ chats[c][i + 1].of = m.of

\* The webview that is busy is owed an answer: the list of models, or the result of the
\* prompt it awaits, from a process that runs or on its way; and it awaits nothing
\* when it is not busy.
AnswerOwed ==
    /\ chatBusy <=> listingModels \/ awaited # 0
    /\ awaited # 0 =>
          \/ replies[awaited] \in {"running", "answered", "refused"}
          \/ \E i \in DOMAIN toPanel :
                toPanel[i].of = awaited /\ toPanel[i].type \in {"answered", "refused", "cancelled"}

\* Questions and answers stand where they belong, and what is awaited comes
\* (messages.js, outils.js, sharedHandlers.ts).
ChatTells == AnswersInPlace /\ AnswerOwed

\* When no save is left and the last one was accepted, what is stored is what the
\* webview shows, but for conversations without a message.
StoreFollows ==
    chain = <<>> /\ ~saveFailed /\ ~chatScope.late /\ HistoryThere /\ ~chatScope.failing =>
        \A c \in Conversations :
            LET shown == IF c \in DOMAIN chats THEN chats[c] ELSE <<>>
                kept == IF c \in DOMAIN document.chats THEN document.chats[c] ELSE <<>>
            IN shown = kept
=============================================================================
