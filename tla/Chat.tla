-------------------------------- MODULE Chat --------------------------------
(***************************************************************************)
(* One question to the AI assistant: AiService.chat of the backend (the    *)
(* gateway), which waits thirty seconds for chat of crack-ai (the          *)
(* service), which asks a language model up to max_tool_iterations times   *)
(* and runs the tools it calls at the same time.                           *)
(*                                                                         *)
(* Chats share nothing but the pool of database connections, so one is     *)
(* modelled.  What the model says, which tools it calls and whether the    *)
(* arguments it gives them can be parsed is up to it; a call is known by   *)
(* its round and its place in it.  A text is known by where it came from.  *)
(***************************************************************************)
EXTENDS Integers, Sequences, FiniteSets, SequencesExt

CONSTANTS
  MaxToolIterations,  \* max_tool_iterations
  Tool,               \* names of tools
  Histories,          \* histories a client may send: sequences of roles
  CallLists,          \* lists of calls the model may make: [tool, parsed]
  NoText,             \* an empty text, or none
  Sorry,              \* "Sorry, I cannot process this request right now."
  Refusal             \* "I cannot process this request."

ASSUME ChatAssumption ==
  /\ MaxToolIterations \in Nat \ {0}
  /\ Histories \subseteq Seq({"user", "assistant", "model"})
  /\ CallLists \subseteq Seq([tool : Tool, parsed : {"yes", "no"}])
  /\ Sorry \notin 0..MaxToolIterations

VARIABLES
  gateway,    \* where AiService.chat is
  service,    \* where chat of crack-ai is
  history,    \* the roles of the history in the request
  iteration,  \* rounds of the loop that have begun
  messages,   \* what is sent to the model
  outcomes,   \* per tool call of this round, how far it is
  toolsUsed,
  reply,      \* what the service is about to answer
  auditLog,   \* the rows of ai_audit_logs
  answer      \* what the client was told

serviceVars == <<service, iteration, messages, outcomes, toolsUsed, reply, auditLog>>
chatVars == <<gateway, history, answer, serviceVars>>

GatewayAt == {"idle", "checking", "waiting", "answered", "refused", "failed",
              "unavailable"}

ServiceAt == {"idle", "received", "asking", "calling", "replying", "auditing",
              "responding", "failed", "done"}

\* Round 0 is the history.
Text == 0..MaxToolIterations \cup {NoText}

Reply == Text \cup {Sorry, Refusal}

\* A message of a conversation; "of" is the tool_call_id that a tool answers,
\* a round and a place in it, or NoCall ("unknown").
NoCall == <<0, 0>>

Message ==
  [role : {"user", "assistant", "tool"}, text : Text,
   calls : CallLists \cup {<<>>}, of : (0..MaxToolIterations) \X Nat]

Outcome == {"scheduled", "running", "result", "error", "broken"}

ChatInit ==
  /\ gateway = "idle"
  /\ service = "idle"
  /\ history \in Histories
  /\ iteration = 0
  /\ messages = <<>>
  /\ outcomes = <<>>
  /\ toolsUsed = {}
  /\ reply = NoText
  /\ auditLog = <<>>
  /\ answer = NoText

-----------------------------------------------------------------------------

\* The request has a token and its user is not over the limit of the throttler.
Ask ==
  /\ gateway = "idle"
  /\ gateway' = "checking"
  /\ UNCHANGED <<history, answer, serviceVars>>

\* The tenant has no AI tokens left.
RefusePayment ==
  /\ gateway = "checking"
  /\ gateway' = "refused"
  /\ UNCHANGED <<history, answer, serviceVars>>

Forward ==
  /\ gateway = "checking"
  /\ gateway' = "waiting"
  /\ service' = "received"
  /\ UNCHANGED <<history, answer, iteration, messages, outcomes, toolsUsed,
                 reply, auditLog>>

\* The timeout of the HTTP client, or no connection.
GiveUp ==
  /\ gateway = "waiting"
  /\ gateway' = "unavailable"
  /\ UNCHANGED <<history, answer, serviceVars>>

-----------------------------------------------------------------------------

\* No valid token, over the limit of the service, or a history that ChatMessage
\* does not allow: its roles are user and assistant.
RefuseRequest ==
  /\ service = "received"
  /\ service' = "failed"
  /\ UNCHANGED <<gateway, history, answer, iteration, messages, outcomes,
                 toolsUsed, reply, auditLog>>

Receive ==
  /\ service = "received"
  /\ \A i \in DOMAIN history : history[i] # "model"
  /\ service' = "asking"
  /\ iteration' = 1
  /\ messages' =
       Append([i \in DOMAIN history |->
                 [role |-> history[i], text |-> 0, calls |-> <<>>, of |-> NoCall]],
              [role |-> "user", text |-> 0, calls |-> <<>>, of |-> NoCall])
  /\ UNCHANGED <<gateway, history, answer, outcomes, toolsUsed, reply, auditLog>>

\* The model answers: with a text, or with calls and perhaps a text.
ModelAnswers(said, calls) ==
  /\ service = "asking"
  /\ messages' =
       Append(messages, [role |-> "assistant",
                         text |-> IF said THEN iteration ELSE NoText,
                         calls |-> calls, of |-> NoCall])
  /\ service' = IF calls = <<>> THEN "replying" ELSE "calling"
  /\ outcomes' = [i \in DOMAIN calls |-> [call |-> calls[i], at |-> "scheduled"]]
  /\ UNCHANGED <<gateway, history, answer, iteration, toolsUsed, reply, auditLog>>

\* The request to the model times out, or the model refuses the conversation.
ModelFails ==
  /\ service = "asking"
  /\ service' = "failed"
  /\ UNCHANGED <<gateway, history, answer, iteration, messages, outcomes,
                 toolsUsed, reply, auditLog>>

\* One task of asyncio.gather goes from one state to another.
Becomes(i, from, to) ==
  /\ service = "calling"
  /\ i \in DOMAIN outcomes
  /\ outcomes[i].at = from
  /\ outcomes' = [outcomes EXCEPT ![i].at = to]
  /\ UNCHANGED <<gateway, service, history, answer, iteration, messages, reply,
                 auditLog>>

StartTool(i) ==
  /\ Becomes(i, "scheduled", "running")
  /\ outcomes[i].call.parsed = "yes"
  /\ toolsUsed' = toolsUsed \cup {outcomes[i].call.tool}

\* json.loads throws; gather returns the exception as the result.
BreakTool(i) ==
  /\ Becomes(i, "scheduled", "broken")
  /\ outcomes[i].call.parsed = "no"
  /\ UNCHANGED toolsUsed

ToolReturns(i) == Becomes(i, "running", "result") /\ UNCHANGED toolsUsed

\* Mutant: a tool may take as long as it likes.
ToolHangs(i) == Becomes(i, "running", "running") /\ UNCHANGED toolsUsed

\* wait_for gives a tool fifteen seconds; other exceptions are errors too.
ToolTimesOut(i) == Becomes(i, "running", "error") /\ UNCHANGED toolsUsed

ToolMessage(i) ==
  [role |-> "tool", text |-> NoText, calls |-> <<>>,
   of |-> IF outcomes[i].at = "broken" THEN NoCall ELSE <<iteration, i>>]

\* Mutant: one round too many.
GatherOnceMore ==
  /\ service = "calling"
  /\ \A i \in DOMAIN outcomes : outcomes[i].at \in {"result", "error", "broken"}
  /\ messages' = messages \o [i \in DOMAIN outcomes |-> ToolMessage(i)]
  /\ outcomes' = <<>>
  /\ IF iteration <= MaxToolIterations
       THEN iteration' = iteration + 1 /\ service' = "asking"
       ELSE service' = "replying" /\ UNCHANGED iteration
  /\ UNCHANGED <<gateway, history, answer, toolsUsed, reply, auditLog>>

\* Mutant: gather goes on when the first task has thrown.
GatherFirstException ==
  /\ service = "calling"
  /\ \/ \A i \in DOMAIN outcomes : outcomes[i].at \in {"result", "error"}
     \/ \E i \in DOMAIN outcomes : outcomes[i].at = "broken"
  /\ messages' = messages \o
       SelectSeq([i \in DOMAIN outcomes |-> ToolMessage(i)],
                 LAMBDA m : m.of # NoCall)
  /\ outcomes' = <<>>
  /\ IF iteration < MaxToolIterations
       THEN iteration' = iteration + 1 /\ service' = "asking"
       ELSE service' = "replying" /\ UNCHANGED iteration
  /\ UNCHANGED <<gateway, history, answer, toolsUsed, reply, auditLog>>

\* All tasks are done; their results follow the message in its order.
Gather ==
  /\ service = "calling"
  /\ \A i \in DOMAIN outcomes : outcomes[i].at \in {"result", "error", "broken"}
  /\ messages' = messages \o [i \in DOMAIN outcomes |-> ToolMessage(i)]
  /\ outcomes' = <<>>
  /\ IF iteration < MaxToolIterations
       THEN iteration' = iteration + 1 /\ service' = "asking"
       ELSE service' = "replying" /\ UNCHANGED iteration
  /\ UNCHANGED <<gateway, history, answer, toolsUsed, reply, auditLog>>

Spoken(m) == m.role = "assistant" /\ m.text # NoText

\* Mutant: the search begins at the front.
FirstReplyText(ms) ==
  LET first == SelectInSeq(ms, Spoken) IN
  IF first = 0 THEN Sorry ELSE ms[first].text

\* The last text of the assistant, be it from the history.
ReplyText(ms) ==
  LET last == SelectLastInSeq(ms, Spoken) IN
  IF last = 0 THEN Sorry ELSE ms[last].text

\* validate_response replaces a text that has a forbidden phrase in it.
MakeReply(validated) ==
  /\ service = "replying"
  /\ validated = Refusal => ReplyText(messages) # Sorry
  /\ validated \in {ReplyText(messages), Refusal}
  /\ reply' = validated
  /\ service' = "auditing"
  /\ UNCHANGED <<gateway, history, answer, iteration, messages, outcomes,
                 toolsUsed, auditLog>>

\* Mutant: what is logged is not what is answered.
AuditUnvalidated ==
  /\ service = "auditing"
  /\ auditLog' = Append(auditLog, [reply |-> ReplyText(messages), tools |-> toolsUsed])
  /\ service' = "responding"
  /\ UNCHANGED <<gateway, history, answer, iteration, messages, outcomes,
                 toolsUsed, reply>>

Audit ==
  /\ service = "auditing"
  /\ auditLog' = Append(auditLog, [reply |-> reply, tools |-> toolsUsed])
  /\ service' = "responding"
  /\ UNCHANGED <<gateway, history, answer, iteration, messages, outcomes,
                 toolsUsed, reply>>

\* The insert fails or its time is up: a warning is logged.
AuditFails ==
  /\ service = "auditing"
  /\ service' = "responding"
  /\ UNCHANGED <<gateway, history, answer, iteration, messages, outcomes,
                 toolsUsed, reply, auditLog>>

\* Mutant: an answer that comes too late is taken all the same.
RespondLate ==
  /\ service \in {"responding", "failed"}
  /\ service' = "done"
  /\ IF service = "failed" THEN gateway' = "failed" /\ UNCHANGED answer
     ELSE gateway' = "answered" /\ answer' = reply
  /\ UNCHANGED <<history, iteration, messages, outcomes, toolsUsed, reply, auditLog>>

\* The answer of the service, which the gateway may no longer wait for.
Respond ==
  /\ service \in {"responding", "failed"}
  /\ service' = "done"
  /\ IF gateway # "waiting" THEN UNCHANGED <<gateway, answer>>
     ELSE IF service = "failed" THEN gateway' = "failed" /\ UNCHANGED answer
     ELSE gateway' = "answered" /\ answer' = reply
  /\ UNCHANGED <<history, iteration, messages, outcomes, toolsUsed, reply, auditLog>>

\* Everything but what nobody has to do: a client that asks, a model that
\* answers, a tool that returns.
ChatStep ==
  \/ RefusePayment \/ Forward
  \/ RefuseRequest \/ Receive
  \/ ModelFails
  \/ \E i \in DOMAIN outcomes : StartTool(i) \/ BreakTool(i) \/ ToolTimesOut(i)
  \/ Gather
  \/ \E validated \in Reply : MakeReply(validated)
  \/ Audit \/ AuditFails
  \/ Respond

ChatNext ==
  \/ Ask
  \/ GiveUp
  \/ \E said \in BOOLEAN, calls \in CallLists : ModelAnswers(said, calls)
  \/ \E i \in DOMAIN outcomes : ToolReturns(i)
  \/ ChatStep

ChatSpec ==
  /\ ChatInit
  /\ [][ChatNext]_chatVars
  /\ WF_chatVars(ChatStep)

-----------------------------------------------------------------------------

ChatTypeOK ==
  /\ gateway \in GatewayAt
  /\ service \in ServiceAt
  /\ history \in Histories
  /\ iteration \in 0..MaxToolIterations
  /\ messages \in Seq(Message)
  /\ \A i \in DOMAIN outcomes : outcomes[i].at \in Outcome
  /\ toolsUsed \subseteq Tool
  /\ {reply, answer} \subseteq Reply

\* The round an answer of the model belongs to.
RoundOf(i) ==
  Cardinality({j \in (Len(history) + 2)..i : messages[j].role = "assistant"})

(***************************************************************************)
(* The model accepts a conversation only if the results of the tools it    *)
(* called follow its message.  There is one per call, in the order of the  *)
(* calls, whatever the order in which the tools end and whichever of them  *)
(* fail; a call that could not be parsed has a message without its id.     *)
(***************************************************************************)
ConversationIsWellFormed ==
  service # "calling" =>
    /\ \A i \in DOMAIN messages : \A k \in DOMAIN messages[i].calls :
         LET call == messages[i].calls[k] IN
         /\ i + k \in DOMAIN messages
         /\ messages[i + k].role = "tool"
         /\ messages[i + k].of =
              IF call.parsed = "yes" THEN <<RoundOf(i), k>> ELSE NoCall
    /\ \A i \in DOMAIN messages :
         messages[i].role = "tool" =>
           \E j \in 1..(i - 1) : i - j \in DOMAIN messages[j].calls

(***************************************************************************)
(* The user is told the newest text there is: never one of the history or  *)
(* of an earlier round when the model has said something since, and the    *)
(* apology only when there is none.                                        *)
(***************************************************************************)
ReplyIsNewest ==
  \A told \in {reply, answer} \ {NoText, Refusal} :
    \A i \in DOMAIN messages :
      Spoken(messages[i]) => told # Sorry /\ messages[i].text <= told

(***************************************************************************)
(* The audit log has at most one row per question.  It has the reply that  *)
(* the user got, if he got one, and the tools that were run to find it.    *)
(***************************************************************************)
AuditTellsWhatHappened ==
  /\ Len(auditLog) <= 1
  /\ \A row \in ToSet(auditLog) :
       /\ row.reply = reply
       /\ answer \in {NoText, row.reply}
       /\ row.tools =
            UNION {{call.tool : call \in {c \in ToSet(m.calls) : c.parsed = "yes"}} :
                     m \in ToSet(messages)}

(***************************************************************************)
(* The client is answered once: the reply of a service that took longer    *)
(* than the gateway waits changes nothing for it.                          *)
(***************************************************************************)
AnsweredOnce ==
  [][gateway \notin {"idle", "checking", "waiting"} =>
       UNCHANGED <<gateway, answer>>]_chatVars

(***************************************************************************)
(* A chat ends, although neither the model nor any tool need ever answer   *)
(* and although the client may be gone: the loop is bounded and every      *)
(* await in it has a timeout.                                              *)
(***************************************************************************)
EveryChatEnds ==
  /\ (service = "received") ~> (service = "done")
  /\ (gateway = "checking") ~>
       (gateway \in {"answered", "refused", "failed", "unavailable"})
=============================================================================
