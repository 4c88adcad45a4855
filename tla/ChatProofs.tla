----------------------------- MODULE ChatProofs -----------------------------
(***************************************************************************)
(* Chat, for any model, any tools, any histories and any number of rounds: *)
(* the reply is the newest text, and the audit row tells what happened.    *)
(***************************************************************************)
EXTENDS Chat, FiniteSetTheorems, SequenceTheorems, WellFoundedInduction, TLAPS

ToolCall == [tool : Tool, parsed : {"yes", "no"}]

Task == [call : ToolCall, at : Outcome]

AuditRow == [reply : Reply, tools : SUBSET Tool]

\* The tools that the messages ms call with arguments that can be read.
Called(ms) ==
  UNION {{call.tool : call \in {c \in ToSet(m.calls) : c.parsed = "yes"}} :
           m \in ToSet(ms)}

\* Those of the round os that have not started.
Pending(os) ==
  {os[i].call.tool : i \in {j \in DOMAIN os : /\ os[j].at = "scheduled"
                                              /\ os[j].call.parsed = "yes"}}

\* The round os when task i has gone to another state.
Moved(os, i, to) == [os EXCEPT ![i].at = to]

\* The texts of ms stand in the order of the rounds, none of a later one than n.
Ordered(ms, n) ==
  /\ \A i \in DOMAIN ms : Spoken(ms[i]) => ms[i].text \in 0..n
  /\ \A i, j \in DOMAIN ms :
       i < j /\ Spoken(ms[i]) /\ Spoken(ms[j]) => ms[i].text <= ms[j].text

\* No text of ms is newer than what is told.
Newest(ms, told) ==
  told \notin {NoText, Refusal} =>
    \A i \in DOMAIN ms : Spoken(ms[i]) => told # Sorry /\ ms[i].text <= told

Typed ==
  /\ ChatTypeOK
  /\ outcomes \in Seq(Task)
  /\ auditLog \in Seq(AuditRow)

\* Who has been called, who has started, and what is left of this round.
ToolsAreCounted ==
  /\ toolsUsed \subseteq Called(messages)
  /\ Called(messages) \subseteq toolsUsed \cup Pending(outcomes)
  /\ service # "calling" => Pending(outcomes) = {}
  /\ \A i \in DOMAIN outcomes :
       outcomes[i].call.parsed = "yes" => outcomes[i].call.tool \in Called(messages)

\* The service waits for the gateway, a reply for its making, and so on.
NothingTooEarly ==
  /\ gateway \in {"idle", "checking"} => service = "idle"
  /\ service \in {"idle", "received"} => messages = <<>> /\ outcomes = <<>>
  /\ service \notin {"auditing", "responding", "done"} => reply = NoText
  /\ service \notin {"responding", "done"} => auditLog = <<>>
  /\ service # "done" => answer = NoText
  /\ answer \in {NoText, reply}

LogIsTrue ==
  /\ Len(auditLog) <= 1
  /\ \A i \in DOMAIN auditLog : /\ auditLog[i].reply = reply
                                /\ auditLog[i].tools = toolsUsed

ChatInv ==
  /\ Typed
  /\ ToolsAreCounted
  /\ NothingTooEarly
  /\ LogIsTrue
  /\ Ordered(messages, iteration)
  /\ Newest(messages, reply)

-----------------------------------------------------------------------------

\* A set of naturals with a bound has a greatest element.
LEMMA Greatest ==
  ASSUME NEW S \in SUBSET Nat, NEW n \in Nat, \A i \in S : i <= n, S # {}
  PROVE  \E x \in S : \A y \in S : x >= y
<1> DEFINE T == {k \in Nat : \E i \in S : k = n - i}
<1>1. T \subseteq Nat
  OBVIOUS
<1>2. T # {}
  <2>1. PICK i \in S : TRUE
    OBVIOUS
  <2>2. n - i \in Nat
    OBVIOUS
  <2> QED BY <2>2
<1>3. IsWellFoundedOn(OpToRel(<, Nat), Nat)
  BY NatLessThanWellFounded
<1>4. \A k \in Nat, m \in Nat : k < m => <<k, m>> \in OpToRel(<, Nat)
  BY DEF OpToRel
<1>5. PICK m \in T : \A k \in T : ~ (<<k, m>> \in OpToRel(<, Nat))
  BY <1>1, <1>2, <1>3, WFMin
<1>6. PICK x \in S : m = n - x
  BY <1>5
<1>7. \A y \in S : n - y \in T
  OBVIOUS
<1> HIDE DEF T
<1>8. ASSUME NEW y \in S PROVE x >= y
  <2>1. n - y \in Nat /\ m \in Nat /\ ~ (<<n - y, m>> \in OpToRel(<, Nat))
    BY <1>1, <1>5, <1>7
  <2>2. ~ (n - y < m)
    BY <2>1, <1>4
  <2> QED BY <2>2, <1>6
<1> QED BY <1>8

\* What the search from the back finds.
LEMMA ReplyTextFinds ==
  ASSUME NEW ms \in Seq(Message)
  PROVE  \/ ReplyText(ms) = Sorry /\ \A i \in DOMAIN ms : ~ Spoken(ms[i])
         \/ \E i \in DOMAIN ms : /\ Spoken(ms[i]) /\ ReplyText(ms) = ms[i].text
                                 /\ \A j \in DOMAIN ms : Spoken(ms[j]) => j <= i
<1> DEFINE I == {i \in 1..Len(ms) : Spoken(ms[i])}
           last == SelectLastInSeq(ms, Spoken)
<1>1. DOMAIN ms = 1..Len(ms) /\ Len(ms) \in Nat
  OBVIOUS
<1>2. last = IF I # {} THEN CHOOSE x \in I : \A y \in I : x >= y ELSE 0
  BY DEF SelectLastInSeq, Max
<1>3. CASE I = {}
  BY <1>1, <1>2, <1>3 DEF ReplyText
<1>4. CASE I # {}
  <2>1. I \in SUBSET Nat /\ \A i \in I : i <= Len(ms)
    BY <1>1
  <2>a. \E x \in I : \A y \in I : x >= y
    BY <1>1, <1>4, <2>1, Greatest
  <2>2. last \in I /\ \A y \in I : last >= y
    BY <1>2, <1>4, <2>a
  <2>3. ReplyText(ms) = ms[last].text
    BY <1>1, <2>2 DEF ReplyText
  <2> QED BY <1>1, <2>2, <2>3
<1> QED BY <1>3, <1>4

-----------------------------------------------------------------------------

\* What it is to be called.
LEMMA CalledMeans ==
  ASSUME NEW ms \in Seq(Message)
  PROVE  \A t : t \in Called(ms) <=>
           \E i \in DOMAIN ms : \E k \in DOMAIN ms[i].calls :
             ms[i].calls[k].parsed = "yes" /\ ms[i].calls[k].tool = t
BY DEF Called, ToSet

\* What it is to be pending.
LEMMA PendingMeans ==
  ASSUME NEW os
  PROVE  \A t : t \in Pending(os) <=>
           \E i \in DOMAIN os : /\ os[i].at = "scheduled" /\ os[i].call.parsed = "yes"
                                /\ os[i].call.tool = t
BY DEF Pending

\* A message adds the tools it calls.
LEMMA CalledAfterAppend ==
  ASSUME NEW ms \in Seq(Message), NEW m \in Message
  PROVE  \A t : t \in Called(Append(ms, m)) <=>
           \/ t \in Called(ms)
           \/ \E k \in DOMAIN m.calls : m.calls[k].parsed = "yes" /\ m.calls[k].tool = t
<1> DEFINE ns == Append(ms, m)
<1>1. /\ ns \in Seq(Message) /\ DOMAIN ns = 1..(Len(ms) + 1) /\ DOMAIN ms = 1..Len(ms)
      /\ Len(ms) \in Nat
      /\ \A i \in 1..Len(ms) : ns[i] = ms[i]
      /\ ns[Len(ms) + 1] = m
  OBVIOUS
<1> HIDE DEF ns
<1>2. \A t : t \in Called(ns) <=>
        \E i \in DOMAIN ns : \E k \in DOMAIN ns[i].calls :
          ns[i].calls[k].parsed = "yes" /\ ns[i].calls[k].tool = t
  BY <1>1, CalledMeans
<1>3. \A t : t \in Called(ms) <=>
        \E i \in DOMAIN ms : \E k \in DOMAIN ms[i].calls :
          ms[i].calls[k].parsed = "yes" /\ ms[i].calls[k].tool = t
  BY CalledMeans
<1>4. \A i \in DOMAIN ns : i \in DOMAIN ms \/ i = Len(ms) + 1
  BY <1>1
<1>5. Len(ms) + 1 \in DOMAIN ns /\ \A i \in DOMAIN ms : i \in DOMAIN ns
  BY <1>1
<1>6. ASSUME NEW t, t \in Called(ns)
      PROVE  \/ t \in Called(ms)
             \/ \E k \in DOMAIN m.calls : m.calls[k].parsed = "yes" /\ m.calls[k].tool = t
  BY <1>6, <1>1, <1>2, <1>3, <1>4
<1>7. ASSUME NEW t, t \in Called(ms) PROVE t \in Called(ns)
  BY <1>7, <1>1, <1>2, <1>3, <1>5
<1>8. ASSUME NEW t, NEW k \in DOMAIN m.calls,
             m.calls[k].parsed = "yes", m.calls[k].tool = t
      PROVE  t \in Called(ns)
  BY <1>8, <1>1, <1>2, <1>5
<1> QED BY <1>6, <1>7, <1>8 DEF ns

\* Messages without calls add none.
LEMMA CalledAfterConcat ==
  ASSUME NEW ms \in Seq(Message), NEW tail \in Seq(Message),
         \A i \in DOMAIN tail : tail[i].calls = <<>>
  PROVE  Called(ms \o tail) = Called(ms)
<1> DEFINE ns == ms \o tail
<1>1. /\ ns \in Seq(Message) /\ Len(ms) \in Nat /\ Len(tail) \in Nat
      /\ DOMAIN ns = 1..(Len(ms) + Len(tail)) /\ DOMAIN ms = 1..Len(ms)
      /\ DOMAIN tail = 1..Len(tail)
      /\ \A i \in 1..(Len(ms) + Len(tail)) :
           ns[i] = IF i <= Len(ms) THEN ms[i] ELSE tail[i - Len(ms)]
  BY ConcatProperties
<1> HIDE DEF ns
<1>2. \A t : t \in Called(ns) <=>
        \E i \in DOMAIN ns : \E k \in DOMAIN ns[i].calls :
          ns[i].calls[k].parsed = "yes" /\ ns[i].calls[k].tool = t
  BY <1>1, CalledMeans
<1>3. \A t : t \in Called(ms) <=>
        \E i \in DOMAIN ms : \E k \in DOMAIN ms[i].calls :
          ms[i].calls[k].parsed = "yes" /\ ms[i].calls[k].tool = t
  BY CalledMeans
<1>4. \A i \in DOMAIN ms : i \in DOMAIN ns /\ ns[i] = ms[i]
  BY <1>1
<1>5. ASSUME NEW i \in DOMAIN ns, NEW k \in DOMAIN ns[i].calls
      PROVE  i \in DOMAIN ms
  <2>1. CASE i > Len(ms)
    <3>1. i - Len(ms) \in DOMAIN tail /\ ns[i] = tail[i - Len(ms)]
      BY <1>1, <2>1
    <3>2. ns[i].calls = <<>>
      BY <3>1
    <3> QED BY <1>5, <3>2
  <2>2. CASE i <= Len(ms)
    BY <1>1, <2>2
  <2> QED BY <1>1, <2>1, <2>2
<1>6. \A t : t \in Called(ns) <=> t \in Called(ms)
  BY <1>2, <1>3, <1>4, <1>5
<1> QED BY <1>6 DEF ns

\* What the model says in round n is the newest text.
LEMMA OrderedAfterAppend ==
  ASSUME NEW ms \in Seq(Message), NEW n \in Nat, NEW m \in Message,
         Ordered(ms, n), Spoken(m) => m.text = n
  PROVE  Ordered(Append(ms, m), n)
<1> DEFINE ns == Append(ms, m)
<1>1. /\ DOMAIN ns = 1..(Len(ms) + 1) /\ DOMAIN ms = 1..Len(ms) /\ Len(ms) \in Nat
      /\ \A i \in 1..Len(ms) : ns[i] = ms[i]
      /\ ns[Len(ms) + 1] = m
  OBVIOUS
<1> HIDE DEF ns
<1>2. \A i \in DOMAIN ns : Spoken(ns[i]) => ns[i].text \in 0..n
  BY <1>1 DEF Ordered
<1>3. ASSUME NEW i \in DOMAIN ns, NEW j \in DOMAIN ns,
             i < j, Spoken(ns[i]), Spoken(ns[j])
      PROVE  ns[i].text <= ns[j].text
  <2>1. i \in DOMAIN ms /\ ns[i] = ms[i]
    BY <1>1, <1>3
  <2>2. CASE j = Len(ms) + 1
    BY <1>1, <1>2, <1>3, <2>2
  <2>3. CASE j # Len(ms) + 1
    <3>1. j \in DOMAIN ms /\ ns[j] = ms[j]
      BY <1>1, <2>3
    <3> QED BY <1>3, <2>1, <3>1 DEF Ordered
  <2> QED BY <2>2, <2>3
<1> QED BY <1>2, <1>3 DEF Ordered, ns

\* Texts of later rounds are appended in order.
LEMMA OrderedAfterConcat ==
  ASSUME NEW ms \in Seq(Message), NEW n \in Nat, NEW tail \in Seq(Message),
         Ordered(ms, n), \A i \in DOMAIN tail : ~ Spoken(tail[i])
  PROVE  Ordered(ms \o tail, n)
<1> DEFINE ns == ms \o tail
<1>1. /\ Len(ms) \in Nat /\ Len(tail) \in Nat
      /\ DOMAIN ns = 1..(Len(ms) + Len(tail)) /\ DOMAIN ms = 1..Len(ms)
      /\ DOMAIN tail = 1..Len(tail)
      /\ \A i \in 1..(Len(ms) + Len(tail)) :
           ns[i] = IF i <= Len(ms) THEN ms[i] ELSE tail[i - Len(ms)]
  BY ConcatProperties
<1> HIDE DEF ns
<1>2. ASSUME NEW i \in DOMAIN ns, Spoken(ns[i])
      PROVE  i \in DOMAIN ms /\ ns[i] = ms[i]
  <2>1. CASE i > Len(ms)
    <3>1. i - Len(ms) \in DOMAIN tail /\ ns[i] = tail[i - Len(ms)]
      BY <1>1, <2>1
    <3> QED BY <1>2, <3>1
  <2>2. CASE i <= Len(ms)
    BY <1>1, <2>2
  <2> QED BY <1>1, <2>1, <2>2
<1> QED BY <1>2 DEF Ordered, ns

\* The next round may say more.
LEMMA OrderedLater ==
  ASSUME NEW ms, NEW n \in Nat, NEW k \in Nat, Ordered(ms, n), n <= k
  PROVE  Ordered(ms, k)
BY DEF Ordered

-----------------------------------------------------------------------------

\* The invariant holds when nothing was asked.
LEMMA ChatInitInv == ChatInit => ChatInv
<1> SUFFICES ASSUME ChatInit PROVE ChatInv
  OBVIOUS
<1>1. Typed
  BY ChatAssumption DEF ChatInit, Typed, ChatTypeOK, GatewayAt, ServiceAt, Reply, Text
<1>2. ToolsAreCounted
  BY DEF ChatInit, ToolsAreCounted, Called, Pending, ToSet
<1>3. NothingTooEarly /\ LogIsTrue
  BY DEF ChatInit, NothingTooEarly, LogIsTrue
<1>4. Ordered(messages, iteration) /\ Newest(messages, reply)
  BY DEF ChatInit, Ordered, Newest
<1> QED BY <1>1, <1>2, <1>3, <1>4 DEF ChatInv

\* The steps of the gateway alone, and the refusals of the service.
LEMMA GatewaySteps ==
  ASSUME ChatInv,
         Ask \/ RefusePayment \/ Forward \/ GiveUp \/ RefuseRequest \/ ModelFails
  PROVE  ChatInv'
<1>1. /\ gateway \in GatewayAt /\ service \in ServiceAt
      /\ gateway \in {"idle", "checking"} => service = "idle"
  BY DEF ChatInv, Typed, ChatTypeOK, NothingTooEarly
<1>2. /\ UNCHANGED <<history, answer, iteration, messages, outcomes, toolsUsed,
                     reply, auditLog>>
      /\ gateway' \in GatewayAt /\ service' \in ServiceAt
      /\ gateway' \in {"idle", "checking"} => service' = "idle"
      /\ \/ service' = service
         \/ service = "idle" /\ service' = "received"
         \/ service \in {"received", "asking"} /\ service' = "failed"
  <2>1. CASE Ask
    BY <1>1, <2>1 DEF Ask, serviceVars, GatewayAt
  <2>2. CASE RefusePayment
    BY <1>1, <2>2 DEF RefusePayment, serviceVars, GatewayAt
  <2>3. CASE Forward
    BY <1>1, <2>3 DEF Forward, GatewayAt, ServiceAt
  <2>4. CASE GiveUp
    BY <1>1, <2>4 DEF GiveUp, serviceVars, GatewayAt
  <2>5. CASE RefuseRequest
    BY <1>1, <2>5 DEF RefuseRequest, ServiceAt
  <2>6. CASE ModelFails
    BY <1>1, <2>6 DEF ModelFails, ServiceAt
  <2> QED BY <2>1, <2>2, <2>3, <2>4, <2>5, <2>6
<1>3. Typed'
  BY <1>2 DEF ChatInv, Typed, ChatTypeOK
<1>4. ToolsAreCounted'
  BY <1>2 DEF ChatInv, ToolsAreCounted
<1>5. NothingTooEarly' /\ LogIsTrue'
  BY <1>2 DEF ChatInv, NothingTooEarly, LogIsTrue
<1>6. Ordered(messages', iteration') /\ Newest(messages', reply')
  BY <1>2 DEF ChatInv
<1> QED BY <1>3, <1>4, <1>5, <1>6 DEF ChatInv, Ordered, Newest, Spoken

-----------------------------------------------------------------------------

\* The loop begins with the history and the question.
LEMMA ReceiveKeeps == ASSUME ChatInv, Receive PROVE ChatInv'
<1> DEFINE old == [i \in DOMAIN history |->
                     [role |-> history[i], text |-> 0, calls |-> <<>>, of |-> NoCall]]
           question == [role |-> "user", text |-> 0, calls |-> <<>>, of |-> NoCall]
<1>1. /\ service = "received" /\ service' = "asking" /\ iteration' = 1
      /\ \A i \in DOMAIN history : history[i] # "model"
      /\ messages' = Append(old, question)
      /\ UNCHANGED <<gateway, history, answer, outcomes, toolsUsed, reply, auditLog>>
  BY DEF Receive
<1>2. history \in Seq({"user", "assistant", "model"}) /\ MaxToolIterations \in Nat \ {0}
  BY ChatAssumption DEF ChatInv, Typed, ChatTypeOK
<1>3. /\ 0 \in Text /\ NoCall \in (0..MaxToolIterations) \X Nat
      /\ 1 \in 0..MaxToolIterations /\ "asking" \in ServiceAt
  BY <1>2 DEF Text, NoCall, ServiceAt
<1>4. question \in Message
  BY <1>3 DEF Message
<1>5. \A i \in DOMAIN history : old[i] \in Message /\ old[i].text = 0 /\ old[i].calls = <<>>
  <2>1. \A r \in {"user", "assistant"} :
          [role |-> r, text |-> 0, calls |-> <<>>, of |-> NoCall] \in Message
    BY <1>3 DEF Message
  <2>2. \A i \in DOMAIN history : history[i] \in {"user", "assistant"}
    BY <1>1, <1>2
  <2> QED BY <2>1, <2>2
<1>6. old \in Seq(Message) /\ DOMAIN old = DOMAIN history
  BY <1>2, <1>5
<1>7. Called(old) = {} /\ Ordered(old, 1)
  <2>1. \A t : t \notin Called(old)
    <3>1. \A t : t \in Called(old) <=>
            \E i \in DOMAIN old : \E k \in DOMAIN old[i].calls :
              old[i].calls[k].parsed = "yes" /\ old[i].calls[k].tool = t
      BY <1>6, CalledMeans
    <3>2. \A i \in DOMAIN old : DOMAIN old[i].calls = {}
      BY <1>5, <1>6
    <3> QED BY <3>1, <3>2
  <2>2. Ordered(old, 1)
    BY <1>5, <1>6 DEF Ordered
  <2> QED BY <2>1, <2>2
<1>q. question.calls = <<>> /\ question.role = "user"
  OBVIOUS
<1> HIDE DEF old, question
<1>8. Called(messages') = {}
  <2>1. \A t : t \notin Called(messages')
    BY <1>1, <1>4, <1>6, <1>7, <1>q, CalledAfterAppend
  <2> QED BY <2>1
<1>9. Ordered(messages', iteration')
  BY <1>1, <1>4, <1>6, <1>7, <1>q, OrderedAfterAppend DEF Spoken
<1>10. messages' \in Seq(Message)
  BY <1>1, <1>4, <1>6
<1>11. Typed'
  BY <1>1, <1>3, <1>10 DEF ChatInv, Typed, ChatTypeOK
<1>12. toolsUsed = {} /\ outcomes = <<>>
  <2>1. messages = <<>> /\ outcomes = <<>> /\ toolsUsed \subseteq Called(messages)
    BY <1>1 DEF ChatInv, NothingTooEarly, ToolsAreCounted
  <2>2. Called(<<>>) = {}
    BY DEF Called, ToSet
  <2> QED BY <2>1, <2>2
<1>13. ToolsAreCounted'
  <2>1. Pending(outcomes') = {}
    BY <1>1, <1>12 DEF Pending
  <2> QED BY <1>1, <1>8, <1>12, <2>1 DEF ToolsAreCounted
<1>14. NothingTooEarly' /\ LogIsTrue' /\ Newest(messages', reply')
  BY <1>1 DEF ChatInv, NothingTooEarly, LogIsTrue, Newest
<1> QED BY <1>9, <1>11, <1>13, <1>14 DEF ChatInv, Ordered, Newest, Spoken

\* What the model says is the newest text; what it calls is pending.
LEMMA ModelKeeps ==
  ASSUME ChatInv, NEW said \in BOOLEAN, NEW calls \in CallLists, ModelAnswers(said, calls)
  PROVE  ChatInv'
<1> DEFINE m == [role |-> "assistant", text |-> IF said THEN iteration ELSE NoText,
                 calls |-> calls, of |-> NoCall]
           os == [i \in DOMAIN calls |-> [call |-> calls[i], at |-> "scheduled"]]
<1>1. /\ service = "asking" /\ messages' = Append(messages, m)
      /\ service' = IF calls = <<>> THEN "replying" ELSE "calling"
      /\ outcomes' = os
      /\ UNCHANGED <<gateway, history, answer, iteration, toolsUsed, reply, auditLog>>
  BY DEF ModelAnswers
<1>2. /\ messages \in Seq(Message) /\ iteration \in 0..MaxToolIterations
      /\ MaxToolIterations \in Nat \ {0} /\ calls \in Seq(ToolCall)
      /\ Ordered(messages, iteration)
      /\ toolsUsed = Called(messages)
      /\ reply = NoText
  BY <1>1, ChatAssumption DEF ChatInv, Typed, ChatTypeOK, ToolCall, ToolsAreCounted,
                              NothingTooEarly
<1>3. /\ m \in Message /\ m.calls = calls
      /\ Spoken(m) => m.text = iteration
  <2>1. (IF said THEN iteration ELSE NoText) \in Text
    BY <1>2 DEF Text
  <2>2. NoCall \in (0..MaxToolIterations) \X Nat
    BY <1>2 DEF NoCall
  <2>3. m \in Message
    BY <2>1, <2>2 DEF Message
  <2>4. Spoken(m) => m.text = iteration
    BY DEF Spoken
  <2> QED BY <2>3, <2>4
<1>4. /\ os \in Seq(Task) /\ DOMAIN os = DOMAIN calls
      /\ \A i \in DOMAIN calls : os[i].call = calls[i] /\ os[i].at = "scheduled"
  <2>1. \A c \in ToolCall : [call |-> c, at |-> "scheduled"] \in Task
    BY DEF Task, Outcome
  <2> QED BY <1>2, <2>1
<1> HIDE DEF m, os
<1>5. Ordered(messages', iteration')
  BY <1>1, <1>2, <1>3, OrderedAfterAppend
<1>6. \A t : t \in Called(messages') <=>
        t \in Called(messages)
          \/ \E k \in DOMAIN calls : calls[k].parsed = "yes" /\ calls[k].tool = t
  BY <1>1, <1>2, <1>3, CalledAfterAppend
<1>7. \A t : t \in Pending(outcomes') <=>
        \E k \in DOMAIN calls : calls[k].parsed = "yes" /\ calls[k].tool = t
  BY <1>1, <1>4, PendingMeans
<1>8. ToolsAreCounted'
  <2>1. toolsUsed' \subseteq Called(messages')
    BY <1>1, <1>2, <1>6
  <2>2. Called(messages') \subseteq toolsUsed' \cup Pending(outcomes')
    BY <1>1, <1>2, <1>6, <1>7
  <2>3. service' # "calling" => Pending(outcomes') = {}
    <3>1. service' # "calling" => DOMAIN calls = {}
      BY <1>1
    <3> QED BY <3>1, <1>7
  <2>4. \A i \in DOMAIN outcomes' :
          outcomes'[i].call.parsed = "yes" => outcomes'[i].call.tool \in Called(messages')
    BY <1>1, <1>4, <1>6
  <2> QED BY <2>1, <2>2, <2>3, <2>4 DEF ToolsAreCounted
<1>9. Typed'
  <2>1. messages' \in Seq(Message)
    BY <1>1, <1>2, <1>3
  <2>2. outcomes' \in Seq(Task) /\ \A i \in DOMAIN outcomes' : outcomes'[i].at \in Outcome
    <3>1. "scheduled" \in Outcome
      BY DEF Outcome
    <3>2. \A i \in DOMAIN os : os[i].at \in Outcome
      BY <1>4, <3>1
    <3> QED BY <1>1, <1>4, <3>2
  <2>3. service' \in ServiceAt
    BY <1>1 DEF ServiceAt
  <2> QED BY <1>1, <2>1, <2>2, <2>3 DEF ChatInv, Typed, ChatTypeOK
<1>10. NothingTooEarly' /\ LogIsTrue' /\ Newest(messages', reply')
  <2>1. service' \in {"replying", "calling"}
    BY <1>1
  <2> QED BY <1>1, <1>2, <2>1 DEF ChatInv, NothingTooEarly, LogIsTrue, Newest
<1> QED BY <1>5, <1>8, <1>9, <1>10 DEF ChatInv, Ordered, Newest, Spoken

-----------------------------------------------------------------------------

\* One task goes to another state, the others stay.
LEMMA TaskSet ==
  ASSUME NEW os \in Seq(Task), NEW i \in DOMAIN os, NEW to \in Outcome
  PROVE  /\ Moved(os, i, to) \in Seq(Task) /\ DOMAIN Moved(os, i, to) = DOMAIN os
         /\ Moved(os, i, to)[i].call = os[i].call /\ Moved(os, i, to)[i].at = to
         /\ \A j \in DOMAIN os : j # i => Moved(os, i, to)[j] = os[j]
<1> DEFINE task == [os[i] EXCEPT !.at = to]
           ns == [os EXCEPT ![i].at = to]
<1>1. os \in [1..Len(os) -> Task] /\ Len(os) \in Nat /\ DOMAIN os = 1..Len(os)
  OBVIOUS
<1>2. os[i] \in Task
  BY <1>1
<1>3. task \in Task /\ task.call = os[i].call /\ task.at = to
  <2>1. \A o \in Task : [o EXCEPT !.at = to] \in Task
    BY DEF Task
  <2>2. \A o \in Task : [o EXCEPT !.at = to].call = o.call
    BY DEF Task
  <2>3. \A o \in Task : [o EXCEPT !.at = to].at = to
    BY DEF Task
  <2> QED BY <1>2, <2>1, <2>2, <2>3
<1>4. /\ DOMAIN ns = DOMAIN os /\ ns[i] = task
      /\ \A j \in DOMAIN os : j # i => ns[j] = os[j]
  OBVIOUS
<1> HIDE DEF task
<1>5. ns \in Seq(Task)
  <2> HIDE DEF ns
  <2>1. ns = [j \in 1..Len(os) |-> ns[j]]
    BY <1>1 DEF ns
  <2>2. \A j \in 1..Len(os) : ns[j] \in Task
    BY <1>1, <1>3, <1>4
  <2>3. ns \in [1..Len(os) -> Task]
    BY <2>1, <2>2
  <2> QED BY <1>1, <2>3
<1>6. ns = Moved(os, i, to)
  BY DEF Moved
<1> HIDE DEF ns
<1> QED BY <1>3, <1>4, <1>5, <1>6

\* What is pending then.
LEMMA TaskChanges ==
  ASSUME NEW os \in Seq(Task), NEW i \in DOMAIN os, NEW ns \in Seq(Task),
         DOMAIN ns = DOMAIN os, ns[i].at # "scheduled",
         \A j \in DOMAIN os : j # i => ns[j] = os[j],
         NEW t \in Pending(os)
  PROVE  \/ t \in Pending(ns)
         \/ os[i].at = "scheduled" /\ os[i].call.parsed = "yes" /\ os[i].call.tool = t
<1>1. PICK j \in DOMAIN os : /\ os[j].at = "scheduled" /\ os[j].call.parsed = "yes"
                             /\ os[j].call.tool = t
  BY PendingMeans
<1>2. CASE j = i
  BY <1>1, <1>2
<1>3. CASE j # i
  <2>1. /\ j \in DOMAIN ns
        /\ ns[j].at = "scheduled" /\ ns[j].call.parsed = "yes" /\ ns[j].call.tool = t
    BY <1>1, <1>3
  <2>2. t \in Pending(ns)
    BY <2>1, PendingMeans
  <2> QED BY <2>2
<1> QED BY <1>2, <1>3

\* A tool is counted as it starts; a call that cannot be read never starts.
LEMMA TaskKeeps ==
  ASSUME ChatInv, NEW i \in DOMAIN outcomes,
         StartTool(i) \/ BreakTool(i) \/ ToolReturns(i) \/ ToolTimesOut(i)
  PROVE  ChatInv'
<1>1. \E to \in Outcome :
        /\ to # "scheduled" /\ service = "calling"
        /\ outcomes' = [outcomes EXCEPT ![i].at = to]
        /\ UNCHANGED <<gateway, service, history, answer, iteration, messages, reply,
                       auditLog>>
  <2>1. \A to \in {"running", "broken", "result", "error"} :
          to \in Outcome /\ to # "scheduled"
    BY DEF Outcome
  <2> QED BY <2>1 DEF StartTool, BreakTool, ToolReturns, ToolTimesOut, Becomes
<1>2. PICK to \in Outcome :
        /\ to # "scheduled" /\ service = "calling"
        /\ outcomes' = [outcomes EXCEPT ![i].at = to]
        /\ UNCHANGED <<gateway, service, history, answer, iteration, messages, reply,
                       auditLog>>
  BY <1>1
<1>3. /\ outcomes \in Seq(Task) /\ toolsUsed \subseteq Tool
      /\ toolsUsed \subseteq Called(messages)
      /\ Called(messages) \subseteq toolsUsed \cup Pending(outcomes)
      /\ \A j \in DOMAIN outcomes :
           outcomes[j].call.parsed = "yes" => outcomes[j].call.tool \in Called(messages)
      /\ auditLog = <<>> /\ service = "calling"
  BY <1>2 DEF ChatInv, Typed, ChatTypeOK, ToolsAreCounted, NothingTooEarly
<1>4. /\ outcomes' \in Seq(Task) /\ DOMAIN outcomes' = DOMAIN outcomes
      /\ \A j \in DOMAIN outcomes' : /\ outcomes'[j].call = outcomes[j].call
                                     /\ outcomes'[j].at \in Outcome
      /\ \A t \in Pending(outcomes) :
           \/ t \in Pending(outcomes')
           \/ /\ outcomes[i].at = "scheduled" /\ outcomes[i].call.parsed = "yes"
              /\ outcomes[i].call.tool = t
  <2>a. outcomes' = Moved(outcomes, i, to)
    BY <1>2 DEF Moved
  <2>b. PICK ns : ns = outcomes'
    OBVIOUS
  <2>1. /\ ns \in Seq(Task) /\ DOMAIN ns = DOMAIN outcomes
        /\ ns[i].call = outcomes[i].call /\ ns[i].at = to
        /\ \A j \in DOMAIN outcomes : j # i => ns[j] = outcomes[j]
    BY <1>3, <2>a, <2>b, TaskSet
  <2>2. ns = outcomes'
    BY <2>b
  <2>3. /\ DOMAIN ns = DOMAIN outcomes /\ ns[i].at # "scheduled"
        /\ \A j \in DOMAIN outcomes : j # i => ns[j] = outcomes[j]
    BY <1>2, <2>1
  <2>4. \A t \in Pending(outcomes) :
          \/ t \in Pending(ns)
          \/ /\ outcomes[i].at = "scheduled" /\ outcomes[i].call.parsed = "yes"
             /\ outcomes[i].call.tool = t
    BY <1>3, <2>1, <2>3, TaskChanges
  <2>5. \A j \in DOMAIN ns : ns[j].call = outcomes[j].call /\ ns[j].at \in Outcome
    <3>1. \A o \in Task : o.at \in Outcome
      BY DEF Task
    <3>2. \A j \in DOMAIN outcomes : outcomes[j] \in Task
      BY <1>3
    <3>3. \A j \in DOMAIN outcomes : outcomes[j].at \in Outcome
      BY <3>1, <3>2
    <3> QED BY <2>1, <3>3
  <2>6. ns \in Seq(Task)
    BY <2>1
  <2> QED BY <2>2, <2>3, <2>4, <2>5, <2>6
<1>5. \/ /\ outcomes[i].call.parsed = "yes"
         /\ toolsUsed' = toolsUsed \cup {outcomes[i].call.tool}
      \/ /\ toolsUsed' = toolsUsed
         /\ ~ (outcomes[i].at = "scheduled" /\ outcomes[i].call.parsed = "yes")
  BY DEF StartTool, BreakTool, ToolReturns, ToolTimesOut, Becomes
<1>6. outcomes[i].call.tool \in Tool
  <2>1. outcomes[i] \in Task
    BY <1>3
  <2> QED BY <2>1 DEF Task, ToolCall
<1>7. ToolsAreCounted'
  <2>1. toolsUsed' \subseteq Called(messages')
    BY <1>2, <1>3, <1>5
  <2>2. Called(messages') \subseteq toolsUsed' \cup Pending(outcomes')
    BY <1>2, <1>3, <1>4, <1>5
  <2>3. \A j \in DOMAIN outcomes' :
          outcomes'[j].call.parsed = "yes" => outcomes'[j].call.tool \in Called(messages')
    BY <1>2, <1>3, <1>4
  <2>4. service' = "calling"
    BY <1>2
  <2> QED BY <2>1, <2>2, <2>3, <2>4 DEF ToolsAreCounted
<1>8. Typed'
  <2>1. toolsUsed' \subseteq Tool
    BY <1>3, <1>5, <1>6
  <2> QED BY <1>2, <1>4, <2>1 DEF ChatInv, Typed, ChatTypeOK
<1>9. NothingTooEarly' /\ LogIsTrue' /\ Newest(messages', reply')
  BY <1>2, <1>3 DEF ChatInv, NothingTooEarly, LogIsTrue, Newest
<1>10. Ordered(messages', iteration')
  BY <1>2 DEF ChatInv
<1> QED BY <1>7, <1>8, <1>9, <1>10 DEF ChatInv, Ordered, Newest, Spoken

\* When all tasks are done every tool that was called has been started; the
\* results say nothing and call nothing.
LEMMA GatherKeeps == ASSUME ChatInv, Gather PROVE ChatInv'
<1> DEFINE tail == [i \in DOMAIN outcomes |-> ToolMessage(i)]
<1>1. /\ service = "calling"
      /\ \A i \in DOMAIN outcomes : outcomes[i].at \in {"result", "error", "broken"}
      /\ messages' = messages \o tail
      /\ outcomes' = <<>>
      /\ UNCHANGED <<gateway, history, answer, toolsUsed, reply, auditLog>>
      /\ service' \in {"asking", "replying"}
      /\ \/ iteration < MaxToolIterations /\ iteration' = iteration + 1
         \/ iteration' = iteration
  BY DEF Gather
<1>2. /\ messages \in Seq(Message) /\ outcomes \in Seq(Task)
      /\ iteration \in 0..MaxToolIterations /\ MaxToolIterations \in Nat \ {0}
      /\ Ordered(messages, iteration) /\ reply = NoText /\ auditLog = <<>>
      /\ toolsUsed \subseteq Called(messages)
      /\ Called(messages) \subseteq toolsUsed \cup Pending(outcomes)
  BY <1>1, ChatAssumption DEF ChatInv, Typed, ChatTypeOK, ToolsAreCounted, NothingTooEarly
<1>3. \A i \in DOMAIN outcomes : /\ tail[i] \in Message /\ tail[i].calls = <<>>
                                 /\ ~ Spoken(tail[i])
  <2> SUFFICES ASSUME NEW i \in DOMAIN outcomes
               PROVE  /\ ToolMessage(i) \in Message /\ ToolMessage(i).calls = <<>>
                      /\ ~ Spoken(ToolMessage(i))
    OBVIOUS
  <2>1. i \in Nat
    BY <1>2
  <2>2. (IF outcomes[i].at = "broken" THEN NoCall ELSE <<iteration, i>>)
          \in (0..MaxToolIterations) \X Nat
    BY <1>2, <2>1 DEF NoCall
  <2>3. NoText \in Text
    BY DEF Text
  <2>4. ToolMessage(i) \in Message
    BY <2>2, <2>3 DEF ToolMessage, Message
  <2>5. ToolMessage(i).calls = <<>> /\ ToolMessage(i).role = "tool"
    BY DEF ToolMessage
  <2> QED BY <2>4, <2>5 DEF Spoken
<1>4. /\ tail \in Seq(Message) /\ DOMAIN tail = DOMAIN outcomes
  <2>1. DOMAIN outcomes = 1..Len(outcomes) /\ Len(outcomes) \in Nat
    BY <1>2
  <2> HIDE DEF ToolMessage
  <2>2. DOMAIN tail = DOMAIN outcomes
    OBVIOUS
  <2> HIDE DEF tail
  <2>3. tail \in [1..Len(outcomes) -> Message]
    <3>1. tail = [i \in 1..Len(outcomes) |-> tail[i]]
      BY <2>1 DEF tail
    <3> QED BY <1>3, <2>1, <3>1
  <2> QED BY <2>1, <2>2, <2>3
<1> HIDE DEF tail
<1>5. /\ \A i \in DOMAIN tail : tail[i].calls = <<>>
      /\ \A i \in DOMAIN tail : ~ Spoken(tail[i])
  BY <1>3, <1>4
<1>6. Called(messages') = Called(messages)
  BY <1>1, <1>2, <1>4, <1>5, CalledAfterConcat
<1>7. iteration' \in 0..MaxToolIterations /\ iteration <= iteration'
      /\ iteration \in Nat /\ iteration' \in Nat
  BY <1>1, <1>2
<1>8. Ordered(messages', iteration')
  <2>1. Ordered(messages \o tail, iteration)
    BY <1>2, <1>4, <1>5, <1>7, OrderedAfterConcat
  <2>2. Ordered(messages', iteration)
    BY <1>1, <2>1
  <2> QED BY <1>7, <2>2, OrderedLater
<1>9. ToolsAreCounted'
  <2>1. \A t : t \notin Pending(outcomes)
    <3>1. \A t : t \in Pending(outcomes) <=>
            \E i \in DOMAIN outcomes :
              /\ outcomes[i].at = "scheduled" /\ outcomes[i].call.parsed = "yes"
              /\ outcomes[i].call.tool = t
      BY PendingMeans
    <3> QED BY <1>1, <3>1
  <2>2. Pending(outcomes') = {}
    BY <1>1 DEF Pending
  <2> QED BY <1>1, <1>2, <1>6, <2>1, <2>2 DEF ToolsAreCounted
<1>10. Typed'
  <2>1. messages' \in Seq(Message)
    BY <1>1, <1>2, <1>4
  <2>2. service' \in ServiceAt
    BY <1>1 DEF ServiceAt
  <2> QED BY <1>1, <1>7, <2>1, <2>2 DEF ChatInv, Typed, ChatTypeOK
<1>11. NothingTooEarly' /\ LogIsTrue' /\ Newest(messages', reply')
  BY <1>1, <1>2 DEF ChatInv, NothingTooEarly, LogIsTrue, Newest
<1> QED BY <1>8, <1>9, <1>10, <1>11 DEF ChatInv, Ordered, Newest, Spoken


-----------------------------------------------------------------------------

\* What is answered is the newest text, the apology or the refusal.
LEMMA MakeReplyKeeps ==
  ASSUME ChatInv, NEW validated \in Reply, MakeReply(validated)
  PROVE  ChatInv'
<1>1. /\ service = "replying" /\ service' = "auditing" /\ reply' = validated
      /\ validated \in {ReplyText(messages), Refusal}
      /\ UNCHANGED <<gateway, history, answer, iteration, messages, outcomes,
                     toolsUsed, auditLog>>
  BY DEF MakeReply
<1>2. /\ messages \in Seq(Message) /\ iteration \in 0..MaxToolIterations
      /\ Ordered(messages, iteration) /\ auditLog = <<>> /\ answer = NoText
      /\ Sorry \notin 0..MaxToolIterations /\ MaxToolIterations \in Nat \ {0}
  BY <1>1, ChatAssumption DEF ChatInv, Typed, ChatTypeOK, NothingTooEarly
<1>3. Newest(messages, validated)
  <2>1. CASE validated = Refusal
    BY <2>1 DEF Newest
  <2>2. CASE validated = ReplyText(messages)
    <3>1. CASE /\ ReplyText(messages) = Sorry
               /\ \A i \in DOMAIN messages : ~ Spoken(messages[i])
      BY <3>1 DEF Newest
    <3>2. CASE \E i \in DOMAIN messages :
                 /\ Spoken(messages[i]) /\ ReplyText(messages) = messages[i].text
                 /\ \A j \in DOMAIN messages : Spoken(messages[j]) => j <= i
      <4>1. PICK i \in DOMAIN messages :
              /\ Spoken(messages[i]) /\ ReplyText(messages) = messages[i].text
              /\ \A j \in DOMAIN messages : Spoken(messages[j]) => j <= i
        BY <3>2
      <4>2. /\ messages[i].text \in 0..iteration /\ messages[i].text # Sorry
            /\ messages[i].text \in Nat
        BY <1>2, <4>1 DEF Ordered
      <4>3. ASSUME NEW j \in DOMAIN messages, Spoken(messages[j])
            PROVE  messages[j].text <= messages[i].text
        <5>1. j <= i /\ i \in Nat /\ j \in Nat
          BY <1>2, <4>1, <4>3
        <5>2. CASE j = i
          BY <4>2, <5>2
        <5>3. CASE j < i
          BY <1>2, <4>1, <4>3, <5>3 DEF Ordered
        <5> QED BY <5>1, <5>2, <5>3
      <4> QED BY <2>2, <4>1, <4>2, <4>3 DEF Newest
    <3> QED BY <1>2, <3>1, <3>2, ReplyTextFinds
  <2> QED BY <1>1, <2>1, <2>2
<1>4. Newest(messages', reply') /\ Ordered(messages', iteration')
  BY <1>1, <1>2, <1>3
<1>5. ToolsAreCounted'
  BY <1>1 DEF ChatInv, ToolsAreCounted
<1>6. Typed'
  <2>1. service' \in ServiceAt /\ reply' \in Reply
    BY <1>1 DEF ServiceAt
  <2> QED BY <1>1, <2>1 DEF ChatInv, Typed, ChatTypeOK
<1>7. NothingTooEarly' /\ LogIsTrue'
  BY <1>1, <1>2 DEF ChatInv, NothingTooEarly, LogIsTrue
<1> QED BY <1>4, <1>5, <1>6, <1>7 DEF ChatInv, Ordered, Newest, Spoken

\* The one row says what is about to be answered, or there is none.
LEMMA AuditKeeps == ASSUME ChatInv, Audit \/ AuditFails PROVE ChatInv'
<1> DEFINE row == [reply |-> reply, tools |-> toolsUsed]
<1>1. /\ service = "auditing" /\ service' = "responding"
      /\ UNCHANGED <<gateway, history, answer, iteration, messages, outcomes,
                     toolsUsed, reply>>
      /\ auditLog' = Append(auditLog, row) \/ auditLog' = auditLog
  BY DEF Audit, AuditFails
<1>2. /\ auditLog = <<>> /\ answer = NoText
      /\ reply \in Reply /\ toolsUsed \subseteq Tool
  BY <1>1 DEF ChatInv, Typed, ChatTypeOK, NothingTooEarly
<1>3. row \in AuditRow /\ row.reply = reply /\ row.tools = toolsUsed
  BY <1>2 DEF AuditRow
<1> HIDE DEF row
<1>4. auditLog' \in Seq(AuditRow) /\ LogIsTrue'
  <2>1. CASE auditLog' = <<>>
    BY <2>1 DEF LogIsTrue
  <2>2. CASE auditLog' = Append(<<>>, row)
    <3>1. auditLog' = <<row>>
      BY <2>2
    <3>2. auditLog' \in Seq(AuditRow) /\ Len(auditLog') = 1
      BY <1>3, <3>1
    <3>3. \A i \in DOMAIN auditLog' : auditLog'[i] = row
      BY <3>1
    <3> QED BY <1>1, <1>3, <3>2, <3>3 DEF LogIsTrue
  <2> QED BY <1>1, <1>2, <2>1, <2>2
<1>5. Typed'
  <2>1. service' \in ServiceAt
    BY <1>1 DEF ServiceAt
  <2> QED BY <1>1, <1>4, <2>1 DEF ChatInv, Typed, ChatTypeOK
<1>6. ToolsAreCounted'
  BY <1>1 DEF ChatInv, ToolsAreCounted
<1>7. NothingTooEarly'
  BY <1>1, <1>2 DEF ChatInv, NothingTooEarly
<1>8. Ordered(messages', iteration') /\ Newest(messages', reply')
  BY <1>1 DEF ChatInv
<1> QED BY <1>4, <1>5, <1>6, <1>7, <1>8 DEF ChatInv, Ordered, Newest, Spoken

\* The client is told the reply, or nothing.
LEMMA RespondKeeps == ASSUME ChatInv, Respond PROVE ChatInv'
<1>1. /\ service \in {"responding", "failed"} /\ service' = "done"
      /\ UNCHANGED <<history, iteration, messages, outcomes, toolsUsed, reply, auditLog>>
      /\ \/ gateway' = gateway /\ answer' = answer
         \/ gateway' = "failed" /\ answer' = answer
         \/ gateway' = "answered" /\ answer' = reply
  BY DEF Respond
<1>2. gateway \in GatewayAt /\ reply \in Reply /\ answer \in Reply
      /\ (gateway \in {"idle", "checking"} => service = "idle")
      /\ answer \in {NoText, reply}
  BY DEF ChatInv, Typed, ChatTypeOK, NothingTooEarly
<1>3. Typed'
  <2>1. service' \in ServiceAt /\ gateway' \in GatewayAt /\ {reply', answer'} \subseteq Reply
    BY <1>1, <1>2 DEF ServiceAt, GatewayAt
  <2> QED BY <1>1, <2>1 DEF ChatInv, Typed, ChatTypeOK
<1>4. ToolsAreCounted'
  BY <1>1 DEF ChatInv, ToolsAreCounted
<1>5. NothingTooEarly' /\ LogIsTrue'
  BY <1>1, <1>2 DEF ChatInv, NothingTooEarly, LogIsTrue
<1>6. Ordered(messages', iteration') /\ Newest(messages', reply')
  BY <1>1 DEF ChatInv
<1> QED BY <1>3, <1>4, <1>5, <1>6 DEF ChatInv, Ordered, Newest, Spoken

-----------------------------------------------------------------------------

\* Every step keeps it.
LEMMA ChatNextKeeps == ChatInv /\ [ChatNext]_chatVars => ChatInv'
<1> SUFFICES ASSUME ChatInv, [ChatNext]_chatVars PROVE ChatInv'
  OBVIOUS
<1>1. CASE Ask \/ RefusePayment \/ Forward \/ GiveUp \/ RefuseRequest \/ ModelFails
  BY <1>1, GatewaySteps
<1>2. CASE Receive
  BY <1>2, ReceiveKeeps
<1>3. CASE \E said \in BOOLEAN, calls \in CallLists : ModelAnswers(said, calls)
  BY <1>3, ModelKeeps
<1>4. CASE \E i \in DOMAIN outcomes :
             StartTool(i) \/ BreakTool(i) \/ ToolReturns(i) \/ ToolTimesOut(i)
  BY <1>4, TaskKeeps
<1>5. CASE Gather
  BY <1>5, GatherKeeps
<1>6. CASE \E validated \in Reply : MakeReply(validated)
  BY <1>6, MakeReplyKeeps
<1>7. CASE Audit \/ AuditFails
  BY <1>7, AuditKeeps
<1>8. CASE Respond
  BY <1>8, RespondKeeps
<1>9. CASE UNCHANGED chatVars
  BY <1>9 DEF ChatInv, Typed, ChatTypeOK, ToolsAreCounted, NothingTooEarly, LogIsTrue,
              Ordered, Newest, Spoken, chatVars, serviceVars
<1> QED BY <1>1, <1>2, <1>3, <1>4, <1>5, <1>6, <1>7, <1>8, <1>9 DEF ChatNext, ChatStep

\* The invariant of one chat.
LEMMA ChatInvariant == ChatSpec => []ChatInv
<1>1. ChatInit => ChatInv
  BY ChatInitInv
<1>2. ChatInv /\ [ChatNext]_chatVars => ChatInv'
  BY ChatNextKeeps
<1> QED BY <1>1, <1>2, PTL DEF ChatSpec

\* Every variable keeps its type: rounds never exceed max_tool_iterations.
THEOREM ChatTyped == ChatSpec => []ChatTypeOK
<1>1. ChatInv => ChatTypeOK
  BY DEF ChatInv, Typed
<1> QED BY <1>1, ChatInvariant, PTL

\* The user is told the newest text there is, however many rounds the loop of
\* chat has gone, whatever the history and whatever the model said in them.
THEOREM ReplyIsTheNewest == ChatSpec => []ReplyIsNewest
<1>1. ChatInv => ReplyIsNewest
  <2> SUFFICES ASSUME ChatInv, NEW told \in {reply, answer} \ {NoText, Refusal},
                      NEW i \in DOMAIN messages, Spoken(messages[i])
               PROVE  told # Sorry /\ messages[i].text <= told
    BY DEF ReplyIsNewest
  <2>1. Newest(messages, reply) /\ told = reply
    BY DEF ChatInv, NothingTooEarly
  <2> QED BY <2>1 DEF Newest
<1> QED BY <1>1, ChatInvariant, PTL

\* The audit log has at most one row; it has the reply the user got, if he got
\* one, and exactly the tools whose calls could be read.
THEOREM AuditIsTrue == ChatSpec => []AuditTellsWhatHappened
<1>1. ChatInv => AuditTellsWhatHappened
  <2> SUFFICES ASSUME ChatInv PROVE AuditTellsWhatHappened
    OBVIOUS
  <2>1. Len(auditLog) <= 1
    BY DEF ChatInv, LogIsTrue
  <2>2. ASSUME NEW row \in ToSet(auditLog)
        PROVE  /\ row.reply = reply
               /\ answer \in {NoText, row.reply}
               /\ row.tools = Called(messages)
    <3>1. PICK i \in DOMAIN auditLog : row = auditLog[i]
      BY <2>2 DEF ToSet
    <3>2. row.reply = reply /\ row.tools = toolsUsed
      BY <3>1 DEF ChatInv, LogIsTrue
    <3>3. service # "calling"
      <4>1. auditLog # <<>>
        BY <3>1
      <4> QED BY <4>1 DEF ChatInv, NothingTooEarly
    <3>4. toolsUsed = Called(messages)
      BY <3>3 DEF ChatInv, ToolsAreCounted
    <3>5. answer \in {NoText, reply}
      BY DEF ChatInv, NothingTooEarly
    <3> QED BY <3>2, <3>4, <3>5
  <2> QED BY <2>1, <2>2 DEF AuditTellsWhatHappened, Called
<1> QED BY <1>1, ChatInvariant, PTL

\* Nothing changes what the client was told: not the answer of a service that
\* took longer than the gateway waits.
THEOREM OneAnswer == ChatSpec => AnsweredOnce
<1>1. ASSUME ChatInv, [ChatNext]_chatVars, gateway \notin {"idle", "checking", "waiting"}
      PROVE  UNCHANGED <<gateway, answer>>
  BY <1>1 DEF ChatNext, ChatStep, Ask, RefusePayment, Forward, GiveUp, RefuseRequest,
              ModelFails, Receive, ModelAnswers, StartTool, BreakTool, ToolReturns,
              ToolTimesOut, Becomes, Gather, MakeReply, Audit, AuditFails, Respond,
              chatVars, serviceVars
<1>2. ChatInv /\ [ChatNext]_chatVars =>
        [gateway \notin {"idle", "checking", "waiting"} =>
           UNCHANGED <<gateway, answer>>]_chatVars
  BY <1>1
<1> QED BY <1>2, ChatInvariant, PTL DEF ChatSpec, AnsweredOnce

-----------------------------------------------------------------------------
(***************************************************************************)
(* The conversation.  After the n roles of the history and the question    *)
(* come the rounds; r of them have begun, and of those before the last     *)
(* nothing is missing.                                                     *)
(***************************************************************************)
RoundAt(ms, n, i) == Cardinality({j \in (n + 2)..i : ms[j].role = "assistant"})

\* What a tool says to call k of round r.
Answers(m, call, r, k) ==
  /\ m.role = "tool"
  /\ m.of = IF call.parsed = "yes" THEN <<r, k>> ELSE NoCall

\* The first l messages: every call is answered, and every answer is of a call.
Formed(ms, n, l) ==
  /\ \A i \in 1..l : \A k \in DOMAIN ms[i].calls :
       /\ i + k \in 1..l
       /\ Answers(ms[i + k], ms[i].calls[k], RoundAt(ms, n, i), k)
  /\ \A i \in 1..l :
       ms[i].role = "tool" => \E j \in 1..(i - 1) : i - j \in DOMAIN ms[j].calls

\* The tasks of a round are those of the calls, and the broken ones could not
\* be parsed.
TasksOf(calls, os) ==
  /\ Len(calls) = Len(os)
  /\ \A k \in DOMAIN os :
       /\ os[k].call = calls[k]
       /\ os[k].at \in {"running", "result", "error"} => calls[k].parsed = "yes"
       /\ os[k].at = "broken" => calls[k].parsed = "no"

Conversing(at, ms, n, r, os) ==
  /\ at = "asking" =>
       /\ n + 1 <= Len(ms)
       /\ Formed(ms, n, Len(ms))
       /\ RoundAt(ms, n, Len(ms)) = r - 1
  /\ at = "calling" =>
       /\ n + 2 <= Len(ms)
       /\ ms[Len(ms)].role = "assistant"
       /\ Formed(ms, n, Len(ms) - 1)
       /\ RoundAt(ms, n, Len(ms)) = r
       /\ TasksOf(ms[Len(ms)].calls, os)
  /\ at \notin {"asking", "calling"} => Formed(ms, n, Len(ms))

Conversation == Conversing(service, messages, Len(history), iteration, outcomes)

\* Rounds are counted from the front: what follows does not matter.
LEMMA RoundOfPrefix ==
  ASSUME NEW ms, NEW ns, NEW n \in Nat, NEW l \in Nat, \A i \in 1..l : ns[i] = ms[i],
         NEW i \in 1..l
  PROVE  RoundAt(ns, n, i) = RoundAt(ms, n, i)
<1>1. \A j \in (n + 2)..i : j \in 1..l
  OBVIOUS
<1>2. {j \in (n + 2)..i : ns[j].role = "assistant"}
        = {j \in (n + 2)..i : ms[j].role = "assistant"}
  BY <1>1
<1> QED BY <1>2 DEF RoundAt

\* What is well-formed stays so, whatever follows.
LEMMA FormedPrefix ==
  ASSUME NEW ms, NEW ns, NEW n \in Nat, NEW l \in Nat, \A i \in 1..l : ns[i] = ms[i],
         Formed(ms, n, l)
  PROVE  Formed(ns, n, l)
<1>1. ASSUME NEW i \in 1..l, NEW k \in DOMAIN ns[i].calls
      PROVE  /\ i + k \in 1..l
             /\ Answers(ns[i + k], ns[i].calls[k], RoundAt(ns, n, i), k)
  <2>1. ns[i] = ms[i] /\ RoundAt(ns, n, i) = RoundAt(ms, n, i)
    BY RoundOfPrefix
  <2>2. i + k \in 1..l /\ Answers(ms[i + k], ms[i].calls[k], RoundAt(ms, n, i), k)
    BY <2>1 DEF Formed
  <2> QED BY <2>1, <2>2
<1>2. ASSUME NEW i \in 1..l, ns[i].role = "tool"
      PROVE  \E j \in 1..(i - 1) : i - j \in DOMAIN ns[j].calls
  <2>1. PICK j \in 1..(i - 1) : i - j \in DOMAIN ms[j].calls
    BY <1>2 DEF Formed
  <2>2. j \in 1..l
    OBVIOUS
  <2> QED BY <2>1, <2>2
<1> QED BY <1>1, <1>2 DEF Formed

\* A message of the assistant begins a round, the others do not.
LEMMA RoundsGo ==
  ASSUME NEW ms, NEW n \in Nat, NEW i \in Nat, n + 1 <= i
  PROVE  /\ RoundAt(ms, n, i) \in Nat
         /\ ms[i + 1].role = "assistant" => RoundAt(ms, n, i + 1) = RoundAt(ms, n, i) + 1
<1> DEFINE S == {j \in (n + 2)..i : ms[j].role = "assistant"}
           T == {j \in (n + 2)..(i + 1) : ms[j].role = "assistant"}
<1>1. IsFiniteSet(S) /\ Cardinality(S) \in Nat
  <2>1. IsFiniteSet((n + 2)..i)
    BY FS_Interval
  <2>2. S \subseteq (n + 2)..i
    OBVIOUS
  <2> HIDE DEF S
  <2> QED BY <2>1, <2>2, FS_Subset, FS_CardinalityType
<1>2. i + 1 \notin S /\ (ms[i + 1].role = "assistant" => T = S \cup {i + 1})
  OBVIOUS
<1> HIDE DEF S, T
<1>3. Cardinality(S \cup {i + 1}) = Cardinality(S) + 1
  BY <1>1, <1>2, FS_AddElement
<1> QED BY <1>1, <1>2, <1>3 DEF RoundAt, S, T

\* The answers of tools begin none.
LEMMA RoundsStay ==
  ASSUME NEW ms, NEW n \in Nat, NEW i \in Nat, NEW l \in Nat, i <= l,
         \A j \in (i + 1)..l : ms[j].role # "assistant"
  PROVE  RoundAt(ms, n, l) = RoundAt(ms, n, i)
<1>1. {j \in (n + 2)..l : ms[j].role = "assistant"}
        = {j \in (n + 2)..i : ms[j].role = "assistant"}
  OBVIOUS
<1> QED BY <1>1 DEF RoundAt


\* A conversation without calls and without tools is well-formed.
LEMMA FormedPlain ==
  ASSUME NEW ms, NEW n, NEW l \in Nat,
         \A i \in 1..l : ms[i].calls = << >> /\ ms[i].role # "tool"
  PROVE  Formed(ms, n, l)
<1>1. \A i \in 1..l : DOMAIN ms[i].calls = {}
  OBVIOUS
<1> QED BY <1>1 DEF Formed

\* The loop begins after the history and the question.
LEMMA ReceiveConverses ==
  ASSUME ChatInv, Receive
  PROVE  Conversing(service', messages', Len(history'), iteration', outcomes')
<1> DEFINE old == [i \in DOMAIN history |->
                     [role |-> history[i], text |-> 0, calls |-> <<>>, of |-> NoCall]]
           question == [role |-> "user", text |-> 0, calls |-> <<>>, of |-> NoCall]
           n == Len(history)
           ms == Append(old, question)
<1>1. /\ service' = "asking" /\ iteration' = 1 /\ messages' = ms
      /\ history' = history
  BY DEF Receive
<1>2. /\ history \in Seq({"user", "assistant", "model"})
      /\ n \in Nat /\ DOMAIN history = 1..n
  BY ChatAssumption DEF ChatInv, Typed, ChatTypeOK
<1>3. \A i \in 1..n : old[i].calls = <<>> /\ old[i].role = history[i]
  BY <1>2
<1>4. question.calls = <<>> /\ question.role = "user"
  OBVIOUS
<1>5. Len(old) = n /\ old \in Seq([role : {"user", "assistant", "model"}, text : {0},
                                   calls : {<<>>}, of : {NoCall}])
  BY <1>2
<1> HIDE DEF old, question
<1>6. /\ Len(ms) = n + 1 /\ \A i \in 1..n : ms[i] = old[i]
      /\ ms[n + 1] = question
  BY <1>2, <1>5
<1> HIDE DEF ms
<1>7. \A i \in 1..(n + 1) : ms[i].calls = <<>> /\ ms[i].role # "tool"
  <2>1. ASSUME NEW i \in 1..n PROVE ms[i].calls = <<>> /\ ms[i].role # "tool"
    <3>1. history[i] \in {"user", "assistant", "model"}
      BY <1>2
    <3> QED BY <1>3, <1>6, <3>1
  <2> QED BY <1>2, <1>4, <1>6, <2>1
<1>8. Formed(ms, n, n + 1)
  BY <1>2, <1>7, FormedPlain
<1>9. RoundAt(ms, n, n + 1) = 0
  <2>1. {j \in (n + 2)..(n + 1) : ms[j].role = "assistant"} = {}
    BY <1>2
  <2> QED BY <2>1, FS_EmptySet DEF RoundAt
<1> QED BY <1>1, <1>2, <1>6, <1>8, <1>9 DEF Conversing

\* The model begins a round, and may call tools.
LEMMA ModelConverses ==
  ASSUME ChatInv, Conversation, NEW said \in BOOLEAN, NEW calls \in CallLists,
         ModelAnswers(said, calls)
  PROVE  Conversing(service', messages', Len(history'), iteration', outcomes')
<1> DEFINE m == [role |-> "assistant", text |-> IF said THEN iteration ELSE NoText,
                 calls |-> calls, of |-> NoCall]
           n == Len(history)
           l == Len(messages)
           ns == Append(messages, m)
           os == [i \in DOMAIN calls |-> [call |-> calls[i], at |-> "scheduled"]]
<1>1. /\ service = "asking"
      /\ messages' = ns /\ outcomes' = os
      /\ service' = IF calls = <<>> THEN "replying" ELSE "calling"
      /\ UNCHANGED <<history, iteration>>
  BY DEF ModelAnswers
<1>2. /\ n \in Nat /\ l \in Nat /\ messages \in Seq(Message)
      /\ iteration \in Nat /\ calls \in Seq(ToolCall)
  <2>1. /\ history \in Seq({"user", "assistant", "model"})
        /\ messages \in Seq(Message) /\ iteration \in 0..MaxToolIterations
        /\ MaxToolIterations \in Nat
    BY ChatAssumption DEF ChatInv, Typed, ChatTypeOK
  <2>2. calls \in Seq(ToolCall)
    BY ChatAssumption DEF ToolCall
  <2> QED BY <2>1, <2>2
<1>3. /\ n + 1 <= l /\ Formed(messages, n, l)
      /\ RoundAt(messages, n, l) = iteration - 1
  BY <1>1 DEF Conversation, Conversing
<1>4. m.role = "assistant" /\ m.calls = calls
  OBVIOUS
<1>5. Len(os) = Len(calls) /\ TasksOf(calls, os)
  <2>1. DOMAIN os = DOMAIN calls /\ DOMAIN calls = 1..Len(calls) /\ Len(calls) \in Nat
    BY <1>2
  <2>2. \A k \in DOMAIN os : os[k].call = calls[k] /\ os[k].at = "scheduled"
    OBVIOUS
  <2> HIDE DEF os
  <2>3. Len(os) = Len(calls)
    BY <2>1
  <2> QED BY <2>2, <2>3 DEF TasksOf
<1> HIDE DEF m, os
<1>6. /\ Len(ns) = l + 1 /\ \A i \in 1..l : ns[i] = messages[i]
      /\ ns[l + 1] = m
  BY <1>2
<1> HIDE DEF ns
<1>7. Formed(ns, n, l)
  BY <1>2, <1>3, <1>6, FormedPrefix
<1>8. RoundAt(ns, n, l + 1) = iteration
  <2>1. RoundAt(ns, n, l) = RoundAt(messages, n, l)
    <3>1. l \in 1..l
      BY <1>2, <1>3
    <3>2. n \in Nat /\ l \in Nat /\ \A i \in 1..l : ns[i] = messages[i]
      BY <1>2, <1>6
    <3> HIDE DEF n, l
    <3> QED BY <3>1, <3>2, RoundOfPrefix
  <2>2. RoundAt(ns, n, l + 1) = RoundAt(ns, n, l) + 1
    BY <1>2, <1>3, <1>4, <1>6, RoundsGo
  <2> QED BY <1>2, <1>3, <2>1, <2>2
<1>9. CASE calls = <<>>
  <2>1. DOMAIN ns[l + 1].calls = {} /\ ns[l + 1].role # "tool"
    BY <1>4, <1>6, <1>9
  <2>2. Formed(ns, n, l + 1)
    <3>1. \A i \in 1..(l + 1) : i \in 1..l \/ i = l + 1
      BY <1>2
    <3>2. \A i \in 1..l : i \in 1..(l + 1)
      BY <1>2
    <3> QED BY <1>7, <2>1, <3>1, <3>2 DEF Formed
  <2> QED BY <1>1, <1>6, <1>9, <2>2 DEF Conversing
<1>10. CASE calls # <<>>
  <2>1. n + 2 <= l + 1 /\ (l + 1) - 1 = l
    BY <1>2, <1>3
  <2>2. service' = "calling"
    BY <1>1, <1>10
  <2> QED BY <1>1, <1>4, <1>5, <1>6, <1>7, <1>8, <2>1, <2>2 DEF Conversing
<1> QED BY <1>9, <1>10

\* A task that goes on is still that of its call.
LEMMA TaskConverses ==
  ASSUME ChatInv, Conversation, NEW i \in DOMAIN outcomes,
         StartTool(i) \/ BreakTool(i) \/ ToolReturns(i) \/ ToolTimesOut(i)
  PROVE  Conversing(service', messages', Len(history'), iteration', outcomes')
<1> DEFINE l == Len(messages)
           calls == messages[l].calls
<1>1. /\ service = "calling" /\ UNCHANGED <<service, history, iteration, messages>>
      /\ \E to \in {"running", "result", "error", "broken"} :
           /\ outcomes' = [outcomes EXCEPT ![i].at = to]
           /\ to \in {"running", "result", "error"} =>
                \/ outcomes[i].call.parsed = "yes"
                \/ outcomes[i].at = "running"
           /\ to = "broken" => outcomes[i].call.parsed = "no"
  BY DEF StartTool, BreakTool, ToolReturns, ToolTimesOut, Becomes
<1>2. PICK to \in {"running", "result", "error", "broken"} :
        /\ outcomes' = [outcomes EXCEPT ![i].at = to]
        /\ to \in {"running", "result", "error"} =>
             \/ outcomes[i].call.parsed = "yes"
             \/ outcomes[i].at = "running"
        /\ to = "broken" => outcomes[i].call.parsed = "no"
  BY <1>1
<1>3. outcomes \in Seq(Task)
  BY DEF ChatInv, Typed
<1>4. TasksOf(calls, outcomes)
  BY <1>1 DEF Conversation, Conversing
<1> HIDE DEF calls
<1> DEFINE os == [outcomes EXCEPT ![i].at = to]
<1>5. outcomes[i] \in Task /\ DOMAIN outcomes = 1..Len(outcomes) /\ Len(outcomes) \in Nat
  BY <1>3
<1>6. /\ DOMAIN os = DOMAIN outcomes
      /\ \A k \in DOMAIN outcomes : k # i => os[k] = outcomes[k]
      /\ os[i].call = outcomes[i].call /\ os[i].at = to
  BY <1>5 DEF Task
<1>7. Len(os) = Len(outcomes)
  BY <1>3
<1> HIDE DEF os
<1>8. /\ outcomes[i].call = calls[i]
      /\ outcomes[i].at = "running" => calls[i].parsed = "yes"
  BY <1>4 DEF TasksOf
<1>9. /\ os[i].call = calls[i]
      /\ to \in {"running", "result", "error"} => calls[i].parsed = "yes"
      /\ to = "broken" => calls[i].parsed = "no"
  BY <1>2, <1>6, <1>8
<1>10. TasksOf(calls, os)
  BY <1>4, <1>6, <1>7, <1>9 DEF TasksOf
<1>11. TasksOf(calls, outcomes')
  BY <1>2, <1>10 DEF os
<1> QED BY <1>1, <1>11 DEF Conversation, Conversing, calls


\* The tasks os of round r are done: after the call of the tools, message p + 1,
\* come q results, in the order of the calls.
RoundEnds(ms, ns, n, p, q, r, os) ==
  /\ n + 1 <= p /\ Formed(ms, n, p) /\ RoundAt(ms, n, p + 1) = r
  /\ ms[p + 1].role = "assistant" /\ DOMAIN ms[p + 1].calls = 1..q
  /\ DOMAIN os = 1..q /\ TasksOf(ms[p + 1].calls, os)
  /\ \A i \in 1..(p + 1) : ns[i] = ms[i]
  /\ \A k \in 1..q :
       /\ os[k].at \in {"result", "error", "broken"}
       /\ ns[p + 1 + k].role = "tool" /\ ns[p + 1 + k].calls = <<>>
       /\ ns[p + 1 + k].of = IF os[k].at = "broken" THEN NoCall ELSE <<r, k>>

\* Then no call misses its result.
LEMMA RoundAnswered ==
  ASSUME NEW n \in Nat, NEW p \in Nat, NEW q \in Nat, NEW r \in Nat,
         NEW ms, NEW ns, NEW os, RoundEnds(ms, ns, n, p, q, r, os)
  PROVE  Formed(ns, n, p + 1 + q) /\ RoundAt(ns, n, p + 1 + q) = r
<1> DEFINE calls == ms[p + 1].calls
<1>1. Formed(ns, n, p)
  <2>1. Formed(ms, n, p) /\ \A i \in 1..p : ns[i] = ms[i]
    BY DEF RoundEnds
  <2> QED BY <2>1, FormedPrefix
<1>2. RoundAt(ns, n, p + 1) = r
  <2> DEFINE l == p + 1
  <2>1. l \in Nat /\ l \in 1..l /\ \A i \in 1..l : ns[i] = ms[i]
    BY DEF RoundEnds
  <2> HIDE DEF l
  <2>2. RoundAt(ns, n, l) = RoundAt(ms, n, l)
    BY <2>1, RoundOfPrefix
  <2> QED BY <2>2 DEF RoundEnds, l
<1>3. \A k \in 1..q : Answers(ns[p + 1 + k], calls[k], r, k)
  <2> SUFFICES ASSUME NEW k \in 1..q PROVE Answers(ns[p + 1 + k], calls[k], r, k)
    OBVIOUS
  <2>1. /\ os[k].at \in {"result", "error"} => calls[k].parsed = "yes"
        /\ os[k].at = "broken" => calls[k].parsed = "no"
    BY DEF RoundEnds, TasksOf
  <2> QED BY <2>1 DEF RoundEnds, Answers
<1>4. /\ ns[p + 1].calls = calls /\ ns[p + 1].role = "assistant"
      /\ DOMAIN calls = 1..q
  BY DEF RoundEnds
<1> HIDE DEF calls
<1>5. ASSUME NEW i \in 1..(p + 1 + q)
      PROVE  \/ i \in 1..p
             \/ i = p + 1
             \/ \E k \in 1..q : i = p + 1 + k
  <2>1. CASE i > p + 1
    <3>1. i - (p + 1) \in 1..q /\ i = p + 1 + (i - (p + 1))
      BY <2>1
    <3> QED BY <3>1
  <2> QED BY <2>1
<1>6. ASSUME NEW i \in 1..(p + 1 + q), NEW k \in DOMAIN ns[i].calls
      PROVE  /\ i + k \in 1..(p + 1 + q)
             /\ Answers(ns[i + k], ns[i].calls[k], RoundAt(ns, n, i), k)
  <2>1. CASE i \in 1..p
    <3>1. i + k \in 1..p /\ Answers(ns[i + k], ns[i].calls[k], RoundAt(ns, n, i), k)
      BY <1>1, <2>1 DEF Formed
    <3>2. \A j \in 1..p : j \in 1..(p + 1 + q)
      OBVIOUS
    <3> QED BY <3>1, <3>2
  <2>2. CASE i = p + 1
    <3>1. k \in 1..q
      BY <1>4, <2>2
    <3>2. p + 1 + k \in 1..(p + 1 + q)
      BY <3>1
    <3>3. Answers(ns[p + 1 + k], calls[k], r, k)
      BY <1>3, <3>1
    <3> QED BY <1>2, <1>4, <2>2, <3>2, <3>3
  <2>3. ASSUME NEW j \in 1..q, i = p + 1 + j PROVE FALSE
    <3>1. ns[i].calls = <<>>
      BY <2>3 DEF RoundEnds
    <3> QED BY <1>6, <3>1
  <2> QED BY <1>5, <2>1, <2>2, <2>3
<1>7. ASSUME NEW i \in 1..(p + 1 + q), ns[i].role = "tool"
      PROVE  \E j \in 1..(i - 1) : i - j \in DOMAIN ns[j].calls
  <2>1. CASE i \in 1..p
    BY <1>1, <1>7, <2>1 DEF Formed
  <2>2. CASE i = p + 1
    BY <1>4, <1>7, <2>2
  <2>3. ASSUME NEW k \in 1..q, i = p + 1 + k
        PROVE  \E j \in 1..(i - 1) : i - j \in DOMAIN ns[j].calls
    <3>1. p + 1 \in 1..(i - 1) /\ i - (p + 1) = k
      BY <2>3
    <3> QED BY <1>4, <3>1
  <2> QED BY <1>5, <2>1, <2>2, <2>3
<1>8. Formed(ns, n, p + 1 + q)
  BY <1>6, <1>7 DEF Formed
<1>9. RoundAt(ns, n, p + 1 + q) = r
  <2>1. \A j \in (p + 2)..(p + 1 + q) : ns[j].role # "assistant"
    <3> SUFFICES ASSUME NEW j \in (p + 2)..(p + 1 + q) PROVE ns[j].role # "assistant"
      OBVIOUS
    <3>1. j - (p + 1) \in 1..q /\ p + 1 + (j - (p + 1)) = j
      OBVIOUS
    <3>2. ns[p + 1 + (j - (p + 1))].role = "tool"
      BY <3>1 DEF RoundEnds
    <3> QED BY <3>1, <3>2
  <2> DEFINE a == p + 1
             l == p + 1 + q
  <2>2. a \in Nat /\ l \in Nat /\ a <= l /\ \A j \in (a + 1)..l : ns[j].role # "assistant"
    BY <2>1
  <2> HIDE DEF a, l
  <2>3. RoundAt(ns, n, l) = RoundAt(ns, n, a)
    BY <2>2, RoundsStay
  <2> QED BY <1>2, <2>3 DEF a, l
<1> QED BY <1>8, <1>9

\* All tasks are done.
LEMMA GatherConverses ==
  ASSUME ChatInv, Conversation, Gather
  PROVE  Conversing(service', messages', Len(history'), iteration', outcomes')
<1> DEFINE tail == [i \in DOMAIN outcomes |-> ToolMessage(i)]
           n == Len(history)
           p == Len(messages) - 1
           q == Len(outcomes)
           calls == messages[p + 1].calls
           ns == messages \o tail
<1>1. /\ service = "calling"
      /\ \A i \in DOMAIN outcomes : outcomes[i].at \in {"result", "error", "broken"}
      /\ messages' = ns /\ history' = history
      /\ \/ service' = "asking" /\ iteration' = iteration + 1
         \/ service' = "replying"
  BY DEF Gather
<1>2. /\ history \in Seq({"user", "assistant", "model"})
      /\ messages \in Seq(Message) /\ outcomes \in Seq(Task)
      /\ iteration \in 0..MaxToolIterations /\ MaxToolIterations \in Nat
  BY ChatAssumption DEF ChatInv, Typed, ChatTypeOK
<1>3. /\ n \in Nat /\ Len(messages) \in Nat /\ q \in Nat /\ iteration \in Nat
      /\ DOMAIN outcomes = 1..q /\ DOMAIN messages = 1..Len(messages)
  BY <1>2
<1>4. /\ n + 2 <= Len(messages) /\ messages[Len(messages)].role = "assistant"
      /\ Formed(messages, n, Len(messages) - 1)
      /\ RoundAt(messages, n, Len(messages)) = iteration
      /\ TasksOf(messages[Len(messages)].calls, outcomes)
  BY <1>1 DEF Conversation, Conversing
<1>5. /\ p \in Nat /\ n + 1 <= p /\ Len(messages) = p + 1
  BY <1>3, <1>4
<1>6. /\ \A k \in 1..q :
           /\ tail[k].role = "tool" /\ tail[k].calls = <<>>
           /\ tail[k].of = IF outcomes[k].at = "broken" THEN NoCall ELSE <<iteration, k>>
  BY <1>3 DEF ToolMessage
<1>7. /\ tail \in Seq({ToolMessage(i) : i \in DOMAIN outcomes}) /\ Len(tail) = q
  <2>1. DOMAIN tail = 1..q
    BY <1>3
  <2> QED BY <1>3, <2>1
<1>8. calls \in Seq(ToolCall)
  <2>1. messages[p + 1] \in Message
    BY <1>2, <1>3, <1>5
  <2> HIDE DEF p
  <2>2. calls \in CallLists \cup {<<>>}
    BY <2>1 DEF Message
  <2>3. CallLists \subseteq Seq(ToolCall)
    BY ChatAssumption DEF ToolCall
  <2> HIDE DEF calls
  <2>4. CASE calls = <<>>
    BY <2>4
  <2> QED BY <2>2, <2>3, <2>4
<1>9. DOMAIN calls = 1..q
  <2>1. Len(calls) = q
    BY <1>4, <1>5 DEF TasksOf
  <2> QED BY <1>8, <2>1
<1>10. /\ Len(ns) = p + 1 + q
       /\ \A i \in 1..(p + 1) : ns[i] = messages[i]
       /\ \A k \in 1..q : ns[p + 1 + k] = tail[k]
  <2> DEFINE T == {ToolMessage(i) : i \in DOMAIN outcomes} \cup Message
  <2>1. messages \in Seq(T) /\ tail \in Seq(T)
    BY <1>2, <1>7
  <2> HIDE DEF tail, T
  <2>2. /\ Len(ns) = Len(messages) + Len(tail)
        /\ \A i \in 1..(Len(messages) + Len(tail)) :
             ns[i] = IF i <= Len(messages) THEN messages[i] ELSE tail[i - Len(messages)]
    BY <2>1, ConcatProperties
  <2> HIDE DEF ns, p, q
  <2>3. \A i \in 1..(p + 1) : ns[i] = messages[i]
    BY <1>3, <1>5, <1>7, <2>2
  <2>4. ASSUME NEW k \in 1..q PROVE ns[p + 1 + k] = tail[k]
    <3>1. /\ p + 1 + k \in 1..(p + 1 + q) /\ ~ (p + 1 + k <= p + 1)
          /\ (p + 1 + k) - (p + 1) = k
      BY <1>3, <1>5
    <3> QED BY <1>5, <1>7, <2>2, <3>1
  <2> QED BY <1>5, <1>7, <2>2, <2>3, <2>4
<1>11. RoundEnds(messages, ns, n, p, q, iteration, outcomes)
  <2>1. /\ n + 1 <= p /\ Formed(messages, n, p) /\ RoundAt(messages, n, p + 1) = iteration
        /\ messages[p + 1].role = "assistant" /\ DOMAIN messages[p + 1].calls = 1..q
        /\ DOMAIN outcomes = 1..q /\ TasksOf(messages[p + 1].calls, outcomes)
        /\ \A i \in 1..(p + 1) : ns[i] = messages[i]
    BY <1>3, <1>4, <1>5, <1>9, <1>10
  <2>2. \A k \in 1..q : outcomes[k].at \in {"result", "error", "broken"}
    BY <1>1, <1>3
  <2> HIDE DEF tail, n, p, q, calls, ns
  <2> QED BY <1>6, <1>10, <2>1, <2>2 DEF RoundEnds
<1> HIDE DEF tail, n, p, q, calls, ns
<1>13. Formed(ns, n, p + 1 + q) /\ RoundAt(ns, n, p + 1 + q) = iteration
  BY <1>3, <1>5, <1>11, RoundAnswered
<1>14. /\ n = Len(history') /\ Len(messages') = p + 1 + q
       /\ n + 1 <= Len(messages')
  BY <1>1, <1>3, <1>5, <1>10 DEF n
<1>15. CASE service' = "asking" /\ iteration' = iteration + 1
  BY <1>1, <1>3, <1>13, <1>14, <1>15 DEF Conversing
<1>16. CASE service' = "replying"
  BY <1>1, <1>13, <1>14, <1>16 DEF Conversing
<1> QED BY <1>1, <1>15, <1>16

\* Nothing else changes the conversation.
LEMMA OthersConverse ==
  ASSUME ChatInv, Conversation,
         UNCHANGED <<history, iteration, messages, outcomes>>,
         \/ service' = service
         \/ service \notin {"asking", "calling"} /\ service' \notin {"asking", "calling"}
         \/ service = "asking" /\ service' = "failed"
  PROVE  Conversing(service', messages', Len(history'), iteration', outcomes')
BY DEF Conversation, Conversing

\* Before the first question there is no conversation.
LEMMA ConversationBegins == ChatInit => Conversation
<1> SUFFICES ASSUME ChatInit PROVE Conversation
  OBVIOUS
<1>1. service = "idle" /\ messages = <<>> /\ Len(messages) = 0
  BY DEF ChatInit
<1>2. \A i \in 1..0 : FALSE
  OBVIOUS
<1>3. Formed(messages, Len(history), 0)
  BY <1>2 DEF Formed
<1> QED BY <1>1, <1>3 DEF Conversation, Conversing

\* Every step keeps the conversation well-formed.
LEMMA ConversationGoesOn ==
  ChatInv /\ Conversation /\ [ChatNext]_chatVars => Conversation'
<1> SUFFICES ASSUME ChatInv, Conversation, [ChatNext]_chatVars
             PROVE  Conversing(service', messages', Len(history'), iteration', outcomes')
  BY DEF Conversation
<1>1. CASE Receive
  BY <1>1, ReceiveConverses
<1>2. CASE \E said \in BOOLEAN, calls \in CallLists : ModelAnswers(said, calls)
  BY <1>2, ModelConverses
<1>3. CASE \E i \in DOMAIN outcomes :
             StartTool(i) \/ BreakTool(i) \/ ToolReturns(i) \/ ToolTimesOut(i)
  BY <1>3, TaskConverses
<1>4. CASE Gather
  BY <1>4, GatherConverses
<1>5. CASE \/ Ask \/ RefusePayment \/ Forward \/ GiveUp \/ RefuseRequest \/ ModelFails
           \/ Audit \/ AuditFails \/ Respond \/ UNCHANGED chatVars
           \/ \E validated \in Reply : MakeReply(validated)
  <2>1. /\ UNCHANGED <<history, iteration, messages, outcomes>>
        /\ \/ service' = service
           \/ service \notin {"asking", "calling"} /\ service' \notin {"asking", "calling"}
           \/ service = "asking" /\ service' = "failed"
    BY <1>5 DEF Ask, RefusePayment, Forward, GiveUp, RefuseRequest, ModelFails, Audit,
                AuditFails, Respond, MakeReply, chatVars, serviceVars, ChatInv,
                NothingTooEarly
  <2> QED BY <2>1, OthersConverse
<1> QED BY <1>1, <1>2, <1>3, <1>4, <1>5 DEF ChatNext, ChatStep

\* What the model is sent is well-formed in every round: each call has one result
\* after it, in the order of the calls, however the tasks of gather ended.
THEOREM ConversationsAreWellFormed == ChatSpec => []ConversationIsWellFormed
<1>1. ChatInv /\ Conversation => ConversationIsWellFormed
  <2> SUFFICES ASSUME ChatInv, Conversation, service # "calling"
               PROVE  /\ \A i \in DOMAIN messages : \A k \in DOMAIN messages[i].calls :
                           /\ i + k \in DOMAIN messages
                           /\ messages[i + k].role = "tool"
                           /\ messages[i + k].of =
                                IF messages[i].calls[k].parsed = "yes"
                                THEN <<RoundOf(i), k>> ELSE NoCall
                      /\ \A i \in DOMAIN messages :
                           messages[i].role = "tool" =>
                             \E j \in 1..(i - 1) : i - j \in DOMAIN messages[j].calls
    BY DEF ConversationIsWellFormed
  <2>1. Formed(messages, Len(history), Len(messages))
    BY DEF Conversation, Conversing
  <2>2. DOMAIN messages = 1..Len(messages)
    BY DEF ChatInv, Typed, ChatTypeOK
  <2>3. \A i : RoundOf(i) = RoundAt(messages, Len(history), i)
    BY DEF RoundOf, RoundAt
  <2> QED BY <2>1, <2>2, <2>3 DEF Formed, Answers
<1>2. ChatInit => ChatInv /\ Conversation
  BY ChatInitInv, ConversationBegins
<1>3. ChatInv /\ Conversation /\ [ChatNext]_chatVars => ChatInv' /\ Conversation'
  BY ChatNextKeeps, ConversationGoesOn
<1> QED BY <1>1, <1>2, <1>3, PTL DEF ChatSpec

=============================================================================
