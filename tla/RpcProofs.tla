------------------------------ MODULE RpcProofs ------------------------------
(* Proofs about Rpc, for any number of calls and restarts of the broker.     *)
EXTENDS Rpc, TLAPS

-----------------------------------------------------------------------------
(* The invariant. *)

\* The request is carried out in Dispatch and nowhere else, and its thread answers
\* only afterwards.
Stage == \A c \in Call :
    /\ srv[c] \in {"none", "backlog", "reading", "dispatch"} => effect[c] = "none"
    /\ srv[c] = "reply" => effect[c] \in Answer
    /\ pc[c] = "connect" => srv[c] = "none"

\* A line written for the client says what was done, and nothing is done after it:
\* a thread that hung up on a client without a line can no longer dispatch one.
Written == \A c \in Call : reply[c] # "none" =>
    /\ srv[c] \in {"close", "closed"}
    /\ reply[c] = "ok" <=> effect[c] = "ok"

\* The only way to end with an answer is to read it.
HandedOn == \A c \in Call : result[c] \in Answer => reply[c] = result[c]

PInv == TypeOK /\ Stage /\ Written /\ HandedOn

-----------------------------------------------------------------------------

\* Steps of clients, threads and the broker keep every variable in its type, and
\* rpc() has ended exactly when it has a result.
THEOREM TypeCorrect == Spec => []TypeOK
<1>1. Init => TypeOK
  BY RpcAssumption DEF Init, TypeOK, Open, Answer, Unread
<1>2. TypeOK /\ [Next]_vars => TypeOK'
  <2> SUFFICES ASSUME TypeOK, [Next]_vars PROVE TypeOK'
    OBVIOUS
  <2> USE DEF TypeOK, Open, Answer, Unread
  <2>1. ASSUME NEW c \in Call, Client(c) PROVE TypeOK'
    <3>1. CASE Connect(c)
      BY <3>1 DEF Connect, Goto, Become, socketVars, brokerVars
    <3>2. CASE ConnectFails(c)
      BY <3>2 DEF ConnectFails, End, Goto, threadVars, socketVars, brokerVars
    <3>3. CASE SendAll(c)
      BY <3>3 DEF SendAll, Goto, threadVars, brokerVars
    <3>4. CASE SendFails(c)
      BY <3>4 DEF SendFails, End, Goto, threadVars, socketVars, brokerVars
    <3>5. CASE ReadReply(c)
      BY <3>5 DEF ReadReply, End, Goto, threadVars, socketVars, brokerVars
    <3>6. CASE ReadEnd(c)
      BY <3>6 DEF ReadEnd, End, Goto, threadVars, socketVars, brokerVars
    <3> QED BY <2>1, <3>1, <3>2, <3>3, <3>4, <3>5, <3>6 DEF Client
  <2>2. ASSUME NEW c \in Call, Interrupt(c) PROVE TypeOK'
    BY <2>2 DEF Interrupt, End, Goto, threadVars, socketVars, brokerVars
  <2>3. ASSUME NEW c \in Call, Thread(c) PROVE TypeOK'
    <3>1. CASE Accept(c) \/ HungUp(c)
      BY <3>1 DEF Accept, HungUp, Become, clientVars, socketVars, brokerVars
    <3>2. CASE ReadLine(c) \/ RequestTimeout(c)
      BY <3>2 DEF ReadLine, RequestTimeout, Become, clientVars, brokerVars
    <3>3. CASE Dispatch(c)
      BY <3>3 DEF Dispatch, Become, clientVars, socketVars, brokerVars
    <3>4. CASE WriteReply(c)
      BY <3>4 DEF WriteReply, Become, clientVars, brokerVars
    <3>5. CASE CloseConn(c)
      BY <3>5 DEF CloseConn, Become, clientVars, brokerVars
    <3> QED BY <2>3, <3>1, <3>2, <3>3, <3>4, <3>5 DEF Thread
  <2>4. CASE BrokerDies
    <3>1. srv' \in [Call -> {"none", "closed"} \cup Open]
      BY <2>4 DEF BrokerDies
    <3>2. reset' \in [Call -> BOOLEAN]
      BY <2>4, Zenon DEF BrokerDies
    <3>3. /\ restarts < MaxRestart /\ restarts' = restarts + 1 /\ up' = FALSE
          /\ UNCHANGED <<pc, result, effect, request, reply>>
      BY <2>4, Zenon DEF BrokerDies, clientVars
    <3>4. restarts' \in 0..MaxRestart
      BY <3>3, RpcAssumption
    <3>5. up' \in BOOLEAN
      BY <3>3, Zenon
    <3> QED BY <3>1, <3>2, <3>3, <3>4, <3>5
  <2>5. CASE BrokerStarts
    BY <2>5 DEF BrokerStarts, clientVars, threadVars, socketVars
  <2>6. CASE UNCHANGED vars
    BY <2>6 DEF vars, clientVars, threadVars, socketVars, brokerVars
  <2> QED BY <2>1, <2>2, <2>3, <2>4, <2>5, <2>6 DEF Next
<1> QED BY <1>1, <1>2, PTL DEF Spec

-----------------------------------------------------------------------------

\* What a client does to its own end writes nothing and carries nothing out.
LEMMA ClientStep ==
    ASSUME TypeOK, Stage, Written, HandedOn, NEW c \in Call, Client(c) \/ Interrupt(c)
    PROVE  Stage' /\ Written' /\ HandedOn'
<1> USE DEF TypeOK, Stage, Written, HandedOn, Answer, Open
<1>1. CASE Connect(c)
  BY <1>1 DEF Connect, Goto, Become, socketVars, brokerVars
<1>2. CASE ConnectFails(c) \/ SendFails(c) \/ Interrupt(c)
  BY <1>2 DEF ConnectFails, SendFails, Interrupt, End, Goto, threadVars, socketVars, brokerVars
<1>3. CASE SendAll(c)
  BY <1>3 DEF SendAll, Goto, threadVars, brokerVars
<1>4. CASE ReadReply(c)
  BY <1>4 DEF ReadReply, End, Goto, threadVars, socketVars, brokerVars
<1>5. CASE ReadEnd(c)
  BY <1>5 DEF ReadEnd, End, Goto, threadVars, socketVars, brokerVars
<1> QED BY <1>1, <1>2, <1>3, <1>4, <1>5 DEF Client

\* A thread carries out a request once, before it writes the one line it writes.
LEMMA ThreadStep ==
    ASSUME TypeOK, Stage, Written, HandedOn, NEW c \in Call, Thread(c)
    PROVE  Stage' /\ Written' /\ HandedOn'
<1> USE DEF TypeOK, Stage, Written, HandedOn, Answer, Open
<1>1. CASE Accept(c) \/ HungUp(c)
  BY <1>1 DEF Accept, HungUp, Become, clientVars, socketVars, brokerVars
<1>2. CASE ReadLine(c)
  BY <1>2 DEF ReadLine, Become, clientVars, brokerVars
<1>3. CASE RequestTimeout(c)
  BY <1>3 DEF RequestTimeout, Become, clientVars, brokerVars
<1>4. CASE Dispatch(c)
  BY <1>4 DEF Dispatch, Become, clientVars, socketVars, brokerVars
<1>5. CASE WriteReply(c)
  BY <1>5 DEF WriteReply, Become, clientVars, brokerVars
<1>6. CASE CloseConn(c)
  BY <1>6 DEF CloseConn, Become, clientVars, brokerVars
<1> QED BY <1>1, <1>2, <1>3, <1>4, <1>5, <1>6 DEF Thread

\* A call that ends with the broker's yes was carried out and one that ends with its
\* no was not, whenever the broker dies and whenever the request times out.
THEOREM AnswersAreTrue == Spec => []AnswerIsTrue
<1>1. Init => Stage /\ Written /\ HandedOn
  BY DEF Init, Stage, Written, HandedOn, Answer
<1>2. PInv /\ [Next]_vars => (Stage /\ Written /\ HandedOn)'
  <2> SUFFICES ASSUME PInv, [Next]_vars PROVE (Stage /\ Written /\ HandedOn)'
    OBVIOUS
  <2> USE DEF PInv
  <2>1. ASSUME NEW c \in Call, Thread(c) \/ Client(c) \/ Interrupt(c)
        PROVE  (Stage /\ Written /\ HandedOn)'
    BY <2>1, ClientStep, ThreadStep
  <2>2. CASE BrokerDies
    BY <2>2 DEF BrokerDies, clientVars, TypeOK, Stage, Written, HandedOn, Open
  <2>3. CASE BrokerStarts \/ UNCHANGED vars
    BY <2>3 DEF BrokerStarts, vars, clientVars, threadVars, socketVars, Stage, Written, HandedOn
  <2> QED BY <2>1, <2>2, <2>3 DEF Next
<1>3. PInv => AnswerIsTrue
  BY DEF PInv, Written, HandedOn, AnswerIsTrue, Answer, TypeOK
<1> QED BY <1>1, <1>2, <1>3, TypeCorrect, PTL DEF Spec, PInv
=============================================================================
