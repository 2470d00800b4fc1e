---------------------------- MODULE MailboxProofs ---------------------------
(* Proofs about Mailbox, for any number of handles, connections and messages, *)
(* any set of stalling clients and any set of large replies.                 *)
EXTENDS Mailbox, SequenceTheorems, TLAPS

-----------------------------------------------------------------------------
(* What append, popleft and appendleft do to the set of queued messages. *)

\* append adds one message.
LEMMA AppendRange ==
    ASSUME NEW S, NEW s \in Seq(S), NEW e \in S, IsInjective(s), e \notin Range(s)
    PROVE  /\ Append(s, e) \in Seq(S)
           /\ Range(Append(s, e)) = Range(s) \cup {e}
           /\ IsInjective(Append(s, e))
<1>1. /\ Len(Append(s, e)) = Len(s) + 1
      /\ \A i \in 1..Len(s) : Append(s, e)[i] = s[i]
      /\ Append(s, e)[Len(s) + 1] = e
  OBVIOUS
<1>2. DOMAIN s = 1..Len(s) /\ DOMAIN Append(s, e) = 1..(Len(s) + 1)
  OBVIOUS
<1>3. QED
  BY <1>1, <1>2 DEF Range, IsInjective

\* popleft takes one message.
LEMMA TailRange ==
    ASSUME NEW S, NEW s \in Seq(S), s # <<>>, IsInjective(s)
    PROVE  /\ Tail(s) \in Seq(S)
           /\ Head(s) \in Range(s)
           /\ Range(Tail(s)) = Range(s) \ {Head(s)}
           /\ IsInjective(Tail(s))
<1>1. /\ Len(s) \in Nat \ {0} /\ DOMAIN s = 1..Len(s)
      /\ Head(s) = s[1]
  BY HeadTailProperties
<1>2. /\ Tail(s) \in Seq(S) /\ Len(Tail(s)) = Len(s) - 1
      /\ \A i \in 1..(Len(s) - 1) : Tail(s)[i] = s[i + 1]
  BY HeadTailProperties
<1>3. DOMAIN Tail(s) = 1..(Len(s) - 1)
  BY <1>1, <1>2
<1>4. \A m \in Range(s) \ {Head(s)} : m \in Range(Tail(s))
  <2> TAKE m \in Range(s) \ {Head(s)}
  <2>1. PICK i \in 1..Len(s) : s[i] = m /\ i # 1
    BY <1>1 DEF Range
  <2>2. i - 1 \in 1..(Len(s) - 1) /\ Tail(s)[i - 1] = m
    BY <1>1, <1>2, <2>1
  <2>3. QED
    BY <1>3, <2>2 DEF Range
<1>5. \A m \in Range(Tail(s)) : m \in Range(s) \ {Head(s)}
  <2> TAKE m \in Range(Tail(s))
  <2>1. PICK i \in 1..(Len(s) - 1) : Tail(s)[i] = m
    BY <1>3 DEF Range
  <2>2. i + 1 \in 1..Len(s) /\ i + 1 # 1 /\ s[i + 1] = m
    BY <1>1, <1>2, <2>1
  <2>3. m # s[1]
    BY <1>1, <2>2 DEF IsInjective
  <2>4. m \in Range(s)
    BY <1>1, <2>2 DEF Range
  <2>5. QED
    BY <1>1, <2>3, <2>4
<1>6. IsInjective(Tail(s))
  <2> SUFFICES ASSUME NEW i \in 1..(Len(s) - 1), NEW j \in 1..(Len(s) - 1),
                      Tail(s)[i] = Tail(s)[j]
               PROVE  i = j
    BY <1>3 DEF IsInjective
  <2>1. i + 1 \in 1..Len(s) /\ j + 1 \in 1..Len(s) /\ s[i + 1] = s[j + 1]
    BY <1>1, <1>2
  <2>2. i + 1 = j + 1
    BY <1>1, <2>1 DEF IsInjective
  <2>3. QED
    BY <2>2
<1>7. Head(s) \in Range(s)
  BY <1>1 DEF Range
<1>8. Range(Tail(s)) = Range(s) \ {Head(s)}
  BY <1>4, <1>5
<1>9. QED
  BY <1>2, <1>6, <1>7, <1>8

\* appendleft adds one message.
LEMMA FrontRange ==
    ASSUME NEW S, NEW s \in Seq(S), NEW e \in S, IsInjective(s), e \notin Range(s)
    PROVE  /\ <<e>> \o s \in Seq(S)
           /\ Range(<<e>> \o s) = Range(s) \cup {e}
           /\ IsInjective(<<e>> \o s)
<1>1. /\ <<e>> \o s \in Seq(S) /\ Len(<<e>> \o s) = Len(s) + 1
      /\ (<<e>> \o s)[1] = e
      /\ \A i \in 1..Len(s) : (<<e>> \o s)[i + 1] = s[i]
  OBVIOUS
<1>2. DOMAIN s = 1..Len(s) /\ DOMAIN (<<e>> \o s) = 1..(Len(s) + 1)
  BY <1>1
<1>3. \A j \in 2..(Len(s) + 1) : (<<e>> \o s)[j] = s[j - 1] /\ j - 1 \in 1..Len(s)
  <2> TAKE j \in 2..(Len(s) + 1)
  <2>1. j - 1 \in 1..Len(s) /\ (j - 1) + 1 = j
    OBVIOUS
  <2>2. QED
    BY <1>1, <2>1
<1>4. Range(<<e>> \o s) = Range(s) \cup {e}
  <2>1. \A m \in Range(<<e>> \o s) : m \in Range(s) \cup {e}
    BY <1>1, <1>2, <1>3 DEF Range
  <2>2. \A i \in 1..Len(s) : s[i] \in Range(<<e>> \o s)
    <3> TAKE i \in 1..Len(s)
    <3>1. i + 1 \in DOMAIN (<<e>> \o s) /\ (<<e>> \o s)[i + 1] = s[i]
      BY <1>1, <1>2
    <3>2. QED
      BY <3>1 DEF Range
  <2>3. e \in Range(<<e>> \o s)
    <3>1. 1 \in DOMAIN (<<e>> \o s)
      <4>1. Len(s) \in Nat
        OBVIOUS
      <4>2. QED
        BY <1>2, <4>1
    <3>2. QED
      BY <1>1, <3>1 DEF Range
  <2>4. QED
    BY <1>2, <2>1, <2>2, <2>3 DEF Range
<1>5. IsInjective(<<e>> \o s)
  BY <1>1, <1>2, <1>3 DEF Range, IsInjective
<1>6. QED
  BY <1>1, <1>4, <1>5

-----------------------------------------------------------------------------
\* A thread has a message in hand exactly while it is delivering or requeueing.
HandsFull == \A c \in Conn : item[c] # NoMsg <=> pc[c] \in Holding

\* Types, and a message in hand exactly while delivering or requeueing.
LEMMA Shape == Spec => [](TypeOK /\ HandsFull)
<1> USE MailboxAssumption DEF Looping, Holding, Delivering
<1>1. Init => TypeOK /\ HandsFull
  BY DEF Init, TypeOK, HandsFull
<1>2. TypeOK /\ HandsFull /\ [Next]_vars => TypeOK'
  <2> SUFFICES ASSUME TypeOK, HandsFull, [Next]_vars PROVE TypeOK'
    OBVIOUS
  <2> USE DEF threadVars, socketVars, Goto
  <2>1. ASSUME NEW h \in Handle, Send(h) PROVE TypeOK'
    <3>1. Len(sentTo) + 1 \in Message
      BY <2>1 DEF Send, TypeOK, Message
    <3>2. sentTo' \in Seq(Handle) /\ Len(sentTo') <= MaxMsg
      BY <2>1 DEF Send, TypeOK
    <3>3. queues' \in [Handle -> Seq(Message)]
      BY <2>1, <3>1 DEF Send, TypeOK
    <3>4. QED
      BY <2>1, <3>2, <3>3 DEF Send, TypeOK, Notified
  <2>2. ASSUME NEW c \in Conn, Request(c) PROVE TypeOK'
    BY <2>2 DEF Request, TypeOK
  <2>3. ASSUME NEW c \in Conn, Reserve(c) PROVE TypeOK'
    <3>1. /\ Head(queues[handleOf[c]]) \in Message
          /\ Tail(queues[handleOf[c]]) \in Seq(Message)
      BY <2>3 DEF Reserve, TypeOK
    <3>2. QED
      BY <2>3, <3>1 DEF Reserve, TypeOK
  <2>4. ASSUME NEW c \in Conn, Park(c) \/ ReplyTimeout(c) \/ PollInterval(c) \/ CheckAlive(c)
        PROVE  TypeOK'
    BY <2>4 DEF Park, ReplyTimeout, PollInterval, CheckAlive, TypeOK
  <2>5. ASSUME NEW c \in Conn, WriteReply(c) \/ WriteFails(c) \/ PollFlags(c) \/ CountUnread(c)
        PROVE  TypeOK'
    BY <2>5 DEF WriteReply, WriteFails, PollFlags, CountUnread, TypeOK
  <2>6. ASSUME NEW c \in Conn, PollHangup(c) \/ Recheck(c) PROVE TypeOK'
    BY <2>6 DEF PollHangup, Recheck, Consume, TypeOK
  <2>7. ASSUME NEW c \in Conn, GiveUp(c) PROVE TypeOK'
    BY <2>7 DEF GiveUp, Consume, TypeOK
  <2>8. ASSUME NEW c \in Conn, RequeueFront(c) PROVE TypeOK'
    <3>1. <<item[c]>> \o queues[handleOf[c]] \in Seq(Message)
      BY <2>8 DEF TypeOK, HandsFull, RequeueFront, Message, NoMsg
    <3>2. QED
      BY <2>8, <3>1 DEF RequeueFront, TypeOK, Notified
  <2>9. ASSUME NEW c \in Conn, Read(c) \/ Close(c) \/ Purge(c) \/ Stall(c) \/ Resume(c)
        PROVE  TypeOK'
    BY <2>9 DEF Read, Close, Purge, Stall, Resume, TypeOK
  <2>10. ASSUME NEW c \in Conn, DeadlinePasses(c) \/ AckTimeoutPasses(c) PROVE TypeOK'
    BY <2>10 DEF DeadlinePasses, AckTimeoutPasses, TypeOK
  <2>11. CASE UNCHANGED vars
    BY <2>11 DEF vars, TypeOK
  <2>12. QED
    BY <2>1, <2>2, <2>3, <2>4, <2>5, <2>6, <2>7, <2>8, <2>9, <2>10, <2>11
       DEF Next, Thread, Client, Loop, Deliver
<1>3. TypeOK /\ HandsFull /\ [Next]_vars => HandsFull'
  <2> SUFFICES ASSUME TypeOK, HandsFull, [Next]_vars, NEW c \in Conn
               PROVE  (item[c] # NoMsg <=> pc[c] \in Holding)'
    BY DEF HandsFull
  <2> USE DEF threadVars, socketVars, Goto, HandsFull, TypeOK, Message, NoMsg
  <2>1. ASSUME NEW h \in Handle, Send(h) PROVE (item[c] # NoMsg <=> pc[c] \in Holding)'
    BY <2>1 DEF Send, Notified
  <2>2. ASSUME NEW d \in Conn, Reserve(d) PROVE (item[c] # NoMsg <=> pc[c] \in Holding)'
    <3>1. Head(queues[handleOf[d]]) \in Message
      BY <2>2 DEF Reserve
    <3>2. QED
      BY <2>2, <3>1 DEF Reserve
  <2>3. ASSUME NEW d \in Conn,
               Request(d) \/ Park(d) \/ ReplyTimeout(d) \/ PollInterval(d) \/ CheckAlive(d)
        PROVE  (item[c] # NoMsg <=> pc[c] \in Holding)'
    BY <2>3 DEF Request, Park, ReplyTimeout, PollInterval, CheckAlive
  <2>4. ASSUME NEW d \in Conn, WriteReply(d) \/ WriteFails(d) \/ PollFlags(d) \/ CountUnread(d)
        PROVE  (item[c] # NoMsg <=> pc[c] \in Holding)'
    BY <2>4 DEF WriteReply, WriteFails, PollFlags, CountUnread
  <2>5. ASSUME NEW d \in Conn, PollHangup(d) \/ Recheck(d) \/ GiveUp(d)
        PROVE  (item[c] # NoMsg <=> pc[c] \in Holding)'
    BY <2>5 DEF PollHangup, Recheck, GiveUp, Consume
  <2>6. ASSUME NEW d \in Conn, RequeueFront(d) PROVE (item[c] # NoMsg <=> pc[c] \in Holding)'
    BY <2>6 DEF RequeueFront, Notified
  <2>7. ASSUME NEW d \in Conn, \/ Read(d) \/ Close(d) \/ Purge(d) \/ Stall(d) \/ Resume(d)
                               \/ DeadlinePasses(d) \/ AckTimeoutPasses(d)
        PROVE  (item[c] # NoMsg <=> pc[c] \in Holding)'
    BY <2>7 DEF Read, Close, Purge, Stall, Resume, DeadlinePasses, AckTimeoutPasses
  <2>8. CASE UNCHANGED vars
    BY <2>8 DEF vars
  <2>9. QED
    BY <2>1, <2>2, <2>3, <2>4, <2>5, <2>6, <2>7, <2>8 DEF Next, Thread, Client, Loop, Deliver
<1>4. QED
  BY <1>1, <1>2, <1>3, PTL DEF Spec

\* Every variable keeps its type, and a queue never holds a number that is no
\* message id: what is put back is always a message that was taken.
THEOREM TypeCorrect == Spec => []TypeOK
BY Shape, PTL

-----------------------------------------------------------------------------
\* What the thread, the kernel and the client know of one connection's reply.
\* The last three conjuncts are why deliver decides right: a thread that found
\* the send queue empty and no ECONNRESET is owed a receipt, and a thread that
\* puts its message back has a client that can no longer read it.
Protocol(c) ==
    /\ pc[c] = "idle" => client[c] = "off"
    /\ pc[c] \in {"idle", "write"} \cup Looping => inbox[c] = NoMsg /\ got[c] = NoMsg /\ ~reset[c]
    /\ inbox[c] # NoMsg => got[c] = NoMsg /\ item[c] \in {NoMsg, inbox[c]}
    /\ client[c] = "dying" => reset[c]
    /\ reset[c] => got[c] = NoMsg /\ Closed(c)
    /\ Closed(c) /\ inbox[c] # NoMsg => reset[c]
    /\ pc[c] \in {"poll", "outq"} => reset[c] \/ item[c] \in {inbox[c], got[c]}
    /\ pc[c] = "recheck" => reset[c] \/ item[c] = got[c]
    /\ pc[c] = "requeue" => got[c] = NoMsg /\ Closed(c)

\* Threads and sockets follow the protocol throughout.
LEMMA ProtocolHolds == Spec => [](\A c \in Conn : Protocol(c))
<1> USE DEF Protocol, Alive, Closed
<1>1. Init => \A c \in Conn : Protocol(c)
  BY DEF Init
<1>2. TypeOK /\ HandsFull /\ (\A c \in Conn : Protocol(c)) /\ [Next]_vars
        => (\A c \in Conn : Protocol(c))'
  <2> SUFFICES ASSUME TypeOK, HandsFull, [Next]_vars, NEW c \in Conn, Protocol(c)
               PROVE  Protocol(c)'
    OBVIOUS
  <2> USE DEF threadVars, socketVars, Goto, TypeOK, Looping, Message, NoMsg
  <2>1. ASSUME NEW h \in Handle, Send(h) PROVE Protocol(c)'
    BY <2>1 DEF Send, Notified
  <2>2. ASSUME NEW d \in Conn, Reserve(d) PROVE Protocol(c)'
    BY <2>2 DEF Reserve
  <2>3. ASSUME NEW d \in Conn,
               Request(d) \/ Park(d) \/ ReplyTimeout(d) \/ PollInterval(d) \/ CheckAlive(d)
        PROVE  Protocol(c)'
    BY <2>3 DEF Request, Park, ReplyTimeout, PollInterval, CheckAlive
  <2>4. ASSUME NEW d \in Conn, WriteReply(d) PROVE Protocol(c)'
    BY <2>4 DEF WriteReply
  <2>5. ASSUME NEW d \in Conn, WriteFails(d) \/ PollFlags(d) \/ CountUnread(d)
        PROVE  Protocol(c)'
    BY <2>5 DEF WriteFails, PollFlags, CountUnread, HandsFull, Holding, Delivering
  <2>6. ASSUME NEW d \in Conn, PollHangup(d) \/ Recheck(d) \/ GiveUp(d)
        PROVE  Protocol(c)'
    BY <2>6 DEF PollHangup, Recheck, GiveUp, Consume
  <2>7. ASSUME NEW d \in Conn, RequeueFront(d) PROVE Protocol(c)'
    BY <2>7 DEF RequeueFront, Notified
  <2>8. ASSUME NEW d \in Conn, Read(d) PROVE Protocol(c)'
    BY <2>8 DEF Read, HandsFull, Holding, Delivering
  <2>9. ASSUME NEW d \in Conn, Close(d) PROVE Protocol(c)'
    BY <2>9 DEF Close
  <2>10. ASSUME NEW d \in Conn, \/ Purge(d) \/ Stall(d) \/ Resume(d)
                                \/ DeadlinePasses(d) \/ AckTimeoutPasses(d)
        PROVE  Protocol(c)'
    BY <2>10 DEF Purge, Stall, Resume, DeadlinePasses, AckTimeoutPasses
  <2>11. CASE UNCHANGED vars
    BY <2>11 DEF vars
  <2>12. QED
    BY <2>1, <2>2, <2>3, <2>4, <2>5, <2>6, <2>7, <2>8, <2>9, <2>10, <2>11
       DEF Next, Thread, Client, Loop, Deliver
<1>3. QED
  BY <1>1, <1>2, Shape, PTL DEF Spec

-----------------------------------------------------------------------------
\* A connection has a message when its thread holds it, its client read it, or its
\* live client may still read it.
Has(c, m) == item[c] = m \/ got[c] = m \/ (Alive(c) /\ inbox[c] = m)

\* Every message is in one place: a queue, a connection, or written off.
Known(m)   == m \in 1..Len(sentTo)
Queued     == \A h \in Handle : /\ IsInjective(queues[h])
                                /\ \A m \in Range(queues[h]) : Known(m) /\ sentTo[m] = h
OutOfQueue == \A c \in Conn, m \in Message :
                 Has(c, m) => Known(m) /\ sentTo[m] = handleOf[c] /\ ~InQueue(m)
OneHolder  == \A c, d \in Conn, m \in Message : Has(c, m) /\ Has(d, m) => c = d
Lapsed     == \A m \in lapsed : Known(m) /\ ~InQueue(m) /\ \A c \in Conn : item[c] # m
Custody    == Queued /\ OutOfQueue /\ OneHolder /\ Lapsed /\ NothingLost

MInv == TypeOK /\ HandsFull /\ (\A c \in Conn : Protocol(c)) /\ Custody

\* A step that changes no queue and lets no connection have a message it did not
\* have, and after which every message that was held or read still is, keeps custody.
LEMMA QuietStep ==
    ASSUME TypeOK, Custody,
           UNCHANGED <<sentTo, queues, lapsed>>,
           \A c \in Conn, m \in Message : Has(c, m)' => Has(c, m),
           \A c \in Conn : item'[c] \in {item[c], NoMsg},
           \A c \in Conn, m \in Message : item[c] = m \/ got[c] = m => (item[c] = m \/ got[c] = m)'
    PROVE  Custody'
<1>1. Queued'
  BY DEF Custody, Queued, Known
<1>2. OutOfQueue'
  BY DEF Custody, OutOfQueue, Known, InQueue
<1>3. OneHolder'
  BY DEF Custody, OneHolder
<1>4. Lapsed'
  <2> SUFFICES ASSUME NEW m \in lapsed
               PROVE  (Known(m) /\ ~InQueue(m) /\ \A c \in Conn : item[c] # m)'
    BY DEF Lapsed
  <2>1. m \in Message /\ m # NoMsg
    BY DEF TypeOK, Message, NoMsg
  <2>2. Known(m) /\ ~InQueue(m) /\ \A c \in Conn : item[c] # m
    BY DEF Custody, Lapsed
  <2>3. QED
    BY <2>1, <2>2 DEF Known, InQueue
<1>5. NothingLost'
  <2> SUFFICES ASSUME NEW m \in (1..Len(sentTo))'
               PROVE  (InQueue(m) \/ (\E c \in Conn : item[c] = m \/ got[c] = m) \/ m \in lapsed)'
    BY DEF NothingLost
  <2>1. m \in 1..Len(sentTo) /\ m \in Message
    BY MailboxAssumption DEF TypeOK, Message
  <2>2. InQueue(m) \/ (\E c \in Conn : item[c] = m \/ got[c] = m) \/ m \in lapsed
    BY <2>1 DEF Custody, NothingLost
  <2>3. InQueue(m) => InQueue(m)'
    BY DEF InQueue
  <2>4. (\E c \in Conn : item[c] = m \/ got[c] = m)
          => (\E c \in Conn : item[c] = m \/ got[c] = m)'
    BY <2>1
  <2>5. QED
    BY <2>2, <2>3, <2>4
<1>6. QED
  BY <1>1, <1>2, <1>3, <1>4, <1>5 DEF Custody

\* A known message is a number that was handed out.
LEMMA KnownIsMessage == TypeOK => \A m : Known(m) => m \in Message /\ m # NoMsg
<1> SUFFICES ASSUME TypeOK, NEW m, Known(m) PROVE m \in Message /\ m # NoMsg
  OBVIOUS
<1>1. Len(sentTo) \in Nat /\ Len(sentTo) <= MaxMsg /\ MaxMsg \in Nat
  BY MailboxAssumption DEF TypeOK
<1>2. QED
  BY <1>1 DEF Known, Message, NoMsg

\* _m_send makes one more message known, and no other.
LEMMA SendMakesKnown ==
    ASSUME NEW h \in Handle
    PROVE  TypeOK /\ Send(h) =>
              /\ Len(sentTo) + 1 \in Message
              /\ ~Known(Len(sentTo) + 1)
              /\ \A m : Known(m)' <=> Known(m) \/ m = Len(sentTo) + 1
              /\ sentTo'[Len(sentTo) + 1] = h
              /\ \A m : Known(m) => sentTo'[m] = sentTo[m]
<1> SUFFICES ASSUME TypeOK, Send(h)
             PROVE  /\ Len(sentTo) + 1 \in Message
                    /\ ~Known(Len(sentTo) + 1)
                    /\ \A m : Known(m)' <=> Known(m) \/ m = Len(sentTo) + 1
                    /\ sentTo'[Len(sentTo) + 1] = h
                    /\ \A m : Known(m) => sentTo'[m] = sentTo[m]
  OBVIOUS
<1>1. /\ Len(sentTo) \in Nat /\ Len(sentTo) < MaxMsg /\ MaxMsg \in Nat
      /\ sentTo' = Append(sentTo, h) /\ sentTo \in Seq(Handle)
  BY MailboxAssumption DEF TypeOK, Send
<1>2. /\ Len(sentTo') = Len(sentTo) + 1 /\ sentTo'[Len(sentTo) + 1] = h
      /\ \A m \in 1..Len(sentTo) : sentTo'[m] = sentTo[m]
  BY <1>1
<1>3. \A m : m \in 1..(Len(sentTo) + 1) <=> m \in 1..Len(sentTo) \/ m = Len(sentTo) + 1
  BY <1>1
<1>4. QED
  BY <1>1, <1>2, <1>3 DEF Known, Message

\* Custody holds throughout.
LEMMA CustodyHolds == Spec => []Custody
<1> USE MailboxAssumption
<1>1. Init => Custody
  BY DEF Init, Custody, Queued, OutOfQueue, OneHolder, Lapsed, NothingLost, Has, Range,
         IsInjective, Message, NoMsg, Alive
<1>2. MInv /\ TypeOK' /\ [Next]_vars => Custody'
  <2> SUFFICES ASSUME MInv, TypeOK', [Next]_vars PROVE Custody'
    OBVIOUS
  <2> USE DEF MInv, threadVars, socketVars, Goto
  <2>1. ASSUME NEW h \in Handle, Send(h) PROVE Custody'
    <3> DEFINE n == Len(sentTo) + 1
    <3>1. /\ n \in Message /\ ~Known(n) /\ sentTo'[n] = h
          /\ \A m : Known(m)' <=> Known(m) \/ m = n
          /\ \A m : Known(m) => sentTo'[m] = sentTo[m]
      BY <2>1, SendMakesKnown
    <3>2. n \notin Range(queues[h]) /\ queues[h] \in Seq(Message) /\ IsInjective(queues[h])
      BY <3>1 DEF Custody, Queued, TypeOK
    <3>3. /\ queues'[h] = Append(queues[h], n)
          /\ \A k \in Handle \ {h} : queues'[k] = queues[k]
      BY <2>1 DEF Send, TypeOK
    <3>4. Range(queues'[h]) = Range(queues[h]) \cup {n} /\ IsInjective(queues'[h])
      BY <3>1, <3>2, <3>3, AppendRange
    <3>5. \A m : InQueue(m)' <=> InQueue(m) \/ m = n
      BY <3>3, <3>4 DEF InQueue
    <3>6. \A c \in Conn : \A m : Has(c, m)' <=> Has(c, m)
      BY <2>1 DEF Send, Has, Alive
    <3>7. Queued'
      <4>1. ASSUME NEW k \in Handle
            PROVE  IsInjective(queues'[k]) /\ \A m \in Range(queues'[k]) : Known(m)' /\ sentTo'[m] = k
        <5>1. IsInjective(queues[k]) /\ \A m \in Range(queues[k]) : Known(m) /\ sentTo[m] = k
          BY DEF Custody, Queued
        <5>2. CASE k = h
          <6>1. Range(queues'[k]) = Range(queues[k]) \cup {n} /\ IsInjective(queues'[k])
            BY <3>4, <5>2
          <6>2. \A m \in Range(queues[k]) : Known(m)' /\ sentTo'[m] = k
            BY <3>1, <5>1
          <6>3. \A m : m = n => Known(m)' /\ sentTo'[m] = k
            BY <3>1, <5>2
          <6>4. QED
            BY <6>1, <6>2, <6>3
        <5>3. CASE k # h
          BY <3>1, <3>3, <5>1, <5>3
        <5>4. QED
          BY <5>2, <5>3
      <4>2. QED
        BY <4>1 DEF Queued
    <3>8. OutOfQueue'
      BY <3>1, <3>5, <3>6 DEF Custody, OutOfQueue
    <3>9. OneHolder'
      BY <3>6 DEF Custody, OneHolder
    <3>10. Lapsed'
      BY <2>1, <3>1, <3>5 DEF Custody, Lapsed, Send
    <3>11. NothingLost'
      BY <2>1, <3>1, <3>5 DEF Custody, NothingLost, Send, Known
    <3>12. QED
      BY <3>7, <3>8, <3>9, <3>10, <3>11 DEF Custody
  <2>2. ASSUME NEW c \in Conn, Reserve(c) PROVE Custody'
    <3> DEFINE h == handleOf[c]
               n == Head(queues[h])
    <3>1. /\ h \in Handle /\ queues[h] # <<>> /\ queues[h] \in Seq(Message)
          /\ IsInjective(queues[h])
      BY <2>2 DEF Reserve, TypeOK, Custody, Queued
    <3>2. /\ n \in Range(queues[h])
          /\ Range(Tail(queues[h])) = Range(queues[h]) \ {n}
          /\ IsInjective(Tail(queues[h]))
      BY <3>1, TailRange
    <3>3. /\ queues'[h] = Tail(queues[h])
          /\ \A k \in Handle \ {h} : queues'[k] = queues[k]
      BY <2>2, <3>1 DEF Reserve, TypeOK
    <3>4. /\ InQueue(n) /\ Known(n) /\ sentTo[n] = h /\ n \notin lapsed
          /\ \A k \in Handle \ {h} : n \notin Range(queues[k])
      <4>1. InQueue(n)
        BY <3>1, <3>2 DEF InQueue
      <4>2. Known(n) /\ sentTo[n] = h /\ \A k \in Handle \ {h} : n \notin Range(queues[k])
        BY <3>1, <3>2 DEF Custody, Queued
      <4>3. n \notin lapsed
        BY <4>1 DEF Custody, Lapsed
      <4>4. QED
        BY <4>1, <4>2, <4>3
    <3>5. \A m : InQueue(m)' <=> InQueue(m) /\ m # n
      BY <3>1, <3>2, <3>3, <3>4 DEF InQueue
    <3>6. /\ item'[c] = n /\ item[c] = NoMsg
          /\ \A d \in Conn \ {c} : item'[d] = item[d]
      BY <2>2 DEF Reserve, TypeOK, HandsFull, Holding, Delivering
    <3>7. n \in Message /\ n # NoMsg
      BY <3>4, KnownIsMessage
    <3>8. UNCHANGED <<sentTo, client, inbox, got, lapsed>>
      BY <2>2 DEF Reserve
    <3>9. \A d \in Conn, m \in Message : Has(d, m)' <=> Has(d, m) \/ (d = c /\ m = n)
      BY <3>6, <3>8 DEF Has, Alive, Message, NoMsg
    <3>10. \A d \in Conn : ~Has(d, n)
      BY <3>4, <3>7 DEF Custody, OutOfQueue
    <3>11. Queued'
      BY <3>2, <3>3, <3>8 DEF Custody, Queued, Known
    <3>12. OutOfQueue'
      BY <3>4, <3>5, <3>8, <3>9 DEF Custody, OutOfQueue, Known
    <3>13. OneHolder'
      BY <3>9, <3>10 DEF Custody, OneHolder
    <3>14. Lapsed'
      BY <3>4, <3>5, <3>6, <3>8 DEF Custody, Lapsed, Known
    <3>15. NothingLost'
      <4> SUFFICES ASSUME NEW m \in 1..Len(sentTo)
                   PROVE  (InQueue(m) \/ (\E d \in Conn : item[d] = m \/ got[d] = m)
                                      \/ m \in lapsed)'
        BY <3>8 DEF NothingLost
      <4>1. m # NoMsg
        BY DEF NoMsg
      <4>2. QED
        BY <3>5, <3>6, <3>8, <4>1 DEF Custody, NothingLost
    <3>16. QED
      BY <3>11, <3>12, <3>13, <3>14, <3>15 DEF Custody
  <2>3. ASSUME NEW c \in Conn, RequeueFront(c) PROVE Custody'
    <3> DEFINE h == handleOf[c]
               n == item[c]
    <3>1. /\ h \in Handle /\ queues[h] \in Seq(Message) /\ IsInjective(queues[h])
          /\ n \in Message /\ n # NoMsg
      BY <2>3 DEF RequeueFront, TypeOK, Custody, Queued, HandsFull, Holding, Message, NoMsg
    <3>2. /\ Has(c, n) /\ Known(n) /\ sentTo[n] = h /\ ~InQueue(n) /\ n \notin lapsed
      BY <3>1 DEF Has, Custody, OutOfQueue, Lapsed
    <3>3. /\ Range(<<n>> \o queues[h]) = Range(queues[h]) \cup {n}
          /\ IsInjective(<<n>> \o queues[h])
      BY <3>1, <3>2, FrontRange DEF InQueue
    <3>4. /\ queues'[h] = <<n>> \o queues[h]
          /\ \A k \in Handle \ {h} : queues'[k] = queues[k]
      BY <2>3, <3>1 DEF RequeueFront, TypeOK
    <3>5. \A m : InQueue(m)' <=> InQueue(m) \/ m = n
      BY <3>1, <3>3, <3>4 DEF InQueue
    <3>6. /\ item'[c] = NoMsg /\ got[c] = NoMsg /\ ~Alive(c)
          /\ \A d \in Conn \ {c} : item'[d] = item[d]
      BY <2>3 DEF RequeueFront, TypeOK, Protocol, Closed, Alive
    <3>7. UNCHANGED <<sentTo, client, inbox, got, lapsed>>
      BY <2>3 DEF RequeueFront
    <3>8. \A d \in Conn, m \in Message : Has(d, m)' => Has(d, m) /\ d # c
      BY <3>6, <3>7 DEF Has, Alive, Message, NoMsg
    <3>9. Queued'
      <4>1. ASSUME NEW k \in Handle
            PROVE  IsInjective(queues'[k]) /\ \A m \in Range(queues'[k]) : Known(m) /\ sentTo[m] = k
        <5>1. IsInjective(queues[k]) /\ \A m \in Range(queues[k]) : Known(m) /\ sentTo[m] = k
          BY DEF Custody, Queued
        <5>2. CASE k = h
          BY <3>2, <3>3, <3>4, <5>1, <5>2
        <5>3. CASE k # h
          BY <3>4, <5>1, <5>3
        <5>4. QED
          BY <5>2, <5>3
      <4>2. QED
        BY <3>7, <4>1 DEF Queued, Known
    <3>10. OutOfQueue'
      BY <3>1, <3>2, <3>5, <3>7, <3>8 DEF Custody, OutOfQueue, OneHolder, Known
    <3>11. OneHolder'
      BY <3>8 DEF Custody, OneHolder
    <3>12. Lapsed'
      <4> SUFFICES ASSUME NEW m \in lapsed
                   PROVE  (Known(m) /\ ~InQueue(m) /\ \A d \in Conn : item[d] # m)'
        BY <3>7 DEF Lapsed
      <4>1. Known(m) /\ ~InQueue(m) /\ m # n /\ m # NoMsg /\ \A d \in Conn : item[d] # m
        BY <3>2 DEF Custody, Lapsed, TypeOK, Message, NoMsg
      <4>2. QED
        BY <3>5, <3>6, <3>7, <4>1 DEF Known
    <3>13. NothingLost'
      <4> SUFFICES ASSUME NEW m \in 1..Len(sentTo)
                   PROVE  (InQueue(m) \/ (\E d \in Conn : item[d] = m \/ got[d] = m)
                                      \/ m \in lapsed)'
        BY <3>7 DEF NothingLost
      <4>1. QED
        BY <3>5, <3>6, <3>7 DEF Custody, NothingLost
    <3>14. QED
      BY <3>9, <3>10, <3>11, <3>12, <3>13 DEF Custody
  <2>4. ASSUME NEW c \in Conn, PollHangup(c) \/ (Recheck(c) /\ ~reset[c]) PROVE Custody'
    <3>1. got[c] = item[c]
      BY <2>4 DEF PollHangup, Recheck, Protocol, HandsFull, Holding, Delivering
    <3>2. /\ item' = [item EXCEPT ![c] = NoMsg]
          /\ UNCHANGED <<sentTo, queues, lapsed, client, inbox, got>>
      BY <2>4 DEF PollHangup, Recheck, Consume
    <3>3. QED
      BY <3>1, <3>2, QuietStep DEF Has, Alive, TypeOK, Message, NoMsg
  <2>5. ASSUME NEW c \in Conn, GiveUp(c) PROVE Custody'
    <3> DEFINE n == item[c]
    <3>1. /\ n \in Message /\ n # NoMsg /\ Has(c, n)
      BY <2>5 DEF GiveUp, TypeOK, HandsFull, Holding, Delivering, Message, NoMsg, Has
    <3>2. /\ item' = [item EXCEPT ![c] = NoMsg]
          /\ UNCHANGED <<sentTo, queues, client, inbox, got>>
      BY <2>5 DEF GiveUp, Consume
    <3>3. \/ got[c] = n /\ lapsed' = lapsed
          \/ lapsed' = lapsed \cup {n}
      BY <2>5, <3>1 DEF GiveUp, Protocol, Message, NoMsg
    <3>4. \A d \in Conn, m \in Message : Has(d, m)' => Has(d, m)
      BY <3>2 DEF Has, Alive, TypeOK, Message, NoMsg
    <3>5. \A d \in Conn : item'[d] # n
      BY <3>1, <3>2 DEF Custody, OneHolder, Has, TypeOK, Message, NoMsg
    <3>6. Queued'
      BY <3>2 DEF Custody, Queued, Known
    <3>7. OutOfQueue'
      BY <3>2, <3>4 DEF Custody, OutOfQueue, Known, InQueue
    <3>8. OneHolder'
      BY <3>4 DEF Custody, OneHolder
    <3>9. Lapsed'
      <4> SUFFICES ASSUME NEW m \in lapsed'
                   PROVE  (Known(m) /\ ~InQueue(m) /\ \A d \in Conn : item[d] # m)'
        BY DEF Lapsed
      <4>1. Known(m) /\ ~InQueue(m)
        BY <3>1, <3>3 DEF Custody, Lapsed, OutOfQueue
      <4>2. \A d \in Conn : item'[d] # m
        BY <3>2, <3>3, <3>5 DEF Custody, Lapsed, TypeOK, Message, NoMsg
      <4>3. QED
        BY <3>2, <4>1, <4>2 DEF Known, InQueue
    <3>10. NothingLost'
      <4> SUFFICES ASSUME NEW m \in 1..Len(sentTo)
                   PROVE  (InQueue(m) \/ (\E d \in Conn : item[d] = m \/ got[d] = m)
                                      \/ m \in lapsed)'
        BY <3>2 DEF NothingLost
      <4>1. QED
        BY <3>2, <3>3 DEF Custody, NothingLost, InQueue, TypeOK
    <3>11. QED
      BY <3>6, <3>7, <3>8, <3>9, <3>10 DEF Custody
  <2>6. ASSUME NEW c \in Conn, WriteReply(c) PROVE Custody'
    <3>1. /\ inbox' = [inbox EXCEPT ![c] = item[c]]
          /\ UNCHANGED <<sentTo, queues, item, client, got, lapsed>>
      BY <2>6 DEF WriteReply
    <3>2. QED
      BY <3>1, QuietStep DEF Has, Alive, TypeOK
  <2>7. ASSUME NEW c \in Conn, Read(c) PROVE Custody'
    <3>1. /\ got' = [got EXCEPT ![c] = inbox[c]] /\ got[c] = NoMsg /\ Alive(c)
          /\ inbox' = [inbox EXCEPT ![c] = NoMsg]
          /\ UNCHANGED <<sentTo, queues, item, client, lapsed>>
      BY <2>7 DEF Read, Protocol, Alive
    <3>2. QED
      BY <3>1, QuietStep DEF Has, Alive, TypeOK, Message, NoMsg
  <2>8. ASSUME NEW c \in Conn, Request(c) PROVE Custody'
    <3>1. /\ client' = [client EXCEPT ![c] = "reading"] /\ inbox[c] = NoMsg
          /\ UNCHANGED <<sentTo, queues, item, inbox, got, lapsed>>
      BY <2>8 DEF Request, Protocol
    <3>2. QED
      BY <3>1, QuietStep DEF Has, Alive, TypeOK, Message, NoMsg
  <2>9. ASSUME NEW c \in Conn, Close(c) \/ Purge(c) \/ Stall(c) \/ Resume(c) PROVE Custody'
    <3>1. /\ UNCHANGED <<sentTo, queues, item, got, lapsed>>
          /\ \A d \in Conn, m \in Message : Alive(d)' /\ inbox'[d] = m => Alive(d) /\ inbox[d] = m
      BY <2>9 DEF Close, Purge, Stall, Resume, Alive, TypeOK, Message, NoMsg
    <3>2. QED
      BY <3>1, QuietStep DEF Has
  <2>10. ASSUME UNCHANGED <<sentTo, queues, item, client, inbox, got, lapsed>> PROVE Custody'
    BY <2>10, QuietStep DEF Has, Alive
  <2>11. ASSUME NEW c \in Conn,
                \/ Park(c) \/ ReplyTimeout(c) \/ PollInterval(c) \/ CheckAlive(c)
                \/ WriteFails(c) \/ PollFlags(c) \/ CountUnread(c) \/ (Recheck(c) /\ reset[c])
                \/ DeadlinePasses(c) \/ AckTimeoutPasses(c)
         PROVE  Custody'
    BY <2>10, <2>11 DEF Park, ReplyTimeout, PollInterval, CheckAlive, WriteFails, PollFlags,
                        CountUnread, Recheck, DeadlinePasses, AckTimeoutPasses
  <2>12. CASE UNCHANGED vars
    BY <2>10, <2>12 DEF vars
  <2>13. QED
    BY <2>1, <2>2, <2>3, <2>4, <2>5, <2>6, <2>7, <2>8, <2>9, <2>11, <2>12
       DEF Next, Thread, Client, Loop, Deliver
<1>3. QED
  BY <1>1, <1>2, Shape, ProtocolHolds, PTL DEF Spec, MInv
-----------------------------------------------------------------------------
(* The theorems. *)

\* The inductive invariant holds throughout.
LEMMA Inductive == Spec => []MInv
BY Shape, ProtocolHolds, CustodyHolds, PTL DEF MInv

\* No message that send accepted is ever lost, wherever each client dies.
THEOREM DequeueOnAck == Spec => []NothingLost
<1>1. MInv => NothingLost
  BY DEF MInv, Custody
<1>2. QED
  BY <1>1, Inductive, PTL

\* A message waits at most once, under the name it was sent to.
THEOREM NoDuplicateInQueue == Spec => []QueuedOnce
<1>1. MInv => QueuedOnce
  BY DEF MInv, Custody, Queued, QueuedOnce
<1>2. QED
  BY <1>1, Inductive, PTL

\* A message that a client read is never handed to anyone again.
THEOREM ReadOnlyOnce == Spec => []ReadOnce
<1>1. MInv => ReadOnce
  <2> SUFFICES ASSUME MInv, NEW c \in Conn, got[c] # NoMsg
               PROVE  /\ ~InQueue(got[c])
                      /\ \A d \in Conn \ {c} : /\ got[c] \notin {got[d], item[d]}
                                               /\ Alive(d) => inbox[d] # got[c]
    BY DEF ReadOnce
  <2>1. got[c] \in Message /\ Has(c, got[c])
    BY DEF MInv, TypeOK, Has
  <2>2. ~InQueue(got[c])
    BY <2>1 DEF MInv, Custody, OutOfQueue
  <2>3. \A d \in Conn \ {c} : ~Has(d, got[c])
    BY <2>1 DEF MInv, Custody, OneHolder
  <2>4. QED
    BY <2>2, <2>3 DEF Has
<1>2. QED
  BY <1>1, Inductive, PTL

\* A recv thread never sleeps beside mail it could take.
THEOREM NoLostWakeup == Spec => []NoSleepOnMail
<1>1. Init => NoSleepOnMail
  BY DEF Init, NoSleepOnMail
<1>2. TypeOK /\ NoSleepOnMail /\ [Next]_vars => NoSleepOnMail'
  <2> SUFFICES ASSUME TypeOK, NoSleepOnMail, [Next]_vars, NEW d \in Conn, pc'[d] = "wait"
               PROVE  queues'[handleOf[d]] = <<>>
    BY DEF NoSleepOnMail
  <2> USE MailboxAssumption DEF TypeOK, NoSleepOnMail, Goto, threadVars, socketVars
  <2>1. ASSUME NEW h \in Handle, Send(h) PROVE FALSE
    BY <2>1 DEF Send, Notified
  <2>2. ASSUME NEW c \in Conn, RequeueFront(c) PROVE FALSE
    BY <2>2 DEF RequeueFront, Notified
  <2>3. ASSUME NEW c \in Conn, Reserve(c) PROVE queues'[handleOf[d]] = <<>>
    BY <2>3 DEF Reserve
  <2>4. ASSUME NEW c \in Conn,
               \/ Park(c) \/ ReplyTimeout(c) \/ PollInterval(c) \/ CheckAlive(c) \/ Request(c)
               \/ WriteReply(c) \/ WriteFails(c) \/ PollFlags(c) \/ CountUnread(c)
        PROVE  queues'[handleOf[d]] = <<>>
    BY <2>4 DEF Park, ReplyTimeout, PollInterval, CheckAlive, Request, WriteReply, WriteFails,
                PollFlags, CountUnread
  <2>5. ASSUME NEW c \in Conn, PollHangup(c) \/ Recheck(c) \/ GiveUp(c)
        PROVE  queues'[handleOf[d]] = <<>>
    BY <2>5 DEF PollHangup, Recheck, GiveUp, Consume
  <2>6. ASSUME NEW c \in Conn, \/ Client(c) \/ DeadlinePasses(c) \/ AckTimeoutPasses(c)
        PROVE  queues'[handleOf[d]] = <<>>
    BY <2>6 DEF Client, Read, Close, Purge, Stall, Resume, DeadlinePasses, AckTimeoutPasses
  <2>7. CASE UNCHANGED vars
    BY <2>7 DEF vars
  <2>8. QED
    BY <2>1, <2>2, <2>3, <2>4, <2>5, <2>6, <2>7 DEF Next, Thread, Loop, Deliver
<1>3. QED
  BY <1>1, <1>2, TypeCorrect, PTL DEF Spec

\* Only a client that may stall is stalled, and only its wait reaches ACK_TIMEOUT.
OnlyStallersAreLate == \A c \in Conn :
    /\ client[c] = "stalled" => c \in Staller
    /\ pc[c] \in {"poll", "outq"} /\ late[c] => c \in Staller

\* Nothing is written off but for a client that kept a reply unread for the whole
\* of ACK_TIMEOUT.
THEOREM WrittenOffForAStall == Spec => []LapseNeedsStall
<1>1. Init => OnlyStallersAreLate /\ LapseNeedsStall
  BY DEF Init, OnlyStallersAreLate, LapseNeedsStall
<1>2. TypeOK /\ OnlyStallersAreLate /\ [Next]_vars => OnlyStallersAreLate'
  <2> SUFFICES ASSUME TypeOK, OnlyStallersAreLate, [Next]_vars, NEW d \in Conn
               PROVE  /\ client'[d] = "stalled" => d \in Staller
                      /\ pc'[d] \in {"poll", "outq"} /\ late'[d] => d \in Staller
    BY DEF OnlyStallersAreLate
  <2> USE DEF TypeOK, OnlyStallersAreLate, Goto, threadVars, socketVars
  <2>1. ASSUME NEW h \in Handle, Send(h)
        PROVE  /\ client'[d] = "stalled" => d \in Staller
               /\ pc'[d] \in {"poll", "outq"} /\ late'[d] => d \in Staller
    BY <2>1 DEF Send, Notified
  <2>2. ASSUME NEW c \in Conn,
               \/ Park(c) \/ ReplyTimeout(c) \/ PollInterval(c) \/ CheckAlive(c) \/ Request(c)
               \/ WriteReply(c) \/ WriteFails(c) \/ PollFlags(c) \/ CountUnread(c) \/ Reserve(c)
        PROVE  /\ client'[d] = "stalled" => d \in Staller
               /\ pc'[d] \in {"poll", "outq"} /\ late'[d] => d \in Staller
    BY <2>2 DEF Park, ReplyTimeout, PollInterval, CheckAlive, Request, WriteReply, WriteFails,
                PollFlags, CountUnread, Reserve
  <2>3. ASSUME NEW c \in Conn, PollHangup(c) \/ Recheck(c) \/ GiveUp(c) \/ RequeueFront(c)
        PROVE  /\ client'[d] = "stalled" => d \in Staller
               /\ pc'[d] \in {"poll", "outq"} /\ late'[d] => d \in Staller
    BY <2>3 DEF PollHangup, Recheck, GiveUp, Consume, RequeueFront, Notified
  <2>4. ASSUME NEW c \in Conn, DeadlinePasses(c) \/ AckTimeoutPasses(c)
        PROVE  /\ client'[d] = "stalled" => d \in Staller
               /\ pc'[d] \in {"poll", "outq"} /\ late'[d] => d \in Staller
    BY <2>4 DEF DeadlinePasses, AckTimeoutPasses, Looping
  <2>5. ASSUME NEW c \in Conn, Client(c)
        PROVE  /\ client'[d] = "stalled" => d \in Staller
               /\ pc'[d] \in {"poll", "outq"} /\ late'[d] => d \in Staller
    BY <2>5 DEF Client, Read, Close, Purge, Stall, Resume
  <2>6. CASE UNCHANGED vars
    BY <2>6 DEF vars
  <2>7. QED
    BY <2>1, <2>2, <2>3, <2>4, <2>5, <2>6 DEF Next, Thread, Loop, Deliver
<1>3. MInv /\ OnlyStallersAreLate /\ LapseNeedsStall /\ [Next]_vars => LapseNeedsStall'
  <2> SUFFICES ASSUME MInv, OnlyStallersAreLate, LapseNeedsStall, [Next]_vars
               PROVE  LapseNeedsStall'
    OBVIOUS
  <2> USE DEF MInv, Goto, threadVars, socketVars
  <2>1. \A m \in 1..Len(sentTo) : sentTo'[m] = sentTo[m]
    <3>1. CASE \E h \in Handle : Send(h)
      BY <3>1, SendMakesKnown DEF Known
    <3>2. CASE UNCHANGED sentTo
      BY <3>2
    <3>3. QED
      BY <3>1, <3>2 DEF Next, vars, Thread, Loop, Deliver, Client, Park, ReplyTimeout, PollInterval,
         CheckAlive, Request, WriteReply, WriteFails, PollFlags, CountUnread, Reserve, PollHangup,
         Recheck, GiveUp, Consume, RequeueFront, DeadlinePasses, AckTimeoutPasses, Read, Close,
         Purge, Stall, Resume
  <2>2. \A c \in Conn : pc[c] = "done" /\ late[c] => pc'[c] = "done" /\ late'[c]
    <3>1. ASSUME NEW h \in Handle, Send(h)
          PROVE  \A c \in Conn : pc[c] = "done" /\ late[c] => pc'[c] = "done" /\ late'[c]
      BY <3>1 DEF Send, Notified
    <3>2. ASSUME NEW d \in Conn, Request(d) \/ Loop(d)
          PROVE  \A c \in Conn : pc[c] = "done" /\ late[c] => pc'[c] = "done" /\ late'[c]
      BY <3>2 DEF TypeOK, Request, Loop, Reserve, Park, ReplyTimeout, PollInterval, CheckAlive
    <3>3. ASSUME NEW d \in Conn, Deliver(d)
          PROVE  \A c \in Conn : pc[c] = "done" /\ late[c] => pc'[c] = "done" /\ late'[c]
      BY <3>3 DEF TypeOK, Deliver, WriteReply, WriteFails, PollFlags, PollHangup, CountUnread,
                  Recheck, GiveUp, Consume
    <3>4. ASSUME NEW d \in Conn, \/ RequeueFront(d) \/ Client(d)
                                 \/ DeadlinePasses(d) \/ AckTimeoutPasses(d)
          PROVE  \A c \in Conn : pc[c] = "done" /\ late[c] => pc'[c] = "done" /\ late'[c]
      BY <3>4 DEF TypeOK, RequeueFront, Notified, Client, Read, Close, Purge, Stall, Resume,
                  DeadlinePasses, AckTimeoutPasses
    <3>5. CASE UNCHANGED vars
      BY <3>5 DEF vars
    <3>6. QED
      BY <3>1, <3>2, <3>3, <3>4, <3>5 DEF Next, Thread
  <2>3. ASSUME NEW m \in lapsed
        PROVE  \E c \in Staller : pc'[c] = "done" /\ late'[c] /\ sentTo'[m] = handleOf[c]
    <3>1. PICK c \in Staller : pc[c] = "done" /\ late[c] /\ sentTo[m] = handleOf[c]
      BY DEF LapseNeedsStall
    <3>2. sentTo'[m] = sentTo[m]
      BY <2>1 DEF Custody, Lapsed, Known
    <3>3. c \in Conn
      BY MailboxAssumption
    <3>4. QED
      BY <2>2, <3>1, <3>2, <3>3
  <2>4. ASSUME NEW d \in Conn, GiveUp(d), NEW m \in lapsed' \ lapsed
        PROVE  \E c \in Staller : pc'[c] = "done" /\ late'[c] /\ sentTo'[m] = handleOf[c]
    <3>1. m = inbox[d] /\ m # NoMsg /\ pc[d] \in {"poll", "outq"} /\ late[d]
      BY <2>4 DEF GiveUp
    <3>2. m = item[d] /\ m \in Message
      BY <3>1 DEF Protocol, HandsFull, Holding, Delivering, TypeOK
    <3>3. Known(m) /\ sentTo[m] = handleOf[d]
      BY <3>2 DEF Custody, OutOfQueue, Has
    <3>4. pc'[d] = "done" /\ late'[d] /\ sentTo' = sentTo
      BY <2>4, <3>1 DEF GiveUp, Consume, TypeOK
    <3>5. d \in Staller
      BY <3>1 DEF OnlyStallersAreLate
    <3>6. QED
      BY <3>3, <3>4, <3>5
  <2>5. lapsed' = lapsed \/ \E d \in Conn : GiveUp(d)
    BY DEF Next, vars, Thread, Loop, Deliver, Client, Send, Park, ReplyTimeout, PollInterval,
       CheckAlive, Request, WriteReply, WriteFails, PollFlags, CountUnread, Reserve, PollHangup,
       Recheck, Consume, RequeueFront, DeadlinePasses, AckTimeoutPasses, Read, Close, Purge,
       Stall, Resume
  <2>6. QED
    BY <2>3, <2>4, <2>5 DEF LapseNeedsStall
<1>4. QED
  BY <1>1, <1>2, <1>3, Inductive, TypeCorrect, PTL DEF Spec
=============================================================================
