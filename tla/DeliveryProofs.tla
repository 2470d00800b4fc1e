---------------------------- MODULE DeliveryProofs --------------------------
(* Mailbox implements Delivery: each of its steps moves at most one message,  *)
(* and only as Delivery allows.                                               *)
EXTENDS MailboxProofs

-----------------------------------------------------------------------------
(* Where a message is. *)

Taken(m)    == \E c \in Conn : item[c] = m
ReadBy(m)   == \E c \in Conn : got[c] = m

\* A message in somebody's hands is in no queue, and one in a thread's hands is read
\* by nobody else and not written off.
LEMMA PlaceOfTaken ==
    ASSUME MInv, NEW c \in Conn, NEW m \in Message, m # NoMsg, item[c] = m, got[c] # m
    PROVE  Known(m) /\ PlaceOf(m) = "reserved"
<1>1. Has(c, m) BY DEF Has
<1>2. Known(m) /\ ~InQueue(m) BY <1>1 DEF MInv, Custody, OutOfQueue
<1>3. ~\E d \in Conn : got[d] = m
  BY <1>1 DEF MInv, Custody, OneHolder, Has
<1>4. m \notin lapsed BY DEF MInv, Custody, Lapsed
<1> QED BY <1>2, <1>3, <1>4 DEF PlaceOf

\* A queued message is in the place Delivery calls queued.
LEMMA PlaceOfQueued ==
    ASSUME NEW m, InQueue(m)
    PROVE  PlaceOf(m) = "queued"
BY DEF PlaceOf

\* What has not moved is where it was.
LEMMA SamePlace ==
    ASSUME NEW m, InQueue(m)' <=> InQueue(m), ReadBy(m)' <=> ReadBy(m),
           (m \in lapsed)' <=> m \in lapsed, Taken(m)' <=> Taken(m)
    PROVE  PlaceOf(m)' = PlaceOf(m)
BY DEF PlaceOf, ReadBy, Taken

\* A step that moves one message is a step of Delivery ...
LEMMA MoveOne ==
    ASSUME NEW n \in 1..Len(sentTo), sentTo' = sentTo, NEW a, NEW b,
           \A m \in 1..Len(sentTo) \ {n} : PlaceOf(m)' = PlaceOf(m),
           PlaceOf(n) = a, PlaceOf(n)' = b
    PROVE  Promise!Move(n, a, b)
BY DEF Promise!Move

\* ... and one that moves none is a stutter.
LEMMA MoveNone ==
    ASSUME sentTo' = sentTo, \A m \in 1..Len(sentTo) : PlaceOf(m)' = PlaceOf(m)
    PROVE  UNCHANGED Promise!vars
BY DEF Promise!vars

\* A step that touches no queue, no hand and no receipt is a stutter of Delivery.
LEMMA Quiet ==
    ASSUME UNCHANGED <<sentTo, queues, item, got, lapsed>>
    PROVE  UNCHANGED Promise!vars
<1>1. ASSUME NEW m \in 1..Len(sentTo) PROVE PlaceOf(m)' = PlaceOf(m)
  BY SamePlace DEF InQueue, ReadBy, Taken
<1> QED BY <1>1, MoveNone

-----------------------------------------------------------------------------
(* The steps that move a message. *)

\* _m_send accepts.
LEMMA SendAccepts == ASSUME MInv, NEW h \in Handle, Send(h) PROVE Promise!Accept(h)
<1>n. PICK n : n = Len(sentTo) + 1 OBVIOUS
<1>0. TypeOK BY DEF MInv
<1>1. /\ n \in Message /\ ~Known(n)
      /\ \A m : Known(m)' <=> Known(m) \/ m = n
  BY <1>0, <1>n, SendMakesKnown
<1>2. n \notin Range(queues[h]) /\ queues[h] \in Seq(Message) /\ IsInjective(queues[h])
  BY <1>0, <1>1 DEF MInv, Custody, Queued, TypeOK
<1>3. /\ queues'[h] = Append(queues[h], n)
      /\ \A k \in Handle \ {h} : queues'[k] = queues[k]
  BY <1>0, <1>n DEF Send, TypeOK
<1>4. Range(queues'[h]) = Range(queues[h]) \cup {n}
  BY <1>1, <1>2, <1>3, AppendRange
<1>5. \A m : InQueue(m)' <=> InQueue(m) \/ m = n
  BY <1>3, <1>4 DEF InQueue
<1>6. UNCHANGED <<item, got, lapsed>> BY DEF Send, socketVars
<1>7. ASSUME NEW m \in 1..Len(sentTo) PROVE PlaceOf(m)' = PlaceOf(m)
  <2>1. m # n BY <1>1 DEF Known
  <2> QED BY <1>5, <1>6, <2>1, SamePlace DEF ReadBy, Taken
<1>8. PlaceOf(n)' = "queued"
  <2>1. InQueue(n)' BY <1>5
  <2> QED BY <2>1 DEF PlaceOf
<1>9. /\ Len(sentTo) < MaxMsg /\ sentTo' = Append(sentTo, h) /\ Len(sentTo) \in Nat
      /\ Len(sentTo') = Len(sentTo) + 1
  BY <1>0 DEF Send, TypeOK
<1>10. [m \in 1..Len(sentTo') |-> PlaceOf(m)']
         = [m \in 1..(Len(sentTo) + 1) |->
              IF m <= Len(sentTo) THEN [k \in 1..Len(sentTo) |-> PlaceOf(k)][m] ELSE "queued"]
  <2>1. ASSUME NEW m \in 1..(Len(sentTo) + 1)
        PROVE  PlaceOf(m)' = IF m <= Len(sentTo) THEN [k \in 1..Len(sentTo) |-> PlaceOf(k)][m]
                             ELSE "queued"
    <3>1. CASE m <= Len(sentTo)
      <4>1. m \in 1..Len(sentTo) BY <1>9, <3>1
      <4> QED BY <1>7, <3>1, <4>1
    <3>2. CASE ~(m <= Len(sentTo))
      <4>1. m = n BY <1>9, <1>n, <3>2
      <4> QED BY <1>8, <3>2, <4>1
    <3> QED BY <3>1, <3>2
  <2> QED BY <1>9, <2>1
<1> QED BY <1>9, <1>10 DEF Promise!Accept

\* popleft reserves.
LEMMA ReserveReserves ==
    ASSUME MInv, NEW c \in Conn, Reserve(c)
    PROVE  \E n \in 1..Len(sentTo) : Promise!Reserve(n)
<1> DEFINE h == handleOf[c]
<1>n. PICK n : n = Head(queues[h]) OBVIOUS
<1>0. TypeOK BY DEF MInv
<1>1. /\ h \in Handle /\ queues[h] # <<>> /\ queues[h] \in Seq(Message)
      /\ IsInjective(queues[h])
  BY <1>0, MailboxAssumption DEF Reserve, TypeOK, MInv, Custody, Queued
<1>2. n \in Range(queues[h]) /\ Range(Tail(queues[h])) = Range(queues[h]) \ {n}
  BY <1>1, <1>n, TailRange
<1>3. /\ queues'[h] = Tail(queues[h])
      /\ \A k \in Handle \ {h} : queues'[k] = queues[k]
  BY <1>0, <1>1 DEF Reserve, TypeOK
<1>4. /\ InQueue(n) /\ Known(n)
      /\ \A k \in Handle \ {h} : n \notin Range(queues[k])
  <2>1. InQueue(n) BY <1>1, <1>2 DEF InQueue
  <2>2. Known(n) /\ \A k \in Handle \ {h} : n \notin Range(queues[k])
    BY <1>1, <1>2 DEF MInv, Custody, Queued
  <2> QED BY <2>1, <2>2
<1>5. \A m : InQueue(m)' <=> InQueue(m) /\ m # n
  BY <1>1, <1>2, <1>3, <1>4 DEF InQueue
<1>6. /\ item'[c] = n /\ item[c] = NoMsg
      /\ \A d \in Conn \ {c} : item'[d] = item[d]
  BY <1>0, <1>n DEF Reserve, TypeOK, MInv, HandsFull, Holding, Delivering
<1>7. n \in Message /\ n # NoMsg BY <1>0, <1>4, KnownIsMessage
<1>8. UNCHANGED <<sentTo, got, lapsed>> BY DEF Reserve, socketVars
<1>9. n \notin lapsed /\ \A d \in Conn : got[d] # n
  <2>1. n \notin lapsed BY <1>4 DEF MInv, Custody, Lapsed
  <2>2. \A d \in Conn : ~Has(d, n) BY <1>4, <1>7 DEF MInv, Custody, OutOfQueue
  <2> QED BY <2>1, <2>2 DEF Has
<1>10. PlaceOf(n)' = "reserved"
  <2>1. ~InQueue(n)' BY <1>5
  <2>2. (\E d \in Conn : item[d] = n)' BY <1>6
  <2>3. ~(\E d \in Conn : got[d] = n)' /\ ~(n \in lapsed)' BY <1>8, <1>9
  <2> QED BY <2>1, <2>2, <2>3 DEF PlaceOf
<1>11. ASSUME NEW m \in 1..Len(sentTo) \ {n} PROVE PlaceOf(m)' = PlaceOf(m)
  <2>1. m # NoMsg /\ m # n BY DEF NoMsg
  <2>2. Taken(m)' <=> Taken(m) BY <1>6, <2>1 DEF Taken
  <2> QED BY <1>5, <1>8, <2>1, <2>2, SamePlace DEF ReadBy
<1>12. PlaceOf(n) = "queued" BY <1>4, PlaceOfQueued
<1>13. n \in 1..Len(sentTo) BY <1>4 DEF Known
<1>14. Promise!Move(n, "queued", "reserved")
  BY <1>8, <1>10, <1>11, <1>12, <1>13, MoveOne
<1> QED BY <1>13, <1>14 DEF Promise!Reserve

\* requeue_front puts back.
LEMMA RequeuePutsBack ==
    ASSUME MInv, NEW c \in Conn, RequeueFront(c)
    PROVE  \E n \in 1..Len(sentTo) : Promise!PutBack(n)
<1> DEFINE h == handleOf[c]
<1>n. PICK n : n = item[c] OBVIOUS
<1>0. TypeOK BY DEF MInv
<1>1. /\ h \in Handle /\ queues[h] \in Seq(Message) /\ IsInjective(queues[h])
      /\ n \in Message /\ n # NoMsg
  BY <1>0, <1>n, MailboxAssumption
  DEF RequeueFront, TypeOK, MInv, Custody, Queued, HandsFull, Holding, Message, NoMsg
<1>2. got[c] = NoMsg BY DEF RequeueFront, MInv, Protocol
<1>3. Known(n) /\ PlaceOf(n) = "reserved" BY <1>1, <1>2, <1>n, PlaceOfTaken
<1>4. ~InQueue(n) BY <1>3, PlaceOfQueued
<1>5. Range(<<n>> \o queues[h]) = Range(queues[h]) \cup {n}
  BY <1>1, <1>4, FrontRange DEF InQueue
<1>6. /\ queues'[h] = <<n>> \o queues[h]
      /\ \A k \in Handle \ {h} : queues'[k] = queues[k]
  BY <1>0, <1>1, <1>n DEF RequeueFront, TypeOK
<1>7. \A m : InQueue(m)' <=> InQueue(m) \/ m = n
  BY <1>1, <1>5, <1>6 DEF InQueue
<1>8. /\ item'[c] = NoMsg
      /\ \A d \in Conn \ {c} : item'[d] = item[d]
      /\ UNCHANGED <<sentTo, got, lapsed>>
  BY <1>0 DEF RequeueFront, TypeOK, socketVars
<1>9. PlaceOf(n)' = "queued"
  <2>1. InQueue(n)' BY <1>7
  <2> QED BY <2>1 DEF PlaceOf
<1>10. ASSUME NEW m \in 1..Len(sentTo) \ {n} PROVE PlaceOf(m)' = PlaceOf(m)
  <2>1. m # NoMsg /\ m # n BY DEF NoMsg
  <2>2. Taken(m)' <=> Taken(m) BY <1>8, <1>n, <2>1 DEF Taken
  <2> QED BY <1>7, <1>8, <2>1, <2>2, SamePlace DEF ReadBy
<1>11. n \in 1..Len(sentTo) BY <1>3 DEF Known
<1>12. Promise!Move(n, "reserved", "queued") BY <1>3, <1>8, <1>9, <1>10, <1>11, MoveOne
<1> QED BY <1>11, <1>12 DEF Promise!PutBack

\* A thread lets go of a message that its client has read.
LEMMA ConsumeIsQuiet ==
    ASSUME MInv, NEW c \in Conn, item[c] = got[c], item' = [item EXCEPT ![c] = NoMsg],
           UNCHANGED <<sentTo, queues, got, lapsed>>
    PROVE  UNCHANGED Promise!vars
<1>1. ASSUME NEW m \in 1..Len(sentTo) PROVE PlaceOf(m)' = PlaceOf(m)
  <2>1. m # NoMsg BY DEF NoMsg
  <2>2. InQueue(m)' <=> InQueue(m) BY DEF InQueue
  <2>3. CASE item[c] = m
    <3>1. ReadBy(m) /\ ReadBy(m)' BY <2>3 DEF ReadBy
    <3> QED BY <2>2, <3>1 DEF PlaceOf, ReadBy
  <2>4. CASE item[c] # m
    <3>1. Taken(m)' <=> Taken(m) BY <2>1, <2>4 DEF Taken, MInv, TypeOK
    <3> QED BY <2>2, <3>1, SamePlace DEF ReadBy
  <2> QED BY <2>3, <2>4
<1> QED BY <1>1, MoveNone

\* Seeing the receipt changes nothing that Delivery promises.
LEMMA ReceiptIsQuiet ==
    ASSUME MInv, NEW c \in Conn, PollHangup(c) \/ (Recheck(c) /\ ~reset[c])
    PROVE  UNCHANGED Promise!vars
<1>1. got[c] = item[c]
  BY DEF PollHangup, Recheck, MInv, Protocol, HandsFull, Holding, Delivering
<1>2. item' = [item EXCEPT ![c] = NoMsg] /\ UNCHANGED <<sentTo, queues, lapsed, got>>
  BY DEF PollHangup, Recheck, Consume, socketVars
<1> QED BY <1>1, <1>2, ConsumeIsQuiet

\* Running out of ACK_TIMEOUT writes off what was not read.
LEMMA GiveUpWritesOff ==
    ASSUME MInv, NEW c \in Conn, GiveUp(c)
    PROVE  \/ UNCHANGED Promise!vars
           \/ \E n \in 1..Len(sentTo) : Promise!WriteOff(n)
<1>n. PICK n : n = item[c] OBVIOUS
<1>0. TypeOK BY DEF MInv
<1>1. n \in Message /\ n # NoMsg
  BY <1>0, <1>n DEF GiveUp, TypeOK, MInv, HandsFull, Holding, Delivering, Message, NoMsg
<1>2. item' = [item EXCEPT ![c] = NoMsg] /\ UNCHANGED <<sentTo, queues, got>>
  BY DEF GiveUp, Consume, socketVars
<1>3. CASE inbox[c] = NoMsg
  <2>1. got[c] = n /\ lapsed' = lapsed
    BY <1>1, <1>3, <1>n DEF GiveUp, MInv, Protocol
  <2> QED BY <1>2, <1>n, <2>1, ConsumeIsQuiet
<1>4. CASE inbox[c] # NoMsg
  <2>1. inbox[c] = n /\ got[c] = NoMsg BY <1>1, <1>4, <1>n DEF MInv, Protocol
  <2>2. Known(n) /\ PlaceOf(n) = "reserved" BY <1>1, <1>n, <2>1, PlaceOfTaken
  <2>3. lapsed' = lapsed \cup {n} BY <1>1, <2>1 DEF GiveUp
  <2>4. \A m : InQueue(m)' <=> InQueue(m) BY <1>2 DEF InQueue
  <2>5. PlaceOf(n)' = "lapsed"
    <3>1. ~InQueue(n)' BY <2>2, <2>4, PlaceOfQueued
    <3>2. ~ReadBy(n)
      <4>1. Has(c, n) BY <1>n DEF Has
      <4> QED BY <1>1, <2>1, <4>1 DEF MInv, Custody, OneHolder, Has, ReadBy
    <3>3. ~ReadBy(n)' BY <1>2, <3>2 DEF ReadBy
    <3> QED BY <2>3, <3>1, <3>3 DEF PlaceOf, ReadBy
  <2>6. ASSUME NEW m \in 1..Len(sentTo) \ {n} PROVE PlaceOf(m)' = PlaceOf(m)
    <3>1. m # NoMsg /\ m # n BY DEF NoMsg
    <3>2. Taken(m)' <=> Taken(m) BY <1>0, <1>2, <1>n, <3>1 DEF Taken, TypeOK
    <3>3. (m \in lapsed)' <=> m \in lapsed BY <2>3, <3>1
    <3> QED BY <1>2, <2>4, <3>2, <3>3, SamePlace DEF ReadBy
  <2>7. n \in 1..Len(sentTo) BY <2>2 DEF Known
  <2>8. Promise!Move(n, "reserved", "lapsed") BY <1>2, <2>2, <2>5, <2>6, <2>7, MoveOne
  <2> QED BY <2>7, <2>8 DEF Promise!WriteOff
<1> QED BY <1>3, <1>4

\* A client that reads its reply receives it, late if it was written off.
LEMMA ReadReceives ==
    ASSUME MInv, NEW c \in Conn, Read(c)
    PROVE  \E n \in 1..Len(sentTo) : Promise!Receive(n) \/ Promise!ReceiveLate(n)
<1>n. PICK n : n = inbox[c] OBVIOUS
<1>0. TypeOK BY DEF MInv
<1>1. n \in Message /\ n # NoMsg /\ Alive(c) BY <1>0, <1>n DEF Read, TypeOK, Alive
<1>2. got[c] = NoMsg /\ item[c] \in {NoMsg, n} BY <1>1, <1>n DEF MInv, Protocol
<1>3. Has(c, n) BY <1>1, <1>n DEF Has
<1>4. Known(n) /\ ~InQueue(n) BY <1>1, <1>3 DEF MInv, Custody, OutOfQueue
<1>5. \A d \in Conn : Has(d, n) => d = c BY <1>1, <1>3 DEF MInv, Custody, OneHolder
<1>6. ~ReadBy(n) BY <1>1, <1>2, <1>5 DEF ReadBy, Has
<1>7. got' = [got EXCEPT ![c] = n] /\ UNCHANGED <<sentTo, queues, item, lapsed>>
  BY <1>n DEF Read, threadVars
<1>8. \A m : InQueue(m)' <=> InQueue(m) BY <1>7 DEF InQueue
<1>9. PlaceOf(n)' = "received"
  <2>1. got'[c] = n BY <1>0, <1>7 DEF TypeOK
  <2>2. ~InQueue(n)' BY <1>4, <1>8
  <2> QED BY <2>1, <2>2 DEF PlaceOf
<1>10. ASSUME NEW m \in 1..Len(sentTo) \ {n} PROVE PlaceOf(m)' = PlaceOf(m)
  <2>1. m # NoMsg /\ m # n BY DEF NoMsg
  <2>2. ReadBy(m)' <=> ReadBy(m) BY <1>0, <1>2, <1>7, <2>1 DEF ReadBy, TypeOK
  <2> QED BY <1>7, <1>8, <2>2, SamePlace DEF Taken
<1>11. n \in 1..Len(sentTo) BY <1>4 DEF Known
<1>12. CASE item[c] = n
  <2>1. PlaceOf(n) = "reserved" BY <1>1, <1>2, <1>12, PlaceOfTaken
  <2>2. Promise!Move(n, "reserved", "received") BY <1>7, <1>9, <1>10, <1>11, <2>1, MoveOne
  <2> QED BY <1>11, <2>2 DEF Promise!Receive
<1>13. CASE item[c] # n
  <2>1. ~\E d \in Conn : item[d] = n BY <1>1, <1>5, <1>13 DEF Has
  <2>2. n \in lapsed BY <1>4, <1>6, <1>11, <2>1 DEF MInv, Custody, NothingLost, ReadBy
  <2>3. PlaceOf(n) = "lapsed" BY <1>4, <1>6, <2>2 DEF PlaceOf, ReadBy
  <2>4. Promise!Move(n, "lapsed", "received") BY <1>7, <1>9, <1>10, <1>11, <2>3, MoveOne
  <2> QED BY <1>11, <2>4 DEF Promise!ReceiveLate
<1> QED BY <1>12, <1>13

-----------------------------------------------------------------------------
\* Every step of the queues, threads and clients is one that Delivery allows, or none
\* of its business: messages wait, are reserved, and from there are received, put back
\* or written off, and nothing else becomes of them.
THEOREM MailboxKeepsPromise == Spec => KeepsPromise
<1>1. Init => Promise!Init
  <2> SUFFICES ASSUME Init PROVE Promise!Init OBVIOUS
  <2>1. sentTo = <<>> /\ Len(sentTo) = 0 BY DEF Init
  <2>2. 1..Len(sentTo) = {} BY <2>1
  <2> QED BY <2>1, <2>2 DEF Promise!Init
<1>2. MInv /\ [Next]_vars => [Promise!Next]_(Promise!vars)
  <2> SUFFICES ASSUME MInv, [Next]_vars PROVE Promise!Next \/ UNCHANGED Promise!vars
    OBVIOUS
  <2>1. CASE \E h \in Handle : Send(h)
    BY <2>1, SendAccepts DEF Promise!Next
  <2>2. CASE \E c \in Conn : Reserve(c) \/ RequeueFront(c)
    BY <2>2, ReserveReserves, RequeuePutsBack DEF Promise!Next
  <2>3. CASE \E c \in Conn : GiveUp(c) \/ Read(c)
    BY <2>3, GiveUpWritesOff, ReadReceives DEF Promise!Next
  <2>4. CASE \E c \in Conn : PollHangup(c) \/ (Recheck(c) /\ ~reset[c])
    BY <2>4, ReceiptIsQuiet
  <2>5. ASSUME NEW c \in Conn,
               \/ Request(c) \/ Park(c) \/ ReplyTimeout(c) \/ PollInterval(c) \/ CheckAlive(c)
               \/ WriteReply(c) \/ WriteFails(c) \/ PollFlags(c) \/ CountUnread(c)
               \/ (Recheck(c) /\ reset[c]) \/ Close(c) \/ Purge(c) \/ Stall(c) \/ Resume(c)
               \/ DeadlinePasses(c) \/ AckTimeoutPasses(c)
        PROVE  UNCHANGED Promise!vars
    <3>1. UNCHANGED <<sentTo, queues, item, got, lapsed>>
      BY <2>5 DEF Request, Park, ReplyTimeout, PollInterval, CheckAlive, WriteReply,
         WriteFails, PollFlags, CountUnread, Recheck, Close, Purge, Stall, Resume,
         DeadlinePasses, AckTimeoutPasses, threadVars, socketVars
    <3> QED BY <3>1, Quiet
  <2>6. CASE UNCHANGED vars
    BY <2>6, Quiet DEF vars, threadVars, socketVars
  <2> QED BY <2>1, <2>2, <2>3, <2>4, <2>5, <2>6 DEF Next, Thread, Client, Loop, Deliver
<1> QED BY <1>1, <1>2, Inductive, PTL DEF Spec, KeepsPromise, Promise!Spec

-----------------------------------------------------------------------------
(* Mailbox delivers in sending order, as far as it does.                   *)


\* The queue is in sending order, and what a connection has is older.
Sorted(h) == \A i, j \in DOMAIN queues[h] : i < j => queues[h][i] < queues[h][j]
Behind(h) == \A c \in Conn, m \in Message :
                handleOf[c] = h /\ Has(c, m) => \A n \in Range(queues[h]) : m < n

\* A message that is out may go back to the front, so there must not be two of them,
\* and what was read of the handle's messages must be older than the one that is.
Unread(c) == item[c] # NoMsg /\ got[c] = NoMsg
Alone(h)  == \A c, d \in Conn :
                handleOf[c] = h /\ handleOf[d] = h /\ Out(c) /\ Out(d) => c = d
Newest(h) == \A c, d \in Conn :
                handleOf[c] = h /\ handleOf[d] = h /\ Unread(c) /\ got[d] # NoMsg
                   => got[d] < item[c]

Fifo == \A h \in Handle \ overlap : Sorted(h) /\ Behind(h) /\ Alone(h) /\ Newest(h)

-----------------------------------------------------------------------------

\* What append, popleft and appendleft do to an ascending queue.
Ascends(s) == \A i, j \in DOMAIN s : i < j => s[i] < s[j]

\* Append keeps a queue ascending.
LEMMA AppendAscends ==
    ASSUME NEW s \in Seq(Message), Ascends(s), NEW e \in Nat, \A n \in Range(s) : n < e
    PROVE  Ascends(Append(s, e))
<1>1. /\ Len(Append(s, e)) = Len(s) + 1
      /\ \A i \in 1..Len(s) : Append(s, e)[i] = s[i]
      /\ Append(s, e)[Len(s) + 1] = e
      /\ DOMAIN s = 1..Len(s) /\ DOMAIN Append(s, e) = 1..(Len(s) + 1)
  OBVIOUS
<1>2. \A i \in 1..Len(s) : s[i] < e
  BY <1>1 DEF Range
<1> QED BY <1>1, <1>2 DEF Ascends

\* popleft takes the least and keeps the rest ascending.
LEMMA TailAscends ==
    ASSUME NEW s \in Seq(Message), s # <<>>, Ascends(s)
    PROVE  /\ Ascends(Tail(s))
           /\ Head(s) \in Range(s)
           /\ \A n \in Range(Tail(s)) : n \in Range(s) /\ Head(s) < n
<1>1. /\ Len(s) \in Nat \ {0} /\ DOMAIN s = 1..Len(s)
      /\ Head(s) = s[1]
  BY HeadTailProperties
<1>2. /\ Tail(s) \in Seq(Message) /\ Len(Tail(s)) = Len(s) - 1
      /\ \A i \in 1..(Len(s) - 1) : Tail(s)[i] = s[i + 1]
  BY HeadTailProperties
<1>3. DOMAIN Tail(s) = 1..(Len(s) - 1)
  BY <1>1, <1>2
<1>4. Ascends(Tail(s))
  BY <1>1, <1>2, <1>3 DEF Ascends
<1>5. ASSUME NEW n \in Range(Tail(s)) PROVE n \in Range(s) /\ Head(s) < n
  <2>1. PICK i \in 1..(Len(s) - 1) : n = s[i + 1]
    BY <1>2, <1>3 DEF Range
  <2>2. i + 1 \in DOMAIN s /\ 1 \in DOMAIN s /\ 1 < i + 1
    BY <1>1
  <2> QED BY <1>1, <2>1, <2>2 DEF Ascends, Range
<1> QED BY <1>1, <1>4, <1>5 DEF Range

\* appendleft of what is less than all keeps a queue ascending.
LEMMA FrontAscends ==
    ASSUME NEW s \in Seq(Message), Ascends(s), NEW e \in Message, \A n \in Range(s) : e < n
    PROVE  Ascends(<<e>> \o s)
<1>1. /\ Len(<<e>> \o s) = Len(s) + 1
      /\ (<<e>> \o s)[1] = e
      /\ \A i \in 1..Len(s) : (<<e>> \o s)[i + 1] = s[i]
      /\ DOMAIN s = 1..Len(s) /\ DOMAIN (<<e>> \o s) = 1..(Len(s) + 1)
  OBVIOUS
<1>2. \A j \in 2..(Len(s) + 1) : (<<e>> \o s)[j] = s[j - 1] /\ j - 1 \in 1..Len(s)
  <2> TAKE j \in 2..(Len(s) + 1)
  <2>1. j - 1 \in 1..Len(s) /\ (j - 1) + 1 = j
    OBVIOUS
  <2> QED BY <1>1, <2>1
<1>3. \A i \in 1..Len(s) : e < s[i]
  BY <1>1 DEF Range
<1> QED BY <1>1, <1>2, <1>3 DEF Ascends

-----------------------------------------------------------------------------

\* What a thread still holds and its client has read is one message.
LEMMA ReadIsHeld ==
    ASSUME MInv, NEW c \in Conn, item[c] # NoMsg, got[c] # NoMsg PROVE item[c] = got[c]
BY DEF MInv, HandsFull, Holding, Delivering, Protocol

\* A step that changes no queue, lets no connection have what it did not have, and no
\* client read anything.
LEMMA QuietFifo ==
    ASSUME Fifo, UNCHANGED <<queues, overlap, got>>,
           \A c \in Conn : /\ \A m \in Message : Has(c, m)' => Has(c, m)
                           /\ Out(c)' => Out(c)
                           /\ item'[c] \in {item[c], NoMsg}
    PROVE  Fifo'
BY DEF Fifo, Sorted, Behind, Alone, Newest, Unread

\* A send puts the newest message last.
LEMMA SendFifo == ASSUME MInv, Fifo, NEW h \in Handle, Send(h) PROVE Fifo'
<1> USE DEF MInv, TypeOK
<1>1. PICK n : n = Len(sentTo) + 1
  OBVIOUS
<1>2. /\ n \in Nat /\ queues' = [queues EXCEPT ![h] = Append(queues[h], n)]
      /\ UNCHANGED <<item, client, inbox, got, overlap>>
  BY <1>1 DEF Send, socketVars
<1>3. \A m \in Range(queues[h]) : m < n
  BY <1>1 DEF Custody, Queued, Known
<1>4. \A c \in Conn, m \in Message : Has(c, m) => m < n
  BY <1>1 DEF Custody, OutOfQueue, Known
<1>5. \A k \in Handle \ {h} : queues'[k] = queues[k]
  BY <1>2
<1>6. queues'[h] = Append(queues[h], n) /\ Range(queues'[h]) = Range(queues[h]) \cup {n}
  <2>1. n \in Message /\ n \notin Range(queues[h])
    BY <1>1, SendMakesKnown DEF Custody, Queued
  <2>2. queues[h] \in Seq(Message) /\ IsInjective(queues[h])
    BY DEF Custody, Queued
  <2>3. Range(Append(queues[h], n)) = Range(queues[h]) \cup {n}
    BY <2>1, <2>2, AppendRange
  <2> QED BY <1>2, <2>3
<1>7. ASSUME NEW k \in Handle \ overlap PROVE Sorted(k)' /\ Behind(k)'
  <2>1. CASE k # h
    BY <1>2, <1>5, <1>7, <2>1 DEF Fifo, Sorted, Behind, Has, Alive
  <2>2. CASE k = h
    <3>1. Sorted(h)'
      BY <1>2, <1>3, <1>6, <1>7, <2>2, AppendAscends DEF Fifo, Sorted, Ascends
    <3>2. Behind(h)'
      BY <1>2, <1>4, <1>6, <1>7, <2>2 DEF Fifo, Behind, Has, Alive
    <3> QED BY <2>2, <3>1, <3>2
  <2> QED BY <2>1, <2>2
<1>8. ASSUME NEW k \in Handle \ overlap PROVE Alone(k)' /\ Newest(k)'
  BY <1>2, <1>8 DEF Fifo, Alone, Newest, Unread, Out, Alive
<1> QED BY <1>2, <1>7, <1>8 DEF Fifo

\* What is reserved is older than what stays queued, and younger than what was read.
LEMMA ReserveFifo == ASSUME MInv, Fifo, NEW c \in Conn, Reserve(c) PROVE Fifo'
<1> USE DEF MInv, TypeOK
<1>1. PICK h \in Handle, m \in Message : h = handleOf[c] /\ m = Head(queues[h])
  <2>1. handleOf[c] \in Handle /\ queues[handleOf[c]] \in Seq(Message) /\ queues[handleOf[c]] # <<>>
    BY MailboxAssumption DEF Reserve
  <2>2. Head(queues[handleOf[c]]) \in Message
    BY <2>1
  <2> QED BY <2>1, <2>2
<1>2. /\ queues[h] # <<>> /\ queues[h] \in Seq(Message)
      /\ item' = [item EXCEPT ![c] = m] /\ queues' = [queues EXCEPT ![h] = Tail(queues[h])]
      /\ h \notin overlap' =>
            h \notin overlap /\ \A d \in Conn \ {c} : handleOf[d] = h => ~Out(d)
      /\ overlap \subseteq overlap'
      /\ UNCHANGED <<client, inbox, got>>
      /\ got[c] = NoMsg
  BY <1>1 DEF Reserve, socketVars, Protocol, Looping
<1>3. \A d \in Conn : d # c => Out(d)' = Out(d) /\ Unread(d)' = Unread(d) /\ item'[d] = item[d]
  BY <1>2 DEF Out, Unread, Alive
<1>4. \A d \in Conn, n \in Message : Has(d, n)' => Has(d, n) \/ (d = c /\ n = m)
  BY <1>2 DEF Has, Alive
<1>5. ASSUME NEW k \in Handle \ overlap', k # h
      PROVE  Sorted(k)' /\ Behind(k)' /\ Alone(k)' /\ Newest(k)'
  <2>1. queues'[k] = queues[k] /\ k \notin overlap
    BY <1>2, <1>5
  <2>2. Sorted(k)' /\ Behind(k)'
    BY <1>1, <1>4, <1>5, <2>1 DEF Fifo, Sorted, Behind
  <2>3. Alone(k)' /\ Newest(k)'
    BY <1>1, <1>2, <1>3, <1>5, <2>1 DEF Fifo, Alone, Newest
  <2> QED BY <2>2, <2>3
<1>6. ASSUME h \notin overlap' PROVE Sorted(h)' /\ Behind(h)' /\ Alone(h)' /\ Newest(h)'
  <2>1. /\ Ascends(Tail(queues[h])) /\ m \in Range(queues[h])
        /\ \A n \in Range(Tail(queues[h])) : n \in Range(queues[h]) /\ m < n
    BY <1>1, <1>2, <1>6, TailAscends DEF Fifo, Sorted, Ascends
  <2>2. queues'[h] = Tail(queues[h])
    BY <1>2
  <2>3. Sorted(h)' /\ Behind(h)'
    BY <1>2, <1>4, <1>6, <2>1, <2>2 DEF Fifo, Sorted, Behind, Ascends
  <2>4. Alone(h)'
    BY <1>2, <1>3, <1>6 DEF Alone
  <2>5. \A d \in Conn : handleOf[d] = h /\ got[d] # NoMsg => got[d] < m
    BY <1>2, <1>6, <2>1 DEF Fifo, Behind, Has, Message, NoMsg
  <2>6. \A d \in Conn \ {c} : handleOf[d] = h => ~Unread(d)
    BY <1>2, <1>6 DEF Out, Unread
  <2>7. Newest(h)'
    BY <1>2, <1>3, <2>5, <2>6 DEF Newest
  <2> QED BY <2>3, <2>4, <2>7
<1> QED BY <1>5, <1>6 DEF Fifo

\* What is put back is older than the queue, and was the only message out: anything else
\* that a thread holds has been read, and is older still.
LEMMA RequeueFifo == ASSUME MInv, Fifo, NEW c \in Conn, RequeueFront(c) PROVE Fifo'
<1> USE DEF MInv, TypeOK
<1>1. PICK h \in Handle, m \in Message : h = handleOf[c] /\ m = item[c]
  BY MailboxAssumption DEF RequeueFront, HandsFull, Holding
<1>2. /\ queues[h] \in Seq(Message) /\ item' = [item EXCEPT ![c] = NoMsg]
      /\ queues' = [queues EXCEPT ![h] = <<m>> \o queues[h]]
      /\ UNCHANGED <<client, inbox, got, overlap>>
      /\ got[c] = NoMsg /\ ~Alive(c) /\ m # NoMsg
  <2>1. pc[c] = "requeue" /\ UNCHANGED <<client, inbox, got, overlap>>
    BY DEF RequeueFront, socketVars
  <2>2. got[c] = NoMsg /\ ~Alive(c)
    BY <2>1 DEF Protocol, Closed, Alive
  <2>3. item' = [item EXCEPT ![c] = NoMsg] /\ queues' = [queues EXCEPT ![h] = <<m>> \o queues[h]]
    BY <1>1 DEF RequeueFront
  <2> QED BY <1>1, <2>1, <2>2, <2>3 DEF Message, NoMsg
<1>3. /\ \A d \in Conn, n \in Message : Has(d, n)' => Has(d, n) /\ d # c
      /\ \A d \in Conn : (Out(d)' => Out(d)) /\ (Unread(d)' => Unread(d) /\ item'[d] = item[d])
  <2>1. \A d \in Conn : item'[d] = IF d = c THEN NoMsg ELSE item[d]
    BY <1>2
  <2>2. \A d \in Conn : Alive(d)' <=> Alive(d)
    BY <1>2 DEF Alive
  <2>3. \A d \in Conn, n \in Message : Has(d, n)' => Has(d, n) /\ d # c
    BY <1>2, <2>1, <2>2 DEF Has, Message, NoMsg
  <2>4. \A d \in Conn : (Out(d)' => Out(d)) /\ (Unread(d)' => Unread(d) /\ item'[d] = item[d])
    BY <1>2, <2>1, <2>2 DEF Out, Unread
  <2> QED BY <2>3, <2>4
<1>4. \A k \in Handle \ overlap : Alone(k)' /\ Newest(k)'
  BY <1>2, <1>3 DEF Fifo, Alone, Newest
<1>5. ASSUME NEW k \in Handle \ overlap, k # h PROVE Sorted(k)' /\ Behind(k)'
  BY <1>2, <1>3, <1>5 DEF Fifo, Sorted, Behind
<1>6. ASSUME h \notin overlap PROVE Sorted(h)' /\ Behind(h)'
  <2>1. \A n \in Range(queues[h]) : m < n
    BY <1>1, <1>6 DEF Fifo, Behind, Has
  <2>2. Ascends(<<m>> \o queues[h])
    BY <1>2, <1>6, <2>1, FrontAscends DEF Fifo, Sorted, Ascends
  <2>3. queues'[h] = <<m>> \o queues[h]
    BY <1>2
  <2>4. Range(queues'[h]) = Range(queues[h]) \cup {m}
    <3>1. m \notin Range(queues[h]) /\ IsInjective(queues[h])
      BY <2>1 DEF Custody, Queued, Message
    <3> QED BY <1>2, <2>3, <3>1, FrontRange
  <2>5. ASSUME NEW d \in Conn, NEW n \in Message, handleOf[d] = h, Has(d, n)' PROVE n < m
    <3>1. Has(d, n) /\ d # c
      BY <1>3, <2>5
    <3>2. Out(c) /\ Unread(c)
      BY <1>1, <1>2 DEF Out, Unread
    <3>3. ~Out(d)
      BY <1>1, <1>6, <2>5, <3>1, <3>2 DEF Fifo, Alone
    <3>4. got[d] = n /\ got[d] # NoMsg
      BY <3>1, <3>3, ReadIsHeld DEF Has, Out, Message, NoMsg
    <3> QED BY <1>1, <1>6, <2>5, <3>2, <3>4 DEF Fifo, Newest
  <2>6. Sorted(h)'
    BY <2>2, <2>3 DEF Sorted, Ascends
  <2>7. Behind(h)'
    BY <1>3, <1>6, <2>4, <2>5 DEF Fifo, Behind
  <2> QED BY <2>6, <2>7
<1> QED BY <1>2, <1>4, <1>5, <1>6 DEF Fifo

\* Nothing else was out when the message was read.
LEMMA ReadFifo == ASSUME MInv, Fifo, NEW c \in Conn, Read(c) PROVE Fifo'
<1> USE DEF MInv, TypeOK
<1>1. /\ Alive(c) /\ inbox[c] # NoMsg /\ inbox[c] \in Message /\ Out(c)
      /\ got' = [got EXCEPT ![c] = inbox[c]] /\ inbox' = [inbox EXCEPT ![c] = NoMsg]
      /\ UNCHANGED <<queues, item, client, overlap>>
  BY DEF Read, threadVars, Alive, Out
<1>2. /\ \A d \in Conn, n \in Message : Has(d, n)' => Has(d, n)
      /\ \A d \in Conn : (Out(d)' => Out(d)) /\ (Unread(d)' => Unread(d) /\ d # c)
  BY <1>1 DEF Has, Out, Unread, Alive, Message, NoMsg
<1>3. ASSUME NEW k \in Handle \ overlap PROVE Sorted(k)' /\ Behind(k)' /\ Alone(k)'
  BY <1>1, <1>2, <1>3 DEF Fifo, Sorted, Behind, Alone
<1>4. ASSUME NEW k \in Handle \ overlap, NEW d \in Conn, NEW e \in Conn,
             handleOf[d] = k, handleOf[e] = k, Unread(d)', got'[e] # NoMsg
      PROVE  got'[e] < item'[d]
  <2>1. Unread(d) /\ Out(d) /\ d # c
    BY <1>2, <1>4 DEF Unread, Out
  <2>2. e # c
    BY <1>1, <1>4, <2>1 DEF Fifo, Alone
  <2> QED BY <1>1, <1>4, <2>1, <2>2 DEF Fifo, Newest
<1>5. \A k \in Handle \ overlap : Newest(k)'
  BY <1>4 DEF Newest
<1> QED BY <1>1, <1>3, <1>5 DEF Fifo

\* Every step keeps the order.
LEMMA FifoStep == ASSUME MInv, Fifo, [Next]_vars PROVE Fifo'
<1> USE DEF MInv, TypeOK, threadVars, socketVars, Goto
<1>1. ASSUME NEW c \in Conn, \/ Park(c) \/ ReplyTimeout(c) \/ PollInterval(c) \/ CheckAlive(c)
                             \/ DeadlinePasses(c) \/ AckTimeoutPasses(c)
                             \/ WriteFails(c) \/ PollFlags(c) \/ CountUnread(c)
      PROVE  Fifo'
  <2>1. UNCHANGED <<queues, item, client, inbox, got, overlap>>
    BY <1>1 DEF Park, ReplyTimeout, PollInterval, CheckAlive, DeadlinePasses, AckTimeoutPasses,
                WriteFails, PollFlags, CountUnread
  <2> QED BY <2>1, QuietFifo DEF Has, Out, Alive
<1>2. ASSUME NEW c \in Conn, PollHangup(c) \/ Recheck(c) \/ GiveUp(c) PROVE Fifo'
  <2>1. /\ UNCHANGED <<queues, client, inbox, got, overlap>>
        /\ \A d \in Conn : item'[d] \in {item[d], NoMsg}
    BY <1>2 DEF PollHangup, Recheck, GiveUp, Consume
  <2> QED BY <2>1, QuietFifo DEF Has, Out, Alive, Message, NoMsg
<1>3. ASSUME NEW c \in Conn, WriteReply(c) PROVE Fifo'
  <2>1. /\ inbox' = [inbox EXCEPT ![c] = item[c]]
        /\ UNCHANGED <<queues, item, client, got, overlap>>
        /\ got[c] = NoMsg
    BY <1>3 DEF WriteReply, Protocol
  <2>2. ASSUME NEW d \in Conn
        PROVE  (\A m \in Message : Has(d, m)' => Has(d, m)) /\ (Out(d)' => Out(d))
    BY <2>1 DEF Has, Out, Alive
  <2> QED BY <2>1, <2>2, QuietFifo
<1>4. ASSUME NEW c \in Conn, Request(c) \/ Close(c) \/ Purge(c) \/ Stall(c) \/ Resume(c)
      PROVE  Fifo'
  <2>1. /\ UNCHANGED <<queues, item, got, overlap>>
        /\ \A d \in Conn : inbox'[d] \in {inbox[d], NoMsg}
        /\ \A d \in Conn : Alive(d)' /\ inbox'[d] # NoMsg => Alive(d)
    BY <1>4 DEF Request, Close, Purge, Stall, Resume, Alive, Protocol
  <2> QED BY <2>1, QuietFifo DEF Has, Out, Message, NoMsg
<1>5. CASE UNCHANGED vars
  BY <1>5, QuietFifo DEF vars, Has, Out, Alive
<1> QED BY <1>1, <1>2, <1>3, <1>4, <1>5, SendFifo, ReserveFifo, RequeueFifo, ReadFifo
           DEF Next, Thread, Client, Loop, Deliver

\* As long as no two undelivered messages of a handle were out at once, whatever is put
\* back takes its old place: the queue stays in sending order, and whatever a thread
\* holds or a client has read is older than all of it.
THEOREM DeliversInOrder == Spec => []FifoWithoutOverlap
<1>1. Init => Fifo
  BY DEF Init, Fifo, Sorted, Behind, Alone, Newest, Unread, Has, Out, Alive, Range, Message, NoMsg
<1>2. MInv /\ Fifo => FifoWithoutOverlap
  <2> SUFFICES ASSUME MInv, NEW h \in Handle \ overlap, Sorted(h), Behind(h)
               PROVE  /\ \A i, j \in DOMAIN queues[h] : i < j => queues[h][i] < queues[h][j]
                      /\ \A c \in Conn : handleOf[c] = h =>
                            \A m \in Range(queues[h]) : /\ item[c] # NoMsg => item[c] < m
                                                        /\ got[c] # NoMsg => got[c] < m
    BY DEF Fifo, FifoWithoutOverlap
  <2>1. \A c \in Conn : item[c] \in Message \cup {NoMsg} /\ got[c] \in Message \cup {NoMsg}
    BY DEF MInv, TypeOK
  <2> QED BY <2>1 DEF Sorted, Behind, Has
<1> QED BY <1>1, <1>2, FifoStep, Inductive, PTL DEF Spec
=============================================================================
