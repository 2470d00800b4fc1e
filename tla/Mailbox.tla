------------------------------ MODULE Mailbox -------------------------------
(***************************************************************************)
(* The broker's queues and its blocking recv: one deque per handle, one    *)
(* thread per connection, and the dequeue-on-ack protocol between such a   *)
(* thread and the `ccd recv` process at the other end of its socket.       *)
(*                                                                         *)
(* Three kinds of process interleave.  Senders append under the broker's   *)
(* lock.  A recv thread loops over "take the head or wait", and once it    *)
(* holds a message writes the reply and asks the kernel whether the client *)
(* read it.  The client reads, stalls, resumes or dies at any moment.      *)
(* Every step below is one critical section of the broker or one system    *)
(* call, the granularity at which another process can get in between.      *)
(***************************************************************************)
EXTENDS Naturals, Sequences, Functions

CONSTANTS Handle,     \* names messages are sent to
          Conn,       \* connections that carry one recv request each
          handleOf,   \* the handle each connection's recv asks for
          Staller,    \* clients that may stop reading for ACK_TIMEOUT or longer
          Large,      \* messages whose reply overflows the socket's send buffer
          HasOutq,    \* connections whose socket knows the SIOCOUTQ ioctl
          MaxMsg      \* bound on the number of messages sent

ASSUME MailboxAssumption == /\ handleOf \in [Conn -> Handle]
                            /\ Staller \subseteq Conn
                            /\ HasOutq \subseteq Conn
                            /\ MaxMsg \in Nat

VARIABLES sentTo,     \* handles of the messages accepted; message m is "m<m>"
          queues,     \* Broker._queues
          pc,         \* where each recv thread is
          item,       \* the message a thread reserved, NoMsg when none
          late,       \* the deadline of the thread's present wait has passed
          client,     \* the client process and its end of the socket
          inbox,      \* the reply in the client's receive queue, not yet read
          reset,      \* the kernel flagged ECONNRESET on the broker's end
          got,        \* the message the client process read
          lapsed,     \* history: messages counted as delivered while unread
          overlap     \* history: handles where two undelivered messages were out at once

threadVars == <<pc, item, late>>
socketVars == <<client, inbox, reset, got>>
vars == <<sentTo, queues, threadVars, socketVars, lapsed, overlap>>

NoMsg == 0
Message == 1..MaxMsg

Looping    == {"recv", "wait", "woken"}
Delivering == {"write", "poll", "outq", "recheck"}
Holding    == Delivering \cup {"requeue"}

TypeOK == /\ sentTo \in Seq(Handle)
          /\ Len(sentTo) <= MaxMsg
          /\ queues \in [Handle -> Seq(Message)]
          /\ pc \in [Conn -> {"idle", "done"} \cup Looping \cup Holding]
          /\ item \in [Conn -> Message \cup {NoMsg}]
          /\ late \in [Conn -> BOOLEAN]
          /\ client \in [Conn -> {"off", "reading", "stalled", "dying", "gone"}]
          /\ inbox \in [Conn -> Message \cup {NoMsg}]
          /\ reset \in [Conn -> BOOLEAN]
          /\ got \in [Conn -> Message \cup {NoMsg}]
          /\ lapsed \in SUBSET Message
          /\ overlap \in SUBSET Handle

Init == /\ sentTo = <<>>
        /\ queues = [h \in Handle |-> <<>>]
        /\ pc = [c \in Conn |-> "idle"]
        /\ item = [c \in Conn |-> NoMsg]
        /\ late = [c \in Conn |-> FALSE]
        /\ client = [c \in Conn |-> "off"]
        /\ inbox = [c \in Conn |-> NoMsg]
        /\ reset = [c \in Conn |-> FALSE]
        /\ got = [c \in Conn |-> NoMsg]
        /\ lapsed = {}
        /\ overlap = {}

-----------------------------------------------------------------------------
(* Helpers. *)

Alive(c) == client[c] \in {"reading", "stalled"}
Closed(c) == client[c] \in {"dying", "gone"}

\* Condition.notify_all: every thread parked in cond.wait leaves it.
Notified == [c \in Conn |-> IF pc[c] = "wait" THEN "woken" ELSE pc[c]]

Goto(c, label) == pc' = [pc EXCEPT ![c] = label]

\* A message is out while a thread holds it or a live client has it unread.
Out(c) == (item[c] # NoMsg /\ got[c] = NoMsg) \/ (Alive(c) /\ inbox[c] # NoMsg)

-----------------------------------------------------------------------------
(* Requests arriving: send, and a recv whose connection was accepted. *)

\* Mutant: the counter is bumped twice.
Send_SkipsId(h) == /\ Len(sentTo) < MaxMsg
                   /\ sentTo' = Append(sentTo, h)
                   /\ queues' = [queues EXCEPT ![h] = Append(@, Len(sentTo) + 2)]
                   /\ pc' = Notified
                   /\ UNCHANGED <<item, late, socketVars, lapsed, overlap>>

Send(h) == /\ Len(sentTo) < MaxMsg
           /\ sentTo' = Append(sentTo, h)
           /\ queues' = [queues EXCEPT ![h] = Append(@, Len(sentTo) + 1)]
           /\ pc' = Notified
           /\ UNCHANGED <<item, late, socketVars, lapsed, overlap>>

Request(c) == /\ pc[c] = "idle"
              /\ Goto(c, "recv")
              /\ client' = [client EXCEPT ![c] = "reading"]
              /\ UNCHANGED <<sentTo, queues, item, late, inbox, reset, got,
                             lapsed, overlap>>

-----------------------------------------------------------------------------
(* Broker._recv: the loop. *)

\* The queue is looked at before the deadline.
Reserve(c) ==
    LET h == handleOf[c] IN
    /\ pc[c] = "recv"
    /\ queues[h] # <<>>
    /\ item' = [item EXCEPT ![c] = Head(queues[h])]
    /\ queues' = [queues EXCEPT ![h] = Tail(@)]
    /\ overlap' = IF \E d \in Conn \ {c} : handleOf[d] = h /\ Out(d)
                  THEN overlap \cup {h} ELSE overlap
    /\ Goto(c, "write")
    /\ UNCHANGED <<sentTo, late, socketVars, lapsed>>

\* Mutant: the remaining time is never looked at.
Park_IgnoresDeadline(c) ==
    /\ pc[c] = "recv"
    /\ queues[handleOf[c]] = <<>>
    /\ Goto(c, "wait")
    /\ UNCHANGED <<sentTo, queues, item, late, socketVars, lapsed, overlap>>

Park(c) == /\ pc[c] = "recv"
           /\ queues[handleOf[c]] = <<>>
           /\ ~late[c]
           /\ Goto(c, "wait")
           /\ UNCHANGED <<sentTo, queues, item, late, socketVars, lapsed, overlap>>

ReplyTimeout(c) == /\ pc[c] = "recv"
                   /\ queues[handleOf[c]] = <<>>
                   /\ late[c]
                   /\ Goto(c, "done")
                   /\ UNCHANGED <<sentTo, queues, item, late, socketVars, lapsed, overlap>>

\* cond.wait is bounded by LIVENESS_POLL_INTERVAL, so it returns unnotified too.
PollInterval(c) == /\ pc[c] = "wait"
                   /\ Goto(c, "woken")
                   /\ UNCHANGED <<sentTo, queues, item, late, socketVars, lapsed, overlap>>

\* Mutant: the loop goes back to cond.wait without looking at the queue.
CheckAlive_Reparks(c) ==
    /\ pc[c] = "woken"
    /\ Goto(c, IF Alive(c) THEN "wait" ELSE "done")
    /\ UNCHANGED <<sentTo, queues, item, late, socketVars, lapsed, overlap>>

CheckAlive(c) == /\ pc[c] = "woken"
                 /\ Goto(c, IF Alive(c) THEN "recv" ELSE "done")
                 /\ UNCHANGED <<sentTo, queues, item, late, socketVars, lapsed, overlap>>

DeadlinePasses(c) == /\ pc[c] \in Looping
                     /\ ~late[c]
                     /\ late' = [late EXCEPT ![c] = TRUE]
                     /\ UNCHANGED <<sentTo, queues, pc, item, socketVars, lapsed, overlap>>

-----------------------------------------------------------------------------
(* _ClientContext.deliver: write, then poll / SIOCOUTQ / poll again, each a *)
(* system call of its own, until the kernel says what the client did.       *)

\* sendall returns once everything is in the socket's buffers.  A reply that
\* overflows them needs a client that is reading; sendall has no timeout.
WriteReply(c) == /\ pc[c] = "write"
                 /\ \/ client[c] = "reading"
                    \/ client[c] = "stalled" /\ item[c] \notin Large
                 /\ inbox' = [inbox EXCEPT ![c] = item[c]]
                 /\ late' = [late EXCEPT ![c] = FALSE]
                 /\ Goto(c, "poll")
                 /\ UNCHANGED <<sentTo, queues, item, client, reset, got, lapsed, overlap>>

\* Mutant: an OSError of sendall ends the request like a delivery.
WriteFails_Drops(c) == /\ pc[c] = "write"
                       /\ Closed(c)
                       /\ item' = [item EXCEPT ![c] = NoMsg]
                       /\ Goto(c, "done")
                       /\ UNCHANGED <<sentTo, queues, late, socketVars, lapsed, overlap>>

WriteFails(c) == /\ pc[c] = "write"
                 /\ Closed(c)
                 /\ Goto(c, "requeue")
                 /\ UNCHANGED <<sentTo, queues, item, late, socketVars, lapsed, overlap>>

\* deliver returned True: nothing refers to the reserved message any more.
Consume(c) == /\ item' = [item EXCEPT ![c] = NoMsg]
              /\ Goto(c, "done")
              /\ UNCHANGED <<sentTo, queues, late, socketVars, overlap>>

\* Mutant: POLLHUP is taken for a death, whatever the client read before.
PollFlags_HangupIsDeath(c) ==
    /\ pc[c] = "poll"
    /\ reset[c] \/ c \in HasOutq
    /\ Goto(c, IF reset[c] \/ Closed(c) THEN "requeue" ELSE "outq")
    /\ UNCHANGED <<sentTo, queues, item, late, socketVars, lapsed, overlap>>

PollFlags(c) == /\ pc[c] = "poll"
                /\ reset[c] \/ c \in HasOutq
                /\ Goto(c, IF reset[c] THEN "requeue" ELSE "outq")
                /\ UNCHANGED <<sentTo, queues, item, late, socketVars, lapsed, overlap>>

\* Mutant: without SIOCOUTQ, POLLHUP is taken for a death.
PollHangup_IsDeath(c) ==
    /\ pc[c] = "poll"
    /\ c \notin HasOutq
    /\ ~reset[c]
    /\ Closed(c)
    /\ Goto(c, "requeue")
    /\ UNCHANGED <<sentTo, queues, item, late, socketVars, lapsed, overlap>>

\* Without SIOCOUTQ the close of the connection is the only acknowledgement.
PollHangup(c) == /\ pc[c] = "poll"
                 /\ c \notin HasOutq
                 /\ ~reset[c]
                 /\ Closed(c)
                 /\ Consume(c)
                 /\ UNCHANGED lapsed

CountUnread(c) == /\ pc[c] = "outq"
                  /\ inbox[c] = NoMsg \/ ~late[c]
                  /\ Goto(c, IF inbox[c] = NoMsg THEN "recheck" ELSE "poll")
                  /\ UNCHANGED <<sentTo, queues, item, late, socketVars, lapsed, overlap>>

\* Mutant: an empty send queue is taken for a receipt.
Recheck_TrustsEmptyQueue(c) == /\ pc[c] = "recheck"
                               /\ Consume(c)
                               /\ UNCHANGED lapsed

\* An empty send queue is a receipt only if no close emptied it.
Recheck(c) == /\ pc[c] = "recheck"
              /\ IF reset[c]
                 THEN /\ Goto(c, "requeue")
                      /\ UNCHANGED <<sentTo, queues, item, late, socketVars, overlap>>
                 ELSE Consume(c)
              /\ UNCHANGED lapsed

AckTimeoutPasses(c) == /\ pc[c] \in {"poll", "outq"}
                       /\ client[c] = "stalled"
                       /\ ~late[c]
                       /\ late' = [late EXCEPT ![c] = TRUE]
                       /\ UNCHANGED <<sentTo, queues, pc, item, socketVars, lapsed, overlap>>

\* Mutant: the first poll that finds the reply unread gives up.
GiveUp_AtOnce(c) == /\ \/ pc[c] = "outq" /\ inbox[c] # NoMsg
                       \/ pc[c] = "poll" /\ c \notin HasOutq /\ ~reset[c] /\ ~Closed(c)
                    /\ Consume(c)
                    /\ lapsed' = lapsed \cup ({inbox[c]} \ {NoMsg})

\* A client that lingers without reading is counted as served.
GiveUp(c) == /\ \/ pc[c] = "outq" /\ inbox[c] # NoMsg
                \/ pc[c] = "poll" /\ c \notin HasOutq /\ ~reset[c] /\ ~Closed(c)
             /\ late[c]
             /\ Consume(c)
             /\ lapsed' = lapsed \cup ({inbox[c]} \ {NoMsg})

\* Mutants: the message goes to the back; nobody is notified.
RequeueFront_AtBack(c) ==
    /\ pc[c] = "requeue"
    /\ queues' = [queues EXCEPT ![handleOf[c]] = Append(@, item[c])]
    /\ item' = [item EXCEPT ![c] = NoMsg]
    /\ pc' = [Notified EXCEPT ![c] = "done"]
    /\ UNCHANGED <<sentTo, late, socketVars, lapsed, overlap>>

RequeueFront_Silent(c) ==
    /\ pc[c] = "requeue"
    /\ queues' = [queues EXCEPT ![handleOf[c]] = <<item[c]>> \o @]
    /\ item' = [item EXCEPT ![c] = NoMsg]
    /\ Goto(c, "done")
    /\ UNCHANGED <<sentTo, late, socketVars, lapsed, overlap>>

\* Broker.requeue_front, a critical section after deliver has returned False.
RequeueFront(c) ==
    LET h == handleOf[c] IN
    /\ pc[c] = "requeue"
    /\ queues' = [queues EXCEPT ![h] = <<item[c]>> \o @]
    /\ item' = [item EXCEPT ![c] = NoMsg]
    /\ pc' = [Notified EXCEPT ![c] = "done"]
    /\ UNCHANGED <<sentTo, late, socketVars, lapsed, overlap>>

-----------------------------------------------------------------------------
(* The client process and the kernel (AF_UNIX stream sockets). *)

Read(c) == /\ client[c] = "reading"
           /\ inbox[c] # NoMsg
           /\ got' = [got EXCEPT ![c] = inbox[c]]
           /\ inbox' = [inbox EXCEPT ![c] = NoMsg]
           /\ UNCHANGED <<sentTo, queues, threadVars, client, reset, lapsed, overlap>>

\* rpc() closes the socket once it has its line; Esc kills the process, which
\* closes it too.  A close that leaves a reply unread flags the peer's end with
\* ECONNRESET first and purges the reply afterwards.
Close(c) == /\ Alive(c)
            /\ IF inbox[c] = NoMsg
               THEN /\ client' = [client EXCEPT ![c] = "gone"]
                    /\ UNCHANGED reset
               ELSE /\ client' = [client EXCEPT ![c] = "dying"]
                    /\ reset' = [reset EXCEPT ![c] = TRUE]
            /\ UNCHANGED <<sentTo, queues, threadVars, inbox, got, lapsed, overlap>>

Purge(c) == /\ client[c] = "dying"
            /\ client' = [client EXCEPT ![c] = "gone"]
            /\ inbox' = [inbox EXCEPT ![c] = NoMsg]
            /\ UNCHANGED <<sentTo, queues, threadVars, reset, got, lapsed, overlap>>

Stall(c) == /\ c \in Staller
            /\ client[c] = "reading"
            /\ client' = [client EXCEPT ![c] = "stalled"]
            /\ UNCHANGED <<sentTo, queues, threadVars, inbox, reset, got, lapsed, overlap>>

Resume(c) == /\ client[c] = "stalled"
             /\ client' = [client EXCEPT ![c] = "reading"]
             /\ UNCHANGED <<sentTo, queues, threadVars, inbox, reset, got, lapsed, overlap>>

-----------------------------------------------------------------------------

Loop(c) == Reserve(c) \/ Park(c) \/ ReplyTimeout(c) \/ PollInterval(c) \/ CheckAlive(c)

Deliver(c) == \/ WriteReply(c) \/ WriteFails(c) \/ PollFlags(c) \/ PollHangup(c)
              \/ CountUnread(c) \/ Recheck(c) \/ GiveUp(c)

Thread(c) == Loop(c) \/ Deliver(c) \/ RequeueFront(c)
Client(c) == Read(c) \/ Close(c) \/ Purge(c) \/ Stall(c) \/ Resume(c)

Next == \/ \E h \in Handle : Send(h)
        \/ \E c \in Conn : Request(c) \/ Thread(c) \/ Client(c)
                         \/ DeadlinePasses(c) \/ AckTimeoutPasses(c)

\* Threads run, clocks advance, a client that is reading reads and then exits,
\* and the kernel finishes a close.  Nobody has to send, ask, stall or die.  The
\* clock runs on while a client resumes and stalls again, hence SF.
Fairness == \A c \in Conn : /\ WF_vars(Thread(c))
                            /\ WF_vars(DeadlinePasses(c))
                            /\ SF_vars(AckTimeoutPasses(c))
                            /\ WF_vars(Read(c))
                            /\ WF_vars(got[c] # NoMsg /\ Close(c))
                            /\ WF_vars(Purge(c))

Spec == Init /\ [][Next]_vars
FairSpec == Spec /\ Fairness

-----------------------------------------------------------------------------
(* Properties. *)

InQueue(m) == \E h \in Handle : m \in Range(queues[h])

\* Dequeue-on-ack: every message send accepted is still queued, or reserved by
\* a thread that has yet to learn what became of it, or read by a client, or was
\* written off after ACK_TIMEOUT.  No death of a client at any point loses one.
NothingLost == \A m \in 1..Len(sentTo) :
                  \/ InQueue(m)
                  \/ \E c \in Conn : item[c] = m \/ got[c] = m
                  \/ m \in lapsed

\* A message a client has read is never read by a second one, waits in no queue
\* and is in no other live hands: a read is never taken for a death.
ReadOnce == \A c \in Conn : got[c] # NoMsg =>
               /\ ~InQueue(got[c])
               /\ \A d \in Conn \ {c} : /\ got[c] \notin {got[d], item[d]}
                                        /\ Alive(d) => inbox[d] # got[c]

\* A message is queued at most once and under the handle it was sent to.
QueuedOnce == \A h \in Handle : /\ IsInjective(queues[h])
                                 /\ \A m \in Range(queues[h]) : sentTo[m] = h

\* A message is written off only for a client that stalled, and only after the
\* whole of ACK_TIMEOUT.
LapseNeedsStall == \A m \in lapsed : \E c \in Staller :
                      pc[c] = "done" /\ late[c] /\ sentTo[m] = handleOf[c]

\* No lost wakeup: a thread never sleeps in cond.wait beside mail for its handle,
\* whether the mail was sent or put back by another thread.
NoSleepOnMail == \A c \in Conn : pc[c] = "wait" => queues[handleOf[c]] = <<>>

\* FIFO, as far as it goes: as long as no two undelivered messages of a handle
\* were out at once, its queue is in sending order and a message that is out is
\* older than everything queued behind it.
FifoWithoutOverlap == \A h \in Handle \ overlap :
    /\ \A i, j \in DOMAIN queues[h] : i < j => queues[h][i] < queues[h][j]
    /\ \A c \in Conn : handleOf[c] = h =>
          \A m \in Range(queues[h]) : /\ item[c] # NoMsg => item[c] < m
                                      /\ got[c] # NoMsg => got[c] < m

\* sendall waits for the client to read before the rest of the reply fits.
SendBlocked(c) == pc[c] = "write" /\ item[c] \in Large /\ client[c] = "stalled"

\* Every recv comes to an end: it times out, delivers, notices that its client
\* left, or gives up on a client that lingers.  Only a client that time and again
\* is found not reading while sendall waits on it can hold its thread for ever.
EveryRecvEnds == \A c \in Conn :
                    (pc[c] = "recv" ~> pc[c] = "done") \/ []<>SendBlocked(c)

\* A message reserved for a client that died with it unread is queued again.
InterruptedMailReturns ==
    \A c \in Conn : \A m \in Message :
       (item[c] = m /\ Closed(c) /\ got[c] = NoMsg /\ ~late[c]) ~> InQueue(m)

\* Mail does not stay queued beside a recv loop of its handle: the loop takes the
\* mail, or another one does, or the loop ends because its client left.
MailIsTaken ==
    \A c \in Conn : (pc[c] \in Looping /\ queues[handleOf[c]] # <<>>)
                       ~> (pc[c] \notin Looping \/ queues[handleOf[c]] = <<>>)

\* What the queues and recv threads do is what Delivery promises.
PlaceOf(m) == IF InQueue(m) THEN "queued"
              ELSE IF \E c \in Conn : got[c] = m THEN "received"
              ELSE IF m \in lapsed THEN "lapsed"
              ELSE IF \E c \in Conn : item[c] = m THEN "reserved"
              ELSE "lost"

Promise == INSTANCE Delivery WITH place <- [m \in 1..Len(sentTo) |-> PlaceOf(m)]
KeepsPromise == Promise!Spec
=============================================================================
