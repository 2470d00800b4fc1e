--------------------------------- MODULE Rpc --------------------------------
(***************************************************************************)
(* One call of the CLI over the socket: rpc() and the exit status that     *)
(* main() makes of it at one end, the thread that serves the connection at *)
(* the other, and a broker that may go away and come back at any moment.   *)
(*                                                                         *)
(* The request is any that is answered at once and changes broker state,   *)
(* such as `send`; the blocking `recv` is module Mailbox.  A step is one   *)
(* system call of the client or one of the broker's thread.                *)
(***************************************************************************)
EXTENDS Naturals, FiniteSets

CONSTANTS Call,        \* invocations of the CLI, one request each
          Dawdler,     \* clients that may take REQUEST_TIMEOUT to send their line
          MaxRestart   \* bound on the times the broker goes away

ASSUME RpcAssumption == Dawdler \subseteq Call /\ MaxRestart \in Nat

VARIABLES pc,        \* where the client is
          result,    \* how rpc() ended
          srv,       \* where the serving thread is
          request,   \* the line waits in the broker's receive queue
          reply,     \* the line written for the client, "none" before
          reset,     \* the broker's end closed with the request unread
          effect,    \* what the request did in the broker
          up,        \* the broker listens
          restarts   \* times it went away so far

clientVars == <<pc, result>>
threadVars == <<srv, effect>>
socketVars == <<request, reply, reset>>
brokerVars == <<up, restarts>>
vars == <<clientVars, threadVars, socketVars, brokerVars>>

Open == {"backlog", "reading", "dispatch", "reply", "close"}

\* How rpc() ends: with the broker's answer, with Unreachable, or with an
\* exception of sendall or recv that it does not catch.
Answer  == {"ok", "refused"}
Unread  == {"brokenpipe", "connreset"}

TypeOK == /\ pc \in [Call -> {"connect", "send", "read", "done"}]
          /\ result \in [Call -> Answer \cup Unread \cup {"none", "unreachable", "interrupted"}]
          /\ srv \in [Call -> {"none", "closed"} \cup Open]
          /\ request \in [Call -> BOOLEAN]
          /\ reply \in [Call -> Answer \cup {"none"}]
          /\ reset \in [Call -> BOOLEAN]
          /\ effect \in [Call -> Answer \cup {"none"}]
          /\ up \in BOOLEAN
          /\ restarts \in 0..MaxRestart
          /\ \A c \in Call : pc[c] = "done" <=> result[c] # "none"

Init == /\ pc = [c \in Call |-> "connect"]
        /\ result = [c \in Call |-> "none"]
        /\ srv = [c \in Call |-> "none"]
        /\ request = [c \in Call |-> FALSE]
        /\ reply = [c \in Call |-> "none"]
        /\ reset = [c \in Call |-> FALSE]
        /\ effect = [c \in Call |-> "none"]
        /\ up = TRUE
        /\ restarts = 0

Goto(c, label)   == pc' = [pc EXCEPT ![c] = label]
End(c, how)      == Goto(c, "done") /\ result' = [result EXCEPT ![c] = how]
Become(c, label) == srv' = [srv EXCEPT ![c] = label]

\* main(): the exit status of a command that does nothing but this call.
ExitStatus(c) == CASE result[c] \in {"ok", "brokenpipe"}       -> 0
                   [] result[c] = "interrupted"                -> 130
                   [] OTHER                                    -> 1

-----------------------------------------------------------------------------
(* rpc(). *)

Connect(c) == /\ pc[c] = "connect"
              /\ up
              /\ Goto(c, "send")
              /\ Become(c, "backlog")
              /\ UNCHANGED <<result, effect, socketVars, brokerVars>>

ConnectFails(c) == /\ pc[c] = "connect"
                   /\ ~up
                   /\ End(c, "unreachable")
                   /\ UNCHANGED <<threadVars, socketVars, brokerVars>>

SendAll(c) == /\ pc[c] = "send"
              /\ srv[c] \in Open
              /\ Goto(c, "read")
              /\ request' = [request EXCEPT ![c] = TRUE]
              /\ UNCHANGED <<result, threadVars, reply, reset, brokerVars>>

\* EPIPE: the broker's end is closed already.
SendFails(c) == /\ pc[c] = "send"
                /\ srv[c] = "closed"
                /\ End(c, "brokenpipe")
                /\ UNCHANGED <<threadVars, socketVars, brokerVars>>

ReadReply(c) == /\ pc[c] = "read"
                /\ reply[c] # "none"
                /\ End(c, reply[c])
                /\ UNCHANGED <<threadVars, socketVars, brokerVars>>

\* Mutant: the missing line is handed to the caller as if it were a reply.
ReadEnd_HandsOnNothing(c) == /\ pc[c] = "read"
                             /\ reply[c] = "none"
                             /\ srv[c] = "closed"
                             /\ End(c, IF reset[c] THEN "connreset" ELSE reply[c])
                             /\ UNCHANGED <<threadVars, socketVars, brokerVars>>

\* Mutant: without the break the loop reads on at the end of the file.
ReadEnd_ReadsOn(c) == /\ pc[c] = "read"
                      /\ reply[c] = "none"
                      /\ srv[c] = "closed"
                      /\ reset[c]
                      /\ End(c, "connreset")
                      /\ UNCHANGED <<threadVars, socketVars, brokerVars>>

ReadEnd(c) == /\ pc[c] = "read"
              /\ reply[c] = "none"
              /\ srv[c] = "closed"
              /\ End(c, IF reset[c] THEN "connreset" ELSE "unreachable")
              /\ UNCHANGED <<threadVars, socketVars, brokerVars>>

\* Esc or Ctrl-C.
Interrupt(c) == /\ pc[c] # "done"
                /\ End(c, "interrupted")
                /\ UNCHANGED <<threadVars, socketVars, brokerVars>>

-----------------------------------------------------------------------------
(* UnixSocketTransport: accept, then one thread per connection. *)

Accept(c) == /\ srv[c] = "backlog"
             /\ Become(c, "reading")
             /\ UNCHANGED <<clientVars, effect, socketVars, brokerVars>>

ReadLine(c) == /\ srv[c] = "reading"
               /\ request[c]
               /\ Become(c, "dispatch")
               /\ request' = [request EXCEPT ![c] = FALSE]
               /\ UNCHANGED <<clientVars, effect, reply, reset, brokerVars>>

\* The client hung up without asking anything.
HungUp(c) == /\ srv[c] = "reading"
             /\ ~request[c]
             /\ pc[c] = "done"
             /\ Become(c, "close")
             /\ UNCHANGED <<clientVars, effect, socketVars, brokerVars>>

\* Mutant: the wait for the line has no limit.
RequestTimeout_Never(c) == FALSE /\ UNCHANGED vars

\* REQUEST_TIMEOUT bounds every recv of _read_line and begins anew with each piece of
\* the line; rpc() sends its line in one sendall, so there is nothing of it or all
\* of it.  The line may arrive between the timeout and the close.
RequestTimeout(c) == /\ srv[c] = "reading"
                     /\ ~request[c]
                     /\ c \in Dawdler
                     /\ reply' = [reply EXCEPT ![c] = "refused"]
                     /\ Become(c, "close")
                     /\ UNCHANGED <<clientVars, effect, request, reset, brokerVars>>

\* Mutant: the answer goes out before the request is carried out.
Dispatch_AnswersFirst(c) == /\ srv[c] = "dispatch"
                            /\ reply' = [reply EXCEPT ![c] = "ok"]
                            /\ Become(c, "reply")
                            /\ UNCHANGED <<clientVars, effect, request, reset, brokerVars>>

Dispatch(c) == /\ srv[c] = "dispatch"
               /\ \E r \in Answer : effect' = [effect EXCEPT ![c] = r]
               /\ Become(c, "reply")
               /\ UNCHANGED <<clientVars, socketVars, brokerVars>>

\* A client that is gone makes no difference: _write swallows the error.
WriteReply(c) == /\ srv[c] = "reply"
                 /\ reply' = [reply EXCEPT ![c] = effect[c]]
                 /\ Become(c, "close")
                 /\ UNCHANGED <<clientVars, effect, request, reset, brokerVars>>

CloseConn(c) == /\ srv[c] = "close"
                /\ Become(c, "closed")
                /\ reset' = [reset EXCEPT ![c] = request[c]]
                /\ UNCHANGED <<clientVars, effect, request, reply, brokerVars>>

-----------------------------------------------------------------------------
(* The broker as a whole. *)

\* The kernel closes the listener and every connection, accepted or not.
BrokerDies == /\ up
              /\ restarts < MaxRestart
              /\ up' = FALSE
              /\ restarts' = restarts + 1
              /\ srv' = [c \in Call |-> IF srv[c] \in Open THEN "closed" ELSE srv[c]]
              /\ reset' = [c \in Call |-> reset[c] \/ (srv[c] \in Open /\ request[c])]
              /\ UNCHANGED <<clientVars, effect, request, reply>>

BrokerStarts == /\ ~up
                /\ up' = TRUE
                /\ UNCHANGED <<clientVars, threadVars, socketVars, restarts>>

-----------------------------------------------------------------------------

Thread(c) == \/ Accept(c) \/ ReadLine(c) \/ HungUp(c) \/ RequestTimeout(c)
             \/ Dispatch(c) \/ WriteReply(c) \/ CloseConn(c)
Client(c) == \/ Connect(c) \/ ConnectFails(c) \/ SendAll(c) \/ SendFails(c)
             \/ ReadReply(c) \/ ReadEnd(c)

Next == \/ \E c \in Call : Thread(c) \/ Client(c) \/ Interrupt(c)
        \/ BrokerDies \/ BrokerStarts

Spec == Init /\ [][Next]_vars

\* The broker's threads run, and so does a client that does not dawdle; one that
\* does may stop for good with its line unsent.
FairSpec == /\ Spec
            /\ \A c \in Call : WF_vars(Thread(c))
            /\ \A c \in Call \ Dawdler : WF_vars(Client(c))
            /\ \A c \in Dawdler : WF_vars(pc[c] = "read" /\ Client(c))

-----------------------------------------------------------------------------
(* Properties. *)

\* A reply line is the truth: a call that ends with the broker's yes was carried
\* out, and one that ends with its no changed nothing, whatever went away since.
AnswerIsTrue == \A c \in Call : /\ result[c] = "ok" => effect[c] = "ok"
                                /\ result[c] = "refused" => effect[c] # "ok"

\* The BrokenPipeError that main() turns into status 0 is "`ccd ls | head` and
\* friends", a reader of stdout that went away: status 0 means it was carried out.
ZeroMeansDone == \A c \in Call : pc[c] = "done" /\ ExitStatus(c) = 0 => effect[c] = "ok"

\* A call that sent its line comes to an end, whatever becomes of the broker.
EveryCallEnds == \A c \in Call : pc[c] = "read" ~> pc[c] = "done"

\* No connection holds on to its thread: a client that never sends its line is
\* hung up on.
EveryThreadEnds == \A c \in Call : srv[c] \in Open ~> srv[c] = "closed"
=============================================================================
