------------------------------ MODULE Delivery ------------------------------
(***************************************************************************)
(* What the broker promises about every message whose send it answered     *)
(* with ok and an id, and nothing about how it keeps the promise: a        *)
(* message waits, is reserved for one recv, and from there is either       *)
(* received, put back to wait, or written off because the client that      *)
(* holds its reply did not read it in time.  A received message never      *)
(* moves again and no message disappears.                                  *)
(***************************************************************************)
EXTENDS Naturals, Sequences

CONSTANTS Handle,    \* the names mail is addressed to
          MaxMsg     \* bound on the number of messages accepted

VARIABLES sentTo,    \* sentTo[m] is the handle message m was sent to
          place      \* place[m] is where message m is now

vars == <<sentTo, place>>

Place == {"queued", "reserved", "received", "lapsed"}

TypeOK == /\ sentTo \in Seq(Handle)
          /\ place \in [1..Len(sentTo) -> Place]

Init == /\ sentTo = <<>>
        /\ place = <<>>

Accept(h) == /\ Len(sentTo) < MaxMsg
             /\ sentTo' = Append(sentTo, h)
             /\ place' = [m \in 1..(Len(sentTo) + 1) |->
                             IF m <= Len(sentTo) THEN place[m] ELSE "queued"]

Move(m, from, to) == /\ place[m] = from
                     /\ place' = [place EXCEPT ![m] = to]
                     /\ UNCHANGED sentTo

Reserve(m)     == Move(m, "queued", "reserved")
PutBack(m)     == Move(m, "reserved", "queued")
Receive(m)     == Move(m, "reserved", "received")
WriteOff(m)    == Move(m, "reserved", "lapsed")
ReceiveLate(m) == Move(m, "lapsed", "received")

Next == \/ \E h \in Handle : Accept(h)
        \/ \E m \in 1..Len(sentTo) : \/ Reserve(m)
                                     \/ PutBack(m)
                                     \/ Receive(m)
                                     \/ WriteOff(m)
                                     \/ ReceiveLate(m)

Spec == Init /\ [][Next]_vars
=============================================================================
