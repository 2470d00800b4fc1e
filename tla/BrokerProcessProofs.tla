------------------------ MODULE BrokerProcessProofs -------------------------
(* Proofs about BrokerProcess, for any number of brokers and shells.         *)
EXTENDS BrokerProcess, TLAPS

\* A host on which the two files stay in step: one command at a time, no service
\* manager beside it, and no broker that takes more than 5s to come up or to exit.
\* Any broker may still be killed at any time.
Orderly == OneAtATime /\ Service = {} /\ Slow = {}

-----------------------------------------------------------------------------
(* The invariant. *)

\* Commands take turns, and a broker that is on its way up or down is the business of
\* the one that is under way.
Turns ==
    /\ \A s, t \in Shell : pc[s] # "idle" /\ pc[t] # "idle" => s = t
    /\ \A b \in Broker : proc[b] \in Coming =>
          \E s \in Shell : pc[s] \in {"record", "await"} /\ child[s] = b
    /\ \A b \in Broker : Alive(b) /\ (term[b] = TRUE \/ proc[b] \in {"closing", "unbind"}) =>
          \E s \in Shell : pc[s] = "waitexit" /\ target[s] = b
    /\ \A b \in Broker : proc[b] = "fresh" => term[b] = FALSE

\* There is no second broker, none when one is spawned or the pidfile is removed, and
\* none but its child while a start records and awaits it.
OneProcess ==
    /\ \A b, c \in Broker : Alive(b) /\ Alive(c) => b = c
    /\ \A s \in Shell : pc[s] \in {"spawn", "stale", "forget"} => \A b \in Broker : ~Alive(b)
    /\ \A s \in Shell : pc[s] \in {"record", "await"} =>
          \A b \in Broker : Alive(b) => child[s] = b

\* What a broker has found at the path is still there, and what it has put there too.
Socket == \A b \in Broker :
    /\ proc[b] \in {"chmod", "listen", "enter", "serving", "closing", "unbind"} => path = b
    /\ proc[b] \in {"probe", "unlink"} => path # None
    /\ proc[b] = "bind" => path = None

\* The pidfile names the broker that is up, as soon as its start has recorded it.
Pidfile ==
    /\ \A s \in Shell : /\ pc[s] = "await" => pidfile = child[s]
                        /\ pc[s] = "read" => pidfile # None
                        /\ pc[s] \in {"signal", "waitexit"} =>
                              pidfile # None /\ target[s] = pidfile
    /\ \A b \in Broker : proc[b] \in {"serving", "closing", "unbind"} =>
          pidfile = b \/ \E s \in Shell : pc[s] = "record" /\ child[s] = b

BInv == TypeOK /\ Turns /\ OneProcess /\ Socket /\ Pidfile /\ LeftoversAreHarmless

-----------------------------------------------------------------------------

\* Brokers and commands, in whatever number and order, keep every variable in its type:
\* a pid that is recorded, read or signalled is one of a broker or none.
THEOREM TypeCorrect == Spec => []TypeOK
<1> USE DEF TypeOK, Coming, Running, Over
<1>1. Init => TypeOK
  BY DEF Init
<1>2. TypeOK /\ [Next]_vars => TypeOK'
  <2> SUFFICES ASSUME TypeOK, [Next]_vars PROVE TypeOK'
    OBVIOUS
  <2>1. ASSUME NEW b \in Broker, Binding(b) PROVE TypeOK'
    BY <2>1 DEF Binding, Look, Probe, Unlink, Bind, Chmod, Listen, Enter, Become
  <2>2. ASSUME NEW b \in Broker, Exiting(b) \/ Crash(b) \/ ServiceStarts(b) PROVE TypeOK'
    BY <2>2 DEF Exiting, Terminate, CloseListener, UnlinkPath, Crash, ServiceStarts, Become
  <2>3. ASSUME NEW s \in Shell, StartAsks(s) \/ StopLooks(s) PROVE TypeOK'
    BY <2>3 DEF StartAsks, StopLooks, Goto, brokerVars
  <2>4. ASSUME NEW s \in Shell, NEW b \in Broker, Spawn(s, b) PROVE TypeOK'
    BY <2>4 DEF Spawn, Goto, Become
  <2>5. ASSUME NEW s \in Shell, Record(s) \/ StartHears(s) \/ StartGivesUp(s) PROVE TypeOK'
    BY <2>5 DEF Record, StartHears, StartGivesUp, Goto, brokerVars
  <2>6. ASSUME NEW s \in Shell, StopAsks(s) \/ StopReads(s) \/ StopSignals(s) PROVE TypeOK'
    BY <2>6 DEF StopAsks, StopReads, StopSignals, Goto, brokerVars
  <2>7. ASSUME NEW s \in Shell, StopSeesExit(s) \/ StopGivesUp(s) \/ StopForgets(s) PROVE TypeOK'
    BY <2>7 DEF StopSeesExit, StopGivesUp, StopForgets, Goto, brokerVars
  <2>8. CASE UNCHANGED vars
    BY <2>8 DEF vars, brokerVars
  <2> QED BY <2>1, <2>2, <2>3, <2>4, <2>5, <2>6, <2>7, <2>8 DEF Next, Process, Command
<1> QED BY <1>1, <1>2, PTL DEF Spec

-----------------------------------------------------------------------------
(* The steps of a broker. *)

\* A step of the one broker there is: nothing is asked of the others, which are dead.
LEMMA BrokerStep ==
    ASSUME BInv, NEW b \in Broker, Process(b) \/ Crash(b)
    PROVE  (Turns /\ OneProcess /\ Socket /\ Pidfile /\ LeftoversAreHarmless)'
<1> USE DEF TypeOK, Coming, Running, Over, Alive, Become
<1>1. Alive(b) /\ \A c \in Broker \ {b} : ~Alive(c)
  BY DEF BInv, OneProcess, Process, Binding, Exiting, Look, Probe, Unlink, Bind, Chmod, Listen,
         Enter, Terminate, CloseListener, UnlinkPath, Crash
<1>2. UNCHANGED <<pidfile, pc, child, target>> /\ \A c \in Broker \ {b} : proc'[c] = proc[c]
  BY DEF BInv, Process, Binding, Exiting, Look, Probe, Unlink, Bind, Chmod, Listen,
         Enter, Terminate, CloseListener, UnlinkPath, Crash
<1>3. \A c \in Broker : term'[c] = TRUE => term[c] = TRUE
  BY DEF BInv, Process, Binding, Exiting, Look, Probe, Unlink, Bind, Chmod, Listen,
         Enter, Terminate, CloseListener, UnlinkPath, Crash
<1>4. /\ proc'[b] \in Coming => proc[b] \in Coming
      /\ proc'[b] \in {"closing", "unbind"} =>
            proc[b] \in {"closing", "unbind"} \/ term[b] = TRUE
      /\ proc'[b] = "serving" => proc[b] = "enter"
      /\ proc'[b] # "fresh"
  BY DEF BInv, Process, Binding, Exiting, Look, Probe, Unlink, Bind, Chmod, Listen,
         Enter, Terminate, CloseListener, UnlinkPath, Crash
<1>5. term[b] = TRUE /\ Alive(b) => proc[b] \notin Coming
  BY DEF BInv, Turns
<1>6. proc'[b] \notin {"refused", "failed"}
  BY <1>1, BrokerProcessAssumption
     DEF BInv, Socket, LeftoversAreHarmless, Listens, Process, Binding, Exiting, Look, Probe,
         Unlink, Bind, Chmod, Listen, Enter, Terminate, CloseListener, UnlinkPath, Crash
<1>7. /\ proc'[b] \in {"chmod", "listen", "enter", "serving", "closing", "unbind"} => path' = b
      /\ proc'[b] \in {"probe", "unlink"} => path' # None
      /\ proc'[b] = "bind" => path' = None
  BY <1>5, BrokerProcessAssumption
     DEF BInv, Socket, Process, Binding, Exiting, Look, Probe, Unlink, Bind, Chmod, Listen,
         Enter, Terminate, CloseListener, UnlinkPath, Crash
<1>8. Turns'
  BY <1>1, <1>2, <1>3, <1>4 DEF BInv, Turns
<1>9. OneProcess'
  BY <1>1, <1>2 DEF BInv, OneProcess
<1>10. Socket'
  BY <1>1, <1>2, <1>7 DEF Socket
<1>11. Pidfile'
  BY <1>1, <1>2, <1>4, <1>5 DEF BInv, Pidfile, Turns
<1> QED BY <1>2, <1>6, <1>8, <1>9, <1>10, <1>11 DEF BInv, LeftoversAreHarmless

-----------------------------------------------------------------------------
(* The steps of a command. *)

\* Where the command under way is neither a start that waits for its broker nor a stop
\* that waits for one to exit, a broker that is up serves, and answers.
LEMMA UpIsServing ==
    ASSUME BInv, NEW b \in Broker, Alive(b),
           \/ \A s \in Shell : pc[s] = "idle"
           \/ \E s \in Shell : pc[s] \notin {"idle", "record", "await", "waitexit"}
    PROVE  proc[b] = "serving" /\ path = b /\ pidfile = b /\ Answers
<1>1. \A s \in Shell : pc[s] \notin {"record", "await", "waitexit"}
  BY DEF BInv, Turns
<1>2. proc[b] = "serving"
  BY <1>1 DEF BInv, Turns, Alive, Running
<1>3. path = b /\ pidfile = b
  BY <1>1, <1>2 DEF BInv, Socket, Pidfile
<1> QED BY <1>2, <1>3, BrokerProcessAssumption DEF Answers

\* A step of `ccd broker start` keeps socket and pidfile in step.
LEMMA StartStep ==
    ASSUME Orderly, BInv, NEW s \in Shell,
           \/ StartAsks(s) \/ Record(s) \/ StartHears(s) \/ StartGivesUp(s)
           \/ \E b \in Broker : Spawn(s, b)
    PROVE  (Turns /\ OneProcess /\ Socket /\ Pidfile /\ LeftoversAreHarmless)'
<1> USE DEF TypeOK, Goto
<1>1. CASE StartAsks(s)
  <2>1. /\ \A t \in Shell : pc[t] = "idle"
        /\ UNCHANGED <<proc, term, path, pidfile, child, target>>
        /\ pc' = [pc EXCEPT ![s] = "spawn"]
    BY <1>1 DEF StartAsks, Free, Orderly, brokerVars
  <2>2. \A b \in Broker : ~Alive(b)
    BY <1>1, <2>1, UpIsServing DEF StartAsks
  <2>3. Turns' /\ OneProcess' /\ Socket' /\ LeftoversAreHarmless'
    BY <2>1, <2>2 DEF BInv, Turns, OneProcess, Socket, LeftoversAreHarmless, Alive, Running, Coming
  <2>4. Pidfile'
    BY <2>1 DEF BInv, Pidfile
  <2> QED BY <2>3, <2>4
<1>2. ASSUME NEW b \in Broker, Spawn(s, b)
      PROVE  (Turns /\ OneProcess /\ Socket /\ Pidfile /\ LeftoversAreHarmless)'
  <2>1. /\ pc[s] = "spawn" /\ proc[b] = "fresh"
        /\ proc' = [proc EXCEPT ![b] = "look"]
        /\ child' = [child EXCEPT ![s] = b]
        /\ pc' = [pc EXCEPT ![s] = "record"]
        /\ UNCHANGED <<term, path, pidfile, target>>
    BY <1>2 DEF Spawn, Spawnable, Become
  <2>2. /\ \A c \in Broker : ~Alive(c)
        /\ \A t \in Shell \ {s} : pc[t] = "idle"
        /\ term[b] = FALSE
    BY <2>1 DEF BInv, OneProcess, Turns
  <2>3. \A c \in Broker : Alive(c)' => c = b
    BY <2>1, <2>2 DEF Alive
  <2>4. Turns'
    BY <2>1, <2>2, <2>3 DEF BInv, Turns, Alive, Running, Coming
  <2>5. OneProcess' /\ Socket' /\ LeftoversAreHarmless'
    BY <2>1, <2>2, <2>3 DEF BInv, OneProcess, Socket, LeftoversAreHarmless
  <2>6. Pidfile'
    BY <2>1, <2>2, <2>3 DEF BInv, Pidfile, Alive, Running
  <2> QED BY <2>4, <2>5, <2>6
<1>3. CASE Record(s)
  <2>1. /\ pc[s] = "record" /\ pidfile' = child[s]
        /\ pc' = [pc EXCEPT ![s] = "await"]
        /\ UNCHANGED <<proc, term, path, child, target>>
    BY <1>3 DEF Record, brokerVars
  <2>2. \A t \in Shell \ {s} : pc[t] = "idle"
    BY <2>1 DEF BInv, Turns
  <2>3. \A b \in Broker : Alive(b) => child[s] = b
    BY <2>1 DEF BInv, OneProcess
  <2>4. Turns' /\ OneProcess' /\ Socket' /\ LeftoversAreHarmless'
    BY <2>1, <2>2 DEF BInv, Turns, OneProcess, Socket, LeftoversAreHarmless, Alive
  <2>5. Pidfile'
    BY <2>1, <2>2, <2>3 DEF Pidfile, Alive, Running
  <2> QED BY <2>4, <2>5
<1>4. CASE StartHears(s) \/ StartGivesUp(s)
  <2>1. /\ pc[s] = "await"
        /\ pc' = [pc EXCEPT ![s] = "idle"]
        /\ UNCHANGED <<proc, term, path, pidfile, child, target>>
    BY <1>4 DEF StartHears, StartGivesUp, brokerVars
  <2>2. \A t \in Shell \ {s} : pc[t] = "idle"
    BY <2>1 DEF BInv, Turns
  <2>3. \A b \in Broker : proc[b] \notin Coming
    <3> SUFFICES ASSUME NEW b \in Broker, proc[b] \in Coming PROVE FALSE
      OBVIOUS
    <3>1. child[s] = b /\ Alive(b)
      BY <2>1, <2>2 DEF BInv, Turns, Alive, Running
    <3>2. Answers /\ path \in Broker
      BY <1>4, <3>1 DEF StartHears, StartGivesUp, Orderly, BInv, Answers
    <3>3. path = b /\ proc[path] = "serving"
      BY <3>1, <3>2 DEF BInv, OneProcess, Answers, Alive, Running
    <3> QED BY <3>3 DEF Coming
  <2>4. Turns' /\ OneProcess' /\ Socket' /\ LeftoversAreHarmless'
    BY <2>1, <2>2, <2>3 DEF BInv, Turns, OneProcess, Socket, LeftoversAreHarmless, Alive
  <2>5. Pidfile'
    BY <2>1, <2>2 DEF BInv, Pidfile
  <2> QED BY <2>4, <2>5
<1> QED BY <1>1, <1>2, <1>3, <1>4

\* A step of `ccd broker stop` keeps socket and pidfile in step.
LEMMA StopStep ==
    ASSUME Orderly, BInv, NEW s \in Shell,
           \/ StopLooks(s) \/ StopAsks(s) \/ StopReads(s) \/ StopSignals(s)
           \/ StopSeesExit(s) \/ StopGivesUp(s) \/ StopForgets(s)
    PROVE  (Turns /\ OneProcess /\ Socket /\ Pidfile /\ LeftoversAreHarmless)'
<1> USE DEF TypeOK, Goto
<1>1. UNCHANGED <<proc, path, child>> /\ \A t \in Shell \ {s} : pc[t] = "idle" /\ pc'[t] = "idle"
  <2>1. UNCHANGED <<proc, path, child>> /\ \A t \in Shell \ {s} : pc'[t] = pc[t]
    BY DEF BInv, StopLooks, StopAsks, StopReads, StopSignals, StopSeesExit, StopGivesUp,
           StopForgets, brokerVars
  <2>2. pc[s] # "idle" \/ \A t \in Shell : pc[t] = "idle"
    BY DEF StopLooks, Free, Orderly, StopAsks, StopReads, StopSignals, StopSeesExit,
           StopGivesUp, StopForgets
  <2> QED BY <2>1, <2>2 DEF BInv, Turns
<1>2. Socket' /\ LeftoversAreHarmless'
  BY <1>1 DEF BInv, Socket, LeftoversAreHarmless
<1>3. CASE StopLooks(s) \/ StopAsks(s)
  <2>1. /\ pc[s] \in {"idle", "ask"} /\ pc'[s] \in {"idle", "ask", "read"}
        /\ pc'[s] = "read" => pidfile # None
        /\ UNCHANGED <<term, pidfile, target>>
    BY <1>3 DEF StopLooks, StopAsks, Free, BInv, brokerVars
  <2>2. Turns' /\ OneProcess'
    BY <1>1, <2>1 DEF BInv, Turns, OneProcess, Alive
  <2>3. Pidfile'
    BY <1>1, <2>1 DEF BInv, Pidfile
  <2> QED BY <1>2, <2>2, <2>3
<1>4. CASE StopReads(s)
  <2>1. /\ pc[s] = "read" /\ pc' = [pc EXCEPT ![s] = "signal"]
        /\ target' = [target EXCEPT ![s] = pidfile]
        /\ UNCHANGED <<term, pidfile>>
    BY <1>4 DEF StopReads, BInv, Pidfile, brokerVars
  <2>2. Turns' /\ OneProcess'
    BY <1>1, <2>1 DEF BInv, Turns, OneProcess, Alive
  <2>3. Pidfile'
    BY <1>1, <2>1 DEF BInv, Pidfile
  <2> QED BY <1>2, <2>2, <2>3
<1>5. CASE StopSignals(s)
  <2>1. /\ pc[s] = "signal" /\ target[s] = pidfile /\ target[s] \in Broker
        /\ UNCHANGED <<pidfile, target>>
    BY <1>5 DEF StopSignals, BInv, Pidfile
  <2>2. \A b \in Broker : Alive(b) => b = target[s]
    BY <2>1, UpIsServing
  <2>3. CASE Alive(target[s])
    <3>1. term' = [term EXCEPT ![target[s]] = TRUE] /\ pc' = [pc EXCEPT ![s] = "waitexit"]
      BY <1>5, <2>3 DEF StopSignals
    <3>2. Turns'
      BY <1>1, <2>1, <2>2, <2>3, <3>1 DEF BInv, Turns, Alive, Running
    <3>3. OneProcess' /\ Pidfile'
      BY <1>1, <2>1, <3>1 DEF BInv, OneProcess, Pidfile, Alive
    <3> QED BY <1>2, <3>2, <3>3
  <2>4. CASE ~Alive(target[s])
    <3>1. term' = term /\ pc' = [pc EXCEPT ![s] = "stale"] /\ \A b \in Broker : ~Alive(b)
      BY <1>5, <2>2, <2>4 DEF StopSignals
    <3>2. Turns' /\ OneProcess'
      BY <1>1, <2>1, <3>1 DEF BInv, Turns, OneProcess, Alive, Running, Coming
    <3>3. Pidfile'
      BY <1>1, <2>1, <3>1 DEF BInv, Pidfile
    <3> QED BY <1>2, <3>2, <3>3
  <2> QED BY <2>3, <2>4
<1>6. CASE StopSeesExit(s)
  <2>1. /\ pc[s] = "waitexit" /\ target[s] = pidfile /\ ~Alive(target[s])
        /\ pc' = [pc EXCEPT ![s] = "forget"]
        /\ UNCHANGED <<term, pidfile, target>>
    BY <1>6 DEF StopSeesExit, BInv, Pidfile, brokerVars
  <2>2. \A b \in Broker : ~Alive(b)
    BY <1>1, <2>1 DEF BInv, Turns, Pidfile, Alive, Running
  <2>3. Turns' /\ OneProcess'
    BY <1>1, <2>1, <2>2 DEF BInv, Turns, OneProcess, Alive, Running, Coming
  <2>4. Pidfile'
    BY <1>1, <2>1 DEF BInv, Pidfile
  <2> QED BY <1>2, <2>3, <2>4
<1>7. ~StopGivesUp(s)
  BY DEF StopGivesUp, Orderly
<1>8. CASE StopForgets(s)
  <2>1. /\ pc[s] \in {"stale", "forget"} /\ pc' = [pc EXCEPT ![s] = "idle"]
        /\ UNCHANGED <<term, target>>
    BY <1>8 DEF StopForgets, brokerVars
  <2>2. \A b \in Broker : ~Alive(b)
    BY <2>1 DEF BInv, OneProcess
  <2>3. Turns' /\ OneProcess'
    BY <1>1, <2>1, <2>2 DEF BInv, Turns, OneProcess, Alive, Running, Coming
  <2>4. Pidfile'
    BY <1>1, <2>1, <2>2 DEF BInv, Pidfile, Alive, Running
  <2> QED BY <1>2, <2>3, <2>4
<1> QED BY <1>3, <1>4, <1>5, <1>6, <1>7, <1>8

-----------------------------------------------------------------------------
(* What holds on an orderly host. *)

\* With one command at a time and no service manager, the invariant holds throughout.
LEMMA Inductive == ASSUME Orderly PROVE Spec => []BInv
<1>1. Init => Turns /\ OneProcess /\ Socket /\ Pidfile /\ LeftoversAreHarmless
  BY DEF Init, Turns, OneProcess, Socket, Pidfile, LeftoversAreHarmless, Alive, Running, Coming
<1>2. ASSUME BInv, [Next]_vars
      PROVE  (Turns /\ OneProcess /\ Socket /\ Pidfile /\ LeftoversAreHarmless)'
  <2>1. CASE UNCHANGED vars
    BY <1>2, <2>1 DEF vars, brokerVars, BInv, Turns, OneProcess, Socket, Pidfile,
                      LeftoversAreHarmless, Alive
  <2>2. \A b \in Broker : ~ServiceStarts(b)
    BY DEF ServiceStarts, Orderly
  <2> QED BY <1>2, <2>1, <2>2, BrokerStep, StartStep, StopStep DEF Next, Command
<1> QED BY <1>1, <1>2, TypeCorrect, PTL DEF Spec, BInv

\* Commands that take turns leave nothing behind, whatever broker is killed meanwhile,
\* that stops a later start: no broker finds the path taken, or vanished under it.
THEOREM LeftoversHarmless == ASSUME Orderly PROVE Spec => []LeftoversAreHarmless
<1>1. BInv => LeftoversAreHarmless
  BY DEF BInv
<1> QED BY <1>1, Inductive, PTL

\* The socket of a broker that serves is the one at the path.
THEOREM ServingReachable == ASSUME Orderly PROVE Spec => []ServingIsReachable
<1>1. BInv => ServingIsReachable
  BY DEF BInv, Socket, ServingIsReachable
<1> QED BY <1>1, Inductive, PTL

\* Between two commands, the broker that answers is the one that stop will signal.
THEOREM PidfileNames == ASSUME Orderly PROVE Spec => []PidfileNamesBroker
<1>1. ASSUME BInv, Answers, \A s \in Shell : pc[s] = "idle" PROVE pidfile = path
  <2>1. path \in Broker /\ Alive(path)
    BY <1>1 DEF BInv, TypeOK, Answers, Alive, Running
  <2> QED BY <1>1, <2>1, UpIsServing
<1> QED BY <1>1, Inductive, PTL DEF PidfileNamesBroker

\* When stop says that no broker runs and removes the pidfile, none does.
THEOREM StopIsTruthful == ASSUME Orderly PROVE Spec => StopTellsTheTruth
<1>1. ASSUME BInv, NEW s \in Shell, pc[s] = "stale" PROVE ~Answers
  BY <1>1 DEF BInv, OneProcess, Answers, Alive, Running, TypeOK
<1>2. BInv => [\A s \in Shell : pc[s] = "stale" /\ pc'[s] = "idle" => ~Answers]_vars
  BY <1>1
<1> QED BY <1>2, Inductive, PTL DEF StopTellsTheTruth
=============================================================================
