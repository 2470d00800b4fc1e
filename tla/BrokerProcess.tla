--------------------------- MODULE BrokerProcess ----------------------------
(***************************************************************************)
(* The life of a broker process and the commands that manage it: how a     *)
(* broker takes the socket path at start and gives it back at exit, and    *)
(* how `ccd broker start` and `ccd broker stop` find it through the path   *)
(* and the pidfile.                                                        *)
(*                                                                         *)
(* The path and the pidfile are two files shared by every broker and every *)
(* command, with no lock around them.  Each step below is one system call  *)
(* on one of them (or one ping), so anything may happen between the look   *)
(* at a file and the deed that rests on it.                                *)
(***************************************************************************)
EXTENDS FiniteSets, Naturals

CONSTANTS Broker,      \* broker processes ever created; a broker is its pid
          Starter,     \* shells that run `ccd broker start`
          Stopper,     \* shells that run `ccd broker stop`
          OneAtATime,  \* one command at a time on the host
          Service,     \* brokers a service manager starts, without a pidfile
          Slow,        \* brokers that may need over 5s to come up or to exit
          Crasher,     \* brokers that may be killed with no chance to clean up
          None         \* no file, no process

ASSUME BrokerProcessAssumption == /\ None \notin Broker
                                  /\ OneAtATime \in BOOLEAN
                                  /\ Service \cup Slow \cup Crasher \subseteq Broker

VARIABLES proc,     \* where each broker process is
          term,     \* SIGTERM is pending
          path,     \* the broker whose socket is bound at the path, or None
          pidfile,  \* the pid in the pidfile, or None
          pc,       \* where each shell's command is
          child,    \* the broker that `start` spawned
          target    \* the pid that `stop` read

brokerVars == <<proc, term, path>>
vars == <<brokerVars, pidfile, pc, child, target>>

Shell == Starter \cup Stopper

Coming  == {"look", "probe", "unlink", "bind", "chmod", "listen", "enter"}
Running == Coming \cup {"serving", "closing", "unbind"}
Over    == {"exited", "refused", "failed", "killed"}

TypeOK == /\ proc \in [Broker -> {"fresh"} \cup Running \cup Over]
          /\ term \in [Broker -> BOOLEAN]
          /\ path \in Broker \cup {None}
          /\ pidfile \in Broker \cup {None}
          /\ pc \in [Shell -> {"idle", "spawn", "record", "await", "ask", "read",
                               "signal", "waitexit", "stale", "forget"}]
          /\ child \in [Shell -> Broker \cup {None}]
          /\ target \in [Shell -> Broker \cup {None}]

Init == /\ proc = [b \in Broker |-> "fresh"]
        /\ term = [b \in Broker |-> FALSE]
        /\ path = None
        /\ pidfile = None
        /\ pc = [s \in Shell |-> "idle"]
        /\ child = [s \in Shell |-> None]
        /\ target = [s \in Shell |-> None]

Become(b, label) == proc' = [proc EXCEPT ![b] = label]
Goto(s, label)   == pc' = [pc EXCEPT ![s] = label]

Alive(b) == proc[b] \in Running

\* A connect succeeds while the broker at the path listens; a ping is answered
\* only by its accept loop.
Listens == path # None /\ proc[path] \in {"enter", "serving", "closing"}
Answers == path # None /\ proc[path] = "serving"

-----------------------------------------------------------------------------
(* UnixSocketTransport._bind, one system call at a time. *)

Look(b) == /\ proc[b] = "look"
           /\ Become(b, IF path = None THEN "bind" ELSE "probe")
           /\ UNCHANGED <<term, path, pidfile, pc, child, target>>

\* Mutant: a file at the path is taken for a running broker.
Probe_AnyFile(b) == /\ proc[b] = "probe"
                    /\ Become(b, IF path # None THEN "refused" ELSE "unlink")
                    /\ UNCHANGED <<term, path, pidfile, pc, child, target>>

\* _socket_is_live: "already running", or a stale socket to remove.
Probe(b) == /\ proc[b] = "probe"
            /\ Become(b, IF Listens THEN "refused" ELSE "unlink")
            /\ UNCHANGED <<term, path, pidfile, pc, child, target>>

\* Mutant: the stale socket stays.
Unlink_Forgotten(b) == /\ proc[b] = "unlink"
                       /\ Become(b, "bind")
                       /\ UNCHANGED <<term, path, pidfile, pc, child, target>>

\* Removes whatever is at the path by now.
Unlink(b) == /\ proc[b] = "unlink"
             /\ Become(b, IF path = None THEN "failed" ELSE "bind")
             /\ path' = None
             /\ UNCHANGED <<term, pidfile, pc, child, target>>

\* Mutant: a bind that fails still runs close, as it would inside serve's try.
Bind_InsideTry(b) == /\ proc[b] = "bind"
                     /\ Become(b, IF path = None THEN "chmod" ELSE "failed")
                     /\ path' = IF path = None THEN b ELSE None
                     /\ UNCHANGED <<term, pidfile, pc, child, target>>

Bind(b) == /\ proc[b] = "bind"
           /\ Become(b, IF path = None THEN "chmod" ELSE "failed")
           /\ path' = IF path = None THEN b ELSE path
           /\ UNCHANGED <<term, pidfile, pc, child, target>>

Chmod(b) == /\ proc[b] = "chmod"
            /\ Become(b, IF path = None THEN "failed" ELSE "listen")
            /\ UNCHANGED <<term, path, pidfile, pc, child, target>>

\* serve's try/finally begins only after _bind has returned.
Listen(b) == /\ proc[b] = "listen"
             /\ Become(b, "enter")
             /\ UNCHANGED <<term, path, pidfile, pc, child, target>>

Enter(b) == /\ proc[b] = "enter"
            /\ Become(b, "serving")
            /\ UNCHANGED <<term, path, pidfile, pc, child, target>>

-----------------------------------------------------------------------------
(* Exit. *)

\* SIGTERM raises SystemExit in the main thread: inside serve's try it leads to
\* close, anywhere else the process ends at once and its socket file stays.
Terminate(b) == /\ term[b]
                /\ Alive(b)
                /\ term' = [term EXCEPT ![b] = FALSE]
                /\ Become(b, IF proc[b] = "serving" THEN "closing" ELSE "exited")
                /\ UNCHANGED <<path, pidfile, pc, child, target>>

CloseListener(b) == /\ proc[b] = "closing"
                    /\ Become(b, "unbind")
                    /\ UNCHANGED <<term, path, pidfile, pc, child, target>>

\* Removes whatever is at the path by now.
UnlinkPath(b) == /\ proc[b] = "unbind"
                 /\ Become(b, "exited")
                 /\ path' = None
                 /\ UNCHANGED <<term, pidfile, pc, child, target>>

Crash(b) == /\ b \in Crasher
            /\ Alive(b)
            /\ Become(b, "killed")
            /\ UNCHANGED <<term, path, pidfile, pc, child, target>>

ServiceStarts(b) == /\ b \in Service
                    /\ proc[b] = "fresh"
                    /\ Become(b, "look")
                    /\ UNCHANGED <<term, path, pidfile, pc, child, target>>

-----------------------------------------------------------------------------
(* ccd broker start. *)

Free(s)   == pc[s] = "idle" /\ (OneAtATime => \A t \in Shell : pc[t] = "idle")
Spawnable == {b \in Broker \ Service : proc[b] = "fresh"}

\* Bounded by the processes the model has left.
StartAsks(s) == /\ s \in Starter
                /\ Free(s)
                /\ ~Answers
                /\ Cardinality(Spawnable) > Cardinality({t \in Shell : pc[t] = "spawn"})
                /\ Goto(s, "spawn")
                /\ UNCHANGED <<brokerVars, pidfile, child, target>>

Spawn(s, b) == /\ pc[s] = "spawn"
               /\ b \in Spawnable
               /\ Become(b, "look")
               /\ child' = [child EXCEPT ![s] = b]
               /\ Goto(s, "record")
               /\ UNCHANGED <<term, path, pidfile, target>>

\* Mutants: the pid written is the command's own; it is written only when no
\* pidfile is there.
Record_OwnPid(s) == /\ pc[s] = "record"
                    /\ pidfile' = s
                    /\ Goto(s, "await")
                    /\ UNCHANGED <<brokerVars, child, target>>

Record_KeepsOld(s) == /\ pc[s] = "record"
                      /\ pidfile' = IF pidfile = None THEN child[s] ELSE pidfile
                      /\ Goto(s, "await")
                      /\ UNCHANGED <<brokerVars, child, target>>

Record(s) == /\ pc[s] = "record"
             /\ pidfile' = child[s]
             /\ Goto(s, "await")
             /\ UNCHANGED <<brokerVars, child, target>>

\* Any broker's answer will do.
StartHears(s) == /\ pc[s] = "await"
                 /\ Answers
                 /\ Goto(s, "idle")
                 /\ UNCHANGED <<brokerVars, pidfile, child, target>>

\* Mutant: start waits for the answer as long as it takes.
StartGivesUp_Never(s) == FALSE /\ UNCHANGED vars

\* 50 pings went unanswered: the child is slow, gone, or not at the path.
StartGivesUp(s) == /\ pc[s] = "await"
                   /\ ~Answers
                   /\ child[s] \in Slow \/ proc[child[s]] \notin Coming
                   /\ Goto(s, "idle")
                   /\ UNCHANGED <<brokerVars, pidfile, child, target>>

-----------------------------------------------------------------------------
(* ccd broker stop. *)

StopLooks(s) == /\ s \in Stopper
                /\ Free(s)
                /\ Goto(s, IF pidfile = None THEN "ask" ELSE "read")
                /\ UNCHANGED <<brokerVars, pidfile, child, target>>

\* Either "running but no pidfile" or "not running".
StopAsks(s) == /\ pc[s] = "ask"
               /\ Goto(s, "idle")
               /\ UNCHANGED <<brokerVars, pidfile, child, target>>

StopReads(s) == /\ pc[s] = "read"
                /\ Goto(s, IF pidfile = None THEN "stale" ELSE "signal")
                /\ target' = [target EXCEPT ![s] = pidfile]
                /\ UNCHANGED <<brokerVars, pidfile, child>>

StopSignals(s) == /\ pc[s] = "signal"
                  /\ IF Alive(target[s])
                     THEN /\ term' = [term EXCEPT ![target[s]] = TRUE]
                          /\ Goto(s, "waitexit")
                     ELSE /\ Goto(s, "stale")
                          /\ UNCHANGED term
                  /\ UNCHANGED <<proc, path, pidfile, child, target>>

\* Mutant: stop does not wait for the process it signalled.
StopSeesExit_AtOnce(s) == /\ pc[s] = "waitexit"
                          /\ Goto(s, "forget")
                          /\ UNCHANGED <<brokerVars, pidfile, child, target>>

StopSeesExit(s) == /\ pc[s] = "waitexit"
                   /\ ~Alive(target[s])
                   /\ Goto(s, "forget")
                   /\ UNCHANGED <<brokerVars, pidfile, child, target>>

StopGivesUp(s) == /\ pc[s] = "waitexit"
                  /\ Alive(target[s])
                  /\ target[s] \in Slow
                  /\ Goto(s, "idle")
                  /\ UNCHANGED <<brokerVars, pidfile, child, target>>

\* Removes the pidfile whatever it says by now: "not running (stale pidfile
\* removed)" or "stopped".
StopForgets(s) == /\ pc[s] \in {"stale", "forget"}
                  /\ pidfile' = None
                  /\ Goto(s, "idle")
                  /\ UNCHANGED <<brokerVars, child, target>>

-----------------------------------------------------------------------------

Binding(b) == Look(b) \/ Probe(b) \/ Unlink(b) \/ Bind(b) \/ Chmod(b) \/ Listen(b) \/ Enter(b)
Exiting(b) == Terminate(b) \/ CloseListener(b) \/ UnlinkPath(b)
Process(b) == Binding(b) \/ Exiting(b)

Command(s) == \/ \E b \in Broker : Spawn(s, b)
              \/ Record(s) \/ StartHears(s) \/ StartGivesUp(s)
              \/ StopAsks(s) \/ StopReads(s) \/ StopSignals(s)
              \/ StopSeesExit(s) \/ StopGivesUp(s) \/ StopForgets(s)

Next == \/ \E b \in Broker : Process(b) \/ Crash(b) \/ ServiceStarts(b)
        \/ \E s \in Shell : Command(s) \/ StartAsks(s) \/ StopLooks(s)

Spec == Init /\ [][Next]_vars

\* Processes run; nobody has to give a command, crash or start a service.
FairSpec == Spec /\ (\A b \in Broker : WF_vars(Process(b)))
                 /\ (\A s \in Shell : WF_vars(Command(s)))

-----------------------------------------------------------------------------
(* Properties. *)

\* "One broker per host per account serves every session".
OneBroker == \A b, c \in Broker : proc[b] = "serving" /\ proc[c] = "serving" => b = c

\* A broker that serves can be reached: nobody has removed its socket from the
\* path or put another in its place.
ServingIsReachable == \A b \in Broker : proc[b] = "serving" => path = b

\* Commands given one after the other keep the two files in step: between two
\* commands, the broker that answers is the one the pidfile names ...
PidfileNamesBroker ==
    Answers /\ (\A s \in Shell : pc[s] = "idle") => pidfile = path

\* ... and what a dead broker left behind never stops the next one.
LeftoversAreHarmless == \A b \in Broker : proc[b] \notin {"refused", "failed"}

\* "`ccd broker start` records the broker's pid so `ccd broker stop` can find and
\* signal it": stop never calls a pidfile stale while a broker answers.
StopTellsTheTruth ==
    [][\A s \in Shell : pc[s] = "stale" /\ pc'[s] = "idle" => ~Answers]_vars

\* Every command ends, whatever the brokers and the other commands do.
EveryCommandEnds == \A s \in Shell : pc[s] # "idle" ~> pc[s] = "idle"

\* However many starts race, and however many of their children fail, somebody
\* answers in the end, unless a broker was stopped or killed meanwhile.
StartsConverge ==
    \A s \in Shell : pc[s] = "await"
                        ~> (Answers \/ \E b \in Broker : proc[b] \in {"exited", "killed"})
=============================================================================
