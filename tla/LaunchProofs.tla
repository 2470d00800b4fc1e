---------------------------- MODULE LaunchProofs ----------------------------
(* Proofs about Launch, for any launches, names, attempts, pids and broker   *)
(* restarts.                                                                 *)
EXTENDS Launch, TLAPS

-----------------------------------------------------------------------------
(* The invariants. *)

\* A session runs from its exec until it exits, a launch made inside it was not begun
\* before, and a broker that does not answer was stopped.
Alive == /\ \A l \in Launcher : pc[l] \in Session <=> pidOf[l] \in running
         /\ \A l, m \in Launcher : pc[l] # "ping" /\ parentPid[l] = pidOf[m]
                                      => pc[m] \in Session \cup {"gone"}
         /\ up \/ restarts > 0

\* Whoever wrote a row went by its name and has not changed its name since.
Signed(h) == \E m \in Launcher :
    /\ name[m] = h
    /\ pc[m] \notin {"ping", "reserve", "failed"}
    /\ roster[h].effort = mappingOf[m]
    /\ roster[h].model = mappingOf[m]
    /\ roster[h].pid \in {parentPid[m], pidOf[m]}

RowsSigned == \A h \in DOMAIN roster : Signed(h)

\* While reservations stand, the row of a launch is the one that it, or the session
\* that it became, has written last.
Row(l) == /\ name[l] \in DOMAIN roster
          /\ roster[name[l]].effort = mappingOf[l]
          /\ roster[name[l]].pid = IF pc[l] = "announced" THEN pidOf[l] ELSE parentPid[l]

RowsStand == Steady => \A l \in Launcher : Owns(l) => Row(l)

-----------------------------------------------------------------------------
(* The requests of Roster, as far as a launch makes them. *)

\* An announce that launch l, or its session, makes and the broker accepts.
Writes(l, pid) == \E exclusive \in BOOLEAN :
    R!Announce(name[l], mappingOf[l], mappingOf[l], pid, exclusive, FALSE)

\* It writes one row.
LEMMA RowWritten ==
    ASSUME TypeOK, NEW l \in Launcher, NEW pid \in Pid \cup {NoPid}, Writes(l, pid)
    PROVE  /\ DOMAIN roster' = DOMAIN roster \cup {name[l]}
           /\ roster'[name[l]].effort = mappingOf[l]
           /\ roster'[name[l]].model = mappingOf[l]
           /\ roster'[name[l]].pid = pid
           /\ roster'[name[l]] \in R!Entry
           /\ \A h \in DOMAIN roster \ {name[l]} : roster'[h] = roster[h]
           /\ holds' \subseteq (Pid \cup {NoPid}) \X Handle
           /\ UNCHANGED <<running, won>>
<1>1. mappingOf[l] \in Mapping /\ mappingOf[l] # NoModel /\ name[l] \in Handle
  BY LaunchAssumption DEF TypeOK
<1>2. holds' \subseteq (Pid \cup {NoPid}) \X Handle /\ UNCHANGED <<running, won>>
  BY <1>1 DEF Writes, R!Announce, R!HoldsAfter, TypeOK, R!TypeOK
<1>3. PICK new : /\ new = [effort |-> mappingOf[l], model |-> mappingOf[l], pid |-> pid,
                           owner |-> IF R!On(name[l]) THEN roster[name[l]].owner ELSE NoOwner]
                 /\ roster' = [k \in DOMAIN roster \cup {name[l]} |->
                                 IF k = name[l] THEN new ELSE roster[k]]
  BY <1>1 DEF Writes, R!Announce
<1>4. new \in R!Entry
  BY <1>1, <1>3 DEF R!Entry, R!Owner, R!Name, R!On, TypeOK, R!TypeOK
<1> QED BY <1>2, <1>3, <1>4

\* What a launch or its session writes to the roster is an entry.
LEMMA AnnounceTyped ==
    ASSUME TypeOK, NEW l \in Launcher, NEW pid \in Pid \cup {NoPid}, Writes(l, pid)
    PROVE  R!TypeOK'
<1>1. /\ DOMAIN roster' = DOMAIN roster \cup {name[l]}
      /\ roster'[name[l]] \in R!Entry
      /\ \A h \in DOMAIN roster \ {name[l]} : roster'[h] = roster[h]
      /\ holds' \subseteq (Pid \cup {NoPid}) \X Handle
      /\ UNCHANGED <<running, won>>
  BY RowWritten
<1>2. DOMAIN roster' \subseteq Handle /\ \A h \in DOMAIN roster' : roster'[h] \in R!Entry
  BY <1>1 DEF TypeOK, R!TypeOK
<1> QED BY <1>1, <1>2 DEF TypeOK, R!TypeOK

\* Retiring and reaping take rows away and touch no pid, effort or model of the rest.
LEMMA RowsRemoved ==
    ASSUME TypeOK, NEW gone, roster' = R!Without(gone)
    PROVE  /\ DOMAIN roster' = DOMAIN roster \ gone
           /\ \A h \in DOMAIN roster' : /\ roster'[h] \in R!Entry
                                        /\ roster'[h].effort = roster[h].effort
                                        /\ roster'[h].model = roster[h].model
                                        /\ roster'[h].pid = roster[h].pid
<1>1. DOMAIN roster' = DOMAIN roster \ gone
  BY DEF R!Without
<1>2. ASSUME NEW h \in DOMAIN roster'
      PROVE  /\ roster'[h] \in R!Entry
             /\ roster'[h].effort = roster[h].effort
             /\ roster'[h].model = roster[h].model
             /\ roster'[h].pid = roster[h].pid
  <2>1. roster[h] \in R!Entry
    BY <1>1 DEF TypeOK, R!TypeOK
  <2>2. roster'[h] = IF roster[h].owner \in gone
                     THEN [roster[h] EXCEPT !.owner = NoOwner] ELSE roster[h]
    BY <1>1 DEF R!Without
  <2> QED BY <2>1, <2>2 DEF R!Entry, R!Owner
<1> QED BY <1>1, <1>2

\* The session of a launch is welcome at a row that carries its own pid, and at one
\* that its launch reserved unless the process that launched it is still there.
LEMMA OwnRowIsOpen ==
    ASSUME TypeOK, NEW l \in Launcher,
           R!On(name[l]) =>
              /\ roster[name[l]].effort = mappingOf[l]
              /\ roster[name[l]].model = mappingOf[l]
              /\ roster[name[l]].pid \in {parentPid[l], pidOf[l]},
           R!On(name[l]) /\ roster[name[l]].pid = parentPid[l] => parentPid[l] \notin running
    PROVE  Welcome(l)
<1>1. name[l] # Anon
  BY LaunchAssumption DEF TypeOK, Handle
<1>2. pidOf[l] # NoPid
  BY LaunchAssumption
<1> QED BY <1>1, <1>2 DEF Welcome, R!Accepts, R!MayReannounce, R!ProcExists

-----------------------------------------------------------------------------

\* Launches, sessions, readers of the roster and restarts keep the state well formed,
\* whatever the attempt a name was found with.
THEOREM TypeCorrect == Spec => []TypeOK
<1>1. Init => TypeOK
  BY LaunchAssumption DEF Init, TypeOK, R!TypeOK, Handle, Launching
<1>2. TypeOK /\ [Next]_vars => TypeOK'
  <2> SUFFICES ASSUME TypeOK, [Next]_vars PROVE TypeOK'
    OBVIOUS
  <2> USE DEF TypeOK, Launching, Session, Goto
  <2>1. ASSUME NEW l \in Launcher, Ping(l) \/ ReserveUnreachable(l) \/ Abandon(l) PROVE TypeOK'
    <3>1. pc' \in [Launcher -> {"failed", "gone"} \cup Launching \cup Session]
      BY <2>1 DEF Ping, ReserveUnreachable, Abandon
    <3> QED BY <2>1, <3>1 DEF Ping, ReserveUnreachable, Abandon, rosterVars, R!TypeOK
  <2>2. ASSUME NEW l \in Launcher, Reserve(l) \/ Announces(l) PROVE TypeOK'
    <3>1. /\ pc' \in [Launcher -> {"failed", "gone"} \cup Launching \cup Session]
          /\ UNCHANGED <<attempt, name, up, restarts>>
      BY <2>2 DEF Reserve, Announces
    <3>2. CASE UNCHANGED rosterVars
      BY <3>1, <3>2 DEF rosterVars, R!TypeOK
    <3>3. ASSUME NEW pid \in Pid \cup {NoPid}, Writes(l, pid) PROVE TypeOK'
      BY <3>1, <3>3, AnnounceTyped
    <3>4. parentPid[l] \in Pid \cup {NoPid} /\ pidOf[l] \in Pid
      BY LaunchAssumption
    <3> QED BY <2>2, <3>2, <3>3, <3>4 DEF Reserve, Announces, Writes
  <2>3. ASSUME NEW l \in Launcher, NextCandidate(l) PROVE TypeOK'
    <3>1. UNCHANGED <<rosterVars, up, restarts>>
      BY <2>3 DEF NextCandidate
    <3>2. CASE attempt[l] = MaxAttempt
      BY <2>3, <3>1, <3>2 DEF NextCandidate, rosterVars, R!TypeOK
    <3>3. CASE attempt[l] # MaxAttempt
      <4>1. attempt[l] + 1 \in 1..MaxAttempt
        BY <3>3, LaunchAssumption
      <4>2. /\ attempt' = [attempt EXCEPT ![l] = attempt[l] + 1]
            /\ name' = [name EXCEPT ![l] = <<baseOf[l], attempt[l] + 1>>]
            /\ UNCHANGED pc
        BY <2>3, <3>3 DEF NextCandidate
      <4>3. <<baseOf[l], attempt[l] + 1>> \in Handle
        BY <4>1, LaunchAssumption DEF Handle
      <4> QED BY <3>1, <4>1, <4>2, <4>3 DEF rosterVars, R!TypeOK
    <3> QED BY <3>2, <3>3
  <2>4. ASSUME NEW l \in Launcher, Exec(l) PROVE TypeOK'
    <3>1. pidOf[l] \in Pid
      BY LaunchAssumption
    <3>2. R!TypeOK'
      BY <2>4, <3>1 DEF Exec, R!TypeOK
    <3> QED BY <2>4, <3>2 DEF Exec
  <2>5. ASSUME NEW l \in Launcher, Retires(l) PROVE TypeOK'
    BY <2>5, RowsRemoved DEF Retires, R!Retire, R!StillWon, R!TypeOK
  <2>6. ASSUME NEW l \in Launcher, Exits(l) \/ ParentExits(l) PROVE TypeOK'
    BY <2>6 DEF Exits, ParentExits, R!Exit, launchVars, R!TypeOK
  <2>7. CASE RosterIsRead
    BY <2>7, RowsRemoved DEF RosterIsRead, R!RosterRead, R!StillWon, launchVars, R!TypeOK
  <2>8. CASE BrokerStops
    <3>1. restarts' \in 0..MaxRestart
      BY <2>8, LaunchAssumption DEF BrokerStops
    <3> QED BY <2>8, <3>1 DEF BrokerStops, launchVars, R!TypeOK
  <2>9. CASE BrokerStarts \/ UNCHANGED vars
    BY <2>9 DEF BrokerStarts, vars, rosterVars, launchVars, R!TypeOK
  <2> QED BY <2>1, <2>2, <2>3, <2>4, <2>5, <2>6, <2>7, <2>8, <2>9 DEF Next, Launches
<1> QED BY <1>1, <1>2, PTL DEF Spec

-----------------------------------------------------------------------------
(* Rows lead back to the launches that wrote them, restarts or not. *)

\* A step that rewrites no row leaves it signed.
LEMMA StillSigned ==
    ASSUME RowsSigned,
           \A m \in Launcher : pc[m] \notin {"ping", "reserve", "failed"} =>
              name'[m] = name[m] /\ pc'[m] \notin {"ping", "reserve", "failed"},
           NEW h \in DOMAIN roster', h \in DOMAIN roster,
           /\ roster'[h].effort = roster[h].effort
           /\ roster'[h].model = roster[h].model
           /\ roster'[h].pid = roster[h].pid
    PROVE  Signed(h)'
<1>1. PICK m \in Launcher : /\ name[m] = h
                            /\ pc[m] \notin {"ping", "reserve", "failed"}
                            /\ roster[h].effort = mappingOf[m]
                            /\ roster[h].model = mappingOf[m]
                            /\ roster[h].pid \in {parentPid[m], pidOf[m]}
  BY DEF RowsSigned, Signed
<1> QED BY <1>1 DEF Signed

\* Every row stays signed by a launch.
LEMMA SignedStep == ASSUME TypeOK, RowsSigned, [Next]_vars PROVE RowsSigned'
<1> USE DEF TypeOK, Goto, Launching, Session
<1>1. ASSUME \A m \in Launcher : pc[m] \notin {"ping", "reserve", "failed"} =>
                name'[m] = name[m] /\ pc'[m] \notin {"ping", "reserve", "failed"},
             UNCHANGED roster
      PROVE  RowsSigned'
  BY <1>1, StillSigned DEF RowsSigned
<1>2. ASSUME NEW l \in Launcher, Ping(l) \/ ReserveUnreachable(l) \/ Abandon(l) PROVE RowsSigned'
  BY <1>1, <1>2 DEF Ping, ReserveUnreachable, Abandon, rosterVars
<1>3. ASSUME NEW l \in Launcher, NextCandidate(l) PROVE RowsSigned'
  BY <1>1, <1>3 DEF NextCandidate, rosterVars
<1>4. ASSUME NEW l \in Launcher, NEW pid \in {parentPid[l], pidOf[l]}, Writes(l, pid),
             name' = name, NEW label \in {"exec", "announced"}, Goto(l, label)
      PROVE  RowsSigned'
  <2>1. pid \in Pid \cup {NoPid}
    BY LaunchAssumption
  <2>2. /\ DOMAIN roster' = DOMAIN roster \cup {name[l]}
        /\ roster'[name[l]].effort = mappingOf[l]
        /\ roster'[name[l]].model = mappingOf[l]
        /\ roster'[name[l]].pid = pid
        /\ \A h \in DOMAIN roster \ {name[l]} : roster'[h] = roster[h]
    BY <1>4, <2>1, RowWritten
  <2>3. Signed(name[l])'
    BY <1>4, <2>2 DEF Signed
  <2>4. ASSUME NEW h \in DOMAIN roster', h # name[l] PROVE Signed(h)'
    BY <1>4, <2>2, <2>4, StillSigned
  <2> QED BY <1>4, <2>3, <2>4 DEF RowsSigned
<1>5. ASSUME NEW l \in Launcher, Reserve(l) PROVE RowsSigned'
  BY <1>4, <1>5 DEF Reserve, Writes
<1>6. ASSUME NEW l \in Launcher, Exec(l) \/ Exits(l) \/ ParentExits(l) PROVE RowsSigned'
  BY <1>1, <1>6 DEF Exec, Exits, ParentExits, R!Exit, launchVars
<1>7. ASSUME NEW l \in Launcher, Announces(l) PROVE RowsSigned'
  BY <1>1, <1>4, <1>7 DEF Announces, Writes, rosterVars
<1>8. ASSUME NEW gone, roster' = R!Without(gone), name' = name,
             \A m \in Launcher : pc[m] \notin {"ping", "reserve", "failed"} =>
                pc'[m] \notin {"ping", "reserve", "failed"}
      PROVE  RowsSigned'
  BY <1>8, RowsRemoved, StillSigned DEF RowsSigned
<1>9. ASSUME NEW l \in Launcher, Retires(l) PROVE RowsSigned'
  BY <1>8, <1>9 DEF Retires, R!Retire
<1>10. CASE RosterIsRead
  BY <1>8, <1>10 DEF RosterIsRead, R!RosterRead, launchVars
<1>11. CASE BrokerStops
  BY <1>11 DEF BrokerStops, RowsSigned
<1>12. CASE BrokerStarts \/ UNCHANGED vars
  BY <1>1, <1>12 DEF BrokerStarts, vars, rosterVars, launchVars
<1> QED BY <1>2, <1>3, <1>5, <1>6, <1>7, <1>9, <1>10, <1>11, <1>12 DEF Next, Launches

\* Even across broker restarts, what turns a session away is another launch that went
\* by the same name, or the live session inside which its own launch was made.
THEOREM RefusedByNamesake == Spec => []RefusedOnlyByNamesake
<1>1. Init => RowsSigned
  BY DEF Init, RowsSigned
<1>2. ASSUME TypeOK, RowsSigned PROVE RefusedOnlyByNamesake
  <2> SUFFICES ASSUME NEW l \in Launcher, ~Welcome(l),
                      \A m \in Launcher \ {l} :
                         ~(name[m] = name[l] /\ pc[m] \notin {"ping", "failed"})
               PROVE  parentPid[l] \in running /\ roster[name[l]].pid = parentPid[l]
    BY DEF RefusedOnlyByNamesake
  <2>1. R!On(name[l]) =>
           /\ roster[name[l]].effort = mappingOf[l]
           /\ roster[name[l]].model = mappingOf[l]
           /\ roster[name[l]].pid \in {parentPid[l], pidOf[l]}
    BY <1>2 DEF RowsSigned, Signed, R!On
  <2> QED BY <1>2, <2>1, OwnRowIsOpen
<1> QED BY <1>1, <1>2, SignedStep, TypeCorrect, PTL DEF Spec

-----------------------------------------------------------------------------
(* While reservations stand, a row belongs to one launch. *)

\* Nobody comes back to the first request of a launch.
LEMMA PingIsFirst ==
    ASSUME TypeOK, [Next]_vars, NEW l \in Launcher, pc[l] # "ping" PROVE pc'[l] # "ping"
<1> USE DEF TypeOK, Goto
<1>1. ASSUME NEW m \in Launcher, Launches(m) PROVE pc'[l] # "ping"
  BY <1>1 DEF Launches, Ping, Reserve, NextCandidate, ReserveUnreachable, Exec
<1>2. ASSUME NEW m \in Launcher,
             Abandon(m) \/ Announces(m) \/ Retires(m) \/ Exits(m) \/ ParentExits(m)
      PROVE  pc'[l] # "ping"
  BY <1>2 DEF Abandon, Announces, Retires, Exits, ParentExits, launchVars
<1>3. CASE RosterIsRead \/ BrokerStops \/ BrokerStarts \/ UNCHANGED vars
  BY <1>3 DEF RosterIsRead, BrokerStops, BrokerStarts, vars, launchVars
<1> QED BY <1>1, <1>2, <1>3 DEF Next

\* Reservations that stand now have stood so far.
LEMMA SteadyBefore == ASSUME TypeOK, Alive, [Next]_vars, Steady' PROVE Steady
<1>1. restarts' \in {restarts, restarts + 1}
  <2>1. ASSUME NEW l \in Launcher, Launches(l) PROVE restarts' = restarts
    BY <2>1 DEF Launches, Ping, Reserve, NextCandidate, ReserveUnreachable, Exec
  <2>2. ASSUME NEW l \in Launcher,
               Abandon(l) \/ Announces(l) \/ Retires(l) \/ Exits(l) \/ ParentExits(l)
        PROVE  restarts' = restarts
    BY <2>2 DEF Abandon, Announces, Retires, Exits, ParentExits
  <2> QED BY <2>1, <2>2 DEF Next, RosterIsRead, BrokerStops, BrokerStarts, vars
<1>2. running' \subseteq running \cup {pidOf[l] : l \in {m \in Launcher : pc[m] = "exec"}}
  BY DEF Next, Launches, Ping, Reserve, NextCandidate, ReserveUnreachable, Exec, Abandon,
         Announces, Retires, Exits, ParentExits, RosterIsRead, BrokerStops, BrokerStarts,
         R!Announce, R!Retire, R!Exit, R!RosterRead, vars, rosterVars
<1>3. restarts = 0
  BY <1>1, LaunchAssumption DEF TypeOK, Steady
<1>4. ASSUME NEW l \in Launcher, pc[l] # "ping" PROVE Inside(l)
  <2>1. pc'[l] # "ping"
    BY <1>4, PingIsFirst
  <2>2. parentPid[l] \in running' \cup {NoPid}
    BY <2>1 DEF Steady, Inside
  <2>3. \A m \in Launcher : pc[m] = "exec" => pidOf[m] # parentPid[l]
    BY <1>4 DEF Alive, Session
  <2> QED BY <1>2, <2>2, <2>3 DEF Inside
<1> QED BY <1>3, <1>4 DEF Steady

\* Running launches stay consistent with their steps.
LEMMA AliveStep == ASSUME TypeOK, Alive, [Next]_vars PROVE Alive'
<1> USE DEF TypeOK, Goto, Launching, Session
<1>1. ASSUME \A m \in Launcher : /\ pc'[m] \in Session <=> pc[m] \in Session
                                 /\ pc[m] = "gone" => pc'[m] = "gone"
                                 /\ pc[m] = "ping" => pc'[m] = "ping" \/ Inside(m),
             running' = running, UNCHANGED <<up, restarts>>
      PROVE  Alive'
  <2>1. \A l, m \in Launcher : Inside(l) /\ parentPid[l] = pidOf[m] => pc[m] \in Session
    BY LaunchAssumption DEF Alive, Inside
  <2>2. \A l, m \in Launcher : pc'[l] # "ping" /\ parentPid[l] = pidOf[m]
                                  => pc[m] \in Session \cup {"gone"}
    BY <1>1, <2>1 DEF Alive
  <2>3. \A m \in Launcher : pc[m] \in Session \cup {"gone"} => pc'[m] \in Session \cup {"gone"}
    BY <1>1
  <2> QED BY <1>1, <2>2, <2>3 DEF Alive
<1>2. ASSUME NEW l \in Launcher, Launches(l) \/ Abandon(l), ~Exec(l) PROVE Alive'
  <2>1. /\ UNCHANGED <<running, up, restarts>>
        /\ pc[l] \in Launching
        /\ pc[l] = "ping" => Inside(l)
    BY <1>2 DEF Launches, Ping, Reserve, NextCandidate, ReserveUnreachable, Abandon,
                R!Announce, rosterVars
  <2>2. \/ UNCHANGED pc
        \/ \E label \in {"reserve", "exec", "failed", "gone"} : pc' = [pc EXCEPT ![l] = label]
    BY <1>2 DEF Launches, Ping, Reserve, NextCandidate, ReserveUnreachable, Abandon
  <2> QED BY <1>1, <2>1, <2>2
<1>3. ASSUME NEW l \in Launcher, Exec(l) PROVE Alive'
  <2>1. /\ pc[l] = "exec" /\ pc' = [pc EXCEPT ![l] = "session"]
        /\ running' = running \cup {pidOf[l]}
        /\ UNCHANGED <<up, restarts>>
    BY <1>3 DEF Exec
  <2>2. \A m \in Launcher \ {l} : pidOf[m] # pidOf[l]
    BY LaunchAssumption
  <2> QED BY <2>1, <2>2 DEF Alive
<1>4. ASSUME NEW l \in Launcher, Announces(l) \/ Retires(l) PROVE Alive'
  BY <1>1, <1>4 DEF Announces, Retires, R!Announce, R!Retire, rosterVars
<1>5. ASSUME NEW l \in Launcher, Exits(l) PROVE Alive'
  <2>1. /\ pc[l] \in Session /\ pc' = [pc EXCEPT ![l] = "gone"]
        /\ running' = running \ {pidOf[l]}
        /\ UNCHANGED <<up, restarts>>
    BY <1>5 DEF Exits, R!Exit
  <2>2. \A m \in Launcher \ {l} : pidOf[m] # pidOf[l]
    BY LaunchAssumption
  <2> QED BY <2>1, <2>2 DEF Alive
<1>6. ASSUME NEW l \in Launcher, ParentExits(l) PROVE Alive'
  <2>1. /\ running' = running \ {parentPid[l]}
        /\ UNCHANGED <<pc, up, restarts>>
    BY <1>6 DEF ParentExits, R!Exit, launchVars
  <2>2. \A m \in Launcher : pidOf[m] # parentPid[l]
    BY <1>6 DEF ParentExits, SessionPid
  <2> QED BY <2>1, <2>2 DEF Alive
<1>7. CASE RosterIsRead
  BY <1>1, <1>7 DEF RosterIsRead, R!RosterRead, launchVars
<1>8. CASE BrokerStops
  <2>1. UNCHANGED <<pc, running>> /\ restarts' > 0
    BY <1>8, LaunchAssumption DEF BrokerStops, launchVars
  <2> QED BY <2>1 DEF Alive
<1>9. CASE BrokerStarts
  BY <1>9 DEF Alive, BrokerStarts, launchVars, rosterVars
<1>10. CASE UNCHANGED vars
  BY <1>1, <1>10 DEF vars, launchVars, rosterVars
<1> QED BY <1>2, <1>3, <1>4, <1>5, <1>6, <1>7, <1>8, <1>9, <1>10 DEF Next

\* A step after which nobody owns a name it did not own, and which keeps the rows of
\* those who do.
LEMMA Kept ==
    ASSUME RowsStand, OneSessionPerName, Steady,
           \A m \in Launcher : Owns(m)' =>
              /\ Owns(m)
              /\ name'[m] = name[m]
              /\ pc'[m] = "announced" <=> pc[m] = "announced"
              /\ name[m] \in DOMAIN roster'
              /\ roster'[name[m]].effort = roster[name[m]].effort
              /\ roster'[name[m]].pid = roster[name[m]].pid
    PROVE  RowsStand' /\ OneSessionPerName'
BY DEF RowsStand, OneSessionPerName, Row

\* A launch writes the row of a name that is its own now: it was nobody's, or its own.
LEMMA Written ==
    ASSUME TypeOK, RowsStand, OneSessionPerName, Steady,
           NEW l \in Launcher, NEW pid \in Pid \cup {NoPid}, Writes(l, pid), UNCHANGED name,
           name[l] \notin DOMAIN roster \/ Owns(l),
           NEW label \in {"exec", "announced"}, Goto(l, label),
           pid = IF label = "announced" THEN pidOf[l] ELSE parentPid[l]
    PROVE  RowsStand' /\ OneSessionPerName'
<1>1. /\ DOMAIN roster' = DOMAIN roster \cup {name[l]}
      /\ roster'[name[l]].effort = mappingOf[l]
      /\ roster'[name[l]].pid = pid
      /\ \A h \in DOMAIN roster \ {name[l]} : roster'[h] = roster[h]
  BY RowWritten
<1>2. pc' = [pc EXCEPT ![l] = label] /\ pc'[l] = label
  BY DEF Goto, TypeOK
<1>3. \A m \in Launcher \ {l} : Owns(m)' => Owns(m) /\ Row(m) /\ name[m] # name[l] /\ Row(m)'
  <2> SUFFICES ASSUME NEW m \in Launcher \ {l}, Owns(m)'
               PROVE  Owns(m) /\ Row(m) /\ name[m] # name[l] /\ Row(m)'
    OBVIOUS
  <2>1. Owns(m) /\ pc'[m] = pc[m]
    BY <1>2 DEF Owns, TypeOK
  <2>2. Row(m)
    BY <2>1 DEF RowsStand
  <2>3. name[m] # name[l]
    BY <2>1, <2>2 DEF Row, OneSessionPerName
  <2> QED BY <1>1, <2>1, <2>2, <2>3 DEF Row
<1>4. Row(l)'
  BY <1>1, <1>2 DEF Row
<1> QED BY <1>3, <1>4 DEF RowsStand, OneSessionPerName

\* A session that has announced itself may do so again.
LEMMA AnnouncedIsWelcome ==
    ASSUME TypeOK, NEW l \in Launcher, name[l] \in DOMAIN roster, roster[name[l]].pid = pidOf[l]
    PROVE  Welcome(l)
BY LaunchAssumption DEF Welcome, R!Accepts, R!MayReannounce, TypeOK, Handle

\* While reservations stand, rows stand with their sessions, one each.
LEMMA StandStep ==
    ASSUME TypeOK, Alive, RowsStand, OneSessionPerName, [Next]_vars
    PROVE  RowsStand' /\ OneSessionPerName'
<1>1. CASE ~Steady'
  BY <1>1 DEF RowsStand, OneSessionPerName
<1>2. CASE Steady'
  <2> USE DEF TypeOK, Goto, Owns
  <2>1. Steady /\ up /\ restarts' = 0
    BY <1>2, SteadyBefore DEF Steady, Alive
  <2>2. \A m \in Launcher : Owns(m) => Row(m)
    BY <2>1 DEF RowsStand
  <2>3. ASSUME UNCHANGED roster,
               \A m \in Launcher : Owns(m)' => /\ Owns(m)
                                               /\ name'[m] = name[m]
                                               /\ pc'[m] = "announced" <=> pc[m] = "announced"
        PROVE  RowsStand' /\ OneSessionPerName'
    BY <2>1, <2>2, <2>3, Kept DEF Row
  <2>4. ASSUME NEW l \in Launcher, Ping(l) \/ Abandon(l) \/ Exec(l)
        PROVE  RowsStand' /\ OneSessionPerName'
    BY <2>1, <2>3, <2>4 DEF Ping, Abandon, Exec, rosterVars, Launching
  <2>5. ASSUME NEW l \in Launcher, NextCandidate(l) PROVE RowsStand' /\ OneSessionPerName'
    BY <2>3, <2>5 DEF NextCandidate, rosterVars
  <2>6. ASSUME NEW l \in Launcher, ReserveUnreachable(l) PROVE FALSE
    BY <2>1, <2>6 DEF ReserveUnreachable
  <2>7. ASSUME NEW l \in Launcher, Reserve(l) PROVE RowsStand' /\ OneSessionPerName'
    <3>1. name[l] \notin DOMAIN roster
      BY <2>7 DEF Reserve, R!Announce, R!Accepts, R!On
    <3>2. parentPid[l] \in Pid \cup {NoPid}
      BY LaunchAssumption
    <3> QED BY <2>1, <2>7, <3>1, <3>2, Written DEF Reserve, Writes
  <2>8. ASSUME NEW l \in Launcher, Announces(l) PROVE RowsStand' /\ OneSessionPerName'
    <3>1. Owns(l) /\ Row(l)
      BY <2>2, <2>8 DEF Announces, Session
    <3>2. CASE Welcome(l)
      <4>1. Writes(l, pidOf[l]) /\ Goto(l, "announced") /\ UNCHANGED name
        BY <2>8, <3>2 DEF Announces, Writes
      <4>2. pidOf[l] \in Pid \cup {NoPid}
        BY LaunchAssumption
      <4> QED BY <2>1, <3>1, <4>1, <4>2, Written
    <3>3. CASE ~Welcome(l)
      <4>1. pc[l] # "announced"
        BY <3>1, <3>3, AnnouncedIsWelcome DEF Row
      <4> QED BY <2>3, <2>8, <3>1, <3>3, <4>1 DEF Announces, rosterVars
    <3> QED BY <3>2, <3>3
  <2>9. ASSUME NEW gone, roster' = R!Without(gone), UNCHANGED name,
               \A m \in Launcher : Owns(m)' => Owns(m) /\ pc'[m] = pc[m] /\ name[m] \notin gone
        PROVE  RowsStand' /\ OneSessionPerName'
    BY <2>1, <2>2, <2>9, RowsRemoved, Kept DEF Row
  <2>10. ASSUME NEW l \in Launcher, Retires(l) PROVE RowsStand' /\ OneSessionPerName'
    <3>1. roster' = R!Without({name[l]}) /\ UNCHANGED name /\ pc' = [pc EXCEPT ![l] = "retired"]
      BY <2>10 DEF Retires, R!Retire
    <3>2. Owns(l)
      BY <2>10 DEF Retires, Session
    <3>3. \A m \in Launcher : Owns(m)' => Owns(m) /\ pc'[m] = pc[m] /\ name[m] \notin {name[l]}
      BY <2>1, <3>1, <3>2 DEF OneSessionPerName
    <3> QED BY <2>9, <3>1, <3>3
  <2>11. ASSUME NEW l \in Launcher, Exits(l) PROVE RowsStand' /\ OneSessionPerName'
    BY <2>3, <2>11 DEF Exits, R!Exit
  <2>12. ASSUME NEW l \in Launcher, ParentExits(l) PROVE RowsStand' /\ OneSessionPerName'
    BY <2>3, <2>12 DEF ParentExits, R!Exit, launchVars
  <2>13. CASE RosterIsRead
    <3>1. roster' = R!Without(R!Dead) /\ UNCHANGED <<pc, name>>
      BY <2>13 DEF RosterIsRead, R!RosterRead, launchVars
    <3>2. \A m \in Launcher : Owns(m) => name[m] \notin R!Dead
      BY <2>1, <2>2 DEF Row, Steady, Inside, Alive, Session, R!Dead, R!ProcExists
    <3> QED BY <2>9, <3>1, <3>2
  <2>14. CASE BrokerStops
    BY <2>1, <2>14 DEF BrokerStops
  <2>15. CASE BrokerStarts \/ UNCHANGED vars
    BY <2>3, <2>15 DEF BrokerStarts, vars, rosterVars, launchVars
  <2> QED BY <2>4, <2>5, <2>6, <2>7, <2>8, <2>10, <2>11, <2>12, <2>13, <2>14, <2>15
             DEF Next, Launches
<1> QED BY <1>1, <1>2

\* Rows stand with their sessions throughout.
LEMMA RowsBelong == Spec => [](TypeOK /\ Alive /\ RowsStand /\ OneSessionPerName)
<1>1. Init => Alive /\ RowsStand /\ OneSessionPerName
  BY DEF Init, Alive, Session, SessionPid, RowsStand, OneSessionPerName, Owns
<1> QED BY <1>1, AliveStep, StandStep, TypeCorrect, PTL DEF Spec

\* However many launches derive one handle and race for it, no two sessions go by one
\* name while reservations stand.
THEOREM NamesAreDistinct == Spec => []OneSessionPerName
BY RowsBelong, PTL

\* While reservations stand, the row of a session that announced itself carries its
\* pid and its entry, whoever launched, announced, retired or read the roster since.
THEOREM RowLeadsToSession == Spec => []RosterLeadsToSession
<1>1. RowsStand => RosterLeadsToSession
  BY DEF RowsStand, RosterLeadsToSession, Owns, Row
<1> QED BY <1>1, RowsBelong, PTL
=============================================================================
