------------------------------- MODULE Launch -------------------------------
(***************************************************************************)
(* `ccd launch` and the sessions it starts, on top of the broker's roster. *)
(*                                                                         *)
(* A launch derives a handle, reserves it with an exclusive announce,      *)
(* trying handle-2, handle-3, ... while the broker refuses, and execs the  *)
(* session.  The session later announces itself under the same name with   *)
(* its own pid.  Launches, sessions, other readers of the roster and a     *)
(* broker that may restart interleave between any two requests.            *)
(***************************************************************************)
EXTENDS Naturals, FiniteSets

CONSTANTS Launcher,     \* `ccd launch` invocations, each becoming one session
          Mapping,      \* manifest entries; the entry names model and effort
          Base,         \* handles derived from --issue/--phase/id, or given by --handle
          mappingOf, baseOf,
          parentPid,    \* $CLAUDE_PID where `ccd launch` runs, NoPid in a plain shell;
                        \* it may be the pid of a session that was launched itself
          pidOf,        \* the pid of the session that the launch starts
          Pid, NoPid, NoOwner, NoModel, Anon,
          MaxAttempt,   \* the attempts of the reserve loop (20 in the code)
          MaxRestart    \* bound on broker restarts

ASSUME LaunchAssumption == /\ mappingOf \in [Launcher -> Mapping]
                           /\ baseOf \in [Launcher -> Base]
                           /\ parentPid \in [Launcher -> Pid \cup {NoPid}]
                           /\ pidOf \in [Launcher -> Pid]
                           /\ NoPid \notin Pid
                           /\ \A l, m \in Launcher : pidOf[l] = pidOf[m] => l = m
                           /\ NoModel \notin Mapping
                           /\ MaxAttempt \in Nat \ {0}
                           /\ Anon \notin Base \X (1..MaxAttempt)
                           /\ MaxRestart \in Nat

VARIABLES roster, running, holds, won,   \* the broker's roster and /proc, see Roster
          pc,         \* where each launch, then its session, is
          attempt,    \* the reserve loop's counter
          name,       \* the candidate handle, then CCD_HANDLE
          up,         \* the broker answers
          restarts    \* broker restarts so far

rosterVars == <<roster, running, holds, won>>
launchVars == <<pc, attempt, name>>
vars == <<rosterVars, launchVars, up, restarts>>

\* The candidates: the derived handle b, then b-2, b-3, ...
Handle == Base \X (1..MaxAttempt)

R == INSTANCE Roster WITH Effort <- Mapping \cup {NoModel}, Model <- Mapping,
                          PidReuse <- FALSE

SessionPid == {pidOf[l] : l \in Launcher}

\* The session that `ccd launch` is started in runs.
Inside(l) == parentPid[l] \in running \cup {NoPid}

Launching == {"ping", "reserve", "exec"}
Session   == {"session", "announced", "refused", "retired"}

TypeOK == /\ R!TypeOK
          /\ pc \in [Launcher -> {"failed", "gone"} \cup Launching \cup Session]
          /\ attempt \in [Launcher -> 1..MaxAttempt]
          /\ name \in [Launcher -> Handle]
          /\ up \in BOOLEAN
          /\ restarts \in 0..MaxRestart

Init == /\ roster = [h \in {} |-> NoOwner]
        /\ running = {parentPid[l] : l \in Launcher} \ ({NoPid} \cup SessionPid)
        /\ holds = {}
        /\ won = {}
        /\ pc = [l \in Launcher |-> "ping"]
        /\ attempt = [l \in Launcher |-> 1]
        /\ name = [l \in Launcher |-> <<baseOf[l], 1>>]
        /\ up = TRUE
        /\ restarts = 0

Goto(l, label) == pc' = [pc EXCEPT ![l] = label]

-----------------------------------------------------------------------------
(* cmd_launch. *)

\* The first request of a launch.  An unreachable broker does not stop it: the name
\* goes unreserved.
Ping(l) == /\ pc[l] = "ping" /\ Inside(l)
           /\ Goto(l, IF up THEN "reserve" ELSE "exec")
           /\ UNCHANGED <<rosterVars, attempt, name, up, restarts>>

Free(l) == R!Accepts(name[l], mappingOf[l], mappingOf[l], parentPid[l], TRUE, FALSE)

\* Mutants: the reservation is a plain announce; the reservation declares no effort.
Reserve_NotExclusive(l) ==
    /\ pc[l] = "reserve" /\ up
    /\ R!Announce(name[l], mappingOf[l], mappingOf[l], parentPid[l], FALSE, FALSE)
    /\ Goto(l, "exec")
    /\ UNCHANGED <<attempt, name, up, restarts>>

Reserve_NoEffort(l) ==
    /\ pc[l] = "reserve" /\ up
    /\ R!Announce(name[l], NoModel, mappingOf[l], parentPid[l], TRUE, FALSE)
    /\ Goto(l, "exec")
    /\ UNCHANGED <<attempt, name, up, restarts>>

Reserve(l) == /\ pc[l] = "reserve" /\ up
              /\ R!Announce(name[l], mappingOf[l], mappingOf[l], parentPid[l], TRUE, FALSE)
              /\ Goto(l, "exec")
              /\ UNCHANGED <<attempt, name, up, restarts>>

\* Mutants: one attempt too many; the counter stands still.
NextCandidate_Overruns(l) ==
    /\ pc[l] = "reserve" /\ up /\ ~Free(l)
    /\ IF attempt[l] > MaxAttempt
       THEN Goto(l, "failed") /\ UNCHANGED <<attempt, name>>
       ELSE /\ attempt' = [attempt EXCEPT ![l] = @ + 1]
            /\ name' = [name EXCEPT ![l] = <<baseOf[l], attempt[l] + 1>>]
            /\ UNCHANGED pc
    /\ UNCHANGED <<rosterVars, up, restarts>>

NextCandidate_SameName(l) ==
    /\ pc[l] = "reserve" /\ up /\ ~Free(l)
    /\ UNCHANGED vars

NextCandidate(l) ==
    /\ pc[l] = "reserve" /\ up /\ ~Free(l)
    /\ IF attempt[l] = MaxAttempt
       THEN Goto(l, "failed") /\ UNCHANGED <<attempt, name>>
       ELSE /\ attempt' = [attempt EXCEPT ![l] = @ + 1]
            /\ name' = [name EXCEPT ![l] = <<baseOf[l], attempt[l] + 1>>]
            /\ UNCHANGED pc
    /\ UNCHANGED <<rosterVars, up, restarts>>

\* The broker answered ping and is gone now: unreserved, with the last candidate.
ReserveUnreachable(l) == /\ pc[l] = "reserve" /\ ~up
                         /\ Goto(l, "exec")
                         /\ UNCHANGED <<rosterVars, attempt, name, up, restarts>>

\* execve replaces the launch by the session.
Exec(l) == /\ pc[l] = "exec"
           /\ Goto(l, "session")
           /\ running' = running \cup {pidOf[l]}
           /\ UNCHANGED <<roster, holds, won, attempt, name, up, restarts>>

\* Ctrl-C before the exec; a reservation already made stays.
Abandon(l) == /\ pc[l] \in Launching
              /\ pc[l] = "ping" => Inside(l)
              /\ Goto(l, "gone")
              /\ UNCHANGED <<rosterVars, attempt, name, up, restarts>>

-----------------------------------------------------------------------------
(* The session: a bare `ccd announce` resolves $CCD_HANDLE and $CCD_MAPPING  *)
(* and adds the session's own $CLAUDE_PID.                                   *)

\* Mutant: the session's pid is not sent.
Announces_NoPid(l) ==
    /\ pc[l] \in Session \ {"retired"} /\ up
    /\ R!Announce(name[l], mappingOf[l], mappingOf[l], NoPid, FALSE, FALSE)
    /\ Goto(l, "announced")
    /\ UNCHANGED <<attempt, name, up, restarts>>

Welcome(l) == R!Accepts(name[l], mappingOf[l], mappingOf[l], pidOf[l], FALSE, FALSE)

Announces(l) ==
    /\ pc[l] \in Session \ {"retired"} /\ up
    /\ IF Welcome(l)
       THEN /\ R!Announce(name[l], mappingOf[l], mappingOf[l], pidOf[l], FALSE, FALSE)
            /\ Goto(l, "announced")
       ELSE Goto(l, "refused") /\ UNCHANGED rosterVars
    /\ UNCHANGED <<attempt, name, up, restarts>>

Retires(l) == /\ pc[l] \in Session \ {"retired"} /\ up
              /\ R!Retire(name[l])
              /\ Goto(l, "retired")
              /\ UNCHANGED <<attempt, name, up, restarts>>

Exits(l) == /\ pc[l] \in Session
            /\ R!Exit(pidOf[l])
            /\ Goto(l, "gone")
            /\ UNCHANGED <<attempt, name, up, restarts>>

-----------------------------------------------------------------------------
(* Everybody else. *)

\* A session that is no launch of this model's; for the others see Exits.
ParentExits(l) == /\ parentPid[l] \notin {NoPid} \cup SessionPid
                  /\ R!Exit(parentPid[l])
                  /\ UNCHANGED <<launchVars, up, restarts>>

\* Somebody runs `ccd ls` or the dashboard.
RosterIsRead == /\ up
                /\ R!RosterRead
                /\ UNCHANGED <<launchVars, up, restarts>>

\* All broker state is in memory.
BrokerStops == /\ up
               /\ restarts < MaxRestart
               /\ up' = FALSE
               /\ restarts' = restarts + 1
               /\ roster' = [h \in {} |-> NoOwner]
               /\ holds' = {}
               /\ won' = {}
               /\ UNCHANGED <<running, launchVars>>

BrokerStarts == /\ ~up
                /\ up' = TRUE
                /\ UNCHANGED <<rosterVars, launchVars, restarts>>

Launches(l) == \/ Ping(l) \/ Reserve(l) \/ NextCandidate(l) \/ ReserveUnreachable(l)
               \/ Exec(l)

Next == \/ \E l \in Launcher : \/ Launches(l) \/ Abandon(l)
                               \/ Announces(l) \/ Retires(l) \/ Exits(l) \/ ParentExits(l)
        \/ RosterIsRead \/ BrokerStops \/ BrokerStarts

Spec == Init /\ [][Next]_vars

\* A launch is a running program; nobody has to announce, retire, exit or restart.
FairSpec == Spec /\ \A l \in Launcher : WF_vars(Launches(l))

-----------------------------------------------------------------------------
(* Properties. *)

Owns(l) == pc[l] \in {"exec", "session", "announced", "refused"}

\* Reservations stand: the broker has not restarted, and no session has exited
\* whose pid a reservation carries because a launch was made inside it.
Steady == /\ restarts = 0
          /\ \A l \in Launcher : pc[l] # "ping" => Inside(l)

\* "Start as many as you want; each derives its own handle, so nothing collides":
\* no two launches, nor the sessions they became, go by one name, unless one has
\* retired it or exited.
OneSessionPerName == Steady =>
    \A l, m \in Launcher : Owns(l) /\ Owns(m) /\ name[l] = name[m] => l = m

\* A launched session's own announce is never turned away from the name that was
\* reserved for it, whoever else launched, read the roster or exited meanwhile.
LaunchedSessionAnnounces == \A l \in Launcher : pc[l] # "refused"

\* The roster entry of a session that announced leads to that session's process:
\* no later launch, announce, retire or reaping of another takes it away.
RosterLeadsToSession == Steady =>
    \A l \in Launcher : pc[l] = "announced" =>
        /\ name[l] \in DOMAIN roster
        /\ roster[name[l]].pid = pidOf[l]
        /\ roster[name[l]].effort = mappingOf[l]

\* Even across broker restarts a session is turned away only by another launch
\* that went by the same name, or because the reservation carries the pid of the
\* live session that its launch ran in.
RefusedOnlyByNamesake ==
    \A l \in Launcher : Owns(l) /\ ~Welcome(l) =>
        \/ \E m \in Launcher \ {l} : name[m] = name[l] /\ pc[m] \notin {"ping", "failed"}
        \/ parentPid[l] \in running /\ roster[name[l]].pid = parentPid[l]

\* The reserve loop ends, however many names are taken.
EveryLaunchEnds == \A l \in Launcher : pc[l] = "reserve" ~> pc[l] # "reserve"
=============================================================================
