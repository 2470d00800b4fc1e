----------------------------- MODULE Participant ----------------------------
(***************************************************************************)
(* One participant session, from the manifest entry it is picked by to the *)
(* row that `ccd ls` and `ccd dashboard` show of it.                       *)
(*                                                                         *)
(* The manifest is rendered again at any time.  `ccd pick`, `ccd launch`   *)
(* and the session's `ccd announce` each read it anew, and what they hand  *)
(* on is an id: on the command line, then in CCD_MAPPING.  The session     *)
(* works, Claude Code logs it, and the dashboard reads the log beside the  *)
(* row.  Names that several launches compete for are the matter of Launch; *)
(* here one name is enough.                                                *)
(***************************************************************************)
EXTENDS Manifest, Dashboard, FiniteSets

CONSTANTS Installed,        \* the launchers on $PATH
          Goal, Task,       \* what a human asks for; what a message asks for
          Output,           \* what any other command prints
          Self,             \* the launched session
          Other,            \* another session of the same working tree
          otherLog,         \* and its transcript
          Version, Plain,   \* what the manifest may hold, and the plainest of it
          Service,          \* models and efforts a reply may be served with instead
          MaxEvent,         \* bound on what happens around the session
          room              \* bound on the length of its log, by what has happened

NoPid == NoSession
NoRow == [model |-> NoModel, effort |-> NoEffort, session |-> NoSession, pid |-> NoPid,
          there |-> FALSE]

\* A message is printed behind the name of its sender, so it is not taken for a failure
\* line, unless somebody were called `ccd recv`.
ASSUME ParticipantAssumption == /\ Version \subseteq Seq(Entry) \cup {Missing}
                                /\ Plain \subseteq Version
                                /\ MaxEvent \in Nat \ {0}
                                /\ room \in [0..MaxEvent -> Nat]
                                /\ Service \subseteq [model : Model, effort : Effort]
                                /\ Goal \cup Task \cup {Output} \subseteq Text
                                /\ Failure \notin Task
                                /\ Self # Other /\ NoSession \notin {Self, Other}

VARIABLES file,             \* the manifest
          events,           \* events around the session so far; a manifest that is
                            \* not plain counts as one
          pc,               \* where the launch, then the session, is
          ident,            \* the id handed on
          entry,            \* what was exec'd
          row,              \* the roster entry of its name
          otherRuns,        \* Other's process is running
          log,              \* the session's transcript
          newest,           \* whose transcript was written last
          turn, open,       \* whose turn it is, and the calls in progress
          told              \* history: what was asked, delivered, answered and served

manifestVars == <<file, events>>
launchVars == <<pc, ident, entry>>
rosterVars == <<row, otherRuns>>
workVars == <<log, newest, turn, open, told>>
vars == <<manifestVars, launchVars, rosterVars, workVars>>

Row == [model : Model \cup {NoModel}, effort : Effort, session : {Self, Other, NoSession},
        pid : {Self, Other, NoPid}, there : BOOLEAN]

TypeOK == /\ file \in Seq(Entry) \cup {Missing}
          /\ events \in 0..MaxEvent
          /\ pc \in {"start", "picked", "session", "over"}
          /\ ident \in Seq(Word)
          /\ entry \in Entry \cup {NoEntry}
          /\ pc = "session" => entry \in Entry
          /\ row \in Row
          /\ otherRuns \in BOOLEAN
          /\ log \in Seq(Record)
          /\ newest \in {Self, Other, NoSession}
          /\ turn \in {"human", "model", "tools"}
          /\ open \subseteq Call
          /\ (turn = "tools") = (open # {})

Init == /\ \/ file \in Plain /\ events = 0
           \/ file \in Version /\ events = 1
        /\ pc = "start" /\ ident = <<>> /\ entry = NoEntry
        /\ row = NoRow
        /\ otherRuns = TRUE
        /\ log = <<>> /\ newest = IF otherLog = <<>> THEN NoSession ELSE Other
        /\ turn = "human" /\ open = {}
        /\ told = [goal |-> NoText, task |-> NoText, asked |-> "nothing",
                   billed |-> [m \in Model |-> 0], asLaunched |-> TRUE]

-----------------------------------------------------------------------------
(* The manifest and the commands that read it. *)

\* Bound: the more happens around a session, the less it says.
Event == /\ events < MaxEvent /\ Len(log) <= room[events + 1]
         /\ events' = events + 1

Render(f) == /\ Event
             /\ f # file /\ file' = f
             /\ UNCHANGED <<launchVars, rosterVars, workVars>>

\* `ccd pick`, or the id read off `ccd pick --list`.
Pick == /\ pc = "start" /\ Loads(file)
        /\ \E i \in DOMAIN file : ident' = Ids(file)[i]
        /\ pc' = "picked"
        /\ UNCHANGED <<entry, manifestVars, rosterVars, workVars>>

\* Mutant: model and effort change places.
Reservation_Swapped(e, by) == [model |-> e.effort, effort |-> e.model, session |-> by,
                               pid |-> by, there |-> TRUE]

\* What a launch reserves the name with; the pid and the session are those of the
\* process it runs in, if that is a session.
Reservation(e, by) == [model |-> e.model, effort |-> e.effort, session |-> by,
                       pid |-> by, there |-> TRUE]

\* A launch that picks by itself reads the manifest once: Pick, then Launch.  It is run
\* in the session Other or in a shell, and with no broker nothing is reserved.
Launch == LET e == IF Loads(file) THEN Find(file, ident) ELSE NoEntry
          IN /\ pc = "picked"
             /\ e # NoEntry /\ e.launcher \in Installed
             /\ entry' = e /\ pc' = "session"
             /\ \/ otherRuns /\ row' = Reservation(e, Other)
                \/ row' = Reservation(e, NoSession)
                \/ UNCHANGED row
             /\ UNCHANGED <<ident, otherRuns, manifestVars, workVars>>

LaunchFails ==
    LET e == IF Loads(file) THEN Find(file, ident) ELSE NoEntry
    IN /\ pc = "picked"
       /\ ~(e # NoEntry /\ e.launcher \in Installed)
       /\ pc' = "over"
       /\ UNCHANGED <<ident, entry, manifestVars, rosterVars, workVars>>

\* The broker's identity check, for an announce by the session of entry e.
Refused(e) == /\ row.there
              /\ \/ row.pid = Other /\ otherRuns
                 \/ row.pid = NoPid /\ (row.effort # e.effort \/ row.model # e.model)

\* A bare `ccd announce`: model and effort are those the id means now.  Where it
\* means nothing, or the broker refuses, the row stays.
\* Mutants: the first entry stands in for an id that is gone; no session id is sent.
Announce_FallsBack ==
    LET found == Find(file, ident)
        e == IF found = NoEntry THEN file[1] ELSE found
    IN /\ pc = "session" /\ Loads(file) /\ ~Refused(e)
       /\ row' = [model |-> e.model, effort |-> e.effort, session |-> Self,
                  pid |-> Self, there |-> TRUE]
       /\ UNCHANGED <<otherRuns, manifestVars, launchVars, workVars>>

Announce_NoSession ==
    LET e == Find(file, ident)
    IN /\ pc = "session" /\ Loads(file)
       /\ e # NoEntry /\ ~Refused(e)
       /\ row' = [model |-> e.model, effort |-> e.effort, session |-> row.session,
                  pid |-> Self, there |-> TRUE]
       /\ UNCHANGED <<otherRuns, manifestVars, launchVars, workVars>>

Announce == LET e == Find(file, ident)
            IN /\ pc = "session" /\ Loads(file)
               /\ e # NoEntry /\ ~Refused(e)
               /\ row' = [model |-> e.model, effort |-> e.effort, session |-> Self,
                          pid |-> Self, there |-> TRUE]
               /\ UNCHANGED <<otherRuns, manifestVars, launchVars, workVars>>

\* The session the launch was run in ends.
OtherExits == /\ Event
              /\ otherRuns /\ otherRuns' = FALSE
              /\ UNCHANGED <<row, file, launchVars, workVars>>

\* The broker restarts with an empty roster, or reaps a row of the dead.
RowIsLost == /\ Event
             /\ row.there /\ row' = NoRow
             /\ UNCHANGED <<otherRuns, file, launchVars, workVars>>

-----------------------------------------------------------------------------
(* The session works, and Claude Code writes down each thing that happens. *)

Writes(rec) == /\ Len(log) < room[events]
               /\ log' = Append(log, rec)
               /\ newest' = Self
               /\ UNCHANGED <<manifestVars, launchVars, rosterVars>>

AsLaunched == [model |-> entry.model, effort |-> entry.effort]

\* The human asks for something, or uses a command of Claude Code's own.
Prompt(text) ==
    /\ turn = "human"
    /\ Writes([kind |-> "user", text |-> text])
    /\ turn' = IF text = Machinery THEN turn ELSE "model"
    /\ told' = [told EXCEPT !.asked = IF text = Machinery THEN "command" ELSE "prompt",
                            !.goal = IF @ = NoText /\ text # Machinery THEN text ELSE @]
    /\ UNCHANGED open

Counted(t, by) == [t EXCEPT !.billed[by.model] = @ + 1,
                            !.asLaunched = @ /\ by = AsLaunched]

Calls == LET recv == [id |-> 2 * Len(log), recv |-> TRUE]
             tool == [id |-> 2 * Len(log) + 1, recv |-> FALSE]
         IN {{}, {recv}, {tool}, {recv, tool}}

\* The model says something, and goes on, makes calls, or ends its turn.
Reply(by, calls) ==
    /\ turn = "model"
    /\ Writes([kind |-> "assistant", model |-> by.model, effort |-> by.effort,
               calls |-> calls])
    /\ turn' \in IF calls = {} THEN {"model", "human"} ELSE {"tools"}
    /\ open' = calls
    /\ told' = [Counted(told, by) EXCEPT !.asked = "nothing"]

\* A call returns.  Esc, like a failing command, makes it an error.
Return(c, text, error) ==
    /\ c \in open
    /\ Writes([kind |-> "result", id |-> c.id, text |-> text, error |-> error])
    /\ open' = open \ {c}
    /\ turn' \in IF open' # {} THEN {"tools"} ELSE IF error THEN {"human", "model"}
                 ELSE {"model"}
    /\ told' = [told EXCEPT !.task = IF c.recv /\ text \in Task /\ ~error THEN text ELSE @]

Printed(c) == IF c.recv THEN Task \cup {Failure} ELSE {Output}

\* A subagent works inside a call.
Subagent(by) == /\ \E c \in open : ~c.recv
                /\ Writes([kind |-> "sidechain", model |-> by.model, effort |-> by.effort])
                /\ told' = Counted(told, by)
                /\ UNCHANGED <<turn, open>>

Noise == /\ Writes([kind |-> "noise"])
         /\ UNCHANGED <<turn, open, told>>

OtherWrites == /\ Event
               /\ otherRuns /\ otherLog # <<>> /\ newest' = Other
               /\ UNCHANGED <<log, turn, open, told, file, launchVars, rosterVars>>

-----------------------------------------------------------------------------

Working == /\ pc = "session"
           /\ \/ \E text \in Goal \cup {Machinery} : Prompt(text)
              \/ \E by \in Service \cup {AsLaunched} :
                    Subagent(by) \/ \E calls \in Calls : Reply(by, calls)
              \/ \E c \in open : \/ \E text \in Printed(c) : Return(c, text, FALSE)
                                 \/ Return(c, Output, TRUE)
              \/ Noise

Next == \/ \E f \in Version : Render(f)
        \/ Pick \/ Launch \/ LaunchFails \/ Announce
        \/ OtherExits \/ RowIsLost \/ OtherWrites
        \/ Working

Spec == Init /\ [][Next]_vars

-----------------------------------------------------------------------------
(* Properties. *)

Logs == [s \in {Self, Other} |-> IF s = Self THEN log ELSE otherLog]
Facts == Parse(log)

\* In a manifest that loads, an id and a label each stand for one entry, and an id
\* leads back to the entry it was derived from.
PicksIdentify ==
    Loads(file) => \A i \in DOMAIN file :
                      /\ Find(file, Ids(file)[i]) = file[i]
                      /\ \A j \in DOMAIN file \ {i} : Labels(file)[i] # Labels(file)[j]

\* Between two manifests that load, an entry that is in both keeps its id unless an
\* entry of the same base id came or went: the order of the file renames nobody.
NamesakesOf(f, e) == {f[i] : i \in {i \in DOMAIN f : EntryId(f[i], FALSE) = EntryId(e, FALSE)}}

RenamedOnlyByNamesake ==
    [][(Loads(file) /\ Loads(file'))
         => \A i \in DOMAIN file : \A j \in DOMAIN file' :
              (file[i] = file'[j] /\ NamesakesOf(file, file[i]) = NamesakesOf(file', file[i]))
                 => Ids(file)[i] = Ids(file')[j]]_vars

\* Whatever was rendered in between, what a session runs and what it is registered as
\* both go by the id in its CCD_MAPPING: they may differ in provider and launcher, or
\* in where a word belongs, and in nothing else.
GoesBy(id, model, effort, launcher) ==
    id \in {EntryId([model |-> model, effort |-> effort, launcher |-> launcher], w) : w \in BOOLEAN}

AnswersToItsMapping ==
    /\ pc = "session" => GoesBy(ident, entry.model, entry.effort, entry.launcher)
    /\ row.there => \E l \in Launcher : GoesBy(ident, row.model, row.effort, l)

\* The status is what the session is doing, except that it is idle as well while the
\* model has yet to go on, and working after a command that asks the model nothing.
StatusIsTrue ==
    log # <<>> =>
      /\ (Facts.status = "parked") = (\E c \in open : c.recv)
      /\ Facts.status = "working" => open # {} \/ told.asked # "nothing"
      /\ turn = "human" => Facts.status \in {"idle", "unknown"} \/ told.asked = "command"
      /\ told.asked = "prompt" => Facts.status = "working"

\* Idle means that the turn is over and a human's is next.
IdleMeansFinished == Facts.status = "idle" => turn = "human"

Shown(role, scope) == Build(Self, row, Logs, newest, role, scope)

\* Of a session that announced itself the dashboard tells the goal or the last task it
\* was given, in its own scope only, and every reply it was billed for, whatever order
\* calls returned in and whatever else the log holds.
ReportIsTrue ==
    (row.session = Self /\ log # <<>>) =>
      /\ Shown("dispatcher", Self).content = told.goal
      /\ Shown("worker", Self).content = IF told.task = NoText THEN told.goal ELSE told.task
      /\ \A role \in {"dispatcher", "worker"} :
            /\ Shown(role, Other).content = NoText
            /\ Shown(role, Self).billed = told.billed

\* Of a session that announced itself and was served as launched, "!" tells exactly
\* that the row names another model or effort than it runs.
DriftMarksMismatch ==
    (row.session = Self /\ told.asLaunched /\ \E m \in Model : told.billed[m] > 0)
       => (Drift(row, Logs, newest)
             <=> \/ row.model # entry.model
                 \/ NoEffort \notin {row.effort, entry.effort} /\ row.effort # entry.effort)

\* What the dashboard takes for the session's own transcript is its own once it has
\* announced itself, and that of the session it was launched from until then; anything
\* else is marked as a guess.
TranscriptIsKnown ==
    LET shown == Shown("worker", Self).transcript
    IN shown.resolvedBy = "session-id" =>
         /\ shown.session = Self => row.pid = Self
         /\ shown.session = Other => row.pid = Other
=============================================================================
