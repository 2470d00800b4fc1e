# A TLA+ model of ccd

`ccd` lets several Claude Code sessions on one host work as dispatchers and
workers.  A small broker holds message queues and a roster in memory; sessions
reach it through a CLI that opens a Unix socket, sends one JSON line and reads
one back.  This directory holds TLA+ modules translated from the Python source,
the TLC configurations that check them on small instances, and proofs that TLAPS
checks for instances of any size.

Contents: [the system](#the-system), [modules](#modules), [runs](#runs),
[bounds](#bounds), [fairness](#fairness), [proofs](#proofs),
[where the code and its words disagree](#where-the-code-and-its-words-disagree),
[what is not modelled](#what-is-not-modelled), [plan](#plan).

## The system

| component | state | operations | talks to |
|---|---|---|---|
| Queues and blocking recv (`ccd_broker/broker.py`) | `_queues`, one deque per handle; `_next_id`; one condition variable; the message a recv thread has reserved, a local variable | `send`, `recv`, `requeue_front` | one thread per connection; senders wake receivers through the condition |
| Acknowledged delivery (`transport_uds._ClientContext`) | the connection, its kernel buffers and error flag | `deliver`, `alive` | the client process through the kernel |
| Roster, identity, claims (`broker.py`) | `_roster`: effort, model, pid, owner, mapping, cwd, session of each handle | `announce`, `retire`, `claim`, `release`, `roster` (reaps), the guard of `send` | `/proc` |
| Connections (`transport_uds.UnixSocketTransport`) | listener, one daemon thread per connection | accept, `_serve_conn`, `dispatch` | clients, the broker's handlers |
| Broker process (`transport_uds`, `ccd_broker/__main__.py`) | the socket file, the process | `_bind`, `serve`, `close`, SIGTERM | other brokers, through the path |
| `ccd broker start/stop/status` (`ccd_cli/cli.py`) | the pidfile, a child process | spawn, ping loop, signal, wait loop | the broker process, ping |
| Client call (`ccd_cli/rpc.py`, `cli.main`) | one socket, an exit status | `rpc`, the exception handlers of `main` | the broker |
| `ccd launch` and the session it becomes (`cli.py`) | `CCD_HANDLE`, `CCD_MAPPING` in the environment | ping, reserve loop, `execve`; later `announce`, `ret` | the roster |
| Other subcommands (`cli.py`) | none | `send`, `recv`, `claim`, `release`, `ls`, `pick`, `dashboard` | one request each |
| Mapping manifest (`ccd_mappings/manifest.py`) | a JSON file | `ids`, `labels`, `validate`, `find`, `resolve_launcher` | read by `pick`, `launch`, `announce` |
| Transcript reader (`ccd_dashboard/transcript.py`) | none | `locate`, `parse` | files written by Claude Code |
| Dashboard (`ccd_dashboard/dashboard.py`) | an output file | `build`, `render`, `write_json` | the roster reply, transcripts |
| Skills (`skills/*.md`) | none | instructions to the sessions | |

What is hard about it, and what correct means:

* **A message in delivery is in no queue.**  `recv` pops it, leaves the lock, writes
  it to a socket and asks the kernel, in three separate system calls, whether the
  client read it.  Clients are killed at any moment (Esc).  Correct: no accepted
  message is lost, none is read twice, each waits at most once in its own queue,
  order survives as far as it can, nobody sleeps beside mail.
* **The roster is shared by processes that do not know of each other.**  Correct: a
  claim has one winner; a live name is not taken; only the dead are reaped, and what
  they held is freed; the hatch that lets an unaffiliated sender reach any worker
  stays open.
* **Files as locks.**  The socket path and the pidfile are looked at and then acted
  on by several processes with nothing in between to stop the others.  Correct: one
  broker serves, it can be reached, the pidfile names it, and `stop` does not call it
  stale.
* **Reservation and use of a name are two requests of two processes** (the launch and
  the session it becomes), with other launches, reapings and broker restarts between.
* **Either side of a call may go away** between any two system calls.  Correct: the
  caller is told the truth, every call and every serving thread ends.

* **An id is derived, handed on and looked up again**, in a manifest that another
  program may have rendered anew in between: once by `pick`, once by `launch`, and by
  every `announce` of the session.  Correct: an id stands for one entry; a session runs,
  and is registered as, something of that id; where the two differ, `ccd ls` says so.
* **The dashboard reads a log that somebody else is writing**, and has to tell from its
  last records whether a session works, waits for a message or for a human, although
  calls return in any order, are interrupted, and subagents write in between.

The hazards, each at its line, with the properties that cover them, are listed in
`PROJECT.json`.

## Modules

`Mailbox` implements `Delivery`; `Launch` instantiates `Roster`; `Participant` is built
from `Manifest`, `Transcript` and `Dashboard`; what `Transcript` computes is what
`Account` defines.  The other modules stand alone.

```
Delivery  <--implements--  Mailbox  <-- MailboxProofs  <-- DeliveryProofs
Roster    <-- RosterProofs
Roster    <--instance----  Launch   <-- LaunchProofs
Names <- Manifest, Transcript
Transcript <- Dashboard
Manifest, Dashboard  <-- Participant
Account    --describes-- Transcript    <-- TranscriptProofs  <-- ParticipantProofs
BrokerProcess  <-- BrokerProcessProofs
Rpc            <-- RpcProofs
```

**`Mailbox`** - queues, recv threads, clients.  `sentTo` stands for `_next_id` and the
messages (message `m` is the one answered with id `"m<m>"`), `queues` for `_queues`,
`pc`/`item`/`late` for the locals of each connection's thread, `client`/`inbox`/
`reset`/`got` for the client process and its socket.  `Reserve`, `Park` and
`ReplyTimeout` are the locked section of `_recv`; `PollInterval` and a notification
both end `cond.wait`; `CheckAlive` is `ctx.alive()`.  `WriteReply` .. `GiveUp` are
`deliver`, one action per system call, and `RequeueFront` the locked section after it.
`Close` is in two steps because the kernel flags the peer's socket first and drops the
unread reply afterwards (the order the second poll in `deliver` relies on).  `late` is
whichever deadline the thread is in.  `lapsed` and `overlap` are history variables.
The text of a message, its sender and the reply's encoding are left out; `Large` is
what matters of its size.

**`Delivery`** - what is promised about a message: it waits, is reserved, and from there
is received, put back, or written off.

**`Roster`** - one action per request, because each handler is one locked section; a
refused request changes nothing.  `roster` is `_roster`; `running` is `/proc`; `holds`
and `won` are history variables: who was told ok for a name and has since not exited,
been retired, forced off, or replaced by an announce whose identity cannot be compared
for want of a pid; and the claims answered ok and not undone since.  `model` stands for
the four fields that an announce may omit, `effort` for the one it may not.  An omitted
pid is *not* carried forward.

**`Launch`** - `cmd_launch` from its ping to `execve`, on top of an instance of `Roster`.
Every candidate name is a pair `<<base, attempt>>`.  A launch is made in a plain shell, in
some session, or in one that another launch has started, and then begins (`Inside`) only
while that session runs.  The session later announces, retires or exits; anyone may read the roster; the broker may restart, with an empty roster.

**`BrokerProcess`** - `_bind`, `serve`, `close`, the SIGTERM handler, `_broker_start` and
`_broker_stop`, one system call per action.  A process id is the broker it belongs to.

**`Rpc`** - `rpc()` and `main`'s exception handlers against accept, `_serve_conn` and
`dispatch`, for requests that are answered at once.

**`Names`** - the models and efforts that manifests, rows and transcripts name.

**`Manifest`** - what `manifest.py` derives from a file: a sequence of entries, or no
file.  A text is a value of which two things are known: what is left when the provider
is dropped, and the words that are left when it is made id-safe.  An id joins words with
a dash, so it is the sequence of them, and ids may collide whatever fields their words
came from.  The many checks `validate` makes of one member alone, the
match of its id with `ID_RE` among them, are the field `flawed`.

**`Transcript`** - `parse` over the records of a log, one operator per branch of its
loop, `After` the locals once the last line was read, and the status read off them.  The text of a record is what `parse`
tells apart: something typed, something delivered, one of Claude Code's wrappers, the
failure line of `ccd recv`.

**`Account`** - what a transcript says, defined of the whole file at once: the calls that
no later line answers, the last that spoke at the top level, the last model and the last
effort named, the replies counted by model, the first thing asked, the last task
delivered.  It is what `parse` is to compute, and says nothing of how.

**`Dashboard`** - `locate`, the drift marker of `ccd ls`, and `build` for one row.

**`Participant`** - one session from its manifest entry to what is shown of it.  `file`
is the manifest, rendered anew at any time; `ident` is what `ccd pick` prints, `launch`
looks up and `CCD_MAPPING` carries; `entry` is what was exec'd; `row` is the session's
entry of the roster.  Once launched, the session takes turns with a human, makes calls
(some of them `ccd recv`), is interrupted, served as launched or not, has subagents, and
every step appends its record to `log`.  `told` is the history that the dashboard's
report is compared with.  How Claude Code writes its log is external: it is modelled from
what `transcript.py` and its tests expect of it.  The launch is `Launch`'s without the
competition for names, which is why a row that is there is always the session's own.

**`MC*`** - sets, functions and symmetry for the runs.  **`*Proofs`** - theorems.

Operators named `X_Y` and introduced by a comment "Mutant" are variants of the
definition `X` with a plausible mistake.  They occur in no specification: substituting
one for `X` must break the property that `PROJECT.json` pairs it with, which is how each
property is known to depend on the code.

## Runs

| run | shows |
|---|---|
| `Mailbox_recvs` | Two recvs of one handle; clients may stop reading past `ACK_TIMEOUT` or for good, one socket has no `SIOCOUTQ`, one reply overflows the socket buffer, and clients die anywhere: nothing is lost, doubled or slept on, only a stalled client's message is written off, order is kept while no two messages of a handle are out at once, and `Delivery` is implemented.  Every recv ends unless its client keeps `sendall` waiting; mail reserved for a dead client is queued again; mail does not stay beside a waiting recv. |
| `Roster_sessions` | Exclusive claims, the send guard, who may take a name, reaping, and that a name leaves with all it had claimed, under every order of requests and with process ids that are reused. |
| `Launch_race` | Launches racing for one name, made in a plain shell, in a dispatcher and in the session that another launch started, with a broker restart: no two share a name and each entry leads to its session while the reservations stand; a session is refused only for a namesake or because of its launch's own pid; the reserve loop ends. |
| `BrokerProcess_sequential` | Commands one after the other, brokers killed at any step: one broker, reachable, named by the pidfile; leftovers stop nobody. |
| `BrokerProcess_concurrent` | Start against stop and a service-managed broker, one broker slow: every command ends, and racing brokers converge on one that answers. |
| `Rpc_calls` | Answers are true, calls and threads end, with a broker that goes away twice and a client that never sends its line. |
| `Participant_session` | The manifest changes between pick, launch, announce and re-announce, and the row is lost: ids and labels identify, entries are renamed only by namesakes, the session runs and is registered as something of its id, and drift marks exactly a mismatch.  Around a working session status, content, cost and transcript shown are its own. |
| `Launch_dispatcher`, `Roster_claims`, `BrokerProcess_two`, `Rpc_zero`, `Participant_idle` | Counterexamples, see [below](#where-the-code-and-its-words-disagree). |

Each run's configuration is `MC<run>.cfg`.  Deadlock is not checked where the system may
rightly stop: all messages sent and all connections closed (`Mailbox`), all sessions
gone (`Launch`), no process left to start (`BrokerProcess`), all calls over (`Rpc`), the
launch failed or the log full (`Participant`).  In
`Roster` some request can always be made and deadlock is checked.

### Bounds

* `MaxMsg` is 3 and there are two connections: two recvs of one handle and two messages
  are what losing, doubling and reordering take, a third waits behind them, and a second
  handle takes mail that nobody asks for.  The proofs cover every number.
* `Roster_sessions` has two names and the anonymous one as possible claimants, and two
  each of pids, efforts and models, since identity is decided between an entry and one
  newcomer, and a claim contested by two.  The proofs cover every number.
  `Roster_claims` has three names, so that a read reaps two of them at once: reaping one
  alone is the same step as its retire.
* `MaxAttempt` is 20 in the code and 2 in the runs: with three launches it lets a launch
  get its first name, its second, or none.  Two of the three can race from the start, the
  third can join once the session it is made in runs.
* `MaxRestart` (1 or 2) bounds how often the broker goes away.
* `Broker` (3 or 4 processes ever created): the loser of a race, the winner, and one
  that comes after.
* `Participant_session`: every manifest of up to two of five entries, the threes with two
  namesakes in front, and files that do not load.  The five are what collisions take: two
  launchers, two providers of one model, an effort, a model whose name contains an
  effort, a launcher called what an effort is called.  `MaxEvent` (2) counts renderings,
  exits, lost rows and writes of another session; `room` shortens the log by what has
  happened: five records without events (a prompt, a recv, its task, another recv, its
  task), three after one, two after two.  The proofs cover every file and number; how
  records combine is a matter of a few of them, since `parse` keeps only which calls are
  open, who spoke last and the first and last texts.

### Fairness

* `Mailbox`: threads are scheduled, clocks advance, a reading client reads and then
  closes (which is what `rpc` does), the kernel completes a close.  Nobody has to send,
  stall, resume or die.  Strong fairness is used once, for the clock of `ACK_TIMEOUT`,
  since a client that alternates between stalling and resuming disables and enables
  that action although time passes all along.
* `Roster`: none.  Reaping happens in a roster read and nowhere else, and nothing in the
  code schedules one: until somebody runs `ccd ls` or the dashboard, names and claims of
  the dead stay, and nothing is promised to happen.
* `Launch`: a launch is a running program.  Sessions owe nothing.
* `BrokerProcess`: processes and commands run; crashes and new commands are optional.
* `Participant`: none; nothing is promised to happen.
* `Rpc`: broker threads run; a client runs, unless it is a `Dawdler`, which only has to
  read once it has sent its line.  A broker that went away need not come back.

## Proofs

TLAPS proves, for all values of the constants that satisfy the modules' assumptions:

* `MailboxProofs` - `TypeCorrect`, `DequeueOnAck` (`NothingLost`), `NoDuplicateInQueue`
  (`QueuedOnce`), `ReadOnlyOnce` (`ReadOnce`), `NoLostWakeup` (`NoSleepOnMail`),
  `WrittenOffForAStall` (`LapseNeedsStall`).  None of these is inductive alone.  The
  invariant is `MInv == TypeOK /\ HandsFull /\ Protocol /\ Custody`: `HandsFull` says
  when a thread holds a message, `Protocol` what the state of a thread tells about its
  client, buffer and error flag (for instance: past the unread count, an empty buffer
  with no error flag means that the client read the reply), and `Custody` that every
  message is in exactly one place.  `ProtocolHolds` and `CustodyHolds` prove the two
  halves action by action; `QuietStep` covers the many steps that move no message.
* `DeliveryProofs` - `MailboxKeepsPromise` (`KeepsPromise`): `Mailbox` implements
  `Delivery`.  Under `MInv` a message is in one place, and every step moves at most one:
  `MoveOne` maps a step that does to a step of `Delivery`, `MoveNone` one that does not
  to a stutter, and one lemma for each action that moves a message says which and where.
  `DeliversInOrder` (`FifoWithoutOverlap`).  The property says nothing of
  what `requeue_front` relies on, so `Fifo` adds it: what a client may still read is older
  than the queue too (`Behind`), no two connections of the handle have a message out
  (`Alone`), and what was read is older than what a thread holds unread (`Newest`).  Then
  the message put back is older than the queue and younger than all that others have.
* `RosterProofs` - `TypeCorrect`, `ClaimsExclusive` (`OneWinner`), `NamesExclusive`
  (`OneHolder`), `HatchStaysOpen` (`HatchOpen`) and `LeaversTakeClaims`
  (`LeaversHoldNothing`).  The invariant is
  `RInv == TypeOK /\ OneWinner /\ OneHolder /\ HoldersRun`: `HoldersRun`, whoever holds
  a name still runs or gave no pid, is what `OneHolder` needs in the two steps that
  could take a name away: a roster read reaps only entries whose process is gone, and
  an announce compares pids only with a process that runs.  `LeaversHoldNothing` is about
  steps and needs no more than the types: of all requests only a claim makes somebody an
  owner, and `Without` clears the claims of whatever it removes.
* `ParticipantProofs` - `TypeCorrect`; `IdsIdentify` (`PicksIdentify`),
  `OnlyNamesakesRename` (`RenamedOnlyByNamesake`), `SessionAnswersToItsMapping`
  (`AnswersToItsMapping`) and `TranscriptKnown` (`TranscriptIsKnown`).  The first two of
  the properties are about files and follow from lemmas about the operators of
  `Manifest`: `FindInverts`; `LabelsDiffer`, because entries of one label share their base
  id and so carry their launchers; `NamesakesAreOthers`, whether an entry carries its
  launcher depends on which entries there are and not on where they stand.
  `AnswersToItsMapping` is made inductive by `row.there => pc = "session"` and proved from
  `FoundGoesBy`, what `find` returns goes by the id it was asked for; `TranscriptIsKnown`
  follows from the row's session and pid being those of one process.
* `TranscriptProofs` - `ParseReadsTheFile`: for a transcript of any length, what `parse`
  ends with is its `Account`.  `After` is a recursive function of the number of lines
  read.  That it exists, that it is the only one, and that one line more is one `Step`
  more (`ReadsExist`, `ReadsUnique`, `AfterAppend`) is by induction on that number, in
  the form of a least counterexample: `LeastNatural` takes a set, where the library's
  induction theorems take an operator, which the provers cannot instantiate.
  `AccountGrows` shows that the account takes the same `Step` with every line, from one
  lemma per part of it (`MoreReplies`, `MoreGoals`, `MoreCost`, `MoreCalls`,
  `MoreTasks`), and a second induction joins the two.  `StepOfUser` .. `StepOfNoise` say
  what each kind of record does to the locals.
* `ParticipantProofs`, on the log of a session - `StatusTrue` (`StatusIsTrue`),
  `ReportTrue` (`ReportIsTrue`) and `DriftTrue` (`DriftMarksMismatch`), for logs of any
  length.  The invariant is `ShownInv == TypeOK /\ Quiet /\ RowIsOfEntry /\ Understood`:
  `Understood` relates the locals of `parse` to what happened in the session: the calls
  it has pending, goal, task and replies are the session's (`Agrees`), who spoke last
  tells whose turn it is (`TurnIsKnown`), where all replies came as launched the last
  model and effort are those of the entry (`AsLaunchedIsSeen`), and no two open calls
  have one id (`CallsDiffer`), without which a result could end a call that still runs.
  One lemma per kind of record shows that `Understood` survives it; `Quiet` (no log
  before there is a session) and `RowIsOfEntry` are what the launch contributes.
* `LaunchProofs` - `TypeCorrect`, `NamesAreDistinct` (`OneSessionPerName`),
  `RowLeadsToSession` (`RosterLeadsToSession`), `RefusedByNamesake`
  (`RefusedOnlyByNamesake`).  `RowsStand` says that the row of every name that is owned
  was written last by its owner, with its parent's pid before the session announces and
  the session's own after; so a reservation, which needs a name without a row, takes
  nobody's, and a roster read reaps nobody's, since both processes run (`Alive`,
  `Steady`).  That reservations which stand have stood all along (`SteadyBefore`) takes
  `Alive`'s other half: the session that a launch was made in was started before it, so
  no later `execve` brings a process back that a reservation names.  `RowsSigned` holds across restarts: whoever wrote a row goes by its name.
* `RpcProofs` - `TypeCorrect`, `AnswersAreTrue` (`AnswerIsTrue`).  `Written` is the
  argument: once a line is written for the client the thread can only close, so a request
  that was refused for being late is never carried out after all.
* `BrokerProcessProofs` - `TypeCorrect`, and for one command at a time, no service manager
  and no slow broker (`Orderly`, the constants of `BrokerProcess_sequential`):
  `ServingReachable`, `PidfileNames`, `LeftoversHarmless`, `StopIsTruthful`, whichever
  brokers are killed.  `Turns` gives every broker that is on its way up or down to the
  command under way, so that there is never a second one (`OneProcess`) to touch the path
  between a look and the deed (`Socket`).

Assumed are only the named `ASSUME`s of the modules, which TLC evaluates in every run,
and `Orderly` where a theorem says so.  Most say what kind of value a constant is.  Four
say more: no two launches start processes of one id (`pidOf`), and `Launch` never hands
an id out again; two sessions have two ids (`Self # Other`); no model is called what stands for
"none" (`NoModel`, and `NoText` among texts); and no delivered message reads like the
failure line of `ccd recv` (`Failure \notin Task`): `cmd_recv` prints a message behind
the name of its sender (`cli.py:161`), so only one from a session called `ccd recv` would.

Every property of the passing runs that is not liveness is thereby also a theorem.  Only
model-checked: liveness and fairness, which are out of the prover's reach (`EveryRecvEnds`,
`InterruptedMailReturns`, `MailIsTaken`, `EveryLaunchEnds`, `EveryCommandEnds`, `StartsConverge`, `EveryCallEnds`,
`EveryThreadEnds`).

## Where the code and its words disagree

Each of these is a run whose property quotes the repository and is violated.

| run | what happens |
|---|---|
| `Launch_dispatcher` | A dispatcher session that runs `ccd launch` reserves the name with its own `$CLAUDE_PID`; the worker's announce is refused as long as the dispatcher lives. |
| `Roster_claims` | A roster read that finds a dispatcher dead removes its entry and frees the workers it held (`broker.py:581-589`, as "Liveness and reaping (#13)" in the module's docstring intends). `USAGE.md:537` says "its claims survive it"; so do `USAGE.md:704` ("claims have no liveness"), ADR 0007, line 27 ("leaves its claims held indefinitely"), and the comment at `broker.py:501-504`. `USAGE.md:690`, for which the roster "keeps advertising a handle that no longer answers", holds until the next read only, if the handle's session gave a pid. |
| `BrokerProcess_two` | Two racing starts: the second probes between the first's `bind` and `listen`, takes the socket for stale and removes it. Both serve. |
| `Rpc_zero` | `sendall` is outside the `try` that raises `Unreachable`; its `BrokenPipeError` reaches `main`, which exits with 0 as for a closed stdout. |
| `Participant_idle` | The last call of a turn returns, and until the model's next record is written the session is shown as idle, which the documentation calls "turn finished, waiting on a human"; so is one that has said something and goes on. |

Limits that the properties state, without a run of their own: `EveryRecvEnds` excepts a
client that keeps `sendall` of a large reply waiting, since `sendall` has no timeout and
the clock of `ACK_TIMEOUT` starts after it; `StopTellsTheTruth` and
`PidfileNamesBroker` hold for one command at a time, because a start that loses a race
overwrites the pidfile; `OneSessionPerName` holds while the sessions that launches were
made in live, because a reservation carries their pid and is reaped with it.

* `ReadOnce` holds, although `USAGE.md:706` lists "A task arrives twice" as "Known,
  unexplained": the protocol between broker and client hands out no message that was read.
  A second `ccd send` of the same text would look the same, and is another message here.
* `FifoWithoutOverlap` is about handles with one recv at a time.  With two, the first
  reserves m1, the second is served m2, the first client dies, and m1 goes back behind a
  younger message already read, or both go back in the wrong order, although
  `requeue_front` says that the interrupted recv held the oldest message.
* `HatchOpen` excepts a sender with a claim, and `claim` accepts the reserved name
  `unknown` as an owner: after that, unsigned senders are refused, although the broker
  "never refuses a sender that claims nothing".
* `AnswersToItsMapping` lets a session run one entry and be registered as another of the
  same id when the manifest was rendered in between, although with one variable there is
  "structurally nothing left to fall out of sync" (`cli.py:962`).  `DriftMarksMismatch`
  says that `ccd ls` marks this, unless one of the two entries declares no effort.
* `PicksIdentify` holds because `validate` refuses every file whose ids collide; not every
  such file holds the "true duplicate" that the message and `ids`'s comment speak of
  (two providers of one model collide too).
* `StatusIsTrue` lets a session that was given only a command of Claude Code's own be
  shown as working, and `TranscriptIsKnown` lets the reserved row of a session that has
  not announced itself show the transcript of the session it was launched from.

## What is not modelled

* Prices, rendering and the role of the dashboard (both roles are checked for every row),
  and `write_json`, which refuses a path in a working tree and otherwise writes the file
  in place; there is no temporary file and no rename to model.
* The text patterns of `transcript.py` (what counts as a `ccd recv`, a wrapper, a
  reminder), timestamps, branches and issue tags.
* The skills: instructions to a language model.
* Argument parsing, prompts and printing of the CLI.  The derivation of a handle is the
  constant `baseOf` of `Launch`, and one name in `Participant`.
* How long a request may take: `REQUEST_TIMEOUT` begins anew with every `recv`, so a client
  that sends its line piece by piece holds its thread until 4 MiB have come.  `rpc` sends
  the line in one `sendall`, and `Rpc` has it whole or not at all.  The answers that `Rpc`
  is about fit the socket buffer; their `sendall` has no timeout, as in `Mailbox`.
* A row without a cwd, for which `locate` finds nothing (`transcript.py:108`): every
  announce of the CLI sends one.  A transcript file that exists and is empty.
* The peer uid check, JSON parsing and the size limit of a request: each ends in a
  refusal without effect, which `Rpc` has as one of the answers.
* Half-closed clients and stray bytes after the request line (`alive`, `deliver`): the CLI
  produces neither.
* `BrokerProcess`: the pidfile is written in one step (the code truncates and then
  writes), a child that has exited counts as gone although it is a zombie while its
  `start` still runs, a full backlog never delays a probe, and process ids are not
  reused.
* The mapping, cwd and session fields of an entry, which the broker stores and returns
  as it does `model`; `Participant` has the session.

## Plan

Done: all modules above; of the properties of the passing runs, every one that is not
liveness is also a theorem.  Left:

1. A composition of roster and queues: pending and orphan counts of the roster reply.
   Both are counted in the one locked section in which the rows are copied, so little can
   go wrong there that `Roster` and `Mailbox` do not show.
