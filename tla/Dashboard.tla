------------------------------ MODULE Dashboard -----------------------------
(***************************************************************************)
(* What `ccd dashboard` and `ccd ls` make of one row of the roster and the *)
(* transcripts of its working tree.  logs maps a session id to its         *)
(* transcript, <<>> while there is no such file; newest is the session     *)
(* whose file in that tree was modified last.                              *)
(***************************************************************************)
EXTENDS Transcript

CONSTANT NoSession

Nothing == [session |-> NoSession, resolvedBy |-> "none"]

\* The transcript of the session the row names and of no other; without a name, a
\* guess.  Every announce of the CLI carries its cwd, so the row has one.  A file
\* comes with its first record: one that is there and empty, which locate would
\* find, is not told from one that is not there.
Locate(row, logs, newest) ==
    CASE row.session # NoSession /\ logs[row.session] # <<>> ->
           [session |-> row.session, resolvedBy |-> "session-id"]
      [] row.session # NoSession /\ logs[row.session] = <<>> -> Nothing
      [] row.session = NoSession /\ newest = NoSession -> Nothing
      [] row.session = NoSession /\ newest # NoSession ->
           [session |-> newest, resolvedBy |-> "mtime"]

FactsOf(row, logs, newest) ==
    LET located == Locate(row, logs, newest)
    IN IF located = Nothing THEN NoFacts ELSE Parse(logs[located.session])

\* Mutant: a field that was never declared counts as a discrepancy.
Drift_Undeclared(row, logs, newest) ==
    LET facts == FactsOf(row, logs, newest)
    IN \/ facts.effort # NoEffort /\ facts.effort # row.effort
       \/ facts.model # NoModel /\ facts.model # row.model

\* The "!" of `ccd ls`: declared and observed are both there, and differ.
Drift(row, logs, newest) ==
    LET facts == FactsOf(row, logs, newest)
    IN \/ NoEffort \notin {facts.effort, row.effort} /\ facts.effort # row.effort
       \/ NoModel \notin {facts.model, row.model} /\ facts.model # row.model

\* The one content line: a dispatcher's goal, a worker's last task, or its goal.
Content(role, facts) == IF role = "worker" /\ facts.task # NoText THEN facts.task
                        ELSE facts.goal

\* build, for one row: metadata always, content in its own scope only.
Build(handle, row, logs, newest, role, scope) ==
    LET facts == FactsOf(row, logs, newest)
    IN [status |-> facts.status, billed |-> facts.billed,
        transcript |-> Locate(row, logs, newest),
        content |-> IF handle = scope THEN Content(role, facts) ELSE NoText]
=============================================================================
