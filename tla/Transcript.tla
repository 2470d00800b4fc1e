----------------------------- MODULE Transcript -----------------------------
(***************************************************************************)
(* What the dashboard reads off a session's transcript, a file that Claude *)
(* Code appends one record a line to while it is being read.               *)
(*                                                                         *)
(* A record is of one of the kinds that parse tells apart:                 *)
(*   user       something typed or injected; text                          *)
(*   assistant  one reply; what served it, and the tool calls it makes     *)
(*   result     the harness answering one call; id, text, error            *)
(*   sidechain  a reply of a subagent; what served it                      *)
(*   noise      a line that does not parse, or of another type             *)
(***************************************************************************)
EXTENDS Names, Naturals, Sequences

CONSTANTS NoModel,     \* no reply to name one
          Text,        \* what a record may say
          Machinery,   \* a text in one of Claude Code's own wrappers
          Failure,     \* what `ccd recv` prints when it delivered nothing
          NoText       \* no line to show

ASSUME TranscriptAssumption == /\ NoModel \notin Model
                               /\ {Machinery, Failure} \subseteq Text
                               /\ NoText \notin Text

Call == [id : Nat, recv : BOOLEAN]
Record == [kind : {"user"}, text : Text]
            \cup [kind : {"assistant"}, model : Model, effort : Effort, calls : SUBSET Call]
            \cup [kind : {"result"}, id : Nat, text : Text, error : BOOLEAN]
            \cup [kind : {"sidechain"}, model : Model, effort : Effort]
            \cup [kind : {"noise"}]

\* The locals of parse at the top of a file.
Start == [pending |-> {}, lastRole |-> "none",
          model |-> NoModel, effort |-> NoEffort, billed |-> [m \in Model |-> 0],
          goal |-> NoText, task |-> NoText]

\* Every reply is billed and reported, a subagent's too.  A record that names no
\* effort leaves the last one standing.
Billed(s, rec) == [s EXCEPT !.model = rec.model,
                            !.effort = IF rec.effort = NoEffort THEN @ ELSE rec.effort,
                            !.billed[rec.model] = @ + 1]

OnAssistant(s, rec) == [Billed(s, rec) EXCEPT !.lastRole = "assistant",
                                              !.pending = @ \cup rec.calls]

OnUser(s, rec) == [s EXCEPT !.lastRole = "user",
                            !.goal = IF @ = NoText /\ rec.text # Machinery
                                     THEN rec.text ELSE @]

\* A result of a `ccd recv` that delivered is the task; it starts no turn.
\* Mutants: results of any call; an interrupted call stays in progress.
OnResult_AnyCall(s, rec) ==
    [s EXCEPT !.pending = {c \in @ : c.id # rec.id},
              !.task = IF ~rec.error /\ rec.text # Failure THEN rec.text ELSE @]

OnResult_KeepsPending(s, rec) ==
    LET delivered == /\ \E c \in s.pending : c.id = rec.id /\ c.recv
                     /\ ~rec.error /\ rec.text # Failure
    IN [s EXCEPT !.pending = IF rec.error THEN @ ELSE {c \in @ : c.id # rec.id},
                 !.task = IF delivered THEN rec.text ELSE @]

OnResult(s, rec) ==
    LET delivered == /\ \E c \in s.pending : c.id = rec.id /\ c.recv
                     /\ ~rec.error /\ rec.text # Failure
    IN [s EXCEPT !.pending = {c \in @ : c.id # rec.id},
                 !.task = IF delivered THEN rec.text ELSE @]

Step(s, rec) == CASE rec.kind = "user"      -> OnUser(s, rec)
                  [] rec.kind = "assistant" -> OnAssistant(s, rec)
                  [] rec.kind = "result"    -> OnResult(s, rec)
                  [] rec.kind = "sidechain" -> Billed(s, rec)
                  [] rec.kind = "noise"     -> s

Status(s) == CASE \E c \in s.pending : c.recv -> "parked"
               [] s.pending # {} /\ ~\E c \in s.pending : c.recv -> "working"
               [] s.pending = {} /\ s.lastRole = "user" -> "working"
               [] s.pending = {} /\ s.lastRole = "assistant" -> "idle"
               [] s.pending = {} /\ s.lastRole = "none" -> "unknown"

\* The locals once every line has been read, from the first to the last.
After(log) == LET read[n \in 0..Len(log)] ==
                      IF n = 0 THEN Start ELSE Step(read[n - 1], log[n])
              IN read[Len(log)]

Parse(log) == LET s == After(log)
              IN [status |-> Status(s), model |-> s.model, effort |-> s.effort,
                  billed |-> s.billed, goal |-> s.goal, task |-> s.task]

\* No transcript to read.
NoFacts == [Parse(<<>>) EXCEPT !.status = "unknown"]
=============================================================================
