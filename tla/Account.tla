------------------------------- MODULE Account ------------------------------
(***************************************************************************)
(* What a transcript says of its session, told of the whole file at once:  *)
(* the last model to reply, the first thing asked, the replies counted by  *)
(* their model, the calls that no later line answers.  Transcript reads    *)
(* the same off the file in one pass and keeps none of its lines.          *)
(***************************************************************************)
EXTENDS Transcript, FiniteSets

\* What f, a function on line numbers, is at the last and at the first of them.
AtLast(f, default) == IF DOMAIN f = {} THEN default
                      ELSE f[CHOOSE i \in DOMAIN f : \A j \in DOMAIN f : j <= i]
AtFirst(f, default) == IF DOMAIN f = {} THEN default
                       ELSE f[CHOOSE i \in DOMAIN f : \A j \in DOMAIN f : i <= j]

\* Any reply, a subagent's too.
Replies(lines) == {i \in DOMAIN lines : lines[i].kind \in {"assistant", "sidechain"}}
Models(lines)  == [i \in Replies(lines) |-> lines[i].model]
Efforts(lines) == [i \in {k \in Replies(lines) : lines[k].effort # NoEffort}
                     |-> lines[i].effort]
Cost(lines)    == [m \in Model |-> Cardinality({i \in Replies(lines) : lines[i].model = m})]

\* Who speaks at the top level.
Speakers(lines) == [i \in {k \in DOMAIN lines : lines[k].kind \in {"user", "assistant"}}
                      |-> lines[i].kind]

Goals(lines) == [i \in {k \in DOMAIN lines : lines[k].kind = "user" /\ lines[k].text # Machinery}
                   |-> lines[i].text]

\* Call c is made in line i, and no line up to the n-th answers it.
Waits(lines, c, i, n) ==
    /\ lines[i].kind = "assistant" /\ c \in lines[i].calls
    /\ ~\E j \in (i + 1)..n : lines[j].kind = "result" /\ lines[j].id = c.id

Made(lines) == UNION {lines[i].calls : i \in {k \in DOMAIN lines : lines[k].kind = "assistant"}}
InProgress(lines) == {c \in Made(lines) : \E i \in DOMAIN lines : Waits(lines, c, i, Len(lines))}

\* A result without an error that answers a recv with something else than a failure.
Delivers(lines, k) ==
    /\ lines[k].kind = "result" /\ ~lines[k].error /\ lines[k].text # Failure
    /\ \E i \in 1..(k - 1) : \E c \in Made(lines) :
          Waits(lines, c, i, k - 1) /\ c.id = lines[k].id /\ c.recv
Tasks(lines) == [i \in {k \in DOMAIN lines : Delivers(lines, k)} |-> lines[i].text]

AccountOf(lines) == [pending |-> InProgress(lines), lastRole |-> AtLast(Speakers(lines), "none"),
                   model |-> AtLast(Models(lines), NoModel),
                   effort |-> AtLast(Efforts(lines), NoEffort),
                   billed |-> Cost(lines),
                   goal |-> AtFirst(Goals(lines), NoText),
                   task |-> AtLast(Tasks(lines), NoText)]
=============================================================================
