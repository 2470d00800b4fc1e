------------------------------- MODULE Roster -------------------------------
(***************************************************************************)
(* The broker's roster: which session answers to which handle, whether its *)
(* process still runs, and which dispatcher has claimed it.  Announce,     *)
(* retire, claim, release and the roster read that reaps dead entries are  *)
(* each one critical section under the broker's lock, so each is one       *)
(* action; a refused request changes nothing and is no step.  Between two  *)
(* requests any process may exit.                                          *)
(*                                                                         *)
(* The entry's mapping, cwd and session are treated exactly as model is    *)
(* (kept when an announce omits them) and compared by nothing; model       *)
(* stands for them.                                                        *)
(***************************************************************************)
EXTENDS Naturals, FiniteSets

CONSTANTS Handle,    \* names a session may announce
          Anon,      \* ANON_SENDER, the stamp of a sender that claims nothing
          NoOwner, NoPid, NoModel,  \* Python's None in the entry's fields
          Effort,    \* declared efforts
          Model,     \* resolved model ids
          Pid,       \* process ids sessions announce
          PidReuse   \* whether the system may hand out an exited process's id again

ASSUME RosterAssumption == /\ Anon \notin Handle
                           /\ NoOwner \notin Handle \cup {Anon}
                           /\ NoPid \notin Pid
                           /\ NoModel \notin Model
                           /\ PidReuse \in BOOLEAN

VARIABLES roster,    \* Broker._roster, a function on the announced handles
          running,   \* the pids present in /proc
          holds,     \* history: <<pid, handle>> of the sessions that were told ok
                     \* for the handle and have lost it to nothing they know of
          won        \* history: <<owner, worker>> claims answered ok and not undone

vars == <<roster, running, holds, won>>

Name     == Handle \cup {Anon}
Owner    == Name \cup {NoOwner}
Entry    == [effort : Effort, model : Model \cup {NoModel},
             pid : Pid \cup {NoPid}, owner : Owner]
On(h)    == h \in DOMAIN roster

TypeOK == /\ DOMAIN roster \subseteq Handle
          /\ \A h \in DOMAIN roster : roster[h] \in Entry
          /\ running \subseteq Pid
          /\ holds \subseteq (Pid \cup {NoPid}) \X Handle
          /\ won \subseteq Name \X Handle

Init == /\ roster = [h \in {} |-> NoOwner]
        /\ running = Pid
        /\ holds = {}
        /\ won = {}

-----------------------------------------------------------------------------
(* The checks the handlers share. *)

ProcExists(p) == p \in running

Holds(s, h) == On(h) /\ roster[h].owner = s

\* Broker._owns_any: does this name hold at least one claim?
OwnsAny(s) == \E h \in DOMAIN roster : Holds(s, h)

\* _identity_refusal, negated: may this announce take the live entry e?
\* A pid on both sides settles it; otherwise the declared metadata does.
MayReannounce(e, effort, model, pid) ==
    IF e.pid # NoPid /\ pid # NoPid
    THEN e.pid = pid \/ ~ProcExists(e.pid)
    ELSE /\ e.effort = effort
         /\ model \in {NoModel, e.model} \/ e.model = NoModel

\* _m_announce's refusals, negated: the reserved name, a reservation of a taken
\* name, another session's name.
Accepts(h, effort, model, pid, exclusive, force) ==
    /\ h # Anon
    /\ On(h) => force \/ (~exclusive /\ MayReannounce(roster[h], effort, model, pid))

\* Mutant: any sender but the owner is refused.
SendRefused_AnyOther(from, to) == On(to) /\ roster[to].owner \notin {NoOwner, from}

\* _m_send's guard: a dispatcher may not send to a worker someone else holds.
SendRefused(from, to) == /\ On(to)
                         /\ roster[to].owner \notin {NoOwner, from}
                         /\ OwnsAny(from)

\* The roster without the handles in gone, and without the claims they held.
Without(gone) ==
    [h \in DOMAIN roster \ gone |->
        IF roster[h].owner \in gone THEN [roster[h] EXCEPT !.owner = NoOwner]
                                    ELSE roster[h]]

StillWon(gone) == {x \in won : x[1] \notin gone /\ x[2] \notin gone}

SetOwner(h, o) == roster' = [roster EXCEPT ![h].owner = o]

\* Who holds which name once process pid was told ok for h: everyone who did, but
\* those whose name is taken by force or on the metadata alone, for want of a pid
\* on both sides.
HoldsAfter(h, pid, force) ==
    {x \in holds : x[2] # h \/ (~force /\ pid # NoPid /\ x[1] # NoPid)}
       \cup IF pid \in Pid \ running THEN {} ELSE {<<pid, h>>}

-----------------------------------------------------------------------------
(* Requests. *)

\* Mutants: the reserved name is accepted; the entry is built afresh; a pid is
\* taken as identity only when it matches.
Announce_Reserved(h, effort, model, pid, exclusive, force) ==
    /\ On(h) => ~exclusive /\ MayReannounce(roster[h], effort, model, pid)
    /\ LET new == [effort |-> effort, model |-> model, pid |-> pid, owner |-> NoOwner]
       IN roster' = [k \in DOMAIN roster \cup {h} |-> IF k = h THEN new ELSE roster[k]]
    /\ holds' = HoldsAfter(h, pid, force)
    /\ UNCHANGED <<running, won>>

Announce_DropsClaim(h, effort, model, pid, exclusive, force) ==
    /\ Accepts(h, effort, model, pid, exclusive, force)
    /\ LET new == [effort |-> effort,
                   model |-> IF model = NoModel /\ On(h) THEN roster[h].model ELSE model,
                   pid |-> pid, owner |-> NoOwner]
       IN roster' = [k \in DOMAIN roster \cup {h} |-> IF k = h THEN new ELSE roster[k]]
    /\ holds' = HoldsAfter(h, pid, force)
    /\ UNCHANGED <<running, won>>

Announce_MetadataOnly(h, effort, model, pid, exclusive, force) ==
    /\ h # Anon
    /\ On(h) => force \/ (~exclusive /\ roster[h].effort = effort)
    /\ LET new == [effort |-> effort,
                   model |-> IF model = NoModel /\ On(h) THEN roster[h].model ELSE model,
                   pid |-> pid,
                   owner |-> IF On(h) THEN roster[h].owner ELSE NoOwner]
       IN roster' = [k \in DOMAIN roster \cup {h} |-> IF k = h THEN new ELSE roster[k]]
    /\ holds' = HoldsAfter(h, pid, force)
    /\ UNCHANGED <<running, won>>

\* The claim always survives a re-announce, an omitted model is carried forward
\* and an omitted pid is not.
Announce(h, effort, model, pid, exclusive, force) ==
    /\ Accepts(h, effort, model, pid, exclusive, force)
    /\ LET new == [effort |-> effort,
                   model |-> IF model = NoModel /\ On(h) THEN roster[h].model ELSE model,
                   pid |-> pid,
                   owner |-> IF On(h) THEN roster[h].owner ELSE NoOwner]
       IN roster' = [k \in DOMAIN roster \cup {h} |-> IF k = h THEN new ELSE roster[k]]
    /\ holds' = HoldsAfter(h, pid, force)
    /\ UNCHANGED <<running, won>>

\* What the name claimed is released even when it is not on the roster itself.
Retire(h) == /\ roster' = Without({h})
             /\ holds' = {x \in holds : x[2] # h}
             /\ won' = StillWon({h})
             /\ UNCHANGED running

\* The owner need not be announced.
Claim(h, owner, force) ==
    /\ h # owner
    /\ On(h)
    /\ roster[h].owner \in {NoOwner, owner} \/ force
    /\ SetOwner(h, owner)
    /\ won' = {x \in won : x[2] # h \/ ~force} \cup {<<owner, h>>}
    /\ UNCHANGED <<running, holds>>

\* An omitted owner (NoOwner) releases whoever holds the worker.
Release(h, owner, force) ==
    /\ On(h)
    /\ roster[h].owner # NoOwner
    /\ owner \in {NoOwner, roster[h].owner} \/ force
    /\ SetOwner(h, NoOwner)
    /\ won' = {x \in won : x[2] # h}
    /\ UNCHANGED <<running, holds>>

Dead == {h \in DOMAIN roster : roster[h].pid # NoPid /\ ~ProcExists(roster[h].pid)}

\* Mutant: the claims of the dead stay.
RosterRead_KeepsClaims ==
    /\ roster' = [k \in DOMAIN roster \ Dead |-> roster[k]]
    /\ won' = StillWon(Dead)
    /\ UNCHANGED <<running, holds>>

\* The read that finds entries dead shows them once more and reaps them.
RosterRead == /\ roster' = Without(Dead)
              /\ won' = StillWon(Dead)
              /\ UNCHANGED <<running, holds>>

-----------------------------------------------------------------------------
(* Processes. *)

Exit(p) == /\ p \in running
           /\ running' = running \ {p}
           /\ holds' = {x \in holds : x[1] # p}
           /\ UNCHANGED <<roster, won>>

Reuse(p) == /\ PidReuse
            /\ p \notin running
            /\ running' = running \cup {p}
            /\ UNCHANGED <<roster, holds, won>>

-----------------------------------------------------------------------------

Next == \/ \E h \in Name, effort \in Effort, model \in Model \cup {NoModel},
              pid \in Pid \cup {NoPid}, exclusive, force \in BOOLEAN :
              Announce(h, effort, model, pid, exclusive, force)
        \/ \E h \in Name : Retire(h)
        \/ \E h, owner \in Name, force \in BOOLEAN : Claim(h, owner, force)
        \/ \E h \in Name, owner \in Owner, force \in BOOLEAN : Release(h, owner, force)
        \/ RosterRead
        \/ \E p \in Pid : Exit(p) \/ Reuse(p)

Spec == Init /\ [][Next]_vars

-----------------------------------------------------------------------------
(* Properties. *)

\* A dispatcher that was told ok for a claim, and has since neither released it
\* nor lost it to a force, an unsigned release, a retire or a reaping, is the
\* owner on the roster, and no other dispatcher was told the same.  No announce,
\* repeated or taking over a dead session's name, disturbs that.
OneWinner ==
    /\ \A x \in won : On(x[2])
    /\ \A h \in DOMAIN roster, o \in Name : <<o, h>> \in won <=> roster[h].owner = o

\* A sender is refused only while a claim it made itself still stands and the
\* worker it writes to was claimed by another: whoever never claimed, or let
\* everything go, reaches every worker; so do senders without a name, unless somebody
\* claimed in the name they are stamped with.
HatchOpen == \A s \in Name, h \in Handle :
    SendRefused(s, h) => /\ \E k \in Handle : <<s, k>> \in won
                         /\ \E o \in Name \ {s} : <<o, h>> \in won

\* A session that was told ok for a name stays the one on the roster under it until
\* it exits, is retired, or is replaced by force or by an announce without a pid: no
\* roster read reaps it, no newcomer takes the name whatever metadata it declares,
\* and no two sessions that name their processes were told ok for the same name.
OneHolder == \A x \in holds : On(x[2]) /\ roster[x[2]].pid = x[1]

\* Whoever is off the roster and holds a worker claimed it while off it: a name that
\* leaves, retired or reaped, takes every claim it made along, so that nobody who
\* announces the name afterwards finds himself the owner of a worker he never
\* claimed, and no worker is left refusing mail in the name of the departed.
LeaversHoldNothing ==
    [][\A d, h \in Handle :
          Holds(d, h)' /\ ~On(d)' =>
             \/ Holds(d, h) /\ ~On(d)
             \/ \E force \in BOOLEAN : Claim(h, d, force)]_vars

\* What USAGE.md:537 and ADR 0007 say of claims, and broker.py's reaping of dead
\* entries does not do: a claim on a worker ends only by a retire, a release or
\* another claim, whatever becomes of the process of the dispatcher that made it.
ClaimsSurviveOwner ==
    [][\A d, h \in Handle :
          Holds(d, h) /\ On(h)' /\ ~Holds(d, h)' =>
             \/ Retire(d)
             \/ \E owner \in Name, force \in BOOLEAN : Claim(h, owner, force)
             \/ \E owner \in Owner, force \in BOOLEAN : Release(h, owner, force)]_vars
=============================================================================
