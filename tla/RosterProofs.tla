---------------------------- MODULE RosterProofs ----------------------------
(* Proofs about Roster, for any sets of handles, pids, models and efforts.   *)
EXTENDS Roster, TLAPS

\* The names the requests range over.
LEMMA Names == Handle \subseteq Name /\ Anon \in Name /\ Name \subseteq Owner /\ NoOwner \in Owner
BY DEF Name, Owner

\* What removing handles leaves behind: the other entries, with the claims of the
\* removed ones cleared and every other field as it was.
LEMMA WithoutDomain == \A gone : DOMAIN Without(gone) = DOMAIN roster \ gone
BY DEF Without

\* What is left of the roster is entries.
LEMMA WithoutEntry ==
    TypeOK => \A gone : \A h \in DOMAIN roster \ gone : Without(gone)[h] \in Entry
BY DEF TypeOK, Without, Entry, Owner, Name

\* What is left is owned as before, unless its owner is gone.
LEMMA WithoutOwner ==
    TypeOK => \A gone : \A h \in DOMAIN roster \ gone :
                 Without(gone)[h].owner = IF roster[h].owner \in gone
                                          THEN NoOwner ELSE roster[h].owner
BY DEF TypeOK, Without, Entry

\* What is left keeps its pids.
LEMMA WithoutPid ==
    TypeOK => \A gone : \A h \in DOMAIN roster \ gone :
                 Without(gone)[h].pid = roster[h].pid
BY DEF TypeOK, Without, Entry

\* Announcing, retiring, claiming, releasing and reaping keep the roster well formed.
THEOREM TypeCorrect == Spec => []TypeOK
<1>1. Init => TypeOK
  BY DEF Init, TypeOK
<1>2. TypeOK /\ [Next]_vars => TypeOK'
  <2> SUFFICES ASSUME TypeOK, [Next]_vars PROVE TypeOK'
    OBVIOUS
  <2>1. ASSUME NEW h \in Name, NEW effort \in Effort, NEW model \in Model \cup {NoModel},
               NEW pid \in Pid \cup {NoPid}, NEW exclusive \in BOOLEAN, NEW force \in BOOLEAN,
               Announce(h, effort, model, pid, exclusive, force)
        PROVE  TypeOK'
    <3>1. /\ DOMAIN roster' \subseteq Handle
          /\ \A k \in DOMAIN roster' : roster'[k] \in Entry
          /\ UNCHANGED <<running, won>>
      BY <2>1 DEF Announce, Accepts, TypeOK, Entry, Name, Owner, On
    <3>2. h \in Handle
      BY <2>1 DEF Announce, Accepts, Name
    <3>3. holds' \subseteq (Pid \cup {NoPid}) \X Handle
      BY <2>1, <3>2 DEF Announce, HoldsAfter, TypeOK
    <3>4. QED
      BY <3>1, <3>3 DEF TypeOK
  <2>2. ASSUME NEW h \in Name, Retire(h) PROVE TypeOK'
    <3>1. DOMAIN roster' \subseteq Handle /\ \A k \in DOMAIN roster' : roster'[k] \in Entry
      BY <2>2, WithoutDomain, WithoutEntry DEF Retire, TypeOK
    <3>2. QED
      BY <2>2, <3>1, WithoutDomain DEF Retire, TypeOK, StillWon
  <2>3. ASSUME NEW h \in Name, NEW owner \in Name, NEW force \in BOOLEAN, Claim(h, owner, force)
        PROVE  TypeOK'
    BY <2>3, Names DEF Claim, SetOwner, TypeOK, Entry, On
  <2>4. ASSUME NEW h \in Name, NEW owner \in Owner, NEW force \in BOOLEAN,
               Release(h, owner, force)
        PROVE  TypeOK'
    BY <2>4, Names DEF Release, SetOwner, TypeOK, Entry, On
  <2>5. CASE RosterRead
    <3>1. DOMAIN roster' \subseteq Handle /\ \A k \in DOMAIN roster' : roster'[k] \in Entry
      BY <2>5, WithoutDomain, WithoutEntry DEF RosterRead, TypeOK
    <3>2. QED
      BY <2>5, <3>1, WithoutDomain DEF RosterRead, TypeOK, StillWon
  <2>6. ASSUME NEW p \in Pid, Exit(p) \/ Reuse(p) PROVE TypeOK'
    BY <2>6 DEF Exit, Reuse, TypeOK
  <2>7. CASE UNCHANGED vars
    BY <2>7 DEF vars, TypeOK
  <2>8. QED
    BY <2>1, <2>2, <2>3, <2>4, <2>5, <2>6, <2>7 DEF Next
<1>3. QED
  BY <1>1, <1>2, PTL DEF Spec

-----------------------------------------------------------------------------
\* A process that was told ok for a name still runs: exiting ends what it holds.
HoldersRun == \A x \in holds : x[1] \in running \cup {NoPid}

\* The inductive invariant of claims and names.
RInv == TypeOK /\ OneWinner /\ OneHolder /\ HoldersRun

\* Being told ok for a claim and owning the worker on the roster are the same thing
\* until the claim is undone, and whoever was told ok for a name is on the roster
\* under it until it gives it up, is forced off or exits.
LEMMA Inductive == Spec => []RInv
<1>1. Init => RInv
  BY DEF Init, RInv, TypeOK, OneWinner, OneHolder, HoldersRun, On
<1>2. RInv /\ TypeOK' /\ [Next]_vars => RInv'
  <2> SUFFICES ASSUME RInv, TypeOK', [Next]_vars
               PROVE  OneWinner' /\ OneHolder' /\ HoldersRun'
    BY DEF RInv
  <2> USE RosterAssumption DEF RInv
  <2>1. ASSUME NEW h \in Name, NEW effort \in Effort, NEW model \in Model \cup {NoModel},
               NEW pid \in Pid \cup {NoPid}, NEW exclusive \in BOOLEAN, NEW force \in BOOLEAN,
               Announce(h, effort, model, pid, exclusive, force)
        PROVE  OneWinner' /\ OneHolder' /\ HoldersRun'
    <3>1. /\ DOMAIN roster' = DOMAIN roster \cup {h}
          /\ \A k \in DOMAIN roster \ {h} : roster'[k] = roster[k]
          /\ roster'[h].owner = IF On(h) THEN roster[h].owner ELSE NoOwner
          /\ roster'[h].pid = pid
      BY <2>1 DEF Announce, Accepts
    <3>2. OneWinner'
      BY <2>1, <3>1 DEF Announce, Accepts, OneWinner, On, Name, TypeOK
    <3>3. OneHolder'
      <4> SUFFICES ASSUME NEW x \in holds' PROVE On(x[2])' /\ roster'[x[2]].pid = x[1]
        BY DEF OneHolder
      <4>1. CASE x = <<pid, h>>
        BY <3>1, <4>1 DEF On
      <4>2. CASE x \in holds /\ x[2] # h
        BY <3>1, <4>2 DEF OneHolder, On
      <4>3. CASE x \in holds /\ x[2] = h /\ ~force /\ pid # NoPid /\ x[1] # NoPid
        <5>1. h \in DOMAIN roster /\ roster[h].pid = x[1] /\ x[1] \in running
          BY <4>3 DEF OneHolder, HoldersRun, On
        <5>2. pid = x[1]
          BY <2>1, <4>3, <5>1 DEF Announce, Accepts, MayReannounce, ProcExists, On
        <5>3. QED
          BY <3>1, <4>3, <5>2 DEF On
      <4>4. QED
        BY <2>1, <4>1, <4>2, <4>3 DEF Announce, HoldsAfter
    <3>4. HoldersRun'
      <4>1. running' = running /\ holds' = HoldsAfter(h, pid, force)
        BY <2>1 DEF Announce
      <4>2. QED
        BY <4>1 DEF HoldersRun, HoldsAfter
    <3>5. QED
      BY <3>2, <3>3, <3>4
  <2>2. \A gone : roster' = Without(gone) /\ won' = StillWon(gone) => OneWinner'
    <3> TAKE gone
    <3> HAVE roster' = Without(gone) /\ won' = StillWon(gone)
    <3>1. DOMAIN roster' = DOMAIN roster \ gone
      BY WithoutDomain
    <3>2. QED
      BY <3>1, WithoutOwner DEF OneWinner, On, Name, StillWon, TypeOK
  <2>3. \A gone : /\ roster' = Without(gone)
                  /\ holds' \subseteq holds
                  /\ \A x \in holds' : x[2] \notin gone
                  => OneHolder'
    <3> TAKE gone
    <3> HAVE /\ roster' = Without(gone)
             /\ holds' \subseteq holds
             /\ \A x \in holds' : x[2] \notin gone
    <3>1. DOMAIN roster' = DOMAIN roster \ gone
      BY WithoutDomain
    <3>2. QED
      BY <3>1, WithoutPid DEF OneHolder, On
  <2>4. ASSUME NEW h \in Name, Retire(h) PROVE OneWinner' /\ OneHolder' /\ HoldersRun'
    BY <2>2, <2>3, <2>4 DEF Retire, HoldersRun
  <2>5. ASSUME NEW h \in Name, NEW owner \in Name, NEW force \in BOOLEAN, Claim(h, owner, force)
        PROVE  OneWinner' /\ OneHolder' /\ HoldersRun'
    <3>1. /\ DOMAIN roster' = DOMAIN roster
          /\ \A k \in DOMAIN roster : roster'[k].pid = roster[k].pid
          /\ \A k \in DOMAIN roster \ {h} : roster'[k] = roster[k]
          /\ h \in DOMAIN roster /\ roster'[h].owner = owner
      BY <2>5 DEF Claim, SetOwner, TypeOK, Entry, On
    <3>2. OneWinner'
      BY <2>5, <3>1 DEF Claim, OneWinner, On, Name, TypeOK
    <3>3. OneHolder' /\ HoldersRun'
      BY <2>5, <3>1 DEF Claim, OneHolder, HoldersRun, On
    <3>4. QED
      BY <3>2, <3>3
  <2>6. ASSUME NEW h \in Name, NEW owner \in Owner, NEW force \in BOOLEAN,
               Release(h, owner, force)
        PROVE  OneWinner' /\ OneHolder' /\ HoldersRun'
    <3>1. /\ DOMAIN roster' = DOMAIN roster
          /\ \A k \in DOMAIN roster : roster'[k].pid = roster[k].pid
          /\ \A k \in DOMAIN roster \ {h} : roster'[k] = roster[k]
          /\ h \in DOMAIN roster /\ roster'[h].owner = NoOwner
      BY <2>6 DEF Release, SetOwner, TypeOK, Entry, On
    <3>2. OneWinner'
      BY <2>6, <3>1 DEF Release, OneWinner, On, Name, TypeOK
    <3>3. OneHolder' /\ HoldersRun'
      BY <2>6, <3>1 DEF Release, OneHolder, HoldersRun, On
    <3>4. QED
      BY <3>2, <3>3
  <2>7. CASE RosterRead
    <3>1. \A x \in holds : x[2] \notin Dead
      BY DEF OneHolder, HoldersRun, Dead, ProcExists, On
    <3>2. OneHolder'
      BY <2>3, <2>7, <3>1 DEF RosterRead
    <3>3. OneWinner' /\ HoldersRun'
      BY <2>2, <2>7 DEF RosterRead, HoldersRun
    <3>4. QED
      BY <3>2, <3>3
  <2>8. ASSUME NEW p \in Pid, Exit(p) \/ Reuse(p) PROVE OneWinner' /\ OneHolder' /\ HoldersRun'
    BY <2>8 DEF Exit, Reuse, OneWinner, OneHolder, HoldersRun, On
  <2>9. CASE UNCHANGED vars
    BY <2>9 DEF vars, OneWinner, OneHolder, HoldersRun, On
  <2>10. QED
    BY <2>1, <2>4, <2>5, <2>6, <2>7, <2>8, <2>9 DEF Next
<1>3. QED
  BY <1>1, <1>2, TypeCorrect, PTL DEF Spec

\* Claims are exclusive and survive everything but what undoes them.
THEOREM ClaimsExclusive == Spec => []OneWinner
BY Inductive, PTL DEF RInv

\* No session that still holds its name is reaped or displaced unforced.
THEOREM NamesExclusive == Spec => []OneHolder
BY Inductive, PTL DEF RInv

\* send refuses no sender without a standing claim of its own.
THEOREM HatchStaysOpen == Spec => []HatchOpen
<1>1. RInv => HatchOpen
  BY RosterAssumption DEF RInv, TypeOK, OneWinner, HatchOpen, SendRefused, OwnsAny, Holds, On,
                          Entry, Owner, Name
<1>2. QED
  BY <1>1, Inductive, PTL

\* A name leaves the roster with everything it had claimed, and gets a claim while
\* it is off the roster only by claiming.
THEOREM LeaversTakeClaims == Spec => LeaversHoldNothing
<1>1. ASSUME TypeOK, [Next]_vars,
             NEW d \in Handle, NEW h \in Handle, Holds(d, h)', ~On(d)'
      PROVE  \/ Holds(d, h) /\ ~On(d)
             \/ \E force \in BOOLEAN : Claim(h, d, force)
  <2>1. On(h)' /\ roster'[h].owner = d /\ d # NoOwner
    BY <1>1, RosterAssumption DEF Holds
  <2>2. ASSUME NEW k \in Name, NEW effort \in Effort, NEW model \in Model \cup {NoModel},
               NEW pid \in Pid \cup {NoPid}, NEW exclusive \in BOOLEAN, NEW force \in BOOLEAN,
               Announce(k, effort, model, pid, exclusive, force)
        PROVE  Holds(d, h) /\ ~On(d)
    <3>1. /\ DOMAIN roster' = DOMAIN roster \cup {k}
          /\ \A j \in DOMAIN roster \ {k} : roster'[j] = roster[j]
          /\ roster'[k].owner = IF On(k) THEN roster[k].owner ELSE NoOwner
      BY <2>2 DEF Announce, Accepts
    <3>2. QED
      BY <1>1, <2>1, <3>1 DEF Holds, On
  <2>3. \A gone : roster' = Without(gone) => Holds(d, h) /\ ~On(d)
    <3> TAKE gone
    <3> HAVE roster' = Without(gone)
    <3>1. DOMAIN roster' = DOMAIN roster \ gone
      BY WithoutDomain
    <3>2. h \in DOMAIN roster \ gone /\ d \notin DOMAIN roster \ gone
      BY <1>1, <2>1, <3>1 DEF On
    <3>3. d \notin gone /\ roster[h].owner = d
      BY <1>1, <2>1, <3>2, WithoutOwner
    <3>4. QED
      BY <3>2, <3>3 DEF Holds, On
  <2>4. ASSUME NEW k \in Name, Retire(k) PROVE Holds(d, h) /\ ~On(d)
    BY <2>3, <2>4 DEF Retire
  <2>5. ASSUME NEW k \in Name, NEW owner \in Name, NEW force \in BOOLEAN, Claim(k, owner, force)
        PROVE  \/ Holds(d, h) /\ ~On(d)
               \/ \E f \in BOOLEAN : Claim(h, d, f)
    <3>1. /\ DOMAIN roster' = DOMAIN roster
          /\ \A j \in DOMAIN roster \ {k} : roster'[j] = roster[j]
          /\ roster'[k].owner = owner
      BY <1>1, <2>5 DEF Claim, SetOwner, TypeOK, Entry, On
    <3>2. CASE k = h
      BY <2>1, <2>5, <3>1, <3>2
    <3>3. CASE k # h
      BY <1>1, <2>1, <3>1, <3>3 DEF Holds, On
    <3>4. QED
      BY <3>2, <3>3
  <2>6. ASSUME NEW k \in Name, NEW owner \in Owner, NEW force \in BOOLEAN,
               Release(k, owner, force)
        PROVE  Holds(d, h) /\ ~On(d)
    <3>1. /\ DOMAIN roster' = DOMAIN roster
          /\ \A j \in DOMAIN roster \ {k} : roster'[j] = roster[j]
          /\ roster'[k].owner = NoOwner
      BY <1>1, <2>6 DEF Release, SetOwner, TypeOK, Entry, On
    <3>2. QED
      BY <1>1, <2>1, <3>1 DEF Holds, On
  <2>7. CASE RosterRead
    BY <2>3, <2>7 DEF RosterRead
  <2>8. ASSUME NEW p \in Pid, Exit(p) \/ Reuse(p) PROVE Holds(d, h) /\ ~On(d)
    BY <1>1, <2>8 DEF Exit, Reuse, Holds, On
  <2>9. CASE UNCHANGED vars
    BY <1>1, <2>9 DEF vars, Holds, On
  <2>10. QED
    BY <1>1, <2>2, <2>4, <2>5, <2>6, <2>7, <2>8, <2>9 DEF Next
<1>2. TypeOK /\ [Next]_vars
        => [\A d, h \in Handle :
              Holds(d, h)' /\ ~On(d)' =>
                 \/ Holds(d, h) /\ ~On(d)
                 \/ \E force \in BOOLEAN : Claim(h, d, force)]_vars
  BY <1>1
<1>3. QED
  BY <1>2, TypeCorrect, PTL DEF Spec, LeaversHoldNothing
=============================================================================
