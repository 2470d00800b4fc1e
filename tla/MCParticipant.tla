---------------------------- MODULE MCParticipant ---------------------------
EXTENDS Participant, TLC
CONSTANTS aKimi, bKimi, kimiMax, bang,    \* a/kimi, b/kimi, kimi-max, !!!
          max, claude, maxLauncher,       \* efforts and launchers
          s1, s3, s4, kimi, g1, g2, t1, t2

Models    == {aKimi, bKimi, kimiMax, bang}
Efforts   == {max, NoEffort}
Launchers == {claude, maxLauncher}
Shorts    == {s1, s3, s4}
Words     == {kimi, max, claude}

\* The provider is dropped: a/kimi and b/kimi are both kimi.
ShortOf == [m \in Models |-> CASE m \in {aKimi, bKimi} -> s1
                               [] m = kimiMax -> s3 [] m = bang -> s4]

\* A launcher may be called what an effort is called.
WordsOf == [x \in Shorts \cup Efforts \cup Launchers |->
              CASE x = s1 -> <<kimi>> [] x = s3 -> <<kimi, max>> [] x = s4 -> <<>>
                [] x = NoEffort -> <<>> [] x \in {max, maxLauncher} -> <<max>>
                [] x = claude -> <<claude>>]

E(l, m, e) == [launcher |-> l, model |-> m, effort |-> e, flawed |-> FALSE]

Entries == {E(claude, aKimi, NoEffort), E(maxLauncher, aKimi, NoEffort),
            E(claude, bKimi, NoEffort), E(claude, aKimi, max),
            E(claude, kimiMax, NoEffort)}
Refusals == {E(claude, bang, max), [E(claude, aKimi, max) EXCEPT !.flawed = TRUE]}

\* Every file of up to two good entries, some of three, and files that do not load.
Versions == {Missing, <<>>} \cup {<<e>> : e \in Entries \cup Refusals}
              \cup (Entries \X Entries)
              \cup {<<E(claude, aKimi, NoEffort), E(maxLauncher, aKimi, NoEffort), e>> :
                      e \in Entries}

Downgraded == {[model |-> bKimi, effort |-> NoEffort]}
Other_s_log == <<[kind |-> "user", text |-> g2],
                 [kind |-> "assistant", model |-> kimiMax, effort |-> max, calls |-> {}]>>
Goals == {g1, g2}
Tasks == {t1, t2}
Texts == Goals \cup Tasks \cup {Machinery, Failure, Output}
Simplest == {<<E(claude, aKimi, NoEffort)>>}
Room == [n \in 0..MaxEvent |-> CASE n = 0 -> 5 [] n = 1 -> 3 [] OTHER -> 2]
=============================================================================
