-------------------------- MODULE ParticipantProofs -------------------------
(***************************************************************************)
(* Of manifests of any length, and of sessions that work for any time.     *)
(***************************************************************************)
EXTENDS Participant, TranscriptProofs

-----------------------------------------------------------------------------
(* Ids and labels. *)

\* ids derives from each entry an id of its own fields.
LEMMA IdsOf == ASSUME NEW f \in Seq(Entry), NEW i \in DOMAIN f
               PROVE  /\ f[i] \in Entry
                      /\ Ids(f)[i] = EntryId(f[i], Namesakes(f, i) # {})
<1>1. f[i] \in Entry OBVIOUS
<1>2. Ids(f)[i] = EntryId(f[i], Namesakes(f, i) # {}) BY DEF Ids
<1> QED BY <1>1, <1>2

\* labels derives from each entry a label of its own fields.
LEMMA LabelsOf == ASSUME NEW f \in Seq(Entry), NEW i \in DOMAIN f
                  PROVE  Labels(f)[i] = Display(f[i], Lookalikes(f, i) # {})
BY DEF Labels

\* An id is a sequence of words.
LEMMA EntryIdType == ASSUME NEW e \in Entry, NEW w \in BOOLEAN
                     PROVE  EntryId(e, w) \in Seq(Word)
<1>1. /\ wordsOf[shortOf[e.model]] \in Seq(Word)
      /\ wordsOf[e.effort] \in Seq(Word)
      /\ wordsOf[e.launcher] \in Seq(Word)
  BY ManifestAssumption DEF Entry
<1>2. wordsOf[shortOf[e.model]] \o wordsOf[e.effort] \in Seq(Word)
  BY <1>1
<1> QED BY <1>1, <1>2 DEF EntryId

\* In a file whose ids are distinct, find inverts ids.
LEMMA FindInverts == ASSUME NEW f \in Seq(Entry), Valid(f), NEW i \in DOMAIN f
                     PROVE  Find(f, Ids(f)[i]) = f[i]
<1> DEFINE hits == {k \in DOMAIN f : Ids(f)[k] = Ids(f)[i]}
<1>1. hits = {i} BY DEF Valid
<1>2. i \in Nat OBVIOUS
<1>3. (CHOOSE k \in hits : \A j \in hits : k <= j) = i BY <1>1, <1>2
<1> QED BY <1>1, <1>3 DEF Find

\* What find returns from such a file is an entry of that id.
LEMMA FindFinds == ASSUME NEW f \in Seq(Entry), Valid(f), NEW id, Find(f, id) # NoEntry
                   PROVE  \E i \in DOMAIN f : Ids(f)[i] = id /\ Find(f, id) = f[i]
<1>1. PICK i \in DOMAIN f : Ids(f)[i] = id BY DEF Find
<1> QED BY <1>1, FindInverts

\* Entries that share an effort and a displayed model share their base id, so in a file
\* that loads they differ in their launcher.
LEMMA LookalikesDiffer ==
    ASSUME NEW f \in Seq(Entry), Valid(f), NEW i \in DOMAIN f, NEW j \in DOMAIN f, i # j,
           shortOf[f[i].model] = shortOf[f[j].model], f[i].effort = f[j].effort
    PROVE  f[i].launcher # f[j].launcher
<1>1. EntryId(f[i], FALSE) = EntryId(f[j], FALSE) BY DEF EntryId
<1>2. Namesakes(f, i) # {} /\ Namesakes(f, j) # {} BY <1>1 DEF Namesakes
<1>3. Ids(f)[i] = EntryId(f[i], TRUE) /\ Ids(f)[j] = EntryId(f[j], TRUE)
  <2>1. (Namesakes(f, i) # {}) = TRUE /\ (Namesakes(f, j) # {}) = TRUE BY <1>2
  <2> QED BY <2>1, IdsOf
<1>4. Ids(f)[i] # Ids(f)[j] BY DEF Valid
<1> QED BY <1>3, <1>4 DEF EntryId

\* In a file that loads, labels are as distinct as ids.
LEMMA LabelsDiffer == ASSUME NEW f \in Seq(Entry), Valid(f),
                             NEW i \in DOMAIN f, NEW j \in DOMAIN f, i # j
                      PROVE  Labels(f)[i] # Labels(f)[j]
<1> SUFFICES ASSUME Labels(f)[i] = Labels(f)[j] PROVE FALSE OBVIOUS
<1>1. Display(f[i], Lookalikes(f, i) # {}) = Display(f[j], Lookalikes(f, j) # {})
  BY LabelsOf
<1>2. shortOf[f[i].model] = shortOf[f[j].model] /\ f[i].effort = f[j].effort
  BY <1>1 DEF Display
<1>3. Display(f[i], FALSE) = Display(f[j], FALSE) BY <1>2 DEF Display
<1>4. Lookalikes(f, i) # {} /\ Lookalikes(f, j) # {} BY <1>3 DEF Lookalikes
<1>5. f[i].launcher = f[j].launcher BY <1>1, <1>4 DEF Display
<1> QED BY <1>2, <1>5, LookalikesDiffer

\* In a file that loads an entry carries its launcher exactly when another entry has
\* its base id, wherever the two stand.
LEMMA NamesakesAreOthers ==
    ASSUME NEW f \in Seq(Entry), Valid(f), NEW i \in DOMAIN f
    PROVE  (Namesakes(f, i) # {}) <=> \E x \in NamesakesOf(f, f[i]) : x # f[i]
<1>1. ASSUME NEW j \in Namesakes(f, i) PROVE \E x \in NamesakesOf(f, f[i]) : x # f[i]
  <2>1. j \in DOMAIN f /\ j # i /\ EntryId(f[j], FALSE) = EntryId(f[i], FALSE)
    BY DEF Namesakes
  <2>2. i \in Namesakes(f, j) BY <2>1 DEF Namesakes
  <2>3. f[j] # f[i]
    <3>1. EntryId(f[i], TRUE) # EntryId(f[j], TRUE) BY <2>1, <2>2, IdsOf DEF Valid
    <3> QED BY <3>1
  <2>4. f[j] \in NamesakesOf(f, f[i]) BY <2>1 DEF NamesakesOf
  <2> QED BY <2>3, <2>4
<1>2. ASSUME NEW x \in NamesakesOf(f, f[i]), x # f[i] PROVE Namesakes(f, i) # {}
  <2>1. PICK j \in DOMAIN f : f[j] = x /\ EntryId(f[j], FALSE) = EntryId(f[i], FALSE)
    BY <1>2 DEF NamesakesOf
  <2>2. j # i BY <2>1, <1>2
  <2> QED BY <2>1, <2>2 DEF Namesakes
<1> QED BY <1>1, <1>2

-----------------------------------------------------------------------------
(* What the session is registered as. *)

\* The part of the state that the ids of a session pass through is of its type.
Kept == /\ file \in Seq(Entry) \cup {Missing}
        /\ row.there => pc = "session"

IInv == Kept /\ AnswersToItsMapping

\* What find returns of a file that loads goes by the id it was asked for.
LEMMA FoundGoesBy ==
    ASSUME NEW f \in Seq(Entry), Valid(f), NEW id, Find(f, id) # NoEntry
    PROVE  LET e == Find(f, id) IN
           e \in Entry /\ GoesBy(id, e.model, e.effort, e.launcher)
<1>1. PICK i \in DOMAIN f : Ids(f)[i] = id /\ Find(f, id) = f[i] BY FindFinds
<1> DEFINE w == Namesakes(f, i) # {}
<1>2. f[i] \in Entry /\ id = EntryId(f[i], w) BY <1>1, IdsOf
<1>3. EntryId(f[i], w) = EntryId([model |-> f[i].model, effort |-> f[i].effort,
                                  launcher |-> f[i].launcher], w)
  BY DEF EntryId
<1> QED BY <1>1, <1>2, <1>3 DEF GoesBy

\* IInv holds before anything was picked.
LEMMA IInvInit == Init => IInv
BY ParticipantAssumption DEF Init, IInv, Kept, AnswersToItsMapping, NoRow

\* Every step keeps IInv.
LEMMA IInvStep == IInv /\ [Next]_vars => IInv'
<1> SUFFICES ASSUME IInv, [Next]_vars PROVE IInv' OBVIOUS
<1> USE DEF IInv
<1>0. file # Missing => file \in Seq(Entry) BY DEF Kept
<1>1. CASE \E f \in Version : Render(f)
  BY <1>1, ParticipantAssumption
  DEF Render, launchVars, rosterVars, Kept, AnswersToItsMapping, GoesBy
<1>2. CASE Pick
  BY <1>2 DEF Pick, manifestVars, rosterVars, Kept, AnswersToItsMapping
<1>3. CASE Launch
  <2> DEFINE e == Find(file, ident)
  <2>1. Loads(file) /\ e # NoEntry /\ entry' = e /\ pc' = "session"
        /\ ident' = ident /\ file' = file /\ pc = "picked"
    BY <1>3 DEF Launch, manifestVars
  <2>2. e \in Entry /\ GoesBy(ident, e.model, e.effort, e.launcher)
    BY <2>1, <1>0, FoundGoesBy DEF Loads
  <2>3. \/ ~row'.there
        \/ row'.model = e.model /\ row'.effort = e.effort
    BY <1>3, <2>1 DEF Launch, Reservation, Kept
  <2>4. e.launcher \in Launcher BY <2>2 DEF Entry
  <2> QED BY <2>1, <2>2, <2>3, <2>4 DEF Kept, AnswersToItsMapping, GoesBy
<1>4. CASE LaunchFails
  BY <1>4 DEF LaunchFails, manifestVars, rosterVars, Kept, AnswersToItsMapping
<1>5. CASE Announce
  <2> DEFINE e == Find(file, ident)
  <2>1. /\ Loads(file) /\ e # NoEntry /\ pc = "session"
        /\ row'.model = e.model /\ row'.effort = e.effort
        /\ UNCHANGED <<pc, ident, entry, file>>
    BY <1>5 DEF Announce, manifestVars, launchVars
  <2>2. e \in Entry /\ GoesBy(ident, e.model, e.effort, e.launcher)
    BY <2>1, <1>0, FoundGoesBy DEF Loads
  <2>3. e.launcher \in Launcher BY <2>2 DEF Entry
  <2> QED BY <2>1, <2>2, <2>3 DEF Kept, AnswersToItsMapping, GoesBy
<1>6. CASE OtherExits
  BY <1>6 DEF OtherExits, launchVars, Kept, AnswersToItsMapping, GoesBy
<1>7. CASE RowIsLost
  BY <1>7 DEF RowIsLost, NoRow, launchVars, Kept, AnswersToItsMapping, GoesBy
<1>8. CASE OtherWrites
  BY <1>8 DEF OtherWrites, launchVars, rosterVars, Kept, AnswersToItsMapping, GoesBy
<1>9. CASE Working
  <2>1. UNCHANGED <<manifestVars, launchVars, rosterVars>>
    BY <1>9 DEF Working, Prompt, Reply, Return, Subagent, Noise, Writes
  <2> QED BY <2>1
      DEF manifestVars, launchVars, rosterVars, Kept, AnswersToItsMapping, GoesBy
<1>10. CASE UNCHANGED vars
  BY <1>10 DEF vars, manifestVars, launchVars, rosterVars, Kept, AnswersToItsMapping,
               GoesBy
<1> QED BY <1>1, <1>2, <1>3, <1>4, <1>5, <1>6, <1>7, <1>8, <1>9, <1>10 DEF Next

-----------------------------------------------------------------------------

\* However often the manifest is rendered, what a session runs and what it is
\* registered as go by the id it was handed.
THEOREM SessionAnswersToItsMapping == Spec => []AnswersToItsMapping
<1>1. IInv => AnswersToItsMapping BY DEF IInv
<1> QED BY <1>1, IInvInit, IInvStep, PTL DEF Spec

\* In a manifest of any length that loads, ids and labels are distinct and find
\* inverts ids.
THEOREM IdsIdentify == Spec => []PicksIdentify
<1>1. IInv => PicksIdentify
  <2> SUFFICES ASSUME IInv, Loads(file), NEW i \in DOMAIN file
               PROVE  /\ Find(file, Ids(file)[i]) = file[i]
                      /\ \A j \in DOMAIN file \ {i} : Labels(file)[i] # Labels(file)[j]
    BY DEF PicksIdentify
  <2>1. file \in Seq(Entry) /\ Valid(file) BY DEF IInv, Kept, Loads
  <2> QED BY <2>1, FindInverts, LabelsDiffer
<1> QED BY <1>1, IInvInit, IInvStep, PTL DEF Spec

\* Between two manifests of any length, only an entry of its own base id can rename
\* an entry.
THEOREM OnlyNamesakesRename == Spec => RenamedOnlyByNamesake
<1> DEFINE Renames == (Loads(file) /\ Loads(file'))
                        => \A i \in DOMAIN file : \A j \in DOMAIN file' :
                             (file[i] = file'[j]
                                /\ NamesakesOf(file, file[i]) = NamesakesOf(file', file[i]))
                                => Ids(file)[i] = Ids(file')[j]
<1>1. IInv /\ IInv' => Renames
  <2> SUFFICES ASSUME IInv, IInv', Loads(file), Loads(file'),
                      NEW i \in DOMAIN file, NEW j \in DOMAIN file',
                      file[i] = file'[j],
                      NamesakesOf(file, file[i]) = NamesakesOf(file', file[i])
               PROVE  Ids(file)[i] = Ids(file')[j]
    OBVIOUS
  <2>1. file \in Seq(Entry) /\ Valid(file) BY DEF IInv, Kept, Loads
  <2>2. file' \in Seq(Entry) /\ Valid(file') BY DEF IInv, Kept, Loads
  <2>3. (Namesakes(file, i) # {}) <=> (Namesakes(file', j) # {})
    BY <2>1, <2>2, NamesakesAreOthers
  <2> QED BY <2>1, <2>2, <2>3, IdsOf
<1>2. IInv /\ IInv' => [Renames]_vars BY <1>1
<1> QED BY <1>2, IInvInit, IInvStep, PTL DEF Spec, RenamedOnlyByNamesake

-----------------------------------------------------------------------------
(* Types, and whose transcript is shown. *)

\* What find returns of a file that loads is one of its entries.
LEMMA FoundType == ASSUME TypeOK, Loads(file), NEW id, Find(file, id) # NoEntry
                   PROVE  Find(file, id) \in Entry
BY FoundGoesBy DEF TypeOK, Loads

\* The initial state is of its types.
LEMMA TypeInit == Init => TypeOK
<1> SUFFICES ASSUME Init PROVE TypeOK OBVIOUS
<1>1. NoRow \in Row BY ManifestAssumption DEF NoRow, NoPid, Row
<1>2. file \in Seq(Entry) \cup {Missing} /\ events \in 0..MaxEvent
  BY ParticipantAssumption DEF Init
<1>3. log \in Seq(Record) /\ ident \in Seq(Word) BY DEF Init
<1> QED BY <1>1, <1>2, <1>3 DEF Init, TypeOK

\* What serves a reply has a model and an effort; the calls of a reply are new ones.
LEMMA ServedBy == ASSUME TypeOK, pc = "session", NEW by \in Service \cup {AsLaunched}
                  PROVE  by.model \in Model /\ by.effort \in Effort
<1>1. entry \in Entry BY DEF TypeOK
<1> QED BY <1>1, ParticipantAssumption DEF AsLaunched, Entry

\* The calls that a model may make are calls.
LEMMA CallsAreTyped == ASSUME TypeOK, NEW calls \in Calls PROVE calls \in SUBSET Call
<1> DEFINE recv == [id |-> 2 * Len(log), recv |-> TRUE]
           tool == [id |-> 2 * Len(log) + 1, recv |-> FALSE]
<1>1. Len(log) \in Nat BY DEF TypeOK
<1>2. 2 * Len(log) \in Nat /\ 2 * Len(log) + 1 \in Nat BY <1>1
<1>3. recv \in Call /\ tool \in Call BY <1>2 DEF Call
<1>4. calls \in {{}, {recv}, {tool}, {recv, tool}} BY DEF Calls
<1> HIDE DEF recv, tool
<1> QED BY <1>3, <1>4

\* Every step keeps the types.
LEMMA TypeStep == TypeOK /\ [Next]_vars => TypeOK'
<1> SUFFICES ASSUME TypeOK, [Next]_vars PROVE TypeOK' OBVIOUS
<1>e. ASSUME Event PROVE events' \in 0..MaxEvent
  BY <1>e, ParticipantAssumption DEF TypeOK, Event
<1>1. CASE \E f \in Version : Render(f)
  BY <1>1, <1>e, ParticipantAssumption DEF Render, launchVars, rosterVars, workVars, TypeOK
<1>2. CASE Pick
  <2>1. PICK i \in DOMAIN file : ident' = Ids(file)[i] /\ Loads(file) BY <1>2 DEF Pick
  <2>2. file \in Seq(Entry) BY <2>1 DEF TypeOK, Loads
  <2>3. (Namesakes(file, i) # {}) \in BOOLEAN OBVIOUS
  <2>4. ident' \in Seq(Word) BY <2>1, <2>2, <2>3, IdsOf, EntryIdType
  <2> QED BY <1>2, <2>4 DEF Pick, manifestVars, rosterVars, workVars, TypeOK
<1>3. CASE Launch
  <2> DEFINE e == Find(file, ident)
  <2>1. Loads(file) /\ e # NoEntry /\ entry' = e /\ pc' = "session"
    BY <1>3 DEF Launch
  <2>2. e \in Entry BY <2>1, FoundType
  <2>3. row' \in Row
    <3>1. CASE row' = Reservation(e, Other)
      BY <2>2, <3>1 DEF Reservation, Row, Entry
    <3>2. CASE row' = Reservation(e, NoSession)
      BY <2>2, <3>2 DEF Reservation, Row, Entry, NoPid
    <3>3. CASE row' = row BY <3>3 DEF TypeOK
    <3> QED BY <1>3, <2>1, <3>1, <3>2, <3>3 DEF Launch
  <2> QED BY <1>3, <2>1, <2>2, <2>3 DEF Launch, manifestVars, workVars, TypeOK
<1>4. CASE LaunchFails
  BY <1>4 DEF LaunchFails, manifestVars, rosterVars, workVars, TypeOK
<1>5. CASE Announce
  <2> DEFINE e == Find(file, ident)
  <2>1. Loads(file) /\ e # NoEntry
        /\ row' = [model |-> e.model, effort |-> e.effort, session |-> Self,
                   pid |-> Self, there |-> TRUE]
    BY <1>5 DEF Announce
  <2>2. e \in Entry BY <2>1, FoundType
  <2>3. row' \in Row BY <2>1, <2>2 DEF Row, Entry
  <2> QED BY <1>5, <2>3 DEF Announce, manifestVars, launchVars, workVars, TypeOK
<1>6. CASE OtherExits
  BY <1>6, <1>e DEF OtherExits, launchVars, workVars, TypeOK
<1>7. CASE RowIsLost
  <2>1. NoRow \in Row BY ManifestAssumption DEF NoRow, NoPid, Row
  <2> QED BY <1>7, <1>e, <2>1 DEF RowIsLost, launchVars, workVars, TypeOK
<1>8. CASE OtherWrites
  BY <1>8, <1>e DEF OtherWrites, launchVars, rosterVars, TypeOK
<1>9. CASE Working
  <2>0. ASSUME NEW rec \in Record, Writes(rec),
               turn' \in {"human", "model", "tools"}, open' \subseteq Call,
               (turn' = "tools") = (open' # {})
        PROVE  TypeOK'
    BY <2>0 DEF Writes, manifestVars, launchVars, rosterVars, TypeOK
  <2>1. ASSUME NEW text \in Goal \cup {Machinery}, Prompt(text) PROVE TypeOK'
    <3>1. text \in Text BY TranscriptAssumption, ParticipantAssumption
    <3>2. [kind |-> "user", text |-> text] \in Record BY <3>1 DEF Record
    <3> QED BY <2>1, <3>2, <2>0 DEF Prompt, TypeOK
  <2>2. pc = "session" BY <1>9 DEF Working
  <2>3. ASSUME NEW by \in Service \cup {AsLaunched}, Subagent(by) PROVE TypeOK'
    <3>1. [kind |-> "sidechain", model |-> by.model, effort |-> by.effort] \in Record
      BY <2>2, ServedBy DEF Record
    <3> QED BY <2>3, <3>1, <2>0 DEF Subagent, TypeOK
  <2>4. ASSUME NEW by \in Service \cup {AsLaunched}, NEW calls \in Calls, Reply(by, calls)
        PROVE  TypeOK'
    <3>1. calls \in SUBSET Call BY CallsAreTyped
    <3>2. [kind |-> "assistant", model |-> by.model, effort |-> by.effort,
           calls |-> calls] \in Record
      BY <2>2, <3>1, ServedBy DEF Record
    <3> QED BY <2>4, <3>1, <3>2, <2>0 DEF Reply, TypeOK
  <2>5. ASSUME NEW c \in open, NEW text \in Text, NEW error \in BOOLEAN,
               Return(c, text, error)
        PROVE  TypeOK'
    <3>1. c.id \in Nat BY DEF TypeOK, Call
    <3>2. [kind |-> "result", id |-> c.id, text |-> text, error |-> error] \in Record
      BY <3>1 DEF Record
    <3> QED BY <2>5, <3>2, <2>0 DEF Return, TypeOK
  <2>6. ASSUME NEW c \in open, NEW text \in Printed(c) PROVE text \in Text
    BY TranscriptAssumption, ParticipantAssumption DEF Printed
  <2>7. Output \in Text BY ParticipantAssumption
  <2>8. CASE Noise
    <3>1. [kind |-> "noise"] \in Record BY DEF Record
    <3> QED BY <2>8, <3>1, <2>0 DEF Noise, TypeOK
  <2> QED BY <1>9, <2>1, <2>3, <2>4, <2>5, <2>6, <2>7, <2>8 DEF Working
<1>10. CASE UNCHANGED vars
  BY <1>10 DEF vars, manifestVars, launchVars, rosterVars, workVars, TypeOK
<1> QED BY <1>1, <1>2, <1>3, <1>4, <1>5, <1>6, <1>7, <1>8, <1>9, <1>10 DEF Next

\* Every state a session can reach is of its type.
THEOREM TypeCorrect == Spec => []TypeOK
BY TypeInit, TypeStep, PTL DEF Spec

\* A row's session and pid are those of one process.
OneProcess == row \in Row /\ row.session = row.pid

\* Every step keeps session and pid of one process.
LEMMA OneProcessStep == OneProcess /\ TypeOK' /\ [Next]_vars => OneProcess'
<1> SUFFICES ASSUME OneProcess, TypeOK', [Next]_vars PROVE OneProcess' OBVIOUS
<1>1. row' \in Row BY DEF TypeOK
<1>2. CASE Launch
  BY <1>1, <1>2 DEF Launch, Reservation, OneProcess
<1>3. CASE Announce
  BY <1>1, <1>3 DEF Announce, OneProcess
<1>4. CASE RowIsLost
  BY <1>1, <1>4 DEF RowIsLost, NoRow, NoPid, OneProcess
<1>5. CASE Working
  <2>1. UNCHANGED rosterVars
    BY <1>5 DEF Working, Prompt, Reply, Return, Subagent, Noise, Writes
  <2> QED BY <2>1 DEF rosterVars, OneProcess
<1>6. CASE \/ \E f \in Version : Render(f)
           \/ Pick \/ LaunchFails \/ OtherExits \/ OtherWrites
  BY <1>6 DEF Render, Pick, LaunchFails, OtherExits, OtherWrites, rosterVars, OneProcess
<1>7. CASE UNCHANGED vars BY <1>7 DEF vars, rosterVars, OneProcess
<1> QED BY <1>2, <1>3, <1>4, <1>5, <1>6, <1>7 DEF Next

\* The dashboard takes a transcript for a session's own, and not for a guess, only
\* where the row carries the pid of the session that writes it.
THEOREM TranscriptKnown == Spec => []TranscriptIsKnown
<1>1. Init => OneProcess
  BY ManifestAssumption DEF Init, OneProcess, NoRow, NoPid, Row
<1>2. OneProcess => TranscriptIsKnown
  <2> SUFFICES ASSUME OneProcess, Shown("worker", Self).transcript.resolvedBy = "session-id"
               PROVE  Shown("worker", Self).transcript.session = row.pid
    BY DEF TranscriptIsKnown
  <2>1. Shown("worker", Self).transcript = Locate(row, Logs, newest) BY DEF Shown, Build
  <2>2. row.session \in {Self, Other, NoSession} BY DEF OneProcess, Row
  <2>3. row.session # NoSession /\ Logs[row.session] # <<>>
    <3>1. CASE row.session = NoSession BY <2>1, <3>1 DEF Locate, Nothing
    <3>2. CASE row.session # NoSession /\ Logs[row.session] = <<>>
      BY <2>1, <3>2 DEF Locate, Nothing
    <3> QED BY <3>1, <3>2
  <2>4. Locate(row, Logs, newest).session = row.session BY <2>3 DEF Locate
  <2> QED BY <2>1, <2>4 DEF OneProcess
<1> QED BY <1>1, <1>2, OneProcessStep, TypeInit, TypeStep, PTL DEF Spec

-----------------------------------------------------------------------------
(* The session, and what the dashboard makes of its transcript. *)

History == [goal : Text \cup {NoText}, task : Text \cup {NoText},
            asked : {"nothing", "prompt", "command"},
            billed : [Model -> Nat], asLaunched : BOOLEAN]

\* What a log says agrees with what was done.
Agrees == /\ After(log).pending = open
          /\ After(log).goal = told.goal /\ After(log).task = told.task
          /\ After(log).billed = told.billed

\* Whose turn a log shows it to be.
TurnIsKnown == /\ After(log).lastRole = "user" => told.asked # "nothing"
               /\ told.asked = "prompt" => turn = "model" /\ After(log).lastRole = "user"

Served == \E m \in Model : told.billed[m] > 0

\* A reply served as launched names what was launched, and replaces nothing by less.
AsLaunchedIsSeen ==
    told.asLaunched => \/ Served /\ After(log).model = entry.model
                                 /\ After(log).effort = entry.effort
                       \/ ~Served /\ After(log).effort = NoEffort

CallsDiffer == \A c, d \in open : c.id = d.id => c = d

Understood == /\ told \in History /\ After(log) \in Locals
              /\ Agrees /\ TurnIsKnown /\ AsLaunchedIsSeen /\ CallsDiffer

\* Nothing is written before there is a session; a row of the session's own came from
\* an entry.
Quiet == pc # "session" => log = <<>>
RowIsOfEntry == row.session = Self => row.model \in Model

\* Where every count is zero nothing was served.
LEMMA NothingServed == ASSUME NEW m \in Model PROVE ~([x \in Model |-> 0][m] > 0)
OBVIOUS

\* Of an empty log there is nothing to misunderstand.
LEMMA UnderstoodInit == Init => Understood
<1> SUFFICES ASSUME Init PROVE Understood OBVIOUS
<1>1. After(log) = Start BY AfterEmpty DEF Init
<1>2. told \in History BY DEF Init, History
<1>3. ~Served BY NothingServed DEF Init, Served
<1>4. /\ Start.pending = {} /\ Start.lastRole = "none" /\ Start.effort = NoEffort
      /\ Start.billed = [m \in Model |-> 0] /\ Start.goal = NoText /\ Start.task = NoText
  BY DEF Start
<1>5. /\ told.goal = NoText /\ told.task = NoText /\ told.asked = "nothing"
      /\ told.billed = [m \in Model |-> 0] /\ open = {}
  BY DEF Init
<1>6. Agrees BY <1>1, <1>4, <1>5 DEF Agrees
<1>7. TurnIsKnown BY <1>1, <1>4, <1>5 DEF TurnIsKnown
<1>8. AsLaunchedIsSeen BY <1>1, <1>3, <1>4 DEF AsLaunchedIsSeen
<1>9. CallsDiffer BY <1>5 DEF CallsDiffer
<1> QED BY <1>1, <1>2, <1>6, <1>7, <1>8, <1>9, StartIsTyped DEF Understood

\* A prompt starts a turn in the log and in the session.
LEMMA UnderstoodPrompt ==
    ASSUME TypeOK, Understood, NEW text \in Goal \cup {Machinery}, Prompt(text), UNCHANGED entry
    PROVE  Understood'
<1> DEFINE rec == [kind |-> "user", text |-> text]
<1>1. text \in Text /\ rec \in Record
  BY TranscriptAssumption, ParticipantAssumption DEF Record
<1>2. After(log') = Step(After(log), rec)
  BY <1>1, AfterAppend DEF Prompt, Writes, TypeOK
<1>3. open = {} /\ open' = {} BY DEF Prompt, TypeOK
<1>4. /\ told' \in History /\ told'.task = told.task /\ told'.billed = told.billed
      /\ told'.asLaunched = told.asLaunched
      /\ told'.goal = IF told.goal = NoText /\ text # Machinery THEN text ELSE told.goal
      /\ told'.asked = IF text = Machinery THEN "command" ELSE "prompt"
  BY <1>1 DEF Prompt, Understood, History
<1>5. Served' = Served BY <1>4 DEF Served
<1>6. turn' = IF text = Machinery THEN turn ELSE "model" BY DEF Prompt
<1> DEFINE s == After(log)
           t == After(log')
<1>7. /\ t \in Locals /\ t.lastRole = "user" /\ t.pending = s.pending /\ t.task = s.task
      /\ t.model = s.model /\ t.effort = s.effort /\ t.billed = s.billed
      /\ t.goal = IF s.goal = NoText /\ text # Machinery THEN text ELSE s.goal
  BY <1>1, <1>2, StepOfUser DEF Understood
<1>8. Agrees' BY <1>3, <1>4, <1>7 DEF Understood, Agrees
<1>9. TurnIsKnown' BY <1>4, <1>6, <1>7 DEF TurnIsKnown
<1>10. AsLaunchedIsSeen' BY <1>4, <1>5, <1>7 DEF Understood, AsLaunchedIsSeen
<1>11. CallsDiffer' BY <1>3 DEF CallsDiffer
<1> QED BY <1>4, <1>7, <1>8, <1>9, <1>10, <1>11 DEF Understood

\* One more reply, of a subagent too, is counted in what was served, and is seen.
LEMMA CountedIs ==
    ASSUME told \in History, NEW by, by.model \in Model
    PROVE  LET c == Counted(told, by)
           IN /\ c \in History
              /\ c.goal = told.goal /\ c.task = told.task /\ c.asked = told.asked
              /\ c.billed = [told.billed EXCEPT ![by.model] = @ + 1]
              /\ c.billed[by.model] > 0
              /\ c.asLaunched => told.asLaunched /\ by = AsLaunched
<1>1. told.billed \in [Model -> Nat] BY DEF History
<1> DEFINE b == [told.billed EXCEPT ![by.model] = @ + 1]
           a == told.asLaunched /\ by = AsLaunched
<1>2. b \in [Model -> Nat] /\ b[by.model] > 0 BY <1>1
<1>3. a \in BOOLEAN /\ (a => told.asLaunched /\ by = AsLaunched) BY DEF History
<1>4. Counted(told, by) = [told EXCEPT !.billed = b, !.asLaunched = a]
  BY DEF Counted, History
<1> HIDE DEF a, b
<1>5. LET c == [told EXCEPT !.billed = b, !.asLaunched = a]
      IN /\ c \in History
         /\ c.goal = told.goal /\ c.task = told.task /\ c.asked = told.asked
         /\ c.billed = b /\ c.asLaunched = a
  BY <1>2, <1>3 DEF History
<1> QED BY <1>2, <1>3, <1>4, <1>5 DEF b

\* What the parser shows of model and effort after a reply.
LEMMA ReplyIsSeen ==
    ASSUME Understood, NEW by, by.model \in Model,
           UNCHANGED entry,
           told'.billed = [told.billed EXCEPT ![by.model] = @ + 1],
           told'.billed[by.model] > 0,
           told'.asLaunched => told.asLaunched /\ by = AsLaunched,
           After(log').model = by.model,
           After(log').effort = IF by.effort = NoEffort THEN After(log).effort ELSE by.effort
    PROVE  AsLaunchedIsSeen'
<1> SUFFICES ASSUME told'.asLaunched
             PROVE  Served' /\ After(log').model = entry.model /\ After(log').effort = entry.effort
  BY DEF AsLaunchedIsSeen
<1>1. Served' BY DEF Served
<1>2. by.model = entry.model /\ by.effort = entry.effort BY DEF AsLaunched
<1>3. After(log).effort \in {NoEffort, entry.effort}
  BY DEF Understood, AsLaunchedIsSeen
<1> QED BY <1>1, <1>2, <1>3

\* A reply takes the session to its calls, or to the end of the turn.
LEMMA UnderstoodReply ==
    ASSUME TypeOK, Understood, NEW by, by.model \in Model, by.effort \in Effort,
           NEW calls \in Calls, calls \in SUBSET Call, Reply(by, calls), UNCHANGED entry
    PROVE  Understood'
<1> DEFINE rec == [kind |-> "assistant", model |-> by.model, effort |-> by.effort,
                   calls |-> calls]
           s == After(log)
           t == After(log')
<1>1. rec \in Record BY DEF Record
<1>2. t = Step(s, rec)
  BY <1>1, AfterAppend DEF Reply, Writes, TypeOK
<1>3. s \in Locals /\ s.pending = {} BY DEF Reply, TypeOK, Understood, Agrees
<1>4. /\ t \in Locals /\ t.pending = calls /\ t.lastRole = "assistant"
      /\ t.goal = s.goal /\ t.task = s.task /\ t.model = by.model
      /\ t.effort = IF by.effort = NoEffort THEN s.effort ELSE by.effort
      /\ t.billed = [s.billed EXCEPT ![by.model] = @ + 1]
  <2>1. s.pending \cup calls = calls BY <1>3
  <2>2. /\ rec.kind = "assistant" /\ rec.model = by.model /\ rec.effort = by.effort
        /\ rec.calls = calls
    OBVIOUS
  <2> HIDE DEF s, t, rec
  <2>3. rec.model \in Model /\ rec.effort \in Effort /\ rec.calls \in SUBSET Call BY <2>2
  <2>4. s \in Locals BY <1>3
  <2> QED BY <1>2, <2>1, <2>2, <2>3, <2>4, StepOfAssistant, SMTT(20)
<1>5. /\ told' \in History /\ told'.goal = told.goal /\ told'.task = told.task
      /\ told'.asked = "nothing"
      /\ told'.billed = [told.billed EXCEPT ![by.model] = @ + 1]
      /\ told'.billed[by.model] > 0
      /\ told'.asLaunched => told.asLaunched /\ by = AsLaunched
  <2> DEFINE c == Counted(told, by)
  <2>1. /\ c \in History /\ c.goal = told.goal /\ c.task = told.task
        /\ c.billed = [told.billed EXCEPT ![by.model] = @ + 1]
        /\ c.billed[by.model] > 0
        /\ c.asLaunched => told.asLaunched /\ by = AsLaunched
    BY CountedIs DEF Understood
  <2>2. told' = [c EXCEPT !.asked = "nothing"] BY DEF Reply
  <2> HIDE DEF c
  <2>3. /\ [c EXCEPT !.asked = "nothing"] \in History
        /\ \A f \in {"goal", "task", "billed", "asLaunched"} :
             [c EXCEPT !.asked = "nothing"][f] = c[f]
        /\ [c EXCEPT !.asked = "nothing"].asked = "nothing"
    BY <2>1 DEF History
  <2> QED BY <2>1, <2>2, <2>3
<1>6. open' = calls BY DEF Reply
<1>7. Agrees' BY <1>4, <1>5, <1>6 DEF Understood, Agrees
<1>8. TurnIsKnown' BY <1>4, <1>5 DEF TurnIsKnown
<1>9. AsLaunchedIsSeen' BY <1>4, <1>5, ReplyIsSeen
<1>10. CallsDiffer'
  <2> DEFINE recv == [id |-> 2 * Len(log), recv |-> TRUE]
             tool == [id |-> 2 * Len(log) + 1, recv |-> FALSE]
  <2>1. Len(log) \in Nat BY DEF TypeOK
  <2>2. recv.id # tool.id BY <2>1
  <2>3. calls \in {{}, {recv}, {tool}, {recv, tool}} BY DEF Calls
  <2> HIDE DEF recv, tool
  <2> QED BY <1>6, <2>2, <2>3 DEF CallsDiffer
<1> QED BY <1>4, <1>5, <1>7, <1>8, <1>9, <1>10 DEF Understood

\* A subagent's reply counts and changes nothing else.
LEMMA UnderstoodSubagent ==
    ASSUME TypeOK, Understood, NEW by, by.model \in Model, by.effort \in Effort,
           Subagent(by), UNCHANGED entry
    PROVE  Understood'
<1> DEFINE rec == [kind |-> "sidechain", model |-> by.model, effort |-> by.effort]
           s == After(log)
           t == After(log')
<1>1. rec \in Record BY DEF Record
<1>2. t = Step(s, rec)
  BY <1>1, AfterAppend DEF Subagent, Writes, TypeOK
<1>3. t = Billed(s, rec) BY <1>2, StepOfSidechain
<1>4. s \in Locals /\ rec.model = by.model /\ rec.effort = by.effort BY DEF Understood
<1>5. /\ t \in Locals /\ t.pending = s.pending /\ t.lastRole = s.lastRole
      /\ t.goal = s.goal /\ t.task = s.task /\ t.model = by.model
      /\ t.effort = IF by.effort = NoEffort THEN s.effort ELSE by.effort
      /\ t.billed = [s.billed EXCEPT ![by.model] = @ + 1]
  BY <1>3, <1>4, BilledIs
<1>6. told' = Counted(told, by) /\ open' = open /\ turn' = turn BY DEF Subagent
<1>7. /\ told' \in History /\ told'.goal = told.goal /\ told'.task = told.task
      /\ told'.asked = told.asked
      /\ told'.billed = [told.billed EXCEPT ![by.model] = @ + 1]
      /\ told'.billed[by.model] > 0
      /\ told'.asLaunched => told.asLaunched /\ by = AsLaunched
  BY <1>6, CountedIs DEF Understood
<1>8. Agrees' BY <1>5, <1>6, <1>7 DEF Understood, Agrees
<1>9. TurnIsKnown' BY <1>5, <1>6, <1>7 DEF Understood, TurnIsKnown
<1>10. AsLaunchedIsSeen' BY <1>5, <1>7, ReplyIsSeen
<1>11. CallsDiffer' BY <1>6 DEF Understood, CallsDiffer
<1> QED BY <1>5, <1>7, <1>8, <1>9, <1>10, <1>11 DEF Understood

\* A call that returns is the one that the log takes out.
LEMMA UnderstoodReturn ==
    ASSUME TypeOK, Understood, NEW c \in open, NEW text \in Text, NEW error \in BOOLEAN,
           ~error => text \in Printed(c), Return(c, text, error), UNCHANGED entry
    PROVE  Understood'
<1> DEFINE rec == [kind |-> "result", id |-> c.id, text |-> text, error |-> error]
           s == After(log)
           t == After(log')
<1>0. c.id \in Nat BY DEF TypeOK, Call
<1>1. rec \in Record BY <1>0 DEF Record
<1>2. t = Step(s, rec)
  BY <1>1, AfterAppend DEF Return, Writes, TypeOK
<1>3. s \in Locals /\ s.pending = open BY DEF Understood, Agrees
<1>4. /\ t \in Locals /\ t.pending = {d \in open : d.id # c.id}
      /\ t.lastRole = s.lastRole /\ t.goal = s.goal
      /\ t.model = s.model /\ t.effort = s.effort /\ t.billed = s.billed
      /\ t.task = IF /\ \E d \in open : d.id = c.id /\ d.recv
                     /\ ~error /\ text # Failure
                  THEN text ELSE s.task
  BY <1>0, <1>2, <1>3, StepOfResult
<1>5. /\ told' \in History /\ told'.goal = told.goal /\ told'.billed = told.billed
      /\ told'.asked = told.asked /\ told'.asLaunched = told.asLaunched
      /\ told'.task = IF c.recv /\ text \in Task /\ ~error THEN text ELSE told.task
  BY DEF Return, Understood, History
<1>6. open' = open \ {c} BY DEF Return
<1>7. t.pending = open' BY <1>4, <1>6 DEF Understood, CallsDiffer
<1>8. (\E d \in open : d.id = c.id /\ d.recv) <=> c.recv BY DEF Understood, CallsDiffer
<1>9. t.task = told'.task
  <2>1. c.recv /\ ~error => (text \in Task <=> text # Failure)
    BY ParticipantAssumption DEF Printed
  <2> QED BY <1>4, <1>5, <1>8, <2>1 DEF Understood, Agrees
<1>10. Agrees' BY <1>4, <1>5, <1>7, <1>9 DEF Understood, Agrees
<1>11. TurnIsKnown'
  <2>1. told.asked # "prompt" BY DEF TypeOK, Understood, TurnIsKnown
  <2> QED BY <1>4, <1>5, <2>1 DEF Understood, TurnIsKnown
<1>12. AsLaunchedIsSeen' BY <1>4, <1>5 DEF Understood, AsLaunchedIsSeen, Served
<1>13. CallsDiffer' BY <1>6 DEF Understood, CallsDiffer
<1> QED BY <1>4, <1>5, <1>10, <1>11, <1>12, <1>13 DEF Understood

\* Noise is passed over.
LEMMA UnderstoodNoise == ASSUME TypeOK, Understood, Noise, UNCHANGED entry
                         PROVE  Understood'
<1>1. [kind |-> "noise"] \in Record BY DEF Record
<1>2. After(log') = After(log)
  BY <1>1, AfterAppend, StepOfNoise DEF Noise, Writes, TypeOK
<1> QED BY <1>2 DEF Noise, Understood, Agrees, TurnIsKnown, AsLaunchedIsSeen, Served, CallsDiffer

\* A launch hands on an entry before anything is written.
LEMMA UnderstoodLaunch == ASSUME Understood, Quiet, pc = "picked", UNCHANGED workVars
                          PROVE  Understood'
<1>1. After(log) = Start BY AfterEmpty DEF Quiet
<1>2. ~Served
  <2>1. told.billed = [m \in Model |-> 0] BY <1>1 DEF Understood, Agrees, Start
  <2> QED BY <2>1, NothingServed DEF Served
<1>3. After(log).effort = NoEffort BY <1>1 DEF Start
<1> QED BY <1>2, <1>3
    DEF workVars, Understood, Agrees, TurnIsKnown, AsLaunchedIsSeen, Served, CallsDiffer

\* Every step of the system keeps log and session in agreement.
LEMMA UnderstoodStep == TypeOK /\ Quiet /\ Understood /\ [Next]_vars => Understood'
<1> SUFFICES ASSUME TypeOK, Quiet, Understood, [Next]_vars PROVE Understood' OBVIOUS
<1>1. ASSUME UNCHANGED <<entry, workVars>> PROVE Understood'
  BY <1>1 DEF workVars, Understood, Agrees, TurnIsKnown, AsLaunchedIsSeen, Served, CallsDiffer
<1>2. ASSUME log' = log, open' = open, turn' = turn, told' = told, entry' = entry
      PROVE  Understood'
  BY <1>2 DEF Understood, Agrees, TurnIsKnown, AsLaunchedIsSeen, Served, CallsDiffer
<1>3. CASE \/ \E f \in Version : Render(f)
           \/ Pick \/ LaunchFails \/ Announce \/ OtherExits \/ RowIsLost
  BY <1>1, <1>3 DEF Render, Pick, LaunchFails, Announce, OtherExits, RowIsLost, launchVars
<1>4. CASE Launch BY <1>4, UnderstoodLaunch DEF Launch
<1>5. CASE OtherWrites BY <1>2, <1>5 DEF OtherWrites, launchVars
<1>6. CASE Working
  <2>1. pc = "session" /\ UNCHANGED entry
    BY <1>6 DEF Working, Prompt, Reply, Return, Subagent, Noise, Writes, launchVars
  <2>2. ASSUME NEW text \in Goal \cup {Machinery}, Prompt(text) PROVE Understood'
    BY <2>1, <2>2, UnderstoodPrompt
  <2>3. ASSUME NEW by \in Service \cup {AsLaunched}, Subagent(by) PROVE Understood'
    BY <2>1, <2>3, ServedBy, UnderstoodSubagent
  <2>4. ASSUME NEW by \in Service \cup {AsLaunched}, NEW calls \in Calls, Reply(by, calls)
        PROVE  Understood'
    BY <2>1, <2>4, ServedBy, CallsAreTyped, UnderstoodReply
  <2>5. ASSUME NEW c \in open, NEW text \in Printed(c), Return(c, text, FALSE)
        PROVE  Understood'
    <3>1. text \in Text BY TranscriptAssumption, ParticipantAssumption DEF Printed
    <3> QED BY <2>1, <2>5, <3>1, UnderstoodReturn
  <2>6. ASSUME NEW c \in open, Return(c, Output, TRUE) PROVE Understood'
    <3>1. Output \in Text BY ParticipantAssumption
    <3> QED BY <2>1, <2>6, <3>1, UnderstoodReturn
  <2>7. CASE Noise BY <2>1, <2>7, UnderstoodNoise
  <2> QED BY <1>6, <2>2, <2>3, <2>4, <2>5, <2>6, <2>7 DEF Working
<1>7. CASE UNCHANGED vars BY <1>1, <1>7 DEF vars, launchVars
<1> QED BY <1>3, <1>4, <1>5, <1>6, <1>7 DEF Next

\* Nothing is written before there is a session.
LEMMA QuietStep == Quiet /\ [Next]_vars => Quiet'
<1> SUFFICES ASSUME Quiet, [Next]_vars PROVE Quiet' OBVIOUS
<1>1. ASSUME pc' = "session" PROVE Quiet' BY <1>1 DEF Quiet
<1>2. ASSUME pc' = pc, log' = log PROVE Quiet' BY <1>2 DEF Quiet
<1>3. CASE Working
  BY <1>1, <1>3 DEF Working, Prompt, Reply, Return, Subagent, Noise, Writes, launchVars
<1>4. CASE Pick \/ LaunchFails BY <1>4 DEF Pick, LaunchFails, workVars, Quiet
<1>5. CASE Launch BY <1>1, <1>5 DEF Launch
<1>6. CASE \/ \E f \in Version : Render(f)
           \/ Announce \/ OtherExits \/ RowIsLost \/ OtherWrites
  BY <1>2, <1>6 DEF Render, Announce, OtherExits, RowIsLost, OtherWrites, launchVars, workVars
<1>7. CASE UNCHANGED vars BY <1>2, <1>7 DEF vars, launchVars, workVars
<1> QED BY <1>3, <1>4, <1>5, <1>6, <1>7 DEF Next

\* Only an announce puts the session's own id in a row.
LEMMA RowIsOfEntryStep == TypeOK /\ RowIsOfEntry /\ [Next]_vars => RowIsOfEntry'
<1> SUFFICES ASSUME TypeOK, RowIsOfEntry, [Next]_vars PROVE RowIsOfEntry' OBVIOUS
<1>1. ASSUME row' = row PROVE RowIsOfEntry' BY <1>1 DEF RowIsOfEntry
<1>2. CASE Launch
  BY <1>1, <1>2, ParticipantAssumption DEF Launch, Reservation, RowIsOfEntry
<1>3. CASE Announce
  <2>1. Find(file, ident) \in Entry BY <1>3, FoundType DEF Announce
  <2> QED BY <1>3, <2>1 DEF Announce, Entry, RowIsOfEntry
<1>4. CASE RowIsLost
  BY <1>4, ParticipantAssumption DEF RowIsLost, NoRow, RowIsOfEntry
<1>5. CASE Working
  BY <1>1, <1>5 DEF Working, Prompt, Reply, Return, Subagent, Noise, Writes, rosterVars
<1>6. CASE \/ \E f \in Version : Render(f)
           \/ Pick \/ LaunchFails \/ OtherExits \/ OtherWrites
  BY <1>1, <1>6 DEF Render, Pick, LaunchFails, OtherExits, OtherWrites, rosterVars
<1>7. CASE UNCHANGED vars BY <1>1, <1>7 DEF vars, rosterVars
<1> QED BY <1>2, <1>3, <1>4, <1>5, <1>6, <1>7 DEF Next

\* The inductive invariant behind what is shown of a session.
ShownInv == TypeOK /\ Quiet /\ RowIsOfEntry /\ Understood

\* ShownInv holds at first, and every step preserves it.
LEMMA ShownInvInductive == (Init => ShownInv) /\ (ShownInv /\ [Next]_vars => ShownInv')
<1>1. Init => Quiet /\ RowIsOfEntry
  BY ParticipantAssumption DEF Init, Quiet, RowIsOfEntry, NoRow
<1> QED BY <1>1, TypeInit, TypeStep, UnderstoodInit, UnderstoodStep, QuietStep,
           RowIsOfEntryStep DEF ShownInv

\* The status is read off the calls in progress and off who spoke last, however long
\* the session has worked and in whatever order its calls returned.
THEOREM StatusTrue == Spec => []StatusIsTrue
<1>1. ShownInv => StatusIsTrue
  <2> SUFFICES ASSUME ShownInv PROVE StatusIsTrue OBVIOUS
  <2> DEFINE s == After(log)
  <2>1. /\ s.pending = open /\ s.lastRole \in {"none", "user", "assistant"}
        /\ s.lastRole = "user" => told.asked # "nothing"
        /\ told.asked = "prompt" => turn = "model" /\ s.lastRole = "user"
        /\ told.asked \in {"nothing", "prompt", "command"}
    BY DEF ShownInv, Understood, Agrees, TurnIsKnown, Locals, History
  <2>2. (turn = "tools") = (open # {}) BY DEF ShownInv, TypeOK
  <2>3. Facts.status = Status(s) BY DEF Facts, Parse
  <2> HIDE DEF s
  <2>4. CASE \E c \in open : c.recv
    <3>1. Status(s) = "parked" BY <2>1, <2>4 DEF Status
    <3> QED BY <2>1, <2>2, <2>3, <2>4, <3>1 DEF StatusIsTrue
  <2>5. CASE open # {} /\ ~\E c \in open : c.recv
    <3>1. Status(s) = "working" BY <2>1, <2>5 DEF Status
    <3> QED BY <2>1, <2>2, <2>3, <2>5, <3>1 DEF StatusIsTrue
  <2>6. CASE open = {}
    <3>1. Status(s) = CASE s.lastRole = "user" -> "working"
                        [] s.lastRole = "assistant" -> "idle"
                        [] s.lastRole = "none" -> "unknown"
      BY <2>1, <2>6 DEF Status
    <3> QED BY <2>1, <2>2, <2>3, <2>6, <3>1 DEF StatusIsTrue
  <2> QED BY <2>4, <2>5, <2>6
<1> QED BY <1>1, ShownInvInductive, PTL DEF Spec

\* A row of the session's own leads to the session's own transcript.
LEMMA FactsOfOwn == ASSUME row.session = Self, log # <<>>
                    PROVE  FactsOf(row, Logs, newest) = Parse(log)
<1>1. Logs[Self] = log BY DEF Logs
<1>2. Self # NoSession BY ParticipantAssumption
<1>3. Locate(row, Logs, newest) = [session |-> Self, resolvedBy |-> "session-id"]
  BY <1>1, <1>2 DEF Locate
<1>4. [session |-> Self, resolvedBy |-> "session-id"] # Nothing BY <1>2 DEF Nothing
<1> QED BY <1>1, <1>3, <1>4 DEF FactsOf

\* Goal, last task and cost are those of the session, in its own scope and in no other.
THEOREM ReportTrue == Spec => []ReportIsTrue
<1>1. ShownInv => ReportIsTrue
  <2> SUFFICES ASSUME ShownInv, row.session = Self, log # <<>>
               PROVE  /\ Shown("dispatcher", Self).content = told.goal
                      /\ Shown("worker", Self).content =
                           IF told.task = NoText THEN told.goal ELSE told.task
                      /\ \A role \in {"dispatcher", "worker"} :
                            /\ Shown(role, Other).content = NoText
                            /\ Shown(role, Self).billed = told.billed
    BY DEF ReportIsTrue
  <2>1. FactsOf(row, Logs, newest) = Parse(log) BY FactsOfOwn
  <2>2. /\ Parse(log).goal = told.goal /\ Parse(log).task = told.task
        /\ Parse(log).billed = told.billed
    BY DEF ShownInv, Understood, Agrees, Parse
  <2>3. Self # Other BY ParticipantAssumption
  <2>4. ASSUME NEW role, NEW scope
        PROVE  /\ Shown(role, scope).billed = told.billed
               /\ Shown(role, scope).content =
                    IF Self = scope THEN Content(role, Parse(log)) ELSE NoText
    BY <2>1, <2>2 DEF Shown, Build
  <2>5. /\ Content("dispatcher", Parse(log)) = told.goal
        /\ Content("worker", Parse(log)) =
             IF told.task = NoText THEN told.goal ELSE told.task
    BY <2>2 DEF Content
  <2> QED BY <2>3, <2>4, <2>5
<1> QED BY <1>1, ShownInvInductive, PTL DEF Spec

\* "!" is set exactly where the row names another model or effort than the session runs.
THEOREM DriftTrue == Spec => []DriftMarksMismatch
<1>1. ShownInv => DriftMarksMismatch
  <2> SUFFICES ASSUME ShownInv, row.session = Self, told.asLaunched, Served
               PROVE  Drift(row, Logs, newest)
                        <=> \/ row.model # entry.model
                            \/ NoEffort \notin {row.effort, entry.effort}
                                 /\ row.effort # entry.effort
    BY DEF DriftMarksMismatch, Served
  <2>1. log # <<>>
    <3> SUFFICES ASSUME log = <<>> PROVE FALSE OBVIOUS
    <3>1. After(log) = Start BY AfterEmpty
    <3>2. told.billed = [m \in Model |-> 0] BY <3>1 DEF ShownInv, Understood, Agrees, Start
    <3> QED BY <3>2, NothingServed DEF Served
  <2>2. FactsOf(row, Logs, newest) = Parse(log) BY <2>1, FactsOfOwn
  <2>3. /\ Parse(log).model = entry.model
        /\ Parse(log).effort = entry.effort
    BY DEF ShownInv, Understood, AsLaunchedIsSeen, Parse
  <2>4. entry.model # NoModel
    <3>1. pc = "session" BY <2>1 DEF ShownInv, Quiet
    <3>2. entry \in Entry BY <3>1 DEF ShownInv, TypeOK
    <3> QED BY <3>2, TranscriptAssumption DEF Entry
  <2>5. row.model # NoModel BY TranscriptAssumption DEF ShownInv, RowIsOfEntry
  <2> QED BY <2>2, <2>3, <2>4, <2>5 DEF Drift
<1> QED BY <1>1, ShownInvInductive, PTL DEF Spec
=============================================================================
