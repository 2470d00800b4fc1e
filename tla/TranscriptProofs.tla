-------------------------- MODULE TranscriptProofs --------------------------
(***************************************************************************)
(* What parse makes of a transcript of any length.                         *)
(*                                                                         *)
(* After is a recursive function of how many lines are read.  That there   *)
(* is such a function, that it is the only one, and that one line more is  *)
(* one Step more, is by induction on that number: a set of counterexamples *)
(* would have a least one.  By the same induction, on the lines of a file, *)
(* what After leaves is what Account says of the whole of it.              *)
(***************************************************************************)
EXTENDS Account, WellFoundedInduction, SequenceTheorems, FiniteSetTheorems, TLAPS

-----------------------------------------------------------------------------
(* Reading a file line by line. *)

\* f holds the locals of parse after each of the first n lines of a file.
Reads(lines, n, f) == f = [i \in 0..n |-> IF i = 0 THEN Start ELSE Step(f[i - 1], lines[i])]

\* A set of numbers has a least one.
LEMMA LeastNatural == ASSUME NEW T \in SUBSET Nat, T # {}
                      PROVE  \E x \in T : \A y \in T : x <= y
<1> DEFINE Less == {ss \in Nat \X Nat : ss[1] < ss[2]}
<1>1. IsWellFoundedOn(Less, Nat) BY NatLessThanWellFounded DEF OpToRel
<1>2. PICK x \in T : \A y \in T : <<y, x>> \notin Less BY <1>1, WFMin
<1>3. ASSUME NEW y \in T PROVE x <= y
  <2>1. x \in Nat /\ y \in Nat BY <1>3
  <2>2. <<y, x>> \in Less <=> y < x BY <2>1
  <2> QED BY <2>1, <2>2, <1>2
<1> QED BY <1>3

\* Every file can be read to its end.
LEMMA ReadsExist == ASSUME NEW lines, Len(lines) \in Nat
                    PROVE  \E f : Reads(lines, Len(lines), f)
<1> DEFINE T == {n \in Nat : ~\E f : Reads(lines, n, f)}
<1> SUFFICES ASSUME T # {} PROVE FALSE OBVIOUS
<1>1. PICK n \in T : \A m \in T : n <= m BY LeastNatural
<1>2. n # 0
  <2> DEFINE f == [i \in 0..0 |-> Start]
  <2>1. Reads(lines, 0, f) BY DEF Reads
  <2> QED BY <2>1
<1>3. n - 1 \in Nat /\ n - 1 \notin T BY <1>1, <1>2
<1>4. PICK f : Reads(lines, n - 1, f) BY <1>3
<1> DEFINE g == [i \in 0..n |-> IF i < n THEN f[i] ELSE Step(f[n - 1], lines[n])]
<1>5. Reads(lines, n, g)
  <2>1. ASSUME NEW i \in 0..n
        PROVE g[i] = IF i = 0 THEN Start ELSE Step(g[i - 1], lines[i])
    <3>1. CASE i = n
      <4>1. g[i-1] = f[i-1] BY <3>1, <1>2
      <4> QED BY <4>1, <3>1, <1>2
    <3>2. CASE i < n
      <4>1. i \in 0..(n-1) BY <3>2
      <4>2. f[i] = IF i = 0 THEN Start ELSE Step(f[i - 1], lines[i]) BY <4>1, <1>4 DEF Reads
      <4>3. i # 0 => i - 1 \in 0..n /\ i - 1 < n BY <3>2
      <4> QED BY <4>2, <4>3, <3>2
    <3> QED BY <3>1, <3>2
  <2> HIDE DEF g
  <2>2. g = [i \in 0..n |-> g[i]] BY DEF g
  <2> QED BY <2>1, <2>2 DEF Reads
<1> QED BY <1>5

\* Two readings agree on the lines that both have read.
LEMMA ReadsUnique == ASSUME NEW lines, NEW m \in Nat, NEW n \in Nat, NEW f, NEW g,
                            Reads(lines, m, f), Reads(lines, n, g),
                            NEW k \in 0..m, k <= n
                     PROVE  f[k] = g[k]
<1> DEFINE T == {i \in 0..m : i <= n /\ f[i] # g[i]}
<1> SUFFICES ASSUME T # {} PROVE FALSE OBVIOUS
<1>0. T \in SUBSET Nat OBVIOUS
<1>1. PICK i \in T : \A j \in T : i <= j BY <1>0, LeastNatural
<1>2. f[i] = IF i = 0 THEN Start ELSE Step(f[i - 1], lines[i]) BY DEF Reads
<1>3. g[i] = IF i = 0 THEN Start ELSE Step(g[i - 1], lines[i])
  <2>1. i \in 0..n OBVIOUS
  <2> QED BY <2>1 DEF Reads
<1>4. i # 0 BY <1>2, <1>3
<1>5. i - 1 \in 0..m /\ i - 1 \notin T /\ i - 1 <= n BY <1>4, <1>1
<1> QED BY <1>5, <1>2, <1>3, <1>4

\* After is the end of such a reading.
LEMMA AfterReads == ASSUME NEW lines, Len(lines) \in Nat
                    PROVE  \E f : /\ Reads(lines, Len(lines), f)
                                  /\ After(lines) = f[Len(lines)]
<1> DEFINE read == CHOOSE f : Reads(lines, Len(lines), f)
<1>1. Reads(lines, Len(lines), read) BY ReadsExist
<1>2. After(lines) = read[Len(lines)] BY Zenon DEF After, Reads
<1> QED BY <1>1, <1>2

\* An empty file leaves the locals as they were set.
LEMMA AfterEmpty == After(<<>>) = Start
<1>1. PICK f : Reads(<<>>, 0, f) /\ After(<<>>) = f[0] BY AfterReads
<1> QED BY <1>1 DEF Reads

\* One line more is one step more.
LEMMA AfterAppend == ASSUME NEW S, NEW lines \in Seq(S), NEW rec \in S
                     PROVE  After(Append(lines, rec)) = Step(After(lines), rec)
<1> DEFINE n == Len(lines)
           more == Append(lines, rec)
<1>0. n \in Nat /\ Len(more) = n + 1 /\ more[n + 1] = rec
      /\ \A i \in 1..n : more[i] = lines[i]
   OBVIOUS
<1>1. PICK f : Reads(lines, n, f) /\ After(lines) = f[n] BY <1>0, AfterReads
<1> HIDE DEF n, more
<1>k. PICK k : k = n + 1 OBVIOUS
<1>2. PICK g : Reads(more, k, g) /\ After(more) = g[k] BY <1>0, <1>k, AfterReads
<1>3. Reads(more, n, f)
  <2>1. \A i \in 0..n : i # 0 => more[i] = lines[i] BY <1>0
  <2> QED BY <1>1, <2>1, <1>0 DEF Reads
<1>4. n \in Nat /\ k \in Nat /\ n \in 0..n /\ n <= k BY <1>0, <1>k
<1>5. f[n] = g[n] BY <1>2, <1>3, <1>4, ReadsUnique
<1>6. g[k] = Step(g[n], rec) BY <1>0, <1>k, <1>2 DEF Reads
<1> QED BY <1>1, <1>2, <1>5, <1>6 DEF n, more

-----------------------------------------------------------------------------
(* One record, and the locals of parse. *)

Locals == [pending : SUBSET Call, lastRole : {"none", "user", "assistant"},
           model : Model \cup {NoModel}, effort : Effort \cup {NoEffort},
           billed : [Model -> Nat],
           goal : Text \cup {NoText}, task : Text \cup {NoText}]

\* The locals that parse begins with are of their types.
LEMMA StartIsTyped == Start \in Locals
BY DEF Start, Locals

\* A reply is billed to the model that served it, and nothing else is touched.
LEMMA BilledIs ==
    ASSUME NEW s \in Locals, NEW rec, rec.model \in Model, rec.effort \in Effort
    PROVE  /\ Billed(s, rec) \in Locals
           /\ Billed(s, rec).pending = s.pending /\ Billed(s, rec).lastRole = s.lastRole
           /\ Billed(s, rec).goal = s.goal /\ Billed(s, rec).task = s.task
           /\ Billed(s, rec).model = rec.model
           /\ Billed(s, rec).effort = IF rec.effort = NoEffort THEN s.effort ELSE rec.effort
           /\ Billed(s, rec).billed = [s.billed EXCEPT ![rec.model] = @ + 1]
<1>1. [s.billed EXCEPT ![rec.model] = @ + 1] \in [Model -> Nat] BY DEF Locals
<1> QED BY <1>1 DEF Billed, Locals

\* A subagent's reply is billed, and that is all.
LEMMA StepOfSidechain ==
    ASSUME NEW s, NEW m, NEW e
    PROVE  LET rec == [kind |-> "sidechain", model |-> m, effort |-> e]
           IN Step(s, rec) = Billed(s, rec)
BY DEF Step

\* A reply is billed, and its calls are in progress.
LEMMA StepOfAssistant ==
    ASSUME NEW s \in Locals, NEW rec, rec.kind = "assistant",
           rec.model \in Model, rec.effort \in Effort, rec.calls \in SUBSET Call
    PROVE  /\ Step(s, rec) \in Locals
           /\ Step(s, rec).pending = s.pending \cup rec.calls
           /\ Step(s, rec).lastRole = "assistant"
           /\ Step(s, rec).goal = s.goal /\ Step(s, rec).task = s.task
           /\ Step(s, rec).model = rec.model
           /\ Step(s, rec).effort = IF rec.effort = NoEffort THEN s.effort ELSE rec.effort
           /\ Step(s, rec).billed = [s.billed EXCEPT ![rec.model] = @ + 1]
<1> DEFINE b == Billed(s, rec)
<1>1. Step(s, rec) = [b EXCEPT !.lastRole = "assistant", !.pending = @ \cup rec.calls]
  BY DEF Step, OnAssistant
<1>2. /\ b \in Locals /\ b.pending = s.pending
      /\ b.goal = s.goal /\ b.task = s.task /\ b.model = rec.model
      /\ b.effort = IF rec.effort = NoEffort THEN s.effort ELSE rec.effort
      /\ b.billed = [s.billed EXCEPT ![rec.model] = @ + 1]
  BY BilledIs
<1> HIDE DEF b
<1> QED BY <1>1, <1>2 DEF Locals

\* A human's text begins a turn, and the first that is not machinery is the goal.
LEMMA StepOfUser ==
    ASSUME NEW s \in Locals, NEW text \in Text
    PROVE  LET rec == [kind |-> "user", text |-> text]
           IN /\ Step(s, rec) \in Locals
              /\ Step(s, rec).lastRole = "user"
              /\ Step(s, rec).pending = s.pending /\ Step(s, rec).task = s.task
              /\ Step(s, rec).model = s.model /\ Step(s, rec).effort = s.effort
              /\ Step(s, rec).billed = s.billed
              /\ Step(s, rec).goal = IF s.goal = NoText /\ text # Machinery THEN text ELSE s.goal
<1> DEFINE rec == [kind |-> "user", text |-> text]
<1>1. Step(s, rec) = [s EXCEPT !.lastRole = "user",
                               !.goal = IF @ = NoText /\ text # Machinery THEN text ELSE @]
  BY DEF Step, OnUser
<1> QED BY <1>1 DEF Locals

\* A result ends its call, and is the task if that call was a recv that delivered.
LEMMA StepOfResult ==
    ASSUME NEW s \in Locals, NEW id \in Nat, NEW text \in Text, NEW error \in BOOLEAN
    PROVE  LET rec == [kind |-> "result", id |-> id, text |-> text, error |-> error]
           IN /\ Step(s, rec) \in Locals
              /\ Step(s, rec).pending = {c \in s.pending : c.id # id}
              /\ Step(s, rec).lastRole = s.lastRole /\ Step(s, rec).goal = s.goal
              /\ Step(s, rec).model = s.model /\ Step(s, rec).effort = s.effort
              /\ Step(s, rec).billed = s.billed
              /\ Step(s, rec).task = IF /\ \E c \in s.pending : c.id = id /\ c.recv
                                        /\ ~error /\ text # Failure
                                     THEN text ELSE s.task
<1> DEFINE rec == [kind |-> "result", id |-> id, text |-> text, error |-> error]
<1>1. Step(s, rec) = OnResult(s, rec) BY DEF Step
<1>2. OnResult(s, rec) =
        [s EXCEPT !.pending = {c \in s.pending : c.id # id},
                  !.task = IF /\ \E c \in s.pending : c.id = id /\ c.recv
                              /\ ~error /\ text # Failure
                           THEN text ELSE s.task]
  BY DEF OnResult, Locals
<1> DEFINE left == {c \in s.pending : c.id # id}
           task == IF /\ \E c \in s.pending : c.id = id /\ c.recv
                      /\ ~error /\ text # Failure
                   THEN text ELSE s.task
<1>3. left \in SUBSET Call /\ task \in Text \cup {NoText} BY DEF Locals
<1>4. Step(s, rec) = [s EXCEPT !.pending = left, !.task = task] BY <1>1, <1>2
<1> HIDE DEF left, task, rec
<1>5. /\ Step(s, rec) \in Locals
      /\ Step(s, rec).pending = left /\ Step(s, rec).task = task
      /\ Step(s, rec).lastRole = s.lastRole /\ Step(s, rec).goal = s.goal
      /\ Step(s, rec).model = s.model /\ Step(s, rec).effort = s.effort
      /\ Step(s, rec).billed = s.billed
  BY <1>3, <1>4 DEF Locals
<1> QED BY <1>5 DEF left, task, rec

\* Any other line changes nothing.
LEMMA StepOfNoise == \A s : Step(s, [kind |-> "noise"]) = s
BY DEF Step

-----------------------------------------------------------------------------
(* What one line more makes of the account of a file. *)

\* One line more: the lines there were, and a new one at their end.
LEMMA OneLineMore ==
    ASSUME NEW lines \in Seq(Record), NEW rec \in Record
    PROVE  LET n == Len(lines)
               more == Append(lines, rec)
           IN /\ n \in Nat /\ Len(more) = n + 1
              /\ DOMAIN lines = 1..n /\ DOMAIN more = 1..(n + 1)
              /\ \A i \in 1..n : more[i] = lines[i]
              /\ more[n + 1] = rec
OBVIOUS

\* g is f, with or without a line more.
Extends(g, f, n) == /\ f = [i \in DOMAIN f |-> f[i]] /\ g = [i \in DOMAIN g |-> g[i]]
                    /\ DOMAIN f \subseteq 1..n /\ DOMAIN g \subseteq 1..(n + 1)
                    /\ \A i \in 1..n : i \in DOMAIN g <=> i \in DOMAIN f
                    /\ \A i \in DOMAIN f : g[i] = f[i]

\* The last of them is at the new line, if that is one of them.
LEMMA LastOfMore ==
    ASSUME NEW n \in Nat, NEW f, NEW g, NEW d, Extends(g, f, n)
    PROVE  AtLast(g, d) = IF n + 1 \in DOMAIN g THEN g[n + 1] ELSE AtLast(f, d)
<1>1. CASE n + 1 \in DOMAIN g
  <2>1. \A j \in DOMAIN g : j \in 1..(n + 1) BY DEF Extends
  <2>2. \A i \in DOMAIN g : (\A j \in DOMAIN g : j <= i) <=> i = n + 1 BY <1>1, <2>1
  <2>3. AtLast(g, d) = g[n + 1] BY <1>1, <2>2 DEF AtLast
  <2> QED BY <1>1, <2>3
<1>2. CASE n + 1 \notin DOMAIN g
  <2>1. \A i : i \in DOMAIN g => i \in 1..n BY <1>2 DEF Extends
  <2>2. \A i : i \in DOMAIN f => i \in 1..n BY DEF Extends
  <2>3. DOMAIN g = DOMAIN f BY <2>1, <2>2 DEF Extends
  <2>4. g = f BY <2>3 DEF Extends
  <2> QED BY <1>2, <2>4
<1> QED BY <1>1, <1>2

\* The first of them is at the new line only if there was none.
LEMMA FirstOfMore ==
    ASSUME NEW n \in Nat, NEW f, NEW g, NEW d, Extends(g, f, n)
    PROVE  AtFirst(g, d) = IF DOMAIN f # {} THEN AtFirst(f, d)
                           ELSE IF n + 1 \in DOMAIN g THEN g[n + 1] ELSE d
<1>0. (\A i : i \in DOMAIN f => i \in 1..n) /\ (\A i : i \in DOMAIN g => i \in 1..(n + 1))
  BY DEF Extends
<1>1. CASE DOMAIN f # {}
  <2>1. DOMAIN f \in SUBSET Nat BY <1>0
  <2>2. PICK x \in DOMAIN f : \A y \in DOMAIN f : x <= y BY <1>1, <2>1, LeastNatural
  <2>3. \A i \in DOMAIN f : (\A j \in DOMAIN f : i <= j) <=> i = x BY <2>2, <1>0
  <2>4. AtFirst(f, d) = f[x] BY <1>1, <2>2, <2>3 DEF AtFirst
  <2>5. x \in DOMAIN g /\ g[x] = f[x] BY <2>2, <1>0 DEF Extends
  <2>6. \A y \in DOMAIN g : y \in DOMAIN f \/ y = n + 1 BY <1>0 DEF Extends
  <2>7. \A y \in DOMAIN g : x <= y BY <2>2, <2>6, <1>0
  <2>8. \A i \in DOMAIN g : (\A j \in DOMAIN g : i <= j) <=> i = x BY <2>5, <2>7, <1>0
  <2>9. AtFirst(g, d) = g[x] BY <2>5, <2>8 DEF AtFirst
  <2> QED BY <1>1, <2>4, <2>5, <2>9
<1>2. CASE DOMAIN f = {} /\ n + 1 \in DOMAIN g
  <2>1. \A i : i \in DOMAIN g <=> i = n + 1 BY <1>0, <1>2 DEF Extends
  <2>2. \A i \in DOMAIN g : (\A j \in DOMAIN g : i <= j) <=> i = n + 1 BY <1>2, <2>1
  <2>3. AtFirst(g, d) = g[n + 1] BY <1>2, <2>2 DEF AtFirst
  <2> QED BY <1>2, <2>3
<1>3. CASE DOMAIN f = {} /\ n + 1 \notin DOMAIN g
  <2>1. DOMAIN g = {} BY <1>0, <1>3 DEF Extends
  <2> QED BY <1>3, <2>1 DEF AtFirst
<1> QED BY <1>1, <1>2, <1>3

\* What a reply says, and who speaks.
LEMMA MoreReplies ==
    ASSUME NEW lines \in Seq(Record), NEW rec \in Record
    PROVE  LET more == Append(lines, rec)
               reply == rec.kind \in {"assistant", "sidechain"}
           IN /\ AtLast(Models(more), NoModel) =
                   IF reply THEN rec.model ELSE AtLast(Models(lines), NoModel)
              /\ AtLast(Efforts(more), NoEffort) =
                   IF reply /\ rec.effort # NoEffort THEN rec.effort
                   ELSE AtLast(Efforts(lines), NoEffort)
              /\ AtLast(Speakers(more), "none") =
                   IF rec.kind \in {"user", "assistant"} THEN rec.kind
                   ELSE AtLast(Speakers(lines), "none")
<1> DEFINE more == Append(lines, rec)
<1>n. PICK n : n = Len(lines) OBVIOUS
<1>1. /\ n \in Nat /\ DOMAIN lines = 1..n /\ DOMAIN more = 1..(n + 1)
      /\ \A i \in 1..n : more[i] = lines[i]
      /\ more[n + 1] = rec
  BY <1>n, OneLineMore
<1> HIDE DEF more
<1>2. Extends(Models(more), Models(lines), n)
  BY <1>1 DEF Extends, Models, Replies
<1>3. Extends(Efforts(more), Efforts(lines), n)
  BY <1>1 DEF Extends, Efforts, Replies
<1>4. Extends(Speakers(more), Speakers(lines), n)
  BY <1>1 DEF Extends, Speakers
<1>5. /\ n + 1 \in DOMAIN Models(more) <=> rec.kind \in {"assistant", "sidechain"}
      /\ n + 1 \in DOMAIN Models(more) => Models(more)[n + 1] = rec.model
  BY <1>1 DEF Models, Replies
<1>6. /\ n + 1 \in DOMAIN Efforts(more)
           <=> rec.kind \in {"assistant", "sidechain"} /\ rec.effort # NoEffort
      /\ n + 1 \in DOMAIN Efforts(more) => Efforts(more)[n + 1] = rec.effort
  BY <1>1 DEF Efforts, Replies
<1>7. /\ n + 1 \in DOMAIN Speakers(more) <=> rec.kind \in {"user", "assistant"}
      /\ n + 1 \in DOMAIN Speakers(more) => Speakers(more)[n + 1] = rec.kind
  BY <1>1 DEF Speakers
<1>8. AtLast(Models(more), NoModel) =
        IF rec.kind \in {"assistant", "sidechain"} THEN rec.model ELSE AtLast(Models(lines), NoModel)
  BY <1>1, <1>2, <1>5, LastOfMore
<1>9. AtLast(Efforts(more), NoEffort) =
        IF rec.kind \in {"assistant", "sidechain"} /\ rec.effort # NoEffort THEN rec.effort
        ELSE AtLast(Efforts(lines), NoEffort)
  BY <1>1, <1>3, <1>6, LastOfMore
<1>10. AtLast(Speakers(more), "none") =
        IF rec.kind \in {"user", "assistant"} THEN rec.kind ELSE AtLast(Speakers(lines), "none")
  BY <1>1, <1>4, <1>7, LastOfMore
<1> QED BY <1>8, <1>9, <1>10 DEF more

\* The first thing asked stays the first.
LEMMA MoreGoals ==
    ASSUME NEW lines \in Seq(Record), NEW rec \in Record
    PROVE  LET more == Append(lines, rec)
               old == AtFirst(Goals(lines), NoText)
           IN /\ AtFirst(Goals(more), NoText) =
                   IF rec.kind = "user" /\ rec.text # Machinery /\ old = NoText
                   THEN rec.text ELSE old
<1> DEFINE more == Append(lines, rec)
<1>n. PICK n : n = Len(lines) OBVIOUS
<1>1. /\ n \in Nat /\ DOMAIN lines = 1..n /\ DOMAIN more = 1..(n + 1)
      /\ \A i \in 1..n : more[i] = lines[i]
      /\ more[n + 1] = rec
  BY <1>n, OneLineMore
<1> HIDE DEF more
<1>2. Extends(Goals(more), Goals(lines), n)
  BY <1>1 DEF Extends, Goals
<1>3. /\ n + 1 \in DOMAIN Goals(more) <=> rec.kind = "user" /\ rec.text # Machinery
      /\ n + 1 \in DOMAIN Goals(more) => Goals(more)[n + 1] = rec.text
  BY <1>1 DEF Goals
<1>4. DOMAIN Goals(lines) = {} <=> AtFirst(Goals(lines), NoText) = NoText
  <2>1. CASE DOMAIN Goals(lines) = {} BY <2>1 DEF AtFirst
  <2>2. CASE DOMAIN Goals(lines) # {}
    <3>1. DOMAIN Goals(lines) \in SUBSET Nat BY <1>1 DEF Goals
    <3>2. PICK x \in DOMAIN Goals(lines) : \A y \in DOMAIN Goals(lines) : x <= y
      BY <2>2, <3>1, LeastNatural
    <3>3. AtFirst(Goals(lines), NoText) \in {Goals(lines)[i] : i \in DOMAIN Goals(lines)}
      BY <2>2, <3>2 DEF AtFirst
    <3>4. \A i \in DOMAIN Goals(lines) : Goals(lines)[i] \in Text
      <4>1. \A i \in DOMAIN lines : lines[i] \in Record OBVIOUS
      <4>2. \A r \in Record : r.kind = "user" => r.text \in Text BY DEF Record
      <4> QED BY <4>1, <4>2 DEF Goals
    <3> QED BY <2>2, <3>3, <3>4, TranscriptAssumption
  <2> QED BY <2>1, <2>2
<1>5. AtFirst(Goals(more), NoText) =
        IF DOMAIN Goals(lines) # {} THEN AtFirst(Goals(lines), NoText)
        ELSE IF n + 1 \in DOMAIN Goals(more) THEN Goals(more)[n + 1] ELSE NoText
  BY <1>1, <1>2, FirstOfMore
<1> QED BY <1>3, <1>4, <1>5 DEF more

\* A reply is one more of its model.
LEMMA MoreCost ==
    ASSUME NEW lines \in Seq(Record), NEW rec \in Record
    PROVE  LET more == Append(lines, rec)
           IN /\ Cost(lines) \in [Model -> Nat]
              /\ Cost(more) = IF rec.kind \in {"assistant", "sidechain"}
                              THEN [Cost(lines) EXCEPT ![rec.model] = @ + 1]
                              ELSE Cost(lines)
<1> DEFINE more == Append(lines, rec)
           of(ls, m) == {i \in Replies(ls) : ls[i].model = m}
<1>n. PICK n : n = Len(lines) OBVIOUS
<1>1. /\ n \in Nat /\ DOMAIN lines = 1..n /\ DOMAIN more = 1..(n + 1)
      /\ \A i \in 1..n : more[i] = lines[i]
      /\ more[n + 1] = rec
  BY <1>n, OneLineMore
<1> HIDE DEF more
<1>2. ASSUME NEW m PROVE IsFiniteSet(of(lines, m)) /\ Cardinality(of(lines, m)) \in Nat
  <2>1. of(lines, m) \in SUBSET (1..n) BY <1>1 DEF Replies
  <2>2. IsFiniteSet(1..n) BY <1>1, FS_Interval
  <2>3. IsFiniteSet(of(lines, m)) BY <2>1, <2>2, FS_Subset
  <2> QED BY <2>3, FS_CardinalityType
<1>3. ASSUME NEW m
      PROVE  Cardinality(of(more, m)) =
               IF rec.kind \in {"assistant", "sidechain"} /\ rec.model = m
               THEN Cardinality(of(lines, m)) + 1 ELSE Cardinality(of(lines, m))
  <2>1. CASE rec.kind \in {"assistant", "sidechain"} /\ rec.model = m
    <3>1. of(more, m) = of(lines, m) \cup {n + 1} BY <1>1, <2>1 DEF Replies
    <3>2. n + 1 \notin of(lines, m) BY <1>1 DEF Replies
    <3> HIDE DEF of
    <3> QED BY <2>1, <3>1, <3>2, <1>2, FS_AddElement
  <2>2. CASE ~(rec.kind \in {"assistant", "sidechain"} /\ rec.model = m)
    <3>1. of(more, m) = of(lines, m) BY <1>1, <2>2 DEF Replies
    <3> HIDE DEF of
    <3> QED BY <2>2, <3>1
  <2> QED BY <2>1, <2>2
<1>4. Cost(lines) = [m \in Model |-> Cardinality(of(lines, m))] BY DEF Cost
<1>5. Cost(more) = [m \in Model |-> Cardinality(of(more, m))] BY DEF Cost
<1> HIDE DEF of
<1>6. Cost(lines) \in [Model -> Nat] BY <1>2, <1>4
<1>7. rec.kind \in {"assistant", "sidechain"} => rec.model \in Model BY DEF Record
<1>8. CASE rec.kind \in {"assistant", "sidechain"}
  <2> DEFINE counted == [Cost(lines) EXCEPT ![rec.model] = @ + 1]
  <2>1. \A m \in Model : Cost(more)[m] = counted[m] BY <1>3, <1>4, <1>5, <1>7, <1>8
  <2>2. /\ Cost(more) = [m \in Model |-> Cost(more)[m]]
        /\ counted = [m \in Model |-> counted[m]]
    BY <1>4, <1>5
  <2> HIDE DEF counted
  <2>3. Cost(more) = counted BY <2>1, <2>2
  <2> QED BY <2>3, <1>6, <1>8 DEF more, counted
<1>9. CASE rec.kind \notin {"assistant", "sidechain"}
  <2>1. \A m \in Model : Cardinality(of(more, m)) = Cardinality(of(lines, m)) BY <1>3, <1>9
  <2>2. Cost(more) = Cost(lines) BY <2>1, <1>4, <1>5
  <2> QED BY <2>2, <1>6, <1>9 DEF more
<1> QED BY <1>8, <1>9

\* Calls: what waited for an answer still does, unless the new line answers it.
LEMMA MoreCalls ==
    ASSUME NEW lines \in Seq(Record), NEW rec \in Record
    PROVE  LET more == Append(lines, rec)
           IN InProgress(more) =
                CASE rec.kind = "assistant" -> InProgress(lines) \cup rec.calls
                  [] rec.kind = "result"    -> {c \in InProgress(lines) : c.id # rec.id}
                  [] OTHER                  -> InProgress(lines)
<1> DEFINE more == Append(lines, rec)
<1>n. PICK n : n = Len(lines) OBVIOUS
<1>1. /\ n \in Nat /\ DOMAIN lines = 1..n /\ DOMAIN more = 1..(n + 1)
      /\ Len(more) = n + 1
      /\ \A i \in 1..n : more[i] = lines[i]
      /\ more[n + 1] = rec
  BY <1>n, OneLineMore
<1> HIDE DEF more
<1>2. \A c : c \in InProgress(lines) <=> \E i \in 1..n : Waits(lines, c, i, n)
  <2>1. \A c, i : i \in 1..n /\ Waits(lines, c, i, n) => c \in Made(lines)
    BY <1>1 DEF Waits, Made
  <2> QED BY <1>1, <1>n, <2>1 DEF InProgress
<1>3. \A c : c \in InProgress(more) <=> \E i \in 1..(n + 1) : Waits(more, c, i, n + 1)
  <2>1. \A c, i : i \in 1..(n + 1) /\ Waits(more, c, i, n + 1) => c \in Made(more)
    BY <1>1 DEF Waits, Made
  <2> QED BY <1>1, <2>1 DEF InProgress
<1>4. ASSUME NEW c, NEW i \in 1..n
      PROVE  Waits(more, c, i, n + 1)
               <=> Waits(lines, c, i, n) /\ ~(rec.kind = "result" /\ rec.id = c.id)
  <2>1. \A j : j \in (i + 1)..(n + 1) <=> j \in (i + 1)..n \/ j = n + 1 BY <1>1
  <2>2. \A j \in (i + 1)..n : more[j] = lines[j] BY <1>1
  <2> QED BY <1>1, <2>1, <2>2 DEF Waits
<1>5. ASSUME NEW c
      PROVE  Waits(more, c, n + 1, n + 1) <=> rec.kind = "assistant" /\ c \in rec.calls
  BY <1>1 DEF Waits
<1>6. ASSUME NEW c
      PROVE  c \in InProgress(more)
               <=> \/ c \in InProgress(lines) /\ ~(rec.kind = "result" /\ rec.id = c.id)
                   \/ rec.kind = "assistant" /\ c \in rec.calls
  <2>1. \A i : i \in 1..(n + 1) <=> i \in 1..n \/ i = n + 1 BY <1>1
  <2> QED BY <1>2, <1>3, <1>4, <1>5, <2>1
<1>7. CASE rec.kind = "assistant" BY <1>6, <1>7 DEF more
<1>8. CASE rec.kind = "result" BY <1>6, <1>8 DEF more
<1>9. CASE rec.kind \notin {"assistant", "result"} BY <1>6, <1>9 DEF more
<1> QED BY <1>7, <1>8, <1>9

\* A new line is the task only if it is a result that delivers.
LEMMA MoreTasks ==
    ASSUME NEW lines \in Seq(Record), NEW rec \in Record
    PROVE  LET more == Append(lines, rec)
           IN AtLast(Tasks(more), NoText) =
                IF /\ rec.kind = "result" /\ ~rec.error /\ rec.text # Failure
                   /\ \E c \in InProgress(lines) : c.id = rec.id /\ c.recv
                THEN rec.text ELSE AtLast(Tasks(lines), NoText)
<1> DEFINE more == Append(lines, rec)
<1>n. PICK n : n = Len(lines) OBVIOUS
<1>1. /\ n \in Nat /\ DOMAIN lines = 1..n /\ DOMAIN more = 1..(n + 1)
      /\ \A i \in 1..n : more[i] = lines[i]
      /\ more[n + 1] = rec
  BY <1>n, OneLineMore
<1> HIDE DEF more
<1>2. \A c : c \in InProgress(lines) <=> \E i \in 1..n : Waits(lines, c, i, n)
  <2>1. \A c, i : i \in 1..n /\ Waits(lines, c, i, n) => c \in Made(lines)
    BY <1>1 DEF Waits, Made
  <2> QED BY <1>1, <1>n, <2>1 DEF InProgress
<1>3. \A c, k, i : k \in 1..(n + 1) /\ i \in 1..(k - 1)
         => (Waits(more, c, i, k - 1) <=> Waits(lines, c, i, k - 1))
  BY <1>1 DEF Waits
<1>4. /\ \A c, i, k : i \in 1..n /\ Waits(lines, c, i, k) => c \in Made(lines)
      /\ \A c : c \in Made(lines) => c \in Made(more)
  BY <1>1 DEF Waits, Made
<1>5. ASSUME NEW k \in 1..n PROVE Delivers(more, k) <=> Delivers(lines, k)
  <2>1. more[k] = lines[k] /\ k - 1 \in Nat /\ k - 1 <= n /\ k \in 1..(n + 1) BY <1>1
  <2>2. \A i \in 1..(k - 1) : i \in 1..n BY <1>1
  <2> QED BY <1>3, <1>4, <2>1, <2>2 DEF Delivers
<1>6. Delivers(more, n + 1)
        <=> /\ rec.kind = "result" /\ ~rec.error /\ rec.text # Failure
            /\ \E c \in InProgress(lines) : c.id = rec.id /\ c.recv
  <2>1. n + 1 \in 1..(n + 1) /\ (n + 1) - 1 = n BY <1>1
  <2> QED BY <1>1, <1>2, <1>3, <1>4, <2>1 DEF Delivers
<1>7. Extends(Tasks(more), Tasks(lines), n) BY <1>1, <1>5 DEF Extends, Tasks
<1>8. /\ n + 1 \in DOMAIN Tasks(more) <=> Delivers(more, n + 1)
      /\ n + 1 \in DOMAIN Tasks(more) => Tasks(more)[n + 1] = rec.text
  BY <1>1 DEF Tasks
<1>9. AtLast(Tasks(more), NoText) =
        IF n + 1 \in DOMAIN Tasks(more) THEN Tasks(more)[n + 1] ELSE AtLast(Tasks(lines), NoText)
  BY <1>1, <1>7, LastOfMore
<1> QED BY <1>6, <1>8, <1>9 DEF more

-----------------------------------------------------------------------------
\* The account of no lines is what parse begins with.
LEMMA AccountOfNothing == AccountOf(<<>>) = Start
<1>1. DOMAIN <<>> = {} /\ Len(<<>>) = 0 OBVIOUS
<1>2. Replies(<<>>) = {} /\ Made(<<>>) = {} /\ InProgress(<<>>) = {}
  BY <1>1 DEF Replies, Made, InProgress
<1>3. /\ DOMAIN Models(<<>>) = {} /\ DOMAIN Efforts(<<>>) = {} /\ DOMAIN Speakers(<<>>) = {}
      /\ DOMAIN Goals(<<>>) = {} /\ DOMAIN Tasks(<<>>) = {}
  BY <1>1, <1>2 DEF Models, Efforts, Speakers, Goals, Tasks
<1>4. Cost(<<>>) = [m \in Model |-> 0]
  <2>1. \A m \in Model : {i \in Replies(<<>>) : <<>>[i].model = m} = {} BY <1>2
  <2>2. Cardinality({}) = 0 BY FS_EmptySet
  <2> QED BY <2>1, <2>2 DEF Cost
<1> QED BY <1>2, <1>3, <1>4 DEF AccountOf, AtLast, AtFirst, Start

\* The account of a file grows by a Step with every line of it.
LEMMA AccountGrows ==
    ASSUME NEW lines \in Seq(Record), NEW rec \in Record
    PROVE  AccountOf(Append(lines, rec)) = Step(AccountOf(lines), rec)
<1> DEFINE more == Append(lines, rec)
           reply == rec.kind \in {"assistant", "sidechain"}
           delivered == /\ rec.kind = "result" /\ ~rec.error /\ rec.text # Failure
                        /\ \E c \in InProgress(lines) : c.id = rec.id /\ c.recv
<1> PICK s : s = AccountOf(lines) OBVIOUS
<1>1. /\ s.model = AtLast(Models(lines), NoModel) /\ s.effort = AtLast(Efforts(lines), NoEffort)
      /\ s.lastRole = AtLast(Speakers(lines), "none")
      /\ s.goal = AtFirst(Goals(lines), NoText) /\ s.task = AtLast(Tasks(lines), NoText)
      /\ s.billed = Cost(lines) /\ s.pending = InProgress(lines)
      /\ DOMAIN s = {"pending", "lastRole", "model", "effort", "billed", "goal", "task"}
  BY DEF AccountOf
<1>2. s = [pending |-> s.pending, lastRole |-> s.lastRole, model |-> s.model,
           effort |-> s.effort, billed |-> s.billed, goal |-> s.goal, task |-> s.task]
  BY DEF AccountOf
<1>3. /\ AtLast(Models(more), NoModel) = IF reply THEN rec.model ELSE s.model
      /\ AtLast(Efforts(more), NoEffort) =
           IF reply /\ rec.effort # NoEffort THEN rec.effort ELSE s.effort
      /\ AtLast(Speakers(more), "none") =
           IF rec.kind \in {"user", "assistant"} THEN rec.kind ELSE s.lastRole
  BY <1>1, MoreReplies
<1>4. AtFirst(Goals(more), NoText) =
        IF rec.kind = "user" /\ rec.text # Machinery /\ s.goal = NoText THEN rec.text ELSE s.goal
  BY <1>1, MoreGoals
<1>5. Cost(more) = IF reply THEN [s.billed EXCEPT ![rec.model] = @ + 1] ELSE s.billed
  BY <1>1, MoreCost
<1>6. InProgress(more) = CASE rec.kind = "assistant" -> s.pending \cup rec.calls
                           [] rec.kind = "result"    -> {c \in s.pending : c.id # rec.id}
                           [] OTHER                  -> s.pending
  BY <1>1, MoreCalls
<1>7. AtLast(Tasks(more), NoText) = IF delivered THEN rec.text ELSE s.task
  BY <1>1, MoreTasks
<1>8. AccountOf(more) = [pending |-> InProgress(more), lastRole |-> AtLast(Speakers(more), "none"),
                         model |-> AtLast(Models(more), NoModel),
                         effort |-> AtLast(Efforts(more), NoEffort), billed |-> Cost(more),
                         goal |-> AtFirst(Goals(more), NoText), task |-> AtLast(Tasks(more), NoText)]
  BY DEF AccountOf
<1> HIDE DEF more
<1>9. CASE rec.kind = "user"
  <2>1. Step(s, rec) = [s EXCEPT !.lastRole = "user",
                                 !.goal = IF @ = NoText /\ rec.text # Machinery
                                          THEN rec.text ELSE @]
    BY <1>9 DEF Step, OnUser
  <2>2. ~reply /\ ~delivered BY <1>9
  <2>3. AccountOf(more) =
          [pending |-> s.pending, lastRole |-> "user", model |-> s.model,
           effort |-> s.effort, billed |-> s.billed,
           goal |-> IF s.goal = NoText /\ rec.text # Machinery THEN rec.text ELSE s.goal,
           task |-> s.task]
    BY <1>3, <1>4, <1>5, <1>6, <1>7, <1>8, <1>9, <2>2
  <2> QED BY <1>2, <2>1, <2>3 DEF more
<1>10. CASE rec.kind = "assistant"
  <2>1. Step(s, rec) = [Billed(s, rec) EXCEPT !.lastRole = "assistant",
                                              !.pending = @ \cup rec.calls]
    BY <1>10 DEF Step, OnAssistant
  <2>2. AccountOf(more) =
          [pending |-> s.pending \cup rec.calls, lastRole |-> "assistant", model |-> rec.model,
           effort |-> IF rec.effort = NoEffort THEN s.effort ELSE rec.effort,
           billed |-> [s.billed EXCEPT ![rec.model] = @ + 1],
           goal |-> s.goal, task |-> s.task]
    BY <1>3, <1>4, <1>5, <1>6, <1>7, <1>8, <1>10
  <2> QED BY <1>2, <2>1, <2>2 DEF more, Billed
<1>11. CASE rec.kind = "result"
  <2>1. Step(s, rec) = [s EXCEPT !.pending = {c \in s.pending : c.id # rec.id},
                                 !.task = IF delivered THEN rec.text ELSE s.task]
    BY <1>1, <1>2, <1>11 DEF Step, OnResult
  <2>2. ~reply BY <1>11
  <2>3. AccountOf(more) =
          [pending |-> {c \in s.pending : c.id # rec.id}, lastRole |-> s.lastRole,
           model |-> s.model, effort |-> s.effort, billed |-> s.billed,
           goal |-> s.goal, task |-> IF delivered THEN rec.text ELSE s.task]
    BY <1>3, <1>4, <1>5, <1>6, <1>7, <1>8, <1>11, <2>2
  <2> HIDE DEF delivered
  <2> QED BY <1>2, <2>1, <2>3 DEF more
<1>12. CASE rec.kind = "sidechain"
  <2>1. Step(s, rec) = Billed(s, rec) BY <1>12 DEF Step
  <2>2. AccountOf(more) =
          [pending |-> s.pending, lastRole |-> s.lastRole, model |-> rec.model,
           effort |-> IF rec.effort = NoEffort THEN s.effort ELSE rec.effort,
           billed |-> [s.billed EXCEPT ![rec.model] = @ + 1],
           goal |-> s.goal, task |-> s.task]
    BY <1>3, <1>4, <1>5, <1>6, <1>7, <1>8, <1>12
  <2> QED BY <1>2, <2>1, <2>2 DEF more, Billed
<1>13. CASE rec.kind = "noise"
  <2>1. Step(s, rec) = s BY <1>13 DEF Step
  <2>2. ~reply /\ ~delivered BY <1>13
  <2>3. AccountOf(more) = s BY <1>2, <1>3, <1>4, <1>5, <1>6, <1>7, <1>8, <1>13, <2>2
  <2> QED BY <2>1, <2>3 DEF more
<1>14. rec.kind \in {"user", "assistant", "result", "sidechain", "noise"} BY DEF Record
<1> QED BY <1>9, <1>10, <1>11, <1>12, <1>13, <1>14

\* Whatever lines a transcript has and however many, what parse ends with, having
\* gone over them once and kept none, is what the whole file says: the calls that no
\* later line answered, the last to speak, the last model and effort, the replies of
\* each model, the first thing asked, the last task delivered.
THEOREM ParseReadsTheFile == \A lines \in Seq(Record) : After(lines) = AccountOf(lines)
<1> DEFINE Wrong(lines) == After(lines) # AccountOf(lines)
           T == {n \in Nat : \E lines \in Seq(Record) : Len(lines) = n /\ Wrong(lines)}
<1> SUFFICES ASSUME T # {} PROVE FALSE
  BY LenProperties
<1>1. PICK n \in T : \A m \in T : n <= m BY LeastNatural
<1>2. PICK lines \in Seq(Record) : Len(lines) = n /\ Wrong(lines) BY <1>1
<1>3. lines # <<>> BY <1>2, AfterEmpty, AccountOfNothing
<1>4. PICK first \in Seq(Record), rec \in Record : lines = Append(first, rec)
  BY <1>3, SequenceEmptyOrAppend
<1>5. Len(first) \in Nat /\ Len(first) < n BY <1>2, <1>4
<1>6. Len(first) \notin T BY <1>1, <1>5
<1>7. After(first) = AccountOf(first) BY <1>5, <1>6
<1>8. After(lines) = AccountOf(lines) BY <1>4, <1>7, AfterAppend, AccountGrows
<1> QED BY <1>2, <1>8
=============================================================================
