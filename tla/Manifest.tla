------------------------------ MODULE Manifest ------------------------------
(***************************************************************************)
(* The mapping manifest: which launcher, model and effort a session can be *)
(* started with, and the ids and labels derived from those fields.         *)
(*                                                                         *)
(* A text is one of a few values; all that is said of it is the name left  *)
(* when the provider is dropped (shortOf) and the words left when it is    *)
(* made id-safe (wordsOf).  An id joins the words of its parts with "-",   *)
(* so two ids are equal exactly when they are the same sequence of words,  *)
(* whichever fields the words came from.                                   *)
(***************************************************************************)
EXTENDS Names, Naturals, Sequences

CONSTANTS Launcher,                  \* what else the fields of an entry may hold
          NoLauncher,                \* stands in a label that names no launcher
          Short, Word,
          shortOf,                   \* _short_model
          wordsOf,                   \* slug, <<>> where nothing id-safe is left
          Missing,                   \* there is no file
          NoEntry

\* One member of the array.  A member that fails a check of its own fields, or
\* that is no object at all, is flawed.  So is one whose derived id does not match
\* ID_RE: an id begins with the slug of its model, slugs hold no other characters
\* than ID_RE allows, and so only the first one of that slug can fail.
Entry == [launcher : Launcher, model : Model, effort : Effort, flawed : BOOLEAN]

ASSUME ManifestAssumption == /\ shortOf \in [Model -> Short]
                             /\ wordsOf \in [Short \cup Effort \cup Launcher -> Seq(Word)]
                             /\ NoEffort \in Effort /\ wordsOf[NoEffort] = <<>>
                             /\ NoLauncher \notin Launcher
                             /\ NoEntry \notin Entry
                             /\ Missing \notin Seq(Entry)

-----------------------------------------------------------------------------
(* Ids and labels. *)

EntryId(e, withLauncher) == wordsOf[shortOf[e.model]] \o wordsOf[e.effort]
                               \o (IF withLauncher THEN wordsOf[e.launcher] ELSE <<>>)

Display(e, withLauncher) == <<shortOf[e.model], e.effort,
                              IF withLauncher THEN e.launcher ELSE NoLauncher>>

Namesakes(f, i) == {j \in DOMAIN f \ {i} : EntryId(f[j], FALSE) = EntryId(f[i], FALSE)}
Lookalikes(f, i) == {j \in DOMAIN f \ {i} : Display(f[j], FALSE) = Display(f[i], FALSE)}

\* Mutant: only the later members of a group carry their launcher.
Ids_LaterOnly(f) == [i \in DOMAIN f |->
                       EntryId(f[i], \E j \in Namesakes(f, i) : j < i)]

\* Every member of a group that shares a base id carries its launcher.
Ids(f) == [i \in DOMAIN f |-> EntryId(f[i], Namesakes(f, i) # {})]

Labels(f) == [i \in DOMAIN f |-> Display(f[i], Lookalikes(f, i) # {})]

-----------------------------------------------------------------------------
(* validate, load, find. *)

\* Mutant: ids are taken to be distinct.
Valid_NoDuplicateCheck(f) ==
    /\ f # <<>>
    /\ \A i \in DOMAIN f : ~f[i].flawed /\ wordsOf[shortOf[f[i].model]] # <<>>

Valid(f) == /\ f # <<>>
            /\ \A i \in DOMAIN f : ~f[i].flawed /\ wordsOf[shortOf[f[i].model]] # <<>>
            /\ \A i, j \in DOMAIN f : i # j => Ids(f)[i] # Ids(f)[j]

Loads(f) == f # Missing /\ Valid(f)

\* The first entry of that id.
Find(f, id) == LET hits == {i \in DOMAIN f : Ids(f)[i] = id}
               IN IF hits = {} THEN NoEntry
                  ELSE f[CHOOSE i \in hits : \A j \in hits : i <= j]
=============================================================================
