--------------------------- MODULE ArtifactHistory ---------------------------
(***************************************************************************)
(* What publication promises, with every request taken as one step: an     *)
(* artifact is a sequence of versions, each made from the one before it.   *)
(* An append keeps all of the previous body, an edit keeps part of it, and *)
(* a replacement keeps none.  Nothing that was published is rewritten, and *)
(* a deleted artifact never returns.                                       *)
(***************************************************************************)
EXTENDS Integers, Sequences

CONSTANTS Artifact, Contribution

VARIABLES
  history,  \* per artifact, its versions in order of their number
  live      \* the artifacts that exist

Body(s)  == history[s][Len(history[s])].body
Known(s) == UNION {history[s][i].body : i \in DOMAIN history[s]}

Extend(s, op, body) == history' = [history EXCEPT ![s] = Append(@, [op |-> op, body |-> body])]

Init ==
  /\ history = [s \in Artifact |-> <<>>]
  /\ live = {}

Create(s) ==
  /\ history[s] = <<>>
  /\ \E own \in SUBSET Contribution : Extend(s, "create", own)
  /\ live' = live \cup {s}

Replace(s) ==
  /\ s \in live
  /\ \E own \in SUBSET (Contribution \ Known(s)) : Extend(s, "replace", own)
  /\ UNCHANGED live

\* Everything the version before it said is still said.
AppendTo(s) ==
  /\ s \in live
  /\ \E c \in Contribution \ Known(s) : Extend(s, "append", Body(s) \cup {c})
  /\ UNCHANGED live

\* Whatever is not new comes from the version before it, not an older one.
Edit(s) ==
  /\ s \in live
  /\ \E kept \in SUBSET Body(s), own \in SUBSET (Contribution \ Known(s)) :
       Extend(s, "edit", kept \cup own)
  /\ UNCHANGED live

Delete(s) ==
  /\ s \in live
  /\ live' = live \ {s}
  /\ UNCHANGED history

Next ==
  /\ <<history, live>>' # <<history, live>>
  /\ \E s \in Artifact : Create(s) \/ Replace(s) \/ AppendTo(s) \/ Edit(s) \/ Delete(s)

Spec == Init /\ [][Next]_<<history, live>>
=============================================================================
