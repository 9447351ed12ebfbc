--------------------------- MODULE CredentialEntry ---------------------------
(***************************************************************************)
(* What a native credential store promises its caller: one entry, which a  *)
(* save replaces in one step and a removal empties in one step, whether or *)
(* not the call ever answers.                                              *)
(***************************************************************************)
CONSTANTS Procs, Values, None

VARIABLES
    entry,   \* the credential a reader would find, or None
    call,    \* the call of each process
    answer   \* what the last call of each process answered

Idle == [kind |-> "none", value |-> None, done |-> FALSE]

Init == entry \in Values \union {None} /\ call = [p \in Procs |-> Idle]
    /\ answer = [p \in Procs |-> <<"none", None>>]

Begin(p) ==
    /\ call[p] = Idle
    /\ \E kind \in {"read", "write", "remove"}, v \in Values \union {None} :
          call' = [call EXCEPT ![p] = [kind |-> kind, value |-> v, done |-> FALSE]]
    /\ UNCHANGED <<entry, answer>>

\* The one step in which a save or a removal takes effect.
Take(p) ==
    /\ call[p].kind \in {"write", "remove"}
    /\ ~call[p].done
    /\ entry' = IF call[p].kind = "write" THEN call[p].value ELSE None
    /\ call' = [call EXCEPT ![p].done = TRUE]
    /\ UNCHANGED answer

\* A read answers the entry; a save or a removal says ok only once it has taken
\* effect, at the latest in this step. A call that fails promises nothing.
Answer(p) ==
    /\ call[p] # Idle
    /\ \/ call[p].kind = "read" /\ answer' = [answer EXCEPT ![p] = <<"read", entry>>]
       \/ call[p].done /\ answer' = [answer EXCEPT ![p] = <<call[p].kind, call[p].value>>]
       \/ call[p].kind = "remove" /\ entry = None /\ answer' = [answer EXCEPT ![p] = <<"absent", None>>]
       \/ \E said \in {"failed", "unread"} : answer' = [answer EXCEPT ![p] = <<said, None>>]
    /\ call' = [call EXCEPT ![p] = Idle]
    /\ UNCHANGED entry

TakeAndAnswer(p) ==
    /\ call[p].kind \in {"write", "remove"}
    /\ ~call[p].done
    /\ entry' = IF call[p].kind = "write" THEN call[p].value ELSE None
    /\ answer' = [answer EXCEPT ![p] = <<call[p].kind, call[p].value>>]
    /\ call' = [call EXCEPT ![p] = Idle]

Killed(p) == call[p] # Idle /\ call' = [call EXCEPT ![p] = Idle] /\ UNCHANGED <<entry, answer>>

Next == \E p \in Procs : Begin(p) \/ Take(p) \/ Answer(p) \/ TakeAndAnswer(p) \/ Killed(p)

vars == <<entry, call, answer>>

Spec == Init /\ [][Next]_vars
=============================================================================
