-------------------------- MODULE WindowsCredential --------------------------
(***************************************************************************)
(* The Windows credential store of the CLI. Credential Manager holds small *)
(* blobs, so a credential longer than one blob is cut into chunks behind a *)
(* manifest in the entry itself. Each call of the CLI runs a script whose  *)
(* calls of the operating system are the steps here: every one may fail,   *)
(* and the script may be killed between any two.                           *)
(***************************************************************************)
EXTENDS Naturals, FiniteSets

CONSTANTS
    Procs,      \* processes of the CLI
    Values,     \* credentials
    Pieces,     \* how many chunks each takes
    None,
    MaxWrites,  \* saves that cut into chunks
    MaxFaults,  \* calls of the operating system that fail
    MaxKills    \* scripts that are killed

WindowsAssumption ==
    /\ Pieces \in [Values -> Nat \ {0}]
    /\ None \notin Values
    /\ {MaxWrites, MaxFaults, MaxKills} \subseteq Nat

Versions == 1 .. MaxWrites
NoManifest == [version |-> 0, count |-> 0]
Manifests == [version: Versions \union {0}, count: Nat]

VARIABLES
    target,   \* the entry of the account
    chunks,   \* the chunk entries, by version and index
    call,     \* the script of each process
    answer,   \* what the last call of each process answered
    used,     \* versions that were taken
    faults,
    kills,
    raced     \* two scripts have run at once

vars == <<target, chunks, call, answer, used, faults, kills, raced>>

\* The entry: a value, or a manifest with one of three markers.
Plain(v) == [mark |-> IF v = None THEN "none" ELSE "value", value |-> v,
             active |-> NoManifest, stale |-> NoManifest]
Behind(mark, active, stale) ==
    [mark |-> mark, value |-> None, active |-> active, stale |-> stale]

Keys(m) == {[version |-> m.version, index |-> i] : i \in 1 .. m.count}
Present(m) == \A k \in Keys(m) : \E c \in chunks : c.key = k
Of(m) == {c.value : c \in {d \in chunks : d.key \in Keys(m)}}

\* What a read that nothing disturbs would find.
Content ==
    CASE target.mark = "value" -> target.value
      [] target.mark \in {"chunks", "cleanup"} /\ Present(target.active) ->
            CHOOSE v \in Of(target.active) : TRUE
      [] OTHER -> None

Idle == [kind |-> "none", value |-> None, step |-> "idle", old |-> NoManifest, new |-> NoManifest,
         at |-> 1, found |-> {}, then |-> "idle", alone |-> FALSE]

Init ==
    /\ target \in {Plain(v) : v \in {w \in Values : Pieces[w] = 1} \union {None}}
    /\ chunks = {}
    /\ call = [p \in Procs |-> Idle]
    /\ answer = [p \in Procs |-> <<"none", None>>]
    /\ used = 0
    /\ faults = 0
    /\ kills = 0
    /\ raced = FALSE

To(p, fields) == call' = [call EXCEPT ![p] = fields]
End(p, said) == call' = [call EXCEPT ![p] = Idle] /\ answer' = [answer EXCEPT ![p] = said]
Same == UNCHANGED <<used, faults, kills, raced>>
Delete(k) == chunks' = {c \in chunks : c.key # k}
Key(m, i) == [version |-> m.version, index |-> i]

-----------------------------------------------------------------------------
\* A call of the CLI starts its script. A removal reads first.
Begin(p, kind, v) ==
    LET others == \E q \in Procs \ {p} : call[q].step # "idle" IN
    /\ call[p].step = "idle"
    /\ kind = "write" => used + Cardinality({q \in Procs : call[q].kind = "write"}) < MaxWrites
    /\ call' = [q \in Procs |->
                  IF q = p THEN [Idle EXCEPT !.kind = kind, !.value = v, !.alone = ~others,
                                             !.step = IF kind = "write" THEN "look" ELSE "read"]
                  ELSE [call[q] EXCEPT !.alone = FALSE]]
    /\ raced' = (raced \/ others)
    /\ UNCHANGED <<target, chunks, answer, used, faults, kills>>

(* read                                                                    *)

\* A removal goes on when the read found something.
Finds(p, v) ==
    IF call[p].kind = "read" THEN End(p, <<"read", v>>)
    ELSE IF v = None THEN End(p, <<"absent", None>>)
    ELSE To(p, [call[p] EXCEPT !.step = "lookDelete", !.found = {}, !.old = NoManifest, !.at = 1])
         /\ UNCHANGED answer

ReadEntry(p) ==
    /\ call[p].step = "read"
    /\ IF target.mark \in {"chunks", "cleanup"}
       THEN To(p, [call[p] EXCEPT !.step = "readChunk", !.old = target.active])
            /\ UNCHANGED answer
       ELSE Finds(p, target.value)
    /\ UNCHANGED <<target, chunks>> /\ Same

ReadChunk(p) ==
    LET o == call[p]
        here == {c \in chunks : c.key = Key(o.old, o.at)}
        seen == o.found \union {c.value : c \in here}
    IN
    /\ o.step = "readChunk"
    /\ IF here = {} THEN Finds(p, None)
       ELSE IF o.at < o.old.count
            THEN To(p, [o EXCEPT !.at = @ + 1, !.found = seen]) /\ UNCHANGED answer
            ELSE \E v \in seen : Finds(p, v)
    /\ UNCHANGED <<target, chunks>> /\ Same

(* Remove-CredentialChunks                                                 *)

Clear(p, m, then) == [call[p] EXCEPT !.step = "clear", !.old = m, !.at = 1, !.then = then]

ClearChunk(p) ==
    LET o == call[p] IN
    /\ o.step = "clear"
    /\ Delete(Key(o.old, o.at))
    /\ IF o.at < o.old.count THEN To(p, [o EXCEPT !.at = @ + 1])
       ELSE To(p, [o EXCEPT !.step = o.then, !.at = 1, !.old = NoManifest])
    /\ UNCHANGED <<target, answer>> /\ Same

(* write                                                                   *)

NewVersion(p) == [version |-> used + 1, count |-> Pieces[call[p].value]]

Look(p) ==
    /\ call[p].step = "look"
    /\ CASE target.mark = "cleanup" -> To(p, [Clear(p, target.stale, "settle") EXCEPT !.new = target.active])
         [] target.mark = "deleting" -> To(p, Clear(p, target.active, "choose"))
         [] OTHER -> To(p, [call[p] EXCEPT !.step = "choose", !.old = target.active])
    /\ UNCHANGED <<target, chunks, answer>> /\ Same

\* The chunks of the save before last are gone: its manifest is plain again.
Settle(p) ==
    /\ call[p].step = "settle"
    /\ target' = Behind("chunks", call[p].new, NoManifest)
    /\ To(p, [call[p] EXCEPT !.step = "choose", !.old = call[p].new])
    /\ UNCHANGED <<chunks, answer>> /\ Same

Choose(p) ==
    LET o == call[p] IN
    /\ o.step = "choose"
    /\ IF Pieces[o.value] = 1 /\ o.old = NoManifest
       THEN To(p, [o EXCEPT !.step = "put"]) /\ UNCHANGED used
       ELSE /\ used' = used + 1
            /\ To(p, [o EXCEPT !.step = "chunk", !.new = NewVersion(p), !.at = 1])
    /\ UNCHANGED <<target, chunks, answer, faults, kills, raced>>

Put(p) ==
    /\ call[p].step = "put"
    /\ target' = Plain(call[p].value)
    /\ End(p, <<"write", call[p].value>>)
    /\ UNCHANGED chunks /\ Same

WriteChunk(p) ==
    LET o == call[p]
        after == IF o.old = NoManifest THEN "publish" ELSE "mark"
    IN
    /\ o.step = "chunk"
    /\ chunks' = {c \in chunks : c.key # Key(o.new, o.at)}
                   \union {[key |-> Key(o.new, o.at), value |-> o.value]}
    /\ To(p, IF o.at < o.new.count THEN [o EXCEPT !.at = @ + 1]
             ELSE [o EXCEPT !.step = after, !.at = o.new.count + 1])
    /\ UNCHANGED <<target, answer>> /\ Same

\* The entry names the new chunks and the ones to be cleaned up, in one write.
Mark(p) ==
    /\ call[p].step = "mark"
    /\ target' = Behind("cleanup", call[p].new, call[p].old)
    /\ To(p, Clear(p, call[p].old, "publish"))
    /\ UNCHANGED <<chunks, answer>> /\ Same

Publish(p) ==
    /\ call[p].step = "publish"
    /\ target' = Behind("chunks", call[p].new, NoManifest)
    /\ End(p, <<"write", call[p].value>>)
    /\ UNCHANGED chunks /\ Same

\* The chunks written by a save that failed before it was marked go again.
UndoChunk(p) ==
    LET o == call[p] IN
    /\ o.step = "undo"
    /\ Delete(Key(o.new, o.at - 1))
    /\ IF o.at > 2 THEN To(p, [o EXCEPT !.at = @ - 1]) /\ UNCHANGED answer
       ELSE End(p, <<"failed", None>>)
    /\ UNCHANGED target /\ Same

(* delete                                                                  *)

LookDelete(p) ==
    /\ call[p].step = "lookDelete"
    /\ CASE target.mark = "cleanup" -> To(p, [Clear(p, target.stale, "deleting") EXCEPT !.new = target.active])
         [] target.mark \in {"chunks", "deleting"} ->
                To(p, [call[p] EXCEPT !.step = "deleting", !.new = target.active])
         [] OTHER -> To(p, [call[p] EXCEPT !.step = "drop"])
    /\ UNCHANGED <<target, chunks, answer>> /\ Same

Deleting(p) ==
    /\ call[p].step = "deleting"
    /\ target' = Behind("deleting", call[p].new, NoManifest)
    /\ To(p, Clear(p, call[p].new, "drop"))
    /\ UNCHANGED <<chunks, answer>> /\ Same

Drop(p) ==
    /\ call[p].step = "drop"
    /\ target' = Plain(None)
    /\ End(p, <<"remove", None>>)
    /\ UNCHANGED chunks /\ Same

(* failures                                                                *)

\* mutant: the catch leaves what the save wrote
UndoesNothing(o) == FALSE

\* The catch of a save deletes what it wrote, until the entry was marked.
Undoes(o) == o.kind = "write" /\ o.step \in {"chunk", "mark", "publish"} /\ o.at > 1

\* A read that fails is null as well: a removal then says that nothing was there.
Fault(p) ==
    LET o == call[p] IN
    /\ o.step \notin {"idle", "choose"}
    /\ faults < MaxFaults
    /\ faults' = faults + 1
    /\ IF Undoes(o) THEN To(p, [o EXCEPT !.step = "undo"]) /\ UNCHANGED answer
       ELSE End(p, <<IF o.step \in {"read", "readChunk"} THEN "unread" ELSE "failed", None>>)
    /\ UNCHANGED <<target, chunks, used, kills, raced>>

Kill(p) ==
    /\ call[p].step # "idle"
    /\ kills < MaxKills
    /\ kills' = kills + 1
    /\ call' = [call EXCEPT ![p] = Idle]
    /\ UNCHANGED <<target, chunks, answer, used, faults, raced>>

-----------------------------------------------------------------------------
Next ==
    \E p \in Procs :
        \/ \E v \in Values : Begin(p, "write", v)
        \/ \E kind \in {"read", "remove"} : Begin(p, kind, None)
        \/ ReadEntry(p) \/ ReadChunk(p) \/ ClearChunk(p)
        \/ Look(p) \/ Settle(p) \/ Choose(p) \/ Put(p) \/ WriteChunk(p) \/ Mark(p) \/ Publish(p)
        \/ UndoChunk(p) \/ LookDelete(p) \/ Deleting(p) \/ Drop(p)
        \/ Fault(p) \/ Kill(p)

Spec == Init /\ [][Next]_vars

-----------------------------------------------------------------------------
TypeOK ==
    /\ target \in [mark: {"none", "value", "chunks", "cleanup", "deleting"}, value: Values \union {None},
                   active: Manifests, stale: Manifests]
    /\ \A c \in chunks : c.value \in Values /\ c.key.version \in Versions
    /\ used \in 0 .. MaxWrites
    /\ faults \in 0 .. MaxFaults /\ kills \in 0 .. MaxKills
    /\ \A p \in Procs : call[p].found \subseteq Values

\* What has taken effect of a call: a save once the entry names its chunks, a
\* removal once the entry says so.
Done(o) ==
    \/ o.step = "clear" /\ o.then \in {"publish", "drop"}
    \/ o.step = "publish" /\ o.at = 1
    \/ o.step = "drop" /\ o.new # NoManifest

Entry == INSTANCE CredentialEntry WITH
    entry <- Content,
    call <- [p \in Procs |-> [kind |-> call[p].kind, value |-> call[p].value, done |-> Done(call[p])]]

\* The scripts keep the promise of one entry when one process uses it, wherever a
\* call fails or a script is killed: the credential is the old one or the new
\* one, never a part of one and never lost.
KeepsThePromise == Entry!Spec

\* The chunks of one read are of one credential, whatever else runs.
ReadsOneCredential == \A p \in Procs : Cardinality(call[p].found) <= 1

\* A save that ran while no other script did, and said ok, is what is read then,
\* whatever the scripts before it left behind.
SaveRepairs ==
    \A p \in Procs :
        (call[p].alone /\ call[p].kind = "write" /\ call'[p] = Idle /\ kills' = kills
            /\ answer'[p] = <<"write", call[p].value>>) => Content' = call[p].value

\* After one failure at most, no chunk is left that the entry does not name: the
\* next save or removal can find and delete it.
Named(m) == {c \in chunks : c.key \in Keys(m)}
EveryChunkKnown ==
    (kills = 0 /\ faults <= 1 /\ ~raced) =>
        chunks = Named(target.active) \union Named(target.stale)
                   \union UNION {Named(call[p].new) : p \in Procs}
=============================================================================
