------------------------------ MODULE TokenStore ------------------------------
(***************************************************************************)
(* Where the CLI keeps credentials: the native store of the system, one    *)
(* entry for an account (WindowsCredential says why a call of it counts as *)
(* one step), and tokens.json, one file for all accounts, which every      *)
(* change reads and writes whole. Processes share both without a lock.     *)
(***************************************************************************)
EXTENDS Naturals, FiniteSets

CONSTANTS
    Procs, Accounts, Creds, None,
    Native,      \* whether there is a native store
    Posix,       \* whether plaintext may be written
    MaxCalls,    \* calls of the CLI
    MaxFaults,   \* calls of the native store that fail
    MaxKills     \* processes killed while they write the file

ASSUME TokenAssumption ==
    /\ Native \in BOOLEAN /\ Posix \in BOOLEAN
    /\ None \notin Creds
    /\ {MaxCalls, MaxFaults, MaxKills} \subseteq Nat

VARIABLES
    native,   \* the entries of the native store
    file,     \* tokens.json
    torn,     \* the file is being written, or a writer was killed
    call,     \* the call of each process
    calls, faults, kills,
    raced     \* two processes have been in the file at once

vars == <<native, file, torn, call, calls, faults, kills, raced>>

Empty == [a \in Accounts |-> None]
Cells == [Accounts -> Creds \union {None}]

Idle == [kind |-> "none", account |-> CHOOSE a \in Accounts : TRUE, cred |-> None, step |-> "idle",
         allow |-> FALSE, saving |-> FALSE, tokens |-> Empty, faulty |-> FALSE, alone |-> FALSE,
         said |-> "none"]

Init ==
    /\ native \in {n \in Cells : Native \/ n = Empty}
    /\ file \in {f \in Cells : Posix \/ f = Empty \/ Native}
    /\ torn = FALSE
    /\ call = [p \in Procs |-> Idle]
    /\ calls = 0 /\ faults = 0 /\ kills = 0
    /\ raced = FALSE

\* A torn file does not parse, and counts as one without credentials.
Tokens == IF torn THEN Empty ELSE file
InFile(o) == o.step \in {"truncate", "put"}

At(p, step) == call' = [call EXCEPT ![p].step = step]
Said(what, faulty) == [Idle EXCEPT !.said = what, !.faulty = faulty]
Say(p, what) == call' = [call EXCEPT ![p] = Said(what, @.faulty)]
Counted == UNCHANGED <<calls, faults, kills>>
Stores == UNCHANGED <<native, file, torn, raced>>

-----------------------------------------------------------------------------
(* A call begins                                                           *)

Begin(p, kind, a, c, allow) ==
    /\ call[p].step = "idle"
    /\ calls < MaxCalls
    /\ calls' = calls + 1
    /\ call' = [q \in Procs |->
                  IF q # p THEN [call[q] EXCEPT !.alone = FALSE] ELSE
                  [Idle EXCEPT !.kind = kind, !.account = a, !.cred = c, !.allow = allow,
                               !.saving = (kind = "save"),
                               !.alone = \A r \in Procs : call[r].step = "idle",
                               !.step = CASE kind = "save" -> "native"
                                          [] kind = "remove" -> "readNative"
                                          [] OTHER -> "probe"]]
    /\ UNCHANGED <<faults, kills>> /\ Stores

\* probeTokenStoreWritable, for a forced import
Writable(o) == Native \/ (o.allow /\ Posix)

Probe(p) ==
    /\ call[p].step = "probe"
    /\ IF Writable(call[p])
       THEN At(p, "readNative")
       ELSE Say(p, "unwritable")
    /\ Counted /\ Stores

(* deleteProfileCredential                                                 *)

ReadNative(p) ==
    /\ call[p].step = "readNative"
    /\ At(p, IF native[call[p].account] # None THEN "deleteNative" ELSE "seek")
    /\ Counted /\ Stores

DeleteNative(p) ==
    /\ call[p].step = "deleteNative"
    /\ native' = [native EXCEPT ![call[p].account] = None]
    /\ At(p, "seek")
    /\ Counted /\ UNCHANGED <<file, torn, raced>>

\* What follows the removal: an import consumes its token and saves.
Removed(p) ==
    IF call[p].kind = "import"
    THEN call' = [call EXCEPT ![p].step = "native", ![p].saving = TRUE]
    ELSE Say(p, "removed")

Seek(p) ==
    /\ call[p].step = "seek"
    /\ IF Tokens[call[p].account] # None THEN At(p, "load") ELSE Removed(p)
    /\ Counted /\ Stores

(* saveProfileCredential                                                   *)

\* On Windows a native save clears the plaintext entry of an older version.
SaveNative(p) ==
    LET o == call[p] IN
    /\ o.step = "native"
    /\ IF Native
       THEN /\ native' = [native EXCEPT ![o.account] = o.cred]
            /\ IF ~Posix /\ Tokens[o.account] # None THEN At(p, "load") ELSE Say(p, "saved")
       ELSE At(p, "fallback") /\ UNCHANGED native
    /\ Counted /\ UNCHANGED <<file, torn, raced>>

Fallback(p) ==
    LET o == call[p] IN
    /\ o.step = "fallback"
    /\ IF (o.allow \/ Tokens[o.account] # None) /\ Posix THEN At(p, "load") ELSE Say(p, "unavailable")
    /\ Counted /\ Stores

(* tokens.json: read, changed, truncated and written                       *)

\* What a call puts for its account; on Windows a save clears the entry, too.
Puts(o) == IF o.saving /\ Posix THEN o.cred ELSE None

\* mutant: the file is written from the one entry
LoadNone(p) ==
    LET o == call[p] IN
    /\ o.step = "load"
    /\ call' = [call EXCEPT ![p].step = "truncate", ![p].tokens =
                  [Empty EXCEPT ![o.account] = Puts(o)]]
    /\ raced' = (raced \/ \E q \in Procs \ {p} : InFile(call[q]))
    /\ Counted /\ UNCHANGED <<native, file, torn>>

Load(p) ==
    LET o == call[p] IN
    /\ o.step = "load"
    /\ call' = [call EXCEPT ![p].step = "truncate", ![p].tokens =
                  [Tokens EXCEPT ![o.account] = Puts(o)]]
    /\ raced' = (raced \/ \E q \in Procs \ {p} : InFile(call[q]))
    /\ Counted /\ UNCHANGED <<native, file, torn>>

Truncate(p) ==
    /\ call[p].step = "truncate"
    /\ torn' = TRUE
    /\ At(p, "put")
    /\ Counted /\ UNCHANGED <<native, file, raced>>

Put(p) ==
    LET o == call[p] IN
    /\ o.step = "put"
    /\ file' = o.tokens
    /\ torn' = FALSE
    /\ IF o.saving THEN Say(p, "saved") ELSE Removed(p)
    /\ Counted /\ UNCHANGED <<native, raced>>

-----------------------------------------------------------------------------
(* Failures                                                                *)

\* The native store refuses a call: a save falls back to the file, an unreadable
\* entry counts as none, and a removal that cannot delete says so.
Refuse(p) ==
    /\ Native
    /\ faults < MaxFaults
    /\ faults' = faults + 1
    /\ call[p].step \in {"native", "readNative", "deleteNative"}
    /\ call' = [call EXCEPT ![p] =
                  CASE @.step = "native" -> [@ EXCEPT !.step = "fallback", !.faulty = TRUE]
                    [] @.step = "readNative" -> [@ EXCEPT !.step = "seek", !.faulty = TRUE]
                    [] OTHER -> Said("unavailable", TRUE)]
    /\ UNCHANGED <<calls, kills>> /\ Stores

Kill(p) ==
    /\ call[p].step # "idle"
    /\ kills < MaxKills
    /\ kills' = kills + 1
    /\ call' = [call EXCEPT ![p] = Idle]
    /\ UNCHANGED <<calls, faults>> /\ Stores

Next ==
    \E p \in Procs :
        \/ \E kind \in {"save", "import"}, a \in Accounts, c \in Creds, allow \in BOOLEAN :
              Begin(p, kind, a, c, allow)
        \/ \E a \in Accounts : Begin(p, "remove", a, None, FALSE)
        \/ Probe(p) \/ ReadNative(p) \/ DeleteNative(p) \/ Seek(p) \/ SaveNative(p) \/ Fallback(p)
        \/ Load(p) \/ Truncate(p) \/ Put(p) \/ Refuse(p) \/ Kill(p)

Spec == Init /\ [][Next]_vars

-----------------------------------------------------------------------------
TypeOK ==
    /\ native \in Cells /\ file \in Cells /\ torn \in BOOLEAN /\ raced \in BOOLEAN
    /\ \A p \in Procs : call[p].tokens \in Cells
    /\ calls \in 0 .. MaxCalls /\ faults \in 0 .. MaxFaults /\ kills \in 0 .. MaxKills

\* readProfileToken: the native store first.
Found(a) == IF native[a] # None THEN native[a] ELSE Tokens[a]

\* The call of p answers in this step, undisturbed by another process.
Says(p, what) ==
    /\ call[p].step # "idle" /\ call'[p].step = "idle" /\ call'[p].said = what
    /\ call[p].alone /\ kills' = kills

\* The file keeps the credentials of every other account through each change, as
\* long as no two processes were in it at once and none was killed in it.
KeepsOthers(p) ==
    (call[p].step = "put" /\ call'[p].step # "put" /\ ~raced /\ kills' = 0) =>
        \A b \in Accounts \ {call[p].account} : file'[b] = file[b]

\* An import proves that there is a place for the credential before it consumes
\* its one-time token: if the native store then refuses nothing, it is saved.
ProvesBeforeConsuming(p) ==
    (call[p].kind = "import" /\ call[p].step # "idle" /\ ~call'[p].faulty)
        => call'[p].said # "unavailable"

\* What was saved is what the next command reads, when no native call failed;
\* and on Windows no plaintext copy outlives it.
SavedMeansRead(p) ==
    \A a \in {call[p].account} :
        /\ (Says(p, "saved") /\ ~call[p].faulty) => Found(a)' = call[p].cred
        /\ (Says(p, "saved") /\ ~Posix) => Tokens'[a] = None

\* A removal that says ok leaves the credential in neither store, when every
\* native call was answered.
RemovedMeansGone(p) ==
    (Says(p, "removed") /\ ~call[p].faulty)
        => native'[call[p].account] = None /\ Tokens'[call[p].account] = None

\* A call leaves in both stores what it says, and what it was not asked about.
Truthful ==
    \A p \in Procs :
        KeepsOthers(p) /\ ProvesBeforeConsuming(p) /\ SavedMeansRead(p) /\ RemovedMeansGone(p)
=============================================================================
