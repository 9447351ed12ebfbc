----------------------------- MODULE MCTokenStore -----------------------------
(* The stores of the CLI on small instances: "of" tells which.                 *)
(*   file:     three commands of two processes on tokens.json, of which one is *)
(*             killed                                                          *)
(*   keychain: two commands of two processes, and one refusal of the keychain  *)
(*   manager:  the same on Windows, where no plaintext is written              *)
(*   entry:    one process whose calls of Credential Manager fail or end       *)
(*   scripts:  two processes at once in Credential Manager                     *)
EXTENDS TokenStore, TLC
CONSTANT p1
VARIABLES of,
  target, chunks, script, answer, used, failures, deaths, crossed   \* WindowsCredential

File == INSTANCE TokenStore WITH
  Native <- FALSE, Posix <- TRUE, MaxCalls <- 3, MaxFaults <- 0, MaxKills <- 1
Keychain == INSTANCE TokenStore WITH Posix <- TRUE

\* A credential of Credential Manager is told by its number of chunks.
Single == INSTANCE WindowsCredential WITH
  call <- script, faults <- failures, kills <- deaths, raced <- crossed,
  Procs <- {p1}, Values <- 1 .. 3, Pieces <- [v \in 1 .. 3 |-> v],
  MaxWrites <- 3, MaxFaults <- 2, MaxKills <- 2
Scripts == INSTANCE WindowsCredential WITH
  call <- script, faults <- failures, kills <- deaths, raced <- crossed,
  Values <- 2 .. 3, Pieces <- [v \in 2 .. 3 |-> v],
  MaxWrites <- 3, MaxFaults <- 0, MaxKills <- 0

ASSUME File!TokenAssumption /\ Single!WindowsAssumption /\ Scripts!WindowsAssumption

windows == <<target, chunks, script, answer, used, failures, deaths, crossed>>

MCInit ==
  \/ of = "file" /\ File!Init /\ Scripts!Init
  \/ of = "keychain" /\ Keychain!Init /\ Scripts!Init
  \/ of = "manager" /\ Init /\ Scripts!Init
  \/ of = "entry" /\ Single!Init /\ File!Init /\ file = Empty
  \/ of = "scripts" /\ Scripts!Init /\ File!Init /\ file = Empty

MCNext ==
  /\ \/ of = "file" /\ File!Next /\ UNCHANGED windows
     \/ of = "keychain" /\ Keychain!Next /\ UNCHANGED windows
     \/ of = "manager" /\ Next /\ UNCHANGED windows
     \/ of = "entry" /\ Single!Next /\ UNCHANGED vars
     \/ of = "scripts" /\ Scripts!Next /\ UNCHANGED vars
  /\ UNCHANGED of

MCSpec == MCInit /\ [][MCNext]_<<of, vars, windows>>

\* No account, credential or process is told from another by its name.
NameSymmetry == Permutations(Accounts) \cup Permutations(Creds) \cup Permutations(Procs)

\* On every platform a call of the CLI leaves in both stores what it answers, and
\* what it was not asked about.
AnswersAreTrue ==
  [][IF of = "manager" THEN Truthful ELSE Keychain!Truthful]_<<of, vars>>

\* Credential Manager's scripts keep the promise of one entry when one process
\* uses it, wherever a call fails or a script is killed: the credential is the
\* old one or the new one, never a part of one and never lost; and after one
\* failure at most no chunk is left that neither the entry nor a running script
\* names. When two use it, what a read finds is chunks of one credential only,
\* and a save that ran alone and said ok is what is read then.
KeepsThePromise ==
  /\ of = "entry" => Single!Entry!Init
  /\ [][of = "entry" => (Single!Entry!Next \/ UNCHANGED Single!Entry!vars)]_<<of, vars, windows>>
  /\ [](of = "entry" => Single!EveryChunkKnown)
  /\ [](of = "scripts" => Scripts!ReadsOneCredential)
  /\ [][of = "scripts" => Scripts!SaveRepairs]_<<of, vars, windows>>
===============================================================================
