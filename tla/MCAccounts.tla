----------------------------- MODULE MCAccounts -----------------------------
(* Following the transactions of an account, waiting for one of them, and the *)
(* dictionaries accounts and their data are kept in: one of the three in each *)
(* behaviour.                                                                 *)
EXTENDS AccountWatch

CONSTANTS KeyBits, Values, MaxItems, Batches, BatchValues, Loaded
VARIABLES part, root, keySz, items, grown

D == INSTANCE DictOps

dictVars == <<root, keySz, items, grown>>
waitVars == <<chain, foreign, inFlight, accepted, where, acc, accNew, lastLt, found, since>>

\* Loaded dictionaries: a fork label that is shortest as hml_same, and one that is
\* as short in hml_short as in hml_long.
LoadedSet == {[k \in {<<1, 1, 0>>, <<1, 1, 1>>} |-> 1], [k \in {<<1, 0, 0>>, <<1, 0, 1>>} |-> 1]}

KnownAccounts == {<<FALSE, FALSE>>, <<FALSE, FALSE, FALSE>>}

\* An account without transactions leaves the subscription nothing to do, and a
\* call that waits has returned.
WaitOver ==
  /\ chain = <<>> /\ foreign = 0 /\ inFlight = FALSE /\ accepted = FALSE /\ where = "error"
  /\ acc = 0 /\ accNew = 0 /\ lastLt = 0 /\ found = 0 /\ since = 0
AccountsInit ==
  /\ part \in {"subscription", "wait", "dictionary"}
  /\ Init /\ D!Init
  /\ part # "subscription" => length = 0
  /\ part # "dictionary" => grown
  /\ IF part = "wait" THEN W!Init ELSE WaitOver
AccountsNext ==
  /\ UNCHANGED part
  /\ \/ part = "subscription" /\ Next /\ UNCHANGED <<dictVars, waitVars>>
     \/ part = "wait" /\ W!Next /\ UNCHANGED <<vars, dictVars>>
     \/ part = "dictionary" /\ D!Next /\ UNCHANGED <<vars, waitVars>>
AccountsSpec ==
  AccountsInit /\ [][AccountsNext]_<<part, vars, dictVars, waitVars>> /\ Fairness /\ W!Answered

\* SendWait: a message lost again and again is confirmed (waitConfirmation).
Confirmed == W!Confirmed
\* DictOps: every lookup and walk answers what the map of the same calls holds.
Represents == D!Represents
\* DictOps: a tree grown from empty is the one NewDictFromItems builds, and updates
\* rewrite the labels of a loaded one (hasCanonicalLabel).
Canonical == D!Canonical
\* DictOps: ScanDiff reports exactly what a call changed (ScanDiff, Multiset, Filter).
DiffExact == D!DiffExact
=============================================================================
