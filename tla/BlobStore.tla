------------------------------ MODULE BlobStore ------------------------------
(***************************************************************************)
(* What the cache of the host promises to the tasks that share it: a key   *)
(* holds nothing or one whole archive, a put replaces it in one step, and  *)
(* a download that succeeds delivers the archive the key held when the     *)
(* download began, whatever is put under the key in the meantime.          *)
(***************************************************************************)
CONSTANTS Key, Blob, Client, Nothing

VARIABLES
    entry,       \* entry[k]: the archive under key k
    reading,     \* reading[c]: the archive that client c is downloading
    delivered    \* delivered[c]: the archive that client c has downloaded

vars == <<entry, reading, delivered>>

Init ==
    /\ entry = [k \in Key |-> Nothing]
    /\ reading = [c \in Client |-> Nothing]
    /\ delivered = [c \in Client |-> Nothing]

Put(k, a) ==
    /\ entry' = [entry EXCEPT ![k] = a]
    /\ UNCHANGED <<reading, delivered>>

Begin(c, k) ==
    /\ entry[k] # Nothing
    /\ reading' = [reading EXCEPT ![c] = entry[k]]
    /\ delivered' = [delivered EXCEPT ![c] = Nothing]
    /\ UNCHANGED entry

Deliver(c) ==
    /\ reading[c] # Nothing
    /\ delivered' = [delivered EXCEPT ![c] = reading[c]]
    /\ reading' = [reading EXCEPT ![c] = Nothing]
    /\ UNCHANGED entry

(* A download that fails, or whose archive is no longer needed. *)
Drop(c) ==
    /\ reading' = [reading EXCEPT ![c] = Nothing]
    /\ delivered' = [delivered EXCEPT ![c] = Nothing]
    /\ UNCHANGED entry

Next ==
    \/ \E k \in Key, a \in Blob : Put(k, a)
    \/ \E c \in Client : Deliver(c) \/ Drop(c) \/ \E k \in Key : Begin(c, k)

Spec == Init /\ [][Next]_vars
=============================================================================
