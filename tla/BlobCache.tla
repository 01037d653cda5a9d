------------------------------ MODULE BlobCache ------------------------------
(***************************************************************************)
(* The cache of the host: a directory with one file per key, which every   *)
(* task of this and of parallel invocations of the CLI uses through the    *)
(* streams of the RPC service (internal/executor/cache, rpc/cache.go), or  *)
(* the cache service of GitHub behind an HTTP proxy (rpc/gha_cache.go).    *)
(* An upload is written to a file of its own that is moved to the path of  *)
(* its key when it is complete; a download reads the file it has opened.   *)
(*                                                                         *)
(* Every client uploads at most one archive, so that its name identifies   *)
(* the file it writes. An archive is a sequence of Chunks pieces.          *)
(***************************************************************************)
EXTENDS Naturals, Sequences, FiniteSets

CONSTANTS
    Client,      \* the tasks that use the cache
    Key,         \* the keys of cache entries
    Folder,      \* what the folders of a cache may hold
    Chunks,      \* how many messages an archive takes on a stream
    Nothing      \* neither a client, a folder nor a key

ASSUME BlobCacheAssumption ==
    /\ Chunks \in Nat \ {0}
    /\ Nothing \notin Client \cup Folder \cup Key

(* The folders that are archived hold files: functions from their paths,   *)
(* which are ordered, to their data.                                       *)
ASSUME FolderAssumption ==
    \A f \in Folder :
        /\ f = [p \in DOMAIN f |-> f[p]]
        /\ IsFiniteSet(DOMAIN f) /\ DOMAIN f # {} /\ DOMAIN f \subseteq Nat

VARIABLES
    file,        \* file[c]: what the upload of c has written to its file
    upload,      \* upload[c]: how far the upload of c is
    path,        \* path[k]: whose file is found at the path of key k
    modified,    \* the clients in the order their files were last written
    opened,      \* opened[c]: whose file the download of c reads
    received     \* received[c]: the pieces that c has downloaded

storeVars == <<file, upload, path, modified, opened, received>>

(* targz.Archive(): the pieces of a whole archive of folder f. *)
Archive(f) == [i \in 1 .. Chunks |-> <<f, i>>]

(* targz.Unarchive(): a truncated archive, or one put together from two,   *)
(* is refused.                                                             *)
Readable(s) == \E f \in Folder : s = Archive(f)
Unarchived(s) == IF Readable(s) THEN s[1][1] ELSE Nothing

StoreInit ==
    /\ file = [c \in Client |-> <<>>]
    /\ upload = [c \in Client |-> "none"]
    /\ path = [k \in Key |-> Nothing]
    /\ modified = <<>>
    /\ opened = [c \in Client |-> Nothing]
    /\ received = [c \in Client |-> <<>>]

(* Mutant: the blob is created at its final path. *)
MutantPut(c, k) ==
    /\ upload[c] = "none"
    /\ upload' = [upload EXCEPT ![c] = "writing"]
    /\ file' = [file EXCEPT ![c] = <<>>]
    /\ path' = [path EXCEPT ![k] = c]
    /\ UNCHANGED <<modified, opened, received>>

(* RPC.Write() on the first message: Cache.Put() creates a temporary blob. *)
Put(c, k) ==
    /\ upload[c] = "none"
    /\ upload' = [upload EXCEPT ![c] = "writing"]
    /\ file' = [file EXCEPT ![c] = <<>>]
    /\ UNCHANGED <<path, modified, opened, received>>

(* PutOperation.Write(): the next piece of the archive of folder f. *)
WriteChunk(c, f) ==
    /\ upload[c] = "writing"
    /\ Len(file[c]) < Chunks
    /\ file' = [file EXCEPT ![c] = Append(@, Archive(f)[Len(@) + 1])]
    /\ UNCHANGED <<upload, path, modified, opened, received>>

(* Mutant: a stream that breaks off is taken for one that has ended. *)
MutantFlush(c) ==
    /\ upload[c] = "writing"
    /\ upload' = [upload EXCEPT ![c] = "flushed"]
    /\ modified' = Append(modified, c)
    /\ UNCHANGED <<file, path, opened, received>>

(* The end of the stream: PutOperation.Finalize() flushes and closes the   *)
(* temporary blob, which dates it ...  RPC.Write() takes any io.EOF for    *)
(* the end; that a client ends its stream only after the last piece, and   *)
(* otherwise cancels it, is an assumption about the proxy of the agent.    *)
Flush(c) ==
    /\ upload[c] = "writing"
    /\ Len(file[c]) = Chunks
    /\ upload' = [upload EXCEPT ![c] = "flushed"]
    /\ modified' = Append(modified, c)
    /\ UNCHANGED <<file, path, opened, received>>

(* ... and moves it to the path of the key. *)
Rename(c, k) ==
    /\ upload[c] = "flushed"
    /\ path' = [path EXCEPT ![k] = c]
    /\ upload' = [upload EXCEPT ![c] = "stored"]
    /\ UNCHANGED <<file, modified, opened, received>>

(* The stream breaks, the disk is full, or the CLI ends: the temporary     *)
(* blob stays behind.                                                      *)
BreakUpload(c) ==
    /\ upload[c] \in {"writing", "flushed"}
    /\ upload' = [upload EXCEPT ![c] = "failed"]
    /\ UNCHANGED <<file, path, modified, opened, received>>

(* RPC.Read(): Cache.Get() opens the file at the path of the key. *)
Get(c, k) ==
    /\ path[k] # Nothing
    /\ opened' = [opened EXCEPT ![c] = path[k]]
    /\ received' = [received EXCEPT ![c] = <<>>]
    /\ UNCHANGED <<file, upload, path, modified>>

ReadChunk(c) ==
    /\ opened[c] # Nothing
    /\ Len(received[c]) < Len(file[opened[c]])
    /\ received' =
         [received EXCEPT ![c] = Append(@, file[opened[c]][Len(@) + 1])]
    /\ UNCHANGED <<file, upload, path, modified, opened>>

(* The download is over: at the end of the file, or before it (the proxy   *)
(* ignores what io.Copy() returns and ends its response as if it were      *)
(* whole).                                                                 *)
Close(c) ==
    /\ opened[c] # Nothing
    /\ opened' = [opened EXCEPT ![c] = Nothing]
    /\ UNCHANGED <<file, upload, path, modified, received>>

AtEnd(c) == opened[c] # Nothing /\ Len(received[c]) = Len(file[opened[c]])

(* The download fails, or its file is removed after it was unpacked. *)
Discard(c) ==
    /\ opened' = [opened EXCEPT ![c] = Nothing]
    /\ received' = [received EXCEPT ![c] = <<>>]
    /\ UNCHANGED <<file, upload, path, modified>>

(* When the file of a client was last written: its place in the order. *)
ModTime(c) == CHOOSE i \in DOMAIN modified : modified[i] = c

(* Cache.FindByPrefix(), called by CacheInfo(): of the entries among ks    *)
(* the first one in the order of modification times.                       *)
FindByPrefix(ks) ==
    LET found == {k \in ks : path[k] # Nothing}
    IN IF found = {} THEN Nothing
       ELSE CHOOSE k \in found :
              \A l \in found : ModTime(path[k]) <= ModTime(path[l])

(* The abstract store that the directory implements. *)
Store == INSTANCE BlobStore WITH
    Blob <- Folder,
    entry <- [k \in Key |->
        IF path[k] = Nothing THEN Nothing
        ELSE IF Readable(file[path[k]]) THEN Unarchived(file[path[k]])
        ELSE <<"broken">>],
    reading <- [c \in Client |->
        IF opened[c] = Nothing THEN Nothing ELSE Unarchived(file[opened[c]])],
    delivered <- [c \in Client |->
        IF opened[c] = Nothing THEN Unarchived(received[c]) ELSE Nothing]
=============================================================================
