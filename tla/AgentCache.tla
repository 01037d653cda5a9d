----------------------------- MODULE AgentCache -----------------------------
(***************************************************************************)
(* The cache instruction of a task and the instruction that uploads the    *)
(* cache again (internal/agent/executor/cache.go), for several tasks that  *)
(* share the cache of the host (BlobCache).                                *)
(*                                                                         *)
(* A task runs the cache instruction (DownloadCache()), then its scripts,  *)
(* then UploadCache(). The content of its cache folders is a function from *)
(* paths to data. Requests may fail, time out or be cut short at any       *)
(* moment, and a task may be killed at any moment.                         *)
(***************************************************************************)
EXTENDS BlobCache

CONSTANTS
    Instruction, \* the cache instructions a task may have
    MaxFaults    \* bound: how many requests fail

ASSUME InstructionAssumption ==
    /\ MaxFaults \in Nat
    /\ \A i \in Instruction :
         /\ i.key \in Key            \* what generateCacheKey() returns
         /\ i.prefixed \subseteq Key \* the keys that begin with its name
         /\ {i.optimistic, i.reupload, i.populate} \subseteq BOOLEAN
         /\ i.wide \in BOOLEAN       \* base folder: the working directory

VARIABLES
    instruction, \* instruction[c]: the cache instruction of task c
    task,        \* task[c]: the state of task c, see Task
    faults       \* how many requests have failed (bound)

vars == <<storeVars, instruction, task, faults>>

EmptyFolder == <<>>

(* hasher.SHA(): the data of the files in the order of their paths; the    *)
(* paths themselves are not hashed.                                        *)
SHA(f) ==
    LET nth(i) == CHOOSE p \in DOMAIN f :
                    Cardinality({q \in DOMAIN f : q < p}) = i - 1
    IN [i \in 1 .. Cardinality(DOMAIN f) |-> f[nth(i)]]

(* Unpacking f over what is there already. *)
Over(f, g) ==
    [p \in DOMAIN f \cup DOMAIN g |-> IF p \in DOMAIN f THEN f[p] ELSE g[p]]

Location == {"cache", "fetch", "reading", "fetched", "downloaded", "scripts",
             "upload", "check", "post", "posting", "done", "failed"}

Task ==
    [pc        : Location,
     looking   : Key \cup {Nothing},  \* the key whose entry is downloaded
     attempt   : {1, 2},              \* 2 after an archive that is broken
     stat      : BOOLEAN,             \* its first os.Stat() was no failure
     optimist  : BOOLEAN,             \* the latest entry was asked for
     folder    : Folder \cup {EmptyFolder},
     sources   : BOOLEAN,             \* the working directory is intact
     populated : BOOLEAN,             \* the folders hold a restored entry
     available : BOOLEAN,             \* CacheAvailable
     hasher    : {<<>>} \cup {SHA(f) : f \in Folder},
     report    : [Key -> {"none", "hit", "populated", "miss", "failed"}],
     seen      : Client \cup {Nothing, "unlooked"},
                                      \* history: the entry of its key when
                                      \* it looked for it before its upload
     faulty    : BOOLEAN]             \* history: a request has failed

OwnKey(c) == instruction[c].key
At(c, l) == task[c].pc = l

(* What the caches entry of DownloadCache() says about the upload. *)
SkipUpload(c) == task[c].available /\ ~instruction[c].reupload

Init ==
    /\ StoreInit
    /\ instruction \in [Client -> Instruction]
    /\ task = [c \in Client |->
         [pc |-> "cache", looking |-> Nothing, attempt |-> 1, stat |-> TRUE,
          optimist |-> FALSE, folder |-> EmptyFolder, sources |-> TRUE,
          populated |-> FALSE, available |-> FALSE, hasher |-> <<>>,
          report |-> [k \in Key |-> "none"], seen |-> "unlooked",
          faulty |-> FALSE]]
    /\ faults = 0

(* A step of task c without a failure, and one in which a request fails. *)
Do(c, t) == task' = [task EXCEPT ![c] = t] /\ UNCHANGED <<instruction, faults>>
Fail(c, t) ==
    /\ faults < MaxFaults
    /\ faults' = faults + 1
    /\ task' = [task EXCEPT ![c] = [t EXCEPT !.faulty = TRUE]]
    /\ UNCHANGED instruction
Same == UNCHANGED <<instruction, task, faults>>

-----------------------------------------------------------------------------
(* DownloadCache() computes the key, by a script that may fail, checks the *)
(* folders, and then tries to download the entry.                          *)
GenerateCacheKey(c) ==
    /\ At(c, "cache")
    /\ \/ Do(c, [task[c] EXCEPT !.pc = "fetch", !.looking = OwnKey(c)])
       \/ \E r \in {"none", "failed"} :
            Fail(c, [task[c] EXCEPT !.pc = "failed", !.report[OwnKey(c)] = r])
    /\ UNCHANGED storeVars

(* tryToDownloadAndPopulateCache() returns to DownloadCache(). *)
Returned(t, populated, available) ==
    [t EXCEPT !.pc = "downloaded", !.populated = populated,
              !.available = available]

(* Mutant: every entry counts as available. *)
MutantFetchMissing(c) ==
    /\ At(c, "fetch")
    /\ path[task[c].looking] = Nothing
    /\ Do(c, Returned(task[c], FALSE, TRUE))
    /\ UNCHANGED storeVars

(* FetchCache(): there is no entry, or another status that is not 200.     *)
(* After a first download that could not be unpacked, the entry counts as  *)
(* available all the same.                                                 *)
FetchMissing(c) ==
    /\ At(c, "fetch")
    /\ LET t == Returned(task[c], FALSE, task[c].attempt = 2)
       IN \/ path[task[c].looking] = Nothing /\ Do(c, t)
          \/ Fail(c, t)
    /\ UNCHANGED storeVars

FetchBegins(c) ==
    /\ At(c, "fetch")
    /\ Get(c, task[c].looking)
    /\ Do(c, [task[c] EXCEPT !.pc = "reading"])

FetchReads(c) ==
    /\ At(c, "reading")
    /\ ReadChunk(c)
    /\ Same

(* The response ends, with the file or before it. *)
FetchEnds(c) ==
    /\ At(c, "reading")
    /\ \/ AtEnd(c) /\ Do(c, [task[c] EXCEPT !.pc = "fetched"])
       \/ ~AtEnd(c) /\ Fail(c, [task[c] EXCEPT !.pc = "fetched"])
    /\ Close(c)

(* The request, or the download, fails. A timeout, also that of the task   *)
(* itself, makes the entry count as available.                             *)
FetchFails(c) ==
    /\ At(c, "fetch") \/ At(c, "reading")
    /\ \E timeout \in BOOLEAN : Fail(c, Returned(task[c], FALSE, timeout))
    /\ Discard(c)

(* The size of the archive cannot be found out, which is reported: no hit  *)
(* will be.                                                                *)
StatFails(c) ==
    /\ At(c, "fetched") /\ task[c].attempt = 1 /\ task[c].stat
    /\ Fail(c, [task[c] EXCEPT !.stat = FALSE,
                               !.report[task[c].looking] = "failed"])
    /\ UNCHANGED storeVars

(* unarchiveCache() succeeds: the archive is unpacked over what is there. *)
Unarchive(c) ==
    /\ At(c, "fetched")
    /\ Readable(received[c])
    /\ Do(c, [Returned(task[c], TRUE, TRUE) EXCEPT
                !.folder = Over(Unarchived(received[c]), @),
                !.report[task[c].looking] = IF task[c].stat THEN "hit" ELSE @])
    /\ Discard(c)

(* Mutant: a failure to unpack counts as an attempt of its own. *)
MutantRemoved(c) ==
    [task[c] EXCEPT !.folder = EmptyFolder, !.attempt = @ + 1,
                    !.sources = @ /\ ~instruction[c].wide]

(* It fails, because of the archive or of the disk: the base folder is     *)
(* removed; the first time, the entry is fetched once more.                *)
Removed(c) ==
    [task[c] EXCEPT !.folder = EmptyFolder,
                    !.sources = @ /\ ~instruction[c].wide]

(* Mutant: the entry is fetched again as long as it cannot be unpacked. *)
MutantUnarchiveFails(c) ==
    /\ At(c, "fetched")
    /\ Do(c, [Removed(c) EXCEPT !.pc = "fetch"])
    /\ Discard(c)

UnarchiveFails(c) ==
    LET t == IF task[c].attempt = 1
             THEN [Removed(c) EXCEPT !.pc = "fetch", !.attempt = 2]
             ELSE Returned(Removed(c), FALSE, TRUE)
    IN /\ At(c, "fetched")
       /\ \/ ~Readable(received[c]) /\ Do(c, t)
          \/ Readable(received[c]) /\ Fail(c, t)
       /\ Discard(c)

(* Nothing was found, and the instruction restores optimistically:         *)
(* findLatestAvailableCache() asks the host for an entry of any key of the *)
(* command, which is then downloaded in place of the exact one.            *)
AsksForLatest(c) ==
    ~task[c].available /\ instruction[c].optimistic /\ ~task[c].optimist

FindLatest(c) ==
    LET found == FindByPrefix(instruction[c].prefixed)
        asked == [task[c] EXCEPT !.optimist = TRUE, !.stat = TRUE]
    IN /\ At(c, "downloaded") /\ AsksForLatest(c)
       /\ \/ found = Nothing /\ Do(c, asked)
          \/ found # Nothing
               /\ Do(c, [asked EXCEPT !.pc = "fetch", !.looking = found,
                                      !.attempt = 1])
          \/ Fail(c, asked)
       /\ UNCHANGED storeVars

(* The rest of DownloadCache(): what was restored is hashed; on a miss the *)
(* populate script runs, if there is one. A glob or the script may fail.   *)
Populate(c) ==
    LET t == [task[c] EXCEPT !.pc = "scripts"]
    IN /\ At(c, "downloaded") /\ ~AsksForLatest(c)
       /\ \/ t.populated /\ Do(c, [t EXCEPT !.hasher = SHA(t.folder)])
          \/ ~t.populated /\ ~instruction[c].populate /\ Do(c, t)
          \/ /\ ~t.populated /\ instruction[c].populate
             /\ \E f \in Folder :
                  Do(c, [t EXCEPT !.folder = Over(f, @),
                                  !.report[OwnKey(c)] = "populated"])
          \/ Fail(c, [t EXCEPT !.pc = "failed",
                              !.report[OwnKey(c)] = "failed"])
       /\ UNCHANGED storeVars

(* The scripts of the task leave the cache folders as they are, or write   *)
(* or remove files in them.                                                *)
RunScripts(c) ==
    /\ At(c, "scripts")
    /\ \E f \in Folder \cup {EmptyFolder} :
         Do(c, [task[c] EXCEPT !.pc = "upload", !.folder = f])
    /\ UNCHANGED storeVars

-----------------------------------------------------------------------------
(* UploadCache() has nothing to upload, or archives the folders and, when  *)
(* the entry was not available, looks whether some other task has uploaded *)
(* it. A glob or the archive may fail, which fails the instruction, and so *)
(* may the hash, which only keeps it from uploading.                       *)
NothingToUpload(c) ==
    \/ SkipUpload(c)
    \/ task[c].folder = EmptyFolder
    \/ SHA(task[c].folder) = task[c].hasher

(* Mutant: nobody looks for an upload of another task. *)
MutantUploadCache(c) ==
    /\ At(c, "upload")
    /\ Do(c, [task[c] EXCEPT !.pc = IF NothingToUpload(c) THEN "done"
                                    ELSE "post"])
    /\ UNCHANGED storeVars

UploadCache(c) ==
    /\ At(c, "upload")
    /\ \/ NothingToUpload(c) /\ Do(c, [task[c] EXCEPT !.pc = "done"])
       \/ ~SkipUpload(c) /\ Fail(c, [task[c] EXCEPT !.pc = "failed"])
       \/ /\ ~SkipUpload(c) /\ task[c].folder # EmptyFolder
          /\ Fail(c, [task[c] EXCEPT !.pc = "done"])
       \/ ~NothingToUpload(c)
            /\ Do(c, [task[c] EXCEPT
                        !.pc = IF task[c].available THEN "post"
                               ELSE "check"])
    /\ UNCHANGED storeVars

(* The HEAD request; an error is taken for "there is none". *)
CheckOthers(c) ==
    LET entry == path[OwnKey(c)]
        t == [task[c] EXCEPT !.seen = entry]
    IN /\ At(c, "check")
       /\ \/ entry # Nothing /\ Do(c, [t EXCEPT !.pc = "done"])
          \/ entry = Nothing /\ Do(c, [t EXCEPT !.pc = "post"])
          \/ Fail(c, [t EXCEPT !.pc = "post"])
       /\ UNCHANGED storeVars

(* UploadCacheFile(): the host receives the archive piece by piece. *)
PostBegins(c) ==
    /\ At(c, "post")
    /\ Put(c, OwnKey(c))
    /\ Do(c, [task[c] EXCEPT !.pc = "posting"])

PostSends(c) ==
    /\ At(c, "posting")
    /\ WriteChunk(c, task[c].folder)
    /\ Same

(* The host finishes what it has received, also when nobody waits for it   *)
(* any more.                                                               *)
HostFlushes(c) == Flush(c) /\ Same
HostRenames(c) == Rename(c, OwnKey(c)) /\ Same

HostBreaks(c) ==
    /\ BreakUpload(c)
    /\ IF At(c, "posting") THEN Fail(c, [task[c] EXCEPT !.pc = "done"])
       ELSE Same

(* The agent learns that the upload has succeeded ... *)
PostEnds(c) ==
    /\ At(c, "posting")
    /\ upload[c] = "stored"
    /\ Do(c, [task[c] EXCEPT !.pc = "done", !.report[OwnKey(c)] = "miss"])
    /\ UNCHANGED storeVars

(* Mutant: the upload is reported although it failed. *)
MutantPostFails(c) ==
    /\ At(c, "post") \/ At(c, "posting")
    /\ Fail(c, [task[c] EXCEPT !.pc = "done", !.report[OwnKey(c)] = "miss"])
    /\ UNCHANGED storeVars

(* ... or gives up: the error is ignored, and the host is left alone.      *)
PostFails(c) ==
    /\ At(c, "post") \/ At(c, "posting")
    /\ Fail(c, [task[c] EXCEPT !.pc = "done"])
    /\ UNCHANGED storeVars

(* The container or the machine of the task goes away. *)
Die(c) ==
    /\ task[c].pc \notin {"done", "failed"}
    /\ Fail(c, [task[c] EXCEPT !.pc = "failed"])
    /\ Discard(c)

Step(c) ==
    \/ GenerateCacheKey(c) \/ FetchMissing(c) \/ FetchBegins(c)
    \/ FetchReads(c) \/ FetchEnds(c) \/ Unarchive(c) \/ UnarchiveFails(c)
    \/ FindLatest(c) \/ Populate(c) \/ RunScripts(c) \/ UploadCache(c)
    \/ CheckOthers(c) \/ PostBegins(c) \/ PostSends(c) \/ PostEnds(c)
    \/ HostFlushes(c) \/ HostRenames(c)

Next ==
    \E c \in Client :
        \/ Step(c) \/ FetchFails(c) \/ StatFails(c) \/ HostBreaks(c)
        \/ PostFails(c) \/ Die(c)

Spec == Init /\ [][Next]_vars

(* Requests are answered, and the scripts end. *)
FairSpec == Spec /\ \A c \in Client : WF_vars(Step(c))

-----------------------------------------------------------------------------
(* Every variable has its type. *)
TypeOK ==
    /\ file \in [Client -> Seq(Folder \X (1 .. Chunks))]
    /\ upload \in [Client -> {"none", "writing", "flushed", "stored", "failed"}]
    /\ path \in [Key -> Client \cup {Nothing}]
    /\ modified \in Seq(Client)
    /\ opened \in [Client -> Client \cup {Nothing}]
    /\ received \in [Client -> Seq(Folder \X (1 .. Chunks))]
    /\ instruction \in [Client -> Instruction]
    /\ task \in [Client -> Task]
    /\ faults \in 0 .. MaxFaults

(* The directory of temporary blobs, renames and open files behaves as the *)
(* atomic store of BlobStore: no task is ever served a part of an archive, *)
(* or pieces of two, as a whole one, however uploads and downloads of one  *)
(* key overlap and wherever they break off.                                *)
ImplementsBlobStore == Store!Spec

(* A task that missed its entry and has run to its end without a failed    *)
(* request leaves an entry under its key, unless its cache folders are     *)
(* empty: the next task with this key finds it. It is not claimed for an   *)
(* instruction that restores optimistically: after such a restoration      *)
(* CacheAvailable speaks of another key, and nothing is uploaded.          *)
MissIsFilled ==
    \A c \in Client :
        At(c, "done") /\ ~task[c].faulty /\ task[c].folder # EmptyFolder
            /\ ~instruction[c].optimistic
        => path[OwnKey(c)] # Nothing

(* A task whose cache folders span its working directory loses it, sources *)
(* and all, when an archive cannot be unpacked. That takes a failure of    *)
(* its own: what the other tasks do to the entry, be it half-way through   *)
(* an upload or broken off, never makes a task remove its sources.         *)
SourcesKept == \A c \in Client : ~task[c].faulty => task[c].sources

(* The agent reports to the service what happened: a key reported as hit   *)
(* was restored into the folders, and one reported as missed and uploaded  *)
(* is one that the host has stored.                                        *)
ReportIsTrue ==
    \A c \in Client :
        /\ \A k \in Key : task[c].report[k] = "hit" => task[c].populated
        /\ task[c].report[OwnKey(c)] = "miss" => upload[c] = "stored"

(* An entry is replaced only by a task that is to upload it again when it  *)
(* has changed, or by one that had looked and had not seen it: of the      *)
(* tasks that populate a cache at the same time the later ones leave the   *)
(* entry of the first alone, except in the window between their look and   *)
(* the end of their upload, and when the look itself fails.                *)
ReplacesOnlyUnseen ==
    [][\A k \in Key :
          path[k] # Nothing /\ path'[k] # path[k] =>
            LET c == path'[k]
            IN \/ instruction[c].reupload
               \/ task[c].seen = Nothing
               \/ task[c].faulty]_vars

(* The cache instruction and the upload end, whatever fails. *)
CacheStepsEnd == \A c \in Client : <>(task[c].pc \in {"done", "failed"})

(* An optimistic restoration begins with the entry that was written last:  *)
(* "finding the latest available key".                                     *)
RestoresLatest ==
    [][\A c \in Client :
          ~task[c].optimist /\ task'[c].optimist /\ task'[c].pc = "fetch" =>
            \A k \in instruction[c].prefixed :
               path[k] # Nothing =>
                 ModTime(path[k]) <= ModTime(path[task'[c].looking])]_vars
=============================================================================
