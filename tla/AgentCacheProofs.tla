-------------------------- MODULE AgentCacheProofs --------------------------
(***************************************************************************)
(* Proofs about AgentCache and BlobCache, for any number of tasks, keys,   *)
(* folders, pieces of an archive and failures.                             *)
(***************************************************************************)
EXTENDS AgentCache, NatLemmas, SequenceTheorems, FiniteSetTheorems

-----------------------------------------------------------------------------
(* Archives                                                                *)

Piece == Folder \X (1 .. Chunks)

(* The first pieces of an archive of folder f. *)
Part(s, f) == Len(s) <= Chunks /\ \A i \in 1 .. Len(s) : s[i] = <<f, i>>

LEMMA ArchiveIs ==
    ASSUME NEW f \in Folder
    PROVE  /\ Archive(f) \in Seq(Piece) /\ Len(Archive(f)) = Chunks
           /\ \A i \in 1 .. Chunks : Archive(f)[i] = <<f, i>>
           /\ Readable(Archive(f)) /\ Unarchived(Archive(f)) = f
<1>1. Chunks \in Nat /\ 1 \in 1 .. Chunks
  BY BlobCacheAssumption
<1>2. \A i \in 1 .. Chunks : Archive(f)[i] = <<f, i>>
  BY DEF Archive
<1>3. Archive(f) \in [1 .. Chunks -> Piece]
  BY DEF Archive, Piece
<1>4. Archive(f) \in Seq(Piece) /\ Len(Archive(f)) = Chunks
  <2> HIDE DEF Piece
  <2> QED BY <1>1, <1>3
<1>5. Readable(Archive(f))
  BY DEF Readable
<1>6. Archive(f)[1][1] = f
  BY <1>1, <1>2
<1> QED BY <1>2, <1>4, <1>5, <1>6 DEF Unarchived

LEMMA PartWhole ==
    ASSUME NEW f \in Folder, NEW s \in Seq(Piece), Part(s, f), Len(s) = Chunks
    PROVE  s = Archive(f)
<1>1. \A i \in 1 .. Len(s) : s[i] = Archive(f)[i]
  BY ArchiveIs DEF Part
<1> QED BY <1>1, ArchiveIs, SeqEqual

LEMMA PartAppend ==
    ASSUME NEW f \in Folder, NEW s \in Seq(Piece), Part(s, f), Len(s) < Chunks
    PROVE  LET t == Append(s, Archive(f)[Len(s) + 1])
           IN  t \in Seq(Piece) /\ Part(t, f)
<1> DEFINE e == Archive(f)[Len(s) + 1]
           t == Append(s, e)
<1>1. Len(s) \in Nat /\ Chunks \in Nat /\ Len(s) + 1 \in 1 .. Chunks
  BY LenProperties, BlobCacheAssumption
<1>2. e = <<f, Len(s) + 1>> /\ e \in Piece
  BY <1>1, ArchiveIs DEF Piece
<1> HIDE DEF e
<1>3. t \in Seq(Piece) /\ Len(t) = Len(s) + 1 /\ t[Len(s) + 1] = e
      /\ \A i \in 1 .. Len(s) : t[i] = s[i]
  BY <1>2, AppendProperties
<1> HIDE DEF t
<1>4. \A i \in 1 .. Len(t) : t[i] = <<f, i>>
  BY <1>1, <1>2, <1>3 DEF Part
<1>5. Part(t, f)
  BY <1>1, <1>3, <1>4 DEF Part
<1> QED BY <1>3, <1>5 DEF t, e

LEMMA TooShort ==
    ASSUME NEW s, Len(s) # Chunks
    PROVE  ~Readable(s) /\ Unarchived(s) = Nothing
BY ArchiveIs DEF Readable, Unarchived

LEMMA WholeIs ==
    ASSUME NEW s, Readable(s)
    PROVE  /\ Unarchived(s) \in Folder /\ s = Archive(Unarchived(s))
           /\ Len(s) = Chunks /\ Unarchived(s) # Nothing
BY ArchiveIs, BlobCacheAssumption DEF Readable

LEMMA EmptyIsPart ==
    ASSUME NEW f
    PROVE  <<>> \in Seq(Piece) /\ Part(<<>>, f) /\ Unarchived(<<>>) = Nothing
<1>1. <<>> \in Seq(Piece) /\ Len(<<>>) = 0 /\ Chunks \in Nat \ {0}
  BY EmptySeq, BlobCacheAssumption
<1>2. Unarchived(<<>>) = Nothing
  BY <1>1, TooShort
<1> QED BY <1>1, <1>2 DEF Part

-----------------------------------------------------------------------------
(* The directory                                                           *)

StoreType ==
    /\ file \in [Client -> Seq(Piece)]
    /\ upload \in [Client -> {"none", "writing", "flushed", "stored", "failed"}]
    /\ path \in [Key -> Client \cup {Nothing}]
    /\ modified \in Seq(Client)
    /\ opened \in [Client -> Client \cup {Nothing}]
    /\ received \in [Client -> Seq(Piece)]

Dated(c) == \E i \in DOMAIN modified : modified[i] = c

(* A file that holds all its pieces is a whole archive, also while nobody  *)
(* has noticed; only whole ones that nobody writes any more are found and  *)
(* read.                                                                   *)
Blobs ==
    /\ \A c \in Client :
         /\ upload[c] = "writing" /\ Len(file[c]) = Chunks => Readable(file[c])
         /\ upload[c] \in {"flushed", "stored"} => Readable(file[c]) /\ Dated(c)
         /\ opened[c] # Nothing =>
              /\ upload[opened[c]] = "stored"
              /\ \E f \in Folder : /\ file[opened[c]] = Archive(f)
                                   /\ Part(received[c], f)
    /\ \A k \in Key : path[k] # Nothing => upload[path[k]] = "stored"

StoreInv == StoreType /\ Blobs

(* What the directory does for task c. *)
StoreStep(c) ==
    \/ \E k \in Key : Put(c, k) \/ Rename(c, k) \/ Get(c, k)
    \/ \E f \in Folder : Part(file[c], f) /\ WriteChunk(c, f)
    \/ Flush(c) \/ BreakUpload(c) \/ ReadChunk(c) \/ Close(c) \/ Discard(c)
    \/ UNCHANGED storeVars

LEMMA StoreInitially == StoreInit => StoreInv
<1> SUFFICES ASSUME StoreInit PROVE StoreInv
  OBVIOUS
<1>1. <<>> \in Seq(Piece) /\ <<>> \in Seq(Client)
  BY EmptySeq
<1> HIDE DEF Piece
<1>2. StoreType
  BY <1>1 DEF StoreInit, StoreType
<1>3. Blobs
  BY DEF StoreInit, Blobs
<1> QED BY <1>2, <1>3 DEF StoreInv

(* A step of c leaves alone what belongs to the other tasks, and removes   *)
(* no entry.                                                               *)
LEMMA StoreFrame ==
    ASSUME StoreType, NEW c \in Client, StoreStep(c)
    PROVE  /\ \A d \in Client \ {c} :
                /\ file'[d] = file[d] /\ upload'[d] = upload[d]
                /\ opened'[d] = opened[d] /\ received'[d] = received[d]
           /\ \A k \in Key : path[k] # Nothing => path'[k] # Nothing
<1>1. Nothing \notin Client
  BY BlobCacheAssumption
<1> QED BY <1>1 DEF StoreType, StoreStep, Put, Rename, Get, WriteChunk, Flush,
                    BreakUpload, ReadChunk, Close, Discard, storeVars

LEMMA StoreTypeKept ==
    ASSUME StoreInv, NEW c \in Client, StoreStep(c)
    PROVE  StoreType'
<1> USE DEF StoreInv
<1> HIDE DEF Piece
<1>0. <<>> \in Seq(Piece) /\ Nothing \notin Client
  BY EmptySeq, BlobCacheAssumption
<1>set. ASSUME NEW g \in [Client -> Seq(Piece)], NEW h \in Seq(Piece)
      PROVE  [g EXCEPT ![c] = h] \in [Client -> Seq(Piece)]
  OBVIOUS
<1>1. ASSUME NEW k \in Key, Put(c, k) \/ Rename(c, k) \/ Get(c, k)
      PROVE  StoreType'
  <2>1. CASE Put(c, k)
    <3>1. file' \in [Client -> Seq(Piece)]
      BY <1>0, <1>set, <2>1 DEF StoreType, Put
    <3> QED BY <2>1, <3>1 DEF StoreType, Put
  <2>2. CASE Rename(c, k)
    BY <2>2 DEF StoreType, Rename
  <2>3. CASE Get(c, k)
    <3>1. received' \in [Client -> Seq(Piece)]
      BY <1>0, <1>set, <2>3 DEF StoreType, Get
    <3> QED BY <2>3, <3>1 DEF StoreType, Get
  <2> QED BY <1>1, <2>1, <2>2, <2>3
<1>2. ASSUME NEW f \in Folder, Part(file[c], f), WriteChunk(c, f)
      PROVE  StoreType'
  <2>1. Append(file[c], Archive(f)[Len(file[c]) + 1]) \in Seq(Piece)
    BY <1>2, PartAppend DEF StoreType, WriteChunk
  <2> QED BY <1>2, <2>1 DEF StoreType, WriteChunk
<1>3. CASE Flush(c) \/ BreakUpload(c)
  <2>1. Append(modified, c) \in Seq(Client)
    BY AppendProperties DEF StoreType
  <2> QED BY <1>3, <2>1 DEF StoreType, Flush, BreakUpload
<1>4. CASE ReadChunk(c)
  <2>1. opened[c] \in Client /\ opened[c] # Nothing
    BY <1>4 DEF StoreType, ReadChunk
  <2>2. PICK f \in Folder : file[opened[c]] = Archive(f) /\ Part(received[c], f)
    BY <2>1 DEF Blobs
  <2>3. Len(received[c]) < Chunks
    BY <1>4, <2>2, ArchiveIs DEF ReadChunk
  <2>4. Append(received[c], file[opened[c]][Len(received[c]) + 1]) \in Seq(Piece)
    BY <2>2, <2>3, PartAppend DEF StoreType
  <2> QED BY <1>4, <2>4 DEF StoreType, ReadChunk
<1>5. CASE Close(c) \/ Discard(c)
  <2>1. received' \in [Client -> Seq(Piece)]
    BY <1>0, <1>set, <1>5 DEF StoreType, Close, Discard
  <2> QED BY <1>5, <2>1 DEF StoreType, Close, Discard
<1>6. CASE UNCHANGED storeVars
  BY <1>6 DEF StoreType, storeVars
<1> QED BY <1>1, <1>2, <1>3, <1>4, <1>5, <1>6 DEF StoreStep

LEMMA BlobsKept ==
    ASSUME StoreInv, NEW c \in Client, StoreStep(c)
    PROVE  Blobs'
<1> USE DEF StoreInv
<1>0. Nothing \notin Client
  BY BlobCacheAssumption
<1>type. StoreType'
  BY StoreTypeKept
(* What is to be shown when no upload is undone, no finished file changes  *)
(* and the order of the files at most grows.                               *)
<1>1. ASSUME \A d \in Client : upload[d] = "stored" =>
               upload'[d] = "stored" /\ file'[d] = file[d],
             \A d \in Client :
               /\ upload'[d] = "writing" /\ Len(file'[d]) = Chunks =>
                    Readable(file'[d])
               /\ upload'[d] \in {"flushed", "stored"} =>
                    Readable(file'[d]) /\ Dated(d)',
             \A d \in Client :
               \/ opened'[d] = Nothing
               \/ opened'[d] = opened[d] /\ received'[d] = received[d]
               \/ /\ opened'[d] \in Client /\ upload[opened'[d]] = "stored"
                  /\ \E f \in Folder : /\ file[opened'[d]] = Archive(f)
                                       /\ Part(received'[d], f),
             \A k \in Key : \/ path'[k] = path[k]
                            \/ path'[k] \in Client /\ upload'[path'[k]] = "stored"
      PROVE  Blobs'
  <2>1. ASSUME NEW d \in Client, opened'[d] # Nothing
        PROVE  /\ upload'[opened'[d]] = "stored"
               /\ \E f \in Folder : /\ file'[opened'[d]] = Archive(f)
                                    /\ Part(received'[d], f)
    <3>1. opened'[d] \in Client
      BY <1>type, <2>1 DEF StoreType
    <3>2. /\ upload[opened'[d]] = "stored"
          /\ \E f \in Folder : /\ file[opened'[d]] = Archive(f)
                               /\ Part(received'[d], f)
      BY <1>1, <2>1 DEF Blobs
    <3> QED BY <1>1, <3>1, <3>2
  <2>2. ASSUME NEW k \in Key, path'[k] # Nothing
        PROVE  upload'[path'[k]] = "stored"
    <3>1. path'[k] \in Client
      BY <1>type, <2>2 DEF StoreType
    <3> QED BY <1>1, <2>2, <3>1 DEF Blobs
  <2> QED BY <1>1, <2>1, <2>2 DEF Blobs
<1>2. \A d \in Client : Dated(d) => (modified' = modified => Dated(d)')
  BY DEF Dated
<1>3. ASSUME NEW k \in Key, Put(c, k) PROVE Blobs'
  <2>1. /\ upload' = [upload EXCEPT ![c] = "writing"] /\ upload[c] = "none"
        /\ file' = [file EXCEPT ![c] = <<>>] 
        /\ UNCHANGED <<path, modified, opened, received>>
    BY <1>3 DEF Put
  <2>2. \A d \in Client : IF d = c THEN upload'[d] = "writing" /\ file'[d] = <<>>
                          ELSE upload'[d] = upload[d] /\ file'[d] = file[d]
    BY <2>1 DEF StoreType
  <2>3. Len(<<>>) # Chunks
    BY BlobCacheAssumption, EmptySeq
  <2> QED BY <1>1, <1>2, <2>1, <2>2, <2>3 DEF Blobs
<1>4. ASSUME NEW k \in Key, Rename(c, k) PROVE Blobs'
  <2>1. /\ upload' = [upload EXCEPT ![c] = "stored"] /\ upload[c] = "flushed"
        /\ path' = [path EXCEPT ![k] = c]
        /\ UNCHANGED <<file, modified, opened, received>>
    BY <1>4 DEF Rename
  <2>2. \A d \in Client : upload'[d] = IF d = c THEN "stored" ELSE upload[d]
    BY <2>1 DEF StoreType
  <2>3. \A l \in Key : path'[l] = IF l = k THEN c ELSE path[l]
    BY <2>1 DEF StoreType
  <2> QED BY <1>1, <1>2, <2>1, <2>2, <2>3 DEF Blobs
<1>5. ASSUME NEW k \in Key, Get(c, k) PROVE Blobs'
  <2>1. /\ path[k] # Nothing /\ UNCHANGED <<file, upload, path, modified>>
        /\ opened' = [opened EXCEPT ![c] = path[k]]
        /\ received' = [received EXCEPT ![c] = <<>>]
    BY <1>5 DEF Get
  <2>2. path[k] \in Client /\ upload[path[k]] = "stored"
    BY <2>1 DEF StoreType, Blobs
  <2>3. PICK f \in Folder : file[path[k]] = Archive(f)
    BY <2>2 DEF Blobs, Readable
  <2>4. \A d \in Client :
          /\ opened'[d] = IF d = c THEN path[k] ELSE opened[d]
          /\ received'[d] = IF d = c THEN <<>> ELSE received[d]
    BY <2>1 DEF StoreType
  <2>5. Part(<<>>, f)
    BY EmptyIsPart
  <2> QED BY <1>1, <1>2, <2>1, <2>2, <2>3, <2>4, <2>5 DEF Blobs
<1>6. ASSUME NEW f \in Folder, Part(file[c], f), WriteChunk(c, f) PROVE Blobs'
  <2> DEFINE s == Append(file[c], Archive(f)[Len(file[c]) + 1])
  <2>1. /\ upload[c] = "writing" /\ Len(file[c]) < Chunks
        /\ file' = [file EXCEPT ![c] = s]
        /\ UNCHANGED <<upload, path, modified, opened, received>>
    BY <1>6 DEF WriteChunk
  <2>2. s \in Seq(Piece) /\ Part(s, f)
    BY <1>6, <2>1, PartAppend DEF StoreType
  <2> HIDE DEF s
  <2>3. Len(s) = Chunks => Readable(s)
    BY <2>2, PartWhole DEF Readable
  <2>4. \A d \in Client : file'[d] = IF d = c THEN s ELSE file[d]
    BY <2>1 DEF StoreType
  <2> QED BY <1>1, <1>2, <2>1, <2>3, <2>4 DEF Blobs
<1>7. CASE Flush(c)
  <2>1. /\ upload[c] = "writing" /\ Len(file[c]) = Chunks
        /\ upload' = [upload EXCEPT ![c] = "flushed"]
        /\ modified' = Append(modified, c)
        /\ UNCHANGED <<file, path, opened, received>>
    BY <1>7 DEF Flush
  <2>2. /\ Len(modified') = Len(modified) + 1 /\ modified'[Len(modified) + 1] = c
        /\ \A i \in 1 .. Len(modified) : modified'[i] = modified[i]
        /\ Len(modified) \in Nat /\ DOMAIN modified = 1 .. Len(modified)
        /\ DOMAIN modified' = 1 .. Len(modified')
    BY <1>type, <2>1, AppendProperties, LenProperties DEF StoreType
  <2>3. Dated(c)' /\ \A d \in Client : Dated(d) => Dated(d)'
    BY <2>2 DEF Dated
  <2>4. \A d \in Client : upload'[d] = IF d = c THEN "flushed" ELSE upload[d]
    BY <2>1 DEF StoreType
  <2> QED BY <1>1, <2>1, <2>3, <2>4 DEF Blobs
<1>8. CASE BreakUpload(c)
  <2>1. \A d \in Client : upload'[d] = IF d = c THEN "failed" ELSE upload[d]
    BY <1>8 DEF StoreType, BreakUpload
  <2> QED BY <1>1, <1>2, <1>8, <2>1 DEF Blobs, BreakUpload
<1>9. CASE ReadChunk(c)
  <2>1. opened[c] \in Client /\ opened[c] # Nothing
    BY <1>9 DEF StoreType, ReadChunk
  <2>2. PICK f \in Folder : file[opened[c]] = Archive(f) /\ Part(received[c], f)
    BY <2>1 DEF Blobs
  <2> DEFINE s == Append(received[c], Archive(f)[Len(received[c]) + 1])
  <2>3. received' = [received EXCEPT ![c] = s]
        /\ UNCHANGED <<file, upload, path, modified, opened>>
    BY <1>9, <2>2 DEF ReadChunk
  <2>4. Len(received[c]) < Chunks
    BY <1>9, <2>2, ArchiveIs DEF ReadChunk
  <2>5. Part(s, f)
    BY <2>2, <2>4, PartAppend DEF StoreType
  <2> HIDE DEF s
  <2>6. \A d \in Client : received'[d] = IF d = c THEN s ELSE received[d]
    BY <2>3 DEF StoreType
  <2> QED BY <1>1, <1>2, <2>1, <2>2, <2>3, <2>5, <2>6 DEF Blobs
<1>10. CASE Close(c) \/ Discard(c)
  <2>1. \A d \in Client :
          \/ opened'[d] = Nothing
          \/ opened'[d] = opened[d] /\ received'[d] = received[d]
    BY <1>10 DEF StoreType, Close, Discard
  <2>2. UNCHANGED <<file, upload, path, modified>>
    BY <1>10 DEF Close, Discard
  <2> QED BY <1>1, <1>2, <2>1, <2>2 DEF Blobs
<1>11. CASE UNCHANGED storeVars
  BY <1>11 DEF Blobs, Dated, storeVars
<1> QED BY <1>3, <1>4, <1>5, <1>6, <1>7, <1>8, <1>9, <1>10, <1>11 DEF StoreStep

-----------------------------------------------------------------------------
(* The directory implements BlobStore                                      *)

EntryOf(k) == IF path[k] = Nothing THEN Nothing
              ELSE IF Readable(file[path[k]]) THEN Unarchived(file[path[k]])
              ELSE <<"broken">>
ReadingOf(c) == IF opened[c] = Nothing THEN Nothing
                ELSE Unarchived(file[opened[c]])
DeliveredTo(c) == IF opened[c] = Nothing THEN Unarchived(received[c])
                  ELSE Nothing

LEMMA StoreRefines ==
    ASSUME StoreInv, NEW c \in Client, StoreStep(c)
    PROVE  [Store!Next]_(Store!vars)
<1> DEFINE e == [k \in Key |-> EntryOf(k)]
           r == [d \in Client |-> ReadingOf(d)]
           a == [d \in Client |-> DeliveredTo(d)]
<1>0. StoreType /\ Blobs /\ StoreType' /\ Blobs' /\ Nothing \notin Client
  BY StoreTypeKept, BlobsKept, BlobCacheAssumption DEF StoreInv
<1>1. /\ Store!vars = <<e, r, a>>
      /\ Store!vars' = <<e', r', a'>>
  BY DEF Store!vars, EntryOf, ReadingOf, DeliveredTo
<1>2. /\ \A k \in Key, b \in Folder : Store!Put(k, b) <=>
           /\ e' = [e EXCEPT ![k] = b] /\ UNCHANGED <<r, a>>
      /\ \A d \in Client, k \in Key : Store!Begin(d, k) <=>
           /\ e[k] # Nothing /\ r' = [r EXCEPT ![d] = e[k]]
           /\ a' = [a EXCEPT ![d] = Nothing] /\ e' = e
      /\ \A d \in Client : Store!Deliver(d) <=>
           /\ r[d] # Nothing /\ a' = [a EXCEPT ![d] = r[d]]
           /\ r' = [r EXCEPT ![d] = Nothing] /\ e' = e
      /\ \A d \in Client : Store!Drop(d) <=>
           /\ r' = [r EXCEPT ![d] = Nothing]
           /\ a' = [a EXCEPT ![d] = Nothing] /\ e' = e
  BY DEF Store!Put, Store!Begin, Store!Deliver, Store!Drop, EntryOf, ReadingOf,
         DeliveredTo
<1>3. /\ (\A k \in Key : EntryOf(k)' = EntryOf(k)) => e' = e
      /\ (\A d \in Client : ReadingOf(d)' = ReadingOf(d)) => r' = r
      /\ (\A d \in Client : DeliveredTo(d)' = DeliveredTo(d)) => a' = a
      /\ \A k \in Key : e[k] = EntryOf(k)
      /\ \A d \in Client : r[d] = ReadingOf(d) /\ a[d] = DeliveredTo(d)
  OBVIOUS
<1>4. ASSUME NEW k \in Key, NEW b, EntryOf(k)' = b,
             \A l \in Key \ {k} : EntryOf(l)' = EntryOf(l)
      PROVE  e' = [e EXCEPT ![k] = b]
  BY <1>4
<1>5. ASSUME NEW b, ReadingOf(c)' = b,
             \A d \in Client \ {c} : ReadingOf(d)' = ReadingOf(d)
      PROVE  r' = [r EXCEPT ![c] = b]
  BY <1>5
<1>6. ASSUME NEW b, DeliveredTo(c)' = b,
             \A d \in Client \ {c} : DeliveredTo(d)' = DeliveredTo(d)
      PROVE  a' = [a EXCEPT ![c] = b]
  BY <1>6
<1> HIDE DEF e, r, a
(* Finished files stay what they are. *)
<1>7. \A d \in Client : upload[d] = "stored" => file'[d] = file[d]
  BY <1>0 DEF StoreStep, Put, Rename, Get, WriteChunk, Flush, BreakUpload,
              ReadChunk, Close, Discard, storeVars, StoreType
<1>8. ASSUME NEW k \in Key, path'[k] = path[k] PROVE EntryOf(k)' = EntryOf(k)
  BY <1>0, <1>7, <1>8 DEF EntryOf, Blobs, StoreType
<1>9. ASSUME NEW d \in Client, opened'[d] = opened[d]
      PROVE  ReadingOf(d)' = ReadingOf(d)
  BY <1>0, <1>7, <1>9 DEF ReadingOf, Blobs, StoreType
<1>10. ASSUME NEW d \in Client, opened'[d] = opened[d],
              opened[d] = Nothing => received'[d] = received[d]
       PROVE  DeliveredTo(d)' = DeliveredTo(d)
  BY <1>10 DEF DeliveredTo
<1>11. \A d \in Client \ {c} : /\ ReadingOf(d)' = ReadingOf(d)
                               /\ DeliveredTo(d)' = DeliveredTo(d)
  BY <1>0, <1>9, <1>10, StoreFrame
<1>12. path' = path => e' = e
  BY <1>3, <1>8
<1>13. CASE \/ \E k \in Key : Put(c, k)
            \/ \E f \in Folder : WriteChunk(c, f)
            \/ Flush(c) \/ BreakUpload(c) \/ ReadChunk(c) \/ UNCHANGED storeVars
  <2>1. path' = path /\ opened' = opened
        /\ (opened[c] = Nothing => received' = received)
    BY <1>13 DEF Put, WriteChunk, Flush, BreakUpload, ReadChunk, storeVars
  <2>2. ReadingOf(c)' = ReadingOf(c) /\ DeliveredTo(c)' = DeliveredTo(c)
    BY <1>9, <1>10, <2>1
  <2>3. e' = e /\ r' = r /\ a' = a
    BY <1>3, <1>11, <1>12, <2>1, <2>2
  <2> QED BY <1>1, <2>3
<1>14. ASSUME NEW k \in Key, Rename(c, k) PROVE [Store!Next]_(Store!vars)
  <2>1. /\ path' = [path EXCEPT ![k] = c] /\ UNCHANGED <<file, opened, received>>
        /\ upload[c] = "flushed"
    BY <1>14 DEF Rename
  <2>2. path'[k] = c /\ \A l \in Key \ {k} : path'[l] = path[l]
    BY <1>0, <2>1 DEF StoreType
  <2>3. Readable(file[c])
    BY <1>0, <2>1 DEF Blobs
  <2>4. PICK b \in Folder : b = Unarchived(file[c])
    BY <2>3, WholeIs
  <2>5. EntryOf(k)' = b
    BY <1>0, <2>1, <2>2, <2>3, <2>4 DEF EntryOf
  <2>6. e' = [e EXCEPT ![k] = b]
    BY <1>4, <1>8, <2>2, <2>5
  <2>7. r' = r /\ a' = a
    BY <1>3, <1>9, <1>10, <2>1
  <2>8. Store!Put(k, b)
    BY <1>2, <2>6, <2>7
  <2> QED BY <2>8 DEF Store!Next
<1>15. ASSUME NEW k \in Key, Get(c, k) PROVE [Store!Next]_(Store!vars)
  <2>1. /\ path[k] # Nothing /\ path' = path /\ file' = file
        /\ opened'[c] = path[k]
    BY <1>0, <1>15 DEF Get, StoreType
  <2>2. path[k] \in Client /\ upload[path[k]] = "stored"
    BY <1>0, <2>1 DEF Blobs, StoreType
  <2>3. Readable(file[path[k]])
    BY <1>0, <2>2 DEF Blobs
  <2>4. e[k] = Unarchived(file[path[k]]) /\ e[k] # Nothing
    BY <1>3, <2>1, <2>3, WholeIs DEF EntryOf
  <2>5. ReadingOf(c)' = e[k] /\ DeliveredTo(c)' = Nothing
    BY <1>0, <2>1, <2>2, <2>4 DEF ReadingOf, DeliveredTo
  <2>6. Store!Begin(c, k)
    BY <1>2, <1>5, <1>6, <1>11, <1>12, <2>1, <2>4, <2>5
  <2> QED BY <2>6 DEF Store!Next
<1>16. CASE Close(c)
  <2>1. opened[c] # Nothing /\ opened'[c] = Nothing /\ received' = received
        /\ path' = path
    BY <1>0, <1>16 DEF Close, StoreType
  <2>2. PICK f \in Folder : file[opened[c]] = Archive(f) /\ Part(received[c], f)
    BY <1>0, <2>1 DEF Blobs
  <2>3. ReadingOf(c) = f /\ f # Nothing /\ ReadingOf(c)' = Nothing
    BY <2>1, <2>2, ArchiveIs, BlobCacheAssumption DEF ReadingOf
  <2>4. CASE Len(received[c]) = Chunks
    <3>1. received[c] = Archive(f)
      BY <1>0, <2>2, <2>4, PartWhole DEF StoreType
    <3>2. DeliveredTo(c)' = f
      BY <2>1, <3>1, ArchiveIs DEF DeliveredTo
    <3>3. Store!Deliver(c)
      BY <1>2, <1>3, <1>5, <1>6, <1>11, <1>12, <2>1, <2>3, <3>2
    <3> QED BY <3>3 DEF Store!Next
  <2>5. CASE Len(received[c]) # Chunks
    <3>1. DeliveredTo(c)' = Nothing
      BY <2>1, <2>5, TooShort DEF DeliveredTo
    <3>2. Store!Drop(c)
      BY <1>2, <1>5, <1>6, <1>11, <1>12, <2>1, <2>3, <3>1
    <3> QED BY <3>2 DEF Store!Next
  <2> QED BY <2>4, <2>5
<1>17. CASE Discard(c)
  <2>1. opened'[c] = Nothing /\ received'[c] = <<>> /\ path' = path
    BY <1>0, <1>17 DEF Discard, StoreType
  <2>2. ReadingOf(c)' = Nothing /\ DeliveredTo(c)' = Nothing
    BY <2>1, EmptyIsPart DEF ReadingOf, DeliveredTo
  <2>3. Store!Drop(c)
    BY <1>2, <1>5, <1>6, <1>11, <1>12, <2>1, <2>2
  <2> QED BY <2>3 DEF Store!Next
<1> QED BY <1>13, <1>14, <1>15, <1>16, <1>17 DEF StoreStep

-----------------------------------------------------------------------------
(* The tasks                                                               *)

(* Task t with instruction i, how far its upload is (u), what it has       *)
(* opened (o), the file of its upload (b) and whether there is an entry    *)
(* under its key (e).                                                      *)
Control(t, u, o) ==
    /\ t.pc \notin {"posting", "done", "failed"} => u = "none"
    /\ t.pc = "posting" => u # "none"
    /\ t.pc = "reading" <=> o # Nothing
    /\ t.pc \in {"fetch", "reading", "fetched"} => t.looking \in Key

(* The folders are empty until something is restored or populated, and     *)
(* what is restored counts as available.                                   *)
Folders(t) ==
    /\ t.pc \in {"cache", "fetch", "reading", "fetched"} => ~t.populated
    /\ ~t.populated /\ t.pc \in {"cache", "fetch", "reading", "fetched",
                                 "downloaded"} => t.folder = EmptyFolder
    /\ t.populated /\ t.pc = "downloaded" => t.folder \in Folder
    /\ t.pc \in {"check", "post", "posting"} => t.folder \in Folder
    /\ t.populated => t.available
    /\ t.hasher # <<>> => t.populated

(* What is reported and what is stored. *)
Honest(t, i, u, b, e) ==
    /\ ~t.populated => \A k \in Key : t.report[k] # "hit"
    /\ t.report[i.key] = "miss" => u = "stored"
    /\ t.pc = "posting" /\ u = "writing" => Part(b, t.folder)
    /\ u = "stored" => e

(* Nothing that is received whole is refused. *)
Intact(t, r) == t.sources /\ (t.pc = "fetched" => Readable(r))

(* A task that does not restore optimistically speaks of its own key.      *)
Filled(t, i, e) ==
    /\ t.pc \in {"fetch", "reading", "fetched"} => t.looking = i.key
    /\ t.pc \in {"reading", "fetched"} \/ t.attempt = 2 \/ t.available => e
    /\ t.pc = "done" /\ t.folder # EmptyFolder => e

(* A task uploads when it is to upload again, or has seen no entry. *)
Looked(t, i, u) ==
    t.pc \in {"post", "posting"} \/ u \in {"writing", "flushed"} =>
        i.reupload \/ t.seen = Nothing

Whatever(t, i, u, o, b, e) ==
    Control(t, u, o) /\ Folders(t) /\ Honest(t, i, u, b, e)
Unless(t, i, u, r, e) ==
    t.faulty \/ (/\ Intact(t, r) /\ Looked(t, i, u)
                 /\ i.optimistic \/ Filled(t, i, e))

Entered(c) == path[instruction[c].key] # Nothing
Kept(c) ==
    /\ Whatever(task[c], instruction[c], upload[c], opened[c], file[c],
                Entered(c))
    /\ Unless(task[c], instruction[c], upload[c], received[c], Entered(c))

TaskType ==
    /\ instruction \in [Client -> Instruction]
    /\ task \in [Client -> Task]
    /\ faults \in 0 .. MaxFaults

IndInv == StoreInv /\ TaskType /\ \A c \in Client : Kept(c)

LEMMA TaskFields ==
    ASSUME NEW t \in Task
    PROVE  /\ t.pc \in Location /\ t.looking \in Key \cup {Nothing}
           /\ t.attempt \in {1, 2} /\ t.stat \in BOOLEAN /\ t.optimist \in BOOLEAN
           /\ t.folder \in Folder \cup {EmptyFolder} /\ t.sources \in BOOLEAN
           /\ t.populated \in BOOLEAN /\ t.available \in BOOLEAN
           /\ t.hasher \in {<<>>} \cup {SHA(f) : f \in Folder}
           /\ t.report \in [Key -> {"none", "hit", "populated", "miss", "failed"}]
           /\ t.seen \in Client \cup {Nothing, "unlooked"} /\ t.faulty \in BOOLEAN
BY DEF Task

LEMMA InstructionFields ==
    ASSUME NEW i \in Instruction
    PROVE  /\ i.key \in Key /\ i.prefixed \subseteq Key
           /\ i.optimistic \in BOOLEAN /\ i.reupload \in BOOLEAN
           /\ i.populate \in BOOLEAN /\ i.wide \in BOOLEAN
BY InstructionAssumption

(* What is unpacked into empty folders is what they hold. *)
LEMMA OverEmpty ==
    ASSUME NEW f \in Folder
    PROVE  Over(f, EmptyFolder) = f
<1>1. DOMAIN EmptyFolder = {}
  BY DEF EmptyFolder
<1>2. f = [p \in DOMAIN f |-> f[p]]
  BY FolderAssumption
<1> HIDE DEF EmptyFolder
<1>3. Over(f, EmptyFolder) = [p \in DOMAIN f |-> f[p]]
  BY <1>1 DEF Over
<1> QED BY <1>2, <1>3

(* The hash of a folder with files is not that of one without. *)
LEMMA HashOfFiles ==
    ASSUME NEW f \in Folder
    PROVE  SHA(f) # <<>>
<1>1. IsFiniteSet(DOMAIN f) /\ DOMAIN f # {}
  BY FolderAssumption
<1>2. Cardinality(DOMAIN f) \in Nat /\ Cardinality(DOMAIN f) # 0
  BY <1>1, FS_CardinalityType, FS_EmptySet
<1>3. DOMAIN SHA(f) = 1 .. Cardinality(DOMAIN f)
  BY DEF SHA
<1>4. 1 \in DOMAIN SHA(f)
  BY <1>2, <1>3
<1>5. 1 \notin DOMAIN <<>>
  OBVIOUS
<1> QED BY <1>4, <1>5

(* FindByPrefix() returns a key that has an entry, if there is one. *)
LEMMA FindIs ==
    ASSUME StoreInv, NEW ks \in SUBSET Key
    PROVE  FindByPrefix(ks) \in {k \in ks : path[k] # Nothing} \cup {Nothing}
<1> DEFINE found == {k \in ks : path[k] # Nothing}
           time(k) == ModTime(path[k])
           T == {time(k) : k \in found}
<1>1. ASSUME NEW k \in found PROVE time(k) \in Nat
  <2>1. path[k] \in Client /\ upload[path[k]] = "stored"
    BY DEF StoreInv, StoreType, Blobs
  <2>2. Dated(path[k])
    BY <2>1 DEF StoreInv, Blobs
  <2>3. time(k) \in DOMAIN modified
    BY <2>2 DEF ModTime, Dated
  <2> QED BY <2>3, LenProperties DEF StoreInv, StoreType
<1>2. CASE found = {}
  BY <1>2 DEF FindByPrefix
<1>3. CASE found # {}
  <2>1. T \in SUBSET Nat /\ T # {}
    BY <1>1, <1>3
  <2>2. PICK m \in T : \A n \in T : m <= n
    BY <2>1, LeastElement
  <2>3. \E k \in found : \A l \in found : time(k) <= time(l)
    BY <2>2
  <2>4. FindByPrefix(ks) =
          CHOOSE k \in found : \A l \in found : ModTime(path[k]) <= ModTime(path[l])
    BY <1>3 DEF FindByPrefix
  <2> QED BY <2>3, <2>4
<1> QED BY <1>2, <1>3

-----------------------------------------------------------------------------
(* One task goes on                                                        *)

(* What has to be shown of a step that makes t of task c. *)
LEMMA Goes ==
    ASSUME IndInv, NEW c \in Client, StoreStep(c), NEW t \in Task,
           task' = [task EXCEPT ![c] = t], instruction' = instruction,
           faults' \in 0 .. MaxFaults,
           Whatever(t, instruction[c], upload'[c], opened'[c], file'[c],
                    Entered(c)'),
           Unless(t, instruction[c], upload'[c], received'[c], Entered(c)')
    PROVE  IndInv'
<1>0. StoreInv /\ TaskType
  BY DEF IndInv
<1>1. StoreInv'
  BY <1>0, StoreTypeKept, BlobsKept DEF StoreInv
<1>2. TaskType' /\ \A d \in Client : task'[d] = IF d = c THEN t ELSE task[d]
  BY <1>0 DEF TaskType
<1>3. Kept(c)'
  BY <1>2 DEF Kept
<1>4. ASSUME NEW d \in Client \ {c} PROVE Kept(d)'
  <2>1. /\ file'[d] = file[d] /\ upload'[d] = upload[d] /\ opened'[d] = opened[d]
        /\ received'[d] = received[d] /\ task'[d] = task[d]
    BY <1>0, <1>2, StoreFrame DEF StoreInv
  <2>2. Entered(d) => Entered(d)'
    <3>1. instruction[d].key \in Key
      BY <1>0, InstructionFields DEF TaskType
    <3> QED BY <1>0, <3>1, StoreFrame DEF StoreInv, Entered
  <2>3. Kept(d)
    BY DEF IndInv
  <2> QED BY <2>1, <2>2, <2>3 DEF Kept, Whatever, Unless, Honest, Filled
<1> QED BY <1>1, <1>2, <1>3, <1>4 DEF IndInv

(* ... when nothing fails: ... *)
LEMMA Does ==
    ASSUME IndInv, NEW c \in Client, StoreStep(c), NEW t \in Task, Do(c, t),
           Whatever(t, instruction[c], upload'[c], opened'[c], file'[c],
                    Entered(c)'),
           Unless(t, instruction[c], upload'[c], received'[c], Entered(c)')
    PROVE  IndInv'
<1>1. /\ task' = [task EXCEPT ![c] = t] /\ instruction' = instruction
      /\ faults' \in 0 .. MaxFaults
  BY DEF Do, IndInv, TaskType
<1> QED BY <1>1, Goes

(* ... and when something does. *)
LEMMA Fails ==
    ASSUME IndInv, NEW c \in Client, StoreStep(c), NEW t \in Task, Fail(c, t),
           Whatever(t, instruction[c], upload'[c], opened'[c], file'[c],
                    Entered(c)')
    PROVE  IndInv'
<1> DEFINE s == [t EXCEPT !.faulty = TRUE]
<1>1. /\ s \in Task /\ s.faulty = TRUE /\ s.pc = t.pc /\ s.looking = t.looking
      /\ s.folder = t.folder /\ s.populated = t.populated
      /\ s.available = t.available /\ s.hasher = t.hasher /\ s.report = t.report
  <2>1. TRUE \in BOOLEAN
    OBVIOUS
  <2> QED BY <2>1 DEF Task
<1>2. task' = [task EXCEPT ![c] = s] /\ instruction' = instruction
  BY DEF Fail
<1>3. faults' \in 0 .. MaxFaults
  BY InstructionAssumption DEF Fail, IndInv, TaskType
<1> HIDE DEF s
<1>4. Whatever(s, instruction[c], upload'[c], opened'[c], file'[c], Entered(c)')
  BY <1>1 DEF Whatever, Control, Folders, Honest
<1>5. Unless(s, instruction[c], upload'[c], received'[c], Entered(c)')
  BY <1>1 DEF Unless
<1> QED BY <1>1, <1>2, <1>3, <1>4, <1>5, Goes

(* ... and when the step touches no file. *)
LEMMA Reads ==
    ASSUME IndInv, NEW c \in Client, StoreStep(c), UNCHANGED <<file, upload, path>>,
           NEW t \in Task,
           Whatever(t, instruction[c], upload[c], opened'[c], file[c], Entered(c)),
           \/ Fail(c, t)
           \/ /\ Do(c, t)
              /\ Unless(t, instruction[c], upload[c], received'[c], Entered(c))
    PROVE  IndInv'
<1>1. instruction' = instruction
  BY DEF Do, Fail
<1>2. Entered(c)' <=> Entered(c)
  BY <1>1 DEF Entered
<1>3. Whatever(t, instruction[c], upload'[c], opened'[c], file'[c], Entered(c)')
  BY <1>2 DEF Whatever, Honest
<1>4. CASE Fail(c, t)
  BY <1>3, <1>4, Fails
<1>5. CASE /\ Do(c, t)
           /\ Unless(t, instruction[c], upload[c], received'[c], Entered(c))
  <2>1. Unless(t, instruction[c], upload'[c], received'[c], Entered(c)')
    BY <1>2, <1>5 DEF Unless, Filled
  <2> QED BY <1>3, <1>5, <2>1, Does
<1> QED BY <1>4, <1>5

LEMMA Known ==
    ASSUME IndInv, NEW c \in Client
    PROVE  /\ StoreInv /\ task[c] \in Task /\ instruction[c] \in Instruction
           /\ upload[c] \in {"none", "writing", "flushed", "stored", "failed"}
           /\ Whatever(task[c], instruction[c], upload[c], opened[c], file[c],
                       Entered(c))
           /\ Unless(task[c], instruction[c], upload[c], received[c], Entered(c))
           /\ OwnKey(c) \in Key /\ OwnKey(c) = instruction[c].key
BY InstructionFields DEF IndInv, TaskType, Kept, OwnKey, StoreInv, StoreType

-----------------------------------------------------------------------------
(* DownloadCache()                                                         *)

LEMMA GenerateCacheKeyKept ==
    ASSUME IndInv, NEW c \in Client, GenerateCacheKey(c)
    PROVE  IndInv'
<1>1. /\ task[c].pc = "cache" /\ UNCHANGED storeVars /\ StoreStep(c)
  BY DEF GenerateCacheKey, At, StoreStep
<1>2. UNCHANGED <<file, upload, path, opened, received>>
  BY <1>1 DEF storeVars
<1>3. CASE Do(c, [task[c] EXCEPT !.pc = "fetch", !.looking = OwnKey(c)])
  <2>0. PICK t : t = [task[c] EXCEPT !.pc = "fetch", !.looking = OwnKey(c)]
    OBVIOUS
  <2>1. task[c] \in Task /\ OwnKey(c) \in Key \cup {Nothing} /\ "fetch" \in Location
    BY Known DEF Location
  <2>2. t \in Task
    BY <2>0, <2>1 DEF Task
  <2>3. /\ t.pc = "fetch" /\ t.looking = OwnKey(c)
        /\ t.attempt = task[c].attempt /\ t.folder = task[c].folder
        /\ t.sources = task[c].sources /\ t.populated = task[c].populated
        /\ t.available = task[c].available /\ t.hasher = task[c].hasher
        /\ t.report = task[c].report /\ t.seen = task[c].seen
        /\ t.faulty = task[c].faulty
    BY <2>0, <2>1 DEF Task
  <2>4. Do(c, t)
    BY <1>3, <2>0 DEF Do
  <2>5. Whatever(t, instruction[c], upload[c], opened'[c], file[c], Entered(c))
    BY <1>1, <1>2, <2>3, Known DEF Whatever, Control, Folders, Honest
  <2>6. Unless(t, instruction[c], upload[c], received'[c], Entered(c))
    BY <1>1, <1>2, <2>3, Known DEF Unless, Whatever, Control, Intact, Looked, Filled
  <2> QED BY <1>1, <1>2, <2>2, <2>4, <2>5, <2>6, Reads
<1>4. ASSUME NEW r \in {"none", "failed"},
             Fail(c, [task[c] EXCEPT !.pc = "failed", !.report[OwnKey(c)] = r])
      PROVE  IndInv'
  <2>0. PICK p : p = [task[c].report EXCEPT ![OwnKey(c)] = r]
    OBVIOUS
  <2>1. PICK t : t = [task[c] EXCEPT !.pc = "failed", !.report = p]
    OBVIOUS
  <2>2. /\ p \in [Key -> {"none", "hit", "populated", "miss", "failed"}]
        /\ \A k \in Key : p[k] = IF k = OwnKey(c) THEN r ELSE task[c].report[k]
    BY <2>0, Known, TaskFields
  <2>3. task[c] \in Task /\ "failed" \in Location
    BY Known DEF Location
  <2>4. t \in Task
    BY <2>1, <2>2, <2>3 DEF Task
  <2>5. /\ t.pc = "failed" /\ t.report = p
        /\ t.folder = task[c].folder /\ t.populated = task[c].populated
        /\ t.available = task[c].available /\ t.hasher = task[c].hasher
    BY <2>1, <2>3 DEF Task
  <2>6. Fail(c, t)
    BY <1>4, <2>0, <2>1 DEF Fail
  <2>7. Whatever(t, instruction[c], upload[c], opened'[c], file[c], Entered(c))
    BY <1>1, <1>2, <2>2, <2>5, Known DEF Whatever, Control, Folders, Honest
  <2> QED BY <1>1, <1>2, <2>4, <2>6, <2>7, Reads
<1> QED BY <1>3, <1>4 DEF GenerateCacheKey

(* What a task keeps while it goes on. *)
SameCache(t, s) ==
    /\ t.folder = s.folder /\ t.populated = s.populated
    /\ t.available = s.available /\ t.hasher = s.hasher /\ t.report = s.report
SamePast(t, s) ==
    /\ t.attempt = s.attempt /\ t.sources = s.sources /\ t.seen = s.seen
    /\ t.faulty = s.faulty

LEMMA PcSet ==
    ASSUME NEW s \in Task, NEW l \in Location
    PROVE  LET t == [s EXCEPT !.pc = l]
           IN  /\ t \in Task /\ t.pc = l /\ t.looking = s.looking
               /\ SameCache(t, s) /\ SamePast(t, s)
BY DEF Task, SameCache, SamePast

LEMMA ReturnedIs ==
    ASSUME NEW s \in Task, NEW p \in BOOLEAN, NEW a \in BOOLEAN
    PROVE  LET t == Returned(s, p, a)
           IN  /\ t \in Task /\ t.pc = "downloaded" /\ t.looking = s.looking
               /\ t.populated = p /\ t.available = a
               /\ t.folder = s.folder /\ t.hasher = s.hasher
               /\ t.report = s.report /\ SamePast(t, s)
<1>1. "downloaded" \in Location
  BY DEF Location
<1> QED BY <1>1 DEF Returned, Task, SamePast

LEMMA FetchMissingKept ==
    ASSUME IndInv, NEW c \in Client, FetchMissing(c)
    PROVE  IndInv'
<1>0. PICK t : t = Returned(task[c], FALSE, task[c].attempt = 2)
  OBVIOUS
<1>1. /\ task[c].pc = "fetch" /\ UNCHANGED storeVars /\ StoreStep(c)
  BY DEF FetchMissing, At, StoreStep
<1>2. UNCHANGED <<file, upload, path, opened, received>>
  BY <1>1 DEF storeVars
<1>3. task[c] \in Task /\ FALSE \in BOOLEAN /\ (task[c].attempt = 2) \in BOOLEAN
  BY Known
<1>4. /\ t \in Task /\ t.pc = "downloaded" /\ t.looking = task[c].looking
      /\ t.populated = FALSE /\ t.available = (task[c].attempt = 2)
      /\ t.folder = task[c].folder /\ t.hasher = task[c].hasher
      /\ t.report = task[c].report /\ SamePast(t, task[c])
  BY <1>0, <1>3, ReturnedIs
<1>5. Whatever(t, instruction[c], upload[c], opened'[c], file[c], Entered(c))
  BY <1>1, <1>2, <1>4, Known DEF Whatever, Control, Folders, Honest
<1>6. Unless(t, instruction[c], upload[c], received'[c], Entered(c))
  BY <1>1, <1>2, <1>4, Known
     DEF Unless, Whatever, Control, Intact, Looked, Filled, SamePast
<1>7. Do(c, t) \/ Fail(c, t)
  BY <1>0 DEF FetchMissing, Do, Fail
<1> QED BY <1>1, <1>2, <1>4, <1>5, <1>6, <1>7, Reads

LEMMA FetchBeginsKept ==
    ASSUME IndInv, NEW c \in Client, FetchBegins(c)
    PROVE  IndInv'
<1>0. PICK t : t = [task[c] EXCEPT !.pc = "reading"]
  OBVIOUS
<1>1. task[c].pc = "fetch" /\ Get(c, task[c].looking) /\ Do(c, t)
  BY <1>0 DEF FetchBegins, At, Do
<1>2. task[c].looking \in Key
  BY <1>1, Known DEF Whatever, Control
<1>3. StoreStep(c) /\ UNCHANGED <<file, upload, path>>
  BY <1>1, <1>2 DEF StoreStep, Get
<1>4. opened'[c] # Nothing /\ path[task[c].looking] # Nothing
  BY <1>1, Known DEF Get, StoreInv, StoreType
<1>5. task[c] \in Task /\ "reading" \in Location
  BY Known DEF Location
<1>6. /\ t \in Task /\ t.pc = "reading" /\ t.looking = task[c].looking
      /\ SameCache(t, task[c]) /\ SamePast(t, task[c])
  BY <1>0, <1>5, PcSet
<1>7. Whatever(t, instruction[c], upload[c], opened'[c], file[c], Entered(c))
  BY <1>1, <1>2, <1>4, <1>6, Known
     DEF Whatever, Control, Folders, Honest, SameCache
<1>8. Unless(t, instruction[c], upload[c], received'[c], Entered(c))
  BY <1>1, <1>4, <1>6, Known
     DEF Unless, Whatever, Control, Intact, Looked, Filled, SamePast, SameCache,
         Entered
<1> QED BY <1>1, <1>3, <1>6, <1>7, <1>8, Reads

LEMMA FetchReadsKept ==
    ASSUME IndInv, NEW c \in Client, FetchReads(c)
    PROVE  IndInv'
<1>0. PICK t : t = task[c]
  OBVIOUS
<1>1. /\ t.pc = "reading" /\ StoreStep(c) /\ UNCHANGED <<file, upload, path, opened>>
      /\ task' = task /\ UNCHANGED <<instruction, faults>>
  BY <1>0 DEF FetchReads, At, ReadChunk, StoreStep, Same
<1>2. task = [task EXCEPT ![c] = t]
  BY <1>0 DEF IndInv, TaskType
<1>3. t \in Task /\ Do(c, t)
  BY <1>0, <1>1, <1>2, Known DEF Do
<1>4. Whatever(t, instruction[c], upload[c], opened'[c], file[c], Entered(c))
  BY <1>0, <1>1, Known
<1>5. Unless(t, instruction[c], upload[c], received'[c], Entered(c))
  BY <1>0, <1>1, Known DEF Unless, Intact
<1> QED BY <1>1, <1>3, <1>4, <1>5, Reads

LEMMA FetchEndsKept ==
    ASSUME IndInv, NEW c \in Client, FetchEnds(c)
    PROVE  IndInv'
<1>0. PICK t : t = [task[c] EXCEPT !.pc = "fetched"]
  OBVIOUS
<1>1. /\ task[c].pc = "reading" /\ Close(c) /\ StoreStep(c)
      /\ UNCHANGED <<file, upload, path, received>>
  BY DEF FetchEnds, At, Close, StoreStep
<1>2. opened[c] # Nothing /\ opened'[c] = Nothing
  BY <1>1, Known DEF Close, StoreInv, StoreType
<1>3. AtEnd(c) => Readable(received[c])
  <2>1. PICK f \in Folder : file[opened[c]] = Archive(f) /\ Part(received[c], f)
    BY <1>2, Known DEF StoreInv, Blobs
  <2>2. AtEnd(c) => Len(received[c]) = Chunks
    BY <2>1, ArchiveIs DEF AtEnd
  <2> QED BY <2>1, <2>2, Known, PartWhole DEF Readable, StoreInv, StoreType
<1>4. task[c] \in Task /\ "fetched" \in Location
  BY Known DEF Location
<1>5. /\ t \in Task /\ t.pc = "fetched" /\ t.looking = task[c].looking
      /\ SameCache(t, task[c]) /\ SamePast(t, task[c])
  BY <1>0, <1>4, PcSet
<1>6. Whatever(t, instruction[c], upload[c], opened'[c], file[c], Entered(c))
  BY <1>1, <1>2, <1>5, Known DEF Whatever, Control, Folders, Honest, SameCache
<1>7. AtEnd(c) => Unless(t, instruction[c], upload[c], received'[c], Entered(c))
  BY <1>1, <1>3, <1>5, Known
     DEF Unless, Whatever, Control, Intact, Looked, Filled, SamePast, SameCache
<1>8. (AtEnd(c) /\ Do(c, t)) \/ Fail(c, t)
  BY <1>0 DEF FetchEnds, Do, Fail
<1> QED BY <1>1, <1>5, <1>6, <1>7, <1>8, Reads

LEMMA DiscardIs ==
    ASSUME IndInv, NEW c \in Client, Discard(c)
    PROVE  /\ StoreStep(c) /\ UNCHANGED <<file, upload, path>>
           /\ opened'[c] = Nothing
BY Known DEF Discard, StoreStep, StoreInv, StoreType

LEMMA FetchFailsKept ==
    ASSUME IndInv, NEW c \in Client, FetchFails(c)
    PROVE  IndInv'
<1>0. PICK timeout \in BOOLEAN : Fail(c, Returned(task[c], FALSE, timeout))
  BY DEF FetchFails
<1>1. PICK t : t = Returned(task[c], FALSE, timeout)
  OBVIOUS
<1>2. Discard(c) /\ task[c].pc \in {"fetch", "reading"} /\ Fail(c, t)
  BY <1>0, <1>1 DEF FetchFails, At, Fail
<1>3. task[c] \in Task /\ FALSE \in BOOLEAN
  BY Known
<1>4. /\ t \in Task /\ t.pc = "downloaded" /\ t.populated = FALSE
      /\ t.folder = task[c].folder /\ t.hasher = task[c].hasher
      /\ t.report = task[c].report
  BY <1>1, <1>3, ReturnedIs
<1>5. Whatever(t, instruction[c], upload[c], opened'[c], file[c], Entered(c))
  BY <1>2, <1>4, Known, DiscardIs DEF Whatever, Control, Folders, Honest
<1> QED BY <1>2, <1>4, <1>5, DiscardIs, Reads

LEMMA UnarchiveKept ==
    ASSUME IndInv, NEW c \in Client, Unarchive(c)
    PROVE  IndInv'
<1>0. PICK s : s = Returned(task[c], TRUE, TRUE)
  OBVIOUS
<1>1. PICK f : f = Unarchived(received[c])
  OBVIOUS
<1>2. PICK k : k = task[c].looking
  OBVIOUS
<1>3. PICK r : r = IF task[c].stat THEN "hit" ELSE task[c].report[k]
  OBVIOUS
<1>3a. PICK p : p = [task[c].report EXCEPT ![k] = r]
  OBVIOUS
<1>4. PICK t : t = [s EXCEPT !.folder = f, !.report = p]
  OBVIOUS
<1>5. task[c].pc = "fetched" /\ Readable(received[c]) /\ Discard(c)
  BY DEF Unarchive, At
<1>6. f \in Folder /\ k \in Key /\ task[c].folder = EmptyFolder
  BY <1>1, <1>2, <1>5, Known, WholeIs DEF Whatever, Control, Folders
<1>7. task[c] \in Task /\ TRUE \in BOOLEAN
  BY Known
<1>8. /\ s \in Task /\ s.pc = "downloaded" /\ s.looking = task[c].looking
      /\ s.populated = TRUE /\ s.available = TRUE
      /\ s.folder = task[c].folder /\ s.hasher = task[c].hasher
      /\ s.report = task[c].report /\ SamePast(s, task[c])
  BY <1>0, <1>7, ReturnedIs
<1>9. /\ p \in [Key -> {"none", "hit", "populated", "miss", "failed"}]
      /\ \A l \in Key : p[l] = IF l = k THEN r ELSE task[c].report[l]
      /\ r = "hit" \/ r = task[c].report[k]
  BY <1>3, <1>3a, <1>6, <1>7, TaskFields
<1>10. t \in Task
  BY <1>4, <1>6, <1>8, <1>9 DEF Task
<1>11. /\ t.pc = "downloaded" /\ t.folder = f /\ t.report = p
       /\ t.populated = TRUE /\ t.available = TRUE /\ t.hasher = s.hasher
       /\ SamePast(t, s)
  BY <1>4, <1>8 DEF Task, SamePast
<1>12. Do(c, t)
  <2>1. Over(Unarchived(received[c]), task[c].folder) = f
    BY <1>1, <1>6, OverEmpty
  <2>2. [s EXCEPT !.folder = Over(Unarchived(received[c]), @),
                  !.report[task[c].looking] =
                     IF task[c].stat THEN "hit" ELSE @] = t
    BY <1>2, <1>3, <1>3a, <1>4, <1>8, <2>1
  <2> QED BY <1>0, <2>2 DEF Unarchive, Do
<1>13. Whatever(t, instruction[c], upload[c], opened'[c], file[c], Entered(c))
  BY <1>5, <1>6, <1>8, <1>9, <1>11, Known, DiscardIs
     DEF Whatever, Control, Folders, Honest
<1>14. Unless(t, instruction[c], upload[c], received'[c], Entered(c))
  BY <1>5, <1>8, <1>11, Known
     DEF Unless, Whatever, Control, Intact, Looked, Filled, SamePast
<1> QED BY <1>5, <1>10, <1>12, <1>13, <1>14, DiscardIs, Reads

LEMMA StatFailsKept ==
    ASSUME IndInv, NEW c \in Client, StatFails(c)
    PROVE  IndInv'
<1>0. /\ task[c].pc = "fetched" /\ UNCHANGED storeVars /\ StoreStep(c)
  BY DEF StatFails, At, StoreStep
<1>1. UNCHANGED <<file, upload, path, opened, received>>
  BY <1>0 DEF storeVars
<1>2. PICK k : k = task[c].looking
  OBVIOUS
<1>3. PICK p : p = [task[c].report EXCEPT ![k] = "failed"]
  OBVIOUS
<1>4. PICK t : t = [task[c] EXCEPT !.stat = FALSE, !.report = p]
  OBVIOUS
<1>5. task[c] \in Task /\ FALSE \in BOOLEAN /\ k \in Key
  BY <1>0, <1>2, Known DEF Whatever, Control
<1>6. /\ p \in [Key -> {"none", "hit", "populated", "miss", "failed"}]
      /\ \A l \in Key : p[l] = IF l = k THEN "failed" ELSE task[c].report[l]
  BY <1>3, <1>5, TaskFields
<1>7. /\ t \in Task /\ t.pc = task[c].pc /\ t.looking = task[c].looking
      /\ t.report = p /\ t.folder = task[c].folder
      /\ t.populated = task[c].populated /\ t.available = task[c].available
      /\ t.hasher = task[c].hasher
  BY <1>4, <1>5, <1>6 DEF Task
<1>8. Fail(c, t)
  BY <1>2, <1>3, <1>4 DEF StatFails, Fail
<1>9. Whatever(t, instruction[c], upload[c], opened'[c], file[c], Entered(c))
  BY <1>0, <1>1, <1>6, <1>7, Known DEF Whatever, Control, Folders, Honest
<1> QED BY <1>0, <1>1, <1>7, <1>8, <1>9, Reads

LEMMA RemovedIs ==
    ASSUME IndInv, NEW c \in Client
    PROVE  LET t == Removed(c)
           IN  /\ t \in Task /\ t.pc = task[c].pc /\ t.looking = task[c].looking
               /\ t.folder = EmptyFolder /\ t.attempt = task[c].attempt
               /\ t.populated = task[c].populated
               /\ t.available = task[c].available
               /\ t.hasher = task[c].hasher /\ t.report = task[c].report
               /\ t.seen = task[c].seen /\ t.faulty = task[c].faulty
<1> DEFINE b == task[c].sources /\ ~instruction[c].wide
<1>1. task[c] \in Task
  BY Known
<1>2. b \in BOOLEAN
  BY Known, TaskFields
<1>3. Removed(c) = [task[c] EXCEPT !.folder = EmptyFolder, !.sources = b]
  BY DEF Removed
<1> HIDE DEF b
<1> QED BY <1>1, <1>2, <1>3 DEF Task

LEMMA UnarchiveFailsKept ==
    ASSUME IndInv, NEW c \in Client, UnarchiveFails(c)
    PROVE  IndInv'
<1>1. task[c].pc = "fetched" /\ Discard(c)
  BY DEF UnarchiveFails, At
<1>2. PICK s : s = Removed(c)
  OBVIOUS
<1>3. PICK t : t = IF task[c].attempt = 1
                   THEN [s EXCEPT !.pc = "fetch", !.attempt = 2]
                   ELSE Returned(s, FALSE, TRUE)
  OBVIOUS
<1>4. Fail(c, t) \/ (Do(c, t) /\ ~Readable(received[c]))
  BY <1>2, <1>3 DEF UnarchiveFails, Do, Fail
<1>5. /\ s \in Task /\ s.looking = task[c].looking
      /\ s.folder = EmptyFolder /\ s.populated = task[c].populated
      /\ s.available = task[c].available
      /\ s.hasher = task[c].hasher /\ s.report = task[c].report
      /\ s.seen = task[c].seen /\ s.faulty = task[c].faulty
  BY <1>2, RemovedIs
<1>6. /\ t \in Task /\ t.looking = s.looking /\ t.folder = s.folder
      /\ t.hasher = s.hasher /\ t.report = s.report
      /\ t.seen = s.seen /\ t.faulty = s.faulty
      /\ \/ t.pc = "fetch" /\ t.populated = s.populated /\ t.available = s.available
         \/ t.pc = "downloaded" /\ t.populated = FALSE
  <2>1. CASE task[c].attempt = 1
    <3>1. t = [s EXCEPT !.pc = "fetch", !.attempt = 2] /\ "fetch" \in Location
      BY <1>3, <2>1 DEF Location
    <3> QED BY <1>5, <3>1 DEF Task
  <2>2. CASE task[c].attempt # 1
    <3>1. t = Returned(s, FALSE, TRUE) /\ FALSE \in BOOLEAN /\ TRUE \in BOOLEAN
      BY <1>3, <2>2
    <3> QED BY <1>5, <3>1, ReturnedIs DEF SamePast
  <2> QED BY <2>1, <2>2
<1>7. Whatever(t, instruction[c], upload[c], opened'[c], file[c], Entered(c))
  BY <1>1, <1>5, <1>6, Known, DiscardIs DEF Whatever, Control, Folders, Honest
<1>8. ~Readable(received[c]) =>
        Unless(t, instruction[c], upload[c], received'[c], Entered(c))
  BY <1>1, <1>5, <1>6, Known DEF Unless, Intact
<1> QED BY <1>1, <1>4, <1>6, <1>7, <1>8, DiscardIs, Reads

LEMMA FindLatestKept ==
    ASSUME IndInv, NEW c \in Client, FindLatest(c)
    PROVE  IndInv'
<1>1. /\ task[c].pc = "downloaded" /\ AsksForLatest(c) /\ UNCHANGED storeVars
      /\ StoreStep(c)
  BY DEF FindLatest, At, StoreStep
<1>2. UNCHANGED <<file, upload, path, opened, received>>
  BY <1>1 DEF storeVars
<1>3. PICK found : found = FindByPrefix(instruction[c].prefixed)
  OBVIOUS
<1>4. found \in Key \cup {Nothing}
  BY <1>3, Known, FindIs, InstructionFields
<1>5. PICK s : s = [task[c] EXCEPT !.optimist = TRUE, !.stat = TRUE]
  OBVIOUS
<1>6. task[c] \in Task /\ TRUE \in BOOLEAN
  BY Known
<1>7. /\ s \in Task /\ s.pc = task[c].pc /\ s.looking = task[c].looking
      /\ SameCache(s, task[c]) /\ SamePast(s, task[c])
  BY <1>5, <1>6 DEF Task, SameCache, SamePast
<1>8. PICK t : t = [s EXCEPT !.pc = "fetch", !.looking = found, !.attempt = 1]
  OBVIOUS
<1>9. "fetch" \in Location
  BY DEF Location
<1>10. /\ t \in Task /\ t.pc = "fetch" /\ t.looking = found
       /\ SameCache(t, s) /\ t.sources = s.sources /\ t.seen = s.seen
       /\ t.faulty = s.faulty
  BY <1>4, <1>7, <1>8, <1>9 DEF Task, SameCache
<1>11. ~task[c].available /\ instruction[c].optimistic
  BY <1>1 DEF AsksForLatest
<1>12. CASE Do(c, s) \/ Fail(c, s)
  <2>1. Whatever(s, instruction[c], upload[c], opened'[c], file[c], Entered(c))
    BY <1>1, <1>2, <1>7, Known DEF Whatever, Control, Folders, Honest, SameCache
  <2>2. Unless(s, instruction[c], upload[c], received'[c], Entered(c))
    BY <1>1, <1>2, <1>7, <1>11, Known DEF Unless, Intact, Looked, SamePast
  <2> QED BY <1>1, <1>2, <1>7, <1>12, <2>1, <2>2, Reads
<1>13. CASE Do(c, t) /\ found # Nothing
  <2>1. Whatever(t, instruction[c], upload[c], opened'[c], file[c], Entered(c))
    BY <1>1, <1>2, <1>4, <1>7, <1>10, <1>11, <1>13, Known
       DEF Whatever, Control, Folders, Honest, SameCache
  <2>2. Unless(t, instruction[c], upload[c], received'[c], Entered(c))
    BY <1>1, <1>2, <1>7, <1>10, <1>11, Known DEF Unless, Intact, Looked, SamePast
  <2> QED BY <1>1, <1>2, <1>10, <1>13, <2>1, <2>2, Reads
<1> QED BY <1>3, <1>5, <1>8, <1>12, <1>13 DEF FindLatest, Do, Fail

LEMMA PopulateKept ==
    ASSUME IndInv, NEW c \in Client, Populate(c)
    PROVE  IndInv'
<1>1. task[c].pc = "downloaded" /\ UNCHANGED storeVars /\ StoreStep(c)
  BY DEF Populate, At, StoreStep
<1>2. UNCHANGED <<file, upload, path, opened, received>>
  BY <1>1 DEF storeVars
<1>3. PICK s : s = [task[c] EXCEPT !.pc = "scripts"]
  OBVIOUS
<1>4. task[c] \in Task /\ "scripts" \in Location /\ "failed" \in Location
  BY Known DEF Location
<1>5. /\ s \in Task /\ s.pc = "scripts" /\ SameCache(s, task[c])
      /\ SamePast(s, task[c])
  BY <1>3, <1>4, PcSet
<1>6. CASE s.populated /\ Do(c, [s EXCEPT !.hasher = SHA(s.folder)])
  <2>1. PICK h : h = SHA(s.folder)
    OBVIOUS
  <2>2. h \in {<<>>} \cup {SHA(f) : f \in Folder}
    BY <1>1, <1>5, <1>6, <2>1, Known DEF Whatever, Folders, SameCache
  <2>3. PICK t : t = [s EXCEPT !.hasher = h]
    OBVIOUS
  <2>4. /\ t \in Task /\ t.pc = "scripts" /\ t.folder = s.folder
        /\ t.populated = s.populated /\ t.available = s.available
        /\ t.hasher = h /\ t.report = s.report /\ SamePast(t, s)
    BY <1>5, <2>2, <2>3 DEF Task, SamePast
  <2>5. Whatever(t, instruction[c], upload[c], opened'[c], file[c], Entered(c))
    <3>1. Whatever(s, instruction[c], upload[c], opened[c], file[c], Entered(c))
      BY <1>1, <1>5, Known DEF Whatever, Control, Folders, Honest, SameCache
    <3>2. Control(t, upload[c], opened'[c])
      BY <1>2, <1>5, <2>4, <3>1 DEF Whatever, Control
    <3>3. Honest(t, instruction[c], upload[c], file[c], Entered(c))
      BY <1>5, <2>4, <3>1 DEF Whatever, Honest
    <3>4. s.populated /\ s.available
      BY <1>6, <3>1 DEF Whatever, Folders
    <3>5. t.populated /\ t.available
      BY <2>4, <3>4
    <3>6. Folders(t)
      BY <2>4, <3>5 DEF Folders
    <3> QED BY <3>2, <3>3, <3>6 DEF Whatever
  <2>6. Unless(t, instruction[c], upload[c], received'[c], Entered(c))
    BY <1>1, <1>2, <1>5, <2>4, Known
       DEF Unless, Whatever, Control, Intact, Looked, Filled, SamePast, SameCache
  <2>7. Do(c, t)
    BY <1>6, <2>1, <2>3 DEF Do
  <2> QED BY <1>1, <1>2, <2>4, <2>5, <2>6, <2>7, Reads
<1>7. CASE ~s.populated /\ Do(c, s)
  <2>1. Whatever(s, instruction[c], upload[c], opened'[c], file[c], Entered(c))
    BY <1>1, <1>2, <1>5, Known DEF Whatever, Control, Folders, Honest, SameCache
  <2>2. Unless(s, instruction[c], upload[c], received'[c], Entered(c))
    BY <1>1, <1>2, <1>5, Known
       DEF Unless, Whatever, Control, Intact, Looked, Filled, SamePast, SameCache
  <2> QED BY <1>1, <1>2, <1>5, <1>7, <2>1, <2>2, Reads
<1>8. ASSUME NEW f \in Folder, ~s.populated,
             Do(c, [s EXCEPT !.folder = Over(f, @),
                             !.report[OwnKey(c)] = "populated"])
      PROVE  IndInv'
  <2>1. PICK p : p = [s.report EXCEPT ![OwnKey(c)] = "populated"]
    OBVIOUS
  <2>2. /\ p \in [Key -> {"none", "hit", "populated", "miss", "failed"}]
        /\ \A k \in Key : p[k] = IF k = OwnKey(c) THEN "populated" ELSE s.report[k]
    BY <1>5, <2>1, Known, TaskFields
  <2>3. PICK t : t = [s EXCEPT !.folder = f, !.report = p]
    OBVIOUS
  <2>4. t \in Task
    BY <1>5, <2>2, <2>3 DEF Task
  <2>5. /\ t.pc = "scripts" /\ t.folder = f /\ t.report = p
        /\ t.populated = s.populated /\ t.available = s.available
        /\ t.hasher = s.hasher /\ SamePast(t, s)
    BY <1>5, <2>3 DEF Task, SamePast
  <2>6. Over(f, s.folder) = f
    BY <1>1, <1>5, <1>8, Known, OverEmpty DEF Whatever, Folders, SameCache
  <2>7. Do(c, t)
    BY <1>8, <2>1, <2>3, <2>6 DEF Do
  <2>8. Whatever(t, instruction[c], upload[c], opened'[c], file[c], Entered(c))
    BY <1>1, <1>2, <1>5, <1>8, <2>2, <2>5, Known
       DEF Whatever, Control, Folders, Honest, SameCache
  <2>9. Unless(t, instruction[c], upload[c], received'[c], Entered(c))
    BY <1>1, <1>2, <1>5, <2>5, Known
       DEF Unless, Whatever, Control, Intact, Looked, Filled, SamePast, SameCache
  <2> QED BY <1>1, <1>2, <2>4, <2>7, <2>8, <2>9, Reads
<1>9. CASE Fail(c, [s EXCEPT !.pc = "failed", !.report[OwnKey(c)] = "failed"])
  <2>1. PICK p : p = [s.report EXCEPT ![OwnKey(c)] = "failed"]
    OBVIOUS
  <2>2. /\ p \in [Key -> {"none", "hit", "populated", "miss", "failed"}]
        /\ \A k \in Key : p[k] = IF k = OwnKey(c) THEN "failed" ELSE s.report[k]
    BY <1>5, <2>1, Known, TaskFields
  <2>3. PICK t : t = [s EXCEPT !.pc = "failed", !.report = p]
    OBVIOUS
  <2>4. t \in Task
    BY <1>4, <1>5, <2>2, <2>3 DEF Task
  <2>5. /\ t.pc = "failed" /\ t.folder = s.folder /\ t.report = p
        /\ t.populated = s.populated /\ t.available = s.available
        /\ t.hasher = s.hasher
    BY <1>5, <2>3 DEF Task
  <2>6. Fail(c, t)
    BY <1>9, <2>1, <2>3 DEF Fail
  <2>7. Whatever(t, instruction[c], upload[c], opened'[c], file[c], Entered(c))
    BY <1>1, <1>2, <1>5, <2>2, <2>5, Known
       DEF Whatever, Control, Folders, Honest, SameCache
  <2> QED BY <1>1, <1>2, <2>4, <2>6, <2>7, Reads
<1> QED BY <1>3, <1>6, <1>7, <1>8, <1>9 DEF Populate, Do, Fail

LEMMA RunScriptsKept ==
    ASSUME IndInv, NEW c \in Client, RunScripts(c)
    PROVE  IndInv'
<1>1. task[c].pc = "scripts" /\ UNCHANGED storeVars /\ StoreStep(c)
  BY DEF RunScripts, At, StoreStep
<1>2. UNCHANGED <<file, upload, path, opened, received>>
  BY <1>1 DEF storeVars
<1>3. PICK f \in Folder \cup {EmptyFolder} :
        Do(c, [task[c] EXCEPT !.pc = "upload", !.folder = f])
  BY DEF RunScripts
<1>4. PICK t : t = [task[c] EXCEPT !.pc = "upload", !.folder = f]
  OBVIOUS
<1>5. task[c] \in Task /\ "upload" \in Location
  BY Known DEF Location
<1>6. /\ t \in Task /\ t.pc = "upload" /\ t.populated = task[c].populated
      /\ t.available = task[c].available /\ t.hasher = task[c].hasher
      /\ t.report = task[c].report /\ SamePast(t, task[c])
  BY <1>4, <1>5 DEF Task, SamePast
<1>7. Whatever(t, instruction[c], upload[c], opened'[c], file[c], Entered(c))
  BY <1>1, <1>2, <1>6, Known DEF Whatever, Control, Folders, Honest
<1>8. Unless(t, instruction[c], upload[c], received'[c], Entered(c))
  BY <1>1, <1>2, <1>6, Known
     DEF Unless, Whatever, Control, Intact, Looked, Filled, SamePast
<1>9. Do(c, t)
  BY <1>3, <1>4 DEF Do
<1> QED BY <1>1, <1>2, <1>6, <1>7, <1>8, <1>9, Reads

-----------------------------------------------------------------------------
(* UploadCache()                                                           *)

LEMMA UploadCacheKept ==
    ASSUME IndInv, NEW c \in Client, UploadCache(c)
    PROVE  IndInv'
<1>1. task[c].pc = "upload" /\ UNCHANGED storeVars /\ StoreStep(c)
  BY DEF UploadCache, At, StoreStep
<1>2. UNCHANGED <<file, upload, path, opened, received>>
  BY <1>1 DEF storeVars
<1>3. PICK l \in {"done", "failed", "post", "check"} :
        /\ \/ /\ Do(c, [task[c] EXCEPT !.pc = l])
              /\ l = "done" => NothingToUpload(c)
           \/ /\ Fail(c, [task[c] EXCEPT !.pc = l]) /\ l \in {"done", "failed"}
        /\ l \in {"post", "check"} => ~NothingToUpload(c)
        /\ l = "post" => task[c].available
  BY DEF UploadCache
<1>4. PICK t : t = [task[c] EXCEPT !.pc = l]
  OBVIOUS
<1>5. task[c] \in Task /\ l \in Location
  BY Known DEF Location
<1>6. /\ t \in Task /\ t.pc = l /\ SameCache(t, task[c]) /\ SamePast(t, task[c])
  BY <1>4, <1>5, PcSet
<1>7. l \in {"post", "check"} => task[c].folder \in Folder /\ ~SkipUpload(c)
  BY <1>3, <1>5, TaskFields DEF NothingToUpload
<1>8. NothingToUpload(c) /\ task[c].folder # EmptyFolder => task[c].available
  <2>1. NothingToUpload(c) => \/ SkipUpload(c) \/ task[c].folder = EmptyFolder
                              \/ SHA(task[c].folder) = task[c].hasher
    BY DEF NothingToUpload
  <2>2. task[c].folder \in Folder => SHA(task[c].folder) # <<>>
    BY HashOfFiles
  <2> QED BY <1>5, <2>1, <2>2, Known, TaskFields DEF SkipUpload, Whatever, Folders
<1>9. Whatever(t, instruction[c], upload[c], opened'[c], file[c], Entered(c))
  BY <1>1, <1>2, <1>6, <1>7, Known DEF Whatever, Control, Folders, Honest, SameCache
<1>10. (l = "done" => NothingToUpload(c)) =>
         Unless(t, instruction[c], upload[c], received'[c], Entered(c))
  BY <1>1, <1>2, <1>3, <1>6, <1>7, <1>8, Known
     DEF Unless, Whatever, Control, Intact, Looked, Filled, SamePast, SameCache,
         SkipUpload
<1>11. (Do(c, t) /\ (l = "done" => NothingToUpload(c))) \/ Fail(c, t)
  BY <1>3, <1>4 DEF Do, Fail
<1> QED BY <1>1, <1>2, <1>6, <1>9, <1>10, <1>11, Reads

LEMMA CheckOthersKept ==
    ASSUME IndInv, NEW c \in Client, CheckOthers(c)
    PROVE  IndInv'
<1>1. task[c].pc = "check" /\ UNCHANGED storeVars /\ StoreStep(c)
  BY DEF CheckOthers, At, StoreStep
<1>2. UNCHANGED <<file, upload, path, opened, received>>
  BY <1>1 DEF storeVars
<1>3. PICK e : e = path[OwnKey(c)]
  OBVIOUS
<1>4. e \in Client \cup {Nothing} /\ (Entered(c) <=> e # Nothing)
  BY <1>3, Known DEF StoreInv, StoreType, Entered
<1>5. PICK l \in {"done", "post"} :
        \/ /\ Do(c, [[task[c] EXCEPT !.seen = e] EXCEPT !.pc = l])
           /\ l = "done" <=> e # Nothing
        \/ Fail(c, [[task[c] EXCEPT !.seen = e] EXCEPT !.pc = l])
  BY <1>3 DEF CheckOthers
<1>6. PICK s : s = [task[c] EXCEPT !.seen = e]
  OBVIOUS
<1>7. PICK t : t = [s EXCEPT !.pc = l]
  OBVIOUS
<1>8. task[c] \in Task /\ l \in Location
      /\ e \in Client \cup {Nothing, "unlooked"}
  BY <1>4, Known DEF Location
<1>9. /\ s \in Task /\ SameCache(s, task[c]) /\ s.seen = e
      /\ s.attempt = task[c].attempt /\ s.sources = task[c].sources
      /\ s.faulty = task[c].faulty
  BY <1>6, <1>8 DEF Task, SameCache
<1>10. t \in Task /\ t.pc = l /\ SameCache(t, s) /\ SamePast(t, s)
  BY <1>7, <1>8, <1>9, PcSet
<1>11. Whatever(t, instruction[c], upload[c], opened'[c], file[c], Entered(c))
  BY <1>1, <1>2, <1>9, <1>10, Known DEF Whatever, Control, Folders, Honest, SameCache
<1>12. (l = "done" <=> e # Nothing) =>
         Unless(t, instruction[c], upload[c], received'[c], Entered(c))
  BY <1>1, <1>2, <1>4, <1>9, <1>10, Known
     DEF Unless, Whatever, Control, Intact, Looked, Filled, SamePast, SameCache
<1>13. (Do(c, t) /\ (l = "done" <=> e # Nothing)) \/ Fail(c, t)
  BY <1>5, <1>6, <1>7 DEF Do, Fail
<1> QED BY <1>1, <1>2, <1>10, <1>11, <1>12, <1>13, Reads

LEMMA PostBeginsKept ==
    ASSUME IndInv, NEW c \in Client, PostBegins(c)
    PROVE  IndInv'
<1>0. PICK t : t = [task[c] EXCEPT !.pc = "posting"]
  OBVIOUS
<1>1. task[c].pc = "post" /\ Put(c, OwnKey(c)) /\ Do(c, t)
  BY <1>0 DEF PostBegins, At, Do
<1>2. StoreStep(c) /\ UNCHANGED <<path, opened, received, instruction>>
  BY <1>1, Known DEF StoreStep, Put, Do
<1>3. upload'[c] = "writing" /\ file'[c] = <<>> /\ (Entered(c)' <=> Entered(c))
  BY <1>1, <1>2, Known DEF Put, StoreInv, StoreType, Entered
<1>4. task[c] \in Task /\ "posting" \in Location
  BY Known DEF Location
<1>5. /\ t \in Task /\ t.pc = "posting" /\ SameCache(t, task[c])
      /\ SamePast(t, task[c])
  BY <1>0, <1>4, PcSet
<1>6. Whatever(t, instruction[c], upload'[c], opened'[c], file'[c], Entered(c)')
  BY <1>1, <1>2, <1>3, <1>5, Known, EmptyIsPart
     DEF Whatever, Control, Folders, Honest, SameCache
<1>7. Unless(t, instruction[c], upload'[c], received'[c], Entered(c)')
  BY <1>1, <1>2, <1>3, <1>5, Known
     DEF Unless, Whatever, Control, Intact, Looked, Filled, SamePast, SameCache
<1> QED BY <1>1, <1>2, <1>5, <1>6, <1>7, Does

LEMMA PostEndsKept ==
    ASSUME IndInv, NEW c \in Client, PostEnds(c)
    PROVE  IndInv'
<1>1. /\ task[c].pc = "posting" /\ upload[c] = "stored" /\ UNCHANGED storeVars
      /\ StoreStep(c)
  BY DEF PostEnds, At, StoreStep
<1>2. UNCHANGED <<file, upload, path, opened, received>>
  BY <1>1 DEF storeVars
<1>3. PICK p : p = [task[c].report EXCEPT ![OwnKey(c)] = "miss"]
  OBVIOUS
<1>4. PICK t : t = [task[c] EXCEPT !.pc = "done", !.report = p]
  OBVIOUS
<1>5. /\ p \in [Key -> {"none", "hit", "populated", "miss", "failed"}]
      /\ \A k \in Key : p[k] = IF k = OwnKey(c) THEN "miss" ELSE task[c].report[k]
  BY <1>3, Known, TaskFields
<1>6. task[c] \in Task /\ "done" \in Location
  BY Known DEF Location
<1>7. t \in Task
  BY <1>4, <1>5, <1>6 DEF Task
<1>8. /\ t.pc = "done" /\ t.report = p /\ t.folder = task[c].folder
      /\ t.populated = task[c].populated /\ t.available = task[c].available
      /\ t.hasher = task[c].hasher /\ SamePast(t, task[c])
  BY <1>4, <1>6 DEF Task, SamePast
<1>9. Do(c, t)
  BY <1>3, <1>4 DEF PostEnds, Do
<1>10. Whatever(t, instruction[c], upload[c], opened'[c], file[c], Entered(c))
  BY <1>1, <1>2, <1>5, <1>8, Known DEF Whatever, Control, Folders, Honest
<1>11. Unless(t, instruction[c], upload[c], received'[c], Entered(c))
  BY <1>1, <1>2, <1>8, Known
     DEF Unless, Whatever, Control, Honest, Intact, Looked, Filled, SamePast
<1> QED BY <1>1, <1>2, <1>7, <1>9, <1>10, <1>11, Reads

(* A task that gives up its upload, loses its host or goes away. *)
LEMMA GivesUp ==
    ASSUME IndInv, NEW c \in Client, NEW l \in {"done", "failed"}, StoreStep(c),
           Fail(c, [task[c] EXCEPT !.pc = l]), path' = path, file' = file,
           \/ upload' = upload
           \/ upload[c] \in {"writing", "flushed"} /\ upload'[c] = "failed",
           opened'[c] = Nothing
    PROVE  IndInv'
<1>0. PICK t : t = [task[c] EXCEPT !.pc = l]
  OBVIOUS
<1>1. task[c] \in Task /\ l \in Location
  BY Known DEF Location
<1>2. t \in Task /\ t.pc = l /\ SameCache(t, task[c])
  BY <1>0, <1>1, PcSet
<1>3. Fail(c, t) /\ (Entered(c)' <=> Entered(c))
  BY <1>0 DEF Fail, Entered
<1>4. Whatever(t, instruction[c], upload'[c], opened'[c], file'[c], Entered(c)')
  BY <1>2, <1>3, Known DEF Whatever, Control, Folders, Honest, SameCache
<1> QED BY <1>2, <1>3, <1>4, Fails

LEMMA PostFailsKept ==
    ASSUME IndInv, NEW c \in Client, PostFails(c)
    PROVE  IndInv'
<1>1. /\ Fail(c, [task[c] EXCEPT !.pc = "done"]) /\ UNCHANGED storeVars
      /\ StoreStep(c) /\ task[c].pc # "reading"
  BY DEF PostFails, StoreStep, At
<1>2. UNCHANGED <<path, file, upload, opened>>
  BY <1>1 DEF storeVars
<1>3. opened'[c] = Nothing
  BY <1>1, <1>2, Known DEF Whatever, Control
<1> QED BY <1>1, <1>2, <1>3, GivesUp

LEMMA DieKept ==
    ASSUME IndInv, NEW c \in Client, Die(c)
    PROVE  IndInv'
<1>1. Fail(c, [task[c] EXCEPT !.pc = "failed"]) /\ Discard(c)
  BY DEF Die
<1> QED BY <1>1, DiscardIs, GivesUp

-----------------------------------------------------------------------------
(* The host while a task waits                                             *)

LEMMA Waits ==
    ASSUME IndInv, NEW c \in Client, StoreStep(c), Same,
           Whatever(task[c], instruction[c], upload'[c], opened'[c], file'[c],
                    Entered(c)'),
           Unless(task[c], instruction[c], upload'[c], received'[c], Entered(c)')
    PROVE  IndInv'
<1>1. PICK t : t = task[c]
  OBVIOUS
<1>2. task' = [task EXCEPT ![c] = t] /\ instruction' = instruction
      /\ faults' \in 0 .. MaxFaults /\ t \in Task
  BY <1>1, Known DEF Same, IndInv, TaskType
<1>3. Whatever(t, instruction[c], upload'[c], opened'[c], file'[c], Entered(c)')
  BY <1>1
<1>4. Unless(t, instruction[c], upload'[c], received'[c], Entered(c)')
  BY <1>1
<1> QED BY <1>2, <1>3, <1>4, Goes

LEMMA PostSendsKept ==
    ASSUME IndInv, NEW c \in Client, PostSends(c)
    PROVE  IndInv'
<1>1. PICK f : f = task[c].folder
  OBVIOUS
<1>2. /\ task[c].pc = "posting" /\ WriteChunk(c, f) /\ Same
      /\ upload[c] = "writing"
  BY <1>1 DEF PostSends, At, WriteChunk
<1>3. f \in Folder /\ Part(file[c], f)
  BY <1>1, <1>2, Known DEF Whatever, Folders, Honest
<1>4. StoreStep(c) /\ UNCHANGED <<upload, path, opened, received, instruction>>
  BY <1>2, <1>3 DEF StoreStep, WriteChunk, Same
<1>5. Part(file'[c], f)
  <2>1. file[c] \in Seq(Piece) /\ Len(file[c]) < Chunks
        /\ file'[c] = Append(file[c], Archive(f)[Len(file[c]) + 1])
    BY <1>2, Known DEF WriteChunk, StoreInv, StoreType
  <2> QED BY <1>3, <2>1, PartAppend
<1>6. Entered(c)' <=> Entered(c)
  BY <1>4 DEF Entered
<1>7. Whatever(task[c], instruction[c], upload'[c], opened'[c], file'[c],
               Entered(c)')
  BY <1>1, <1>4, <1>5, <1>6, Known DEF Whatever, Honest
<1>8. Unless(task[c], instruction[c], upload'[c], received'[c], Entered(c)')
  BY <1>4, <1>6, Known DEF Unless, Filled
<1> QED BY <1>2, <1>4, <1>7, <1>8, Waits

LEMMA HostKept ==
    ASSUME IndInv, NEW c \in Client,
           HostFlushes(c) \/ HostRenames(c) \/ HostBreaks(c)
    PROVE  IndInv'
<1>0. StoreType /\ Nothing \notin Client
  BY Known, BlobCacheAssumption DEF StoreInv
<1>1. UNCHANGED <<file, opened, received, instruction>> /\ StoreStep(c)
  BY Known DEF HostFlushes, HostRenames, HostBreaks, Flush, Rename, BreakUpload,
               Same, Fail, StoreStep
<1>2. upload[c] \in {"writing", "flushed"}
  BY DEF HostFlushes, HostRenames, HostBreaks, Flush, Rename, BreakUpload
<1>3. /\ task[c].pc \in {"posting", "done", "failed"} /\ opened[c] = Nothing
      /\ task[c].report[instruction[c].key] # "miss"
  BY <1>2, Known DEF Whatever, Control, Honest
<1>4. CASE HostBreaks(c) /\ task[c].pc = "posting"
  <2>1. Fail(c, [task[c] EXCEPT !.pc = "done"]) /\ path' = path
        /\ upload'[c] = "failed"
    BY <1>0, <1>4 DEF HostBreaks, At, BreakUpload, StoreType
  <2> QED BY <1>1, <1>2, <1>3, <2>1, GivesUp
<1>5. CASE ~(HostBreaks(c) /\ task[c].pc = "posting")
  <2>1. Same /\ upload'[c] \in {"flushed", "stored", "failed"}
        /\ (Entered(c) => Entered(c)')
        /\ (upload'[c] = "stored" => Entered(c)')
    <3>1. CASE HostRenames(c)
      <4>1. upload'[c] = "stored" /\ path'[OwnKey(c)] = c /\ Same
        BY <1>0, <3>1, Known DEF HostRenames, Rename, StoreType
      <4> QED BY <1>0, <1>1, <4>1 DEF Entered, OwnKey
    <3>2. CASE ~HostRenames(c)
      <4>1. Same /\ path' = path /\ upload'[c] \in {"flushed", "failed"}
        BY <1>0, <1>5, <3>2 DEF HostFlushes, HostBreaks, At, Flush, BreakUpload,
                                StoreType
      <4> QED BY <1>1, <4>1 DEF Entered
    <3> QED BY <3>1, <3>2
  <2>2. Whatever(task[c], instruction[c], upload'[c], opened'[c], file'[c],
                 Entered(c)')
    BY <1>1, <1>2, <1>3, <2>1, Known DEF Whatever, Control, Honest
  <2>3. Unless(task[c], instruction[c], upload'[c], received'[c], Entered(c)')
    BY <1>1, <1>2, <2>1, Known DEF Unless, Looked, Filled
  <2> QED BY <1>1, <2>1, <2>2, <2>3, Waits
<1> QED BY <1>4, <1>5

-----------------------------------------------------------------------------
(* The theorems                                                            *)

LEMMA IndInit == Init => IndInv
<1> SUFFICES ASSUME Init PROVE IndInv
  OBVIOUS
<1>1. StoreInv
  BY StoreInitially DEF Init
<1>2. PICK t : t = [pc |-> "cache", looking |-> Nothing, attempt |-> 1,
                    stat |-> TRUE, optimist |-> FALSE, folder |-> EmptyFolder, sources |-> TRUE,
                    populated |-> FALSE, available |-> FALSE, hasher |-> <<>>,
                    report |-> [k \in Key |-> "none"], seen |-> "unlooked",
                    faulty |-> FALSE]
  OBVIOUS
<1>3. task = [c \in Client |-> t]
  BY <1>2 DEF Init
<1>4. /\ t.pc = "cache" /\ t.attempt = 1 /\ t.folder = EmptyFolder
      /\ t.sources = TRUE /\ t.populated = FALSE /\ t.available = FALSE
      /\ t.hasher = <<>> /\ t.faulty = FALSE
      /\ \A k \in Key : t.report[k] = "none"
  BY <1>2
<1>5. t \in Task
  <2>1. /\ "cache" \in Location /\ TRUE \in BOOLEAN /\ FALSE \in BOOLEAN
        /\ <<>> \in {<<>>} \cup {SHA(f) : f \in Folder}
        /\ [k \in Key |-> "none"]
             \in [Key -> {"none", "hit", "populated", "miss", "failed"}]
    BY DEF Location
  <2> QED BY <1>2, <2>1 DEF Task
<1>6. TaskType
  <2>1. task \in [Client -> Task]
    BY <1>3, <1>5
  <2>2. instruction \in [Client -> Instruction] /\ faults = 0
    BY DEF Init
  <2>3. 0 \in 0 .. MaxFaults
    BY InstructionAssumption
  <2> QED BY <2>1, <2>2, <2>3 DEF TaskType
<1>7. ASSUME NEW c \in Client PROVE Kept(c)
  <2>1. task[c] = t /\ upload[c] = "none" /\ opened[c] = Nothing
        /\ instruction[c].key \in Key
    BY <1>3, <1>6, InstructionFields DEF Init, StoreInit, TaskType
  <2> QED BY <1>4, <2>1
       DEF Kept, Whatever, Control, Folders, Honest, Unless, Intact, Looked, Filled
<1> QED BY <1>1, <1>6, <1>7 DEF IndInv

LEMMA IndNext == IndInv /\ [Next]_vars => IndInv'
<1> SUFFICES ASSUME IndInv, [Next]_vars PROVE IndInv'
  OBVIOUS
<1>1. CASE UNCHANGED vars
  BY <1>1 DEF vars, storeVars, IndInv, StoreInv, StoreType, Blobs, Dated, TaskType,
              Kept, Entered
<1>2. ASSUME NEW c \in Client,
             \/ Step(c) \/ FetchFails(c) \/ StatFails(c) \/ HostBreaks(c)
             \/ PostFails(c) \/ Die(c)
      PROVE  IndInv'
  BY <1>2, GenerateCacheKeyKept, FetchMissingKept, FetchBeginsKept, FetchReadsKept,
     FetchEndsKept, StatFailsKept, UnarchiveKept, UnarchiveFailsKept, FindLatestKept, PopulateKept,
     RunScriptsKept, UploadCacheKept, CheckOthersKept, PostBeginsKept,
     PostSendsKept, PostEndsKept, HostKept, FetchFailsKept, PostFailsKept, DieKept
     DEF Step
<1> QED BY <1>1, <1>2 DEF Next

(* IndInv holds in every reachable state. *)
THEOREM IndInvCorrect == Spec => []IndInv
BY IndInit, IndNext, PTL DEF Spec

(* Every reachable state of the tasks and of the cache of the host is well *)
(* typed.                                                                  *)
THEOREM TypeCorrect == Spec => []TypeOK
<1>1. IndInv => TypeOK
  BY DEF IndInv, StoreInv, StoreType, Piece, TaskType, TypeOK
<1> QED BY <1>1, IndInvCorrect, PTL

(* However tasks overlap and requests fail, a task that has met no failure *)
(* of its own keeps its working directory: FetchCache() of an entry that   *)
(* others upload never yields a part of it, so that it is never removed.   *)
THEOREM SourcesAreKept == Spec => []SourcesKept
<1>1. IndInv => SourcesKept
  BY DEF IndInv, Kept, Unless, Intact, SourcesKept
<1> QED BY <1>1, IndInvCorrect, PTL

(* CacheAttempts reports a hit only of an entry that was restored and a    *)
(* miss only of one that the host has stored.                              *)
THEOREM ReportsAreTrue == Spec => []ReportIsTrue
<1>1. IndInv => ReportIsTrue
  BY DEF IndInv, Kept, Whatever, Honest, ReportIsTrue, OwnKey
<1> QED BY <1>1, IndInvCorrect, PTL

(* UploadCache() leaves an entry for the next task under a key that was    *)
(* missed, unless a request failed, the folders are empty or the           *)
(* instruction restores optimistically.                                    *)
THEOREM MissesAreFilled == Spec => []MissIsFilled
<1>1. IndInv => MissIsFilled
  <2> SUFFICES ASSUME IndInv, NEW c \in Client, task[c].pc = "done",
                      ~task[c].faulty, task[c].folder # EmptyFolder,
                      ~instruction[c].optimistic
               PROVE  path[OwnKey(c)] # Nothing
    BY DEF MissIsFilled, At
  <2> QED BY DEF IndInv, Kept, Unless, Filled, Entered, OwnKey
<1> QED BY <1>1, IndInvCorrect, PTL

(* A step that takes an entry from another task, of whatever tasks use the *)
(* key at the same time, is that of a task that is to upload again, has    *)
(* looked and seen none, or met a failure.                                 *)
THEOREM OnlyUnseenReplaced == Spec => ReplacesOnlyUnseen
<1> DEFINE A == \A k \in Key :
                   path[k] # Nothing /\ path'[k] # path[k] =>
                     LET c == path'[k]
                     IN \/ instruction[c].reupload
                        \/ task[c].seen = Nothing
                        \/ task[c].faulty
<1>1. IndInv /\ [Next]_vars => [A]_vars
  <2> SUFFICES ASSUME IndInv, Next, NEW k \in Key, path[k] # Nothing,
                      path'[k] # path[k]
               PROVE  \/ instruction[path'[k]].reupload
                      \/ task[path'[k]].seen = Nothing
                      \/ task[path'[k]].faulty
    BY DEF A
  <2>1. PICK c \in Client :
          \/ Step(c) \/ FetchFails(c) \/ StatFails(c) \/ HostBreaks(c)
          \/ PostFails(c) \/ Die(c)
    BY DEF Next
  <2>2. Rename(c, OwnKey(c))
    BY <2>1 DEF Step, GenerateCacheKey, FetchMissing, FetchBegins, Get, FetchReads,
       ReadChunk, FetchEnds, Close, Unarchive, UnarchiveFails, Discard, FindLatest,
       Populate, RunScripts, UploadCache, CheckOthers, PostBegins, Put, PostSends,
       WriteChunk, PostEnds, HostFlushes, Flush, HostRenames, FetchFails,
       StatFails, HostBreaks, BreakUpload, PostFails, Die, storeVars
  <2>3. path'[k] = c /\ upload[c] = "flushed"
    BY <2>2, Known DEF Rename, StoreInv, StoreType
  <2> QED BY <2>3, Known DEF Unless, Looked
<1> QED BY <1>1, IndInvCorrect, PTL DEF Spec, ReplacesOnlyUnseen

(* Every step of the tasks is a step of BlobStore or invisible to it. *)
LEMMA NextIsStoreStep ==
    ASSUME IndInv, NEW c \in Client,
           \/ Step(c) \/ FetchFails(c) \/ StatFails(c) \/ HostBreaks(c)
           \/ PostFails(c) \/ Die(c)
    PROVE  StoreStep(c)
<1>1. CASE FetchBegins(c)
  BY <1>1, Known DEF FetchBegins, At, Whatever, Control, StoreStep
<1>2. CASE PostSends(c)
  BY <1>2, Known DEF PostSends, At, WriteChunk, Whatever, Folders, Honest, StoreStep
<1>3. CASE PostBegins(c) \/ HostRenames(c)
  BY <1>3, Known DEF PostBegins, HostRenames, StoreStep
<1>4. CASE FetchReads(c) \/ FetchEnds(c) \/ Unarchive(c) \/ UnarchiveFails(c)
           \/ HostFlushes(c) \/ HostBreaks(c) \/ FetchFails(c) \/ Die(c)
  BY <1>4 DEF FetchReads, FetchEnds, Unarchive, UnarchiveFails, HostFlushes,
              HostBreaks, FetchFails, Die, StoreStep
<1>5. CASE GenerateCacheKey(c) \/ FetchMissing(c) \/ FindLatest(c) \/ Populate(c)
           \/ RunScripts(c) \/ UploadCache(c) \/ CheckOthers(c) \/ PostEnds(c)
           \/ PostFails(c) \/ StatFails(c)
  BY <1>5 DEF GenerateCacheKey, FetchMissing, FindLatest, Populate, RunScripts,
              UploadCache, CheckOthers, PostEnds, PostFails, StatFails,
              StoreStep
<1> QED BY <1>1, <1>2, <1>3, <1>4, <1>5 DEF Step

(* The directory of temporary blobs, renames and open files implements the *)
(* atomic store: for any number of tasks and pieces, and wherever uploads  *)
(* and downloads break off, a key holds nothing or one whole archive, and  *)
(* a download that is taken for whole delivers what the key held when it   *)
(* began.                                                                  *)
THEOREM CacheIsBlobStore == Spec => ImplementsBlobStore
<1>1. Init => Store!Init
  <2> SUFFICES ASSUME Init PROVE Store!Init
    OBVIOUS
  <2>1. (\A k \in Key : path[k] = Nothing) /\ \A c \in Client :
          opened[c] = Nothing /\ Unarchived(received[c]) = Nothing
    BY EmptyIsPart DEF Init, StoreInit
  <2> QED BY <2>1 DEF Store!Init
<1>2. IndInv /\ [Next]_vars => [Store!Next]_(Store!vars)
  <2> SUFFICES ASSUME IndInv, [Next]_vars PROVE [Store!Next]_(Store!vars)
    OBVIOUS
  <2>1. CASE UNCHANGED vars
    BY <2>1 DEF vars, storeVars, Store!vars
  <2>2. CASE Next
    <3>1. PICK c \in Client :
            \/ Step(c) \/ FetchFails(c) \/ StatFails(c) \/ HostBreaks(c)
            \/ PostFails(c) \/ Die(c)
      BY <2>2 DEF Next
    <3>2. StoreInv /\ StoreStep(c)
      BY <3>1, NextIsStoreStep, Known
    <3> QED BY <3>2, StoreRefines
  <2> QED BY <2>1, <2>2
<1> QED BY <1>1, <1>2, IndInvCorrect, PTL DEF Spec, Store!Spec, ImplementsBlobStore
=============================================================================
