------------------------------ MODULE RarFile -------------------------------
(***************************************************************************)
(* pkg/resource/rarfileresource over pkg/rardecode: a file of an archive as *)
(* an io.ReadSeeker, which only goes forwards and begins again to go back.  *)
(*                                                                         *)
(* The file is stored, not compressed (decVer = 0), has a checksum and a    *)
(* known size. Encrypted data is decrypted block by block (decrypt_reader), *)
(* where a block is right if the one before it was the one before it.       *)
(***************************************************************************)
EXTENDS RarVolumes

CONSTANTS
  Length,    \* UnPackedSize of the file
  Name,      \* its name
  BlockSize, \* of the cipher
  MaxRead    \* a bound on the length of a Read

ASSUME RarAssumption ==
  Length \in Nat /\ BlockSize \in Nat \ {0} /\ MaxRead \in Nat \ {0}

VARIABLES
  reader,  \* rarReader: "none" before Open, "nil", "open"; "stale" with the readers
           \* of its volumes moved, after which its Reads are not followed
  lim,     \* limitedReader.n, or -1 where Reader.r is nil
  hash,    \* what checksumReader has seen: the bytes delivered so far
  cipher,  \* cipherBlockReader
  index,
  job,     \* the call,
  want,    \* what it still has to read,
  target,  \* newIndex, and
  back,    \* does it go backwards?
  rewind,  \* the volumes whose readers are not back at their start yet
  lost,    \* has the reader lost its place?
  answer

streamVars == <<reader, lim, hash, cipher>>
callVars   == <<job, want, target, back, rewind>>
rarVars    == <<packVars, pc, step, streamVars, index, callVars, lost, answer>>

Content == [k \in 1 .. Length |-> k]


Return(bytes, err) ==
  /\ answer' = [op |-> job, bytes |-> bytes, err |-> err]
  /\ pc' = "idle" /\ step' = "data"
  /\ job' = "idle" /\ want' = 0 /\ target' = 0 /\ back' = FALSE /\ rewind' = {}

-----------------------------------------------------------------------------
(* Open and GetRarFiles *)

NoCipher == [on |-> FALSE, keyed |-> FALSE, in |-> << >>, part |-> << >>, out |-> << >>, last |-> 0]

(* Open, also on behalf of Size, or GetRarFiles with a limit of 1. A volume    *)
(* that cannot be opened ends the call as one without a signature does.      *)
Open ==
  /\ pc = "idle" /\ reader = "none"
  /\ job' \in {"open", "list"}
  /\ NewMultiReader(TRUE)
  /\ at' = [v \in DOMAIN arc.vols |-> 0] /\ held' = [v \in DOMAIN arc.vols |-> TRUE]
  /\ lim' = -1
  /\ UNCHANGED <<arc, faults, reader, hash, cipher, index, want, target, back, rewind, lost, answer>>

(* skipToFile looks for the file's name. Reader.Next has left Reader.r nil.   *)
FileFound ==
  /\ pc = "named" /\ job \in {"open", "seek"} /\ h.name = Name
  /\ lim' = -1 /\ hash' = << >> /\ index' = 0 /\ cipher' = NoCipher
  /\ IF job = "open"
     THEN reader' = "open" /\ Return(<< >>, "nil")
     ELSE pc' = "skipping" /\ want' = target /\ UNCHANGED <<reader, step, job, target, back, rewind, answer>>
  /\ UNCHANGED <<packVars, lost>>

OtherFile ==
  /\ pc = "named" /\ job \in {"open", "seek"} /\ h.name # Name
  /\ pc' = "skip"
  /\ UNCHANGED <<packVars, step, streamVars, index, callVars, lost, answer>>

(* GetRarFiles returns the first header; its loop does not go on from one of  *)
(* a directory.                                                              *)
FirstFile ==
  /\ pc = "named" /\ job = "list"
  /\ ~h.dir
  /\ Return(<< >>, "nil")
  /\ UNCHANGED <<packVars, streamVars, index, lost>>

-----------------------------------------------------------------------------
(* Read: the readers of nextFile, from the outermost *)

Read(k) ==
  /\ pc = "idle" /\ reader \notin {"none", "stale"}
  /\ job' = "read" /\ pc' = "reading" /\ want' = k
  /\ UNCHANGED <<packVars, step, streamVars, index, target, back, rewind, lost, answer>>

(* NewMultiReader has returned nil. *)
ReadNil ==
  /\ pc = "reading" /\ reader = "nil"
  /\ pc' = "panic"
  /\ UNCHANGED <<packVars, step, streamVars, index, callVars, lost, answer>>

(* nextFile, on the first Read of a file. Where Next has failed there is none. *)
NextFile ==
  /\ pc = "reading" /\ reader = "open" /\ lim = -1
  /\ IF h = NoHeader
     THEN Return(<< >>, "eof") /\ UNCHANGED <<lim, hash, cipher>>
     ELSE /\ lim' = h.length /\ hash' = << >>
          /\ cipher' = [NoCipher EXCEPT !.on = h.locked]
          /\ UNCHANGED <<pc, step, callVars, answer>>
  /\ UNCHANGED <<packVars, reader, index, lost>>

(* Faulty: what was read is not compared with the checksum. *)
AnySum == TRUE

(* eofError: the checksum of the block at hand is that of the file if it is   *)
(* the last.                                                                 *)
SumMatches == h.last /\ hash = Content

(* limitedReader has come to its end. *)
AtLimit ==
  /\ pc = "reading" /\ reader = "open" /\ lim = 0
  /\ IF SumMatches THEN Return(<< >>, "eof") /\ UNCHANGED lost
                   ELSE pc' = "failed" /\ UNCHANGED <<step, callVars, lost, answer>>
  /\ UNCHANGED <<packVars, streamVars, index>>

(* Faulty: the padding of the last block is not cut off. *)
RoomWithPadding == want

(* len(p) as limitedReader passes it on. *)
Room == Smaller(want, lim)

Below ==
  /\ pc = "reading" /\ reader = "open" /\ lim > 0
  /\ pc' = IF cipher.on THEN "cipher" ELSE "packed"
  /\ UNCHANGED <<packVars, step, streamVars, index, callVars, lost, answer>>

(* bytes go to the caller, or are skipped: Seek's loop reads on. *)
Deliver(bytes) ==
  /\ hash' = hash \o bytes /\ lim' = lim - Len(bytes)
  /\ IF job = "read"
     THEN Return(bytes, "nil") /\ index' = index + Len(bytes)
     ELSE /\ pc' = "skipping" /\ want' = want - Len(bytes)
          /\ UNCHANGED <<step, job, target, back, rewind, index, answer>>
  /\ UNCHANGED <<reader, lost>>

(* packedFileReader.Read and bytes go to the next block first, if need be. *)
EmptyBlock ==
  /\ pc = "packed" /\ n = 0
  /\ pc' = "block" /\ step' = "data"
  /\ UNCHANGED <<packVars, streamVars, index, callVars, lost, answer>>

ReadPlain ==
  /\ pc = "packed" /\ n > 0 /\ ~cipher.on
  /\ \/ \E r \in Reads(Smaller(Room, n)) : Give(r[1], r[2]) /\ Deliver(Bytes(r[1])) /\ UNCHANGED faults
        /\ UNCHANGED cipher
     \/ GivesNothing(1) /\ UNCHANGED <<n, streamVars, index, callVars, lost, answer>>
  /\ UNCHANGED <<arc, held, vi, flagVars, h>>

-----------------------------------------------------------------------------
(* cipherBlockReader *)

(* cr.inbuf is filled with what the packed reader has at hand, *)
FillCipher ==
  /\ pc = "packed" /\ n > 0 /\ cipher.on /\ cipher.part = << >>
  /\ \/ \E r \in Slices : Give(r[1], r[2]) /\ cipher' = [cipher EXCEPT !.in = Bytes(r[1])]
        /\ pc' = "cipher" /\ UNCHANGED <<step, faults>>
     \/ GivesNothing(Smaller(n, BufferSize)) /\ UNCHANGED <<n, cipher>>
  /\ UNCHANGED <<arc, held, vi, flagVars, h, reader, lim, hash, index, callVars, lost, answer>>

(* genKeys *)
KeyCipher ==
  /\ pc = "cipher" /\ cipher.out = << >> /\ cipher.in # << >> /\ ~cipher.keyed
  /\ cipher' = [cipher EXCEPT !.keyed = key]
  /\ pc' = IF key THEN "cipher" ELSE "failed"
  /\ UNCHANGED <<packVars, step, reader, lim, hash, index, callVars, lost, answer>>

(* The blocks of bytes decrypted after the one that ended with last. *)
Decrypted(bytes, last) ==
  [k \in 1 .. Len(bytes) |->
     LET first == k - ((k - 1) % BlockSize)
         prev  == IF first = 1 THEN last ELSE bytes[first - 1]
     IN  IF \A j \in 0 .. BlockSize - 1 : bytes[first + j] = prev + 1 + j THEN bytes[k] ELSE 0]

(* A block in cr.block, of which the caller takes what fits. *)
DeliverBlock(block, rest) ==
  LET plain == Decrypted(block, cipher.last)
      some  == Smaller(Room, BlockSize) IN
  /\ Deliver(SubSeq(plain, 1, some))
  /\ cipher' = [cipher EXCEPT !.in = rest, !.part = << >>, !.last = Last(block),
                              !.out = SubSeq(plain, some + 1, BlockSize)]

Cipher ==
  /\ pc = "cipher"
  /\ LET in == cipher.in
         some == Smaller(Room, Len(cipher.out))
         whole == Smaller(Room, Len(in)) - (Smaller(Room, Len(in)) % BlockSize)
     IN \/ /\ cipher.out # << >>
           /\ Deliver(SubSeq(cipher.out, 1, some))
           /\ cipher' = [cipher EXCEPT !.out = SubSeq(@, some + 1, Len(@))]
        \/ /\ cipher.out = << >> /\ in = << >>
           /\ pc' = "packed"
           /\ UNCHANGED <<step, streamVars, index, callVars, lost, answer>>
        \/ /\ cipher.out = << >> /\ cipher.keyed /\ Len(in) >= BlockSize
           /\ IF Room < BlockSize
              THEN DeliverBlock(SubSeq(in, 1, BlockSize), SubSeq(in, BlockSize + 1, Len(in)))
              ELSE /\ Deliver(Decrypted(SubSeq(in, 1, whole), cipher.last))
                   /\ cipher' = [cipher EXCEPT !.in = SubSeq(in, whole + 1, Len(in)), !.last = in[whole]]
        \/ /\ cipher.out = << >> /\ cipher.keyed /\ Len(in) \in 1 .. BlockSize - 1
           /\ cipher' = [cipher EXCEPT !.in = << >>, !.part = in]
           /\ pc' = "packed"
           /\ UNCHANGED <<step, reader, lim, hash, index, callVars, lost, answer>>
  /\ UNCHANGED packVars

(* readBlock fills a block across volumes; what it has of it is lost when a    *)
(* read of the rest fails.                                                   *)
FillBlock ==
  LET part == cipher.part IN
  /\ pc = "packed" /\ n > 0 /\ part # << >>
  /\ \/ \E r \in Reads(Smaller(BlockSize - Len(part), n)) :
          /\ Give(r[1], r[2])
          /\ IF Len(part) + r[1] = BlockSize
             THEN DeliverBlock(part \o Bytes(r[1]), << >>)
             ELSE /\ cipher' = [cipher EXCEPT !.part = part \o Bytes(r[1])]
                  /\ UNCHANGED <<pc, step, reader, lim, hash, index, callVars, lost, answer>>
          /\ UNCHANGED faults
     \/ GivesNothing(1) /\ UNCHANGED <<n, streamVars, index, callVars, lost, answer>>
  /\ UNCHANGED <<arc, held, vi, flagVars, h>>

-----------------------------------------------------------------------------
(* Seek *)

(* A Seek to where the reader is, or out of the file, does nothing. *)
SeekNowhere(to) ==
  /\ pc = "idle" /\ reader # "none"
  /\ to = index \/ to \notin 0 .. Length
  /\ answer' = [op |-> "seek", bytes |-> << >>, err |-> IF to = index THEN "nil" ELSE "range"]
  /\ UNCHANGED <<packVars, pc, step, streamVars, index, callVars, lost>>

SeekForward(to) ==
  /\ pc = "idle" /\ reader \notin {"none", "stale"} /\ to \in index + 1 .. Length
  /\ job' = "seek" /\ pc' = "skipping" /\ target' = to /\ want' = to - index
  /\ UNCHANGED <<packVars, step, streamVars, index, back, rewind, lost, answer>>

(* A Seek back begins again: the reader of every volume goes back. *)
SeekBack(to) ==
  /\ pc = "idle" /\ reader # "none" /\ to \in 0 .. Length /\ to < index
  /\ job' = "seek" /\ pc' = "rewinding" /\ target' = to /\ back' = TRUE
  /\ rewind' = DOMAIN arc.vols
  /\ lost' = TRUE
  /\ UNCHANGED <<packVars, step, streamVars, index, want, answer>>

(* A goroutine of the errgroup: the reader is moved, or opened anew where the *)
(* rar reader has dropped it; where that fails too the others go on.         *)
RewindVolume(v) ==
  /\ pc \in {"rewinding", "unwound"} /\ v \in rewind
  /\ rewind' = rewind \ {v}
  /\ \/ at' = [at EXCEPT ![v] = 0] /\ held' = [held EXCEPT ![v] = TRUE]
        /\ UNCHANGED <<pc, faults>>
     \/ faults < MaxFaults /\ faults' = faults + 1 /\ pc' = "unwound" /\ UNCHANGED <<at, held>>
  /\ UNCHANGED <<arc, vi, buf, flagVars, packedVars, step, streamVars, index, job, want, target, back, lost, answer>>

(* The new rar reader is made without the password. *)
Reopen ==
  /\ pc = "rewinding" /\ rewind = {}
  /\ NewMultiReader(FALSE)
  /\ lim' = -1 /\ reader' = "open"
  /\ UNCHANGED <<arc, at, held, faults, hash, cipher, index, callVars, lost, answer>>

ReopenFails ==
  /\ pc = "unwound" /\ rewind = {}
  /\ pc' = "failed" /\ reader' = "stale"
  /\ UNCHANGED <<packVars, step, lim, hash, cipher, index, callVars, lost, answer>>

(* Faulty: the loop goes round when all is skipped. *)
SkipsOnFromTarget == want >= 0

(* The loop that skips forwards. *)
SkipsOn == want > 0

Skip ==
  /\ pc = "skipping"
  /\ IF SkipsOn
     THEN pc' = "reading" /\ UNCHANGED <<step, callVars, index, lost, answer>>
     ELSE index' = target /\ lost' = (lost /\ ~back) /\ Return(<< >>, "nil")
  /\ UNCHANGED <<packVars, streamVars>>

-----------------------------------------------------------------------------
(* Any of the readers has returned an error. What readBlock had is gone, and a *)
(* Seek does not say how far it came.                                        *)
Failed ==
  /\ pc = "failed"
  /\ cipher' = [cipher EXCEPT !.part = << >>]
  /\ lost' = (lost \/ cipher.part # << >> \/ (job = "seek" /\ Len(hash) # index))
  /\ Return(<< >>, "error")
  /\ UNCHANGED <<packVars, reader, lim, hash, index>>

(* NewMultiReader has, and rarReader is nil. *)
Unopened ==
  /\ pc = "unopened"
  /\ reader' = IF job = "seek" THEN "nil" ELSE reader
  /\ Return(<< >>, "error")
  /\ UNCHANGED <<packVars, lim, hash, cipher, index, lost>>

(* net/http recovers. *)
Panic ==
  /\ pc = "panic"
  /\ Return(<< >>, "panic")
  /\ UNCHANGED <<packVars, streamVars, index, lost>>

RarInit ==
  /\ arc \in Archives
  /\ at = [v \in DOMAIN arc.vols |-> 0] /\ held = [v \in DOMAIN arc.vols |-> TRUE]
  /\ vi = 1 /\ buf = 0
  /\ key = FALSE /\ multi = FALSE /\ encrypted = FALSE
  /\ n = 0 /\ h = NoHeader /\ faults = 0
  /\ pc = "idle" /\ step = "data"
  /\ reader = "none" /\ lim = -1 /\ hash = << >> /\ cipher = NoCipher /\ index = 0
  /\ job = "idle" /\ want = 0 /\ target = 0 /\ back = FALSE /\ rewind = {}
  /\ lost = FALSE
  /\ answer = [op |-> "none", bytes |-> << >>, err |-> "nil"]

(* A block of an encrypted header is looked for, whose salt was read and which *)
(* was not: the next try takes the header for a salt.                        *)
HeaderMissed == pc = "block" /\ step = "salted" /\ pc' = "failed" /\ UNCHANGED volumeVars

Caller ==
  \/ Open
  \/ \E k \in 1 .. MaxRead : Read(k)
  \/ \E to \in -1 .. Length + 1 : SeekNowhere(to) \/ SeekForward(to) \/ SeekBack(to)

Step ==
  \/ VolumeStep /\ lost' = (lost \/ HeaderMissed) /\ UNCHANGED <<streamVars, index, callVars, answer>>
  \/ FileFound \/ OtherFile \/ FirstFile
  \/ ReadNil \/ NextFile \/ AtLimit \/ Below \/ EmptyBlock \/ ReadPlain
  \/ FillCipher \/ KeyCipher \/ Cipher \/ FillBlock
  \/ \E v \in rewind : RewindVolume(v)
  \/ Reopen \/ ReopenFails \/ Skip
  \/ Failed \/ Unopened \/ Panic

RarNext == Caller \/ Step

RarSpec     == RarInit /\ [][RarNext]_rarVars
FairRarSpec == RarSpec /\ WF_rarVars(Step)

-----------------------------------------------------------------------------
(* A whole archive: from[a][v][k] counts the bytes of the file in its blocks  *)
(* before cell k of volume v. Each block has the bytes that follow, one block *)
(* is the first, and every block can be reached from the start of its volume. *)
Mine(cell) == cell.t = "file" /\ cell.name = Name

Encrypts(cell) == cell.t = "crypt" \/ (cell.t = "arc" /\ cell.encrypted)

Reached(vol, k) ==
  /\ \E j \in 1 .. k - 1 : vol[j].t = "sig"
  /\ \A j \in 1 .. k - 1 : vol[j].t # "end" /\ (Encrypts(vol[j]) => vol[k - 1].t = "salt")

CellPacked(vol, k, before) ==
  /\ before[k] \in Nat /\ before[k + 1] = before[k] + (IF Mine(vol[k]) THEN vol[k].size ELSE 0)
  /\ vol[k].t = "file" => {"name", "first", "size", "length"} \subseteq DOMAIN vol[k]
  /\ vol[k].t \in {"file", "service"} => vol[k].size \in Nat
  /\ vol[k].t = "service" => \A j \in k + 1 .. Len(vol) : j <= k + vol[k].size => vol[j].t = "data"
  /\ Mine(vol[k]) =>
       /\ Reached(vol, k)
       /\ vol[k].first => before[k] = 0 /\ vol[k].length = Length
       /\ k + vol[k].size <= Len(vol)
       /\ \A j \in 1 .. vol[k].size : vol[k + j].t = "data" /\ vol[k + j].byte = before[k] + j

WellPacked(from) ==
  \A a \in Archives : a.whole =>
    /\ Len(a.vols) \in Nat \ {0} /\ DOMAIN a.vols = 1 .. Len(a.vols)
    /\ \A v \in DOMAIN a.vols :
         /\ Len(a.vols[v]) \in Nat /\ DOMAIN a.vols[v] = 1 .. Len(a.vols[v])
         /\ from[a][v][1] = IF v = 1 THEN 0 ELSE from[a][v - 1][Len(a.vols[v - 1]) + 1]
         /\ \A k \in DOMAIN a.vols[v] : CellPacked(a.vols[v], k, from[a][v])
    /\ \A v, u \in DOMAIN a.vols : \A k \in DOMAIN a.vols[v], l \in DOMAIN a.vols[u] :
         Mine(a.vols[v][k]) /\ a.vols[v][k].first /\ Mine(a.vols[u][l]) /\ a.vols[u][l].first => v = u /\ k = l

(* The file goes on to its end: blocks that are not its last end before it,    *)
(* the last one does not, and is padded where the file is encrypted.          *)
Encrypted(a) ==
  \E v \in DOMAIN a.vols : \E k \in DOMAIN a.vols[v] :
    Mine(a.vols[v][k]) /\ a.vols[v][k].locked

GoesToEnd(a, cell, end) ==
  /\ {"last", "locked"} \subseteq DOMAIN cell
  /\ cell.last \in BOOLEAN /\ (~cell.last => end < Length)
  /\ cell.last => end >= Length /\ (Encrypted(a) => end % BlockSize = 0)

(* The search for headers goes on from cell k of volume v, where the headers   *)
(* are encrypted if e, the archive is said to be of many volumes if m, and the *)
(* last block of the files in o has not come: walk has where it comes to.   *)
(* It may end with the last block of the file. From 0 it looks for a signature.*)
Continues(a, walk, v, k, e, m, o) ==
  LET vol == a.vols[v]
      c   == IF e THEN k + 1 ELSE k
      onInNext == v < Len(a.vols) /\ <<v + 1, 0, FALSE, m, o>> \in walk
  IN
  /\ k \in 0 .. Len(vol) + 1 /\ e \in BOOLEAN /\ (e => a.locked)
  /\ k = 0 => \E j \in 1 .. Len(vol) :
       /\ vol[j].t = "sig" /\ vol[j].ver = a.ver /\ \A i \in 1 .. j - 1 : vol[i].t # "sig"
       /\ <<v, j + 1, FALSE, m, o>> \in walk
  /\ k = Len(vol) + 1 => a.ver = 15 /\ onInNext
  /\ k \in 1 .. Len(vol) =>
       /\ e => vol[k].t = "salt"
       /\ c <= Len(vol) /\ vol[c].t \in {"arc", "crypt", "service", "file", "end"}
       /\ vol[c].t = "arc" =>
            <<v, c + 1, IF a.ver = 15 THEN vol[c].encrypted ELSE e, vol[c].multi, o>> \in walk
       /\ vol[c].t = "crypt" => a.locked /\ <<v, c + 1, TRUE, m, o>> \in walk
       /\ vol[c].t = "service" => c + vol[c].size <= Len(vol) /\ <<v, c + vol[c].size + 1, e, m, o>> \in walk
       /\ vol[c].t = "file" =>
            /\ {"last", "locked"} \subseteq DOMAIN vol[c]
            /\ IF vol[c].first THEN o = {} ELSE o = {vol[c].name}
            /\ c + vol[c].size <= Len(vol)
            /\ \/ Mine(vol[c]) /\ vol[c].last
               \/ <<v, c + vol[c].size + 1, e, m, IF vol[c].last THEN {} ELSE {vol[c].name}>> \in walk
       /\ vol[c].t = "end" => vol[c].more /\ m /\ onInNext

(* The search finds the whole file in a whole archive, given the password.    *)
WellFound(from, walk) ==
  \A a \in Archives : a.whole =>
    /\ Encrypted(a) => a.locked
    /\ <<1, 0, FALSE, FALSE, {}>> \in walk[a]
    /\ \A s \in walk[a] : Continues(a, walk[a], s[1], s[2], s[3], s[4], s[5])
    /\ \A v \in DOMAIN a.vols : \A k \in DOMAIN a.vols[v] :
         Mine(a.vols[v][k]) => GoesToEnd(a, a.vols[v][k], from[a][v][k + 1])

(* A file in volumes that are all there and in order is an io.ReadSeeker: a    *)
(* Read returns the bytes from index on, through every layer and across       *)
(* volumes, wherever a Seek has put it; only a Seek that failed half-way, or  *)
(* a read that failed within a block of the cipher or between a salt and its  *)
(* header, loses the place.                                                  *)
F == INSTANCE SeqFile WITH
  pos  <- index,
  lost <- lost \/ ~arc.whole,
  answer <- IF answer.op \in {"read", "seek"} THEN answer
            ELSE [op |-> "none", bytes |-> << >>, err |-> "nil"]

ImplementsSeqFile == F!Spec

(* End of file is only told after the whole file, whatever volumes are missing, *)
(* cut or in the wrong order; except by a reader that could not be put back to *)
(* the start, which has no file.                                             *)
EOFIsWhole ==
  pc = "idle" /\ answer.err = "eof" => hash = Content \/ (lost /\ h = NoHeader /\ lim = -1)

(* As long as no volume fails, the only call on a whole archive that returns    *)
(* an error for a place within the file is a Seek back in an encrypted one (or *)
(* what follows it), and nothing panics.                                     *)
OnlyPasswordIsLost ==
  arc.whole /\ faults = 0 =>
    /\ answer.err # "panic"
    /\ answer.err = "error" => arc.locked /\ (lost \/ ~key)

(* Open, Read and Seek return; GetRarFiles too, unless the first entry of the   *)
(* archive is a directory.                                                   *)
CallReturns ==
  /\ (job \in {"open", "read", "seek"}) ~> (job = "idle")
  /\ (job = "list" /\ ~arc.dirFirst) ~> (job = "idle")

=============================================================================
