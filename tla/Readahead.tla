------------------------------ MODULE Readahead ------------------------------
(***************************************************************************)
(* pkg/resource/adaptivereadaheadcache: one reader and its readahead        *)
(* goroutine, over a CircularBuffer of bytes. The goroutine that uses the   *)
(* reader calls Read, Seek and Close one at a time; a Read or Seek starts a *)
(* readahead unless one runs. A readahead holds the reader's mutex from its *)
(* first to its last step, so Seek, Close and the start of a Read are one   *)
(* step each; the cache.Read of a Read takes only the buffer's mutex.       *)
(*                                                                         *)
(* A byte is its position in the file. How much is read ahead depends on    *)
(* the speed of the Reads, between cacheMinSize and cacheMaxSize, which are *)
(* the buffer's InitialSize and MaxCapacity.                                *)
(***************************************************************************)
EXTENDS CircularBuffer

CONSTANTS
  Length,   \* bytes of the file
  LowWater, \* cacheLowWater
  MaxRead   \* the longest slice given to a Read

ASSUME ReadaheadAssumption == Length \in Nat /\ LowWater \in Nat /\ MaxRead \in Nat

VARIABLES
  life,    \* "open", "closed", or "down" once the process has panicked
  client,  \* where the caller is: "idle", "begun" or "waiting" in its Read
  ra,      \* where the readahead goroutine is; readaheadRunning is ra # "none"
  amount,  \* readaheadAmount
  target,  \* resizeTarget
  eof,     \* underlyingReaderEOF
  index,   \* AdaptiveReadaheadCacheReader.index
  under,   \* position of underlyingReader
  moved    \* history: has a Seek that kept the cache moved underlyingReader?

readerVars == <<eof, index, under, moved>>
raVars     == <<ra, amount, target>>
raheadVars == <<bufferVars, life, client, raVars, readerVars>>

-----------------------------------------------------------------------------
(* Steps of the readahead goroutine that hold AdaptiveReadaheadCacheReader.mutex. *)
RaLocked == {"check", "ensure", "aim", "grow", "space", "expose", "fill", "nothing", "eof", "error"}

MutexFree == ra \notin RaLocked

RaGoto(from, to) == life # "down" /\ ra = from /\ ra' = to

(* A panic of the readahead goroutine, which nothing recovers. *)
Panic ==
  /\ life' = "down"
  /\ UNCHANGED <<bufferVars, client, raVars, readerVars>>

(* "if !EOF && readaheadRunning.CompareAndSwap(false, true) go readahead()" *)
Launch(atEOF) == ra' = IF ~atEOF /\ ra = "none" THEN "start" ELSE ra

-----------------------------------------------------------------------------
(* Open, Close, Seek and Read *)

Open ==
  /\ life = "closed" /\ ra = "none"
  /\ life' = "open"
  /\ capacity' = InitialSize
  /\ buffer' = [i \in 0 .. InitialSize - 1 |-> Blank]
  /\ size' = 0 /\ readPos' = 0 /\ writePos' = 0
  /\ eof' = FALSE /\ index' = 0 /\ under' = 0 /\ moved' = FALSE
  /\ UNCHANGED <<client, raVars>>

Close ==
  /\ life = "open" /\ client = "idle" /\ MutexFree
  /\ life' = "closed"
  /\ Flush
  /\ UNCHANGED <<client, raVars, readerVars>>

(* trySeekCache *)
InCache(delta) == delta > 0 /\ size > delta /\ MaySeek(delta)

(* Seek once underlyingReader has moved to i. *)
SeekTo(i) ==
  /\ life = "open" /\ client = "idle" /\ MutexFree
  /\ under' = i
  /\ index' = i
  /\ IF InCache(i - index)
     THEN SeekCurrent(i - index) /\ moved' = TRUE /\ eof' = eof
     ELSE Clear /\ moved' = FALSE /\ eof' = FALSE
  /\ Launch(eof')
  /\ UNCHANGED <<life, client, amount, target>>

(* underlyingReader moves relative to the start or to its own position. *)
SeekStart    == \E i \in 0 .. Length : i # index /\ SeekTo(i)
SeekFromHere == \E i \in 0 .. Length : i # under /\ SeekTo(i)
SeekEnd      == SeekTo(Length)

(* The Seek of underlyingReader fails, which keeps its position, but may have *)
(* lost its place: InOrder promises nothing from then on. A bound of the     *)
(* model: what it reads then is named by that position all the same.         *)
SeekFails ==
  /\ life = "open" /\ client = "idle" /\ MutexFree
  /\ moved' = TRUE
  /\ UNCHANGED <<bufferVars, life, client, raVars, eof, index, under>>

ReadBegin ==
  /\ life = "open" /\ client = "idle" /\ MutexFree
  /\ client' = "begun"
  /\ UNCHANGED <<bufferVars, life, raVars, readerVars>>

ReadLaunch ==
  /\ life = "open" /\ client = "begun"
  /\ client' = "waiting"
  /\ Launch(eof)
  /\ UNCHANGED <<bufferVars, life, amount, target, readerVars>>

(* cache.Read, which waits for data, and the update of index. *)
ReadCache(p) ==
  /\ life = "open" /\ client = "waiting" /\ ra # "fill"
  /\ Read(p)
  /\ index' = index + Smaller(p, size)
  /\ client' = "idle"
  /\ UNCHANGED <<life, raVars, eof, under, moved>>

-----------------------------------------------------------------------------
(* readahead *)

(* What the caller reads in cacheTime at its average speed: nothing before    *)
(* its second Read, then whatever the clock makes of it.                     *)
AvgSpeed == 0 .. MaxCapacity + 1

Clamped(bytes) ==
  IF bytes > MaxCapacity THEN MaxCapacity ELSE IF bytes < InitialSize THEN InitialSize ELSE bytes

RaLock ==
  /\ RaGoto("start", "check")
  /\ \E speed \in AvgSpeed : amount' = Clamped(speed)
  /\ UNCHANGED <<bufferVars, life, client, target, readerVars>>

(* Faulty: a readahead only above the low-water mark. *)
RaLowWaterInverted ==
  /\ RaGoto("check", IF LowWater > size THEN "done" ELSE "ensure")
  /\ UNCHANGED <<bufferVars, life, client, amount, target, readerVars>>

(* Faulty: above the low-water mark the buffer is filled as well. *)
RaLowWaterIgnored ==
  /\ RaGoto("check", "ensure")
  /\ UNCHANGED <<bufferVars, life, client, amount, target, readerVars>>

RaLowWater ==
  /\ RaGoto("check", IF LowWater < size THEN "done" ELSE "ensure")
  /\ UNCHANGED <<bufferVars, life, client, amount, target, readerVars>>

(* ensureBufferSize: looks, aims and resizes under a lock each. *)
RaEnsure ==
  /\ RaGoto("ensure", IF capacity - size < amount /\ capacity < MaxCapacity THEN "aim" ELSE "space")
  /\ UNCHANGED <<bufferVars, life, client, amount, target, readerVars>>

RaAim ==
  /\ RaGoto("aim", "grow")
  /\ target' = Smaller(size + amount, MaxCapacity)
  /\ UNCHANGED <<bufferVars, life, client, amount, readerVars>>

RaGrow ==
  /\ RaGoto("grow", "space") /\ SliceInRange
  /\ Resize(target)
  /\ UNCHANGED <<life, client, amount, target, readerVars>>

RaGrowPanics == life # "down" /\ ra = "grow" /\ ~SliceInRange /\ Panic

RaSpace ==
  /\ RaGoto("space", IF capacity = size THEN "done" ELSE "expose")
  /\ UNCHANGED <<bufferVars, life, client, amount, target, readerVars>>

RaExpose ==
  /\ RaGoto("expose", "fill") /\ SliceInRange
  /\ UNCHANGED <<bufferVars, life, client, amount, target, readerVars>>

RaExposePanics == life # "down" /\ ra = "expose" /\ ~SliceInRange /\ Panic

(* underlyingReader.Read fills n bytes of the exposed space, none perhaps;   *)
(* an error, and io.EOF, may come with bytes or without.                     *)
RaFill(n) ==
  /\ n <= WriteSpace /\ under + n <= Length
  /\ n > 0 => life = "open"
  /\ \/ RaGoto("fill", IF n = 0 THEN "nothing" ELSE "done")
     \/ RaGoto("fill", "eof") /\ under + n = Length
     \/ RaGoto("fill", "error")
  /\ CommitWrite(n, under)
  /\ under' = under + n
  /\ UNCHANGED <<life, client, amount, target, eof, index, moved>>

RaEOF ==
  /\ RaGoto("eof", "done")
  /\ eof' = TRUE
  /\ UNCHANGED <<bufferVars, life, client, amount, target, index, under, moved>>

(* 0 bytes without an error, which a merger returns where a segment is       *)
(* exhausted: the readahead ends like any other.                             *)
RaNothing ==
  /\ RaGoto("nothing", "done")
  /\ UNCHANGED <<bufferVars, life, client, amount, target, readerVars>>

(* The error is returned to nobody. *)
RaError ==
  /\ RaGoto("error", "done")
  /\ UNCHANGED <<bufferVars, life, client, amount, target, readerVars>>

(* The mutex is released first, then readaheadRunning is set to false. *)
RaDone ==
  /\ RaGoto("done", "none")
  /\ UNCHANGED <<bufferVars, life, client, amount, target, readerVars>>

-----------------------------------------------------------------------------
RaheadInit ==
  /\ NewCircularBuffer
  /\ life = "open" /\ client = "idle"
  /\ ra = "none" /\ amount = 0 /\ target = 0
  /\ eof = FALSE /\ index = 0 /\ under = 0 /\ moved = FALSE

RaStep ==
  \/ RaLock \/ RaLowWater \/ RaEnsure \/ RaAim \/ RaGrow \/ RaGrowPanics \/ RaSpace
  \/ RaExpose \/ RaExposePanics \/ (\E n \in 0 .. MaxCapacity : RaFill(n)) \/ RaNothing \/ RaEOF
  \/ RaError \/ RaDone

ReadStep == ReadLaunch \/ \E p \in 1 .. MaxRead : ReadCache(p)

RaheadNext ==
  \/ Open \/ Close \/ SeekStart \/ SeekFromHere \/ SeekEnd \/ SeekFails
  \/ ReadBegin \/ ReadStep \/ RaStep

RaheadSpec == RaheadInit /\ [][RaheadNext]_raheadVars

(* Goroutines run on; the buffer's mutex is held during one step only, but   *)
(* a waiting Read may lose it to others again and again.                     *)
FairRaheadSpec ==
  /\ RaheadSpec
  /\ WF_raheadVars(RaStep)
  /\ SF_raheadVars(ReadStep)

-----------------------------------------------------------------------------
(* Properties *)

RaheadTypeOK ==
  /\ capacity \in 0 .. MaxCapacity
  /\ buffer \in [0 .. capacity - 1 -> Blank .. Length]
  /\ size \in 0 .. capacity
  /\ readPos \in 0 .. 2 * capacity
  /\ writePos \in 0 .. capacity
  /\ life \in {"open", "closed", "down"}
  /\ client \in {"idle", "begun", "waiting"}
  /\ ra \in RaLocked \cup {"none", "start", "done"}
  /\ amount \in 0 .. MaxCapacity /\ target \in 0 .. MaxCapacity
  /\ eof \in BOOLEAN /\ moved \in BOOLEAN
  /\ index \in Nat /\ under \in 0 .. Length

(* The bytes the next Reads return are those at index and after, whatever    *)
(* order Reads, seeks, resizes and readaheads come in; and what is read      *)
(* ahead next follows them. Seeks within the cache are excepted, which move  *)
(* underlyingReader below bytes that are cached already, and Seeks that fail *)
(* on the way there.                                                         *)
InOrder ==
  ~moved /\ life = "open" =>
         /\ Contents = [i \in 1 .. size |-> index + (i - 1)]
         /\ under = index + size

(* The buffer is a first-in first-out queue; a resize changes nothing.       *)
Fifo == INSTANCE BoundedFifo WITH queue <- Contents
ImplementsFifo == Fifo!Spec

(* The steps of a readahead before it commits.                               *)
BeforeCommit == {"start", "check", "ensure", "aim", "grow", "space", "expose", "fill"}

(* A Read that comes to wait while a readahead has yet to commit, one that    *)
(* another Read or a Seek started included, gets the bytes it finds:         *)
(* readaheadRunning kept the Read from starting its own. Where it finds none *)
(* before the end of the file, for an error or an exhausted segment, the     *)
(* Read waits on, although the code says of the commit of 0 bytes that it     *)
(* "unblocks waiting reads" (AdaptiveReadaheadCache.go:284).                 *)
WokenByReadahead ==
  (client = "waiting" /\ ra \in BeforeCommit /\ under < Length /\ life = "open")
    ~> (client = "idle" \/ ra \in {"nothing", "error"} \/ life = "down")

-----------------------------------------------------------------------------
(* What comments say, and the code does not do *)

(* "adjusts the buffer's actual capacity to the new specified size if it is  *)
(* not less than the current amount of data" (CircularBuffer.go:277): the    *)
(* data stays.                                                               *)
ResizeKeepsContents == [][RaGrow => Contents' = Contents]_raheadVars

=============================================================================
