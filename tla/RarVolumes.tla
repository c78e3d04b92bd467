---------------------------- MODULE RarVolumes ------------------------------
(***************************************************************************)
(* pkg/rardecode: the volumes of an archive read through one buffer         *)
(* (volume.go), the block headers in them (archive15.go, archive50.go) and  *)
(* the packed data of one file (packedFileReader of reader.go).             *)
(*                                                                         *)
(* A volume is a sequence of cells: its signature, headers, the salt or iv  *)
(* before an encrypted header, and the bytes of packed data. A header takes *)
(* one cell and names what the code parses out of it; one whose checksum    *)
(* fails is not consumed. The volumes are given to the reader open          *)
(* (NewMultiReader), never found by their names.                            *)
(***************************************************************************)
EXTENDS Integers, Sequences, SequencesExt

CONSTANTS
  Archives,   \* what the volumes may hold: [ver, vols, locked, whole] (see RarFile)
  BufferSize, \* cells the bufio.Reader holds
  MaxFaults   \* a bound on the failures of reads and seeks of the volumes

ASSUME VolumesAssumption == BufferSize \in Nat \ {0} /\ MaxFaults \in Nat

VARIABLES
  arc,       \* the archive
  at,        \* the position of the reader of each volume
  held,      \* held[i]: f[i] is not nil
  vi,        \* the current volume
  buf,       \* cells of it that are buffered
  key,       \* does the reader have the password?
  multi,     \* is the archive multi-volume, as far as its headers said?
  encrypted, \* are the headers that follow encrypted?
  n,         \* bytes left in the current data block
  h,         \* the current file header
  pc,        \* where the call is, and
  step,      \* where the search for its next file header is
  faults     \* how often the volumes have failed

volumeVars == <<at, held, vi, buf>>
flagVars   == <<key, multi, encrypted>>
packedVars == <<n, h>>
packVars   == <<arc, volumeVars, flagVars, packedVars, faults>>

NoHeader == [t |-> "none"]

Smaller(a, b) == IF a < b THEN a ELSE b

-----------------------------------------------------------------------------
(* volume *)

Cells == arc.vols[vi]
Place == at[vi] - buf
Left  == Len(Cells) - Place

(* The buffer after the next k cells were taken; the reader of the volume     *)
(* gave no more than it had to, or as much as fits.                          *)
Ahead(k) == IF k <= buf THEN {buf - k} ELSE {0, Smaller(BufferSize - k, Left - k)}

Take(k) ==
  \E ahead \in Ahead(k) : buf' = ahead /\ at' = [at EXCEPT ![vi] = Place + k + ahead]

(* A read of k cells that goes to the volume's reader may fail. *)
Faulty(k) == buf < k /\ faults < MaxFaults /\ faults' = faults + 1

Fail == pc' = (IF pc = "open" THEN "unopened" ELSE "failed") /\ step' = "header"

(* Faulty: the buffered cells are not taken off the seek of the reader. *)
SeekPastBuffer(k) ==
  IF k <= buf
  THEN Take(k)
  ELSE buf' = 0 /\ at' = [at EXCEPT ![vi] = Smaller(@ + k, Len(Cells))]

(* discard of k cells: the reader is moved by those that are not buffered, or *)
Discard(k) ==
  IF k <= buf
  THEN Take(k)
  ELSE buf' = 0 /\ at' = [at EXCEPT ![vi] = @ + k - buf]

(* does not move, and the buffer is gone all the same. *)
DiscardFails(k) ==
  /\ k > buf
  /\ \/ k > Left /\ faults' = faults
     \/ Faulty(k)
  /\ buf' = 0

(* findSig: forward to a signature of the version of the first volume. *)
FindSig ==
  LET ahead == {k \in 1 .. Left : Cells[Place + k].t = "sig"} IN
  /\ step = "sig"
  /\ \/ /\ ahead # {} /\ Cells[Place + Min(ahead)].ver = arc.ver
        /\ \E more \in {0, Smaller(BufferSize - 1, Left - Min(ahead))} :
             buf' = more /\ at' = [at EXCEPT ![vi] = Place + Min(ahead) + more]
        /\ pc' = IF pc = "open" THEN "skip" ELSE pc
        /\ step' = IF pc = "open" THEN "data" ELSE "header"
        /\ UNCHANGED faults
     \/ /\ ahead = {} \/ Cells[Place + Min(ahead)].ver # arc.ver
        /\ Fail /\ UNCHANGED <<at, buf, faults>>
     \/ Faulty(1) /\ Fail /\ UNCHANGED <<at, buf>>
  /\ UNCHANGED <<arc, held, vi, flagVars, packedVars>>

(* setBuffer *)
Buffer(v) == vi' = v /\ buf' = 0

(* newVolume: the first volume, newFileBlockReader, newPackedFileReader. *)
NewVolume == Buffer(1) /\ step' = "sig"

NewFileBlockReader(password) ==
  key' = password /\ multi' = FALSE /\ encrypted' = FALSE

NewPackedFileReader == n' = 0 /\ h' = NoHeader

(* A reader of all volumes, from where their readers are. *)
NewMultiReader(password) ==
  NewVolume /\ NewFileBlockReader(password) /\ NewPackedFileReader /\ pc' = "open"

(* next: the reader of the volume is given up (it is closed only where it was *)
(* found by its name), the next one is read from where it is; after the last  *)
(* one a file name is wanted.                                                *)
NextVolume ==
  /\ step = "volume"
  /\ held' = [held EXCEPT ![vi] = FALSE]
  /\ \/ vi < Len(arc.vols) /\ Buffer(vi + 1) /\ step' = "sig" /\ UNCHANGED pc
     \/ vi = Len(arc.vols) /\ Fail /\ UNCHANGED <<vi, buf>>
  /\ UNCHANGED <<arc, at, flagVars, packedVars, faults>>

-----------------------------------------------------------------------------
(* archive15, archive50: the next file header *)

InHeaders == pc \in {"skip", "block", "first"}

(* The salt or iv before an encrypted header. What is decrypted with anything *)
(* else fails its checksum.                                                  *)
ReadSalt ==
  /\ InHeaders /\ step = "header" /\ encrypted
  /\ \/ ~key /\ Fail /\ UNCHANGED <<at, buf, faults>>
     \/ key /\ Left > 0 /\ Take(1) /\ UNCHANGED <<pc, faults>>
          /\ step' = IF Cells[Place + 1].t = "salt" THEN "salted" ELSE "garbled"
     \/ key /\ Faulty(1) /\ Fail /\ UNCHANGED <<at, buf>>
  /\ Left = 0 => ~key
  /\ UNCHANGED <<arc, held, vi, flagVars, packedVars>>

(* Is a header of kind t next, one that can be read as it is? *)
AtHeader(t) ==
  /\ InHeaders /\ Left > 0 /\ Cells[Place + 1].t = t
  /\ step = IF encrypted THEN "salted" ELSE "header"

(* readBlockHeader took it, and the loop of next goes on. *)
Pass == Take(1) /\ step' = "header" /\ UNCHANGED <<faults, pc, packedVars>>

MainHeader ==
  /\ AtHeader("arc")
  /\ multi' = Cells[Place + 1].multi
  /\ encrypted' = IF arc.ver = 15 THEN Cells[Place + 1].encrypted ELSE encrypted
  /\ Pass
  /\ UNCHANGED <<arc, held, vi, key>>

(* parseEncryptionBlock *)
EncryptionHeader ==
  /\ AtHeader("crypt")
  /\ IF key THEN encrypted' = TRUE /\ Pass
            ELSE Take(1) /\ Fail /\ UNCHANGED <<faults, encrypted, packedVars>>
  /\ UNCHANGED <<arc, held, vi, key, multi>>

(* Any other block is skipped with its data. *)
ServiceHeader ==
  /\ AtHeader("service")
  /\ Take(1)
  /\ step' = IF Cells[Place + 1].size > 0 THEN "service" ELSE "header"
  /\ UNCHANGED <<arc, held, vi, flagVars, packedVars, pc, faults>>

ServiceData ==
  LET size == Cells[Place].size IN
  /\ step = "service"
  /\ \/ size <= Left /\ Discard(size) /\ step' = "header" /\ UNCHANGED <<faults, pc>>
     \/ DiscardFails(size) /\ Fail /\ UNCHANGED at
  /\ UNCHANGED <<arc, held, vi, flagVars, packedVars>>

(* The end of the volume, or of the archive. *)
EndHeader ==
  /\ AtHeader("end")
  /\ Take(1)
  /\ IF Cells[Place + 1].more /\ multi
     THEN step' = "volume" /\ encrypted' = FALSE /\ UNCHANGED pc
     ELSE Fail /\ UNCHANGED encrypted
  /\ UNCHANGED <<arc, held, vi, key, multi, packedVars, faults>>

(* The volume ends without an end block: only version 1.5 goes on with the    *)
(* next one, unless it ends between a salt and its header.                   *)
VolumeEnds ==
  /\ InHeaders /\ step \in {"header", "salted"} /\ Left = 0
  /\ ~(encrypted /\ ~key)
  /\ IF arc.ver = 15 /\ step = "header"
     THEN step' = "volume" /\ encrypted' = FALSE /\ UNCHANGED pc
     ELSE Fail /\ UNCHANGED encrypted
  /\ UNCHANGED <<arc, volumeVars, key, multi, packedVars, faults>>

(* Anything but a header, or a read that fails. *)
NoHeaderHere ==
  /\ InHeaders
  /\ \/ step = "garbled" /\ UNCHANGED faults
     \/ /\ step = IF encrypted THEN "salted" ELSE "header"
        /\ \/ Left > 0 /\ Cells[Place + 1].t \in {"data", "salt", "sig"} /\ UNCHANGED faults
           \/ Faulty(1)
  /\ Fail
  /\ UNCHANGED <<arc, volumeVars, flagVars, packedVars>>

-----------------------------------------------------------------------------
(* packedFileReader *)

(* parseFileHeader: keys are made for the first block of an encrypted file. *)
Parsed15(block) == [block EXCEPT !.locked = @ /\ block.first]

(* parseFileHeader and parseFileEncryptionRecord: also for the last one, whose *)
(* checksum may take a key.                                                  *)
Parsed50(block) == [block EXCEPT !.locked = @ /\ (block.first \/ block.last)]

(* nextBlock: does the block go on with the current file? *)
GoesOn(block) == ~block.first /\ block.name = h.name

(* next: a file begins with its first block. *)
FirstBlock(block) ==
  /\ h' = block
  /\ IF block.first
     THEN n' = block.size /\ pc' = "named" /\ step' = "data"
     ELSE Fail /\ UNCHANGED n

FileHeader ==
  LET cell  == Cells[Place + 1]
      block == IF arc.ver = 15 THEN Parsed15(cell) ELSE Parsed50(cell) IN
  /\ AtHeader("file")
  /\ Take(1)
  /\ IF pc = "first" THEN FirstBlock(block)
     ELSE IF GoesOn(block)
          THEN /\ h' = block /\ n' = block.size /\ step' = "data"
               /\ pc' = IF pc = "skip" THEN "skip" ELSE "packed"
          ELSE Fail /\ UNCHANGED packedVars
  /\ UNCHANGED <<arc, held, vi, flagVars, faults>>

(* nextBlock: the rest of the block is discarded; the last one ends the file, *)
(* for next to look for another one.                                         *)
NextBlock ==
  /\ pc \in {"skip", "block"} /\ step = "data"
  /\ \/ /\ n > 0
        /\ \/ n <= Left /\ Discard(n) /\ n' = 0 /\ UNCHANGED <<pc, step, faults>>
           \/ DiscardFails(n) /\ Fail /\ UNCHANGED <<at, n>>
        /\ UNCHANGED h
     \/ /\ n = 0
        /\ step' = "header"
        /\ IF h # NoHeader /\ ~h.last THEN UNCHANGED <<pc, h>>
           ELSE IF pc = "skip" THEN pc' = "first" /\ h' = NoHeader
           ELSE pc' = "failed" /\ UNCHANGED h
        /\ UNCHANGED <<at, buf, n, faults>>
  /\ UNCHANGED <<arc, held, vi, flagVars>>

(* volume.Read of up to k bytes: those in the buffer, or, where it is empty,  *)
(* as many as the volume's reader has, past a buffer that is no larger. The  *)
(* bytes that are given, and those that stay in the buffer:                  *)
Reads(k) ==
  IF buf > 0 THEN {<<Smaller(k, buf), buf - Smaller(k, buf)>>}
  ELSE IF k >= BufferSize THEN {<<c, 0>> : c \in 1 .. Smaller(k, Left)}
  ELSE {<<Smaller(k, c), c - Smaller(k, c)>> : c \in 1 .. Smaller(BufferSize, Left)}

(* volume.peek and readSlice for bytes: what is in the buffer, or, where it   *)
(* is empty, in the one that the peek filled.                                *)
Slices ==
  LET now == IF buf > 0 THEN {buf} ELSE Smaller(n, BufferSize) .. Smaller(BufferSize, Left)
  IN  {<<Smaller(n, c), c - Smaller(n, c)>> : c \in now}

(* The bytes that the next c cells are, 0 for anything else. *)
Bytes(c) ==
  [k \in 1 .. c |-> IF Cells[Place + k].t = "data" THEN Cells[Place + k].byte ELSE 0]

(* packedFileReader.Read and bytes: c of the block's bytes are taken. *)
Give(c, stay) ==
  /\ buf' = stay /\ at' = [at EXCEPT ![vi] = Place + c + stay]
  /\ n' = n - c

(* The volume ends before k bytes of the block, or its reader fails. *)
GivesNothing(k) ==
  /\ \/ buf = 0 /\ Left < k /\ buf' = Left /\ at' = [at EXCEPT ![vi] = @ + Left]
        /\ UNCHANGED faults
     \/ Faulty(1) /\ UNCHANGED <<at, buf>>
  /\ Fail

VolumeStep ==
  \/ FindSig \/ NextVolume
  \/ ReadSalt \/ MainHeader \/ EncryptionHeader \/ ServiceHeader \/ ServiceData
  \/ EndHeader \/ VolumeEnds \/ NoHeaderHere \/ FileHeader \/ NextBlock

=============================================================================
