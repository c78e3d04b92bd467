---------------------------- MODULE DecodeWindow ----------------------------
(***************************************************************************)
(* pkg/rardecode/decode_reader: the compressed files of an archive, unpacked *)
(* through a sliding window. A decoder fills the window up to its end, a      *)
(* byte or a copy of earlier bytes at a time; the reader takes what is there, *)
(* sends the blocks that filters were queued for through them, and has the    *)
(* window filled again from its beginning. The files of a solid archive share *)
(* the window.                                                              *)
(*                                                                         *)
(* What the packed data say is a choice of symbols, those of an archive that  *)
(* was packed well, and may end in an error anywhere. A byte is <<n>>; a       *)
(* filter, which keeps the length of its block, adds to each byte of it what  *)
(* the filter was told: the length, the place in the block and the offset in  *)
(* the file.                                                                *)
(***************************************************************************)
EXTENDS Integers, Sequences, SequencesExt

CONSTANTS
  MinWindow,  \* minWindowSize
  MaxQueued,  \* maxQueuedFilters
  Windows,    \* the winSize that headers of files have
  Versions,   \* the versions of the decoders
  MaxRead,    \* a bound on the length of a Read,
  MaxBytes,   \* on the bytes of all files,
  MaxMatch,   \* on the length of a copy,
  MaxMatches, \* on the copies,
  MaxFilters, \* on the filters, and
  MaxFiles    \* on the files

ASSUME WindowAssumption ==
  /\ {MinWindow, MaxMatch, MaxBytes} \subseteq Nat \ {0} /\ MaxMatch < MinWindow
  /\ Windows \subseteq Nat

VARIABLES
  \* what was packed
  solid,    \* is the archive solid?
  files,    \* how many files were begun
  bytes,    \* the bytes, of earlier files too where these can be referred to,
  start,    \* how many of them belong to earlier files,
  marks,    \* the filters that were queued, by the offsets of their blocks in the file
  matches,  \* how many copies there were
  \* decodeReader
  win, size, r, w, fl, tot, outbuf, err, dec,
  block,    \* what bufBytes has collected
  ended,    \* "eof" once the decoder has reached the end of the file, "error" once
            \* it has met what is not well packed
  pc,
  caller,   \* who waits for fill: bytes or bufBytes
  want,     \* len(p) of a Read, or -1 for the Next that discards the file
  got,      \* what Reads have returned of the file
  answer,   \* what the last Read returned: nil, eof or an error
  lost      \* "no", or how the bytes came to differ from what was packed

packedVars == <<solid, files, bytes, start, marks, matches>>
windowVars == <<win, size, r, w>>
streamVars == <<tot, outbuf, err, dec, block, ended>>
callVars   == <<pc, caller, want, got, answer>>
dwVars     == <<packedVars, windowVars, fl, streamVars, callVars, lost>>

Smaller(a, b) == IF a < b THEN a ELSE b
Larger(a, b)  == IF a < b THEN b ELSE a

Zero == <<0>>

-----------------------------------------------------------------------------
(* The decoder fills the window. *)

NotFull == w < size

Decoding == pc = "fill" /\ NotFull /\ err = "nil"

(* What is in the window from its index on, n bytes of it. *)
Slice(from, n) == [k \in 1 .. n |-> win[from + k - 1]]

Write(new) == [i \in 0 .. size - 1 |-> IF i \in w .. w + Len(new) - 1 THEN new[i - w + 1] ELSE win[i]]

(* writeByte, of a byte that is new. What a decoder makes of symbols is not   *)
(* followed once bytes were lost.                                            *)
Literal ==
  LET byte == <<MaxBytes * files + Len(bytes)>> IN
  /\ Decoding /\ Len(bytes) < MaxBytes
  /\ bytes' = Append(bytes, byte)
  /\ win' = Write(<<byte>>) /\ w' = w + 1
  /\ UNCHANGED <<solid, files, start, marks, matches, size, r, fl, streamVars, callVars, lost>>

(* The n bytes that begin dist before the end of s, where they may overlap    *)
(* what they become.                                                         *)
Repeated(s, n, dist) == [k \in 1 .. n |-> s[Len(s) - dist + 1 + ((k - 1) % dist)]]

(* The last dist bytes of the window before w, which may be those at its end. *)
History(dist) == [k \in 1 .. dist |-> win[(w + size - dist + k - 1) % size]]

(* copyBytes. What does not fit before the end of the window is forgotten     *)
(* ("cut"): nothing copies it when the window is filled next.                *)
CopyBytes(length, offset) ==
  LET copied == Repeated(History(offset), Smaller(length % size, size - w), offset) IN
  /\ win' = Write(copied) /\ w' = w + Len(copied)
  /\ lost' = IF w + length > size THEN "cut" ELSE lost

(* A copy of bytes that are in the window. *)
Match(length, offset) ==
  /\ Decoding /\ lost = "no"
  /\ matches < MaxMatches /\ Len(bytes) + length <= MaxBytes
  /\ offset <= Len(bytes)
  /\ bytes' = bytes \o Repeated(bytes, length, offset)
  /\ matches' = matches + 1
  /\ CopyBytes(length, offset)
  /\ UNCHANGED <<solid, files, start, marks, size, r, fl, streamVars, callVars>>

-----------------------------------------------------------------------------
(* Filters *)

Sum(offsets) == FoldLeft(LAMBDA a, f : a + f.offset, 0, offsets)

(* queueFilter: the offset, which is from w, is made one from r and then from *)
(* the filter before, and brought below the size of the window: a block that  *)
(* begins as far from r is looked for too early ("far"). While bufBytes has   *)
(* the window filled, r is in the block of the first filter, not at its       *)
(* beginning ("inside").                                                     *)
QueueFilter(offset, mark) ==
  LET before(i) == offset + w - r - Sum(SubSeq(fl, 1, i - 1)) IN
  IF Len(fl) >= MaxQueued \/ \E i \in DOMAIN fl : before(i) < fl[i].offset
  THEN err' = "error" /\ ended' = "error" /\ UNCHANGED <<fl, marks, lost>>
  ELSE /\ fl' = Append(fl, [offset |-> before(Len(fl) + 1) % size, length |-> mark.length % size])
       /\ marks' = Append(marks, mark)
       /\ lost' = IF before(Len(fl) + 1) >= size THEN "far" ELSE IF block # << >> THEN "inside" ELSE lost
       /\ UNCHANGED <<err, ended>>

(* Where a block begins and ends in the file. *)
Blocks == {<<m.from, m.from + m.length>> : m \in ToSet(marks)}

(* readFilter. Blocks do not overlap, but may be filtered more than once.    *)
Filter(offset, length) ==
  LET from == Len(bytes) - start + offset IN
  /\ Decoding /\ lost = "no" /\ Len(marks) < MaxFilters
  /\ start + from + length <= MaxBytes
  /\ \A b \in Blocks : b = <<from, from + length>> \/ b[2] <= from
  /\ QueueFilter(offset, [from |-> from, length |-> length])
  /\ UNCHANGED <<solid, files, bytes, start, matches, windowVars, tot, outbuf, dec, block, callVars>>

(* The end of the file, or packed data that say nothing. *)
End ==
  /\ Decoding
  /\ err' \in {"eof", "error"} /\ ended' = err'
  /\ err' = "eof" => \A b \in Blocks : b[2] <= Len(bytes) - start
  /\ UNCHANGED <<packedVars, windowVars, fl, tot, outbuf, dec, block, callVars, lost>>

-----------------------------------------------------------------------------
(* Read and Next *)

Return(e) == pc' = "idle" /\ caller' = "none" /\ want' = 0 /\ answer' = e

Read(n) ==
  /\ pc = "idle" /\ answer = "nil" /\ lost = "no"
  /\ IF outbuf # << >>
     THEN /\ got' = got \o SubSeq(outbuf, 1, Smaller(n, Len(outbuf)))
          /\ outbuf' = SubSeq(outbuf, n + 1, Len(outbuf))
          /\ UNCHANGED <<pc, want>>
     ELSE pc' = "bytes" /\ want' = n /\ UNCHANGED <<got, outbuf>>
  /\ UNCHANGED <<packedVars, windowVars, fl, tot, err, dec, block, ended, caller, answer, lost>>

(* bytes has come to new, which Read copies to p, and Next forgets.           *)
Give(new) ==
  /\ tot' = tot + Len(new)
  /\ IF want >= 0
     THEN /\ got' = got \o SubSeq(new, 1, Smaller(want, Len(new)))
          /\ outbuf' = SubSeq(new, want + 1, Len(new))
          /\ Return("nil")
     ELSE pc' = "bytes" /\ UNCHANGED <<got, outbuf, caller, want, answer>>

(* fill, for bytes or bufBytes: an error is returned once the bytes before it *)
(* are taken; otherwise the decoder goes on, from the beginning of a window    *)
(* that is full.                                                             *)
Fill(from, ready) ==
  /\ pc = from /\ ready
  /\ IF err # "nil"
     THEN /\ err' = "nil"
          /\ IF want = -1 /\ err = "eof" THEN pc' = "next" /\ UNCHANGED <<caller, want, answer>> ELSE Return(err)
          /\ UNCHANGED <<r, w>>
     ELSE /\ pc' = "fill" /\ caller' = from
          /\ err' = IF ended = "eof" THEN "eof" ELSE "nil"
          /\ IF w = size THEN r' = 0 /\ w' = 0 ELSE UNCHANGED <<r, w>>
          /\ UNCHANGED <<want, answer>>
  /\ UNCHANGED <<packedVars, win, size, fl, tot, outbuf, dec, block, ended, got, lost>>

(* The decoder returns to fill, and fill to its caller. *)
Filled ==
  /\ pc = "fill" /\ ~Decoding
  /\ pc' = caller /\ caller' = "none"
  /\ UNCHANGED <<packedVars, windowVars, fl, streamVars, want, got, answer, lost>>

(* bytes: what was decoded, up to the block of the first filter. *)
Plain ==
  LET n == IF fl = << >> THEN w - r ELSE Smaller(fl[1].offset, w - r) IN
  /\ pc = "bytes" /\ w # r /\ n > 0
  /\ Give(Slice(r, n))
  /\ r' = r + n
  /\ fl' = IF fl = << >> THEN fl ELSE [fl EXCEPT ![1].offset = @ - n]
  /\ UNCHANGED <<packedVars, win, size, w, err, dec, block, ended, lost>>

(* A filter whose block has begun before, which bytes says to be invalid.    *)
Misplaced ==
  /\ pc = "bytes" /\ w # r /\ fl # << >> /\ fl[1].offset < 0
  /\ Return("error")
  /\ UNCHANGED <<packedVars, windowVars, fl, streamVars, got, lost>>

BlockBegins ==
  /\ pc = "bytes" /\ w # r /\ fl # << >> /\ fl[1].offset = 0
  /\ pc' = "block" /\ block' = << >>
  /\ UNCHANGED <<packedVars, windowVars, fl, tot, outbuf, err, dec, ended, caller, want, got, answer, lost>>

(* bufBytes *)
Collect ==
  LET n == Smaller(fl[1].length - Len(block), w - r) IN
  /\ pc = "block" /\ n > 0
  /\ block' = block \o Slice(r, n)
  /\ r' = r + n
  /\ UNCHANGED <<packedVars, win, size, w, fl, tot, outbuf, err, dec, ended, callVars, lost>>

Filtered(b, offset) == [k \in DOMAIN b |-> b[k] \o <<Len(b), k, offset>>]

(* processFilters: the filter of the block, and whether another one follows.  *)
ProcessFilter ==
  LET new  == Filtered(block, tot)
      rest == Tail(fl) IN
  /\ pc = "block" /\ Len(block) = fl[1].length
  /\ IF rest # << >> /\ rest[1].offset = 0
     THEN /\ fl' = rest
          /\ IF rest[1].length = Len(new)
             THEN block' = new /\ UNCHANGED <<pc, caller, want, answer>>
             ELSE Return("error") /\ UNCHANGED block
          /\ UNCHANGED <<tot, got, outbuf>>
     ELSE /\ fl' = IF rest = << >> THEN rest ELSE [rest EXCEPT ![1].offset = @ - Len(new)]
          /\ block' = << >>
          /\ Give(new)
  /\ UNCHANGED <<packedVars, windowVars, err, dec, ended, lost>>

(* Reader.Next: the rest of a file of a solid archive is decoded first.      *)
Next ==
  /\ pc = "idle" /\ answer # "error" /\ lost = "no" /\ files < MaxFiles
  /\ IF solid
     THEN pc' = "bytes" /\ want' = -1
     ELSE pc' = "next" /\ UNCHANGED want
  /\ UNCHANGED <<packedVars, windowVars, fl, streamVars, caller, got, answer, lost>>

(* Faulty: the window is enlarged and its bytes stay at their indexes. *)
RelaidAsIs(newSize) == [i \in 0 .. newSize - 1 |-> IF i < size THEN win[i] ELSE Zero]

(* The bytes of the old window in the order in which they were written.      *)
Relaid(newSize) == [i \in 0 .. newSize - 1 |-> IF i < size THEN win[(w + i) % size] ELSE Zero]

(* Faulty: the filters of the file before stay. *)
AllFilters(reset) == fl

(* The filters that the next file begins with. *)
LeftFilters(reset) == IF reset THEN << >> ELSE fl

(* decodeReader.init, called by Reader.nextFile: a file has a window of its *)
(* own or, in a solid archive, goes on in the window of the last one.        *)
Begin(reset, winSize, version) ==
  LET newSize == Larger(winSize, MinWindow) IN
  /\ pc = "next" /\ (reset \/ (solid /\ files > 0))
  /\ files' = files + 1
  /\ outbuf' = << >> /\ tot' = 0 /\ err' = "nil" /\ block' = << >>
  /\ fl' = LeftFilters(reset)
  /\ IF reset
     THEN /\ size' = Larger(size, newSize) /\ w' = 0
          /\ win' = [i \in 0 .. size' - 1 |-> Zero]
     ELSE IF newSize > size
          THEN size' = newSize /\ win' = Relaid(newSize) /\ w' = size
          ELSE UNCHANGED <<size, win, w>>
  /\ r' = w'
  /\ dec' = IF dec = "none" THEN version ELSE dec
  /\ ended' = IF dec \in {"none", version} THEN "no" ELSE "error"
  /\ Return(IF dec \in {"none", version} THEN "nil" ELSE "error")
  /\ got' = << >>
  /\ bytes' = IF reset THEN << >> ELSE SubSeq(bytes, 1 + Larger(0, Len(bytes) - size), Len(bytes))
  /\ start' = Len(bytes')
  /\ marks' = << >>
  /\ UNCHANGED <<solid, matches, lost>>

-----------------------------------------------------------------------------
DwInit ==
  /\ solid \in BOOLEAN
  /\ files = 0 /\ bytes = << >> /\ start = 0 /\ marks = << >> /\ matches = 0
  /\ win = [i \in {} |-> Zero] /\ size = 0 /\ r = 0 /\ w = 0 /\ fl = << >>
  /\ tot = 0 /\ outbuf = << >> /\ err = "nil" /\ dec = "none" /\ block = << >> /\ ended = "no"
  /\ pc = "next" /\ caller = "none" /\ want = 0 /\ got = << >> /\ answer = "nil" /\ lost = "no"

DwNext ==
  \/ Literal \/ End
  \/ \E length \in 2 .. MaxMatch, offset \in 1 .. size : Match(length, offset)
  \/ \E length \in 1 .. size - 1, offset \in 0 .. size - 1 : Filter(offset, length)
  \/ \E n \in 1 .. MaxRead : Read(n)
  \/ Fill("bytes", w = r) \/ Fill("block", w = r /\ Len(block) < fl[1].length)
  \/ Filled \/ Plain \/ Misplaced \/ BlockBegins \/ Collect \/ ProcessFilter \/ Next
  \/ \E reset \in BOOLEAN, winSize \in Windows, version \in Versions : Begin(reset, winSize, version)

DwSpec == DwInit /\ [][DwNext]_dwVars

-----------------------------------------------------------------------------
(* Properties *)

(* A byte, which is the k-th of the file, through the filters of its block,   *)
(* in their order.                                                           *)
Through(byte, k, filters) ==
  FoldLeft(LAMBDA b, m : IF m.from < k /\ k <= m.from + m.length THEN b \o <<m.length, k - m.from, m.from>> ELSE b,
           byte, filters)

(* The file *)
Unpacked == [k \in 1 .. Len(bytes) - start |-> Through(bytes[start + k], k, marks)]

(* Reads give the file as it was packed, and the whole of it before io.EOF,   *)
(* through however many turns of the window, blocks that lie across its end,  *)
(* filters upon filters and files before it; unless a copy does not fit       *)
(* before the end of the window, or a filter is queued for a block that       *)
(* begins in the next turn or while another block is collected.              *)
DeliversThePacked ==
  lost = "no" => IsPrefix(got, Unpacked) /\ (answer = "eof" => got = Unpacked)

(* A file that is well packed is not refused: no filter that is left over     *)
(* from an earlier file, or was queued long before its block, is taken for an *)
(* invalid one.                                                              *)
RefusesTheBroken == lost = "no" /\ answer = "error" => ended = "error"

=============================================================================
