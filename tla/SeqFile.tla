------------------------------- MODULE SeqFile ------------------------------
(***************************************************************************)
(* What an io.ReadSeeker of a file promises to one caller: a Read returns   *)
(* the bytes that follow the position, and end of file only at the end; a   *)
(* Seek moves the position or leaves it where it was. A reader that has     *)
(* lost its place promises nothing until a Seek finds the place again.      *)
(* Bytes are named by their offsets, 1 .. Length.                           *)
(***************************************************************************)
EXTENDS Integers

CONSTANT Length

VARIABLES
  pos,    \* bytes before the position
  lost,   \* has the reader lost its place?
  answer  \* of the last call: [op, bytes, err]

seqVars == <<pos, lost, answer>>

Answers(op, bytes, err) == answer' = [op |-> op, bytes |-> bytes, err |-> err]

Init == pos = 0 /\ lost \in BOOLEAN /\ answer = [op |-> "none", bytes |-> << >>, err |-> "nil"]

ReadSome ==
  \E n \in 1 .. Length - pos :
    /\ Answers("read", [k \in 1 .. n |-> pos + k], "nil")
    /\ pos' = pos + n

ReadEnd  == pos = Length /\ Answers("read", << >>, "eof") /\ pos' = pos

(* A call that fails, or a Seek out of the file. *)
Fails == pos' = pos /\ \E why \in {<<"read", "error">>, <<"seek", "error">>, <<"seek", "range">>} :
                        Answers(why[1], << >>, why[2])

Seek(target) == Answers("seek", << >>, "nil") /\ pos' = target

Found == lost' = FALSE /\ \E target \in 0 .. Length : Seek(target)

(* A Seek underway may lose the place. *)
Lost == lost' /\ (lost \/ UNCHANGED <<pos, answer>>)

Next ==
  \/ ~lost /\ lost' \in BOOLEAN /\ (ReadSome \/ ReadEnd \/ Fails)
  \/ Found
  \/ Lost

Spec == Init /\ [][Next]_seqVars

=============================================================================
