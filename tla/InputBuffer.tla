---------------------------- MODULE InputBuffer ----------------------------
(***************************************************************************)
(* The terminal input of a peer: input_buffer.c cuts what read() returns   *)
(* into lines.                                                             *)
(*                                                                         *)
(* process_user_input is Read, or GiveUp, followed by HandleLine as long   *)
(* as strchr finds a newline; Read and GiveUp wait for that.  What counts  *)
(* in memory is the bytes from the start of the buffer to the first zero;  *)
(* behind it the shift by memmove leaves old bytes standing.               *)
(***************************************************************************)
EXTENDS Integers, Sequences, FiniteSets

CONSTANTS
  Size,         \* USERBUF_SIZE: the buffer has one byte more (8191 in the code)
  Word,         \* 2^32, the range of the unsigned cur
  Chars,        \* the characters typed, apart from the newline
  NL, NUL,      \* the newline and the zero byte
  MaxTyped      \* bound: bytes typed

ASSUME InputAssumption ==
  /\ Size \in Nat \ {0}
  /\ Word \in Nat /\ Word > Size + 1
  /\ NL \notin Chars /\ NUL \notin Chars /\ NL # NUL
  /\ MaxTyped \in Nat

VARIABLES
  buf,          \* userbuf->buf
  cur,          \* userbuf->cur
  lines,        \* the lines handed to handle_line so far
  exited,       \* the process has ended with "line too long"
  typed,        \* history: all bytes read so far
  peak,         \* history: the most bytes the buffer has held
  singly        \* history: no read has returned bytes behind a newline

vars == <<buf, cur, lines, exited, typed, peak, singly>>

Typeable == Chars \cup {NL}

(***************************************************************************)
(* strchr(buf, '\n'): the set of the first newline, empty when a zero byte *)
(* comes first.                                                            *)
(***************************************************************************)
Strchr(b) ==
  {r \in 0..Size : b[r] = NL /\ \A i \in 0..(r - 1) : b[i] \notin {NL, NUL}}

Init ==
  /\ buf = [i \in 0..Size |-> NUL]
  /\ cur = 0
  /\ lines = << >>
  /\ exited = FALSE
  /\ typed = << >>
  /\ peak = 0
  /\ singly = TRUE

(***************************************************************************)
(* The buffer-full test at the head of process_user_input.                 *)
(***************************************************************************)
(* Mutant: one byte too early. *)
BufferFullEarly == cur >= Size - 2

BufferFull == cur >= Size - 1

GiveUp ==
  /\ ~exited
  /\ Strchr(buf) = {}
  /\ BufferFull
  /\ exited' = TRUE
  /\ UNCHANGED <<buf, cur, lines, typed, peak, singly>>

(***************************************************************************)
(* read(fd, buf + cur, Room(cur)) returns the bytes bs.                    *)
(***************************************************************************)
(* Mutant: the closing zero byte is counted as room. *)
RoomAll(c) == Size + 1 - c

Room(c) == Size - c

Read(bs) ==
  /\ ~exited
  /\ Strchr(buf) = {}
  /\ ~BufferFull
  /\ Len(bs) <= Room(cur)
  /\ buf' = [i \in 0..Size |-> IF cur <= i /\ i < cur + Len(bs) THEN bs[i - cur + 1]
                               ELSE buf[i]]
  /\ cur' = cur + Len(bs)
  /\ typed' = typed \o bs
  /\ peak' = IF cur' > peak THEN cur' ELSE peak
  /\ singly' = (singly /\ \A i \in 1..(Len(bs) - 1) : bs[i] # NL)
  /\ UNCHANGED <<lines, exited>>

(***************************************************************************)
(* memmove(buf, ret + 1, Size - r) with r = ret - buf, after *ret was set  *)
(* to zero: the last r bytes before the closing zero stay as they are.     *)
(***************************************************************************)
(* Mutants: the moved block ends before the closing zero; it starts at ret *)
(* and not at the byte behind it. *)
ShiftShort(b, r) ==
  LET z == [b EXCEPT ![r] = NUL] IN
  [i \in 0..Size |-> IF i < Size - r - 1 THEN z[i + r + 1] ELSE z[i]]

ShiftFromRet(b, r) ==
  LET z == [b EXCEPT ![r] = NUL] IN
  [i \in 0..Size |-> IF i < Size - r THEN z[i + r] ELSE z[i]]

Shift(b, r) ==
  LET z == [b EXCEPT ![r] = NUL] IN
  [i \in 0..Size |-> IF i < Size - r THEN z[i + r + 1] ELSE z[i]]

HandleLine ==
  /\ ~exited
  /\ \E r \in Strchr(buf) :
       /\ lines' = Append(lines, [i \in 1..r |-> buf[i - 1]])
       /\ buf' = Shift(buf, r)
       /\ cur' = (cur - (r + 1)) % Word
  /\ UNCHANGED <<exited, typed, peak, singly>>

(***************************************************************************)
(* What one read may return.                                               *)
(***************************************************************************)
Reads == UNION {[1..n -> Typeable] : n \in 1..(Size + 1)}

Next ==
  \/ \E bs \in Reads : Len(typed) + Len(bs) <= MaxTyped /\ Read(bs)
  \/ HandleLine
  \/ GiveUp

Spec == Init /\ [][Next]_vars
-----------------------------------------------------------------------------
TypeOK ==
  /\ buf \in [0..Size -> Typeable \cup {NUL}]
  /\ cur \in 0..(Word - 1)
  /\ lines \in Seq(Seq(Chars))
  /\ exited \in BOOLEAN
  /\ typed \in Seq(Typeable)
  /\ peak \in 0..Size
  /\ singly \in BOOLEAN

(***************************************************************************)
(* strchr and the line handler stay inside the allocation: through any     *)
(* sequence of reads and shifts a zero byte ends the buffer.               *)
(***************************************************************************)
Terminated == buf[Size] = NUL

(***************************************************************************)
(* The loop of process_user_input ends, even on old bytes brought back by  *)
(* the shift: each turn leaves less of the buffer in front of the first    *)
(* zero byte than it found.                                                *)
(***************************************************************************)
Visible(b) == {i \in 0..Size : \A j \in 0..i : b[j] # NUL}

LoopEnds ==
  [][lines' # lines => Visible(buf') \subseteq Visible(buf) /\ Visible(buf') # Visible(buf)]_vars

(***************************************************************************)
(* The lines typed: NewlineAt(k) is the place of the k-th newline.         *)
(***************************************************************************)
Newlines == {i \in DOMAIN typed : typed[i] = NL}

NewlineAt(k) ==
  IF k = 0 THEN 0
  ELSE CHOOSE i \in Newlines : Cardinality({j \in Newlines : j <= i}) = k

LineTyped(k) == SubSeq(typed, NewlineAt(k - 1) + 1, NewlineAt(k) - 1)

(***************************************************************************)
(* The lines handled are the lines typed, in order and in full, and when   *)
(* the loop ends none is left.  It holds as long as the terminal hands out *)
(* one line per read, or as the buffer was never more than half full; a    *)
(* long read with several lines leaves newlines behind the shifted text    *)
(* that later count as typed.                                              *)
(***************************************************************************)
Safe == singly \/ 2 * peak <= Size + 1

LinesRight ==
  Safe =>
    /\ Len(lines) <= Cardinality(Newlines)
    /\ \A k \in DOMAIN lines : lines[k] = LineTyped(k)
    /\ Strchr(buf) = {} => Len(lines) = Cardinality(Newlines)

(***************************************************************************)
(* The peer gives up only on a line as long as the buffer: cur never wraps *)
(* below zero.                                                             *)
(***************************************************************************)
GivesUpOnLongLine ==
  Safe /\ exited => Len(typed) - NewlineAt(Cardinality(Newlines)) >= Size - 1
=============================================================================
