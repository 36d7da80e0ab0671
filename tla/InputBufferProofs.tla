------------------------- MODULE InputBufferProofs -------------------------
(***************************************************************************)
(* The input buffer, for every size and every sequence of reads: it keeps  *)
(* its closing zero byte and stays inside its allocation, the loop over    *)
(* its lines ends, and the lines handled are the lines typed.              *)
(*                                                                         *)
(* TypeOK and Terminated are inductive together.  A read ends before the   *)
(* closing zero because it asks for Size - cur bytes and the size test     *)
(* keeps a wrapped cur out; a shift leaves the closing zero or moves it.   *)
(*                                                                         *)
(* On top of them TextInv: while the input is Safe the buffer is a window  *)
(* on the text typed, and nothing behind it can be taken for text.         *)
(***************************************************************************)
EXTENDS InputBuffer, FiniteSetTheorems, WellFoundedInduction, TLAPS

IInv == TypeOK /\ Terminated

(***************************************************************************)
(* A nonempty set of naturals has a least element.                         *)
(***************************************************************************)
LEMMA LeastElement ==
  ASSUME NEW T, T \subseteq Nat, T # {}
  PROVE  \E x \in T : \A y \in T : x <= y
<1>1. PICK x \in T : \A y \in T : ~ (<<y, x>> \in OpToRel(<, Nat))
  BY ONLY WFMin, NatLessThanWellFounded, T \subseteq Nat, T # {}, Zenon
<1>2. \A y \in T : ~ (<<y, x>> \in {ss \in Nat \X Nat : ss[1] < ss[2]})
  BY <1>1, Zenon DEF OpToRel
<1>3. ASSUME NEW y \in T  PROVE x <= y
  <2>1. x \in Nat /\ y \in Nat
    OBVIOUS
  <2>2. y < x => <<y, x>> \in {ss \in Nat \X Nat : ss[1] < ss[2]}
    BY <2>1
  <2>3. ~ (y < x)
    BY <1>2, <2>2, Zenon
  <2> QED  BY <2>1, <2>3
<1> QED  BY <1>3

(***************************************************************************)
(* What strchr finds is a newline with neither newline nor zero before it. *)
(***************************************************************************)
LEMMA StrchrFound ==
  ASSUME NEW b, NEW r \in Strchr(b)
  PROVE  r \in 0..Size /\ b[r] = NL /\ \A i \in 0..(r - 1) : b[i] \notin {NL, NUL}
BY DEF Strchr

LEMMA ShiftType ==
  ASSUME NEW b \in [0..Size -> Typeable \cup {NUL}], NEW r \in 0..Size, b[Size] = NUL,
         r # Size
  PROVE  /\ Shift(b, r) \in [0..Size -> Typeable \cup {NUL}]
         /\ Shift(b, r)[Size] = NUL
         /\ \A i \in (r + 1)..Size : Shift(b, r)[i - r - 1] = b[i]
<1> USE InputAssumption
<1> DEFINE z == [b EXCEPT ![r] = NUL]
<1>1. z \in [0..Size -> Typeable \cup {NUL}] /\ z[Size] = NUL
      /\ \A i \in (r + 1)..Size : z[i] = b[i]
  OBVIOUS
<1>2. Shift(b, r) = [i \in 0..Size |-> IF i < Size - r THEN z[i + r + 1] ELSE z[i]]
  BY DEF Shift
<1> HIDE DEF z
<1>3. \A i \in 0..Size : i < Size - r => i + r + 1 \in 0..Size
  OBVIOUS
<1>4. Shift(b, r) \in [0..Size -> Typeable \cup {NUL}]
  BY <1>1, <1>2, <1>3
<1>5. Shift(b, r)[Size] = NUL
  BY <1>1, <1>2
<1>6. ASSUME NEW i \in (r + 1)..Size
      PROVE  Shift(b, r)[i - r - 1] = b[i]
  <2>1. i - r - 1 \in 0..Size /\ i - r - 1 < Size - r /\ (i - r - 1) + r + 1 = i
    OBVIOUS
  <2> QED  BY <1>1, <1>2, <2>1
<1> QED  BY <1>4, <1>5, <1>6

LEMMA InitOK == Init => IInv
<1> SUFFICES ASSUME Init  PROVE IInv
  OBVIOUS
<1> USE InputAssumption DEF Init
<1>1. buf \in [0..Size -> Typeable \cup {NUL}] /\ buf[Size] = NUL
  OBVIOUS
<1>2. lines \in Seq(Seq(Chars)) /\ typed \in Seq(Typeable)
  OBVIOUS
<1>3. cur \in 0..(Word - 1) /\ peak \in 0..Size
  OBVIOUS
<1>4. exited \in BOOLEAN /\ singly \in BOOLEAN
  OBVIOUS
<1> QED  BY <1>1, <1>2, <1>3, <1>4 DEF IInv, TypeOK, Terminated

LEMMA ReadOK ==
  ASSUME IInv, NEW bs \in Reads, Read(bs)
  PROVE  IInv'
<1> USE InputAssumption
<1>1. bs \in Seq(Typeable) /\ Len(bs) \in Nat
  BY DEF Reads
<1>2. cur \in Nat /\ cur + Len(bs) <= Size /\ cur + Len(bs) < Word
  BY <1>1 DEF Read, IInv, TypeOK, Room, BufferFull
<1>3. buf' \in [0..Size -> Typeable \cup {NUL}]
  <2>1. \A i \in 0..Size : cur <= i /\ i < cur + Len(bs) => bs[i - cur + 1] \in Typeable
    BY <1>1, <1>2
  <2> QED  BY <2>1 DEF Read, IInv, TypeOK
<1>4. buf'[Size] = NUL
  BY <1>2 DEF Read, IInv, TypeOK, Terminated
<1>5. cur' \in 0..(Word - 1) /\ peak' \in 0..Size
  BY <1>1, <1>2 DEF Read, IInv, TypeOK
<1>6. typed' \in Seq(Typeable)
  BY <1>1 DEF Read, IInv, TypeOK
<1>7. lines' \in Seq(Seq(Chars)) /\ exited' \in BOOLEAN
  BY DEF Read, IInv, TypeOK
<1>8. singly' \in BOOLEAN
  BY DEF Read, IInv, TypeOK
<1> QED  BY <1>3, <1>4, <1>5, <1>6, <1>7, <1>8 DEF IInv, TypeOK, Terminated

LEMMA HandleLineOK ==
  ASSUME IInv, HandleLine
  PROVE  IInv'
<1> USE InputAssumption
<1>1. PICK r \in Strchr(buf) :
        /\ lines' = Append(lines, [i \in 1..r |-> buf[i - 1]])
        /\ buf' = Shift(buf, r)
        /\ cur' = (cur - (r + 1)) % Word
  BY DEF HandleLine
<1>2. r \in 0..Size /\ buf[r] = NL /\ \A i \in 0..(r - 1) : buf[i] \notin {NL, NUL}
  BY <1>1, StrchrFound
<1>3. r # Size
  BY <1>2 DEF IInv, Terminated
<1>4. buf' \in [0..Size -> Typeable \cup {NUL}] /\ buf'[Size] = NUL
  BY <1>1, <1>2, <1>3, ShiftType DEF IInv, TypeOK, Terminated
<1>5. lines' \in Seq(Seq(Chars))
  <2>1. \A i \in 1..r : buf[i - 1] \in Chars
    BY <1>2 DEF IInv, TypeOK, Typeable
  <2>2. [i \in 1..r |-> buf[i - 1]] \in Seq(Chars)
    BY <1>2, <2>1
  <2>3. lines \in Seq(Seq(Chars))
    BY DEF IInv, TypeOK
  <2>4. ASSUME NEW l \in Seq(Chars)  PROVE Append(lines, l) \in Seq(Seq(Chars))
    BY <2>3
  <2> QED  BY <1>1, <2>2, <2>4
<1>6. cur' \in 0..(Word - 1)
  BY <1>1, <1>2 DEF IInv, TypeOK
<1>7. UNCHANGED <<exited, typed, peak, singly>>
  BY DEF HandleLine
<1> QED  BY <1>4, <1>5, <1>6, <1>7 DEF IInv, TypeOK, Terminated

LEMMA NextOK ==
  ASSUME IInv, [Next]_vars
  PROVE  IInv'
<1>1. CASE \E bs \in Reads : Len(typed) + Len(bs) <= MaxTyped /\ Read(bs)
  BY <1>1, ReadOK
<1>2. CASE HandleLine
  BY <1>2, HandleLineOK
<1>3. CASE GiveUp
  BY <1>3 DEF GiveUp, IInv, TypeOK, Terminated
<1>4. CASE UNCHANGED vars
  BY <1>4 DEF vars, IInv, TypeOK, Terminated
<1> QED  BY <1>1, <1>2, <1>3, <1>4 DEF Next

THEOREM InputInvariance == Spec => []IInv
<1>1. Init => IInv
  BY InitOK
<1>2. IInv /\ [Next]_vars => IInv'
  BY NextOK
<1> QED  BY <1>1, <1>2, PTL DEF Spec

(***************************************************************************)
(* Every reachable state of the input buffer is well typed: reads stay in  *)
(* the allocation of create_userbuf and lines are made of typed bytes.     *)
(***************************************************************************)
THEOREM InputTyped == Spec => []TypeOK
BY InputInvariance, PTL DEF IInv

(***************************************************************************)
(* The closing zero byte of the buffer is never lost, whatever is read and *)
(* shifted, so strchr and the line handler stay inside it.                 *)
(***************************************************************************)
THEOREM BufferTerminated == Spec => []Terminated
BY InputInvariance, PTL DEF IInv

(***************************************************************************)
(* One turn of the loop: what is in front of the first zero shrinks.       *)
(***************************************************************************)
LEMMA LineShrinks ==
  ASSUME IInv, HandleLine
  PROVE  Visible(buf') \subseteq Visible(buf) /\ Visible(buf') # Visible(buf)
<1> USE InputAssumption
<1>1. PICK r \in Strchr(buf) : buf' = Shift(buf, r)
  BY DEF HandleLine
<1>2. r \in 0..Size /\ buf[r] = NL /\ \A i \in 0..(r - 1) : buf[i] \notin {NL, NUL}
  BY <1>1, StrchrFound
<1>3. r # Size
  BY <1>2 DEF IInv, Terminated
<1>4. \A i \in (r + 1)..Size : buf'[i - r - 1] = buf[i]
  <2>1. buf \in [0..Size -> Typeable \cup {NUL}] /\ buf[Size] = NUL
    BY DEF IInv, TypeOK, Terminated
  <2>2. r \in 0..Size
    BY <1>2
  <2>3. \A i \in (r + 1)..Size : Shift(buf, r)[i - r - 1] = buf[i]
    BY <1>3, <2>1, <2>2, ShiftType, Zenon
  <2>4. QED  BY <1>1, <2>3
<1>5. \A m \in 0..Size : buf[m] = NUL => m \in (r + 1)..Size /\ buf'[m - r - 1] = NUL
  <2> SUFFICES ASSUME NEW m \in 0..Size, buf[m] = NUL
               PROVE  m \in (r + 1)..Size /\ buf'[m - r - 1] = NUL
    OBVIOUS
  <2>1. m # r /\ ~(m \in 0..(r - 1))
    BY <1>2
  <2>2. m \in (r + 1)..Size
    BY <1>2, <2>1
  <2>3. QED  BY <1>4, <2>2
<1>6. Visible(buf') \subseteq Visible(buf)
  <2> SUFFICES ASSUME NEW i \in Visible(buf'), NEW m \in 0..i, buf[m] = NUL
               PROVE  FALSE
    BY DEF Visible
  <2>1. i \in 0..Size /\ \A j \in 0..i : buf'[j] # NUL
    BY DEF Visible
  <2>2. m - r - 1 \in 0..i /\ buf'[m - r - 1] = NUL
    BY <1>2, <1>5, <2>1
  <2> QED  BY <2>1, <2>2
<1>7. \E i \in Visible(buf) : i \notin Visible(buf')
  <2> DEFINE Zeros == {m \in 0..Size : buf[m] = NUL}
  <2>1. Zeros \subseteq Nat /\ Size \in Zeros
    BY DEF IInv, Terminated
  <2>2. PICK m \in Zeros : \A y \in Zeros : m <= y
    BY <2>1, LeastElement
  <2>3. m \in (r + 1)..Size /\ buf'[m - r - 1] = NUL
    BY <1>5
  <2>4. m - 1 \in 0..Size /\ \A j \in 0..(m - 1) : buf[j] # NUL
    BY <1>2, <2>2, <2>3
  <2>5. m - 1 \in Visible(buf)
    BY <2>4 DEF Visible
  <2>6. m - 1 \notin Visible(buf')
    <3>1. m - r - 1 \in 0..(m - 1)
      BY <1>2, <2>3
    <3> QED  BY <3>1, <2>3 DEF Visible
  <2> QED  BY <2>5, <2>6
<1> QED  BY <1>6, <1>7

(***************************************************************************)
(* The strchr loop of process_user_input ends on every input: the text     *)
(* before the first zero byte shrinks with each line handled.              *)
(***************************************************************************)
THEOREM LineLoopEnds == Spec => LoopEnds
<1> DEFINE Shrinks == Visible(buf') \subseteq Visible(buf) /\ Visible(buf') # Visible(buf)
<1>1. IInv /\ [Next]_vars => [lines' # lines => Shrinks]_vars
  <2> SUFFICES ASSUME IInv, Next, lines' # lines
               PROVE  Shrinks
    BY DEF vars
  <2>1. HandleLine
    BY DEF Next, Read, GiveUp
  <2> QED  BY <2>1, LineShrinks
<1> QED  BY <1>1, InputInvariance, PTL DEF Spec, LoopEnds-----------------------------------------------------------------------------
(***************************************************************************)
(* The newlines of a text t: Rank counts those up to a place, At finds the *)
(* k-th one, if Marked says there is one.                                  *)
(***************************************************************************)
NewlinesOf(t) == {i \in DOMAIN t : t[i] = NL}

Upto(t, i) == {j \in NewlinesOf(t) : j <= i}

Rank(t, i) == Cardinality(Upto(t, i))

At(t, k) == IF k = 0 THEN 0 ELSE CHOOSE i \in NewlinesOf(t) : Rank(t, i) = k

Marked(t, k) == k = 0 \/ (At(t, k) \in NewlinesOf(t) /\ Rank(t, At(t, k)) = k)

LEMMA NewlinesFinite ==
  ASSUME NEW t \in Seq(Typeable)
  PROVE  /\ NewlinesOf(t) \subseteq 1..Len(t) /\ IsFiniteSet(NewlinesOf(t))
         /\ \A i : /\ IsFiniteSet(Upto(t, i))
                   /\ Rank(t, i) \in Nat
                   /\ Rank(t, i) <= Cardinality(NewlinesOf(t))
<1>1. NewlinesOf(t) \subseteq 1..Len(t)
  BY DEF NewlinesOf
<1>2. IsFiniteSet(1..Len(t))
  BY FS_Interval
<1>3. IsFiniteSet(NewlinesOf(t))
  BY <1>1, <1>2, FS_Subset
<1>4. ASSUME NEW i PROVE /\ IsFiniteSet(Upto(t, i)) /\ Rank(t, i) \in Nat
                         /\ Rank(t, i) <= Cardinality(NewlinesOf(t))
  <2>1. Upto(t, i) \subseteq NewlinesOf(t)
    BY DEF Upto
  <2>2. IsFiniteSet(Upto(t, i)) /\ Cardinality(Upto(t, i)) <= Cardinality(NewlinesOf(t))
    BY <1>3, <2>1, FS_Subset
  <2>3. QED  BY <2>2, FS_CardinalityType DEF Rank
<1>5. QED  BY <1>1, <1>3, <1>4

(***************************************************************************)
(* A newline is found by its number.                                       *)
(***************************************************************************)
LEMMA FoundByRank ==
  ASSUME NEW t \in Seq(Typeable), NEW i \in NewlinesOf(t)
  PROVE  At(t, Rank(t, i)) = i /\ Marked(t, Rank(t, i))
<1>1. ASSUME NEW j \in NewlinesOf(t), Rank(t, j) = Rank(t, i) PROVE j = i
  <2>1. i \in Nat /\ j \in Nat
    BY NewlinesFinite
  <2>2. ASSUME NEW x \in NewlinesOf(t), NEW y \in NewlinesOf(t), x <= y, Rank(t, x) = Rank(t, y)
        PROVE  x = y
    <3>1. x \in Nat /\ y \in Nat
      BY NewlinesFinite
    <3>2. \A n \in NewlinesOf(t) : n \in Nat
      BY NewlinesFinite
    <3>3. Upto(t, x) \subseteq Upto(t, y)
      <4>. SUFFICES ASSUME NEW n \in NewlinesOf(t), n <= x PROVE n <= y
        BY DEF Upto
      <4>1. n \in Nat
        BY <3>2
      <4>2. QED  BY <2>2, <3>1, <4>1
    <3>4. Upto(t, x) = Upto(t, y)
      BY <2>2, <3>3, NewlinesFinite, FS_Subset DEF Rank
    <3>5. y \in Upto(t, x)
      BY <3>1, <3>4 DEF Upto
    <3>6. QED  BY <2>2, <3>1, <3>5 DEF Upto
  <2>3. CASE i <= j
    BY <1>1, <2>2, <2>3, Zenon
  <2>4. CASE j <= i
    BY <1>1, <2>2, <2>4, Zenon
  <2>5. QED  BY <2>1, <2>3, <2>4
<1>2. Rank(t, i) # 0
  <2>1. i \in Upto(t, i)
    BY NewlinesFinite DEF Upto
  <2>2. QED  BY <2>1, NewlinesFinite, FS_EmptySet DEF Rank
<1>3. At(t, Rank(t, i)) = i
  BY <1>1, <1>2 DEF At
<1>4. QED  BY <1>3 DEF Marked

LEMMA MarkedPlace ==
  ASSUME NEW t \in Seq(Typeable), NEW k \in Nat, Marked(t, k)
  PROVE  At(t, k) \in 0..Len(t) /\ Rank(t, At(t, k)) = k
<1>1. CASE k = 0
  <2>1. At(t, k) = 0 /\ Upto(t, 0) = {}
    BY <1>1, NewlinesFinite DEF At, Upto
  <2>2. QED  BY <1>1, <2>1, FS_EmptySet DEF Rank
<1>2. CASE k # 0
  BY <1>2, NewlinesFinite DEF Marked
<1>3. QED  BY <1>1, <1>2

(***************************************************************************)
(* More text behind leaves the newlines and their numbers as they are.     *)
(***************************************************************************)
LEMMA MarkedStays ==
  ASSUME NEW t \in Seq(Typeable), NEW bs \in Seq(Typeable), NEW k \in Nat, Marked(t, k)
  PROVE  At(t \o bs, k) = At(t, k) /\ Marked(t \o bs, k)
<1>. DEFINE u == t \o bs
            i == At(t, k)
<1>1. /\ u \in Seq(Typeable) /\ Len(u) = Len(t) + Len(bs)
      /\ DOMAIN u = 1..(Len(t) + Len(bs)) /\ DOMAIN t = 1..Len(t)
      /\ \A j \in 1..Len(t) : u[j] = t[j]
  OBVIOUS
<1>. HIDE DEF u
<1>2. CASE k = 0
  BY <1>2 DEF At, Marked
<1>3. CASE k # 0
  <2>1. i \in NewlinesOf(t) /\ Rank(t, i) = k /\ i \in 1..Len(t)
    BY <1>3, NewlinesFinite DEF Marked
  <2>. HIDE DEF i
  <2>2. Len(t) \in Nat /\ Len(bs) \in Nat
    OBVIOUS
  <2>3. i \in NewlinesOf(u)
    BY <1>1, <2>1, <2>2 DEF NewlinesOf
  <2>4. Upto(u, i) = Upto(t, i)
    <3>1. \A j \in 1..Len(t) : j \in NewlinesOf(u) <=> j \in NewlinesOf(t)
      BY <1>1, <2>2 DEF NewlinesOf
    <3>2. NewlinesOf(u) \subseteq 1..Len(u) /\ NewlinesOf(t) \subseteq 1..Len(t)
      BY <1>1, NewlinesFinite
    <3>3. \A j : j \in 1..Len(u) /\ j <= i => j \in 1..Len(t)
      BY <1>1, <2>1, <2>2
    <3>4. QED  BY <3>1, <3>2, <3>3 DEF Upto
  <2>5. Rank(u, i) = k
    BY <2>1, <2>4 DEF Rank
  <2>6. At(u, k) = i /\ Marked(u, k)
    BY <1>1, <2>3, <2>5, FoundByRank
  <2>7. QED  BY <2>6 DEF u, i
<1>4. QED  BY <1>2, <1>3 DEF u

(***************************************************************************)
(* The first newline behind the n-th one is the next; if there is none, n  *)
(* is their number.                                                        *)
(***************************************************************************)
LEMMA NextMark ==
  ASSUME NEW t \in Seq(Typeable), NEW n \in Nat, Marked(t, n), NEW i \in NewlinesOf(t),
         i > At(t, n), \A j \in NewlinesOf(t) : j > At(t, n) => j >= i
  PROVE  At(t, n + 1) = i /\ Marked(t, n + 1)
<1>. DEFINE s == At(t, n)
<1>1. s \in 0..Len(t) /\ Rank(t, s) = n
  BY MarkedPlace
<1>. HIDE DEF s
<1>2. \A j \in NewlinesOf(t) : j \in Nat
  BY NewlinesFinite
<1>3. i > s /\ \A j \in NewlinesOf(t) : j > s => j >= i
  BY DEF s
<1>4. Upto(t, i) = Upto(t, s) \cup {i} /\ i \notin Upto(t, s)
  BY <1>1, <1>2, <1>3 DEF Upto
<1>5. Cardinality(Upto(t, s) \cup {i}) = Cardinality(Upto(t, s)) + 1
  BY <1>4, NewlinesFinite, FS_AddElement
<1>6. Rank(t, i) = n + 1
  BY <1>1, <1>4, <1>5 DEF Rank
<1>7. QED  BY <1>6, FoundByRank

LEMMA LastMark ==
  ASSUME NEW t \in Seq(Typeable), NEW n \in Nat, Marked(t, n),
         \A j \in NewlinesOf(t) : j <= At(t, n)
  PROVE  Cardinality(NewlinesOf(t)) = n
<1>1. Rank(t, At(t, n)) = n
  BY MarkedPlace
<1>2. Upto(t, At(t, n)) = NewlinesOf(t)
  BY DEF Upto
<1>3. QED  BY <1>1, <1>2 DEF Rank-----------------------------------------------------------------------------
(***************************************************************************)
(* While the input is Safe the buffer is a window on the text: it holds    *)
(* what was typed behind the newline of the last line handled.  Behind cur *)
(* there is no newline to be taken for a typed one: a buffer never more    *)
(* than half full is zero there, since a shift brings only zeros back, and *)
(* one that is read line by line holds a newline in its last byte at most. *)
(***************************************************************************)
Handled == At(typed, Len(lines))

WindowInv ==
  /\ \A k \in 0..Len(lines) : Marked(typed, k)
  /\ cur = Len(typed) - Handled
  /\ \A i \in 0..(cur - 1) : buf[i] = typed[Handled + i + 1]
  /\ \A k \in 1..Len(lines) :
       lines[k] = SubSeq(typed, At(typed, k - 1) + 1, At(typed, k) - 1)
  /\ cur <= peak
  /\ singly => \A i \in 0..Size : buf[i] = NL => i = cur - 1
  /\ 2 * peak <= Size + 1 => \A i \in cur..Size : buf[i] = NUL

LongInv ==
  exited => Len(typed) - At(typed, Cardinality(NewlinesOf(typed))) >= Size - 1

TextInv == Safe => WindowInv /\ LongInv

LEMMA SafeBefore == IInv /\ [Next]_vars /\ Safe' => Safe
<1>. SUFFICES ASSUME IInv, [Next]_vars, Safe' PROVE Safe
  OBVIOUS
<1>1. peak <= peak' /\ (singly' => singly)
  <2>1. peak \in Nat /\ cur \in Nat /\ singly \in BOOLEAN
    BY InputAssumption DEF IInv, TypeOK
  <2>2. CASE \E bs \in Reads : Read(bs)
    <3>1. PICK bs \in Reads : Read(bs)
      BY <2>2
    <3>2. cur' \in Nat
      BY <3>1, ReadOK, InputAssumption DEF IInv, TypeOK
    <3>3. QED  BY <2>1, <3>1, <3>2 DEF Read
  <2>3. CASE UNCHANGED <<peak, singly>>
    BY <2>1, <2>3
  <2>4. QED  BY <2>2, <2>3 DEF Next, HandleLine, GiveUp, vars
<1>2. peak \in Nat /\ peak' \in Nat /\ Size \in Nat
  BY NextOK, InputAssumption DEF IInv, TypeOK
<1>3. 2 * peak' <= Size + 1 => 2 * peak <= Size + 1
  <2>1. peak <= peak'
    BY <1>1, Zenon
  <2>. DEFINE a == peak
              b == peak'
  <2>2. a \in Nat /\ b \in Nat /\ a <= b
    BY <1>2, <2>1
  <2>. HIDE DEF a, b
  <2>3. 2 * b <= Size + 1 => 2 * a <= Size + 1
    BY <1>2, <2>2
  <2>4. QED  BY <2>3 DEF a, b
<1>4. QED  BY <1>1, <1>3, Zenon DEF Safe

(***************************************************************************)
(* When strchr finds nothing, every line typed has been handled.           *)
(***************************************************************************)
LEMMA FirstNewline ==
  ASSUME IInv, NEW r \in 0..Size, buf[r] = NL, \A i \in 0..(r - 1) : buf[i] # NUL
  PROVE  Strchr(buf) # {}
<1>. DEFINE S == {i \in 0..Size : buf[i] = NL}
<1>1. S \subseteq Nat /\ r \in S
  BY InputAssumption
<1>2. PICK x \in S : \A y \in S : x <= y
  <2>. HIDE DEF S
  <2>. QED  BY <1>1, LeastElement
<1>3. x \in 0..Size /\ buf[x] = NL /\ x <= r
  BY <1>1, <1>2
<1>4. ASSUME NEW i \in 0..(x - 1) PROVE buf[i] \notin {NL, NUL}
  <2>1. i \in 0..Size /\ i < x /\ i \in 0..(r - 1)
    BY <1>3, InputAssumption
  <2>2. i \in S => x <= i
    BY <1>2
  <2>3. QED  BY <1>3, <2>1, <2>2
<1>5. QED  BY <1>3, <1>4 DEF Strchr

LEMMA WindowFacts ==
  ASSUME IInv, WindowInv
  PROVE  /\ typed \in Seq(Typeable) /\ lines \in Seq(Seq(Chars)) /\ Len(lines) \in Nat
         /\ Handled \in 0..Len(typed) /\ Marked(typed, Len(lines))
         /\ cur \in 0..Size /\ NL # NUL /\ NUL \notin Typeable
         /\ \A i \in 0..(cur - 1) : buf[i] # NUL
<1>1. /\ typed \in Seq(Typeable) /\ lines \in Seq(Seq(Chars)) /\ Len(lines) \in Nat
      /\ NL # NUL /\ NUL \notin Typeable
  BY InputAssumption DEF IInv, TypeOK, Typeable
<1>2. Len(lines) \in 0..Len(lines)
  BY <1>1
<1>3. Marked(typed, Len(lines))
  BY <1>2 DEF WindowInv
<1>4. Handled \in 0..Len(typed)
  BY <1>1, <1>3, MarkedPlace DEF Handled
<1>5. cur \in 0..Size
  BY InputAssumption DEF WindowInv, IInv, TypeOK
<1>6. ASSUME NEW i \in 0..(cur - 1) PROVE buf[i] # NUL
  <2>1. Handled + i + 1 \in 1..Len(typed)
    BY <1>1, <1>4, <1>5 DEF WindowInv
  <2>2. typed[Handled + i + 1] \in Typeable
    BY <1>1, <2>1
  <2>3. QED  BY <1>1, <2>2 DEF WindowInv
<1>7. QED  BY <1>1, <1>3, <1>4, <1>5, <1>6

LEMMA AllHandled ==
  ASSUME IInv, WindowInv, Strchr(buf) = {}
  PROVE  Cardinality(NewlinesOf(typed)) = Len(lines)
<1>1. ASSUME NEW j \in NewlinesOf(typed), j > Handled PROVE FALSE
  <2>1. j \in 1..Len(typed) /\ typed[j] = NL
    BY WindowFacts, NewlinesFinite DEF NewlinesOf
  <2>. DEFINE r == j - Handled - 1
  <2>2. r \in 0..(cur - 1) /\ r \in 0..Size /\ Handled + r + 1 = j
    <3>1. typed \in Seq(Typeable) /\ Handled \in 0..Len(typed) /\ cur \in 0..Size
      BY WindowFacts
    <3>2. cur = Len(typed) - Handled /\ Len(typed) \in Nat /\ Size \in Nat
      BY <3>1, InputAssumption DEF WindowInv
    <3>. HIDE DEF Handled
    <3>3. QED  BY <1>1, <2>1, <3>1, <3>2
  <2>3. buf[r] = NL
    BY <2>1, <2>2 DEF WindowInv
  <2>4. \A i \in 0..(r - 1) : buf[i] # NUL
    BY <2>2, WindowFacts
  <2>. HIDE DEF r
  <2>5. QED  BY <2>2, <2>3, <2>4, FirstNewline
<1>2. \A j \in NewlinesOf(typed) : j <= Handled
  <2>1. \A j \in NewlinesOf(typed) : j \in Nat
    BY WindowFacts, NewlinesFinite
  <2>2. Handled \in Nat
    BY WindowFacts
  <2>3. QED  BY <1>1, <2>1, <2>2
<1>3. QED  BY <1>2, WindowFacts, LastMark DEF Handled
(***************************************************************************)
(* A part of a text is a part of what comes of it.                         *)
(***************************************************************************)
LEMMA PartIs ==
  ASSUME NEW t \in Seq(Typeable), NEW a \in Nat, NEW n \in Nat, a + n <= Len(t)
  PROVE  SubSeq(t, a + 1, a + n) = [i \in 1..n |-> t[a + i]]
<1>1. SubSeq(t, a + 1, a + n) = [i \in 1..((a + n) - (a + 1) + 1) |-> t[(a + 1) + i - 1]]
  BY DEF SubSeq
<1>2. (a + n) - (a + 1) + 1 = n /\ \A i \in 1..n : (a + 1) + i - 1 = a + i
  OBVIOUS
<1>3. QED  BY <1>1, <1>2

LEMMA PartStays ==
  ASSUME NEW t \in Seq(Typeable), NEW bs \in Seq(Typeable), NEW a \in 0..Len(t), NEW b \in 0..Len(t)
  PROVE  SubSeq(t \o bs, a + 1, b - 1) = SubSeq(t, a + 1, b - 1)
<1>. DEFINE u == t \o bs
<1>1. Len(t) \in Nat /\ \A i \in 1..Len(t) : u[i] = t[i]
  OBVIOUS
<1>. HIDE DEF u
<1>2. SubSeq(u, a + 1, b - 1) = [i \in 1..((b - 1) - (a + 1) + 1) |-> u[(a + 1) + i - 1]]
  BY <1>1 DEF SubSeq
<1>3. SubSeq(t, a + 1, b - 1) = [i \in 1..((b - 1) - (a + 1) + 1) |-> t[(a + 1) + i - 1]]
  BY <1>1 DEF SubSeq
<1>4. \A i \in 1..((b - 1) - (a + 1) + 1) : (a + 1) + i - 1 \in 1..Len(t)
  BY <1>1
<1>5. SubSeq(u, a + 1, b - 1) = SubSeq(t, a + 1, b - 1)
  BY <1>1, <1>2, <1>3, <1>4
<1>6. QED  BY <1>5 DEF u

(***************************************************************************)
(* A read goes to the end of the window.                                   *)
(***************************************************************************)
LEMMA ReadWindow ==
  ASSUME IInv, WindowInv, NEW bs \in Reads, Read(bs)
  PROVE  WindowInv' /\ Handled' = Handled
<1>1. bs \in Seq(Typeable) /\ Len(bs) \in Nat \ {0} /\ DOMAIN bs = 1..Len(bs)
  BY DEF Reads
<1>2. /\ typed \in Seq(Typeable) /\ Len(lines) \in Nat /\ Handled \in 0..Len(typed)
      /\ cur \in 0..Size /\ NL # NUL /\ NUL \notin Typeable
      /\ Len(typed) \in Nat /\ Size \in Nat
  BY WindowFacts, InputAssumption
<1>3. /\ typed' = typed \o bs /\ lines' = lines /\ cur' = cur + Len(bs) /\ cur + Len(bs) <= Size
      /\ \A i \in 0..Size : buf'[i] = IF cur <= i /\ i < cur + Len(bs) THEN bs[i - cur + 1]
                                      ELSE buf[i]
  <2>1. /\ typed' = typed \o bs /\ lines' = lines /\ cur' = cur + Len(bs) /\ Len(bs) <= Size - cur
        /\ buf' = [i \in 0..Size |-> IF cur <= i /\ i < cur + Len(bs) THEN bs[i - cur + 1]
                                     ELSE buf[i]]
    BY DEF Read, Room
  <2>2. QED  BY <1>1, <1>2, <2>1
<1>4. \A k \in 0..Len(lines) : Marked(typed', k) /\ At(typed', k) = At(typed, k)
                               /\ At(typed, k) \in 0..Len(typed)
  <2>. SUFFICES ASSUME NEW k \in 0..Len(lines)
                PROVE  Marked(typed', k) /\ At(typed', k) = At(typed, k)
                       /\ At(typed, k) \in 0..Len(typed)
    OBVIOUS
  <2>1. k \in Nat /\ Marked(typed, k)
    BY DEF WindowInv
  <2>2. QED  BY <1>1, <1>2, <1>3, <2>1, MarkedStays, MarkedPlace
<1>5. Handled' = Handled
  BY <1>2, <1>3, <1>4 DEF Handled
<1>6. Len(typed') = Len(typed) + Len(bs)
  BY <1>1, <1>2, <1>3
<1>7. /\ \A i \in 1..Len(typed) : typed'[i] = typed[i]
      /\ \A i \in 1..Len(bs) : typed'[Len(typed) + i] = bs[i]
  BY <1>1, <1>2, <1>3
<1>. HIDE DEF Handled
<1>8. cur = Len(typed) - Handled /\ cur' = Len(typed') - Handled'
  BY <1>1, <1>2, <1>3, <1>5, <1>6 DEF WindowInv
<1>9. \A i \in 0..(cur' - 1) : buf'[i] = typed'[Handled' + i + 1]
  <2>. SUFFICES ASSUME NEW i \in 0..(cur' - 1) PROVE buf'[i] = typed'[Handled + i + 1]
    BY <1>5
  <2>1. CASE i < cur
    <3>1. buf'[i] = buf[i] /\ buf[i] = typed[Handled + i + 1]
      BY <1>1, <1>2, <1>3, <2>1 DEF WindowInv
    <3>2. Handled + i + 1 \in 1..Len(typed)
      BY <1>2, <1>8, <2>1
    <3>3. QED  BY <1>7, <3>1, <3>2
  <2>2. CASE i >= cur
    <3>1. i \in 0..Size /\ i < cur + Len(bs)
      BY <1>1, <1>2, <1>3
    <3>2. buf'[i] = bs[i - cur + 1] /\ i - cur + 1 \in 1..Len(bs)
      <4>1. buf'[i] = bs[i - cur + 1]
        BY <1>3, <2>2, <3>1
      <4>2. QED  BY <1>1, <1>2, <2>2, <3>1, <4>1
    <3>3. Handled + i + 1 = Len(typed) + (i - cur + 1)
      BY <1>2, <1>8
    <3>4. QED  BY <1>7, <3>2, <3>3
  <2>3. i \in Nat /\ cur \in Nat
    BY <1>2
  <2>4. i < cur \/ i >= cur
    BY <2>3
  <2>5. QED  BY <2>1, <2>2, <2>4
<1>10. ASSUME NEW k \in 1..Len(lines)
       PROVE  lines[k] = SubSeq(typed', At(typed', k - 1) + 1, At(typed', k) - 1)
  <2>1. k - 1 \in 0..Len(lines) /\ k \in 0..Len(lines)
    BY <1>2
  <2>. DEFINE a == At(typed, k - 1)
              b == At(typed, k)
  <2>2. a \in 0..Len(typed) /\ b \in 0..Len(typed) /\ a = At(typed', k - 1) /\ b = At(typed', k)
    BY <1>4, <2>1
  <2>3. lines[k] = SubSeq(typed, a + 1, b - 1)
    BY DEF WindowInv
  <2>. HIDE DEF a, b
  <2>4. SubSeq(typed', a + 1, b - 1) = SubSeq(typed, a + 1, b - 1)
    <3>1. SubSeq(typed \o bs, a + 1, b - 1) = SubSeq(typed, a + 1, b - 1)
      BY <1>1, <1>2, <2>2, PartStays, ZenonT(30)
    <3>2. QED  BY <1>3, <3>1
  <2>5. QED  BY <2>2, <2>3, <2>4
<1>11. cur' <= peak' /\ peak <= peak' /\ peak \in Nat /\ peak' \in Nat /\ cur' \in Nat
  <2>1. peak \in Nat /\ cur' \in Nat
    BY <1>1, <1>2, <1>3, InputAssumption DEF IInv, TypeOK
  <2>2. peak' = IF cur' > peak THEN cur' ELSE peak
    BY DEF Read
  <2>3. QED  BY <2>1, <2>2
<1>12. ASSUME singly', NEW i \in 0..Size, buf'[i] = NL PROVE i = cur' - 1
  <2>1. singly /\ \A j \in 1..(Len(bs) - 1) : bs[j] # NL
    BY <1>12, Zenon DEF Read
  <2>2. ASSUME buf[i] = NL PROVE FALSE
    <3>1. i = cur - 1
      BY <2>1, <2>2 DEF WindowInv
    <3>2. \A j \in 0..(i - 1) : buf[j] # NUL
      BY <1>2, <3>1, WindowFacts
    <3>3. Strchr(buf) # {}
      BY <2>2, <3>2, FirstNewline
    <3>4. QED  BY <3>3 DEF Read
  <2>3. cur <= i /\ i < cur + Len(bs) /\ bs[i - cur + 1] = NL
    BY <1>3, <1>12, <2>2
  <2>4. i - cur + 1 \in 1..Len(bs)
    BY <1>1, <1>2, <2>3
  <2>5. i - cur + 1 = Len(bs)
    <3>1. i - cur + 1 \notin 1..(Len(bs) - 1)
      BY <2>1, <2>3
    <3>2. QED  BY <1>1, <2>4, <3>1
  <2>6. cur \in Nat /\ Len(bs) \in Nat /\ i \in Nat
    BY <1>1, <1>2
  <2>7. cur' = cur + Len(bs)
    BY <1>3
  <2>8. QED  BY <2>5, <2>6, <2>7
<1>13. ASSUME 2 * peak' <= Size + 1, NEW i \in cur'..Size PROVE buf'[i] = NUL
  <2>1. 2 * peak <= Size + 1
    <3>1. peak <= peak' /\ peak \in Nat /\ peak' \in Nat /\ Size \in Nat
      BY <1>2, <1>11
    <3>2. \A x, y, z \in Nat : x <= y /\ 2 * y <= z => 2 * x <= z
      OBVIOUS
    <3>3. Size + 1 \in Nat
      BY <3>1
    <3>4. 2 * peak' <= Size + 1
      BY <1>13, Zenon
    <3>5. QED  BY <3>1, <3>2, <3>3, <3>4, Zenon
  <2>2. i \in cur..Size /\ ~(i < cur + Len(bs)) /\ i \in 0..Size
    BY <1>1, <1>2, <1>3
  <2>3. buf'[i] = buf[i]
    BY <1>3, <2>2
  <2>4. QED  BY <2>1, <2>2, <2>3 DEF WindowInv
<1>14. QED
  BY <1>3, <1>4, <1>5, <1>8, <1>9, <1>10, <1>11, <1>12, <1>13 DEF WindowInv, Handled
(***************************************************************************)
(* A line handled is the next line typed, and the window moves behind it.  *)
(***************************************************************************)
LEMMA LineInWindow ==
  ASSUME IInv, WindowInv, Safe, NEW r \in Strchr(buf)
  PROVE  /\ r \in 0..(cur - 1)
         /\ At(typed, Len(lines) + 1) = Handled + r + 1
         /\ Marked(typed, Len(lines) + 1)
         /\ [i \in 1..r |-> buf[i - 1]] = SubSeq(typed, Handled + 1, Handled + r)
<1>1. /\ typed \in Seq(Typeable) /\ Len(lines) \in Nat /\ Handled \in 0..Len(typed)
      /\ Marked(typed, Len(lines)) /\ cur \in 0..Size /\ NL # NUL /\ Len(typed) \in Nat
      /\ cur = Len(typed) - Handled /\ Size \in Nat
  BY WindowFacts, InputAssumption DEF WindowInv
<1>2. r \in 0..Size /\ buf[r] = NL /\ \A i \in 0..(r - 1) : buf[i] \notin {NL, NUL}
  BY StrchrFound
<1>. HIDE DEF Handled
<1>3. r \in 0..(cur - 1)
  <2>1. singly => r = cur - 1
    BY <1>2 DEF WindowInv
  <2>2. singly => r \in 0..(cur - 1)
    BY <1>1, <1>2, <2>1
  <2>3. 2 * peak <= Size + 1 => r \notin cur..Size
    BY <1>1, <1>2 DEF WindowInv
  <2>4. r \notin cur..Size => r \in 0..(cur - 1)
    BY <1>1, <1>2
  <2>5. QED  BY <2>2, <2>3, <2>4, Zenon DEF Safe
<1>. DEFINE s == Handled + r + 1
<1>4. s \in 1..Len(typed) /\ s > Handled
  BY <1>1, <1>3
<1>5. \A i \in 0..r : typed[Handled + i + 1] = buf[i]
  BY <1>1, <1>3 DEF WindowInv
<1>6. s \in NewlinesOf(typed)
  BY <1>1, <1>2, <1>3, <1>4, <1>5 DEF NewlinesOf
<1>7. ASSUME NEW j \in NewlinesOf(typed), j > Handled, j < s PROVE FALSE
  <2>1. j \in Nat /\ typed[j] = NL
    BY <1>1, NewlinesFinite DEF NewlinesOf
  <2>. DEFINE i == j - Handled - 1
  <2>2. i \in 0..(r - 1) /\ i \in 0..r /\ Handled + i + 1 = j
    BY <1>1, <1>3, <1>7, <2>1
  <2>. HIDE DEF i
  <2>3. buf[i] = NL
    BY <1>5, <2>1, <2>2
  <2>4. QED  BY <1>2, <2>2, <2>3
<1>8. \A j \in NewlinesOf(typed) : j > Handled => j >= s
  <2>1. \A j \in NewlinesOf(typed) : j \in Nat
    BY <1>1, NewlinesFinite
  <2>2. s \in Nat
    BY <1>4
  <2>. HIDE DEF s
  <2>3. QED  BY <1>7, <2>1, <2>2
<1>9. At(typed, Len(lines) + 1) = s /\ Marked(typed, Len(lines) + 1)
  <2>. HIDE DEF s
  <2>1. Handled = At(typed, Len(lines))
    BY DEF Handled
  <2>2. QED  BY <1>1, <1>4, <1>6, <1>8, <2>1, NextMark
<1>10. [i \in 1..r |-> buf[i - 1]] = SubSeq(typed, Handled + 1, Handled + r)
  <2>1. Handled \in Nat /\ r \in Nat /\ Handled + r <= Len(typed)
    BY <1>1, <1>3
  <2>2. SubSeq(typed, Handled + 1, Handled + r) = [i \in 1..r |-> typed[Handled + i]]
    BY <1>1, <2>1, PartIs
  <2>3. \A i \in 1..r : typed[Handled + i] = buf[i - 1]
    <3>. SUFFICES ASSUME NEW i \in 1..r PROVE typed[Handled + i] = buf[i - 1]
      OBVIOUS
    <3>1. i - 1 \in 0..r /\ Handled + (i - 1) + 1 = Handled + i
      BY <1>1, <1>3
    <3>2. QED  BY <1>5, <3>1
  <2>4. QED  BY <2>2, <2>3
<1>11. QED  BY <1>3, <1>9, <1>10

(***************************************************************************)
(* What the shift does to a buffer.                                        *)
(***************************************************************************)
LEMMA ShiftBytes ==
  ASSUME NEW b \in [0..Size -> Typeable \cup {NUL}], NEW r \in 0..Size
  PROVE  \A i \in 0..Size :
           \/ i < Size - r /\ i + r + 1 \in 0..Size /\ Shift(b, r)[i] = b[i + r + 1]
           \/ i >= Size - r /\ Shift(b, r)[i] = IF i = r THEN NUL ELSE b[i]
<1>. SUFFICES ASSUME NEW i \in 0..Size
              PROVE  \/ i < Size - r /\ i + r + 1 \in 0..Size /\ Shift(b, r)[i] = b[i + r + 1]
                     \/ i >= Size - r /\ Shift(b, r)[i] = IF i = r THEN NUL ELSE b[i]
  OBVIOUS
<1>. DEFINE z == [b EXCEPT ![r] = NUL]
<1>1. \A j \in 0..Size : z[j] = IF j = r THEN NUL ELSE b[j]
  OBVIOUS
<1>2. Shift(b, r)[i] = IF i < Size - r THEN z[i + r + 1] ELSE z[i]
  BY DEF Shift
<1>. HIDE DEF z
<1>3. Size \in Nat
  BY InputAssumption
<1>4. CASE i < Size - r
  <2>1. i + r + 1 \in 0..Size /\ i + r + 1 # r
    BY <1>3, <1>4
  <2>2. QED  BY <1>1, <1>2, <1>4, <2>1
<1>5. CASE ~(i < Size - r)
  <2>1. i >= Size - r
    BY <1>3, <1>5
  <2>2. QED  BY <1>1, <1>2, <1>5, <2>1
<1>6. QED  BY <1>4, <1>5
(***************************************************************************)
(* Two facts of arithmetic and sequences.                                  *)
(***************************************************************************)
LEMMA Appended ==
  ASSUME NEW S, NEW l \in Seq(S), NEW e \in S
  PROVE  /\ Len(Append(l, e)) = Len(l) + 1
         /\ \A k \in 1..(Len(l) + 1) : Append(l, e)[k] = IF k = Len(l) + 1 THEN e ELSE l[k]
  OBVIOUS

LEMMA NoWrap ==
  ASSUME NEW w \in Nat, NEW a \in Nat, a < w
  PROVE  a % w = a
  OBVIOUS

(***************************************************************************)
(* handle_line and the shift behind it.                                    *)
(***************************************************************************)
LEMMA HandleLineWindow ==
  ASSUME IInv, WindowInv, Safe, HandleLine
  PROVE  WindowInv'
<1>1. PICK r \in Strchr(buf) :
        /\ lines' = Append(lines, [i \in 1..r |-> buf[i - 1]])
        /\ buf' = Shift(buf, r)
        /\ cur' = (cur - (r + 1)) % Word
  BY DEF HandleLine
<1>. DEFINE n == Len(lines)
            s == Handled + r + 1
            line == [i \in 1..r |-> buf[i - 1]]
<1>2. /\ typed \in Seq(Typeable) /\ lines \in Seq(Seq(Chars)) /\ n \in Nat
      /\ Handled \in 0..Len(typed) /\ cur \in 0..Size /\ NL # NUL /\ Len(typed) \in Nat
      /\ Size \in Nat /\ Word \in Nat /\ Word > Size + 1
      /\ cur = Len(typed) - Handled /\ Handled = At(typed, n)
  BY WindowFacts, InputAssumption DEF WindowInv, Handled
<1>3. /\ r \in 0..(cur - 1) /\ At(typed, n + 1) = s /\ Marked(typed, n + 1)
      /\ line = SubSeq(typed, Handled + 1, Handled + r)
  BY LineInWindow
<1>4. UNCHANGED <<typed, peak, singly>>
  BY DEF HandleLine
<1>5. /\ r \in Nat /\ cur \in Nat /\ Size \in Nat /\ Handled \in Nat /\ n \in Nat
      /\ r < cur /\ cur <= Size /\ s = Handled + r + 1 /\ cur = Len(typed) - Handled
      /\ Len(typed) \in Nat /\ cur' = cur - (r + 1)
  <2>1. /\ r \in Nat /\ cur \in Nat /\ Size \in Nat /\ Handled \in Nat /\ n \in Nat
        /\ r < cur /\ cur <= Size /\ cur = Len(typed) - Handled /\ Len(typed) \in Nat
    BY <1>2, <1>3
  <2>2. (cur - (r + 1)) % Word = cur - (r + 1)
    <3>. DEFINE a == cur - (r + 1)
    <3>1. a \in Nat /\ a < Word
      BY <1>2, <2>1
    <3>. HIDE DEF a
    <3>2. a % Word = a
      BY <1>2, <3>1, NoWrap
    <3>3. QED  BY <3>2 DEF a
  <2>3. QED  BY <1>1, <2>1, <2>2
<1>. HIDE DEF line, Handled, s
<1>6. Len(lines') = n + 1 /\ \A k \in 1..(n + 1) : lines'[k] = IF k = n + 1 THEN line ELSE lines[k]
  <2>1. lines' = Append(lines, line)
    BY <1>1 DEF line
  <2>2. line \in Seq(Chars)
    <3>1. \A i \in 1..r : buf[i - 1] \in Chars
      <4>. SUFFICES ASSUME NEW i \in 1..r PROVE buf[i - 1] \in Chars
        OBVIOUS
      <4>1. i - 1 \in 0..(r - 1) /\ i - 1 \in 0..Size
        BY <1>5
      <4>2. buf[i - 1] \notin {NL, NUL} /\ buf[i - 1] \in Typeable \cup {NUL}
        BY <1>1, <4>1, StrchrFound DEF IInv, TypeOK
      <4>3. QED  BY <4>2 DEF Typeable
    <3>2. r \in Nat /\ line = [i \in 1..r |-> buf[i - 1]]
      BY <1>5 DEF line
    <3>3. QED  BY <3>1, <3>2
  <2>3. QED  BY <1>2, <2>1, <2>2, Appended DEF n
<1>. HIDE DEF n
<1>7. Handled' = s
  BY <1>3, <1>4, <1>6 DEF Handled
<1>8. \A k \in 0..Len(lines') : Marked(typed', k)
  <2>. SUFFICES ASSUME NEW k \in 0..(n + 1) PROVE Marked(typed, k)
    BY <1>4, <1>6
  <2>1. k \in 0..n \/ k = n + 1
    BY <1>5
  <2>2. QED  BY <1>3, <2>1 DEF WindowInv, n
<1>9. cur' = Len(typed') - Handled' /\ cur' <= peak'
  <2>1. peak \in Nat /\ cur <= peak
    BY InputAssumption DEF IInv, TypeOK, WindowInv
  <2>2. cur' = Len(typed) - s
    BY <1>5
  <2>3. cur' <= peak
    BY <1>5, <2>1
  <2>4. QED  BY <1>4, <1>7, <2>2, <2>3
<1>10. \A i \in 0..Size :
         \/ i < Size - r /\ i + r + 1 \in 0..Size /\ buf'[i] = buf[i + r + 1]
         \/ i >= Size - r /\ buf'[i] = IF i = r THEN NUL ELSE buf[i]
  <2>1. r \in 0..Size /\ buf \in [0..Size -> Typeable \cup {NUL}]
    BY <1>5 DEF IInv, TypeOK
  <2>2. QED  BY <1>1, <2>1, ShiftBytes
<1>11. ASSUME NEW i \in 0..(cur' - 1) PROVE buf'[i] = typed'[Handled' + i + 1]
  <2>1. i \in 0..Size /\ i < Size - r /\ i + r + 1 \in 0..(cur - 1)
    BY <1>5
  <2>2. buf'[i] = buf[i + r + 1]
    BY <1>5, <1>10, <2>1
  <2>3. buf[i + r + 1] = typed[Handled + (i + r + 1) + 1]
    BY <2>1 DEF WindowInv
  <2>4. Handled + (i + r + 1) + 1 = s + i + 1
    BY <1>5
  <2>5. QED  BY <1>4, <1>7, <2>2, <2>3, <2>4
<1>12. ASSUME NEW k \in 1..Len(lines')
       PROVE  lines'[k] = SubSeq(typed', At(typed', k - 1) + 1, At(typed', k) - 1)
  <2>1. CASE k = n + 1
    <3>1. k - 1 = n /\ s - 1 = Handled + r
      BY <1>5, <2>1
    <3>2. lines'[k] = SubSeq(typed, Handled + 1, Handled + r)
      BY <1>3, <1>6, <2>1
    <3>3. At(typed, k) = s /\ At(typed, k - 1) = Handled
      BY <1>2, <1>3, <2>1, <3>1
    <3>4. QED  BY <1>4, <3>1, <3>2, <3>3
  <2>2. CASE k # n + 1
    <3>1. k \in 1..n /\ lines'[k] = lines[k]
      BY <1>2, <1>6, <2>2
    <3>2. QED  BY <1>4, <3>1 DEF WindowInv, n
  <2>3. QED  BY <2>1, <2>2
<1>13. ASSUME singly', NEW i \in 0..Size PROVE buf'[i] # NL
  <2>1. \A j \in 0..Size : buf[j] = NL => j = cur - 1
    BY <1>4, <1>13, Zenon DEF WindowInv
  <2>2. r \in 0..Size /\ buf[r] = NL
    BY <1>1, StrchrFound
  <2>3. r = cur - 1
    BY <2>1, <2>2
  <2>4. CASE i < Size - r /\ i + r + 1 \in 0..Size /\ buf'[i] = buf[i + r + 1]
    <3>1. i + r + 1 # cur - 1
      BY <1>5, <2>3
    <3>2. QED  BY <2>1, <2>4, <3>1
  <2>5. CASE buf'[i] = IF i = r THEN NUL ELSE buf[i]
    BY <1>2, <2>1, <2>3, <2>5
  <2>6. QED  BY <1>10, <2>4, <2>5
<1>14. ASSUME 2 * peak' <= Size + 1, NEW i \in cur'..Size PROVE buf'[i] = NUL
  <2>1. \A j \in cur..Size : buf[j] = NUL
    BY <1>4, <1>14 DEF WindowInv
  <2>2. peak \in Nat /\ cur <= peak /\ 2 * peak <= Size + 1
    BY <1>4, <1>14, InputAssumption DEF IInv, TypeOK, WindowInv
  <2>3. i \in 0..Size /\ i >= cur - (r + 1)
    BY <1>5
  <2>4. CASE i < Size - r /\ i + r + 1 \in 0..Size /\ buf'[i] = buf[i + r + 1]
    <3>1. i + r + 1 \in cur..Size
      BY <1>5, <2>3, <2>4
    <3>2. QED  BY <2>1, <2>4, <3>1
  <2>5. CASE i >= Size - r /\ buf'[i] = IF i = r THEN NUL ELSE buf[i]
    <3>1. r + 1 <= cur /\ cur + cur <= Size + 1
      BY <1>5, <2>2
    <3>2. i \in cur..Size
      BY <1>5, <2>3, <2>5, <3>1
    <3>3. QED  BY <2>1, <2>5, <3>2
  <2>6. QED  BY <1>10, <2>3, <2>4, <2>5
<1>15. QED
  BY <1>8, <1>9, <1>11, <1>12, <1>13, <1>14 DEF WindowInv, Handled
LEMMA TextStep == IInv /\ TextInv /\ [Next]_vars => TextInv'
<1>. SUFFICES ASSUME IInv, TextInv, [Next]_vars, Safe' PROVE WindowInv' /\ LongInv'
  BY DEF TextInv
<1>1. Safe /\ WindowInv /\ LongInv
  BY SafeBefore DEF TextInv
<1>2. ASSUME NEW bs \in Reads, Read(bs) PROVE WindowInv' /\ LongInv'
  <2>1. ~exited'
    BY <1>2 DEF Read
  <2>2. QED  BY <1>1, <1>2, <2>1, ReadWindow DEF LongInv
<1>3. CASE HandleLine
  <2>1. ~exited'
    BY <1>3 DEF HandleLine
  <2>2. QED  BY <1>1, <1>3, <2>1, HandleLineWindow DEF LongInv
<1>4. CASE GiveUp
  <2>1. UNCHANGED <<buf, cur, lines, typed, peak, singly>> /\ Strchr(buf) = {} /\ cur >= Size - 1
    BY <1>4 DEF GiveUp, BufferFull
  <2>2. Cardinality(NewlinesOf(typed)) = Len(lines)
    BY <1>1, <2>1, AllHandled
  <2>3. Len(typed) - At(typed, Cardinality(NewlinesOf(typed))) = cur
    BY <1>1, <2>2 DEF WindowInv, Handled
  <2>4. WindowInv'
    BY <1>1, <2>1 DEF WindowInv, Handled
  <2>5. QED  BY <2>1, <2>3, <2>4 DEF LongInv
<1>5. CASE UNCHANGED vars
  BY <1>1, <1>5 DEF vars, WindowInv, LongInv, Handled
<1>6. QED  BY <1>2, <1>3, <1>4, <1>5 DEF Next

LEMMA TextInit == Init => TextInv
<1>. SUFFICES ASSUME Init PROVE WindowInv /\ LongInv
  BY DEF TextInv
<1>1. Len(typed) = 0 /\ Len(lines) = 0 /\ cur = 0 /\ peak = 0 /\ ~exited
  BY DEF Init
<1>2. Handled = 0 /\ \A k \in 0..Len(lines) : Marked(typed, k)
  BY <1>1 DEF Handled, At, Marked
<1>3. \A i \in 0..Size : buf[i] = NUL /\ buf[i] # NL
  BY InputAssumption DEF Init
<1>4. QED  BY <1>1, <1>2, <1>3 DEF WindowInv, LongInv

THEOREM TextInvariance == Spec => []TextInv
BY TextInit, TextStep, InputInvariance, PTL DEF Spec

(***************************************************************************)
(* The newlines as the properties count them.                              *)
(***************************************************************************)
LEMMA NewlinesAre ==
  /\ Newlines = NewlinesOf(typed)
  /\ \A k : NewlineAt(k) = At(typed, k)
BY DEF Newlines, NewlinesOf, NewlineAt, At, Rank, Upto

(***************************************************************************)
(* process_user_input hands out the lines typed, in order and in full,     *)
(* for any buffer size: when one read brings no more than one line, or     *)
(* the buffer has never been more than half full.                          *)
(***************************************************************************)
THEOREM LinesAreTyped == Spec => []LinesRight
<1>1. IInv /\ TextInv => LinesRight
  <2>. SUFFICES ASSUME IInv, WindowInv PROVE
          /\ Len(lines) <= Cardinality(Newlines)
          /\ \A k \in DOMAIN lines : lines[k] = LineTyped(k)
          /\ Strchr(buf) = {} => Len(lines) = Cardinality(Newlines)
    BY DEF LinesRight, TextInv
  <2>1. Len(lines) = Rank(typed, Handled)
    BY WindowFacts, MarkedPlace DEF Handled
  <2>2. Len(lines) <= Cardinality(Newlines)
    BY <2>1, WindowFacts, NewlinesFinite, NewlinesAre
  <2>3. \A k \in DOMAIN lines : lines[k] = LineTyped(k)
    <3>1. DOMAIN lines = 1..Len(lines)
      BY WindowFacts
    <3>. SUFFICES ASSUME NEW k \in 1..Len(lines) PROVE lines[k] = LineTyped(k)
      BY <3>1
    <3>2. LineTyped(k) = SubSeq(typed, At(typed, k - 1) + 1, At(typed, k) - 1)
      BY NewlinesAre, Zenon DEF LineTyped
    <3>3. QED  BY <3>2 DEF WindowInv
  <2>4. Strchr(buf) = {} => Len(lines) = Cardinality(Newlines)
    BY AllHandled, NewlinesAre
  <2>5. QED  BY <2>2, <2>3, <2>4
<1>2. QED  BY <1>1, InputInvariance, TextInvariance, PTL

(***************************************************************************)
(* And it exits with "line too long" only on a line that fills the buffer. *)
(***************************************************************************)
THEOREM LongLinesOnly == Spec => []GivesUpOnLongLine
<1>1. TextInv => GivesUpOnLongLine
  BY NewlinesAre DEF TextInv, LongInv, GivesUpOnLongLine
<1>2. QED  BY <1>1, TextInvariance, PTL
=============================================================================
