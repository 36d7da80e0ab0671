-------------------------- MODULE RecvBufferProofs --------------------------
(***************************************************************************)
(* Lemmas about recv_data on one buffer, for every chunk size.             *)
(***************************************************************************)
EXTENDS RecvBuffer, WellFoundedInduction, TLAPS

(***************************************************************************)
(* A non-empty set of natural numbers has a least element.                 *)
(***************************************************************************)
LEMMA LeastElement ==
  ASSUME NEW S \in SUBSET Nat, S # {}
  PROVE  \E m \in S : \A k \in S : m <= k
<1>1. IsWellFoundedOn(OpToRel(<, Nat), Nat)
  BY NatLessThanWellFounded
<1>2. \E m \in S : \A k \in S : ~(<<k, m>> \in OpToRel(<, Nat))
  <2>. HIDE <1>1
  <2>. QED  BY <1>1, WFMin, Zenon
<1>3. ASSUME NEW m \in S, NEW k \in S, ~(<<k, m>> \in OpToRel(<, Nat))
      PROVE  m <= k
  <2>1. <<k, m>> \in Nat \X Nat /\ ~(k < m)
    BY <1>3 DEF OpToRel
  <2>2. QED  BY <2>1
<1>4. QED  BY <1>2, <1>3

(***************************************************************************)
(* The search of recv_data for the first index not received ends: it finds *)
(* one in expected..N, and everything before it was received.              *)
(***************************************************************************)
LEMMA FirstGapProperty ==
  ASSUME NEW b \in Buffers
  PROVE  /\ FirstGap(b) \in b.expected..N
         /\ \A j \in Idx : b.expected <= j /\ j < FirstGap(b) => j \in Recved(b)
<1>. DEFINE S == {i \in b.expected..N : i = N \/ (i \in Idx /\ b.chunks[i] = NoData)}
<1>1. b.expected \in 1..N /\ N \in Nat
  BY ProtocolAssumption DEF Buffers
<1>2. N \in S /\ S \in SUBSET Nat
  BY <1>1
<1>3. PICK m \in S : \A k \in S : m <= k
  <2>. HIDE DEF S
  <2>. QED  BY <1>2, LeastElement
<1>4. ASSUME NEW j \in Idx, b.expected <= j, j < m
      PROVE  b.chunks[j] # NoData
  BY <1>1, <1>3, <1>4, j \in b.expected..N DEF Idx
<1>5. m \in GapEnds(b)
  BY <1>3, <1>4 DEF GapEnds
<1>6. FirstGap(b) \in GapEnds(b)
  BY <1>5 DEF FirstGap
<1>7. QED  BY <1>6 DEF GapEnds, Recved

(***************************************************************************)
(* recv_data on the buffer: nothing stored is lost, the packet is now in,  *)
(* and all packets between the old and the new expected were received.     *)
(***************************************************************************)
LEMMA RecvDataFacts ==
  ASSUME NEW b \in Buffers, NEW q \in Seqs, NEW content \in Offsets
  PROVE  /\ RecvData(b, q, content) \in Buffers
         /\ RecvData(b, q, content).socket = b.socket
         /\ RecvData(b, q, content).offset = b.offset
         /\ RecvData(b, q, content).busy = b.busy
         /\ Recved(RecvData(b, q, content)) = Recved(b) \cup {q - 1}
         /\ \A i \in Recved(b) : RecvData(b, q, content).chunks[i] = b.chunks[i]
         /\ \A j \in Idx : b.expected <= j /\ j < RecvData(b, q, content).expected
                             => j \in Recved(RecvData(b, q, content))
<1>. DEFINE s == Store(b, q - 1, content)
            g == FirstGap(s)
<1>1. q - 1 \in Idx /\ content # NoData
  BY ProtocolAssumption, RecvBufferAssumption DEF Idx, Seqs
<1>2. /\ s \in Buffers /\ s.expected = b.expected
      /\ s.socket = b.socket /\ s.offset = b.offset /\ s.busy = b.busy
      /\ Recved(s) = Recved(b) \cup {q - 1}
      /\ \A i \in Recved(b) : s.chunks[i] = b.chunks[i]
  <2>1. CASE b.chunks[q - 1] = NoData
    <3>1. s = [b EXCEPT !.chunks[q - 1] = content]
      BY <2>1 DEF Store
    <3>2. /\ s.chunks = [b.chunks EXCEPT ![q - 1] = content]
          /\ s.expected = b.expected
          /\ s.socket = b.socket /\ s.offset = b.offset /\ s.busy = b.busy
      BY <3>1, <1>1 DEF Buffers
    <3>3. QED  BY <1>1, <2>1, <3>1, <3>2 DEF Buffers, Recved
  <2>2. CASE b.chunks[q - 1] # NoData
    BY <1>1, <2>2 DEF Store, Recved
  <2>3. QED  BY <2>1, <2>2
<1>3. RecvData(b, q, content) = [s EXCEPT !.expected = g]
  BY DEF RecvData
<1>. HIDE DEF s
<1>4. /\ g \in s.expected..N
      /\ \A j \in Idx : s.expected <= j /\ j < g => j \in Recved(s)
  BY <1>2, FirstGapProperty
<1>. HIDE DEF g
<1>5. s.expected \in 1..N /\ N \in Nat \ {0}
  BY <1>2, ProtocolAssumption DEF Buffers
<1>6. g \in 1..N
  BY <1>4, <1>5
<1>7. /\ RecvData(b, q, content) \in Buffers
      /\ RecvData(b, q, content).chunks = s.chunks
      /\ RecvData(b, q, content).expected = g
      /\ RecvData(b, q, content).socket = s.socket
      /\ RecvData(b, q, content).offset = s.offset
      /\ RecvData(b, q, content).busy = s.busy
  BY <1>2, <1>3, <1>6 DEF Buffers
<1>8. Recved(RecvData(b, q, content)) = Recved(s)
  BY <1>7 DEF Recved
<1>9. QED  BY <1>2, <1>4, <1>7, <1>8
=============================================================================
