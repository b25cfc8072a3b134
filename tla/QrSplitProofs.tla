--------------------------- MODULE QrSplitProofs ---------------------------
(* Proofs about QrSplit, for messages and chunk sizes of any length. *)
EXTENDS QrSplit, TLAPS

(***************************************************************************)
(* Rounding up.                                                            *)
(***************************************************************************)
\* Division rounded up is the least number of parts that suffices.
LEMMA CeilBounds ==
  ASSUME NEW a \in Nat \ {0}, NEW b \in Nat \ {0}
  PROVE  /\ Ceil(a, b) \in Nat \ {0}
         /\ Ceil(a, b) * b >= a
         /\ Ceil(a, b) * b <= a + b - 1
<1> DEFINE n == a + b - 1
           q == n \div b
<1>1. n \in Nat /\ n >= b
  OBVIOUS
<1>2. q \in Nat /\ n = q * b + (n % b) /\ n % b \in 0 .. b - 1
  BY <1>1, Z3
<1>3. q * b <= n /\ q * b > n - b
  BY <1>1, <1>2, Z3
<1>4. q # 0
  BY <1>1, <1>3, Z3
<1> QED
  BY <1>1, <1>2, <1>3, <1>4 DEF Ceil

\* The header's bytes hold a number modulo 256.
LEMMA ByteRange ==
  ASSUME NEW n \in Nat PROVE n % 256 \in 0 .. 255
  OBVIOUS

(***************************************************************************)
(* The sizes split_qr_packet computes.                                     *)
(***************************************************************************)
\* At least two chunks carry the message and its hash, none carries more than
\* its room, and together they carry less than one byte too much per chunk.
LEMMA PlanBounds ==
  ASSUME NEW s \in Nat \ {0}, NEW m \in 32 .. 459,
         NEW T, T = Chunks(s, m), NEW L, L = PerChunk(s, m)
  PROVE  /\ T \in Nat \ {0} /\ L \in Nat \ {0}
         /\ T > 1 => /\ T * L >= s + Hash /\ T * L <= s + Hash + T - 1
                     /\ L <= m - Head2
         /\ T = 1 => s + Head1 <= m
<1> USE DEF Hash, Head1, Head2
<1>1. CASE Single(s, m)
  BY <1>1 DEF Chunks, PerChunk, Single
<1>2. CASE ~Single(s, m)
  <2> DEFINE M == m - Head2
  <2>1. M \in Nat \ {0} /\ s + Hash \in Nat \ {0}
    OBVIOUS
  <2>2. T = Ceil(s + Hash, M) /\ L = Ceil(s + Hash, T)
    BY <1>2 DEF Chunks, PerChunk
  <2>3. T \in Nat \ {0} /\ T * M >= s + Hash
    BY <2>1, <2>2, CeilBounds
  <2>4. L \in Nat \ {0} /\ L * T >= s + Hash /\ L * T <= s + Hash + T - 1
    BY <2>1, <2>2, <2>3, CeilBounds
  <2>5. T * L = L * T /\ T * M = M * T
    BY <2>1, <2>3, <2>4
  <2>6. L <= M
    <3>1. SUFFICES ASSUME L >= M + 1 PROVE FALSE
      BY <2>1, <2>4
    <3>2. L * T >= (M + 1) * T
      BY <2>1, <2>3, <2>4, <3>1
    <3>3. (M + 1) * T = M * T + T
      BY <2>1, <2>3
    <3> HIDE DEF M
    <3> QED
      BY <2>1, <2>3, <2>4, <2>5, <3>2, <3>3
  <2>7. T # 1
    BY <1>2, <2>1, <2>3 DEF Single
  <2> QED
    BY <2>3, <2>4, <2>5, <2>6, <2>7
<1> QED
  BY <1>1, <1>2

(***************************************************************************)
(* The inductive invariant: what the chunks carry is what their number and *)
(* the plan say.                                                           *)
(***************************************************************************)
\* Where a chunk begins, and how many bytes chunk i, counted from 1, carries.
Begin(i) == (i - 1) * len

Carries(i) ==
  IF total = 1 THEN size
  ELSE IF i = total THEN (IF size > Begin(i) THEN size - Begin(i) ELSE 0) + Hash
  ELSE len

Given(i) == [head |-> Header(i - 1), from |-> Begin(i), n |-> Carries(i)]

Sized == size \in Nat \ {0} /\ max \in 32 .. 459

Planned ==
  /\ pc = "plan" => total = 0 /\ len = 0 /\ offset = 0 /\ sent = <<>>
  /\ pc # "plan" => total = Chunks(size, max) /\ len = PerChunk(size, max)

\* The next chunk begins at offset; after the last one offset stays.
NextChunk == IF Len(sent) < total THEN Len(sent) + 1 ELSE total

Offsets ==
  pc # "plan" =>
    /\ \E i \in 1 .. total : offset = Begin(i)
    /\ pc # "failed" => Len(sent) <= total /\ offset = Begin(NextChunk)

Pieces == \A i \in DOMAIN sent : i <= total /\ sent[i] = Given(i)

IInv ==
  /\ Sized /\ Planned /\ Offsets /\ Pieces
  /\ sent \in Seq([head : [total : 0 .. 255, index : 0 .. 255, more : BOOLEAN],
                   from : Nat, n : Nat])
  /\ pc \in {"plan", "split", "show", "closed", "failed"}
  /\ index \in Nat /\ auto \in BOOLEAN /\ seen \subseteq Nat

\* What the bounds say of the plan in a state.
LEMMA PlanInState ==
  ASSUME IInv, pc # "plan"
  PROVE  /\ total \in Nat \ {0} /\ len \in Nat \ {0}
         /\ total > 1 => /\ total * len >= size + Hash
                         /\ total * len <= size + Hash + total - 1
                         /\ len <= max - Head2
         /\ total = 1 => size + Head1 <= max
<1>1. /\ size \in Nat \ {0} /\ max \in 32 .. 459
      /\ total = Chunks(size, max) /\ len = PerChunk(size, max)
  BY DEF IInv, Sized, Planned
<1>. DEFINE T == total
            L == len
            P(s, m) == /\ T \in Nat \ {0} /\ L \in Nat \ {0}
                       /\ T > 1 => /\ T * L >= s + Hash /\ T * L <= s + Hash + T - 1
                                   /\ L <= m - Head2
                       /\ T = 1 => s + Head1 <= m
<1>2. \A s \in Nat \ {0}, m \in 32 .. 459 : T = Chunks(s, m) /\ L = PerChunk(s, m) => P(s, m)
  BY PlanBounds
<1>3. P(size, max)
  <2>. HIDE DEF P, T, L
  <2>. QED  BY <1>1, <1>2 DEF T, L
<1>. QED  BY <1>3

LEMMA BeginBounds ==
  ASSUME NEW i \in Nat \ {0}, len \in Nat
  PROVE  /\ Begin(i) \in Nat
         /\ Begin(i + 1) = Begin(i) + len
         /\ Begin(i) = i * len - len
  BY DEF Begin

LEMMA InitIInv == Init => IInv
<1> SUFFICES ASSUME Init PROVE IInv
  OBVIOUS
<1>1. size \in Nat \ {0}
  BY ConstantsAssumption DEF Init
<1>2. max \in 32 .. 459
  <2>1. PICK conf \in Configs, signed \in BOOLEAN :
          max = ChunkSize(conf, signed, size) - Prefix
    BY DEF Init
  <2>2. conf \in Int
    BY ConstantsAssumption
  <2> QED
    BY <1>1, <2>1, <2>2 DEF ChunkSize, Prefix, Head1
<1>3. sent = <<>> /\ pc = "plan"
  BY DEF Init
<1>4. sent \in Seq([head : [total : 0 .. 255, index : 0 .. 255, more : BOOLEAN],
                   from : Nat, n : Nat])
  BY <1>3
<1>5. Sized /\ Planned /\ Offsets
  BY <1>1, <1>2, <1>3 DEF Init, Sized, Planned, Offsets
<1>6. Pieces
  BY <1>3 DEF Pieces
<1> QED
  BY <1>3, <1>4, <1>5, <1>6 DEF Init, IInv

\* A chunk as split_qr_packet makes it is the one its number gives.
LEMMA PieceIsGiven ==
  ASSUME IInv, pc = "split", Len(sent) < total
  PROVE  /\ Piece(Len(sent)) = Given(Len(sent) + 1)
         /\ Given(Len(sent) + 1) \in
              [head : [total : 0 .. 255, index : 0 .. 255, more : BOOLEAN],
               from : Nat, n : Nat]
<1> DEFINE k == Len(sent)
<1>1. k \in Nat /\ total \in Nat \ {0} /\ len \in Nat \ {0} /\ size \in Nat \ {0}
  BY PlanInState DEF IInv, Sized
<1>2. offset = Begin(k + 1) /\ offset \in Nat
  <2>1. NextChunk = k + 1 /\ k + 1 \in Nat \ {0}
    BY <1>1 DEF NextChunk
  <2>2. offset = Begin(k + 1)
    BY <2>1 DEF IInv, Offsets
  <2>3. Begin(k + 1) \in Nat
    BY <1>1, <2>1, BeginBounds
  <2> QED
    BY <2>2, <2>3
<1>3. Piece(k) = [head |-> Header(k), from |-> offset, n |-> Carries(k + 1)]
  <2>1. CASE total = 1
    BY <2>1 DEF Piece, Carries
  <2>2. CASE total # 1 /\ k + 1 = total
    BY <1>1, <1>2, <2>2 DEF Piece, Carries
  <2>3. CASE total # 1 /\ k + 1 # total
    BY <1>1, <2>3 DEF Piece, Carries
  <2> QED
    BY <2>1, <2>2, <2>3
<1>4. (k + 1) - 1 = k
  BY <1>1
<1>5. Header(k) \in [total : 0 .. 255, index : 0 .. 255, more : BOOLEAN]
  <2>1. total % 256 \in 0 .. 255 /\ k % 256 \in 0 .. 255
    BY <1>1, ByteRange
  <2> QED
    BY <2>1 DEF Header
<1>6. Carries(k + 1) \in Nat
  BY <1>1, <1>2 DEF Carries, Hash
<1> QED
  BY <1>2, <1>3, <1>4, <1>5, <1>6 DEF Given

LEMMA NextIInv == IInv /\ [Next]_vars => IInv'
<1> SUFFICES ASSUME IInv, [Next]_vars PROVE IInv'
  OBVIOUS
<1> DEFINE Records == [head : [total : 0 .. 255, index : 0 .. 255, more : BOOLEAN],
                       from : Nat, n : Nat]
<1>a. sent \in Seq(Records) /\ Len(sent) \in Nat
  BY DEF IInv
<1>1. CASE Plan
  <2>1. pc' = "split" /\ total' = Chunks(size, max) /\ len' = PerChunk(size, max)
        /\ size' = size /\ max' = max /\ sent' = <<>> /\ offset' = 0
    BY <1>1 DEF Plan, IInv, Planned
  <2>2. total' \in Nat \ {0} /\ len' \in Nat \ {0}
    BY <2>1, PlanBounds DEF IInv, Sized
  <2>3. Begin(1)' = 0 /\ NextChunk' = 1
    BY <2>1, <2>2 DEF Begin, NextChunk
  <2>4. Offsets'
    BY <2>1, <2>2, <2>3 DEF Offsets
  <2>5. Pieces' /\ Planned' /\ Sized'
    BY <2>1 DEF Pieces, Planned, Sized, IInv
  <2> QED
    BY <1>1, <2>1, <2>4, <2>5 DEF IInv, Plan
<1>2. CASE Split
  <2>1. pc = "split" /\ Len(sent) < total /\ pc' = "split"
        /\ sent' = Append(sent, Piece(Len(sent)))
        /\ size' = size /\ max' = max /\ total' = total /\ len' = len
    BY <1>2 DEF Split, plan
  <2>2. total \in Nat \ {0} /\ len \in Nat \ {0}
    BY <2>1, PlanInState
  <2>3. /\ Piece(Len(sent)) = Given(Len(sent) + 1)
        /\ Given(Len(sent) + 1) \in Records
    BY <2>1, PieceIsGiven
  <2>4. sent' \in Seq(Records) /\ Len(sent') = Len(sent) + 1
    BY <1>a, <2>1, <2>3
  <2>5. Pieces'
    <3>1. ASSUME NEW i \in DOMAIN sent' PROVE i <= total /\ sent'[i] = Given(i)
      <4>1. CASE i = Len(sent) + 1
        BY <1>a, <2>1, <2>2, <2>3, <4>1
      <4>2. CASE i # Len(sent) + 1
        <5>1. i \in DOMAIN sent /\ sent'[i] = sent[i]
          BY <1>a, <2>1, <2>3, <2>4, <4>2
        <5> QED
          BY <5>1 DEF IInv, Pieces
      <4> QED
        BY <4>1, <4>2
    <3>2. ASSUME NEW i PROVE Given(i)' = Given(i)
      BY <2>1 DEF Given, Header, Begin, Carries
    <3> QED
      BY <2>1, <3>1, <3>2 DEF Pieces
  <2>6. Offsets'
    <3>1. offset = Begin(Len(sent) + 1)
      BY <2>1 DEF IInv, Offsets, NextChunk
    <3>2. offset' = Begin(NextChunk')
      <4>1. CASE Len(sent) + 1 < total
        <5>1. offset' = offset + len /\ NextChunk' = Len(sent) + 1 + 1
          BY <1>2, <2>1, <2>4, <4>1 DEF Split, NextChunk
        <5> QED
          BY <1>a, <2>2, <3>1, <5>1, BeginBounds
      <4>2. CASE ~(Len(sent) + 1 < total)
        <5>1. offset' = offset /\ NextChunk' = Len(sent) + 1
          BY <1>2, <1>a, <2>1, <2>2, <2>4, <4>2 DEF Split, NextChunk
        <5> QED
          BY <3>1, <5>1
      <4> QED
        BY <4>1, <4>2
    <3>3. NextChunk' \in 1 .. total /\ Len(sent') <= total
      BY <1>a, <2>1, <2>2, <2>4 DEF NextChunk
    <3>4. ASSUME NEW i PROVE Begin(i)' = Begin(i)
      BY <2>1 DEF Begin
    <3> QED
      BY <2>1, <3>2, <3>3, <3>4 DEF Offsets
  <2>7. Sized' /\ Planned'
    BY <2>1 DEF IInv, Sized, Planned
  <2> QED
    BY <1>2, <2>1, <2>4, <2>5, <2>6, <2>7 DEF IInv, Split
<1>3. CASE Fail
  BY <1>3 DEF Fail, plan, IInv, Sized, Planned, Offsets, Pieces, Begin
<1>4. CASE Open
  <2>1. pc = "split" /\ pc' = "show" /\ UNCHANGED <<plan, offset, sent, index>>
        /\ auto' = (total > 1) /\ seen' = {index}
    BY <1>4 DEF Open
  <2>2. Sized' /\ Planned' /\ Offsets' /\ Pieces'
    BY <2>1 DEF plan, IInv, Sized, Planned, Offsets, NextChunk, Pieces, Begin,
                Given, Header, Carries
  <2> QED
    BY <2>1, <2>2 DEF IInv
<1>5. ASSUME pc = "show", pc' \in {"show", "closed"}, UNCHANGED <<plan, offset, sent>>,
             index' \in Nat, auto' \in BOOLEAN, seen' \subseteq Nat
      PROVE  IInv'
  <2>1. Sized' /\ Planned' /\ Offsets' /\ Pieces'
    BY <1>5 DEF plan, IInv, Sized, Planned, Offsets, NextChunk, Pieces, Begin,
                Given, Header, Carries
  <2> QED
    BY <1>5, <2>1 DEF IInv
<1>6. ASSUME pc = "show"
      PROVE  index \in Nat /\ total \in Nat \ {0}
             /\ After(index) \in Nat /\ Before(index) \in Nat
  <2>1. index \in Nat /\ total \in Nat \ {0}
    BY <1>6, PlanInState DEF IInv
  <2> QED
    BY <2>1 DEF After, Before
<1>7. CASE Timer
  BY <1>5, <1>6, <1>7 DEF Timer, Paint, IInv
<1>8. CASE Arrow
  BY <1>5, <1>6, <1>8 DEF Arrow, Paint, IInv
<1>9. CASE Ok
  BY <1>5, <1>9 DEF Ok, IInv
<1>10. CASE UNCHANGED vars
  BY <1>10 DEF vars, plan, IInv, Sized, Planned, Offsets, NextChunk, Pieces, Begin,
               Given, Header, Carries
<1> QED
  BY <1>1, <1>2, <1>3, <1>4, <1>7, <1>8, <1>9, <1>10 DEF Next

\* What the chunks carry is always what the plan says.
LEMMA Invariant == Spec => []IInv
  BY InitIInv, NextIInv, PTL DEF Spec

(***************************************************************************)
(* What follows from the invariant.                                        *)
(***************************************************************************)
\* Every variable has its type, in particular max_chunk_size after the bounds of
\* showQRWindow, and the headers are two bytes.
THEOREM TypeCorrect == Spec => []TypeOK
<1>1. IInv => TypeOK
  <2> SUFFICES ASSUME IInv PROVE TypeOK
    OBVIOUS
  <2>1. CASE pc = "plan"
    BY <2>1 DEF IInv, Sized, Planned, TypeOK
  <2>2. CASE pc # "plan"
    <3>1. total \in Nat \ {0} /\ len \in Nat \ {0}
      BY <2>2, PlanInState
    <3>2. PICK i \in 1 .. total : offset = Begin(i)
      BY <2>2 DEF IInv, Offsets
    <3>3. offset \in Nat
      BY <3>1, <3>2, BeginBounds
    <3> QED
      BY <3>1, <3>3 DEF IInv, Sized, TypeOK
  <2> QED
    BY <2>1, <2>2
<1> QED
  BY <1>1, Invariant, PTL

\* The plan keeps the beginning of every chunk within the message, when rounding
\* up takes less than the last chunk has room for.
LEMMA BeginsInside ==
  ASSUME IInv, pc # "plan", total > 1, RoundingFits, NEW i \in 1 .. total
  PROVE  Begin(i) \in Nat /\ Begin(i) <= size
<1>1. /\ total \in Nat \ {0} /\ len \in Nat \ {0} /\ size \in Nat \ {0}
      /\ total * len <= size + 4 + total - 1
  BY PlanInState DEF IInv, Sized, Hash
<1>2. Begin(i) \in Nat /\ Begin(total) = total * len - len
  BY <1>1, BeginBounds
<1>3. i * len <= total * len
  <2>1. PICK d \in Nat : total = i + d
    <3>1. total - i \in Nat /\ total = i + (total - i)
      BY <1>1
    <3> QED
      BY <3>1
  <2>2. total * len = i * len + d * len /\ d * len \in Nat /\ i * len \in Nat
    BY <1>1, <2>1
  <2> QED
    BY <2>2
<1>4. Begin(i) = i * len - len /\ i * len \in Nat /\ total * len \in Nat
  BY <1>1, BeginBounds
<1>5. total + 3 <= len
  BY DEF RoundingFits
<1> QED
  BY <1>1, <1>2, <1>3, <1>4, <1>5

\* For every length of message and chunk size, as long as the rounding fits, no
\* chunk reaches beyond the message, and the last one ends with its hash.
THEOREM ThePiecesCover == Spec => []PiecesCover
<1>1. IInv => PiecesCover
  <2> SUFFICES ASSUME IInv, total > 1, RoundingFits
               PROVE  /\ offset <= size
                      /\ Len(sent) = total =>
                           sent[total].from + sent[total].n = size + Hash
    BY DEF PiecesCover
  <2>1. pc # "plan"
    BY DEF IInv, Planned
  <2>2. total \in Nat \ {0} /\ size \in Nat
    BY <2>1, PlanInState DEF IInv, Sized
  <2>3. offset <= size
    <3>1. PICK i \in 1 .. total : offset = Begin(i)
      BY <2>1 DEF IInv, Offsets
    <3> QED
      BY <2>1, <3>1, BeginsInside
  <2>4. ASSUME Len(sent) = total
        PROVE  sent[total].from + sent[total].n = size + Hash
    <3>1. total \in DOMAIN sent
      BY <2>2, <2>4 DEF IInv
    <3>2. sent[total] = Given(total)
      BY <3>1 DEF IInv, Pieces
    <3>3. Begin(total) \in Nat /\ Begin(total) <= size
      BY <2>1, <2>2, BeginsInside
    <3>4. Carries(total) = size - Begin(total) + Hash
      BY <2>2, <3>3 DEF Carries, Hash
    <3>5. sent[total].from = Begin(total) /\ sent[total].n = Carries(total)
      BY <3>2 DEF Given
    <3> QED
      BY <2>2, <3>3, <3>4, <3>5 DEF Hash
  <2> QED
    BY <2>3, <2>4
<1> QED
  BY <1>1, Invariant, PTL

\* For every message and chunk size, a chunk with header and prefix is no longer
\* than the QR code the window makes room for.
THEOREM ChunksFit == Spec => []PieceFits
<1>1. IInv => PieceFits
  <2> SUFFICES ASSUME IInv, NEW i \in DOMAIN sent
               PROVE  sent[i].n + (IF total = 1 THEN Head1 ELSE Head2) <= max
    BY DEF PieceFits
  <2>1. pc # "plan"
    BY DEF IInv, Planned
  <2>2. i \in Nat \ {0} /\ i <= total /\ sent[i].n = Carries(i)
    BY DEF IInv, Pieces, Given
  <2>3. /\ total \in Nat \ {0} /\ len \in Nat \ {0}
        /\ size \in Nat \ {0} /\ max \in 32 .. 459
        /\ total > 1 => /\ total * len >= size + 4
                        /\ len <= max - 12
        /\ total = 1 => size + 10 <= max
    BY <2>1, PlanInState DEF IInv, Sized, Hash, Head1, Head2
  <2>4. CASE total = 1
    <3>1. Carries(i) = size
      BY <2>4 DEF Carries
    <3>2. sent[i].n + Head1 <= max
      BY <2>2, <2>3, <2>4, <3>1 DEF Head1
    <3> QED
      BY <2>4, <3>2
  <2>5. CASE total # 1 /\ i # total
    BY <2>2, <2>3, <2>5 DEF Carries, Head2
  <2>6. CASE total # 1 /\ i = total
    <3>1. Begin(total) = total * len - len /\ Begin(total) \in Nat
      BY <2>3, BeginBounds
    <3>2. total * len \in Nat
      BY <2>3
    <3>3. Begin(total) >= size + 4 - len
      BY <2>3, <2>6, <3>1, <3>2
    <3>4. Carries(total) = (IF size > Begin(total) THEN size - Begin(total) ELSE 0) + 4
      BY <2>6 DEF Carries, Hash
    <3>5. CASE size > Begin(total)
      BY <2>2, <2>3, <2>6, <3>1, <3>3, <3>4, <3>5 DEF Head2
    <3>6. CASE ~(size > Begin(total))
      BY <2>2, <2>3, <2>6, <3>1, <3>3, <3>4, <3>6 DEF Head2
    <3> QED
      BY <3>5, <3>6
  <2> QED
    BY <2>4, <2>5, <2>6
<1> QED
  BY <1>1, Invariant, PTL

\* Every header passes the checks of decode_qr_packet and names its chunk, up to
\* the 255 chunks its byte can count.
THEOREM HeadersDecode == Spec => []Decodable
<1>1. IInv => Decodable
  <2> SUFFICES ASSUME IInv, total <= 255, NEW i \in DOMAIN sent
               PROVE  LET h == sent[i].head IN
                      /\ h.total > 0 /\ h.index < h.total
                      /\ ~h.more => h.index + 1 = h.total
                      /\ h.index = i - 1 /\ h.total = total
    BY DEF Decodable
  <2>1. pc # "plan"
    BY DEF IInv, Planned
  <2>2. i \in Nat \ {0} /\ i <= total /\ sent[i].head = Header(i - 1)
    BY DEF IInv, Pieces, Given
  <2>3. total \in 1 .. 255
    BY <2>1, PlanInState
  <2>4. total % 256 = total /\ (i - 1) % 256 = i - 1
    BY <2>2, <2>3
  <2>5. sent[i].head = [total |-> total, index |-> i - 1, more |-> i # total]
    <3>1. (i - 1) + 1 = i
      BY <2>2
    <3> QED
      BY <2>2, <2>4, <3>1 DEF Header
  <2> DEFINE h == sent[i].head
  <2>6. h.total = total /\ h.index = i - 1 /\ h.more = (i # total)
    BY <2>5
  <2> HIDE DEF h
  <2>7. h.total > 0 /\ h.index < h.total
    BY <2>2, <2>3, <2>6
  <2>8. ASSUME ~h.more PROVE h.index + 1 = h.total
    <3>1. i = total
      BY <2>6, <2>8, Zenon
    <3> QED
      BY <2>2, <2>3, <2>6, <3>1
  <2> QED
    BY <2>6, <2>7, <2>8 DEF h
<1> QED
  BY <1>1, Invariant, PTL


\* For every message and chunk size, the phone can read each code and take its chunk.
THEOREM PiecesAreReadable == Spec => []Readable
<1>1. PieceFits /\ Decodable => Readable
  BY DEF Readable
<1>. QED  BY <1>1, ChunksFit, HeadersDecode, PTL
=============================================================================
