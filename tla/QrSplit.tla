------------------------------ MODULE QrSplit ------------------------------
(***************************************************************************)
(* Showing a message as QR codes: the choice of the chunk size in          *)
(* showQRWindow, split_qr_packet and encode_qr_packet, and the window that *)
(* shows the chunks one after the other.                                   *)
(*                                                                         *)
(* The bytes of a message are its positions 0 .. size - 1; the hash of the *)
(* message follows them.  A piece is the range of bytes a chunk carries.   *)
(***************************************************************************)
EXTENDS Integers, Sequences, FiniteSets

CONSTANTS
  Sizes,     \* lengths of messages
  Configs,   \* chunk_size of the configuration
  Faults     \* whether memory can run out

ASSUME ConstantsAssumption ==
  Sizes \subseteq Nat \ {0} /\ Configs \subseteq Int /\ Faults \in BOOLEAN

Prefix == 2       \* QRCODE_PREFIX_LEN
Hash   == 4       \* QR_HASH_CHECK_LEN
Head1  == 10      \* get_qr_packet_header_len(0)
Head2  == 12      \* get_qr_packet_header_len(1)

VARIABLES
  size,      \* of the message
  max,       \* max_chunk_size, without the prefix
  total,     \* number of chunks
  len,       \* bytes per chunk
  offset,    \* bytes given to chunks so far
  sent,      \* the chunks
  pc,        \* "plan", "split", "show", "closed" or "failed"
  index,     \* qr_index
  auto,      \* auto_refresh_qr
  seen       \* observation: the chunks the window has shown

plan == <<size, max, total, len>>
vars == <<plan, offset, sent, pc, index, auto, seen>>

-----------------------------------------------------------------------------
(* The sizes.                                                              *)

\* The chunk size of showQRWindow: the one configured, or 58 for the encrypted
\* signature of a message, within bounds; one page of up to 220 bytes is kept.
ChunkSize(conf, signed, s) ==
  LET m == IF signed THEN 58 ELSE conf IN
  CASE m < 34  -> 34
    [] m > 461 -> 461
    [] m = 194 /\ s + Prefix + Head1 \in 195 .. 220 -> 220
    [] OTHER   -> m

Ceil(a, b) == (a + b - 1) \div b

\* A single chunk has no hash of the whole and a shorter header.
Single(s, m) == Head1 + s <= m

\* Mutant of Chunks: the hash is not counted.
ChunksNoHash(s, m) == IF Single(s, m) THEN 1 ELSE Ceil(s, m - Head2)

Chunks(s, m) == IF Single(s, m) THEN 1 ELSE Ceil(s + Hash, m - Head2)

\* The average, rounded up.
PerChunk(s, m) == IF Single(s, m) THEN s ELSE Ceil(s + Hash, Chunks(s, m))

-----------------------------------------------------------------------------
Plan ==
  /\ pc = "plan"
  /\ total' = Chunks(size, max)
  /\ len' = PerChunk(size, max)
  /\ pc' = "split"
  /\ UNCHANGED <<size, max, offset, sent, index, auto, seen>>

\* Mutant of Header: the chunks are counted from 1.
HeaderFromOne(i) ==
  [total |-> total % 256, index |-> (i + 1) % 256, more |-> i + 1 # total]

\* The header of chunk i: two bytes for the number of chunks and the index.
Header(i) == [total |-> total % 256, index |-> i % 256, more |-> i + 1 # total]

\* Mutant of Piece: the last chunk of several lacks the hash.
PieceNoHash(i) ==
  LET left == IF size > offset THEN size - offset ELSE 0 IN
  [head |-> Header(i), from |-> offset,
   n |-> IF total = 1 THEN size ELSE IF i + 1 = total THEN left ELSE len]

\* A chunk in the middle takes len bytes whether the message has them or not,
\* the last one takes what is left, and the hash.
Piece(i) ==
  LET left == IF size > offset THEN size - offset ELSE 0 IN
  [head |-> Header(i), from |-> offset,
   n |-> IF total = 1 THEN size ELSE IF i + 1 = total THEN left + Hash ELSE len]

Split ==
  /\ pc = "split" /\ Len(sent) < total
  /\ sent' = Append(sent, Piece(Len(sent)))
  /\ offset' = IF Len(sent) + 1 < total THEN offset + len ELSE offset
  /\ UNCHANGED <<plan, pc, index, auto, seen>>

\* Memory runs out: all chunks are given back, and nothing is shown.
Fail ==
  /\ Faults /\ pc = "split" /\ Len(sent) < total
  /\ sent' = <<>>
  /\ pc' = "failed"
  /\ UNCHANGED <<plan, offset, index, auto, seen>>

-----------------------------------------------------------------------------
(* The window.                                                             *)

\* The first chunk is painted; several are shown in turn.
Open ==
  /\ pc = "split" /\ Len(sent) = total
  /\ pc' = "show"
  /\ auto' = (total > 1)
  /\ seen' = {index}
  /\ UNCHANGED <<plan, offset, sent, index>>

Paint(i) == index' = i /\ seen' = seen \cup {i}

\* Mutant of After: the last chunk is left out of the turn.
AfterShort(i) == IF i + 2 < total THEN i + 1 ELSE 0

After(i) == IF i + 1 < total THEN i + 1 ELSE 0

Before(i) == IF i > 0 THEN i - 1 ELSE IF total > 1 THEN total - 1 ELSE i

Timer ==
  /\ pc = "show" /\ auto
  /\ Paint(After(index))
  /\ UNCHANGED <<plan, offset, sent, pc, auto>>

\* The first key ends the turn, and moves if it is an arrow.
Arrow ==
  /\ pc = "show"
  /\ Paint(After(index)) \/ Paint(Before(index))
  /\ auto' = FALSE
  /\ UNCHANGED <<plan, offset, sent, pc>>

Ok ==
  /\ pc = "show"
  /\ IF auto THEN UNCHANGED pc ELSE pc' = "closed"
  /\ auto' = FALSE
  /\ UNCHANGED <<plan, offset, sent, index, seen>>

-----------------------------------------------------------------------------
Init ==
  /\ size \in Sizes
  /\ \E conf \in Configs, signed \in BOOLEAN :
       max = ChunkSize(conf, signed, size) - Prefix
  /\ total = 0 /\ len = 0 /\ offset = 0 /\ sent = <<>>
  /\ pc = "plan" /\ index = 0 /\ auto = FALSE /\ seen = {}

Next == Plan \/ Split \/ Fail \/ Open \/ Timer \/ Arrow \/ Ok

Spec == Init /\ [][Next]_vars

\* The program splits and opens the window without waiting, and the timer runs
\* until the user stops it.
FairSpec == Spec /\ WF_vars(Plan \/ Split) /\ WF_vars(Open) /\ WF_vars(Timer)

-----------------------------------------------------------------------------
(* Properties.                                                             *)

TypeOK ==
  /\ size \in Nat \ {0} /\ max \in 32 .. 459
  /\ total \in Nat /\ len \in Nat /\ offset \in Nat
  /\ sent \in Seq([head : [total : 0 .. 255, index : 0 .. 255, more : BOOLEAN],
                   from : Nat, n : Nat])
  /\ pc \in {"plan", "split", "show", "closed", "failed"}
  /\ index \in Nat /\ auto \in BOOLEAN /\ seen \subseteq Nat

\* Splitting is exact as long as rounding the average up, once per chunk, takes
\* less than the last chunk has room for.
RoundingFits == total + 3 <= len

\* No chunk reaches beyond the message, and the last one ends it.
PiecesCover ==
  total > 1 /\ RoundingFits =>
    /\ offset <= size
    /\ Len(sent) = total => sent[total].from + sent[total].n = size + Hash

\* A chunk with its header and the prefix is no longer than the window allows.
PieceFits ==
  \A i \in DOMAIN sent :
    sent[i].n + (IF total = 1 THEN Head1 ELSE Head2) <= max

\* What decode_qr_packet asks of the header of a chunk, and the index merging
\* wants.
Decodable ==
  total <= 255 =>
    \A i \in DOMAIN sent :
      LET h == sent[i].head IN
      /\ h.total > 0 /\ h.index < h.total
      /\ ~h.more => h.index + 1 = h.total
      /\ h.index = i - 1 /\ h.total = total

\* The phone can read each code and take its chunk, however the sizes came about.
Readable == PieceFits /\ Decodable

\* In the turn every chunk is shown, unless a key ends it.
AllShown == (pc = "show" /\ auto) ~> (seen = 0 .. total - 1 \/ ~auto)

\* The chunks carry the message and its hash, however long the message is.
ChunksCarryMessage ==
  total > 1 /\ Len(sent) = total =>
    sent[total].from + sent[total].n = size + Hash
=============================================================================
