---------------------------- MODULE MsgQueueProofs ----------------------------
(***************************************************************************)
(* Theorems about MsgQueue, for every number of slots, kinds and delays:   *)
(* no cell is lost or used twice, the loop does not oversleep, and the     *)
(* queue implements MsgOutbox.                                             *)
(***************************************************************************)
EXTENDS MsgQueue, SequenceTheorems, FiniteSetTheorems, TLAPS

-----------------------------------------------------------------------------
(* Sequences.                                                              *)

LEMMA LeastNat ==
  ASSUME NEW T, T \subseteq Nat, T # {}
  PROVE  \E n \in T : \A m \in T : n <= m
<1>1. \E x \in T : \A y \in T : ~ (<<y, x>> \in OpToRel(<, Nat))
  BY WFMin, NatLessThanWellFounded
<1>2. PICK x \in T : \A y \in T : ~ (<<y, x>> \in OpToRel(<, Nat))
  BY <1>1
<1>3. ASSUME NEW y \in T, y < x PROVE FALSE
  <2>1. <<y, x>> \in Nat \X Nat /\ <<y, x>>[1] < <<y, x>>[2]
    BY <1>3
  <2>2. <<y, x>> \in OpToRel(<, Nat)
    BY <2>1 DEF OpToRel
  <2>. QED  BY <1>2, <2>2
<1>. QED  BY <1>3

\* A set of numbers up to n that holds whatever is below a member is an interval.
LEMMA Prefix ==
  ASSUME NEW n \in Nat, NEW D \in SUBSET (1 .. n),
         \A i \in D, j \in 1 .. n : j <= i => j \in D
  PROVE  IsFiniteSet(D) /\ Cardinality(D) \in 0 .. n /\ D = 1 .. Cardinality(D)
<1>1. IsFiniteSet(1 .. n) /\ Cardinality(1 .. n) = n
  BY FS_Interval
<1>2. IsFiniteSet(D) /\ Cardinality(D) <= n /\ Cardinality(D) \in Nat
  BY <1>1, FS_Subset, FS_CardinalityType
<1>. DEFINE k == Cardinality(D)
<1>3. ASSUME NEW x \in D PROVE x <= k
  <2>1. 1 .. x \in SUBSET D
    OBVIOUS
  <2>2. Cardinality(1 .. x) = x
    BY FS_Interval
  <2>. QED  BY <1>2, <2>1, <2>2, FS_Subset
<1>4. D \in SUBSET (1 .. k)
  BY <1>3
<1>5. IsFiniteSet(1 .. k) /\ Cardinality(1 .. k) = k
  BY <1>2, FS_Interval
<1>6. Cardinality(1 .. k) = Cardinality(D) => 1 .. k = D
  BY <1>4, <1>5, FS_Subset
<1>. QED  BY <1>2, <1>5, <1>6

InsertedAt(q, k, c) == SubSeq(q, 1, k) \o <<c>> \o SubSeq(q, k + 1, Len(q))

\* The sequence r over S is q with c behind its first k elements.
IsInserted(r, S, q, k, c) ==
  /\ r \in Seq(S) /\ Len(r) = Len(q) + 1 /\ DOMAIN r = 1 .. Len(q) + 1
  /\ \A i \in 1 .. Len(q) + 1 :
       r[i] = IF i <= k THEN q[i] ELSE IF i = k + 1 THEN c ELSE q[i - 1]

LEMMA InsertAt ==
  ASSUME NEW S, NEW q \in Seq(S), NEW c \in S, NEW k \in 0 .. Len(q)
  PROVE  IsInserted(InsertedAt(q, k, c), S, q, k, c)
<1>. DEFINE n == Len(q)
            r == InsertedAt(q, k, c)
            a == SubSeq(q, 1, k)
            b == SubSeq(q, k + 1, n)
            d == a \o <<c>>
<1>1. n \in Nat /\ k \in 0 .. n /\ \A i \in 1 .. n : q[i] \in S
  BY LenProperties, ElementOfSeq
<1>. HIDE DEF n
<1>2. /\ a \in Seq(S) /\ Len(a) = k
      /\ \A i \in 1 .. k : a[i] = q[i]
  BY <1>1, SubSeqProperties
<1>3. /\ b \in Seq(S) /\ Len(b) = n - k
      /\ \A i \in 1 .. n - k : b[i] = q[k + i]
  <2>1. /\ b \in Seq(S)
        /\ Len(b) = IF k + 1 <= n THEN n - (k + 1) + 1 ELSE 0
        /\ \A i \in 1 .. n - (k + 1) + 1 : b[i] = q[(k + 1) + i - 1]
    BY <1>1, SubSeqProperties
  <2>2. Len(b) = n - k
    BY <1>1, <2>1
  <2>3. ASSUME NEW i \in 1 .. n - k PROVE b[i] = q[k + i]
    <3>1. i \in 1 .. n - (k + 1) + 1 /\ (k + 1) + i - 1 = k + i
      BY <1>1
    <3>. QED  BY <2>1, <3>1
  <2>. QED  BY <2>1, <2>2, <2>3
<1>4. <<c>> \in Seq(S) /\ Len(<<c>>) = 1 /\ <<c>>[1] = c
  OBVIOUS
<1>. HIDE DEF a, b
<1>5. /\ d \in Seq(S) /\ Len(d) = k + 1
      /\ \A i \in 1 .. k + 1 : d[i] = IF i <= k THEN a[i] ELSE <<c>>[i - k]
  BY <1>2, <1>4, ConcatProperties
<1>6. \A i \in 1 .. k + 1 : d[i] = IF i <= k THEN q[i] ELSE c
  <2>1. \A i \in 1 .. k + 1 : i <= k \/ i - k = 1
    BY <1>1
  <2>. QED  BY <1>1, <1>2, <1>4, <1>5, <2>1
<1>. HIDE DEF d
<1>7. r = d \o b
  BY DEF a, b, d, n, InsertedAt
<1>. HIDE DEF r
<1>8. /\ r \in Seq(S) /\ Len(r) = n + 1
      /\ \A i \in 1 .. n + 1 : r[i] = IF i <= k + 1 THEN d[i] ELSE b[i - (k + 1)]
  <2>0. d \in Seq(S) /\ b \in Seq(S)
    BY <1>3, <1>5
  <2>1. /\ d \o b \in Seq(S) /\ Len(d \o b) = Len(d) + Len(b)
        /\ \A i \in 1 .. Len(d) + Len(b) :
             (d \o b)[i] = IF i <= Len(d) THEN d[i] ELSE b[i - Len(d)]
    BY <2>0, ConcatProperties
  <2>2. Len(d) = k + 1 /\ Len(d) + Len(b) = n + 1
    BY <1>1, <1>3, <1>5
  <2>. QED  BY <1>7, <2>1, <2>2
<1>9. ASSUME NEW i \in 1 .. n + 1
      PROVE  r[i] = IF i <= k THEN q[i] ELSE IF i = k + 1 THEN c ELSE q[i - 1]
  <2>1. CASE i <= k + 1
    <3>1. i \in 1 .. k + 1 /\ r[i] = d[i]
      BY <1>1, <1>8, <2>1
    <3>. QED  BY <1>1, <1>6, <2>1, <3>1
  <2>2. CASE i > k + 1
    <3>1. i - (k + 1) \in 1 .. n - k /\ k + (i - (k + 1)) = i - 1 /\ ~(i <= k + 1)
      BY <1>1, <2>2
    <3>2. r[i] = b[i - (k + 1)]
      BY <1>8, <3>1
    <3>3. b[i - (k + 1)] = q[i - 1]
      BY <1>3, <3>1
    <3>. QED  BY <1>1, <2>2, <3>2, <3>3
  <2>. QED  BY <1>1, <2>1, <2>2
<1>10. DOMAIN r = 1 .. n + 1
  BY <1>8, LenProperties
<1>. QED  BY <1>8, <1>9, <1>10 DEF n, r, IsInserted

-----------------------------------------------------------------------------
(* The inductive invariant.                                                *)

Records == [when : Nat, what : What \cup {None}, id : Nat]

TypeOK ==
  /\ list \in Seq(Cells) /\ batch \in Seq(Cells) /\ mem \in [Cells -> Records]
  /\ lpc \in {"sample", "look", "peek", "fault", "wait", "sleep", "take", "handle",
              "giveBack", "reopen"}
  /\ timenow \in Nat /\ until \in Nat /\ slept \in Nat /\ now \in Nat
  /\ signal \in BOOLEAN /\ posted \in 0 .. MaxPosts /\ handled \in Seq(Nat)

\* Every cell in use is at one place, and no heap cell is used before its message.
Linked ==
  /\ \A i, j \in DOMAIN list : list[i] = list[j] => i = j
  /\ \A i, j \in DOMAIN batch : batch[i] = batch[j] => i = j
  /\ \A i \in DOMAIN list, j \in DOMAIN batch : list[i] # batch[j]
  /\ \A c \in Cells : (mem[c].what # None) = (InList(c) \/ InBatch(c))
  /\ \A h \in Heap : h > posted => mem[h].what = None

Earlier(m, n) == m.when < n.when \/ (m.when = n.when /\ m.id < n.id)

\* The list is in the order of the due times, and of posting.
Ordered ==
  /\ \A i, j \in DOMAIN list : i < j => Earlier(mem[list[i]], mem[list[j]])
  /\ \A i \in DOMAIN list : mem[list[i]].id \in 1 .. posted
  /\ \A i, j \in DOMAIN list : mem[list[i]].id = mem[list[j]].id => i = j

\* The loop has a batch exactly while it handles one, of messages that were due when
\* it looked at the clock.
Batched ==
  /\ (batch # <<>>) = (lpc \in {"handle", "giveBack", "reopen"})
  /\ \A i \in DOMAIN batch : mem[batch[i]].when <= timenow
  /\ timenow <= now /\ now > 0 /\ (lpc # "sample" => timenow > 0)

IInv == TypeOK /\ Linked /\ Ordered /\ Batched /\ NoOversleep

LEMMA ListTypes ==
  ASSUME TypeOK
  PROVE  /\ Len(list) \in Nat /\ DOMAIN list = 1 .. Len(list)
         /\ \A i \in DOMAIN list : list[i] \in Cells
         /\ Len(batch) \in Nat /\ DOMAIN batch = 1 .. Len(batch)
         /\ \A i \in DOMAIN batch : batch[i] \in Cells
         /\ \A c \in Cells : mem[c].when \in Nat /\ mem[c].id \in Nat
                              /\ mem[c].what \in What \cup {None}
         /\ list # <<>> => Len(list) > 0 /\ Head(list) = list[1]
         /\ batch # <<>> => Len(batch) > 0 /\ Head(batch) = batch[1]
BY LenProperties, ElementOfSeq, EmptySeq DEF TypeOK, Records

\* The messages due at a time are the first ones of the list.
LEMMA PlaceIsPrefix ==
  ASSUME TypeOK, Ordered, NEW w \in Nat
  PROVE  /\ Place(w) \in 0 .. Len(list)
         /\ \A i \in DOMAIN list : mem[list[i]].when <= w <=> i <= Place(w)
<1>. DEFINE D == {i \in DOMAIN list : mem[list[i]].when <= w}
<1>1. D \in SUBSET (1 .. Len(list))
  BY ListTypes
<1>2. ASSUME NEW i \in D, NEW j \in 1 .. Len(list), j <= i PROVE j \in D
  BY <1>2, ListTypes DEF Ordered, Earlier
<1>3. Cardinality(D) \in 0 .. Len(list) /\ D = 1 .. Cardinality(D)
  BY <1>1, <1>2, Prefix, ListTypes
<1>. QED  BY <1>3, ListTypes DEF Place

-----------------------------------------------------------------------------
(* What the steps that change the list do.                                 *)

\* The cell c, which was free, takes a message for the place behind the k messages that
\* are due no later.
PostAt(w, d, c, k) ==
  /\ mem[c].what = None /\ c \notin (posted + 2) .. MaxPosts
  /\ \A i \in DOMAIN list : list[i] # c
  /\ \A i \in DOMAIN batch : batch[i] # c
  /\ d \in Nat /\ k = Place(Due(d)) /\ Due(d) \in Nat
  /\ \A i \in DOMAIN list : mem[list[i]].when <= Due(d) <=> i <= k
  /\ list' \in Seq(Cells) /\ Len(list') = Len(list) + 1
  /\ DOMAIN list' = 1 .. Len(list) + 1
  /\ \A i \in 1 .. Len(list) + 1 :
       list'[i] = IF i <= k THEN list[i] ELSE IF i = k + 1 THEN c ELSE list[i - 1]
  /\ mem' \in [Cells -> Records]
  /\ mem'[c] = [when |-> Due(d), what |-> w, id |-> posted + 1]
  /\ \A x \in Cells : x # c => mem'[x] = mem[x]
  /\ signal' = (signal \/ (lpc = "sleep" /\ Signals(d)))
  /\ posted < MaxPosts /\ posted' = posted + 1
  /\ UNCHANGED <<batch, lpc, seen, timenow, until, slept, now, handled>>

LEMMA PostDoes ==
  ASSUME IInv, Post
  PROVE  \E w \in What, d \in Delays, c \in Cells, k \in 0 .. Len(list) : PostAt(w, d, c, k)
<1>1. PICK w \in What, d \in Delays : \E c \in NewCells :
        /\ list' = Insert(c, Due(d))
        /\ mem' = [mem EXCEPT ![c] = [when |-> Due(d), what |-> w, id |-> posted']]
        /\ signal' = (signal \/ (lpc = "sleep" /\ Signals(d)))
  BY DEF Post
<1>2. PICK c \in NewCells :
        /\ list' = Insert(c, Due(d))
        /\ mem' = [mem EXCEPT ![c] = [when |-> Due(d), what |-> w, id |-> posted']]
        /\ signal' = (signal \/ (lpc = "sleep" /\ Signals(d)))
  BY <1>1
<1>3. /\ posted < MaxPosts /\ posted' = posted + 1 /\ posted \in Nat /\ MaxPosts \in Nat
      /\ UNCHANGED <<batch, lpc, seen, timenow, until, slept, now, handled>>
  BY ConstantsAssumption DEF Post, loop, IInv, TypeOK
<1>4. c \in Cells /\ mem[c].what = None /\ c \notin (posted + 2) .. MaxPosts
  <2>1. CASE FreeSlots # {}
    <3>1. c \in Slots /\ c \notin Nat /\ mem[c].what = None
      BY <1>2, <2>1, ConstantsAssumption DEF NewCells, FreeSlots
    <3>. QED  BY <1>3, <3>1 DEF Cells
  <2>2. CASE FreeSlots = {}
    <3>1. c = posted + 1 /\ c \in Heap
      BY <1>2, <1>3, <2>2 DEF NewCells, Heap
    <3>. QED  BY <1>3, <3>1 DEF Cells, IInv, Linked
  <2>. QED  BY <2>1, <2>2
<1>5. (\A i \in DOMAIN list : list[i] # c) /\ (\A i \in DOMAIN batch : batch[i] # c)
  BY <1>4 DEF IInv, Linked, InList, InBatch
<1>6. d \in Nat /\ Due(d) \in Nat
  BY ConstantsAssumption DEF Due, IInv, TypeOK
<1>. DEFINE k == Place(Due(d))
<1>7. k \in 0 .. Len(list) /\ \A i \in DOMAIN list : mem[list[i]].when <= Due(d) <=> i <= k
  BY <1>6, PlaceIsPrefix DEF IInv
<1>8. list' = InsertedAt(list, k, c)
  BY <1>2 DEF Insert, InsertedAt
<1>. HIDE DEF k
<1>9. /\ list' \in Seq(Cells) /\ Len(list') = Len(list) + 1
      /\ DOMAIN list' = 1 .. Len(list) + 1
      /\ \A i \in 1 .. Len(list) + 1 :
           list'[i] = IF i <= k THEN list[i] ELSE IF i = k + 1 THEN c ELSE list[i - 1]
  <2>1. list \in Seq(Cells)
    BY DEF IInv, TypeOK
  <2>2. k \in 0 .. Len(list) /\ c \in Cells
    BY <1>4, <1>7
  <2>3. IsInserted(InsertedAt(list, k, c), Cells, list, k, c)
    BY <2>1, <2>2, InsertAt
  <2>. QED  BY <1>8, <2>3 DEF IsInserted
<1>10. /\ mem' \in [Cells -> Records]
       /\ mem'[c] = [when |-> Due(d), what |-> w, id |-> posted + 1]
       /\ \A x \in Cells : x # c => mem'[x] = mem[x]
  <2>1. [when |-> Due(d), what |-> w, id |-> posted'] \in Records
    BY <1>3, <1>6 DEF Records
  <2>. QED  BY <1>2, <1>3, <1>4, <2>1 DEF IInv, TypeOK
<1>11. k = Place(Due(d))
  BY DEF k
<1>12. PostAt(w, d, c, k)
  BY <1>2, <1>3, <1>4, <1>5, <1>6, <1>7, <1>9, <1>10, <1>11 DEF PostAt
<1>. QED  BY <1>4, <1>7, <1>12

\* A strictly increasing function into a set of as many numbers reaches them all.
Increasing(f, n) == \A i, j \in 1 .. n : i < j => f[i] < f[j]
Onto(f, n, K) == \A x \in K : \E i \in 1 .. n : f[i] = x

LEMMA IncreasingOnto ==
  ASSUME NEW n \in Nat, NEW K \in SUBSET Nat, IsFiniteSet(K), Cardinality(K) = n,
         NEW f \in [1 .. n -> K], Increasing(f, n)
  PROVE  Onto(f, n, K)
<1>1. \A i, j \in 1 .. n : i # j => f[i] # f[j]
  <2>. SUFFICES ASSUME NEW i \in 1 .. n, NEW j \in 1 .. n, i # j PROVE f[i] # f[j]
    OBVIOUS
  <2>1. i < j \/ j < i
    OBVIOUS
  <2>2. f[i] \in Nat /\ f[j] \in Nat
    OBVIOUS
  <2>. QED  BY <2>1, <2>2 DEF Increasing
<1>2. f \in Injection(1 .. n, K)
  BY <1>1 DEF Injection, IsInjective
<1>3. Cardinality(1 .. n) = n
  BY FS_Interval
<1>4. f \in Surjection(1 .. n, K)
  BY <1>2, <1>3, FS_Injection
<1>. QED  BY <1>4 DEF Surjection, Onto

\* The n cells of other kinds than w are kept, in their order.
DeleteBut(w, n, keep) ==
  /\ \A i, j \in 1 .. n : i < j => keep[i] < keep[j]
  /\ \A i \in DOMAIN list : mem[list[i]].what # w <=> \E j \in 1 .. n : keep[j] = i
  /\ list' \in Seq(Cells) /\ Len(list') = n /\ DOMAIN list' = 1 .. n
  /\ \A i \in 1 .. n : list'[i] = list[keep[i]]
  /\ mem' \in [Cells -> Records]
  /\ \A c \in Cells : mem'[c] = IF InList(c) /\ mem[c].what = w THEN Free ELSE mem[c]
  /\ UNCHANGED <<batch, lpc, seen, timenow, until, slept, signal, now, posted, handled>>

LEMMA DeleteDoes ==
  ASSUME IInv, Delete
  PROVE  \E w \in What, n \in 0 .. Len(list) : \E keep \in [1 .. n -> DOMAIN list] :
           DeleteBut(w, n, keep)
<1>1. PICK w \in What :
        /\ \E keep \in [1 .. Cardinality(Kept(w)) -> Kept(w)] :
             /\ \A i, j \in DOMAIN keep : i < j => keep[i] < keep[j]
             /\ list' = [i \in DOMAIN keep |-> list[keep[i]]]
        /\ mem' = [c \in Cells |->
                     IF (\E i \in DOMAIN list : list[i] = c) /\ mem[c].what = w
                       THEN Free ELSE mem[c]]
  BY DEF Delete
<1>2. PICK keep \in [1 .. Cardinality(Kept(w)) -> Kept(w)] :
        /\ \A i, j \in DOMAIN keep : i < j => keep[i] < keep[j]
        /\ list' = [i \in DOMAIN keep |-> list[keep[i]]]
  BY <1>1
<1>. DEFINE K == Kept(w)
            n == Cardinality(K)
<1>3. K \subseteq DOMAIN list /\ K \subseteq 1 .. Len(list) /\ K \subseteq Nat
  BY ListTypes DEF IInv, Kept
<1>4. IsFiniteSet(K) /\ n \in 0 .. Len(list)
  <2>0. Len(list) \in Nat
    BY ListTypes DEF IInv
  <2>1. IsFiniteSet(1 .. Len(list)) /\ Cardinality(1 .. Len(list)) = Len(list)
    BY <2>0, FS_Interval
  <2>. QED  BY <1>3, <2>0, <2>1, FS_Subset, FS_CardinalityType
<1>5. \A i \in DOMAIN list : i \in K <=> mem[list[i]].what # w
  BY DEF Kept
<1>6. keep \in [1 .. n -> K] /\ DOMAIN keep = 1 .. n
  BY <1>2
<1>. HIDE DEF K, n
<1>7. \A i, j \in 1 .. n : i < j => keep[i] < keep[j]
  BY <1>2, <1>6
<1>8. \A x \in K : \E i \in 1 .. n : keep[i] = x
  <2>1. n \in Nat /\ Cardinality(K) = n
    BY <1>4 DEF n
  <2>2. K \in SUBSET Nat /\ IsFiniteSet(K) /\ keep \in [1 .. n -> K]
    BY <1>3, <1>4, <1>6
  <2>3. Increasing(keep, n)
    BY <1>7 DEF Increasing
  <2>4. Onto(keep, n, K)
    BY <2>1, <2>2, <2>3, IncreasingOnto
  <2>. QED  BY <2>4 DEF Onto
<1>9. /\ list' \in Seq(Cells) /\ Len(list') = n /\ DOMAIN list' = 1 .. n
      /\ \A i \in 1 .. n : list'[i] = list[keep[i]]
  <2>1. list' = [i \in 1 .. n |-> list[keep[i]]]
    BY <1>2, <1>6
  <2>2. \A i \in 1 .. n : list[keep[i]] \in Cells
    BY <1>3, <1>6, ListTypes DEF IInv
  <2>. QED  BY <1>4, <2>1, <2>2
<1>10. /\ mem' \in [Cells -> Records]
       /\ \A c \in Cells : mem'[c] = IF InList(c) /\ mem[c].what = w THEN Free ELSE mem[c]
  <2>1. Free \in Records
    BY DEF Free, Records
  <2>. QED  BY <1>1, <2>1 DEF IInv, TypeOK, InList
<1>11. UNCHANGED <<batch, lpc, seen, timenow, until, slept, signal, now, posted, handled>>
  BY DEF Delete, loop
<1>12. keep \in [1 .. n -> DOMAIN list]
  BY <1>3, <1>6
<1>13. \A i \in DOMAIN list : mem[list[i]].what # w <=> \E j \in 1 .. n : keep[j] = i
  BY <1>5, <1>6, <1>8
<1>14. DeleteBut(w, n, keep)
  BY <1>7, <1>9, <1>10, <1>11, <1>13 DEF DeleteBut
<1>. QED  BY <1>4, <1>12, <1>14

-----------------------------------------------------------------------------
(* The steps keep the invariant.                                           *)

LEMMA FrameLinks ==
  ASSUME IInv, UNCHANGED <<list, mem, batch, posted>>
  PROVE  Linked' /\ Ordered'
<1>1. Linked'
  BY DEF IInv, Linked, InList, InBatch
<1>2. Ordered'
  BY DEF IInv, Ordered, Earlier
<1>. QED  BY <1>1, <1>2

LEMMA ClockSteps ==
  ASSUME IInv, Sample \/ Look \/ Peek \/ Tick
  PROVE  IInv'
<1>. USE DEF IInv, At, Go
<1>1. Linked' /\ Ordered'
  BY FrameLinks DEF Sample, Look, Peek, Tick, queue, loop, wait
<1>2. TypeOK'
  BY DEF TypeOK, Sample, Look, Peek, Tick, queue, loop, wait
<1>3. Batched'
  BY DEF TypeOK, Batched, Sample, Look, Peek, Tick, queue, loop, wait
<1>4. NoOversleep'
  BY DEF NoOversleep, Sample, Look, Peek, Tick, queue, loop, wait
<1>. QED  BY <1>1, <1>2, <1>3, <1>4

LEMMA WaitSteps ==
  ASSUME IInv, Wait \/ Wake
  PROVE  IInv'
<1>. USE DEF IInv, At, Go
<1>1. Linked' /\ Ordered'
  BY FrameLinks DEF Wait, Wake, queue
<1>2. list # <<>> => mem[Head(list)].when \in Nat
  BY ListTypes
<1>3. TypeOK' /\ NoOversleep'
  <2>1. CASE Wait
    <3>. DEFINE howlong == IF list = <<>> THEN Idle ELSE mem[Head(list)].when - timenow
    <3>1. howlong \in Int
      BY <1>2, ConstantsAssumption DEF TypeOK
    <3>2. /\ list # <<>> => howlong = mem[Head(list)].when - timenow
          /\ \/ Go("sample") /\ UNCHANGED <<wait, signal>>
             \/ /\ howlong > 0 /\ until' = now + howlong /\ slept' = now
                /\ signal' = FALSE /\ Go("sleep")
      BY <2>1 DEF Wait
    <3>3. UNCHANGED <<list, mem, batch, seen, timenow, now, posted, handled>>
      BY <2>1 DEF Wait, queue
    <3>. HIDE DEF howlong
    <3>4. until' \in Nat /\ slept' \in Nat /\ signal' \in BOOLEAN
      <4>1. now \in Nat /\ until \in Nat /\ slept \in Nat /\ signal \in BOOLEAN
        BY DEF TypeOK
      <4>2. CASE UNCHANGED <<wait, signal>>
        BY <4>1, <4>2 DEF wait
      <4>3. CASE howlong > 0 /\ until' = now + howlong /\ slept' = now /\ signal' = FALSE
        <5>1. until' \in Nat
          BY <3>1, <4>1, <4>3
        <5>. QED  BY <4>1, <4>3, <5>1
      <4>. QED  BY <3>2, <4>2, <4>3
    <3>5. lpc' \in {"sample", "sleep"}
      BY <3>2
    <3>6. TypeOK'
      BY <3>3, <3>4, <3>5 DEF TypeOK
    <3>7. NoOversleep'
      BY <1>2, <3>1, <3>2, <3>3 DEF NoOversleep, TypeOK
    <3>. QED  BY <3>6, <3>7
  <2>2. CASE Wake
    BY <2>2 DEF Wake, TypeOK, NoOversleep, queue, wait
  <2>. QED  BY <2>1, <2>2
<1>4. Batched'
  BY DEF Batched, Wait, Wake, queue
<1>. QED  BY <1>1, <1>3, <1>4

LEMMA HandleStep ==
  ASSUME IInv, Handle
  PROVE  IInv'
<1>. USE DEF IInv, At, Go
<1>1. Linked' /\ Ordered'
  BY FrameLinks DEF Handle, queue
<1>2. handled' \in Seq(Nat)
  <2>1. batch # <<>>
    BY DEF Batched, Handle
  <2>2. mem[Head(batch)].id \in Nat
    BY <2>1, ListTypes
  <2>. QED  BY <2>2 DEF Handle, TypeOK
<1>3. TypeOK'
  BY <1>2 DEF Handle, TypeOK, queue, wait
<1>4. Batched' /\ NoOversleep'
  BY DEF Batched, NoOversleep, Handle, queue, wait
<1>. QED  BY <1>1, <1>3, <1>4

\* The cell at the head of the batch changes to a cell of no message, or keeps it.
LeavesHead(cell) ==
  /\ batch # <<>> /\ mem' = [mem EXCEPT ![Head(batch)] = cell] /\ cell \in Records
  /\ lpc \in {"giveBack", "reopen"}
  /\ UNCHANGED <<list, seen, timenow, until, slept, signal, now, posted, handled>>
  /\ \/ /\ cell.what = None /\ batch' = Tail(batch)
        /\ lpc' = IF Tail(batch) = <<>> THEN "sample" ELSE "handle"
     \/ /\ cell.what = mem[Head(batch)].what /\ cell.when = 0
        /\ batch' = batch /\ lpc' = "reopen"

LEMMA LeaveDoes ==
  ASSUME IInv, GiveBack \/ Reopen
  PROVE  \E cell \in Records : LeavesHead(cell)
<1>. USE DEF IInv, At, Go
<1>1. batch # <<>> /\ Head(batch) \in Cells /\ mem[Head(batch)] \in Records
  <2>1. batch # <<>>
    BY DEF Batched, GiveBack, Reopen
  <2>. QED  BY <2>1, ListTypes DEF TypeOK
<1>2. UNCHANGED <<list, seen, timenow, until, slept, signal, now, posted, handled>>
  BY DEF GiveBack, Reopen, wait
<1>3. CASE GiveBack
  <2>1. CASE Leave(Free)
    <3>1. Free \in Records /\ Free.what = None
      BY DEF Free, Records
    <3>2. LeavesHead(Free)
      BY <1>1, <1>2, <1>3, <2>1, <3>1 DEF LeavesHead, Leave, GiveBack
    <3>. QED  BY <3>1, <3>2
  <2>2. CASE /\ mem' = [mem EXCEPT ![Head(batch)].when = 0]
             /\ Go("reopen") /\ UNCHANGED batch
    <3>. DEFINE cell == [mem[Head(batch)] EXCEPT !.when = 0]
    <3>1. /\ cell \in Records /\ cell.what = mem[Head(batch)].what /\ cell.when = 0
      BY <1>1 DEF Records
    <3>2. mem' = [mem EXCEPT ![Head(batch)] = cell]
      BY <2>2
    <3>. HIDE DEF cell
    <3>3. LeavesHead(cell)
      BY <1>1, <1>2, <1>3, <2>2, <3>1, <3>2 DEF LeavesHead, GiveBack
    <3>. QED  BY <3>1, <3>3
  <2>. QED  BY <1>3, <2>1, <2>2 DEF GiveBack
<1>4. CASE Reopen
  <2>. DEFINE cell == [mem[Head(batch)] EXCEPT !.what = None]
  <2>1. cell \in Records /\ cell.what = None
    BY <1>1 DEF Records
  <2>2. Leave(cell)
    BY <1>4 DEF Reopen
  <2>. HIDE DEF cell
  <2>3. LeavesHead(cell)
    BY <1>1, <1>2, <1>4, <2>1, <2>2 DEF LeavesHead, Leave, Reopen
  <2>. QED  BY <2>1, <2>3
<1>. QED  BY <1>3, <1>4

LEMMA TailIs ==
  ASSUME NEW S, NEW q \in Seq(S), q # <<>>
  PROVE  /\ Tail(q) \in Seq(S) /\ Len(Tail(q)) = Len(q) - 1 /\ Len(Tail(q)) \in Nat
         /\ DOMAIN Tail(q) = 1 .. Len(Tail(q))
         /\ \A i \in DOMAIN Tail(q) : i + 1 \in DOMAIN q /\ Tail(q)[i] = q[i + 1] /\ i + 1 # 1
         /\ Tail(q) = <<>> <=> Len(q) = 1
         /\ 1 \in DOMAIN q /\ Head(q) = q[1]
<1>1. /\ Head(q) \in S /\ Tail(q) \in Seq(S) /\ Len(Tail(q)) = Len(q) - 1
      /\ \A i \in 1 .. Len(Tail(q)) : Tail(q)[i] = q[i + 1]
  BY HeadTailProperties
<1>2. Len(q) \in Nat /\ DOMAIN q = 1 .. Len(q) /\ Len(q) > 0 /\ Head(q) = q[1]
  BY LenProperties, EmptySeq
<1>3. Len(Tail(q)) \in Nat /\ DOMAIN Tail(q) = 1 .. Len(Tail(q))
  BY <1>1, LenProperties
<1>4. Tail(q) = <<>> <=> Len(Tail(q)) = 0
  BY <1>1, EmptySeq
<1>. QED  BY <1>1, <1>2, <1>3, <1>4

LEMMA LeaveStep ==
  ASSUME IInv, NEW cell \in Records, LeavesHead(cell)
  PROVE  IInv'
<1>. DEFINE h == Head(batch)
<1>1. /\ batch \in Seq(Cells) /\ batch # <<>> /\ h \in Cells /\ h = batch[1]
      /\ 1 \in DOMAIN batch
  BY ListTypes, TailIs DEF LeavesHead, IInv, TypeOK
<1>2. /\ mem' \in [Cells -> Records] /\ mem'[h] = cell
      /\ \A c \in Cells : c # h => mem'[c] = mem[c]
  BY <1>1 DEF LeavesHead, IInv, TypeOK
<1>3. UNCHANGED <<list, timenow, until, slept, signal, now, posted, handled>>
  BY DEF LeavesHead
<1>4. \A i \in DOMAIN list : list[i] \in Cells /\ list[i] # h
  BY <1>1, ListTypes DEF IInv, Linked
<1>5. /\ batch' \in Seq(Cells) /\ lpc' \in {"sample", "handle", "reopen"}
      /\ (batch' # <<>>) = (lpc' \in {"handle", "giveBack", "reopen"})
  <2>1. Tail(batch) \in Seq(Cells)
    BY <1>1, TailIs
  <2>2. CASE /\ batch' = Tail(batch)
             /\ lpc' = IF Tail(batch) = <<>> THEN "sample" ELSE "handle"
    BY <2>1, <2>2
  <2>3. CASE batch' = batch /\ lpc' = "reopen"
    BY <1>1, <2>3
  <2>. QED  BY <2>2, <2>3 DEF LeavesHead
\* what is left of the batch, and its cells
<1>6. \/ /\ cell.what = None /\ batch' = Tail(batch)
         /\ \A i \in DOMAIN batch' : i + 1 \in DOMAIN batch /\ batch'[i] = batch[i + 1]
                                   /\ batch'[i] # h
         /\ \A c \in Cells : InBatch(c)' <=> InBatch(c) /\ c # h
      \/ /\ cell.what = mem[h].what /\ cell.when = 0 /\ batch' = batch
  <2>1. CASE cell.what = None /\ batch' = Tail(batch)
    <3>1. /\ Len(batch') = Len(batch) - 1 /\ DOMAIN batch' = 1 .. Len(batch')
          /\ Len(batch) \in Nat /\ DOMAIN batch = 1 .. Len(batch)
          /\ \A i \in DOMAIN batch' : i + 1 \in DOMAIN batch /\ batch'[i] = batch[i + 1] /\ i + 1 # 1
      BY <1>1, <2>1, TailIs, LenProperties
    <3>2. \A i \in DOMAIN batch' : batch'[i] # h
      BY <1>1, <3>1 DEF IInv, Linked
    <3>3. \A j \in DOMAIN batch : j = 1 \/ (j - 1 \in DOMAIN batch' /\ (j - 1) + 1 = j)
      BY <3>1
    <3>4. ASSUME NEW c \in Cells, InBatch(c), c # h PROVE InBatch(c)'
      <4>1. PICK j \in DOMAIN batch : batch[j] = c
        BY <3>4 DEF InBatch
      <4>2. j - 1 \in DOMAIN batch' /\ batch'[j - 1] = c
        BY <1>1, <3>1, <3>3, <3>4, <4>1
      <4>. QED  BY <4>2 DEF InBatch
    <3>5. ASSUME NEW c \in Cells, InBatch(c)' PROVE InBatch(c) /\ c # h
      <4>1. PICK i \in DOMAIN batch' : batch'[i] = c
        BY <3>5 DEF InBatch
      <4>. QED  BY <3>1, <3>2, <4>1 DEF InBatch
    <3>. QED  BY <2>1, <3>1, <3>2, <3>4, <3>5
  <2>2. CASE cell.what = mem[h].what /\ cell.when = 0 /\ batch' = batch
    BY <2>2
  <2>. QED  BY <2>1, <2>2 DEF LeavesHead
<1>. HIDE DEF h
<1>7. TypeOK'
  BY <1>2, <1>3, <1>5 DEF IInv, TypeOK
<1>8. Linked'
  <2>1. \A i, j \in DOMAIN batch' : batch'[i] = batch'[j] => i = j
    <3>1. \A i \in DOMAIN batch' : i \in Int
      BY <1>5, LenProperties
    <3>. QED  BY <1>6, <3>1 DEF IInv, Linked
  <2>2. \A i \in DOMAIN list', j \in DOMAIN batch' : list'[i] # batch'[j]
    BY <1>3, <1>6 DEF IInv, Linked
  <2>3. \A c \in Cells : (mem'[c].what # None) = (InList(c)' \/ InBatch(c)')
    <3>1. \A c \in Cells : InList(c)' <=> InList(c)
      BY <1>3 DEF InList
    <3>2. ~InList(h) /\ InBatch(h)
      BY <1>1, <1>4 DEF InList, InBatch
    <3>3. CASE cell.what = None /\ \A c \in Cells : InBatch(c)' <=> InBatch(c) /\ c # h
      BY <1>1, <1>2, <3>1, <3>2, <3>3 DEF IInv, Linked
    <3>4. CASE cell.what = mem[h].what /\ batch' = batch
      <4>1. \A c \in Cells : InBatch(c)' <=> InBatch(c)
        BY <3>4 DEF InBatch
      <4>. QED  BY <1>1, <1>2, <3>1, <3>2, <3>4, <4>1 DEF IInv, Linked
    <3>. QED  BY <1>6, <3>3, <3>4
  <2>4. \A x \in Heap : x > posted' => mem'[x].what = None
    <3>1. h > posted /\ h \in Heap => mem[h].what = None
      BY DEF IInv, Linked
    <3>. QED  BY <1>2, <1>3, <1>6, <3>1 DEF IInv, Linked, Cells
  <2>5. \A i, j \in DOMAIN list' : list'[i] = list'[j] => i = j
    BY <1>3 DEF IInv, Linked
  <2>. QED  BY <2>1, <2>2, <2>3, <2>4, <2>5 DEF Linked
<1>9. Ordered'
  <2>1. \A i \in DOMAIN list : mem'[list'[i]] = mem[list[i]]
    BY <1>2, <1>3, <1>4
  <2>. QED  BY <1>3, <2>1 DEF IInv, Ordered, Earlier
<1>10. Batched'
  <2>1. \A i \in DOMAIN batch' : mem'[batch'[i]].when <= timenow'
    <3>1. \A i \in DOMAIN batch : batch[i] \in Cells /\ mem[batch[i]].when <= timenow
      BY ListTypes DEF IInv, Batched
    <3>2. timenow \in Nat
      BY DEF IInv, TypeOK
    <3>. QED  BY <1>2, <1>3, <1>6, <3>1, <3>2
  <2>2. timenow' <= now' /\ now' > 0 /\ timenow' > 0
    BY <1>3 DEF IInv, Batched, LeavesHead
  <2>. QED  BY <1>5, <2>1, <2>2 DEF Batched
<1>11. NoOversleep'
  BY <1>5 DEF NoOversleep
<1>. QED  BY <1>7, <1>8, <1>9, <1>10, <1>11 DEF IInv

LEMMA PostStep ==
  ASSUME IInv, NEW w \in What, NEW d \in Delays, NEW c \in Cells,
         NEW k \in 0 .. Len(list), PostAt(w, d, c, k)
  PROVE  IInv'
<1>. DEFINE n == Len(list)
            new == [when |-> Due(d), what |-> w, id |-> posted + 1]
<1>1. /\ n \in Nat /\ k \in 0 .. n /\ DOMAIN list = 1 .. n /\ DOMAIN list' = 1 .. n + 1
      /\ \A i \in 1 .. n : list[i] \in Cells /\ list[i] # c
      /\ \A i \in DOMAIN batch : batch[i] \in Cells /\ batch[i] # c
      /\ posted \in Nat /\ posted' = posted + 1 /\ Due(d) \in Nat
  BY ListTypes DEF IInv, TypeOK, PostAt
<1>2. /\ \A x \in Cells : mem[x].when \in Nat /\ mem[x].id \in Nat
      /\ mem' \in [Cells -> Records] /\ mem'[c] = new /\ new.what # None
      /\ \A x \in Cells : x # c => mem'[x] = mem[x]
  BY ListTypes, ConstantsAssumption DEF PostAt, IInv
<1>3. UNCHANGED <<batch, lpc, seen, timenow, until, slept, now, handled>>
  BY DEF PostAt
<1>4. \A i \in 1 .. n + 1 :
        \/ /\ i \in 1 .. n /\ i <= k /\ list'[i] = list[i] /\ mem'[list'[i]] = mem[list[i]]
        \/ /\ i = k + 1 /\ list'[i] = c /\ mem'[list'[i]] = new
        \/ /\ i - 1 \in 1 .. n /\ i - 1 > k /\ list'[i] = list[i - 1]
           /\ mem'[list'[i]] = mem[list[i - 1]]
  <2>. SUFFICES ASSUME NEW i \in 1 .. n + 1
                PROVE  \/ /\ i \in 1 .. n /\ i <= k /\ list'[i] = list[i] /\ mem'[list'[i]] = mem[list[i]]
                       \/ /\ i = k + 1 /\ list'[i] = c /\ mem'[list'[i]] = new
                       \/ /\ i - 1 \in 1 .. n /\ i - 1 > k /\ list'[i] = list[i - 1]
                          /\ mem'[list'[i]] = mem[list[i - 1]]
    OBVIOUS
  <2>1. list'[i] = IF i <= k THEN list[i] ELSE IF i = k + 1 THEN c ELSE list[i - 1]
    BY DEF PostAt
  <2>2. CASE i <= k
    BY <1>1, <1>2, <2>1, <2>2
  <2>3. CASE i = k + 1
    BY <1>1, <1>2, <2>1, <2>3
  <2>4. CASE i > k + 1
    BY <1>1, <1>2, <2>1, <2>4
  <2>. QED  BY <1>1, <2>2, <2>3, <2>4
<1>5. \A i \in 1 .. n : mem[list[i]].when <= Due(d) <=> i <= k
  BY <1>1 DEF PostAt
<1>6. new.when = Due(d) /\ new.id = posted + 1
  OBVIOUS
<1>. DEFINE old(i) == IF i <= k THEN i ELSE i - 1
<1>a. \A i \in 1 .. n + 1 : i # k + 1 =>
        /\ old(i) \in 1 .. n /\ list'[i] = list[old(i)] /\ mem'[list'[i]] = mem[list[old(i)]]
        /\ i < k + 1 => mem[list[old(i)]].when <= Due(d)
        /\ i > k + 1 => mem[list[old(i)]].when > Due(d)
  <2>. SUFFICES ASSUME NEW i \in 1 .. n + 1, i # k + 1
                PROVE  /\ old(i) \in 1 .. n /\ list'[i] = list[old(i)]
                       /\ mem'[list'[i]] = mem[list[old(i)]]
                       /\ i < k + 1 => mem[list[old(i)]].when <= Due(d)
                       /\ i > k + 1 => mem[list[old(i)]].when > Due(d)
    BY Zenon
  <2>1. CASE i <= k
    BY <1>1, <1>4, <1>5, <2>1
  <2>2. CASE i > k + 1
    <3>1. i - 1 \in 1 .. n /\ i - 1 > k /\ old(i) = i - 1 /\ ~(i < k + 1)
      BY <1>1, <2>2
    <3>2. list'[i] = list[i - 1] /\ mem'[list'[i]] = mem[list[i - 1]]
      BY <1>1, <1>4, <2>2
    <3>3. mem[list[i - 1]].when \in Nat
      BY <1>1, <1>2, <3>1
    <3>4. mem[list[i - 1]].when > Due(d)
      BY <1>1, <1>5, <3>1, <3>3
    <3>. QED  BY <3>1, <3>2, <3>4
  <2>. QED  BY <1>1, <2>1, <2>2
<1>b. \A i, j \in 1 .. n + 1 : i # k + 1 /\ j # k + 1 =>
        (old(i) = old(j) => i = j) /\ (i < j => old(i) < old(j))
  BY <1>1
<1>c. k + 1 \in 1 .. n + 1 /\ list'[k + 1] = c /\ mem'[list'[k + 1]] = new
  BY <1>1, <1>4
<1>. HIDE DEF n, new, old
<1>7. TypeOK'
  <2>1. list' \in Seq(Cells) /\ batch' \in Seq(Cells) /\ mem' \in [Cells -> Records]
    BY <1>2, <1>3 DEF PostAt, IInv, TypeOK
  <2>2. posted' \in 0 .. MaxPosts
    BY <1>1, ConstantsAssumption DEF PostAt
  <2>3. signal' \in BOOLEAN
    BY Zenon DEF PostAt, IInv, TypeOK, Signals
  <2>. QED  BY <1>3, <2>1, <2>2, <2>3 DEF IInv, TypeOK
<1>8. Linked'
  <2>1. ASSUME NEW i \in 1 .. n + 1, NEW j \in 1 .. n + 1, list'[i] = list'[j]
        PROVE  i = j
    <3>1. \A x, y \in 1 .. n : list[x] = list[y] => x = y
      BY <1>1 DEF IInv, Linked
    <3>2. CASE i # k + 1 /\ j # k + 1
      BY <1>a, <1>b, <2>1, <3>1, <3>2
    <3>3. CASE i = k + 1 \/ j = k + 1
      BY <1>1, <1>a, <1>c, <2>1, <3>3
    <3>. QED  BY <3>2, <3>3
  <2>2. \A i \in DOMAIN list', j \in DOMAIN batch' : list'[i] # batch'[j]
    <3>1. \A i \in 1 .. n + 1 : list'[i] = c \/ \E x \in DOMAIN list : list'[i] = list[x]
      BY <1>1, <1>4
    <3>. QED  BY <1>1, <1>3, <3>1 DEF IInv, Linked
  <2>3. \A x \in Cells : InList(x)' <=> InList(x) \/ x = c
    <3>1. ASSUME NEW x \in Cells, InList(x)' PROVE InList(x) \/ x = c
      <4>1. PICK i \in 1 .. n + 1 : list'[i] = x
        BY <1>1, <3>1 DEF InList
      <4>. QED  BY <1>1, <1>4, <4>1 DEF InList
    <3>2. ASSUME NEW x \in Cells, InList(x) PROVE InList(x)'
      <4>1. PICK i \in 1 .. n : list[i] = x
        BY <1>1, <3>2 DEF InList
      <4>2. CASE i <= k
        <5>1. i \in 1 .. n + 1 /\ list'[i] = x
          BY <1>1, <1>4, <4>1, <4>2
        <5>. QED  BY <1>1, <5>1 DEF InList
      <4>3. CASE i > k
        <5>1. i + 1 \in 1 .. n + 1 /\ (i + 1) - 1 = i
          BY <1>1, <4>1
        <5>2. list'[i + 1] = x
          BY <1>1, <1>4, <4>1, <4>3, <5>1
        <5>. QED  BY <1>1, <5>1, <5>2 DEF InList
      <4>. QED  BY <1>1, <4>2, <4>3
    <3>3. InList(c)'
      <4>1. k + 1 \in 1 .. n + 1
        BY <1>1
      <4>2. list'[k + 1] = c
        BY <1>1, <1>4, <4>1
      <4>. QED  BY <1>1, <4>1, <4>2 DEF InList
    <3>. QED  BY <3>1, <3>2, <3>3
  <2>4. \A x \in Cells : (mem'[x].what # None) = (InList(x)' \/ InBatch(x)')
    <3>1. \A x \in Cells : InBatch(x)' <=> InBatch(x)
      BY <1>3 DEF InBatch
    <3>. QED  BY <1>2, <2>3, <3>1 DEF IInv, Linked
  <2>5. \A h \in Heap : h > posted' => mem'[h].what = None
    <3>1. \A h \in Heap : h \in Int /\ h <= MaxPosts /\ h \in Cells
      BY DEF Heap, Cells
    <3>2. c \notin (posted + 2) .. MaxPosts
      BY DEF PostAt
    <3>3. MaxPosts \in Nat
      BY ConstantsAssumption
    <3>4. ASSUME NEW h \in Heap, h > posted' PROVE mem'[h].what = None
      <4>1. h > posted /\ h # c /\ h \in Cells
        BY <1>1, <3>1, <3>2, <3>3, <3>4
      <4>. QED  BY <1>2, <4>1 DEF IInv, Linked
    <3>. QED  BY <3>4
  <2>6. \A i, j \in DOMAIN batch' : batch'[i] = batch'[j] => i = j
    BY <1>3 DEF IInv, Linked
  <2>. QED  BY <1>1, <2>1, <2>2, <2>4, <2>5, <2>6 DEF Linked
<1>9. Ordered'
  <2>1. /\ \A i, j \in 1 .. n : i < j => Earlier(mem[list[i]], mem[list[j]])
        /\ \A i \in 1 .. n : /\ mem[list[i]].id \in 1 .. posted /\ mem[list[i]].when \in Nat
        /\ \A i, j \in 1 .. n : mem[list[i]].id = mem[list[j]].id => i = j
    BY <1>1, <1>2 DEF IInv, Ordered
  <2>2. ASSUME NEW i \in 1 .. n + 1, NEW j \in 1 .. n + 1, i < j
        PROVE  Earlier(mem'[list'[i]], mem'[list'[j]])
    <3>1. CASE i = k + 1
      <4>1. j > k + 1 /\ mem'[list'[j]].when > Due(d)
        BY <1>1, <1>a, <2>2, <3>1
      <4>. QED  BY <1>c, <1>6, <3>1, <4>1 DEF Earlier
    <3>2. CASE j = k + 1
      <4>1. i < k + 1 /\ i # k + 1
        BY <1>1, <2>2, <3>2
      <4>2. /\ mem'[list'[i]].when <= Due(d) /\ mem'[list'[i]].when \in Nat
            /\ mem'[list'[i]].id \in 1 .. posted
        BY <1>a, <2>1, <4>1
      <4>3. mem'[list'[j]] = new
        BY <1>c, <3>2
      <4>4. new.when = Due(d) /\ new.id = posted + 1 /\ posted \in Nat /\ Due(d) \in Nat
        BY <1>1, <1>6
      <4>. DEFINE x == mem'[list'[i]]
      <4>5. x.when <= Due(d) /\ x.when \in Nat /\ x.id \in 1 .. posted
        BY <4>2
      <4>. HIDE DEF x
      <4>6. Earlier(x, new)
        BY <4>4, <4>5 DEF Earlier
      <4>. QED  BY <4>3, <4>6 DEF x
    <3>3. CASE i # k + 1 /\ j # k + 1
      <4>1. /\ old(i) \in 1 .. n /\ mem'[list'[i]] = mem[list[old(i)]]
            /\ old(j) \in 1 .. n /\ mem'[list'[j]] = mem[list[old(j)]]
        BY <1>a, <3>3
      <4>2. old(i) < old(j)
        BY <1>b, <2>2, <3>3
      <4>. QED  BY <2>1, <4>1, <4>2
    <3>. QED  BY <3>1, <3>2, <3>3
  <2>3. ASSUME NEW i \in 1 .. n + 1 PROVE mem'[list'[i]].id \in 1 .. posted'
    <3>1. CASE i = k + 1
      BY <1>1, <1>c, <1>6, <3>1
    <3>2. CASE i # k + 1
      <4>1. old(i) \in 1 .. n /\ mem'[list'[i]] = mem[list[old(i)]]
        BY <1>a, <3>2
      <4>2. mem[list[old(i)]].id \in 1 .. posted
        BY <2>1, <4>1
      <4>. QED  BY <1>1, <4>1, <4>2
    <3>. QED  BY <3>1, <3>2
  <2>4. ASSUME NEW i \in 1 .. n + 1, NEW j \in 1 .. n + 1,
               mem'[list'[i]].id = mem'[list'[j]].id
        PROVE  i = j
    <3>1. \A x \in 1 .. n : mem[list[x]].id # posted + 1
      BY <1>1, <2>1
    <3>2. CASE i # k + 1 /\ j # k + 1
      <4>1. /\ old(i) \in 1 .. n /\ old(j) \in 1 .. n
            /\ mem[list[old(i)]].id = mem[list[old(j)]].id
        BY <1>a, <2>4, <3>2
      <4>2. old(i) = old(j)
        BY <2>1, <4>1
      <4>. QED  BY <1>b, <3>2, <4>2
    <3>3. CASE i = k + 1 \/ j = k + 1
      BY <1>a, <1>c, <1>6, <2>4, <3>1, <3>3
    <3>. QED  BY <3>2, <3>3
  <2>. QED  BY <1>1, <2>2, <2>3, <2>4 DEF Ordered
<1>10. Batched'
  <2>1. \A i \in DOMAIN batch : mem'[batch[i]] = mem[batch[i]]
    BY <1>1, <1>2
  <2>. QED  BY <1>3, <2>1 DEF IInv, Batched
<1>11. NoOversleep'
  <2>. SUFFICES ASSUME lpc' = "sleep", ~signal', list' # <<>>
                PROVE  until' <= mem'[Head(list')].when + (slept' - timenow')
    BY DEF NoOversleep
  <2>1. lpc = "sleep" /\ ~signal /\ ~Signals(d)
    BY <1>3 DEF PostAt
  <2>2. k > 0
    BY <1>1, <2>1 DEF Signals, PostAt
  <2>3. 1 \in 1 .. n /\ 1 \in 1 .. n + 1 /\ 1 <= k
    BY <1>1, <2>2
  <2>4. list'[1] = list[1] /\ mem'[list'[1]] = mem[list[1]]
    BY <1>1, <1>4, <2>2, <2>3
  <2>5. list # <<>> /\ Head(list) = list[1]
    BY <1>1, <2>3, ListTypes DEF IInv
  <2>6. Head(list') = list'[1]
    BY DEF PostAt
  <2>. QED  BY <1>3, <2>1, <2>4, <2>5, <2>6 DEF IInv, NoOversleep
<1>. QED  BY <1>7, <1>8, <1>9, <1>10, <1>11 DEF IInv

LEMMA DeleteStep ==
  ASSUME IInv, NEW w \in What, NEW n \in 0 .. Len(list), NEW keep \in [1 .. n -> DOMAIN list],
         DeleteBut(w, n, keep)
  PROVE  IInv'
<1>1. /\ n \in Nat /\ DOMAIN list = 1 .. Len(list) /\ Len(list) \in Nat
      /\ \A i \in DOMAIN list : list[i] \in Cells
      /\ \A i \in DOMAIN batch : batch[i] \in Cells
      /\ \A i \in 1 .. n : keep[i] \in DOMAIN list /\ keep[i] \in Nat
      /\ DOMAIN list' = 1 .. n /\ \A i \in 1 .. n : list'[i] = list[keep[i]]
      /\ \A i, j \in 1 .. n : i < j => keep[i] < keep[j]
      /\ \A i \in DOMAIN list : mem[list[i]].what # w <=> \E j \in 1 .. n : keep[j] = i
  <2>1. /\ n \in Nat /\ DOMAIN list = 1 .. Len(list) /\ Len(list) \in Nat
        /\ \A i \in DOMAIN list : list[i] \in Cells
        /\ \A i \in DOMAIN batch : batch[i] \in Cells
    BY ListTypes DEF IInv
  <2>2. \A i \in 1 .. n : keep[i] \in DOMAIN list /\ keep[i] \in Nat
    BY <2>1
  <2>. QED  BY <2>1, <2>2, Zenon DEF DeleteBut
<1>2. /\ mem' \in [Cells -> Records]
      /\ \A c \in Cells : mem'[c] = IF InList(c) /\ mem[c].what = w THEN Free ELSE mem[c]
  BY DEF DeleteBut
<1>3. UNCHANGED <<batch, lpc, seen, timenow, until, slept, signal, now, posted, handled>>
  BY DEF DeleteBut
<1>4. \A i \in 1 .. n : mem[list[keep[i]]].what # w
  BY <1>1
<1>5. \A i \in 1 .. n : mem'[list'[i]] = mem[list[keep[i]]]
  BY <1>1, <1>2, <1>4
<1>6. \A i \in DOMAIN batch : mem'[batch[i]] = mem[batch[i]]
  BY <1>1, <1>2 DEF IInv, Linked, InList
<1>7. \A i, j \in 1 .. n : keep[i] = keep[j] => i = j
  <2>. SUFFICES ASSUME NEW i \in 1 .. n, NEW j \in 1 .. n, i # j PROVE keep[i] # keep[j]
    OBVIOUS
  <2>1. i < j \/ j < i
    OBVIOUS
  <2>. QED  BY <1>1, <2>1
<1>8. TypeOK'
  BY <1>2, <1>3 DEF IInv, TypeOK, DeleteBut
<1>9. Linked'
  <2>1. \A i, j \in DOMAIN list' : list'[i] = list'[j] => i = j
    BY <1>1, <1>7 DEF IInv, Linked
  <2>2. \A i \in DOMAIN list', j \in DOMAIN batch' : list'[i] # batch'[j]
    BY <1>1, <1>3 DEF IInv, Linked
  <2>3. \A c \in Cells : InList(c)' <=> InList(c) /\ mem[c].what # w
    <3>1. ASSUME NEW c \in Cells, InList(c)' PROVE InList(c) /\ mem[c].what # w
      BY <1>1, <1>4, <3>1 DEF InList
    <3>2. ASSUME NEW c \in Cells, InList(c), mem[c].what # w PROVE InList(c)'
      <4>1. PICK i \in DOMAIN list : list[i] = c
        BY <3>2 DEF InList
      <4>2. PICK j \in 1 .. n : keep[j] = i
        BY <1>1, <3>2, <4>1
      <4>3. list'[j] = c
        BY <1>1, <4>1, <4>2
      <4>. QED  BY <1>1, <4>3 DEF InList
    <3>. QED  BY <3>1, <3>2
  <2>4. ASSUME NEW c \in Cells
        PROVE  (mem'[c].what # None) = (InList(c)' \/ InBatch(c)')
    <3>1. InBatch(c)' <=> InBatch(c)
      BY <1>3 DEF InBatch
    <3>2. (mem[c].what # None) = (InList(c) \/ InBatch(c))
      BY DEF IInv, Linked
    <3>3. InList(c) => ~InBatch(c)
      BY DEF IInv, Linked, InList, InBatch
    <3>4. Free.what = None
      BY DEF Free
    <3>5. CASE InList(c) /\ mem[c].what = w
      <4>1. mem'[c].what = None
        BY <1>2, <3>4, <3>5
      <4>. QED  BY <2>3, <3>1, <3>3, <3>5, <4>1
    <3>6. CASE ~(InList(c) /\ mem[c].what = w)
      <4>1. mem'[c] = mem[c]
        BY <1>2, <3>6
      <4>. QED  BY <2>3, <3>1, <3>2, <3>6, <4>1
    <3>. QED  BY <3>5, <3>6
  <2>5. \A h \in Heap : h > posted' => mem'[h].what = None
    BY <1>2, <1>3 DEF IInv, Linked, Free, Cells
  <2>6. \A i, j \in DOMAIN batch' : batch'[i] = batch'[j] => i = j
    BY <1>3 DEF IInv, Linked
  <2>. QED  BY <2>1, <2>2, <2>4, <2>5, <2>6 DEF Linked
<1>10. Ordered'
  <2>1. \A i, j \in DOMAIN list' : i < j => Earlier(mem'[list'[i]], mem'[list'[j]])
    BY <1>1, <1>5 DEF IInv, Ordered
  <2>2. \A i \in DOMAIN list' : mem'[list'[i]].id \in 1 .. posted'
    BY <1>1, <1>3, <1>5 DEF IInv, Ordered
  <2>3. \A i, j \in DOMAIN list' : mem'[list'[i]].id = mem'[list'[j]].id => i = j
    BY <1>1, <1>5, <1>7 DEF IInv, Ordered
  <2>. QED  BY <2>1, <2>2, <2>3 DEF Ordered
<1>11. Batched'
  BY <1>3, <1>6 DEF IInv, Batched
<1>12. NoOversleep'
  <2>. SUFFICES ASSUME lpc' = "sleep", ~signal', list' # <<>>
                PROVE  until' <= mem'[Head(list')].when + (slept' - timenow')
    BY DEF NoOversleep
  <2>0. lpc = "sleep" /\ ~signal
    BY <1>3
  <2>1. 1 \in 1 .. n /\ Head(list') = list'[1]
    BY <1>1, EmptySeq DEF DeleteBut
  <2>2. 1 \in DOMAIN list /\ keep[1] \in DOMAIN list
    BY <1>1, <2>1
  <2>3. list # <<>> /\ Head(list) = list[1]
    BY <1>1, <2>2, ListTypes DEF IInv
  <2>4. mem[list[1]].when <= mem[list[keep[1]]].when
    <3>1. keep[1] = 1 \/ 1 < keep[1]
      BY <1>1, <2>1
    <3>2. mem[list[1]].when \in Nat
      BY <1>1, <2>2, ListTypes DEF IInv
    <3>3. \A i, j \in DOMAIN list : i < j => Earlier(mem[list[i]], mem[list[j]])
      BY DEF IInv, Ordered
    <3>4. CASE 1 < keep[1]
      <4>1. Earlier(mem[list[1]], mem[list[keep[1]]])
        BY <2>2, <3>3, <3>4
      <4>2. mem[list[keep[1]]].when \in Nat
        BY <1>1, <2>2, ListTypes DEF IInv
      <4>. QED  BY <3>2, <4>1, <4>2 DEF Earlier
    <3>5. CASE keep[1] = 1
      BY <3>2, <3>5
    <3>. QED  BY <3>1, <3>4, <3>5
  <2>5. mem[list[1]].when \in Nat /\ mem[list[keep[1]]].when \in Nat
    BY <1>1, <2>2, ListTypes DEF IInv
  <2>6. mem'[Head(list')] = mem[list[keep[1]]]
    BY <1>5, <2>1
  <2>7. until <= mem[list[1]].when + (slept - timenow)
    BY <2>0, <2>3 DEF IInv, NoOversleep
  <2>8. until \in Nat /\ slept \in Nat /\ timenow \in Nat
    BY DEF IInv, TypeOK
  <2>9. until <= mem[list[keep[1]]].when + (slept - timenow)
    BY <2>4, <2>5, <2>7, <2>8
  <2>. QED  BY <1>3, <2>6, <2>9
<1>. QED  BY <1>8, <1>9, <1>10, <1>11, <1>12 DEF IInv

\* The first k cells of the list, the due ones, become the batch.
Splits(k) ==
  /\ \A i \in DOMAIN list : mem[list[i]].when <= timenow <=> i <= k
  /\ batch' \in Seq(Cells) /\ Len(batch') = k /\ DOMAIN batch' = 1 .. k
  /\ \A i \in 1 .. k : i \in DOMAIN list /\ batch'[i] = list[i]
  /\ list' \in Seq(Cells) /\ Len(list') = Len(list) - k /\ DOMAIN list' = 1 .. Len(list) - k
  /\ \A i \in 1 .. Len(list) - k : k + i \in DOMAIN list /\ list'[i] = list[k + i]
  /\ batch = <<>> /\ lpc = "take" /\ lpc' = IF k = 0 THEN "sample" ELSE "handle"
  /\ UNCHANGED <<mem, seen, timenow, until, slept, signal, now, posted, handled>>

LEMMA TakeDoes ==
  ASSUME IInv, Take
  PROVE  \E k \in 0 .. Len(list) : Splits(k)
<1>. DEFINE k == Place(timenow)
            n == Len(list)
<1>1. timenow \in Nat /\ list \in Seq(Cells) /\ n \in Nat /\ DOMAIN list = 1 .. n
  BY ListTypes DEF IInv, TypeOK
<1>2. k \in 0 .. n /\ \A i \in DOMAIN list : mem[list[i]].when <= timenow <=> i <= k
  BY <1>1, PlaceIsPrefix DEF IInv
<1>3. /\ batch' = SubSeq(list, 1, k) /\ list' = SubSeq(list, k + 1, n)
      /\ lpc = "take" /\ lpc' = IF k = 0 THEN "sample" ELSE "handle"
      /\ UNCHANGED <<mem, seen, timenow, until, slept, signal, now, posted, handled>>
  BY DEF Take, DueLen, At, Go, wait
<1>4. \A i \in 1 .. n : list[i] \in Cells
  BY <1>1, ListTypes DEF IInv
<1>. HIDE DEF k, n
<1>5. /\ batch' \in Seq(Cells) /\ Len(batch') = k /\ DOMAIN batch' = 1 .. k
      /\ \A i \in 1 .. k : i \in DOMAIN list /\ batch'[i] = list[i]
  <2>1. /\ SubSeq(list, 1, k) \in Seq(Cells) /\ Len(SubSeq(list, 1, k)) = k
        /\ \A i \in 1 .. k : SubSeq(list, 1, k)[i] = list[i]
    BY <1>1, <1>2, <1>4, SubSeqProperties
  <2>. QED  BY <1>1, <1>2, <1>3, <2>1, LenProperties
<1>6. /\ list' \in Seq(Cells) /\ Len(list') = n - k /\ DOMAIN list' = 1 .. n - k
      /\ \A i \in 1 .. n - k : k + i \in DOMAIN list /\ list'[i] = list[k + i]
  <2>1. /\ SubSeq(list, k + 1, n) \in Seq(Cells)
        /\ Len(SubSeq(list, k + 1, n)) = IF k + 1 <= n THEN n - (k + 1) + 1 ELSE 0
        /\ \A i \in 1 .. n - (k + 1) + 1 : SubSeq(list, k + 1, n)[i] = list[(k + 1) + i - 1]
    BY <1>1, <1>2, <1>4, SubSeqProperties
  <2>2. Len(list') = n - k
    BY <1>1, <1>2, <1>3, <2>1
  <2>3. ASSUME NEW i \in 1 .. n - k PROVE k + i \in DOMAIN list /\ list'[i] = list[k + i]
    <3>1. i \in 1 .. n - (k + 1) + 1 /\ (k + 1) + i - 1 = k + i /\ k + i \in 1 .. n
      BY <1>1, <1>2
    <3>. QED  BY <1>1, <1>3, <2>1, <3>1
  <2>. QED  BY <1>3, <2>1, <2>2, <2>3, LenProperties
<1>7. batch = <<>>
  BY <1>3 DEF IInv, Batched
<1>8. Splits(k)
  BY <1>2, <1>3, <1>5, <1>6, <1>7 DEF Splits, n
<1>. QED  BY <1>2, <1>8 DEF n

LEMMA TakeStep ==
  ASSUME IInv, NEW k \in 0 .. Len(list), Splits(k)
  PROVE  IInv'
<1>1. /\ Len(list) \in Nat /\ k \in 0 .. Len(list) /\ DOMAIN list = 1 .. Len(list)
      /\ DOMAIN batch' = 1 .. k /\ \A i \in 1 .. k : i \in DOMAIN list /\ batch'[i] = list[i]
      /\ DOMAIN list' = 1 .. Len(list) - k
      /\ \A i \in 1 .. Len(list) - k : k + i \in DOMAIN list /\ list'[i] = list[k + i]
  BY ListTypes DEF IInv, Splits
<1>2. UNCHANGED <<mem, seen, timenow, until, slept, signal, now, posted, handled>>
  BY DEF Splits
<1>3. TypeOK'
  BY <1>2 DEF IInv, TypeOK, Splits
<1>4. Linked'
  <2>1. \A i, j \in DOMAIN list : list[i] = list[j] => i = j
    BY DEF IInv, Linked
  <2>2. \A i, j \in DOMAIN list' : list'[i] = list'[j] => i = j
    <3>. SUFFICES ASSUME NEW i \in DOMAIN list', NEW j \in DOMAIN list', list'[i] = list'[j]
                  PROVE  i = j
      OBVIOUS
    <3>1. k + i = k + j
      BY <1>1, <2>1
    <3>. QED  BY <1>1, <3>1
  <2>3. \A i, j \in DOMAIN batch' : batch'[i] = batch'[j] => i = j
    BY <1>1, <2>1
  <2>4. \A i \in DOMAIN list', j \in DOMAIN batch' : list'[i] # batch'[j]
    <3>. SUFFICES ASSUME NEW i \in DOMAIN list', NEW j \in DOMAIN batch', list'[i] = batch'[j]
                  PROVE  FALSE
      OBVIOUS
    <3>1. k + i = j
      BY <1>1, <2>1
    <3>. QED  BY <1>1, <3>1
  <2>5. ASSUME NEW c \in Cells PROVE (mem'[c].what # None) = (InList(c)' \/ InBatch(c)')
    <3>1. InList(c) => InList(c)' \/ InBatch(c)'
      <4>1. ASSUME NEW i \in DOMAIN list, list[i] = c PROVE InList(c)' \/ InBatch(c)'
        <5>1. CASE i <= k
          BY <1>1, <4>1, <5>1 DEF InBatch
        <5>2. CASE i > k
          <6>1. i - k \in DOMAIN list' /\ k + (i - k) = i
            BY <1>1, <5>2
          <6>2. list'[i - k] = c
            BY <1>1, <4>1, <6>1
          <6>. QED  BY <6>1, <6>2 DEF InList
        <5>. QED  BY <1>1, <5>1, <5>2
      <4>. QED  BY <4>1 DEF InList
    <3>2. InList(c)' \/ InBatch(c)' => InList(c)
      BY <1>1 DEF InList, InBatch
    <3>3. ~InBatch(c)
      BY DEF InBatch, Splits
    <3>4. (mem[c].what # None) = (InList(c) \/ InBatch(c))
      BY DEF IInv, Linked
    <3>. QED  BY <1>2, <3>1, <3>2, <3>3, <3>4
  <2>6. \A h \in Heap : h > posted' => mem'[h].what = None
    BY <1>2 DEF IInv, Linked
  <2>. QED  BY <2>2, <2>3, <2>4, <2>5, <2>6 DEF Linked
<1>5. Ordered'
  <2>1. /\ \A i, j \in DOMAIN list : i < j => Earlier(mem[list[i]], mem[list[j]])
        /\ \A i \in DOMAIN list : mem[list[i]].id \in 1 .. posted
        /\ \A i, j \in DOMAIN list : mem[list[i]].id = mem[list[j]].id => i = j
    BY DEF IInv, Ordered
  <2>2. \A i, j \in DOMAIN list' : i < j => k + i < k + j
    BY <1>1
  <2>3. \A i, j \in DOMAIN list' : k + i = k + j => i = j
    BY <1>1
  <2>4. \A i, j \in DOMAIN list' : i < j => Earlier(mem'[list'[i]], mem'[list'[j]])
    BY <1>1, <1>2, <2>1, <2>2
  <2>5. \A i \in DOMAIN list' : mem'[list'[i]].id \in 1 .. posted'
    BY <1>1, <1>2, <2>1
  <2>6. \A i, j \in DOMAIN list' : mem'[list'[i]].id = mem'[list'[j]].id => i = j
    <3>. SUFFICES ASSUME NEW i \in DOMAIN list', NEW j \in DOMAIN list',
                         mem'[list'[i]].id = mem'[list'[j]].id
                  PROVE  i = j
      OBVIOUS
    <3>1. k + i \in DOMAIN list /\ k + j \in DOMAIN list
      BY <1>1
    <3>2. mem[list[k + i]].id = mem[list[k + j]].id
      BY <1>1, <1>2
    <3>3. k + i = k + j
      BY <2>1, <3>1, <3>2
    <3>. QED  BY <2>3, <3>3
  <2>. QED  BY <2>4, <2>5, <2>6 DEF Ordered
<1>6. Batched'
  <2>1. (batch' # <<>>) = (lpc' \in {"handle", "giveBack", "reopen"})
    BY EmptySeq DEF Splits
  <2>2. \A i \in DOMAIN batch' : mem'[batch'[i]].when <= timenow'
    BY <1>1, <1>2 DEF Splits
  <2>. QED  BY <1>2, <2>1, <2>2 DEF IInv, Batched, Splits
<1>7. NoOversleep'
  BY DEF NoOversleep, Splits
<1>. QED  BY <1>3, <1>4, <1>5, <1>6, <1>7 DEF IInv

LEMMA InitHolds == Init => IInv
<1>. SUFFICES ASSUME Init PROVE IInv
  OBVIOUS
<1>1. Free \in Records /\ Free.what = None
  BY DEF Free, Records
<1>2. DOMAIN list = {} /\ DOMAIN batch = {}
  BY DEF Init
<1>3. TypeOK
  <2>1. mem \in [Cells -> Records]
    BY <1>1 DEF Init
  <2>2. list \in Seq(Cells) /\ batch \in Seq(Cells) /\ handled \in Seq(Nat)
    BY DEF Init
  <2>3. posted \in 0 .. MaxPosts
    BY ConstantsAssumption DEF Init
  <2>. QED  BY <2>1, <2>2, <2>3 DEF Init, TypeOK
<1>4. Linked
  BY <1>1, <1>2 DEF Init, Linked, InList, InBatch, Cells
<1>5. Ordered /\ Batched /\ NoOversleep
  BY <1>2 DEF Init, Ordered, Batched, NoOversleep
<1>. QED  BY <1>3, <1>4, <1>5 DEF IInv

LEMMA NextHolds ==
  ASSUME IInv, [Next]_vars
  PROVE  IInv'
<1>1. CASE Post
  BY <1>1, PostDoes, PostStep
<1>2. CASE Delete
  BY <1>2, DeleteDoes, DeleteStep
<1>3. CASE Sample \/ Look \/ Peek \/ Tick
  BY <1>3, ClockSteps
<1>4. CASE Wait \/ Wake
  BY <1>4, WaitSteps
<1>5. CASE Handle
  BY <1>5, HandleStep
<1>6. CASE GiveBack \/ Reopen
  BY <1>6, LeaveDoes, LeaveStep
<1>7. CASE Take
  BY <1>7, TakeDoes, TakeStep
<1>8. CASE UNCHANGED vars
  <2>1. UNCHANGED <<list, mem, batch, lpc, seen, timenow, until, slept, signal, now, posted, handled>>
    BY <1>8 DEF vars, queue, loop
  <2>2. Linked' /\ Ordered'
    BY <2>1, FrameLinks
  <2>3. TypeOK' /\ Batched' /\ NoOversleep'
    BY <2>1 DEF IInv, TypeOK, Batched, NoOversleep
  <2>. QED  BY <2>2, <2>3 DEF IInv
<1>. QED
  BY <1>1, <1>2, <1>3, <1>4, <1>5, <1>6, <1>7, <1>8 DEF Next, Loop

LEMMA Invariance == Spec => []IInv
BY InitHolds, NextHolds, PTL DEF Spec

LEMMA LinkedAccounts ==
  ASSUME IInv
  PROVE  SlotsAccounted
<1>. DEFINE n == Len(list)
            all == list \o batch
<1>1. /\ list \in Seq(Cells) /\ batch \in Seq(Cells) /\ n \in Nat /\ Len(batch) \in Nat
      /\ DOMAIN list = 1 .. n /\ DOMAIN batch = 1 .. Len(batch)
  BY ListTypes DEF IInv, TypeOK
<1>2. /\ all \in Seq(Cells) /\ Len(all) = n + Len(batch)
      /\ \A i \in 1 .. n + Len(batch) : all[i] = IF i <= n THEN list[i] ELSE batch[i - n]
  BY <1>1, ConcatProperties
<1>3. DOMAIN all = 1 .. n + Len(batch)
  BY <1>2, LenProperties
<1>. HIDE DEF n, all
<1>4. ASSUME NEW i \in DOMAIN all, NEW j \in DOMAIN all, all[i] = all[j]
      PROVE  i = j
  <2>1. \A x \in DOMAIN all :
          \/ x <= n /\ x \in DOMAIN list /\ all[x] = list[x]
          \/ x > n /\ x - n \in DOMAIN batch /\ all[x] = batch[x - n]
    <3>. TAKE x \in DOMAIN all
    <3>1. x \in 1 .. n + Len(batch) /\ all[x] = IF x <= n THEN list[x] ELSE batch[x - n]
      BY <1>2, <1>3
    <3>2. CASE x <= n
      BY <1>1, <3>1, <3>2
    <3>3. CASE x > n
      <4>1. x - n \in 1 .. Len(batch) /\ ~(x <= n)
        BY <1>1, <3>1, <3>3
      <4>. QED  BY <1>1, <3>1, <3>3, <4>1
    <3>. QED  BY <1>1, <3>1, <3>2, <3>3
  <2>2. CASE i <= n /\ j <= n
    BY <1>1, <1>3, <1>4, <2>1, <2>2 DEF IInv, Linked
  <2>3. CASE i > n /\ j > n
    <3>1. i - n \in DOMAIN batch /\ j - n \in DOMAIN batch /\ batch[i - n] = batch[j - n]
      BY <1>1, <1>3, <1>4, <2>1, <2>3
    <3>2. i - n = j - n
      BY <3>1 DEF IInv, Linked
    <3>. QED  BY <1>1, <1>3, <3>2
  <2>4. CASE i <= n /\ j > n
    BY <1>1, <1>3, <1>4, <2>1, <2>4 DEF IInv, Linked
  <2>5. CASE i > n /\ j <= n
    BY <1>1, <1>3, <1>4, <2>1, <2>5 DEF IInv, Linked
  <2>. QED  BY <1>1, <1>3, <2>2, <2>3, <2>4, <2>5
<1>. QED  BY <1>4 DEF SlotsAccounted, IInv, Linked, all

\* No cell is lost or used twice: it is in use exactly while it is at one place of the
\* list or of the batch (postMessageDelay, deleteMessage, msgLoop).
THEOREM CellsAreAccounted == Spec => []SlotsAccounted
<1>1. IInv => SlotsAccounted
  BY LinkedAccounts
<1>. QED  BY <1>1, Invariance, PTL

\* A wait nobody has signalled ends no later than the first message is due, but for the
\* time between the loop's look at the clock and the wait (msgLoop).
THEOREM WaitIsBounded == Spec => []NoOversleep
<1>1. IInv => NoOversleep
  BY DEF IInv
<1>. QED  BY <1>1, Invariance, PTL

-----------------------------------------------------------------------------
(* The queue implements MsgOutbox.                                         *)

\* A set of messages that differ in their ids.
MessageSet(S) ==
  /\ IsFiniteSet(S)
  /\ \A m \in S : m.id \in Nat /\ m.when \in Nat
  /\ \A m, n \in S : m.id = n.id => m = n

\* The sequence q has the ids of S in the order of handling.
Sorts(q, S) ==
  /\ q \in [1 .. Cardinality(S) -> {m.id : m \in S}]
  /\ \A i \in DOMAIN q : \E m \in S : m.id = q[i]
  /\ \A i, j \in DOMAIN q : i < j =>
       \E m, n \in S : m.id = q[i] /\ n.id = q[j] /\ Outbox!Before(m, n)

LEMMA SortsAll ==
  ASSUME NEW S, MessageSet(S), NEW q, Sorts(q, S)
  PROVE  /\ \A i, j \in DOMAIN q : q[i] = q[j] => i = j
         /\ \A m \in S : \E i \in DOMAIN q : q[i] = m.id
<1>. DEFINE n == Cardinality(S)
            g == [i \in 1 .. n |-> CHOOSE m \in S : m.id = q[i]]
<1>1. n \in Nat /\ IsFiniteSet(S) /\ DOMAIN q = 1 .. n
  BY FS_CardinalityType DEF MessageSet, Sorts
<1>. HIDE DEF n
<1>2. \A i \in 1 .. n : g[i] \in S /\ g[i].id = q[i]
  <2>. TAKE i \in 1 .. n
  <2>1. \E m \in S : m.id = q[i]
    BY <1>1 DEF Sorts
  <2>. QED  BY <2>1
<1>3. g \in [1 .. n -> S]
  BY <1>2
<1>. HIDE DEF g
<1>4. ASSUME NEW i \in 1 .. n, NEW j \in 1 .. n, i < j PROVE q[i] # q[j]
  <2>1. PICK m \in S, p \in S : m.id = q[i] /\ p.id = q[j] /\ Outbox!Before(m, p)
    BY <1>1, <1>4 DEF Sorts
  <2>2. q[i] = q[j] => m = p
    BY <2>1 DEF MessageSet
  <2>3. m.id \in Nat /\ m.when \in Nat
    BY DEF MessageSet
  <2>. QED  BY <2>1, <2>2, <2>3 DEF Outbox!Before
<1>5. \A i, j \in 1 .. n : q[i] = q[j] => i = j
  <2>. SUFFICES ASSUME NEW i \in 1 .. n, NEW j \in 1 .. n, i # j PROVE q[i] # q[j]
    OBVIOUS
  <2>1. i < j \/ j < i
    BY <1>1
  <2>. QED  BY <1>4, <2>1
<1>6. g \in Injection(1 .. n, S)
  BY <1>2, <1>3, <1>5 DEF Injection, IsInjective
<1>7. Cardinality(1 .. n) = n
  BY <1>1, FS_Interval
<1>8. g \in Surjection(1 .. n, S)
  BY <1>1, <1>6, <1>7, FS_Injection DEF n
<1>9. \A m \in S : \E i \in 1 .. n : g[i] = m
  BY <1>8 DEF Surjection
<1>. QED  BY <1>1, <1>2, <1>5, <1>9

\* Two sorts of a set cannot differ first at i with the smaller message in q.
LEMMA SortsAgree ==
  ASSUME NEW S, MessageSet(S), NEW q, NEW r, Sorts(q, S), Sorts(r, S),
         NEW i \in DOMAIN q, \A j \in DOMAIN q : j < i => q[j] = r[j],
         NEW m \in S, NEW p \in S, m.id = q[i], p.id = r[i]
  PROVE  ~Outbox!Before(m, p)
<1>. SUFFICES ASSUME Outbox!Before(m, p) PROVE FALSE
  OBVIOUS
<1>1. DOMAIN q = 1 .. Cardinality(S) /\ DOMAIN r = DOMAIN q /\ Cardinality(S) \in Nat
  BY FS_CardinalityType DEF Sorts, MessageSet
<1>2. PICK j \in DOMAIN r : r[j] = m.id
  BY SortsAll
<1>3. m.id \in Nat /\ m.when \in Nat /\ p.id \in Nat /\ p.when \in Nat
  BY DEF MessageSet
<1>4. CASE j < i
  <2>1. q[j] = q[i] /\ j \in DOMAIN q
    BY <1>1, <1>2, <1>4
  <2>2. j = i
    BY <2>1, SortsAll
  <2>. QED  BY <1>1, <1>4, <2>2
<1>5. CASE j = i
  <2>1. m = p
    BY <1>2, <1>5 DEF MessageSet
  <2>. QED  BY <1>3, <2>1 DEF Outbox!Before
<1>6. CASE i < j
  <2>1. PICK a \in S, b \in S : a.id = r[i] /\ b.id = r[j] /\ Outbox!Before(a, b)
    BY <1>1, <1>6 DEF Sorts
  <2>2. a = p /\ b = m
    BY <1>2, <2>1 DEF MessageSet
  <2>. QED  BY <1>3, <2>1, <2>2 DEF Outbox!Before
<1>. QED  BY <1>1, <1>4, <1>5, <1>6

\* InOrder of MsgOutbox is the sort of a set.
LEMMA SortIsInOrder ==
  ASSUME NEW S, MessageSet(S), NEW q, Sorts(q, S)
  PROVE  Outbox!InOrder(S) = q
<1>. DEFINE r == Outbox!InOrder(S)
            n == Cardinality(S)
<1>1. Sorts(r, S)
  <2>. DEFINE T == [1 .. Cardinality(S) -> {m.id : m \in S}]
              P(x) == /\ \A i \in DOMAIN x : \E m \in S : m.id = x[i]
                      /\ \A i, j \in DOMAIN x : i < j =>
                           \E m, p \in S : m.id = x[i] /\ p.id = x[j] /\ Outbox!Before(m, p)
  <2>1. q \in T /\ P(q)
    BY DEF Sorts
  <2>a. Outbox!Cardinality(S) = Cardinality(S)
    BY DEF Outbox!Cardinality, Cardinality
  <2>2. r = CHOOSE x \in T : P(x)
    BY <2>a, Zenon DEF Outbox!InOrder
  <2>. HIDE DEF T, P, r
  <2>3. r \in T /\ P(r)
    BY <2>1, <2>2
  <2>. QED  BY <2>3 DEF T, P, Sorts
<1>2. n \in Nat /\ DOMAIN q = 1 .. n /\ DOMAIN r = 1 .. n
  BY <1>1, FS_CardinalityType DEF Sorts, MessageSet
<1>3. q = [i \in 1 .. n |-> q[i]] /\ r = [i \in 1 .. n |-> r[i]]
  BY <1>1 DEF Sorts
<1>. HIDE DEF r, n
<1>. DEFINE D == {i \in 1 .. n : q[i] # r[i]}
<1>4. D = {}
  <2>. SUFFICES ASSUME D # {} PROVE FALSE
    OBVIOUS
  <2>1. D \subseteq Nat
    BY <1>2
  <2>2. PICK i \in D : \A j \in D : i <= j
    BY <2>1, LeastNat
  <2>3. \A j \in 1 .. n : j < i => q[j] = r[j]
    BY <1>2, <2>1, <2>2
  <2>4. PICK m \in S : m.id = q[i]
    BY <1>2 DEF Sorts
  <2>5. PICK p \in S : p.id = r[i]
    BY <1>1, <1>2 DEF Sorts
  <2>6. ~Outbox!Before(m, p)
    BY <1>1, <1>2, <2>3, <2>4, <2>5, SortsAgree
  <2>7. ~Outbox!Before(p, m)
    BY <1>1, <1>2, <2>3, <2>4, <2>5, SortsAgree
  <2>8. m.id \in Nat /\ m.when \in Nat /\ p.id \in Nat /\ p.when \in Nat
    BY DEF MessageSet
  <2>. QED  BY <2>2, <2>4, <2>5, <2>6, <2>7, <2>8 DEF Outbox!Before
<1>5. \A i \in 1 .. n : q[i] = r[i]
  BY <1>4
<1>6. q = r
  BY <1>3, <1>5
<1>. QED  BY <1>6 DEF r

Pending == {Message(list[i]) : i \in DOMAIN list}
Taken   == [i \in DOMAIN Unhandled |-> mem[Unhandled[i]].id]

LEMMA TakenIs ==
  ASSUME IInv
  PROVE  /\ Unhandled \in Seq(Cells) /\ Taken \in Seq(Nat) /\ Len(Taken) = Len(Unhandled)
         /\ DOMAIN Taken = DOMAIN Unhandled /\ DOMAIN Unhandled = 1 .. Len(Unhandled)
         /\ Len(Unhandled) \in Nat /\ (Taken = <<>> <=> Unhandled = <<>>)
         /\ \A i \in DOMAIN Unhandled : /\ Unhandled[i] \in Cells
                                      /\ \E j \in DOMAIN batch : Unhandled[i] = batch[j]
         /\ \A i \in DOMAIN Unhandled : Taken[i] = mem[Unhandled[i]].id
<1>1. batch \in Seq(Cells)
  BY DEF IInv, TypeOK
<1>2. lpc \in {"giveBack", "reopen"} => batch # <<>>
  BY DEF IInv, Batched
<1>3. Unhandled \in Seq(Cells)
  BY <1>1, <1>2, TailIs DEF Unhandled
<1>4. DOMAIN Unhandled = 1 .. Len(Unhandled) /\ Len(Unhandled) \in Nat
      /\ \A i \in DOMAIN Unhandled : Unhandled[i] \in Cells
  BY <1>3, LenProperties, ElementOfSeq
<1>5. \A i \in DOMAIN Unhandled : \E j \in DOMAIN batch : Unhandled[i] = batch[j]
  <2>1. CASE lpc \in {"giveBack", "reopen"}
    BY <1>1, <1>2, <2>1, TailIs DEF Unhandled
  <2>2. CASE lpc \notin {"giveBack", "reopen"}
    BY <2>2 DEF Unhandled
  <2>. QED  BY <2>1, <2>2
<1>6. \A i \in DOMAIN Unhandled : mem[Unhandled[i]].id \in Nat
  BY <1>4, ListTypes DEF IInv
<1>7. Taken \in Seq(Nat) /\ Len(Taken) = Len(Unhandled) /\ DOMAIN Taken = DOMAIN Unhandled
      /\ \A i \in DOMAIN Unhandled : Taken[i] = mem[Unhandled[i]].id
  BY <1>4, <1>6 DEF Taken
<1>8. Taken = <<>> <=> Unhandled = <<>>
  BY <1>3, <1>7, EmptySeq
<1>. QED  BY <1>3, <1>4, <1>5, <1>7, <1>8

LEMMA TakenKept ==
  ASSUME IInv, Unhandled' = Unhandled,
         \A i \in DOMAIN Unhandled : mem'[Unhandled[i]] = mem[Unhandled[i]]
  PROVE  Taken' = Taken
BY DEF Taken

LEMMA PendingKept ==
  ASSUME IInv, list' = list, \A i \in DOMAIN list : mem'[list[i]] = mem[list[i]]
  PROVE  Pending' = Pending
BY DEF Pending, Message

\* The steps MsgOutbox does not see.
LEMMA Stutters ==
  ASSUME IInv, Pending' = Pending, Taken' = Taken, UNCHANGED <<now, posted, handled>>
  PROVE  UNCHANGED Outbox!vars
BY DEF Outbox!vars, Pending, Taken

LEMMA HiddenSteps ==
  ASSUME IInv, Sample \/ Look \/ Peek \/ Wait \/ Wake
  PROVE  UNCHANGED Outbox!vars
<1>1. UNCHANGED <<list, mem, batch, now, posted, handled>>
  BY DEF Sample, Look, Peek, Wait, Wake, queue
<1>2. lpc \notin {"giveBack", "reopen"} /\ lpc' \notin {"giveBack", "reopen"}
  BY DEF Sample, Look, Peek, Wait, Wake, At, Go
<1>3. Unhandled' = Unhandled
  BY <1>1, <1>2 DEF Unhandled
<1>4. Pending' = Pending /\ Taken' = Taken
  BY <1>1, <1>3, TakenKept, PendingKept
<1>. QED  BY <1>1, <1>4, Stutters

LEMMA TickImplements ==
  ASSUME IInv, Tick
  PROVE  Outbox!Tick
<1>1. UNCHANGED <<list, mem, batch, lpc, posted, handled>> /\ now' = now + 1
  BY DEF Tick, queue, loop
<1>2. Unhandled' = Unhandled
  BY <1>1 DEF Unhandled
<1>3. Pending' = Pending /\ Taken' = Taken
  BY <1>1, <1>2, TakenKept, PendingKept
<1>. QED  BY <1>1, <1>3 DEF Outbox!Tick, Pending, Taken

LEMMA LeaveImplements ==
  ASSUME IInv, NEW cell \in Records, LeavesHead(cell)
  PROVE  UNCHANGED Outbox!vars
<1>1. UNCHANGED <<list, now, posted, handled>> /\ mem' = [mem EXCEPT ![Head(batch)] = cell]
  BY DEF LeavesHead
<1>2. /\ Unhandled = Tail(batch) /\ batch \in Seq(Cells) /\ batch # <<>>
      /\ Head(batch) = batch[1] /\ 1 \in DOMAIN batch /\ Head(batch) \in Cells
      /\ \A i \in DOMAIN Unhandled : i + 1 \in DOMAIN batch /\ Unhandled[i] = batch[i + 1]
                                 /\ i + 1 # 1
  BY TailIs, ListTypes DEF LeavesHead, Unhandled, IInv, TypeOK
<1>3. Unhandled' = Unhandled
  BY <1>2 DEF LeavesHead, Unhandled
<1>4. \A i \in DOMAIN Unhandled : Unhandled[i] # Head(batch)
  BY <1>2 DEF IInv, Linked
<1>5. \A i \in DOMAIN list : list[i] # Head(batch) /\ list[i] \in Cells
  BY <1>2, ListTypes DEF IInv, Linked
<1>6. Taken' = Taken
  <2>1. \A i \in DOMAIN Unhandled : mem'[Unhandled[i]] = mem[Unhandled[i]]
    BY <1>1, <1>4, TakenIs DEF IInv, TypeOK
  <2>. QED  BY <1>3, <2>1, TakenKept
<1>7. Pending' = Pending
  <2>1. \A i \in DOMAIN list : mem'[list[i]] = mem[list[i]]
    BY <1>1, <1>5 DEF IInv, TypeOK
  <2>. QED  BY <1>1, <2>1, PendingKept
<1>. QED  BY <1>1, <1>6, <1>7, Stutters

LEMMA HandleImplements ==
  ASSUME IInv, Handle
  PROVE  Outbox!Handle
<1>1. lpc = "handle" /\ lpc' = "giveBack" /\ batch # <<>> /\ batch \in Seq(Cells)
      /\ UNCHANGED <<list, mem, batch, now, posted>>
  BY DEF Handle, At, Go, queue, IInv, Batched, TypeOK
<1>2. Unhandled = batch /\ Unhandled' = Tail(batch)
  BY <1>1 DEF Unhandled
<1>3. 1 \in DOMAIN batch /\ Head(batch) = batch[1] /\ Head(batch) \in Cells
  BY <1>1, TailIs, ListTypes DEF IInv
<1>4. handled' = Append(handled, mem[Head(batch)].id)
  <2>1. mem[Head(batch)].what # None
    BY <1>3 DEF IInv, Linked, InBatch
  <2>2. mem[Head(batch)].when <= timenow
    BY <1>3 DEF IInv, Batched
  <2>. QED  BY <2>1, <2>2 DEF Handle
<1>5. /\ Taken \in Seq(Nat) /\ Taken # <<>> /\ Len(Taken) = Len(batch)
      /\ \A i \in DOMAIN batch : Taken[i] = mem[batch[i]].id
  BY <1>1, <1>2, TakenIs
<1>6. Head(Taken) = mem[Head(batch)].id
  BY <1>3, <1>5, TailIs
<1>7. Taken' = Tail(Taken)
  <2>1. /\ Taken' = [i \in DOMAIN Tail(batch) |-> mem[Tail(batch)[i]].id]
        /\ DOMAIN Taken' = DOMAIN Tail(batch)
    BY <1>1, <1>2 DEF Taken
  <2>2. /\ DOMAIN Tail(batch) = 1 .. Len(batch) - 1 /\ Len(batch) \in Nat
        /\ \A i \in DOMAIN Tail(batch) : i + 1 \in DOMAIN batch /\ Tail(batch)[i] = batch[i + 1]
    BY <1>1, TailIs, LenProperties
  <2>3. /\ Tail(Taken) \in Seq(Nat) /\ Len(Tail(Taken)) = Len(batch) - 1
        /\ DOMAIN Tail(Taken) = 1 .. Len(batch) - 1
        /\ \A i \in DOMAIN Tail(Taken) : Tail(Taken)[i] = Taken[i + 1]
    BY <1>5, TailIs
  <2>4. \A i \in 1 .. Len(batch) - 1 : Tail(Taken)[i] = mem[Tail(batch)[i]].id
    BY <1>5, <2>2, <2>3
  <2>5. Tail(Taken) = [i \in 1 .. Len(batch) - 1 |-> Tail(Taken)[i]]
    <3>1. Tail(Taken) \in [1 .. Len(batch) - 1 -> Nat]
      BY <2>3, LenProperties
    <3>. QED  BY <3>1
  <2>. QED  BY <2>1, <2>2, <2>4, <2>5
<1>8. Pending' = Pending
  BY <1>1, PendingKept
<1>. QED
  BY <1>1, <1>4, <1>5, <1>6, <1>7, <1>8 DEF Outbox!Handle, Pending, Taken

LEMMA PostImplements ==
  ASSUME IInv, NEW w \in What, NEW d \in Delays, NEW c \in Cells,
         NEW k \in 0 .. Len(list), PostAt(w, d, c, k)
  PROVE  Outbox!Post
<1>. DEFINE n == Len(list)
            m == [id |-> posted + 1, what |-> w, when |-> Due(d)]
<1>1. /\ n \in Nat /\ k \in 0 .. n /\ DOMAIN list = 1 .. n /\ DOMAIN list' = 1 .. n + 1
      /\ \A i \in 1 .. n : list[i] \in Cells /\ mem'[list[i]] = mem[list[i]]
      /\ \A i \in DOMAIN batch : batch[i] \in Cells /\ mem'[batch[i]] = mem[batch[i]]
      /\ \A i \in 1 .. n + 1 :
           list'[i] = IF i <= k THEN list[i] ELSE IF i = k + 1 THEN c ELSE list[i - 1]
      /\ mem'[c] = [when |-> Due(d), what |-> w, id |-> posted + 1]
  BY ListTypes DEF IInv, PostAt
<1>2. UNCHANGED <<batch, lpc, now, handled>> /\ posted' = posted + 1
  BY DEF PostAt
<1>3. Message(c)' = m
  BY <1>1 DEF Message
<1>4. \A i \in 1 .. n : Message(list[i]) = [id |-> mem[list[i]].id, what |-> mem[list[i]].what,
                                        when |-> mem[list[i]].when]
  BY DEF Message
<1>5. /\ \A i \in 1 .. n + 1 :
           Message(list[i])' = [id |-> mem'[list'[i]].id, what |-> mem'[list'[i]].what,
                               when |-> mem'[list'[i]].when]
      /\ Pending' = {Message(list[i])' : i \in 1 .. n + 1}
      /\ Pending = {Message(list[i]) : i \in 1 .. n}
  BY <1>1 DEF Message, Pending
<1>. HIDE DEF n, m
<1>6. Pending' = Pending \cup {m}
  <2>1. ASSUME NEW i \in 1 .. n + 1 PROVE Message(list[i])' \in Pending \cup {m}
    <3>1. CASE i <= k
      <4>1. i \in 1 .. n /\ list'[i] = list[i]
        BY <1>1, <3>1
      <4>2. Message(list[i])' = Message(list[i])
        BY <1>1, <1>4, <1>5, <4>1
      <4>. QED  BY <1>5, <4>1, <4>2
    <3>2. CASE i = k + 1
      <4>1. list'[i] = c
        BY <1>1, <3>2
      <4>2. Message(list[i])' = m
        BY <1>3, <4>1 DEF Message
      <4>. QED  BY <4>2
    <3>3. CASE i > k + 1
      <4>1. i - 1 \in 1 .. n /\ list'[i] = list[i - 1]
        BY <1>1, <3>3
      <4>2. Message(list[i])' = Message(list[i - 1])
        BY <1>1, <1>4, <1>5, <4>1
      <4>. QED  BY <1>5, <4>1, <4>2
    <3>. QED  BY <1>1, <3>1, <3>2, <3>3
  <2>2. ASSUME NEW i \in 1 .. n PROVE Message(list[i]) \in Pending'
    <3>1. CASE i <= k
      <4>1. i \in 1 .. n + 1 /\ list'[i] = list[i]
        BY <1>1, <3>1
      <4>2. Message(list[i])' = Message(list[i])
        BY <1>1, <1>4, <1>5, <4>1
      <4>. QED  BY <1>5, <4>1, <4>2
    <3>2. CASE i > k
      <4>1. i + 1 \in 1 .. n + 1 /\ (i + 1) - 1 = i
        BY <1>1
      <4>2. list'[i + 1] = list[i]
        BY <1>1, <3>2, <4>1
      <4>3. Message(list[i + 1])' = Message(list[i])
        BY <1>1, <1>4, <1>5, <4>1, <4>2
      <4>. QED  BY <1>5, <4>1, <4>3
    <3>. QED  BY <1>1, <3>1, <3>2
  <2>3. m \in Pending'
    <3>1. k + 1 \in 1 .. n + 1
      BY <1>1
    <3>2. list'[k + 1] = c
      BY <1>1, <3>1
    <3>3. Message(list[k + 1])' = m
      BY <1>3, <3>2 DEF Message
    <3>. QED  BY <1>5, <3>1, <3>3
  <2>4. \A x \in Pending' : x \in Pending \cup {m}
    BY <1>5, <2>1
  <2>5. \A x \in Pending : x \in Pending'
    BY <1>5, <2>2
  <2>. QED  BY <2>3, <2>4, <2>5
<1>7. Taken' = Taken
  <2>1. Unhandled' = Unhandled
    BY <1>2 DEF Unhandled
  <2>2. \A i \in DOMAIN Unhandled : mem'[Unhandled[i]] = mem[Unhandled[i]]
    BY <1>1, TakenIs
  <2>. QED  BY <2>1, <2>2, TakenKept
<1>8. m = [id |-> posted', what |-> w, when |-> Outbox!Due(d)]
  BY <1>2 DEF m, Outbox!Due, Due
<1>. QED
  BY <1>2, <1>6, <1>7, <1>8 DEF Outbox!Post, Pending, Taken

LEMMA DeleteImplements ==
  ASSUME IInv, NEW w \in What, NEW n \in 0 .. Len(list), NEW keep \in [1 .. n -> DOMAIN list],
         DeleteBut(w, n, keep)
  PROVE  Outbox!Delete
<1>1. /\ \A i \in DOMAIN list : list[i] \in Cells
      /\ \A i \in DOMAIN batch : batch[i] \in Cells
      /\ \A i \in 1 .. n : keep[i] \in DOMAIN list
      /\ DOMAIN list' = 1 .. n /\ \A i \in 1 .. n : list'[i] = list[keep[i]]
      /\ \A i \in DOMAIN list : mem[list[i]].what # w <=> \E j \in 1 .. n : keep[j] = i
      /\ \A c \in Cells : mem'[c] = IF InList(c) /\ mem[c].what = w THEN Free ELSE mem[c]
  BY ListTypes DEF IInv, DeleteBut
<1>2. UNCHANGED <<batch, lpc, now, posted, handled>>
  BY DEF DeleteBut
<1>3. \A i \in 1 .. n : mem'[list'[i]] = mem[list[keep[i]]] /\ mem[list[keep[i]]].what # w
  BY <1>1
<1>4. \A i \in 1 .. n : Message(list[i])' = Message(list[keep[i]])
  BY <1>3 DEF Message
<1>5. \A i \in DOMAIN list : Message(list[i]).what = mem[list[i]].what
  BY DEF Message
<1>6. Pending' = {x \in Pending : x.what # w}
  <2>0. /\ Pending' = {Message(list[i])' : i \in 1 .. n}
        /\ Pending = {Message(list[i]) : i \in DOMAIN list}
    BY <1>1 DEF Pending
  <2>1. ASSUME NEW i \in 1 .. n
        PROVE  Message(list[i])' \in Pending /\ (Message(list[i])').what # w
    BY <1>1, <1>3, <1>4, <1>5, <2>0
  <2>2. ASSUME NEW i \in DOMAIN list, Message(list[i]).what # w
        PROVE  Message(list[i]) \in Pending'
    BY <1>1, <1>4, <1>5, <2>0, <2>2
  <2>3. \A x \in Pending' : x \in Pending /\ x.what # w
    BY <2>0, <2>1
  <2>4. \A x \in Pending : x.what # w => x \in Pending'
    BY <2>0, <2>2
  <2>. QED  BY <2>3, <2>4
<1>7. Taken' = Taken
  <2>1. Unhandled' = Unhandled
    BY <1>2 DEF Unhandled
  <2>2. \A i \in DOMAIN batch : mem'[batch[i]] = mem[batch[i]]
    BY <1>1 DEF IInv, Linked, InList
  <2>3. \A i \in DOMAIN Unhandled : mem'[Unhandled[i]] = mem[Unhandled[i]]
    BY <2>2, TakenIs
  <2>. QED  BY <2>1, <2>3, TakenKept
<1>. QED
  BY <1>2, <1>6, <1>7 DEF Outbox!Delete, Pending, Taken

\* The messages of the first k cells are what is due, and the loop takes them in order.
LEMMA DueIsSorted ==
  ASSUME IInv, NEW k \in 0 .. Len(list), Splits(k), k > 0
  PROVE  /\ Pending' = Pending \ {m \in Pending : m.when <= timenow}
         /\ {m \in Pending : m.when <= timenow} # {}
         /\ Outbox!InOrder({m \in Pending : m.when <= timenow}) = Taken'
<1>. DEFINE n   == Len(list)
            due == {m \in Pending : m.when <= timenow}
            f   == [i \in 1 .. k |-> Message(list[i])]
<1>1. /\ n \in Nat /\ k \in 0 .. n /\ k > 0 /\ DOMAIN list = 1 .. n /\ timenow \in Nat
      /\ DOMAIN batch' = 1 .. k /\ \A i \in 1 .. k : i \in DOMAIN list /\ batch'[i] = list[i]
      /\ DOMAIN list' = 1 .. n - k
      /\ \A i \in 1 .. n - k : k + i \in DOMAIN list /\ list'[i] = list[k + i]
      /\ \A i \in DOMAIN list : mem[list[i]].when <= timenow <=> i <= k
      /\ UNCHANGED mem /\ lpc' = "handle"
  BY ListTypes DEF IInv, TypeOK, Splits
<1>2. /\ \A i \in DOMAIN list : list[i] \in Cells
      /\ \A c \in Cells : mem[c].id \in Nat /\ mem[c].when \in Nat
      /\ \A i, j \in DOMAIN list : mem[list[i]].id = mem[list[j]].id => i = j
      /\ \A i, j \in DOMAIN list : i < j => Earlier(mem[list[i]], mem[list[j]])
  BY ListTypes DEF IInv, Ordered
<1>3. /\ \A i \in DOMAIN list : /\ Message(list[i]).id = mem[list[i]].id
                              /\ Message(list[i]).when = mem[list[i]].when
      /\ \A i \in 1 .. n - k : Message(list[i])' = Message(list[k + i])
      /\ Pending = {Message(list[i]) : i \in DOMAIN list}
      /\ Pending' = {Message(list[i])' : i \in 1 .. n - k}
  BY <1>1 DEF Message, Pending
<1>. HIDE DEF n
<1>4. due = {Message(list[i]) : i \in 1 .. k}
  <2>1. ASSUME NEW m \in due PROVE m \in {Message(list[i]) : i \in 1 .. k}
    <3>1. PICK i \in DOMAIN list : m = Message(list[i]) /\ m.when <= timenow
      BY <1>3
    <3>2. mem[list[i]].when <= timenow
      BY <1>3, <3>1
    <3>3. i \in 1 .. n /\ i <= k
      BY <1>1, <3>1, <3>2
    <3>4. i \in 1 .. k
      BY <1>1, <3>3
    <3>. QED  BY <3>1, <3>4
  <2>2. ASSUME NEW i \in 1 .. k PROVE Message(list[i]) \in due
    BY <1>1, <1>3
  <2>. QED  BY <2>1, <2>2
<1>5. \A i \in 1 .. n - k : Message(list[k + i]) \notin due
  <2>. TAKE i \in 1 .. n - k
  <2>1. k + i \in DOMAIN list /\ ~(k + i <= k)
    BY <1>1
  <2>. QED  BY <1>1, <1>3, <2>1
<1>6. Pending' = Pending \ due
  <2>1. ASSUME NEW i \in 1 .. n - k PROVE Message(list[i])' \in Pending \ due
    BY <1>1, <1>3, <1>5
  <2>2. ASSUME NEW i \in DOMAIN list, Message(list[i]) \notin due
        PROVE  Message(list[i]) \in Pending'
    <3>1. i > k
      BY <1>1, <1>4, <2>2
    <3>2. i - k \in 1 .. n - k /\ k + (i - k) = i
      BY <1>1, <3>1
    <3>3. Message(list[i - k])' = Message(list[i])
      BY <1>3, <3>2
    <3>. QED  BY <1>3, <3>2, <3>3
  <2>3. \A x \in Pending' : x \in Pending \ due
    BY <1>3, <2>1
  <2>4. \A x \in Pending : x \notin due => x \in Pending'
    BY <1>3, <2>2
  <2>. QED  BY <2>3, <2>4
<1>a. k \in Nat /\ 1 \in 1 .. k
  <2>1. n \in Nat /\ k \in 0 .. n /\ k > 0
    BY <1>1
  <2>. QED  BY <2>1
<1>7. due # {}
  BY <1>4, <1>a
<1>. HIDE DEF due
<1>8. IsFiniteSet(due) /\ Cardinality(due) = k
  <2>1. f \in [1 .. k -> due]
    BY <1>4
  <2>2. \A i, j \in 1 .. k : f[i] = f[j] => i = j
    BY <1>1, <1>2, <1>3
  <2>3. \A m \in due : \E i \in 1 .. k : f[i] = m
    BY <1>4
  <2>. HIDE DEF f
  <2>4. f \in Bijection(1 .. k, due)
    BY <2>1, <2>2, <2>3 DEF Bijection, Injection, IsInjective, Surjection
  <2>5. ExistsBijection(1 .. k, due)
    BY <2>4 DEF ExistsBijection
  <2>6. IsFiniteSet(1 .. k) /\ Cardinality(1 .. k) = k
    BY <1>a, FS_Interval
  <2>. QED  BY <2>5, <2>6, FS_Bijection
<1>9. MessageSet(due)
  <2>1. \A m \in due : \E i \in 1 .. k : m = Message(list[i])
    BY <1>4
  <2>2. \A m \in due : m.id \in Nat /\ m.when \in Nat
    <3>. TAKE m \in due
    <3>1. PICK i \in 1 .. k : m = Message(list[i])
      BY <2>1
    <3>2. i \in DOMAIN list /\ mem[list[i]].id \in Nat /\ mem[list[i]].when \in Nat
      BY <1>1, <1>2
    <3>. QED  BY <1>3, <3>1, <3>2
  <2>3. ASSUME NEW m \in due, NEW p \in due, m.id = p.id PROVE m = p
    <3>1. PICK i \in 1 .. k, j \in 1 .. k : m = Message(list[i]) /\ p = Message(list[j])
      BY <2>1
    <3>2. i \in DOMAIN list /\ j \in DOMAIN list
      BY <1>1
    <3>3. mem[list[i]].id = mem[list[j]].id
      BY <1>3, <2>3, <3>1, <3>2
    <3>4. i = j
      BY <1>2, <3>2, <3>3
    <3>. QED  BY <3>1, <3>4
  <2>. QED  BY <1>8, <2>2, <2>3 DEF MessageSet
<1>10. DOMAIN Taken' = 1 .. k /\ \A i \in 1 .. k : Taken'[i] = Message(list[i]).id
  <2>1. Unhandled' = batch'
    BY <1>1 DEF Unhandled
  <2>2. Taken' = [i \in 1 .. k |-> mem'[batch'[i]].id]
    BY <1>1, <2>1 DEF Taken
  <2>. QED  BY <1>1, <1>3, <2>2
<1>11. Sorts(Taken', due)
  <2>1. \A i \in 1 .. k : Message(list[i]) \in due
    BY <1>4
  <2>2. Taken' \in [1 .. k -> {m.id : m \in due}]
    <3>1. Taken' = [i \in 1 .. k |-> Taken'[i]]
      BY <1>1, <1>10 DEF Taken, Unhandled
    <3>. QED  BY <1>10, <2>1, <3>1
  <2>3. ASSUME NEW i \in 1 .. k, NEW j \in 1 .. k, i < j
        PROVE  \E m, p \in due : m.id = Taken'[i] /\ p.id = Taken'[j] /\ Outbox!Before(m, p)
    <3>1. Outbox!Before(Message(list[i]), Message(list[j]))
      BY <1>1, <1>2, <1>3, <2>3 DEF Outbox!Before, Earlier
    <3>. QED  BY <1>10, <2>1, <3>1
  <2>4. \A i \in 1 .. k : \E m \in due : m.id = Taken'[i]
    BY <1>10, <2>1
  <2>. QED  BY <1>8, <1>10, <2>2, <2>3, <2>4 DEF Sorts
<1>12. Outbox!InOrder(due) = Taken'
  BY <1>9, <1>11, SortIsInOrder
<1>. QED  BY <1>6, <1>7, <1>12 DEF due

LEMMA TakeImplements ==
  ASSUME IInv, IInv', NEW k \in 0 .. Len(list), Splits(k)
  PROVE  Outbox!Take \/ UNCHANGED Outbox!vars
<1>1. UNCHANGED <<mem, now, posted, handled>> /\ lpc = "take" /\ batch = <<>>
  BY DEF Splits
<1>2. Unhandled = <<>> /\ Taken = <<>>
  <2>1. Unhandled = <<>>
    BY <1>1 DEF Unhandled
  <2>. QED  BY <2>1, TakenIs
<1>3. CASE k = 0
  <2>1. list' = list
    <3>1. /\ list \in Seq(Cells) /\ list' \in Seq(Cells) /\ Len(list') = Len(list)
          /\ \A i \in 1 .. Len(list) : list'[i] = list[i]
      BY <1>3, ListTypes DEF IInv, TypeOK, Splits
    <3>. QED  BY <3>1, SeqEqual
  <2>2. batch' = <<>> /\ lpc' = "sample"
    BY <1>3, EmptySeq DEF Splits
  <2>3. Unhandled' = Unhandled
    BY <1>2, <2>2 DEF Unhandled
  <2>4. Taken' = Taken
    BY <1>1, <2>3 DEF Taken
  <2>. QED  BY <1>1, <2>1, <2>4, PendingKept, Stutters
<1>4. CASE k > 0
  <2>1. timenow \in 1 .. now
    BY <1>1 DEF IInv, Batched, TypeOK
  <2>2. Outbox!Take
    <3>1. /\ Pending' = Pending \ {m \in Pending : m.when <= timenow}
          /\ {m \in Pending : m.when <= timenow} # {}
          /\ Taken' = Outbox!InOrder({m \in Pending : m.when <= timenow})
      BY <1>4, DueIsSorted
    <3>. QED  BY <1>1, <1>2, <2>1, <3>1, Zenon DEF Outbox!Take, Pending, Taken
  <2>. QED  BY <2>2
<1>. QED  BY <1>3, <1>4

LEMMA NextImplements ==
  ASSUME IInv, IInv', [Next]_vars
  PROVE  [Outbox!Next]_(Outbox!vars)
<1>. USE DEF Outbox!Next
<1>1. CASE Post
  BY <1>1, PostDoes, PostImplements
<1>2. CASE Delete
  BY <1>2, DeleteDoes, DeleteImplements
<1>3. CASE Sample \/ Look \/ Peek \/ Wait \/ Wake
  BY <1>3, HiddenSteps
<1>4. CASE Tick
  BY <1>4, TickImplements
<1>5. CASE Handle
  BY <1>5, HandleImplements
<1>6. CASE GiveBack \/ Reopen
  BY <1>6, LeaveDoes, LeaveImplements
<1>7. CASE Take
  BY <1>7, TakeDoes, TakeImplements
<1>8. CASE UNCHANGED vars
  <2>1. UNCHANGED <<list, mem, batch, lpc, now, posted, handled>>
    BY <1>8 DEF vars, queue, loop
  <2>2. Unhandled' = Unhandled
    BY <2>1 DEF Unhandled
  <2>. QED  BY <2>1, <2>2, TakenKept, PendingKept, Stutters
<1>. QED
  BY <1>1, <1>2, <1>3, <1>4, <1>5, <1>6, <1>7, <1>8 DEF Next, Loop

LEMMA InitImplements == Init => Outbox!Init
<1>. SUFFICES ASSUME Init PROVE Outbox!Init
  OBVIOUS
<1>1. IInv
  BY InitHolds
<1>2. DOMAIN list = {} /\ Unhandled = <<>>
  BY DEF Init, Unhandled
<1>3. Pending = {} /\ Taken = <<>>
  BY <1>1, <1>2, TakenIs DEF Pending
<1>. QED  BY <1>3 DEF Init, Outbox!Init, Pending, Taken

\* The list, the cells and the loop keep what MsgOutbox promises: no message is lost,
\* handled early or twice, and what is taken together is handled in the order of the due
\* times and of posting (postMessageDelay, deleteMessage, msgLoop).
THEOREM QueueKeepsPromise == Spec => KeepsPromise
BY InitImplements, Invariance, NextImplements, PTL DEF Spec, KeepsPromise, Outbox!Spec
=============================================================================
