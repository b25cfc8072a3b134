------------------------------ MODULE MsgQueue ------------------------------
(***************************************************************************)
(* The delayed messages of AppMain: postMessageDelay, deleteMessage and    *)
(* msgLoop.                                                                *)
(*                                                                         *)
(* The messages are cells linked in the order of their due times, from a   *)
(* few static slots and then from the heap.  Posting and deleting happen   *)
(* under a mutex, in any thread.  The loop takes all due cells off the     *)
(* list under the mutex and handles them without it; it also looks at the  *)
(* head of the list, and gives its cells back, without it.                 *)
(***************************************************************************)
EXTENDS Integers, Sequences, FiniteSets

CONSTANTS
  What,      \* kinds of messages
  Delays,    \* delays a poster asks for
  Slots,     \* cells of mCallbackMessageBuff
  None,      \* what = 0 of a free cell, and no cell
  Idle,      \* how long the loop sleeps when there is nothing
  MaxPosts,  \* bound on the number of messages
  MaxTime    \* bound on the clock

ASSUME ConstantsAssumption ==
  /\ Delays \subseteq Nat
  /\ Slots \cap Nat = {} /\ None \notin Slots \cup Nat \cup What
  /\ Idle \in Nat \ {0} /\ MaxPosts \in Nat /\ MaxTime \in Nat

Heap  == 1 .. MaxPosts    \* heap cells: the one malloc gives for message i
Cells == Slots \cup Heap

VARIABLES
  list,      \* mMessageHeader: the cells in order
  mem,       \* the fields of the cells
  batch,     \* origmsg: the cells the loop has taken
  lpc,       \* where the loop is
  seen,      \* the head it read without the mutex
  timenow,   \* its sample of the clock
  until,     \* when its timed wait ends
  slept,     \* observation: when its timed wait began
  signal,    \* mMsgCondition was signalled during the wait
  now,       \* the monotonic clock
  posted, handled   \* observation, see MsgOutbox

queue == <<list, mem>>
loop  == <<batch, lpc, seen, timenow, until, slept>>
wait  == <<until, slept>>
vars  == <<queue, loop, signal, now, posted, handled>>

Free == [when |-> 0, what |-> None, id |-> 0]

-----------------------------------------------------------------------------
(* postMessageDelay and deleteMessage.                                     *)

FreeSlots == {c \in Slots : mem[c].what = None}

\* A cell for the next message: a free slot, or memory from the heap.
NewCells == IF FreeSlots # {} THEN FreeSlots ELSE {posted + 1}

\* How many cells stay before a message due at the time w.
Place(w) == Cardinality({i \in DOMAIN list : mem[list[i]].when <= w})

\* Mutant of Insert: a message goes before the ones due at the same time.
InsertFirst(c, w) ==
  LET k == Cardinality({i \in DOMAIN list : mem[list[i]].when < w})
  IN SubSeq(list, 1, k) \o <<c>> \o SubSeq(list, k + 1, Len(list))

Insert(c, w) ==
  SubSeq(list, 1, Place(w)) \o <<c>> \o SubSeq(list, Place(w) + 1, Len(list))

Due(d) == IF d > 0 THEN now + d ELSE 0

\* Mutant of Signals: only a message without a delay wakes the loop.
SignalsNow(d) == d = 0

\* A message without a delay, and one that becomes the head, wake the loop.
Signals(d) == d = 0 \/ Place(Due(d)) = 0

Post ==
  /\ posted < MaxPosts
  /\ posted' = posted + 1
  /\ \E w \in What, d \in Delays : \E c \in NewCells :
       /\ now + d <= MaxTime
       /\ list' = Insert(c, Due(d))
       /\ mem' = [mem EXCEPT ![c] = [when |-> Due(d), what |-> w, id |-> posted']]
       /\ signal' = (signal \/ (lpc = "sleep" /\ Signals(d)))
  /\ UNCHANGED <<loop, now, handled>>

\* The places of the messages deleteMessage leaves in the list.
Kept(w) == {i \in DOMAIN list : mem[list[i]].what # w}

Delete ==
  /\ \E w \in What :
       /\ \E keep \in [1 .. Cardinality(Kept(w)) -> Kept(w)] :
            /\ \A i, j \in DOMAIN keep : i < j => keep[i] < keep[j]
            /\ list' = [i \in DOMAIN keep |-> list[keep[i]]]
       /\ mem' = [c \in Cells |->
                    IF (\E i \in DOMAIN list : list[i] = c) /\ mem[c].what = w
                      THEN Free ELSE mem[c]]
  /\ list' # list
  /\ UNCHANGED <<loop, signal, now, posted, handled>>

-----------------------------------------------------------------------------
(* msgLoop.                                                                *)

At(l) == lpc = l
Go(l) == lpc' = l

Sample ==
  /\ At("sample")
  /\ timenow' = now
  /\ Go("look")
  /\ UNCHANGED <<queue, batch, seen, wait, signal, now, posted, handled>>

\* mMessageHeader == NULL, without the mutex.
Look ==
  /\ At("look")
  /\ IF list = <<>> THEN Go("wait") /\ UNCHANGED seen
                    ELSE Go("peek") /\ seen' = Head(list)
  /\ UNCHANGED <<queue, batch, timenow, wait, signal, now, posted, handled>>

\* mMessageHeader->when, without the mutex.  The compiler may read the pointer
\* again: it may be another one by now, or null.  Where it kept the first one,
\* the cell may have been given back: a slot is due at 0 then, and freed memory
\* holds anything.
Peek ==
  /\ At("peek")
  /\ \/ list = <<>> /\ Go("fault")
     \/ seen \in Heap /\ mem[seen].what = None /\ (Go("wait") \/ Go("take"))
     \/ \E c \in {seen} \cup (IF list = <<>> THEN {} ELSE {Head(list)}) :
          /\ c \in Slots \/ mem[c].what # None
          /\ Go(IF mem[c].when > timenow THEN "wait" ELSE "take")
  /\ seen' = None
  /\ UNCHANGED <<queue, batch, timenow, wait, signal, now, posted, handled>>

\* Under the mutex: the wait is computed from the head as it is now.
Wait ==
  /\ At("wait")
  /\ LET howlong == IF list = <<>> THEN Idle ELSE mem[Head(list)].when - timenow IN
     \/ /\ howlong <= 0
        /\ Go("sample")
        /\ UNCHANGED <<wait, signal>>
     \/ /\ howlong > 0
        /\ until' = now + howlong
        /\ slept' = now
        /\ signal' = FALSE
        /\ Go("sleep")
  /\ UNCHANGED <<queue, batch, seen, timenow, now, posted, handled>>

Wake ==
  /\ At("sleep")
  /\ signal \/ now >= until
  /\ signal' = FALSE
  /\ Go("sample")
  /\ UNCHANGED <<queue, batch, seen, timenow, wait, now, posted, handled>>

DueLen == Place(timenow)

Take ==
  /\ At("take")
  /\ batch' = SubSeq(list, 1, DueLen)
  /\ list' = SubSeq(list, DueLen + 1, Len(list))
  /\ Go(IF DueLen = 0 THEN "sample" ELSE "handle")
  /\ UNCHANGED <<mem, seen, timenow, wait, signal, now, posted, handled>>

Handle ==
  /\ At("handle")
  /\ LET m == mem[Head(batch)] IN
     handled' = IF m.when <= timenow /\ m.what # None THEN Append(handled, m.id)
                                                      ELSE handled
  /\ Go("giveBack")
  /\ UNCHANGED <<queue, batch, seen, timenow, wait, signal, now, posted>>

\* Mutant of Leave: the rest of the batch is forgotten.
LeaveAll(cell) ==
  /\ mem' = [mem EXCEPT ![Head(batch)] = cell]
  /\ batch' = <<>>
  /\ Go("sample")

\* The loop leaves a cell: the last step of giving it back.
Leave(cell) ==
  /\ mem' = [mem EXCEPT ![Head(batch)] = cell]
  /\ batch' = Tail(batch)
  /\ Go(IF Tail(batch) = <<>> THEN "sample" ELSE "handle")

\* Mutant of GiveBack: what is cleared before when, while another thread posts.
GiveBackEarly ==
  /\ At("giveBack")
  /\ \/ Head(batch) \in Heap /\ Leave(Free)
     \/ /\ Head(batch) \in Slots
        /\ mem' = [mem EXCEPT ![Head(batch)].what = None]
        /\ Go("reopen")
        /\ UNCHANGED batch
  /\ UNCHANGED <<list, seen, timenow, wait, signal, now, posted, handled>>

GiveBack ==
  /\ At("giveBack")
  /\ \/ Head(batch) \in Heap /\ Leave(Free)
     \/ /\ Head(batch) \in Slots
        /\ mem' = [mem EXCEPT ![Head(batch)].when = 0]
        /\ Go("reopen")
        /\ UNCHANGED batch
  /\ UNCHANGED <<list, seen, timenow, wait, signal, now, posted, handled>>

\* what = 0 gives the slot to the next poster.
Reopen ==
  /\ At("reopen")
  /\ Leave([mem[Head(batch)] EXCEPT !.what = None])
  /\ UNCHANGED <<list, seen, timenow, wait, signal, now, posted, handled>>

-----------------------------------------------------------------------------
Init ==
  /\ list = <<>> /\ batch = <<>>
  /\ mem = [c \in Cells |-> Free]
  /\ lpc = "sample" /\ seen = None /\ timenow = 0 /\ until = 0 /\ slept = 0 /\ signal = FALSE
  /\ now = 1 /\ posted = 0 /\ handled = <<>>

\* The clock stops at its bound, except for a timed wait with a message.
Tick ==
  /\ now < MaxTime \/ (lpc = "sleep" /\ list # <<>> /\ now < until)
  /\ now' = now + 1
  /\ UNCHANGED <<queue, loop, signal, posted, handled>>

Loop == Sample \/ Look \/ Peek \/ Wait \/ Wake \/ Take \/ Handle \/ GiveBack \/ Reopen

Next == Post \/ Delete \/ Loop \/ Tick

Spec == Init /\ [][Next]_vars

\* The loop runs when it can and the clock goes on; posters owe nothing.
FairSpec == Spec /\ WF_vars(Loop) /\ WF_vars(Tick)

-----------------------------------------------------------------------------
(* Properties.                                                             *)

InList(c)  == \E i \in DOMAIN list : list[i] = c
InBatch(c) == \E i \in DOMAIN batch : batch[i] = c

\* A cell is in use exactly while it is in the list or in the batch, and only
\* once in one of them.  The loop gives cells back without the mutex, while
\* another thread may be looking for a free one.
SlotsAccounted ==
  /\ \A c \in Cells :
       (mem[c].what # None) = (InList(c) \/ InBatch(c))
  /\ LET all == list \o batch IN
     \A i, j \in DOMAIN all : all[i] = all[j] => i = j

\* A wait nobody has signalled ends no later than the first message is due,
\* but for the time that passed between the loop's look at the clock and the
\* wait: what is posted before, during and after the look is counted.
NoOversleep ==
  lpc = "sleep" /\ ~signal /\ list # <<>>
    => until <= mem[Head(list)].when + (slept - timenow)

Message(c) == [id |-> mem[c].id, what |-> mem[c].what, when |-> mem[c].when]

\* The cell whose message is handled but not given back is not taken any more.
Unhandled ==
  IF lpc \in {"giveBack", "reopen"} THEN Tail(batch) ELSE batch

Outbox == INSTANCE MsgOutbox WITH
  pending <- {Message(list[i]) : i \in DOMAIN list},
  taken   <- [i \in DOMAIN Unhandled |-> mem[Unhandled[i]].id]

\* The list, the cells and the loop keep what MsgOutbox promises: nothing is
\* lost, early, handled twice, deleted too late to be seen or out of order.
KeepsPromise == Outbox!Spec

Held(i) == \E c \in Cells : mem[c].id = i /\ mem[c].what # None

\* Every message is handled or deleted in the end, unless the loop met the
\* empty list between its two looks at the head.
EveryMessageEnds == \A i \in 1 .. MaxPosts : Held(i) ~> ~Held(i) \/ lpc = "fault"
=============================================================================
