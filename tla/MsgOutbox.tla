------------------------------ MODULE MsgOutbox ------------------------------
(***************************************************************************)
(* What the delayed messages of AppMain promise their posters.             *)
(*                                                                         *)
(* A message posted with a delay is handled once, not before its time,     *)
(* unless deleteMessage removes it first; deleteMessage removes every      *)
(* message of a kind that has not been taken for handling.  What is taken  *)
(* together is handled in the order of the due times, and in the order of  *)
(* posting when these are equal.  Messages without a delay are due at time *)
(* 0, which is before every other message.                                 *)
(***************************************************************************)
EXTENDS Integers, Sequences, FiniteSets

CONSTANTS
  What,    \* kinds of messages
  Delays   \* delays a poster asks for

VARIABLES
  now,      \* the clock
  posted,   \* number of messages posted: their ids are 1 .. posted
  pending,  \* messages that wait: records [id, what, when]
  taken,    \* ids of the messages taken for handling, in order
  handled   \* ids of the messages handled, in order

vars == <<now, posted, pending, taken, handled>>

Before(m, n) == m.when < n.when \/ (m.when = n.when /\ m.id < n.id)

\* The ids of a set of messages in the order of handling.
InOrder(S) ==
  CHOOSE q \in [1 .. Cardinality(S) -> {m.id : m \in S}] :
    /\ \A i \in DOMAIN q : \E m \in S : m.id = q[i]
    /\ \A i, j \in DOMAIN q : i < j =>
         \E m, n \in S : m.id = q[i] /\ n.id = q[j] /\ Before(m, n)

Init == now = 1 /\ posted = 0 /\ pending = {} /\ taken = <<>> /\ handled = <<>>

Due(d) == IF d > 0 THEN now + d ELSE 0

Post ==
  /\ posted' = posted + 1
  /\ \E w \in What, d \in Delays :
       pending' = pending \cup {[id |-> posted', what |-> w, when |-> Due(d)]}
  /\ UNCHANGED <<now, taken, handled>>

Delete ==
  /\ \E w \in What : pending' = {m \in pending : m.what # w}
  /\ UNCHANGED <<now, posted, taken, handled>>

\* All messages due at some time that has come are taken, when the ones taken
\* before are done.
Take ==
  /\ taken = <<>>
  /\ \E t \in 1 .. now :
       LET due == {m \in pending : m.when <= t} IN
       /\ due # {}
       /\ taken' = InOrder(due)
       /\ pending' = pending \ due
  /\ UNCHANGED <<now, posted, handled>>

Handle ==
  /\ taken # <<>>
  /\ handled' = Append(handled, Head(taken))
  /\ taken' = Tail(taken)
  /\ UNCHANGED <<now, posted, pending>>

Tick == now' = now + 1 /\ UNCHANGED <<posted, pending, taken, handled>>

Next == Post \/ Delete \/ Take \/ Handle \/ Tick

Spec == Init /\ [][Next]_vars
=============================================================================
