--------------------------- MODULE SignWindowsProofs ---------------------------
(***************************************************************************)
(* What every step of the windows of a request keeps, for all messages,     *)
(* classes and batches.  DeviceSessionProofs has the theorems, of the whole *)
(* session.                                                                 *)
(***************************************************************************)
EXTENDS SignWindows, FiniteSetTheorems, TLAPS

Four == {"TX_VERIFY_CODE", "TXSHOW", "TX_RAW_DATA", "BATCH_SIGN"}

\* The queue: nothing to do, the window in front to be shown, that after another one
\* (Behind) was left, or the way to the main panel that a dialog posted.
Phase == CASE todo = << >> -> "still"
           [] todo = <<Call("resume", cur)>> -> "shown"
           [] todo = <<Call("change", "MAINPANEL")>> -> "sent"
           [] OTHER -> "left"
Behind == IF Phase = "left" THEN Head(todo).win ELSE "none"
Coming == Phase \in {"shown", "left"}

\* The loops of the windows of a request
RequestLoops == {"error", "leave", "pin", "answer", "signing", "fail"}

QueueShape ==
  /\ Phase = "left" => Behind # cur /\ todo = <<Call("pause", Behind), Call("resume", cur)>>
  /\ Phase = "sent" => cur \in {"TX_VERIFY_CODE", "BATCH_SIGN"}
  /\ modal # "none" => Phase = "still" /\ (modal \in RequestLoops <=> cur \in Four)
  /\ modal = "leave" => cur \in {"TX_VERIFY_CODE", "BATCH_SIGN"}
  /\ modal \in {"signing", "fail"} => cur = "BATCH_SIGN"

Pointers == Messages \cup {Gone, Nothing}
Sources == {"app", "history"}

VerifyType == [msg : Pointers, ret : Int, details : BOOLEAN, sess : Pointers, code : Pointers]
ShowType == [msg : Pointers, from : Sources, ret : Int, raw : BOOLEAN, sess : Pointers,
             view : Sources \cup {Nothing}, at : Int]
RawType == [msg : Pointers, from : Sources, ret : Int, back : {"TXSHOW", "BATCH_SIGN"},
            sess : Pointers, view : Sources \cup {Nothing}]
BatchType == [msg : Pointers, items : Seq(Messages),
              state : {"LIST", "SELECT", "DETAIL", "SIGNING"}, sess : Pointers,
              code : Pointers, done : Nat]

WindowTypes ==
  /\ heap \in [Messages -> Classes \cup Batches \cup {Nothing}]
  /\ verify \in VerifyType /\ show \in ShowType /\ raw \in RawType /\ batch \in BatchType
  /\ txs \subseteq Classes /\ last \in Pointers /\ odd \in BOOLEAN

ItemSet == ToSet(batch.items)
OfHistory(m) == show.from = "history" /\ m = show.msg

\* A message has one owner, and every owner has its message.
Owned ==
  /\ \A m \in Messages : heap[m] # Nothing <=>
       m = verify.msg \/ m = batch.msg \/ m \in ItemSet \/ OfHistory(m)
  /\ \A m \in Messages : /\ m = verify.msg => m # batch.msg /\ m \notin ItemSet /\ ~OfHistory(m)
                         /\ m = batch.msg => m \notin ItemSet /\ ~OfHistory(m)
                         /\ m \in ItemSet => ~OfHistory(m)
                         /\ m # batch.msg => heap[m] \in Classes \cup {Nothing}
  /\ verify.msg # Gone /\ batch.msg # Gone /\ (show.from = "history" => show.msg # Gone)
  /\ batch.msg # Nothing => heap[batch.msg] \in Batches

\* Where the data of the window in front comes from, and the window behind it
RawOf(w) == cur = "TX_RAW_DATA" /\ raw.back = w
Showing  == cur = "TXSHOW" \/ RawOf("TXSHOW")
Batching == cur = "BATCH_SIGN" \/ RawOf("BATCH_SIGN")

VerifyFlow ==
  /\ cur = "TX_VERIFY_CODE" => verify.msg = last /\ Live(last)
  /\ cur = "TX_VERIFY_CODE" /\ ~Coming => ~verify.details
  /\ cur = "TX_VERIFY_CODE" /\ Coming /\ ~verify.details => verify.ret = -1
  /\ verify.ret = 0 => /\ verify.sess = verify.msg
                       /\ verify.msg # Nothing => ~Refuses(heap[verify.msg])
  /\ Showing /\ show.from = "app" => /\ verify.msg = last /\ Live(last)
                                     /\ show.msg = last /\ verify.details
  /\ Behind = "TX_VERIFY_CODE" =>
       verify.msg # Nothing /\ (cur \notin Four \/ (cur = "TXSHOW" /\ verify.details))
  /\ verify.code \in {Nothing, Gone, verify.msg}
  /\ cur = "TX_VERIFY_CODE" /\ Coming /\ ~verify.details => verify.code # verify.msg
  /\ (verify.details \/ (cur = "TX_VERIFY_CODE" /\ ~Coming)) /\ verify.msg # Nothing =>
       /\ verify.ret = 0 <=> ~Refuses(heap[verify.msg])
       /\ verify.code = verify.msg <=> verify.ret = 0 /\ HasCode(heap[verify.msg].head)

ShowFlow ==
  /\ Showing => Live(show.msg)
  /\ RawOf("TXSHOW") => show.raw /\ raw.msg = show.msg /\ raw.from = show.from
  /\ cur = "TXSHOW" /\ ~Coming => ~show.raw
  /\ cur = "TXSHOW" /\ Coming /\ ~show.raw => show.ret = -1
  /\ Showing /\ show.ret = 0 => show.sess = show.msg /\ ~Refuses(heap[show.msg])
  /\ show.from = "history" /\ show.msg # Nothing =>
       Showing \/ (Behind = "TXSHOW" /\ ~show.raw)
  /\ Behind = "TXSHOW" => IF show.raw THEN RawOf("TXSHOW")
                       ELSE cur \notin Four \/ (cur = "TX_VERIFY_CODE" /\ show.from = "app")
  /\ show.sess \in {Nothing, Gone, IF show.from = "app" THEN verify.msg ELSE show.msg}

RawFlow ==
  /\ RawOf("BATCH_SIGN") => raw.msg \in ItemSet /\ batch.state = "DETAIL" /\ raw.from = "history"
  /\ cur = "TX_RAW_DATA" /\ Coming => raw.ret = -1
  /\ cur = "TX_RAW_DATA" /\ raw.ret = 0 => raw.sess = raw.msg /\ ~Refuses(heap[raw.msg])

\* The items of the batch are those of its message, and it has a code.
Parsed ==
  /\ Len(batch.items) = Len(heap[batch.msg].items) /\ batch.code = batch.msg
  /\ \A i \in DOMAIN batch.items : heap[batch.items[i]] = heap[batch.msg].items[i]

BatchFlow ==
  /\ Batching => batch.msg = last /\ Live(last)
  /\ batch.state = "DETAIL" => Batching /\ Parsed /\ batch.sess \in ItemSet
  /\ cur = "BATCH_SIGN" /\ Coming /\ batch.state # "DETAIL" => batch.items = << >>
  /\ cur = "BATCH_SIGN" /\ Phase = "still" /\ modal # "leave" => Parsed
  /\ cur = "BATCH_SIGN" /\ (modal = "leave" \/ Phase = "sent") => batch.state = "LIST"
  /\ cur = "BATCH_SIGN" /\ modal \in {"pin", "signing", "answer", "fail"} =>
       batch.state = "SIGNING"
  /\ Behind = "BATCH_SIGN" => IF batch.state = "DETAIL" THEN RawOf("BATCH_SIGN") ELSE cur \notin Four
  /\ cur = "BATCH_SIGN" /\ modal = "pin" => batch.done = 0
  /\ modal = "signing" => /\ batch.done <= Len(batch.items)
                          /\ \A i \in 1..batch.done : ~Refuses(heap[batch.items[i]])

AnswerFlow ==
  /\ modal \in {"pin", "answer"} /\ cur # "BATCH_SIGN" => VerifyOk \/ ShowOk \/ RawOk
  /\ answer # Nothing =>
       /\ modal = "answer" /\ answer.by = cur
       /\ answer.of = IF cur = "BATCH_SIGN" THEN batch.items ELSE <<Session>>
       /\ cur = "BATCH_SIGN" => \A i \in DOMAIN batch.items : ~Refuses(heap[batch.items[i]])

\* Before anything was scanned
Untouched ==
  last = Nothing =>
    /\ verify.msg = Nothing /\ batch.msg = Nothing /\ batch.items = << >>
    /\ batch.state = "LIST" /\ show.msg = Nothing /\ txs = {} /\ answer = Nothing

SourceFlow ==
  odd \/ /\ show.view # Nothing /\ show.sess = Nothing => cur = "TXSHOW" /\ Coming /\ ~show.raw
         /\ Showing => show.view = show.from
         /\ raw.view # Nothing /\ raw.sess = Nothing => cur = "TX_RAW_DATA" /\ Coming
         /\ cur = "TX_RAW_DATA" => raw.view = raw.from

WindowsInv ==
  /\ QueueShape /\ WindowTypes /\ Owned /\ VerifyFlow /\ ShowFlow /\ RawFlow /\ BatchFlow
  /\ AnswerFlow /\ Untouched /\ SourceFlow

-----------------------------------------------------------------------------
(* The queue.                                                              *)

Phases == {"still", "shown", "sent", "left"}

LEMMA PhaseType ==
  /\ Phase \in Phases
  /\ Phase = "still" <=> todo = << >>
  /\ Phase # "left" => Behind = "none"
BY DEF Phase, Phases, Behind, Call

LEMMA QueueSame ==
  ASSUME UNCHANGED <<cur, todo>>
  PROVE  Phase' = Phase /\ Behind' = Behind
BY DEF Phase, Behind

LEMMA QueueChanges ==
  ASSUME NEW w, todo = << >>, ChangeWindow(w)
  PROVE  /\ cur' = w /\ Phase = "still" /\ Behind = "none"
         /\ w = cur => Phase' = "still" /\ Behind' = "none"
         /\ w # cur => /\ Phase' = "left" /\ Behind' = cur
                       /\ todo' = <<Call("pause", Behind'), Call("resume", cur')>>
<1>1. Phase = "still" /\ Behind = "none" /\ cur' = w
  BY DEF Phase, Behind, ChangeWindow
<1>2. w = cur => Phase' = "still" /\ Behind' = "none"
  BY DEF Phase, Behind, ChangeWindow
<1>3. ASSUME w # cur
      PROVE  /\ Phase' = "left" /\ Behind' = cur
             /\ todo' = <<Call("pause", Behind'), Call("resume", cur')>>
  <2>1. todo' = <<Call("pause", cur), Call("resume", w)>>
    BY <1>3 DEF ChangeWindow
  <2>2. Len(todo') = 2 /\ Head(todo') = Call("pause", cur)
    BY <2>1
  <2>3. Phase' = "left"
    BY <2>2 DEF Phase
  <2>. QED  BY <1>1, <2>1, <2>2, <2>3 DEF Behind, Call
<1>. QED  BY <1>1, <1>2, <1>3

LEMMA QueueResumes ==
  ASSUME NEW w, QueueShape, Handles("resume", w)
  PROVE  Phase = "shown" /\ cur = w /\ cur' = cur /\ Phase' = "still" /\ Behind' = "none"
<1>1. todo # << >> /\ Head(todo).call = "resume" /\ Head(todo).win = w
  BY DEF Handles, Call
<1>2. Phase # "left"
  BY <1>1 DEF QueueShape, Call
<1>3. Phase = "shown" /\ todo = <<Call("resume", cur)>>
  BY <1>1, <1>2 DEF Phase, Call
<1>4. cur = w /\ cur' = cur /\ todo' = << >>
  BY <1>1, <1>3 DEF Handles, Call
<1>. QED  BY <1>3, <1>4 DEF Phase, Behind

LEMMA QueuePauses ==
  ASSUME NEW w, QueueShape, Handles("pause", w)
  PROVE  Phase = "left" /\ Behind = w /\ cur' = cur /\ Phase' = "shown" /\ Behind' = "none"
<1>1. todo # << >> /\ Head(todo).call = "pause" /\ Head(todo).win = w
  BY DEF Handles, Call
<1>2. Phase = "left"
  BY <1>1 DEF Phase, Call
<1>3. todo = <<Call("pause", Behind), Call("resume", cur)>>
  BY <1>2 DEF QueueShape
<1>4. Behind = w /\ cur' = cur
  BY <1>1, <1>3 DEF Handles, Call
<1>5. todo' = <<Call("resume", cur)>>
  BY <1>3 DEF Handles
<1>6. todo' = <<Call("resume", cur')>> /\ todo' # << >>
  BY <1>4, <1>5
<1>7. Phase' = "shown"
  BY <1>6 DEF Phase, Call
<1>. QED  BY <1>2, <1>4, <1>7 DEF Behind

LEMMA QueueSends ==
  ASSUME QueueShape, Posted
  PROVE  /\ Phase = "sent" /\ Behind = "none" /\ modal = "none" /\ cur' = "MAINPANEL"
         /\ Phase' = "left" /\ Behind' = cur
         /\ todo' = <<Call("pause", Behind'), Call("resume", cur')>>
<1>1. todo # << >> /\ Head(todo).call = "change" /\ modal = "none"
  BY DEF Posted
<1>2. Phase # "left"
  BY <1>1 DEF QueueShape, Call
<1>3. Phase = "sent" /\ todo = <<Call("change", "MAINPANEL")>>
  BY <1>1, <1>2 DEF Phase, Call
<1>4. cur # "MAINPANEL"
  BY <1>3 DEF QueueShape
<1>5. Head(todo).win = "MAINPANEL" /\ Tail(todo) = << >>
  BY <1>3 DEF Call
<1>6. cur' = "MAINPANEL" /\ todo' = <<Call("pause", cur), Call("resume", cur')>>
  <2>. DEFINE w == Head(todo).win
  <2>1. /\ cur' = w
        /\ todo' = Tail(todo) \o IF cur = w THEN << >>
                                 ELSE <<Call("pause", cur), Call("resume", w)>>
    BY Zenon DEF Posted
  <2>2. cur' = "MAINPANEL" /\ todo' = << >> \o <<Call("pause", cur), Call("resume", cur')>>
    BY <1>4, <1>5, <2>1
  <2>. QED  BY <2>2
<1>7. Phase' = "left" /\ Behind' = cur
  BY <1>6 DEF Phase, Behind, Call
<1>. QED  BY <1>1, <1>3, <1>6, <1>7 DEF Behind

LEMMA QueuePosts ==
  ASSUME todo = << >>, todo' = Append(todo, Call("change", "MAINPANEL"))
  PROVE  Phase' = "sent" /\ Behind' = "none"
BY DEF Phase, Behind, Call

\* Windows that do nothing when they are shown or left
LEMMA QueuePlain ==
  ASSUME QueueShape, Plain
  PROVE  /\ modal = "none" /\ cur' = cur /\ Behind' = "none"
         /\ \/ Phase = "shown" /\ Phase' = "still" /\ cur \in {"MAINPANEL", "SCAN"}
            \/ Phase = "left" /\ Phase' = "shown"
               /\ Behind \in {"MAINPANEL", "SCAN", "SIGN_HISTORY"}
<1>1. modal = "none" /\ cur' = cur /\ todo # << >> /\ todo' = Tail(todo)
  BY DEF Plain
<1>2. /\ Head(todo).call # "change"
      /\ Head(todo).win \in {"MAINPANEL", "SCAN"} \/ Head(todo) = Call("pause", "SIGN_HISTORY")
  BY DEF Plain
<1>3. Phase # "sent" /\ Phase # "still"
  BY <1>1, <1>2 DEF Phase, Call
<1>4. CASE Phase = "shown"
  <2>1. todo = <<Call("resume", cur)>>
    BY <1>4 DEF Phase
  <2>2. cur \in {"MAINPANEL", "SCAN"} /\ todo' = << >>
    BY <1>1, <1>2, <2>1 DEF Call
  <2>. QED  BY <1>1, <1>4, <2>2 DEF Phase, Behind
<1>5. CASE Phase = "left"
  <2>1. todo = <<Call("pause", Behind), Call("resume", cur)>>
    BY <1>5 DEF QueueShape
  <2>2. Behind \in {"MAINPANEL", "SCAN", "SIGN_HISTORY"} /\ todo' = <<Call("resume", cur)>>
    BY <1>1, <1>2, <2>1 DEF Call
  <2>3. todo' = <<Call("resume", cur')>> /\ todo' # << >>
    <3>1. cur' = cur /\ todo' = <<Call("resume", cur)>>
      BY <1>1, <2>2
    <3>. QED  BY <3>1
  <2>4. Phase' = "shown"
    BY <2>3 DEF Phase, Call
  <2>. QED  BY <1>1, <1>5, <2>2, <2>4 DEF Behind
<1>. QED  BY <1>3, <1>4, <1>5, PhaseType DEF Phases

-----------------------------------------------------------------------------
(* The windows.                                                            *)

LEMMA CellsOnly == Nothing \notin Messages /\ Gone \notin Messages /\ Gone # Nothing
BY PointersAssumption

\* A pointer when the messages in dead are deleted
After(p, dead) == IF p \in dead THEN Gone ELSE p

LEMMA DeletedPointers ==
  ASSUME NEW dead \in SUBSET Messages
  PROVE  /\ Gone \notin dead /\ Nothing \notin dead
         /\ \A x \in Marks : x \notin dead
         /\ \A x \in Int : x \notin dead
         /\ \A x \in BOOLEAN : x \notin dead
         /\ \A p \in Pointers : After(p, dead) \in Pointers
         /\ Nothing \notin Marks \cup Int \cup BOOLEAN
BY PointersAssumption DEF After, Pointers

LEMMA VerifyDangles ==
  ASSUME NEW v \in VerifyType, NEW dead \in SUBSET Messages
  PROVE  Dangles(v, dead) = [msg |-> After(v.msg, dead), ret |-> v.ret, details |-> v.details,
                             sess |-> After(v.sess, dead), code |-> After(v.code, dead)]
<1>1. DOMAIN v = {"msg", "ret", "details", "sess", "code"}
  BY DEF VerifyType
<1>2. v.ret \notin dead /\ v.details \notin dead
  BY DeletedPointers DEF VerifyType
<1>. QED  BY <1>1, <1>2 DEF Dangles, After

LEMMA ShowDangles ==
  ASSUME NEW v \in ShowType, NEW dead \in SUBSET Messages
  PROVE  Dangles(v, dead) = [msg |-> After(v.msg, dead), from |-> v.from, ret |-> v.ret,
                             raw |-> v.raw, sess |-> After(v.sess, dead), view |-> v.view,
                             at |-> v.at]
<1>1. DOMAIN v = {"msg", "from", "ret", "raw", "sess", "view", "at"}
  BY DEF ShowType
<1>2. /\ v.ret \in Int /\ v.from \in Marks /\ v.raw \in BOOLEAN /\ v.at \in Int
      /\ v.view = Nothing \/ v.view \in Marks
  <2>1. v.ret \in Int /\ v.raw \in BOOLEAN /\ v.at \in Int
    BY DEF ShowType
  <2>2. v.from \in Sources /\ v.view \in Sources \cup {Nothing}
    BY DEF ShowType
  <2>. QED  BY <2>1, <2>2 DEF Sources, Marks
<1>3. /\ v.ret \notin dead /\ v.from \notin dead /\ v.raw \notin dead /\ v.at \notin dead
      /\ v.view \notin dead
  BY <1>2, DeletedPointers
<1>. QED  BY <1>1, <1>2, <1>3 DEF Dangles, After

LEMMA RawDangles ==
  ASSUME NEW v \in RawType, NEW dead \in SUBSET Messages
  PROVE  Dangles(v, dead) = [msg |-> After(v.msg, dead), from |-> v.from, ret |-> v.ret,
                             back |-> v.back, sess |-> After(v.sess, dead), view |-> v.view]
<1>1. DOMAIN v = {"msg", "from", "ret", "back", "sess", "view"}
  BY DEF RawType
<1>2. /\ v.ret \in Int /\ v.from \in Marks /\ v.back \in Marks
      /\ v.view = Nothing \/ v.view \in Marks
  <2>1. v.ret \in Int /\ v.back \in {"TXSHOW", "BATCH_SIGN"}
    BY DEF RawType
  <2>2. v.from \in Sources /\ v.view \in Sources \cup {Nothing}
    BY DEF RawType
  <2>. QED  BY <2>1, <2>2 DEF Sources, Marks
<1>3. v.ret \notin dead /\ v.from \notin dead /\ v.back \notin dead /\ v.view \notin dead
  BY <1>2, DeletedPointers
<1>. QED  BY <1>1, <1>2, <1>3 DEF Dangles, After

LEMMA BatchDangles ==
  ASSUME NEW v \in BatchType, NEW dead \in SUBSET Messages
  PROVE  Dangles(v, dead) = [msg |-> After(v.msg, dead), items |-> After(v.items, dead),
                             state |-> v.state, sess |-> After(v.sess, dead),
                             code |-> After(v.code, dead), done |-> v.done]
<1>1. DOMAIN v = {"msg", "items", "state", "sess", "code", "done"}
  BY DEF BatchType
<1>2. v.state \in Marks /\ v.done \in Int
  <2>1. v.state \in {"LIST", "SELECT", "DETAIL", "SIGNING"} /\ v.done \in Nat
    BY DEF BatchType
  <2>. QED  BY <2>1 DEF Marks
<1>3. v.state \notin dead /\ v.done \notin dead
  BY <1>2, DeletedPointers
<1>. QED  BY <1>1, <1>3 DEF Dangles, After

LEMMA ClosedFields ==
  /\ \A v \in VerifyType :
       /\ Closed(v) \in VerifyType /\ Closed(v).sess = Nothing
       /\ Closed(v).msg = v.msg /\ Closed(v).ret = v.ret /\ Closed(v).details = v.details
       /\ Closed(v).code = v.code
  /\ \A v \in ShowType :
       /\ Closed(v) \in ShowType /\ Closed(v).sess = Nothing
       /\ Closed(v).msg = v.msg /\ Closed(v).ret = v.ret /\ Closed(v).from = v.from
       /\ Closed(v).raw = v.raw /\ Closed(v).at = v.at
       /\ Closed(v).view = IF v.sess = Nothing THEN v.view ELSE Nothing
  /\ \A v \in RawType :
       /\ Closed(v) \in RawType /\ Closed(v).sess = Nothing
       /\ Closed(v).msg = v.msg /\ Closed(v).ret = v.ret /\ Closed(v).from = v.from
       /\ Closed(v).back = v.back
       /\ Closed(v).view = IF v.sess = Nothing THEN v.view ELSE Nothing
<1>1. ASSUME NEW v \in VerifyType
      PROVE  /\ Closed(v) \in VerifyType /\ Closed(v).sess = Nothing
             /\ Closed(v).msg = v.msg /\ Closed(v).ret = v.ret /\ Closed(v).details = v.details
             /\ Closed(v).code = v.code
  BY DEF Closed, VerifyType, Pointers
<1>2. ASSUME NEW v \in ShowType
      PROVE  /\ Closed(v) \in ShowType /\ Closed(v).sess = Nothing
             /\ Closed(v).msg = v.msg /\ Closed(v).ret = v.ret /\ Closed(v).from = v.from
             /\ Closed(v).raw = v.raw /\ Closed(v).at = v.at
             /\ Closed(v).view = IF v.sess = Nothing THEN v.view ELSE Nothing
  BY DEF Closed, ShowType, Pointers
<1>3. ASSUME NEW v \in RawType
      PROVE  /\ Closed(v) \in RawType /\ Closed(v).sess = Nothing
             /\ Closed(v).msg = v.msg /\ Closed(v).ret = v.ret /\ Closed(v).from = v.from
             /\ Closed(v).back = v.back
             /\ Closed(v).view = IF v.sess = Nothing THEN v.view ELSE Nothing
  BY DEF Closed, RawType, Pointers
<1>. QED  BY <1>1, <1>2, <1>3

LEMMA FreedCells ==
  ASSUME NEW dead
  PROVE  \A m \in Messages : Freed(dead)[m] = IF m \in dead THEN Nothing ELSE heap[m]
BY DEF Freed

LEMMA FreshCell ==
  ASSUME Free # {}
  PROVE  Fresh \in Messages /\ heap[Fresh] = Nothing
BY DEF Fresh, Free

-----------------------------------------------------------------------------
(* The steps of the windows, one by one.                                   *)

\* The message of the window in front is there.
LEMMA FrontIsLive ==
  ASSUME WindowsInv
  PROVE  /\ cur = "TX_VERIFY_CODE" => Live(verify.msg)
         /\ cur = "TXSHOW" => Live(show.msg) /\ show.msg # batch.msg
         /\ cur = "TX_RAW_DATA" => Live(raw.msg) /\ raw.msg # batch.msg
         /\ cur = "BATCH_SIGN" => Live(batch.msg)
         /\ cur \in Four => last # Nothing
<1>1. cur = "TX_VERIFY_CODE" => Live(verify.msg) /\ last # Nothing
  BY CellsOnly DEF WindowsInv, VerifyFlow, Live
<1>2. Showing => Live(show.msg) /\ show.msg # batch.msg /\ last # Nothing
  <2>1. ASSUME Showing PROVE Live(show.msg) /\ last # Nothing
    BY <2>1, CellsOnly DEF WindowsInv, ShowFlow, Untouched, Live
  <2>2. CASE show.from = "app"
    BY <2>1, <2>2, CellsOnly DEF WindowsInv, VerifyFlow, Owned, Live
  <2>3. CASE show.from = "history"
    BY <2>1, <2>3 DEF WindowsInv, Owned, OfHistory, Live
  <2>. QED  BY <2>1, <2>2, <2>3 DEF WindowsInv, WindowTypes, ShowType, Sources
<1>3. Batching => Live(batch.msg) /\ last # Nothing
  BY CellsOnly DEF WindowsInv, BatchFlow, Live
<1>4. RawOf("TXSHOW") => raw.msg = show.msg
  BY DEF WindowsInv, ShowFlow
<1>5. ASSUME RawOf("BATCH_SIGN") PROVE Live(raw.msg) /\ raw.msg # batch.msg
  <2>1. raw.msg \in ItemSet
    BY <1>5 DEF WindowsInv, RawFlow
  <2>2. raw.msg \in Messages
    BY <2>1 DEF WindowsInv, WindowTypes, BatchType, ItemSet, ToSet
  <2>. QED  BY <2>1, <2>2 DEF WindowsInv, Owned, Live
<1>6. cur = "TX_RAW_DATA" => RawOf("TXSHOW") \/ RawOf("BATCH_SIGN")
  BY DEF WindowsInv, WindowTypes, RawType, RawOf
<1>7. RawOf("TXSHOW") => Showing
  BY DEF Showing
<1>8. RawOf("BATCH_SIGN") => Batching
  BY DEF Batching
<1>9. cur = "TX_RAW_DATA" => Live(raw.msg) /\ raw.msg # batch.msg /\ last # Nothing
  BY <1>2, <1>3, <1>4, <1>5, <1>6, <1>7, <1>8
<1>10. cur = "TXSHOW" => Live(show.msg) /\ show.msg # batch.msg /\ last # Nothing
  BY <1>2 DEF Showing
<1>11. cur = "BATCH_SIGN" => Live(batch.msg) /\ last # Nothing
  BY <1>3 DEF Batching
<1>. QED  BY <1>1, <1>9, <1>10, <1>11 DEF Four

LEMMA VerifyCancelKeeps ==
  ASSUME WindowsInv, VerifyCancel
  PROVE  WindowsInv'
<1>1. /\ todo = << >> /\ modal = "none" /\ modal' = "none" /\ cur = "TX_VERIFY_CODE"
      /\ ChangeWindow("MAINPANEL")
      /\ UNCHANGED <<heap, verify, show, raw, batch, history, txs, answer, last, odd>>
  BY DEF VerifyCancel, Idle
<1>2. /\ cur' = "MAINPANEL" /\ cur' # cur
      /\ Phase = "still" /\ Behind = "none" /\ Phase' = "left" /\ Behind' = cur
      /\ todo' = <<Call("pause", Behind'), Call("resume", cur')>>
  BY <1>1, QueueChanges
<1>3. QueueShape'
  BY <1>1, <1>2, CellsOnly DEF WindowsInv, QueueShape, RequestLoops, Four
<1>4. WindowTypes'
  BY <1>1, <1>2, CellsOnly DEF WindowsInv, WindowTypes
<1>5. Owned'
  BY <1>1, <1>2, CellsOnly DEF WindowsInv, Owned, ItemSet, OfHistory
<1>6. VerifyFlow'
  BY <1>1, <1>2, CellsOnly DEF WindowsInv, VerifyFlow, Coming, Showing, RawOf, Live, Four
<1>7. ShowFlow'
  BY <1>1, <1>2, CellsOnly DEF WindowsInv, ShowFlow, Coming, Showing, RawOf, Live, Four
<1>8. RawFlow'
  BY <1>1, <1>2, CellsOnly DEF WindowsInv, RawFlow, Coming, RawOf, ItemSet
<1>9. BatchFlow'
  BY <1>1, <1>2, CellsOnly DEF WindowsInv, BatchFlow, Coming, Batching, RawOf, Live, Four, ItemSet, Parsed
<1>10. AnswerFlow'
  BY <1>1, <1>2, CellsOnly DEF WindowsInv, AnswerFlow, VerifyOk, ShowOk, RawOk, Session
<1>11. Untouched'
  BY <1>1, <1>2, CellsOnly DEF WindowsInv, Untouched
<1>12. SourceFlow'
  BY <1>1, <1>2, CellsOnly DEF WindowsInv, SourceFlow, Coming, Showing, RawOf
<1>. QED  BY <1>3, <1>4, <1>5, <1>6, <1>7, <1>8, <1>9, <1>10, <1>11, <1>12 DEF WindowsInv

LEMMA BatchCancelKeeps ==
  ASSUME WindowsInv, BatchCancel
  PROVE  WindowsInv'
<1>1. /\ todo = << >> /\ modal = "none" /\ modal' = "none" /\ cur = "BATCH_SIGN"
      /\ ChangeWindow("MAINPANEL")
      /\ UNCHANGED <<heap, verify, show, raw, batch, history, txs, answer, last, odd>>
      /\ batch.state = "LIST"
  BY DEF BatchCancel, Idle
<1>2. /\ cur' = "MAINPANEL" /\ cur' # cur
      /\ Phase = "still" /\ Behind = "none" /\ Phase' = "left" /\ Behind' = cur
      /\ todo' = <<Call("pause", Behind'), Call("resume", cur')>>
  BY <1>1, QueueChanges
<1>3. QueueShape'
  BY <1>1, <1>2, CellsOnly DEF WindowsInv, QueueShape, RequestLoops, Four
<1>4. WindowTypes'
  BY <1>1, <1>2, CellsOnly DEF WindowsInv, WindowTypes
<1>5. Owned'
  BY <1>1, <1>2, CellsOnly DEF WindowsInv, Owned, ItemSet, OfHistory
<1>6. VerifyFlow'
  BY <1>1, <1>2, CellsOnly DEF WindowsInv, VerifyFlow, Coming, Showing, RawOf, Live, Four
<1>7. ShowFlow'
  BY <1>1, <1>2, CellsOnly DEF WindowsInv, ShowFlow, Coming, Showing, RawOf, Live, Four
<1>8. RawFlow'
  BY <1>1, <1>2, CellsOnly DEF WindowsInv, RawFlow, Coming, RawOf, ItemSet
<1>9. BatchFlow'
  BY <1>1, <1>2, CellsOnly DEF WindowsInv, BatchFlow, Coming, Batching, RawOf, Live, Four, ItemSet, Parsed
<1>10. AnswerFlow'
  BY <1>1, <1>2, CellsOnly DEF WindowsInv, AnswerFlow, VerifyOk, ShowOk, RawOk, Session
<1>11. Untouched'
  BY <1>1, <1>2, CellsOnly DEF WindowsInv, Untouched
<1>12. SourceFlow'
  BY <1>1, <1>2, CellsOnly DEF WindowsInv, SourceFlow, Coming, Showing, RawOf
<1>. QED  BY <1>3, <1>4, <1>5, <1>6, <1>7, <1>8, <1>9, <1>10, <1>11, <1>12 DEF WindowsInv

LEMMA ShowBackKeeps ==
  ASSUME WindowsInv, ShowBack
  PROVE  WindowsInv'
<1>1. /\ todo = << >> /\ modal = "none" /\ modal' = "none" /\ cur = "TXSHOW"
      /\ ChangeWindow((IF show.from = "history" THEN "SIGN_HISTORY" ELSE "TX_VERIFY_CODE"))
      /\ UNCHANGED <<heap, verify, show, raw, batch, history, txs, answer, last, odd>>
  BY DEF ShowBack, Idle
<1>2. /\ cur' = (IF show.from = "history" THEN "SIGN_HISTORY" ELSE "TX_VERIFY_CODE") /\ cur' # cur
      /\ Phase = "still" /\ Behind = "none" /\ Phase' = "left" /\ Behind' = cur
      /\ todo' = <<Call("pause", Behind'), Call("resume", cur')>>
  BY <1>1, QueueChanges
<1>3. show.from \in {"app", "history"}
  BY DEF WindowsInv, WindowTypes, ShowType, Sources
<1>4. QueueShape'
  BY <1>1, <1>2, <1>3, CellsOnly DEF WindowsInv, QueueShape, RequestLoops, Four
<1>5. WindowTypes'
  BY <1>1, <1>2, <1>3, CellsOnly DEF WindowsInv, WindowTypes
<1>6. Owned'
  BY <1>1, <1>2, <1>3, CellsOnly DEF WindowsInv, Owned, ItemSet, OfHistory
<1>7. VerifyFlow'
  <2>1. CASE show.from = "history"
    BY <1>1, <1>2, <1>3, <2>1, CellsOnly DEF WindowsInv, VerifyFlow, Coming, Showing, RawOf, Live, Four
  <2>2. CASE show.from = "app"
    BY <1>1, <1>2, <1>3, <2>2, CellsOnly DEF WindowsInv, VerifyFlow, Coming, Showing, RawOf, Live, Four
  <2>. QED  BY <1>3, <2>1, <2>2
<1>8. ShowFlow'
  <2>1. CASE show.from = "history"
    BY <1>1, <1>2, <1>3, <2>1, CellsOnly DEF WindowsInv, ShowFlow, Coming, Showing, RawOf, Live, Four
  <2>2. CASE show.from = "app"
    BY <1>1, <1>2, <1>3, <2>2, CellsOnly DEF WindowsInv, ShowFlow, Coming, Showing, RawOf, Live, Four
  <2>. QED  BY <1>3, <2>1, <2>2
<1>9. RawFlow'
  BY <1>1, <1>2, <1>3, CellsOnly DEF WindowsInv, RawFlow, Coming, RawOf, ItemSet
<1>10. BatchFlow'
  BY <1>1, <1>2, <1>3, CellsOnly DEF WindowsInv, BatchFlow, Coming, Batching, RawOf, Live, Four, ItemSet, Parsed
<1>11. AnswerFlow'
  BY <1>1, <1>2, <1>3, CellsOnly DEF WindowsInv, AnswerFlow, VerifyOk, ShowOk, RawOk, Session
<1>12. Untouched'
  BY <1>1, <1>2, <1>3, CellsOnly DEF WindowsInv, Untouched
<1>13. SourceFlow'
  BY <1>1, <1>2, <1>3, CellsOnly DEF WindowsInv, SourceFlow, Coming, Showing, RawOf
<1>. QED  BY <1>4, <1>5, <1>6, <1>7, <1>8, <1>9, <1>10, <1>11, <1>12, <1>13 DEF WindowsInv

LEMMA RawBackKeeps ==
  ASSUME WindowsInv, RawBack
  PROVE  WindowsInv'
<1>1. /\ todo = << >> /\ modal = "none" /\ modal' = "none" /\ cur = "TX_RAW_DATA"
      /\ ChangeWindow(raw.back)
      /\ UNCHANGED <<heap, verify, show, raw, batch, history, txs, answer, last, odd>>
  BY DEF RawBack, Idle
<1>2. raw.back \in {"TXSHOW", "BATCH_SIGN"}
  BY DEF WindowsInv, WindowTypes, RawType
<1>3. /\ cur' = raw.back /\ cur' # cur
      /\ Phase = "still" /\ Behind = "none" /\ Phase' = "left" /\ Behind' = cur
      /\ todo' = <<Call("pause", Behind'), Call("resume", cur')>>
  BY <1>1, <1>2, QueueChanges
<1>4. raw.back = "BATCH_SIGN" => batch.state = "DETAIL"
  BY <1>1 DEF WindowsInv, RawFlow, RawOf
<1>5. QueueShape'
  BY <1>1, <1>2, <1>3, <1>4, CellsOnly DEF WindowsInv, QueueShape, RequestLoops, Four
<1>6. WindowTypes'
  BY <1>1, <1>2, <1>3, <1>4, CellsOnly DEF WindowsInv, WindowTypes
<1>7. Owned'
  BY <1>1, <1>2, <1>3, <1>4, CellsOnly DEF WindowsInv, Owned, ItemSet, OfHistory
<1>8. VerifyFlow'
  BY <1>1, <1>2, <1>3, <1>4, CellsOnly DEF WindowsInv, VerifyFlow, Coming, Showing, RawOf, Live, Four
<1>9. ShowFlow'
  BY <1>1, <1>2, <1>3, <1>4, CellsOnly DEF WindowsInv, ShowFlow, Coming, Showing, RawOf, Live, Four
<1>10. RawFlow'
  BY <1>1, <1>2, <1>3, <1>4, CellsOnly DEF WindowsInv, RawFlow, Coming, RawOf, ItemSet
<1>11. BatchFlow'
  BY <1>1, <1>2, <1>3, <1>4, CellsOnly DEF WindowsInv, BatchFlow, Coming, Batching, RawOf, Live, Four, ItemSet, Parsed
<1>12. AnswerFlow'
  BY <1>1, <1>2, <1>3, <1>4, CellsOnly DEF WindowsInv, AnswerFlow, VerifyOk, ShowOk, RawOk, Session
<1>13. Untouched'
  BY <1>1, <1>2, <1>3, <1>4, CellsOnly DEF WindowsInv, Untouched
<1>14. SourceFlow'
  BY <1>1, <1>2, <1>3, <1>4, CellsOnly DEF WindowsInv, SourceFlow, Coming, Showing, RawOf
<1>. QED  BY <1>5, <1>6, <1>7, <1>8, <1>9, <1>10, <1>11, <1>12, <1>13, <1>14 DEF WindowsInv

LEMMA SignKeyKeeps ==
  ASSUME WindowsInv, SignKey
  PROVE  WindowsInv'
<1>1. /\ modal = "none" /\ modal' = "pin" /\ (VerifyOk \/ ShowOk \/ RawOk)
      /\ UNCHANGED <<cur, todo, heap, verify, show, raw, batch, history, txs, answer, last, odd>>
  BY DEF SignKey, Idle
<1>2. todo = << >>
  BY DEF SignKey, Idle
<1>3. Phase = "still" /\ Behind = "none" /\ Phase' = "still" /\ Behind' = "none"
  BY <1>1, <1>2, PhaseType, QueueSame
<1>4. cur \in {"TX_VERIFY_CODE", "TXSHOW", "TX_RAW_DATA"}
  BY <1>1 DEF VerifyOk, ShowOk, RawOk
<1>5. QueueShape'
  BY <1>1, <1>2, <1>3, <1>4, CellsOnly DEF WindowsInv, QueueShape, RequestLoops, Four
<1>6. WindowTypes'
  BY <1>1, <1>2, <1>3, <1>4, CellsOnly DEF WindowsInv, WindowTypes
<1>7. Owned'
  BY <1>1, <1>2, <1>3, <1>4, CellsOnly DEF WindowsInv, Owned, ItemSet, OfHistory
<1>8. VerifyFlow'
  BY <1>1, <1>2, <1>3, <1>4, CellsOnly DEF WindowsInv, VerifyFlow, Coming, Showing, RawOf, Live, Four
<1>9. ShowFlow'
  BY <1>1, <1>2, <1>3, <1>4, CellsOnly DEF WindowsInv, ShowFlow, Coming, Showing, RawOf, Live, Four
<1>10. RawFlow'
  BY <1>1, <1>2, <1>3, <1>4, CellsOnly DEF WindowsInv, RawFlow, Coming, RawOf, ItemSet
<1>11. BatchFlow'
  BY <1>1, <1>2, <1>3, <1>4, CellsOnly DEF WindowsInv, BatchFlow, Coming, Batching, RawOf, Live, Four, ItemSet, Parsed
<1>12. AnswerFlow'
  BY <1>1, <1>2, <1>3, <1>4, CellsOnly DEF WindowsInv, AnswerFlow, VerifyOk, ShowOk, RawOk, Session
<1>13. Untouched'
  BY <1>1, <1>2, <1>3, <1>4, CellsOnly DEF WindowsInv, Untouched
<1>14. SourceFlow'
  BY <1>1, <1>2, <1>3, <1>4, CellsOnly DEF WindowsInv, SourceFlow, Coming, Showing, RawOf
<1>. QED  BY <1>5, <1>6, <1>7, <1>8, <1>9, <1>10, <1>11, <1>12, <1>13, <1>14 DEF WindowsInv

LEMMA PinEnteredKeeps ==
  ASSUME WindowsInv, PinEntered
  PROVE  WindowsInv'
<1>1. /\ modal = "pin" /\ cur # "BATCH_SIGN" /\ modal' \in {"none", "error", "answer"}
      /\ IF modal' = "answer" THEN answer' = [of |-> <<Session>>, by |-> cur] ELSE answer' = answer
      /\ UNCHANGED <<cur, todo, heap, verify, show, raw, batch, history, txs, last, odd>>
  BY DEF PinEntered
<1>2. Phase = "still" /\ Behind = "none" /\ Phase' = "still" /\ Behind' = "none"
  BY <1>1, PhaseType, QueueSame DEF WindowsInv, QueueShape
<1>3. answer = Nothing /\ last # Nothing
  BY <1>1, FrontIsLive DEF WindowsInv, AnswerFlow, QueueShape, RequestLoops
<1>4. QueueShape'
  BY <1>1, <1>2, <1>3, CellsOnly DEF WindowsInv, QueueShape, RequestLoops, Four
<1>5. WindowTypes'
  BY <1>1, <1>2, <1>3, CellsOnly DEF WindowsInv, WindowTypes
<1>6. Owned'
  BY <1>1, <1>2, <1>3, CellsOnly DEF WindowsInv, Owned, ItemSet, OfHistory
<1>7. VerifyFlow'
  BY <1>1, <1>2, <1>3, CellsOnly DEF WindowsInv, VerifyFlow, Coming, Showing, RawOf, Live, Four
<1>8. ShowFlow'
  BY <1>1, <1>2, <1>3, CellsOnly DEF WindowsInv, ShowFlow, Coming, Showing, RawOf, Live, Four
<1>9. RawFlow'
  BY <1>1, <1>2, <1>3, CellsOnly DEF WindowsInv, RawFlow, Coming, RawOf, ItemSet
<1>10. BatchFlow'
  BY <1>1, <1>2, <1>3, CellsOnly DEF WindowsInv, BatchFlow, Coming, Batching, RawOf, Live, Four, ItemSet, Parsed
<1>11. AnswerFlow'
  BY <1>1, <1>2, <1>3, CellsOnly DEF WindowsInv, AnswerFlow, VerifyOk, ShowOk, RawOk, Session
<1>12. Untouched'
  BY <1>1, <1>2, <1>3, CellsOnly DEF WindowsInv, Untouched
<1>13. SourceFlow'
  BY <1>1, <1>2, <1>3, CellsOnly DEF WindowsInv, SourceFlow, Coming, Showing, RawOf
<1>. QED  BY <1>4, <1>5, <1>6, <1>7, <1>8, <1>9, <1>10, <1>11, <1>12, <1>13 DEF WindowsInv

LEMMA AnswerClosedKeeps ==
  ASSUME WindowsInv, AnswerClosed
  PROVE  WindowsInv'
<1>1. /\ modal = "answer" /\ cur # "BATCH_SIGN" /\ answer' = Nothing
      /\ UNCHANGED <<heap, verify, show, raw, batch, history, last, odd>>
  BY DEF AnswerClosed
<1>2. todo = << >> /\ Phase = "still" /\ Behind = "none"
  BY <1>1, PhaseType DEF WindowsInv, QueueShape
<1>3. cur \in {"TX_VERIFY_CODE", "TXSHOW", "TX_RAW_DATA"}
  BY <1>1 DEF WindowsInv, QueueShape, RequestLoops, Four
<1>4. \/ /\ modal' = "none" /\ txs' = Kept(Message) /\ cur' = "MAINPANEL" /\ cur' # cur
         /\ Phase' = "left" /\ Behind' = cur
         /\ todo' = <<Call("pause", Behind'), Call("resume", cur')>>
      \/ /\ modal' = "error" /\ cur' = cur /\ txs' = txs
         /\ Phase' = "still" /\ Behind' = "none"
  BY <1>2, <1>3, QueueChanges, QueueSame DEF AnswerClosed
<1>5. Live(Message) /\ Message # batch.msg /\ last # Nothing
  BY <1>3, FrontIsLive DEF Message, Four, WindowsInv, Owned, Live
<1>6. VerifyOk \/ ShowOk \/ RawOk
  BY <1>1 DEF WindowsInv, AnswerFlow
<1>7. batch.state # "DETAIL"
  BY <1>2, <1>3, <1>6 DEF WindowsInv, BatchFlow, Batching, RawOf, RawFlow, VerifyOk, ShowOk, RawOk
<1>8. show.from = "history" => show.msg = Nothing
  BY <1>2, <1>3, <1>6 DEF WindowsInv, ShowFlow, Showing, RawOf, VerifyOk, ShowOk, RawOk
<1>9. txs' \subseteq Classes
  BY <1>4, <1>5 DEF WindowsInv, WindowTypes, Owned, Kept, Live
<1>10. QueueShape'
  BY <1>1, <1>2, <1>3, <1>4, <1>5, <1>6, <1>7, <1>8, <1>9, CellsOnly DEF WindowsInv, QueueShape, RequestLoops, Four
<1>11. WindowTypes'
  BY <1>1, <1>2, <1>3, <1>4, <1>5, <1>6, <1>7, <1>8, <1>9, CellsOnly DEF WindowsInv, WindowTypes
<1>12. Owned'
  BY <1>1, <1>2, <1>3, <1>4, <1>5, <1>6, <1>7, <1>8, <1>9, CellsOnly DEF WindowsInv, Owned, ItemSet, OfHistory
<1>13. VerifyFlow'
  BY <1>1, <1>2, <1>3, <1>4, <1>5, <1>6, <1>7, <1>8, <1>9, CellsOnly DEF WindowsInv, VerifyFlow, Coming, Showing, RawOf, Live, Four
<1>14. ShowFlow'
  <2>1. CASE modal' = "none"
    BY <1>1, <1>2, <1>3, <1>4, <1>5, <1>6, <1>7, <1>8, <1>9, <2>1, CellsOnly DEF WindowsInv, ShowFlow, Coming, Showing, RawOf, Live, Four
  <2>2. CASE modal' = "error"
    BY <1>1, <1>2, <1>3, <1>4, <1>5, <1>6, <1>7, <1>8, <1>9, <2>2, CellsOnly DEF WindowsInv, ShowFlow, Coming, Showing, RawOf, Live, Four
  <2>. QED  BY <1>4, <2>1, <2>2
<1>15. RawFlow'
  BY <1>1, <1>2, <1>3, <1>4, <1>5, <1>6, <1>7, <1>8, <1>9, CellsOnly DEF WindowsInv, RawFlow, Coming, RawOf, ItemSet
<1>16. BatchFlow'
  <2>1. CASE modal' = "none"
    BY <1>1, <1>2, <1>3, <1>4, <1>5, <1>6, <1>7, <1>8, <1>9, <2>1, CellsOnly DEF WindowsInv, BatchFlow, Coming, Batching, RawOf, Live, Four, ItemSet, Parsed
  <2>2. CASE modal' = "error"
    BY <1>1, <1>2, <1>3, <1>4, <1>5, <1>6, <1>7, <1>8, <1>9, <2>2, CellsOnly DEF WindowsInv, BatchFlow, Coming, Batching, RawOf, Live, Four, ItemSet, Parsed
  <2>. QED  BY <1>4, <2>1, <2>2
<1>17. AnswerFlow'
  BY <1>1, <1>2, <1>3, <1>4, <1>5, <1>6, <1>7, <1>8, <1>9, CellsOnly DEF WindowsInv, AnswerFlow, VerifyOk, ShowOk, RawOk, Session
<1>18. Untouched'
  BY <1>1, <1>2, <1>3, <1>4, <1>5, <1>6, <1>7, <1>8, <1>9, CellsOnly DEF WindowsInv, Untouched
<1>19. SourceFlow'
  BY <1>1, <1>2, <1>3, <1>4, <1>5, <1>6, <1>7, <1>8, <1>9, CellsOnly DEF WindowsInv, SourceFlow, Coming, Showing, RawOf
<1>. QED  BY <1>10, <1>11, <1>12, <1>13, <1>14, <1>15, <1>16, <1>17, <1>18, <1>19 DEF WindowsInv

LEMMA ErrorClosedKeeps ==
  ASSUME WindowsInv, ErrorClosed
  PROVE  WindowsInv'
<1>1. /\ modal \in {"error", "leave"} /\ modal' = "none"
      /\ todo' = IF modal = "leave" THEN Append(todo, Call("change", "MAINPANEL")) ELSE todo
      /\ UNCHANGED <<cur, heap, verify, show, raw, batch, history, txs, answer, last, odd>>
  BY DEF ErrorClosed
<1>2. todo = << >> /\ Phase = "still" /\ Behind = "none"
  BY <1>1, PhaseType DEF WindowsInv, QueueShape
<1>3. Phase' = (IF modal = "leave" THEN "sent" ELSE "still") /\ Behind' = "none"
  BY <1>1, <1>2, QueueSame, QueuePosts
<1>4. answer = Nothing
  BY <1>1 DEF WindowsInv, AnswerFlow
<1>5. QueueShape'
  BY <1>1, <1>2, <1>3, <1>4, CellsOnly DEF WindowsInv, QueueShape, RequestLoops, Four
<1>6. WindowTypes'
  BY <1>1, <1>2, <1>3, <1>4, CellsOnly DEF WindowsInv, WindowTypes
<1>7. Owned'
  BY <1>1, <1>2, <1>3, <1>4, CellsOnly DEF WindowsInv, Owned, ItemSet, OfHistory
<1>8. VerifyFlow'
  BY <1>1, <1>2, <1>3, <1>4, CellsOnly DEF WindowsInv, VerifyFlow, Coming, Showing, RawOf, Live, Four
<1>9. ShowFlow'
  BY <1>1, <1>2, <1>3, <1>4, CellsOnly DEF WindowsInv, ShowFlow, Coming, Showing, RawOf, Live, Four
<1>10. RawFlow'
  BY <1>1, <1>2, <1>3, <1>4, CellsOnly DEF WindowsInv, RawFlow, Coming, RawOf, ItemSet
<1>11. BatchFlow'
  BY <1>1, <1>2, <1>3, <1>4, CellsOnly DEF WindowsInv, BatchFlow, Coming, Batching, RawOf, Live, Four, ItemSet, Parsed
<1>12. AnswerFlow'
  BY <1>1, <1>2, <1>3, <1>4, CellsOnly DEF WindowsInv, AnswerFlow, VerifyOk, ShowOk, RawOk, Session
<1>13. Untouched'
  BY <1>1, <1>2, <1>3, <1>4, CellsOnly DEF WindowsInv, Untouched
<1>14. SourceFlow'
  BY <1>1, <1>2, <1>3, <1>4, CellsOnly DEF WindowsInv, SourceFlow, Coming, Showing, RawOf
<1>. QED  BY <1>5, <1>6, <1>7, <1>8, <1>9, <1>10, <1>11, <1>12, <1>13, <1>14 DEF WindowsInv

LEMMA ShowGiven ==
  ASSUME NEW m \in Pointers, NEW from \in Sources, show \in ShowType, ShowTakes(m, from)
  PROVE  /\ show' \in ShowType /\ show'.msg = m /\ show'.from = from
         /\ show'.ret = -1 /\ show'.raw = FALSE /\ show'.sess = Nothing
         /\ show'.view = IF show.sess = Nothing /\ show.view # Nothing THEN show.view ELSE from
<1>. DEFINE c == Closed(show)
            s == [c EXCEPT !.ret = -1, !.raw = FALSE, !.msg = m, !.from = from]
<1>1. /\ c \in ShowType /\ c.sess = Nothing
      /\ c.view = IF show.sess = Nothing THEN show.view ELSE Nothing
  BY ClosedFields
<1>. HIDE DEF c
<1>2. /\ s \in ShowType /\ s.msg = m /\ s.from = from /\ s.ret = -1 /\ s.raw = FALSE
      /\ s.sess = Nothing /\ s.view = c.view
  <2>1. -1 \in Int
    OBVIOUS
  <2>2. s = [c EXCEPT !.ret = -1, !.raw = FALSE, !.msg = m, !.from = from]
    OBVIOUS
  <2>. HIDE DEF s
  <2>3. PICK z \in Int, f \in BOOLEAN : z = -1 /\ f = FALSE
    BY <2>1
  <2>4. s = [c EXCEPT !.ret = z, !.raw = f, !.msg = m, !.from = from]
    BY <2>2, <2>3
  <2>5. /\ s \in ShowType /\ s.msg = m /\ s.from = from /\ s.ret = z /\ s.raw = f
        /\ s.sess = c.sess /\ s.view = c.view
    <3>. DEFINE t == [c EXCEPT !.ret = z, !.raw = f]
    <3>1. t \in ShowType /\ t.ret = z /\ t.raw = f /\ t.sess = c.sess /\ t.view = c.view
      BY <1>1 DEF ShowType
    <3>2. s = [t EXCEPT !.msg = m, !.from = from]
      BY <2>4
    <3>. HIDE DEF t
    <3>. QED  BY <3>1, <3>2 DEF ShowType
  <2>. QED  BY <1>1, <2>3, <2>5
<1>3. show' = Viewing(s)
  BY DEF ShowTakes, c
<1>. HIDE DEF s
<1>. QED  BY <1>1, <1>2, <1>3 DEF Viewing, ShowType

LEMMA RawGiven ==
  ASSUME NEW m \in Pointers, NEW from \in Sources, NEW back \in {"TXSHOW", "BATCH_SIGN"},
         raw \in RawType, RawTakes(m, from, back)
  PROVE  /\ raw' \in RawType /\ raw'.msg = m /\ raw'.from = from
         /\ raw'.ret = -1 /\ raw'.back = back /\ raw'.sess = Nothing
         /\ raw'.view = IF raw.sess = Nothing /\ raw.view # Nothing THEN raw.view ELSE from
<1>. DEFINE c == Closed(raw)
            s == [c EXCEPT !.ret = -1, !.msg = m, !.from = from, !.back = back]
<1>1. /\ c \in RawType /\ c.sess = Nothing
      /\ c.view = IF raw.sess = Nothing THEN raw.view ELSE Nothing
  BY ClosedFields
<1>. HIDE DEF c
<1>2. /\ s \in RawType /\ s.msg = m /\ s.from = from /\ s.ret = -1 /\ s.back = back
      /\ s.sess = Nothing /\ s.view = c.view
  <2>1. -1 \in Int
    OBVIOUS
  <2>2. s = [c EXCEPT !.ret = -1, !.msg = m, !.from = from, !.back = back]
    OBVIOUS
  <2>. HIDE DEF s
  <2>3. PICK z \in Int, f \in BOOLEAN : z = -1 /\ f = FALSE
    BY <2>1
  <2>4. s = [c EXCEPT !.ret = z, !.msg = m, !.from = from, !.back = back]
    BY <2>2, <2>3
  <2>5. /\ s \in RawType /\ s.msg = m /\ s.from = from /\ s.ret = z /\ s.back = back
        /\ s.sess = c.sess /\ s.view = c.view
    <3>. DEFINE t == [c EXCEPT !.ret = z, !.msg = m]
    <3>1. t \in RawType /\ t.ret = z /\ t.msg = m /\ t.sess = c.sess /\ t.view = c.view
      BY <1>1 DEF RawType
    <3>2. s = [t EXCEPT !.from = from, !.back = back]
      BY <2>4
    <3>. HIDE DEF t
    <3>. QED  BY <3>1, <3>2 DEF RawType
  <2>. QED  BY <1>1, <2>3, <2>5
<1>3. raw' = Viewing(s)
  BY DEF RawTakes, c
<1>. HIDE DEF s
<1>. QED  BY <1>1, <1>2, <1>3 DEF Viewing, RawType

LEMMA PostedKeeps ==
  ASSUME WindowsInv, Posted
  PROVE  WindowsInv'
<1>1. /\ UNCHANGED <<modal, heap, verify, show, raw, batch, history, txs, answer, last, odd>>
  BY DEF Posted
<1>2. /\ Phase = "sent" /\ Behind = "none" /\ modal = "none" /\ cur' = "MAINPANEL"
      /\ Phase' = "left" /\ Behind' = cur
      /\ todo' = <<Call("pause", Behind'), Call("resume", cur')>>
  BY QueueSends DEF WindowsInv
<1>3. cur \in {"TX_VERIFY_CODE", "BATCH_SIGN"} /\ answer = Nothing
  BY <1>2 DEF WindowsInv, QueueShape, AnswerFlow
<1>4. QueueShape'
  BY <1>1, <1>2, <1>3, CellsOnly DEF WindowsInv, QueueShape, RequestLoops, Four
<1>5. WindowTypes'
  BY <1>1, <1>2, <1>3, CellsOnly DEF WindowsInv, WindowTypes
<1>6. Owned'
  BY <1>1, <1>2, <1>3, CellsOnly DEF WindowsInv, Owned, ItemSet, OfHistory
<1>7. VerifyFlow'
  BY <1>1, <1>2, <1>3, CellsOnly DEF WindowsInv, VerifyFlow, Coming, Showing, RawOf, Live, Four
<1>8. ShowFlow'
  BY <1>1, <1>2, <1>3, CellsOnly DEF WindowsInv, ShowFlow, Coming, Showing, RawOf, Live, Four
<1>9. RawFlow'
  BY <1>1, <1>2, <1>3, CellsOnly DEF WindowsInv, RawFlow, Coming, RawOf, ItemSet
<1>10. BatchFlow'
  BY <1>1, <1>2, <1>3, CellsOnly DEF WindowsInv, BatchFlow, Coming, Batching, RawOf, Live, Four, ItemSet, Parsed
<1>11. AnswerFlow'
  BY <1>1, <1>2, <1>3, CellsOnly DEF WindowsInv, AnswerFlow, VerifyOk, ShowOk, RawOk, Session
<1>12. Untouched'
  BY <1>1, <1>2, <1>3, CellsOnly DEF WindowsInv, Untouched
<1>13. SourceFlow'
  BY <1>1, <1>2, <1>3, CellsOnly DEF WindowsInv, SourceFlow, Coming, Showing, RawOf
<1>. QED  BY <1>4, <1>5, <1>6, <1>7, <1>8, <1>9, <1>10, <1>11, <1>12, <1>13 DEF WindowsInv

LEMMA ShowScrollKeeps ==
  ASSUME WindowsInv, ShowScroll
  PROVE  WindowsInv'
<1>1. /\ modal = "none" /\ cur = "TXSHOW" /\ todo = << >>
      /\ UNCHANGED <<cur, todo, modal, heap, verify, raw, batch, history, txs, answer, last, odd>>
  BY DEF ShowScroll, Idle
<1>2. Phase = "still" /\ Behind = "none" /\ Phase' = "still" /\ Behind' = "none"
  BY <1>1, PhaseType, QueueSame
<1>3. PICK d \in {-1, 1} : show' = [show EXCEPT !.at = @ + d]
  BY DEF ShowScroll
<1>4. /\ show' \in ShowType /\ show'.msg = show.msg /\ show'.from = show.from
      /\ show'.ret = show.ret /\ show'.raw = show.raw /\ show'.sess = show.sess
      /\ show'.view = show.view
  BY <1>3 DEF WindowsInv, WindowTypes, ShowType
<1>5. QueueShape'
  BY <1>1, <1>2, <1>3, <1>4, CellsOnly DEF WindowsInv, QueueShape, RequestLoops, Four
<1>6. WindowTypes'
  BY <1>1, <1>2, <1>3, <1>4, CellsOnly DEF WindowsInv, WindowTypes
<1>7. Owned'
  BY <1>1, <1>2, <1>3, <1>4, CellsOnly DEF WindowsInv, Owned, ItemSet, OfHistory
<1>8. VerifyFlow'
  BY <1>1, <1>2, <1>3, <1>4, CellsOnly DEF WindowsInv, VerifyFlow, Coming, Showing, RawOf, Live, Four
<1>9. ShowFlow'
  BY <1>1, <1>2, <1>3, <1>4, CellsOnly DEF WindowsInv, ShowFlow, Coming, Showing, RawOf, Live, Four
<1>10. RawFlow'
  BY <1>1, <1>2, <1>3, <1>4, CellsOnly DEF WindowsInv, RawFlow, Coming, RawOf, ItemSet
<1>11. BatchFlow'
  BY <1>1, <1>2, <1>3, <1>4, CellsOnly DEF WindowsInv, BatchFlow, Coming, Batching, RawOf, Live, Four, ItemSet, Parsed
<1>12. AnswerFlow'
  BY <1>1, <1>2, <1>3, <1>4, CellsOnly DEF WindowsInv, AnswerFlow, VerifyOk, ShowOk, RawOk, Session
<1>13. Untouched'
  BY <1>1, <1>2, <1>3, <1>4, CellsOnly DEF WindowsInv, Untouched
<1>14. SourceFlow'
  BY <1>1, <1>2, <1>3, <1>4, CellsOnly DEF WindowsInv, SourceFlow, Coming, Showing, RawOf
<1>. QED  BY <1>5, <1>6, <1>7, <1>8, <1>9, <1>10, <1>11, <1>12, <1>13, <1>14 DEF WindowsInv

LEMMA VerifyDetailsKeeps ==
  ASSUME WindowsInv, VerifyDetails
  PROVE  WindowsInv'
<1>1. /\ modal = "none" /\ cur = "TX_VERIFY_CODE" /\ todo = << >>
      /\ ShowTakes(verify.msg, "app") /\ ChangeWindow("TXSHOW")
      /\ verify' = [verify EXCEPT !.details = TRUE]
      /\ UNCHANGED <<modal, heap, raw, batch, history, txs, answer, last, odd>>
  BY DEF VerifyDetails, Idle
<1>2. /\ cur' = "TXSHOW" /\ cur' # cur
      /\ Phase = "still" /\ Behind = "none" /\ Phase' = "left" /\ Behind' = cur
      /\ todo' = <<Call("pause", Behind'), Call("resume", cur')>>
  BY <1>1, QueueChanges
<1>3. /\ verify' \in VerifyType /\ verify'.msg = verify.msg /\ verify'.ret = verify.ret
      /\ verify'.sess = verify.sess /\ verify'.code = verify.code /\ verify'.details
  BY <1>1 DEF WindowsInv, WindowTypes, VerifyType
<1>4. verify.msg = last /\ Live(last) /\ last # Nothing /\ ~verify.details
  BY <1>1, <1>2, CellsOnly DEF WindowsInv, VerifyFlow, Live, Coming
<1>5. /\ show' \in ShowType /\ show'.msg = verify.msg /\ show'.from = "app"
      /\ show'.ret = -1 /\ show'.raw = FALSE /\ show'.sess = Nothing
      /\ show'.view = IF show.sess = Nothing /\ show.view # Nothing THEN show.view ELSE "app"
  BY <1>1, <1>4, ShowGiven DEF WindowsInv, WindowTypes, Sources, Pointers, Live
<1>6. show.from = "history" => show.msg = Nothing
  BY <1>1, <1>2 DEF WindowsInv, ShowFlow, Showing, RawOf
<1>7. QueueShape'
  BY <1>1, <1>2, <1>3, <1>4, <1>5, <1>6, CellsOnly DEF WindowsInv, QueueShape, RequestLoops, Four
<1>8. WindowTypes'
  BY <1>1, <1>2, <1>3, <1>4, <1>5, <1>6, CellsOnly DEF WindowsInv, WindowTypes
<1>9. Owned'
  BY <1>1, <1>2, <1>3, <1>4, <1>5, <1>6, CellsOnly DEF WindowsInv, Owned, ItemSet, OfHistory
<1>10. VerifyFlow'
  BY <1>1, <1>2, <1>3, <1>4, <1>5, <1>6, CellsOnly DEF WindowsInv, VerifyFlow, Coming, Showing, RawOf, Live, Four
<1>11. ShowFlow'
  BY <1>1, <1>2, <1>3, <1>4, <1>5, <1>6, CellsOnly DEF WindowsInv, ShowFlow, Coming, Showing, RawOf, Live, Four
<1>12. RawFlow'
  BY <1>1, <1>2, <1>3, <1>4, <1>5, <1>6, CellsOnly DEF WindowsInv, RawFlow, Coming, RawOf, ItemSet
<1>13. BatchFlow'
  BY <1>1, <1>2, <1>3, <1>4, <1>5, <1>6, CellsOnly DEF WindowsInv, BatchFlow, Coming, Batching, RawOf, Live, Four, ItemSet, Parsed
<1>14. AnswerFlow'
  BY <1>1, <1>2, <1>3, <1>4, <1>5, <1>6, CellsOnly DEF WindowsInv, AnswerFlow, VerifyOk, ShowOk, RawOk, Session
<1>15. Untouched'
  BY <1>1, <1>2, <1>3, <1>4, <1>5, <1>6, CellsOnly DEF WindowsInv, Untouched
<1>16. SourceFlow'
  BY <1>1, <1>2, <1>3, <1>4, <1>5, <1>6, CellsOnly DEF WindowsInv, SourceFlow, Coming, Showing, RawOf
<1>. QED  BY <1>7, <1>8, <1>9, <1>10, <1>11, <1>12, <1>13, <1>14, <1>15, <1>16 DEF WindowsInv

LEMMA ShowRawKeeps ==
  ASSUME WindowsInv, ShowRaw
  PROVE  WindowsInv'
<1>1. /\ modal = "none" /\ cur = "TXSHOW" /\ todo = << >>
      /\ RawTakes(show.msg, show.from, "TXSHOW") /\ ChangeWindow("TX_RAW_DATA")
      /\ show' = [show EXCEPT !.raw = TRUE]
      /\ UNCHANGED <<modal, heap, verify, batch, history, txs, answer, last, odd>>
  BY DEF ShowRaw, Idle
<1>2. /\ cur' = "TX_RAW_DATA" /\ cur' # cur
      /\ Phase = "still" /\ Behind = "none" /\ Phase' = "left" /\ Behind' = cur
      /\ todo' = <<Call("pause", Behind'), Call("resume", cur')>>
  BY <1>1, QueueChanges
<1>3. /\ show' \in ShowType /\ show'.msg = show.msg /\ show'.from = show.from
      /\ show'.ret = show.ret /\ show'.raw /\ show'.sess = show.sess
      /\ show'.view = show.view
  BY <1>1 DEF WindowsInv, WindowTypes, ShowType
<1>4. show.msg \in Pointers /\ show.from \in Sources
  BY DEF WindowsInv, WindowTypes, ShowType
<1>5. /\ raw' \in RawType /\ raw'.msg = show.msg /\ raw'.from = show.from
      /\ raw'.ret = -1 /\ raw'.back = "TXSHOW" /\ raw'.sess = Nothing
      /\ raw'.view = IF raw.sess = Nothing /\ raw.view # Nothing THEN raw.view ELSE show.from
  BY <1>1, <1>4, RawGiven DEF WindowsInv, WindowTypes
<1>6. QueueShape'
  BY <1>1, <1>2, <1>3, <1>4, <1>5, CellsOnly DEF WindowsInv, QueueShape, RequestLoops, Four
<1>7. WindowTypes'
  BY <1>1, <1>2, <1>3, <1>4, <1>5, CellsOnly DEF WindowsInv, WindowTypes
<1>8. Owned'
  BY <1>1, <1>2, <1>3, <1>4, <1>5, CellsOnly DEF WindowsInv, Owned, ItemSet, OfHistory
<1>9. VerifyFlow'
  BY <1>1, <1>2, <1>3, <1>4, <1>5, CellsOnly DEF WindowsInv, VerifyFlow, Coming, Showing, RawOf, Live, Four
<1>10. ShowFlow'
  BY <1>1, <1>2, <1>3, <1>4, <1>5, CellsOnly DEF WindowsInv, ShowFlow, Coming, Showing, RawOf, Live, Four
<1>11. RawFlow'
  BY <1>1, <1>2, <1>3, <1>4, <1>5, CellsOnly DEF WindowsInv, RawFlow, Coming, RawOf, ItemSet
<1>12. BatchFlow'
  BY <1>1, <1>2, <1>3, <1>4, <1>5, CellsOnly DEF WindowsInv, BatchFlow, Coming, Batching, RawOf, Live, Four, ItemSet, Parsed
<1>13. AnswerFlow'
  BY <1>1, <1>2, <1>3, <1>4, <1>5, CellsOnly DEF WindowsInv, AnswerFlow, VerifyOk, ShowOk, RawOk, Session
<1>14. Untouched'
  BY <1>1, <1>2, <1>3, <1>4, <1>5, CellsOnly DEF WindowsInv, Untouched
<1>15. SourceFlow'
  BY <1>1, <1>2, <1>3, <1>4, <1>5, CellsOnly DEF WindowsInv, SourceFlow, Coming, Showing, RawOf
<1>. QED  BY <1>6, <1>7, <1>8, <1>9, <1>10, <1>11, <1>12, <1>13, <1>14, <1>15 DEF WindowsInv

LEMMA BatchSelectKeeps ==
  ASSUME WindowsInv, BatchSelect
  PROVE  WindowsInv'
<1>1. /\ modal = "none" /\ cur = "BATCH_SIGN" /\ todo = << >> /\ batch.state \in {"LIST", "SELECT"}
      /\ batch' = [batch EXCEPT !.state = IF @ = "LIST" THEN "SELECT" ELSE "LIST"]
      /\ UNCHANGED <<cur, todo, modal, heap, verify, show, raw, history, txs, answer, last, odd>>
  BY DEF BatchSelect, Idle
<1>2. Phase = "still" /\ Behind = "none" /\ Phase' = "still" /\ Behind' = "none"
  BY <1>1, PhaseType, QueueSame
<1>3. /\ batch' \in BatchType /\ batch'.msg = batch.msg /\ batch'.items = batch.items
      /\ batch'.sess = batch.sess /\ batch'.code = batch.code /\ batch'.done = batch.done
      /\ batch'.state \in {"LIST", "SELECT"}
  BY <1>1 DEF WindowsInv, WindowTypes, BatchType
<1>4. last # Nothing
  BY <1>1, FrontIsLive DEF Four
<1>5. QueueShape'
  BY <1>1, <1>2, <1>3, <1>4, CellsOnly DEF WindowsInv, QueueShape, RequestLoops, Four
<1>6. WindowTypes'
  BY <1>1, <1>2, <1>3, <1>4, CellsOnly DEF WindowsInv, WindowTypes
<1>7. Owned'
  BY <1>1, <1>2, <1>3, <1>4, CellsOnly DEF WindowsInv, Owned, ItemSet, OfHistory
<1>8. VerifyFlow'
  BY <1>1, <1>2, <1>3, <1>4, CellsOnly DEF WindowsInv, VerifyFlow, Coming, Showing, RawOf, Live, Four
<1>9. ShowFlow'
  BY <1>1, <1>2, <1>3, <1>4, CellsOnly DEF WindowsInv, ShowFlow, Coming, Showing, RawOf, Live, Four
<1>10. RawFlow'
  BY <1>1, <1>2, <1>3, <1>4, CellsOnly DEF WindowsInv, RawFlow, Coming, RawOf, ItemSet
<1>11. BatchFlow'
  BY <1>1, <1>2, <1>3, <1>4, CellsOnly DEF WindowsInv, BatchFlow, Coming, Batching, RawOf, Live, Four, ItemSet, Parsed
<1>12. AnswerFlow'
  BY <1>1, <1>2, <1>3, <1>4, CellsOnly DEF WindowsInv, AnswerFlow, VerifyOk, ShowOk, RawOk, Session
<1>13. Untouched'
  BY <1>1, <1>2, <1>3, <1>4, CellsOnly DEF WindowsInv, Untouched
<1>14. SourceFlow'
  BY <1>1, <1>2, <1>3, <1>4, CellsOnly DEF WindowsInv, SourceFlow, Coming, Showing, RawOf
<1>. QED  BY <1>5, <1>6, <1>7, <1>8, <1>9, <1>10, <1>11, <1>12, <1>13, <1>14 DEF WindowsInv

LEMMA BatchDetailKeeps ==
  ASSUME WindowsInv, NEW i, BatchDetail(i)
  PROVE  WindowsInv'
<1>1. /\ modal = "none" /\ cur = "BATCH_SIGN" /\ todo = << >>
      /\ batch.state = "SELECT" /\ i \in DOMAIN batch.items /\ modal' \in {"none", "error"}
      /\ UNCHANGED <<cur, todo, heap, verify, show, raw, history, txs, answer, last, odd>>
  BY DEF BatchDetail, Idle, Items
<1>2. Phase = "still" /\ Behind = "none" /\ Phase' = "still" /\ Behind' = "none"
  BY <1>1, PhaseType, QueueSame
<1>3. batch.items[i] \in ItemSet /\ batch.items[i] \in Messages
  BY <1>1 DEF WindowsInv, WindowTypes, BatchType, ItemSet, ToSet
<1>4. /\ batch' \in BatchType /\ batch'.msg = batch.msg /\ batch'.items = batch.items
      /\ batch'.code = batch.code /\ batch'.done = batch.done
      /\ IF modal' = "none" THEN batch'.state = "DETAIL" /\ batch'.sess = batch.items[i]
         ELSE batch'.state = "SELECT"
  BY <1>1, <1>3 DEF BatchDetail, WindowsInv, WindowTypes, BatchType, Pointers
<1>5. last # Nothing
  BY <1>1, FrontIsLive DEF Four
<1>6. QueueShape'
  BY <1>1, <1>2, <1>3, <1>4, <1>5, CellsOnly DEF WindowsInv, QueueShape, RequestLoops, Four
<1>7. WindowTypes'
  BY <1>1, <1>2, <1>3, <1>4, <1>5, CellsOnly DEF WindowsInv, WindowTypes
<1>8. Owned'
  BY <1>1, <1>2, <1>3, <1>4, <1>5, CellsOnly DEF WindowsInv, Owned, ItemSet, OfHistory
<1>9. VerifyFlow'
  BY <1>1, <1>2, <1>3, <1>4, <1>5, CellsOnly DEF WindowsInv, VerifyFlow, Coming, Showing, RawOf, Live, Four
<1>10. ShowFlow'
  BY <1>1, <1>2, <1>3, <1>4, <1>5, CellsOnly DEF WindowsInv, ShowFlow, Coming, Showing, RawOf, Live, Four
<1>11. RawFlow'
  BY <1>1, <1>2, <1>3, <1>4, <1>5, CellsOnly DEF WindowsInv, RawFlow, Coming, RawOf, ItemSet
<1>12. BatchFlow'
  BY <1>1, <1>2, <1>3, <1>4, <1>5, CellsOnly DEF WindowsInv, BatchFlow, Coming, Batching, RawOf, Live, Four, ItemSet, Parsed
<1>13. AnswerFlow'
  BY <1>1, <1>2, <1>3, <1>4, <1>5, CellsOnly DEF WindowsInv, AnswerFlow, VerifyOk, ShowOk, RawOk, Session
<1>14. Untouched'
  BY <1>1, <1>2, <1>3, <1>4, <1>5, CellsOnly DEF WindowsInv, Untouched
<1>15. SourceFlow'
  BY <1>1, <1>2, <1>3, <1>4, <1>5, CellsOnly DEF WindowsInv, SourceFlow, Coming, Showing, RawOf
<1>. QED  BY <1>6, <1>7, <1>8, <1>9, <1>10, <1>11, <1>12, <1>13, <1>14, <1>15 DEF WindowsInv

LEMMA BatchBackKeeps ==
  ASSUME WindowsInv, BatchBack
  PROVE  WindowsInv'
<1>1. /\ modal = "none" /\ cur = "BATCH_SIGN" /\ todo = << >>
      /\ batch' = [batch EXCEPT !.state = "SELECT", !.sess = Nothing]
      /\ UNCHANGED <<cur, todo, modal, heap, verify, show, raw, history, txs, answer, last, odd>>
  BY DEF BatchBack, Idle
<1>2. Phase = "still" /\ Behind = "none" /\ Phase' = "still" /\ Behind' = "none"
  BY <1>1, PhaseType, QueueSame
<1>3. /\ batch' \in BatchType /\ batch'.msg = batch.msg /\ batch'.items = batch.items
      /\ batch'.code = batch.code /\ batch'.done = batch.done /\ batch'.state = "SELECT"
  BY <1>1 DEF WindowsInv, WindowTypes, BatchType, Pointers
<1>4. last # Nothing
  BY <1>1, FrontIsLive DEF Four
<1>5. QueueShape'
  BY <1>1, <1>2, <1>3, <1>4, CellsOnly DEF WindowsInv, QueueShape, RequestLoops, Four
<1>6. WindowTypes'
  BY <1>1, <1>2, <1>3, <1>4, CellsOnly DEF WindowsInv, WindowTypes
<1>7. Owned'
  BY <1>1, <1>2, <1>3, <1>4, CellsOnly DEF WindowsInv, Owned, ItemSet, OfHistory
<1>8. VerifyFlow'
  BY <1>1, <1>2, <1>3, <1>4, CellsOnly DEF WindowsInv, VerifyFlow, Coming, Showing, RawOf, Live, Four
<1>9. ShowFlow'
  BY <1>1, <1>2, <1>3, <1>4, CellsOnly DEF WindowsInv, ShowFlow, Coming, Showing, RawOf, Live, Four
<1>10. RawFlow'
  BY <1>1, <1>2, <1>3, <1>4, CellsOnly DEF WindowsInv, RawFlow, Coming, RawOf, ItemSet
<1>11. BatchFlow'
  BY <1>1, <1>2, <1>3, <1>4, CellsOnly DEF WindowsInv, BatchFlow, Coming, Batching, RawOf, Live, Four, ItemSet, Parsed
<1>12. AnswerFlow'
  BY <1>1, <1>2, <1>3, <1>4, CellsOnly DEF WindowsInv, AnswerFlow, VerifyOk, ShowOk, RawOk, Session
<1>13. Untouched'
  BY <1>1, <1>2, <1>3, <1>4, CellsOnly DEF WindowsInv, Untouched
<1>14. SourceFlow'
  BY <1>1, <1>2, <1>3, <1>4, CellsOnly DEF WindowsInv, SourceFlow, Coming, Showing, RawOf
<1>. QED  BY <1>5, <1>6, <1>7, <1>8, <1>9, <1>10, <1>11, <1>12, <1>13, <1>14 DEF WindowsInv

LEMMA BatchRawKeeps ==
  ASSUME WindowsInv, BatchRaw
  PROVE  WindowsInv'
<1>1. /\ modal = "none" /\ cur = "BATCH_SIGN" /\ todo = << >> /\ batch.state = "DETAIL"
      /\ RawTakes(batch.sess, "history", "BATCH_SIGN") /\ ChangeWindow("TX_RAW_DATA")
      /\ UNCHANGED <<modal, heap, verify, show, batch, history, txs, answer, last, odd>>
  BY DEF BatchRaw, Idle
<1>2. /\ cur' = "TX_RAW_DATA" /\ cur' # cur
      /\ Phase = "still" /\ Behind = "none" /\ Phase' = "left" /\ Behind' = cur
      /\ todo' = <<Call("pause", Behind'), Call("resume", cur')>>
  BY <1>1, QueueChanges
<1>3. batch.sess \in Pointers /\ batch.sess \in ItemSet
  BY <1>1 DEF WindowsInv, WindowTypes, BatchType, BatchFlow
<1>4. /\ raw' \in RawType /\ raw'.msg = batch.sess /\ raw'.from = "history"
      /\ raw'.ret = -1 /\ raw'.back = "BATCH_SIGN" /\ raw'.sess = Nothing
      /\ raw'.view = IF raw.sess = Nothing /\ raw.view # Nothing THEN raw.view ELSE "history"
  BY <1>1, <1>3, RawGiven DEF WindowsInv, WindowTypes, Sources
<1>5. QueueShape'
  BY <1>1, <1>2, <1>3, <1>4, CellsOnly DEF WindowsInv, QueueShape, RequestLoops, Four
<1>6. WindowTypes'
  BY <1>1, <1>2, <1>3, <1>4, CellsOnly DEF WindowsInv, WindowTypes
<1>7. Owned'
  BY <1>1, <1>2, <1>3, <1>4, CellsOnly DEF WindowsInv, Owned, ItemSet, OfHistory
<1>8. VerifyFlow'
  BY <1>1, <1>2, <1>3, <1>4, CellsOnly DEF WindowsInv, VerifyFlow, Coming, Showing, RawOf, Live, Four
<1>9. ShowFlow'
  BY <1>1, <1>2, <1>3, <1>4, CellsOnly DEF WindowsInv, ShowFlow, Coming, Showing, RawOf, Live, Four
<1>10. RawFlow'
  BY <1>1, <1>2, <1>3, <1>4, CellsOnly DEF WindowsInv, RawFlow, Coming, RawOf, ItemSet
<1>11. BatchFlow'
  BY <1>1, <1>2, <1>3, <1>4, CellsOnly DEF WindowsInv, BatchFlow, Coming, Batching, RawOf, Live, Four, ItemSet, Parsed
<1>12. AnswerFlow'
  BY <1>1, <1>2, <1>3, <1>4, CellsOnly DEF WindowsInv, AnswerFlow, VerifyOk, ShowOk, RawOk, Session
<1>13. Untouched'
  BY <1>1, <1>2, <1>3, <1>4, CellsOnly DEF WindowsInv, Untouched
<1>14. SourceFlow'
  BY <1>1, <1>2, <1>3, <1>4, CellsOnly DEF WindowsInv, SourceFlow, Coming, Showing, RawOf
<1>. QED  BY <1>5, <1>6, <1>7, <1>8, <1>9, <1>10, <1>11, <1>12, <1>13, <1>14 DEF WindowsInv

LEMMA BatchKeyKeeps ==
  ASSUME WindowsInv, BatchKey
  PROVE  WindowsInv'
<1>1. /\ modal = "none" /\ cur = "BATCH_SIGN" /\ todo = << >> /\ modal' = "pin"
      /\ batch' = [batch EXCEPT !.state = "SIGNING", !.sess = Nothing, !.done = 0]
      /\ UNCHANGED <<cur, todo, heap, verify, show, raw, history, txs, answer, last, odd>>
  BY DEF BatchKey, Idle
<1>2. Phase = "still" /\ Behind = "none" /\ Phase' = "still" /\ Behind' = "none"
  BY <1>1, PhaseType, QueueSame
<1>3. /\ batch' \in BatchType /\ batch'.msg = batch.msg /\ batch'.items = batch.items
      /\ batch'.code = batch.code /\ batch'.done = 0 /\ batch'.state = "SIGNING"
  BY <1>1 DEF WindowsInv, WindowTypes, BatchType, Pointers
<1>4. last # Nothing
  BY <1>1, FrontIsLive DEF Four
<1>5. QueueShape'
  BY <1>1, <1>2, <1>3, <1>4, CellsOnly DEF WindowsInv, QueueShape, RequestLoops, Four
<1>6. WindowTypes'
  BY <1>1, <1>2, <1>3, <1>4, CellsOnly DEF WindowsInv, WindowTypes
<1>7. Owned'
  BY <1>1, <1>2, <1>3, <1>4, CellsOnly DEF WindowsInv, Owned, ItemSet, OfHistory
<1>8. VerifyFlow'
  BY <1>1, <1>2, <1>3, <1>4, CellsOnly DEF WindowsInv, VerifyFlow, Coming, Showing, RawOf, Live, Four
<1>9. ShowFlow'
  BY <1>1, <1>2, <1>3, <1>4, CellsOnly DEF WindowsInv, ShowFlow, Coming, Showing, RawOf, Live, Four
<1>10. RawFlow'
  BY <1>1, <1>2, <1>3, <1>4, CellsOnly DEF WindowsInv, RawFlow, Coming, RawOf, ItemSet
<1>11. BatchFlow'
  BY <1>1, <1>2, <1>3, <1>4, CellsOnly DEF WindowsInv, BatchFlow, Coming, Batching, RawOf, Live, Four, ItemSet, Parsed
<1>12. AnswerFlow'
  BY <1>1, <1>2, <1>3, <1>4, CellsOnly DEF WindowsInv, AnswerFlow, VerifyOk, ShowOk, RawOk, Session
<1>13. Untouched'
  BY <1>1, <1>2, <1>3, <1>4, CellsOnly DEF WindowsInv, Untouched
<1>14. SourceFlow'
  BY <1>1, <1>2, <1>3, <1>4, CellsOnly DEF WindowsInv, SourceFlow, Coming, Showing, RawOf
<1>. QED  BY <1>5, <1>6, <1>7, <1>8, <1>9, <1>10, <1>11, <1>12, <1>13, <1>14 DEF WindowsInv

LEMMA BatchPinKeeps ==
  ASSUME WindowsInv, BatchPin
  PROVE  WindowsInv'
<1>1. /\ modal = "pin" /\ cur = "BATCH_SIGN" /\ modal' \in {"none", "signing"}
      /\ IF modal' = "none" THEN batch' = [batch EXCEPT !.state = "LIST"] ELSE batch' = batch
      /\ UNCHANGED <<cur, todo, heap, verify, show, raw, history, txs, answer, last, odd>>
  BY DEF BatchPin
<1>2. Phase = "still" /\ Behind = "none" /\ Phase' = "still" /\ Behind' = "none"
  BY <1>1, PhaseType, QueueSame DEF WindowsInv, QueueShape
<1>3. /\ batch' \in BatchType /\ batch'.msg = batch.msg /\ batch'.items = batch.items
      /\ batch'.code = batch.code /\ batch'.done = batch.done
      /\ batch'.state = IF modal' = "none" THEN "LIST" ELSE batch.state
  BY <1>1 DEF WindowsInv, WindowTypes, BatchType, Pointers
<1>4. last # Nothing
  BY <1>1, FrontIsLive DEF Four
<1>5. batch.done = 0 /\ batch.state = "SIGNING" /\ answer = Nothing
  BY <1>1 DEF WindowsInv, BatchFlow, AnswerFlow
<1>6. QueueShape'
  BY <1>1, <1>2, <1>3, <1>4, <1>5, CellsOnly DEF WindowsInv, QueueShape, RequestLoops, Four
<1>7. WindowTypes'
  BY <1>1, <1>2, <1>3, <1>4, <1>5, CellsOnly DEF WindowsInv, WindowTypes
<1>8. Owned'
  BY <1>1, <1>2, <1>3, <1>4, <1>5, CellsOnly DEF WindowsInv, Owned, ItemSet, OfHistory
<1>9. VerifyFlow'
  BY <1>1, <1>2, <1>3, <1>4, <1>5, CellsOnly DEF WindowsInv, VerifyFlow, Coming, Showing, RawOf, Live, Four
<1>10. ShowFlow'
  BY <1>1, <1>2, <1>3, <1>4, <1>5, CellsOnly DEF WindowsInv, ShowFlow, Coming, Showing, RawOf, Live, Four
<1>11. RawFlow'
  BY <1>1, <1>2, <1>3, <1>4, <1>5, CellsOnly DEF WindowsInv, RawFlow, Coming, RawOf, ItemSet
<1>12. BatchFlow'
  BY <1>1, <1>2, <1>3, <1>4, <1>5, CellsOnly DEF WindowsInv, BatchFlow, Coming, Batching, RawOf, Live, Four, ItemSet, Parsed
<1>13. AnswerFlow'
  BY <1>1, <1>2, <1>3, <1>4, <1>5, CellsOnly DEF WindowsInv, AnswerFlow, VerifyOk, ShowOk, RawOk, Session
<1>14. Untouched'
  BY <1>1, <1>2, <1>3, <1>4, <1>5, CellsOnly DEF WindowsInv, Untouched
<1>15. SourceFlow'
  BY <1>1, <1>2, <1>3, <1>4, <1>5, CellsOnly DEF WindowsInv, SourceFlow, Coming, Showing, RawOf
<1>. QED  BY <1>6, <1>7, <1>8, <1>9, <1>10, <1>11, <1>12, <1>13, <1>14, <1>15 DEF WindowsInv

LEMMA BatchItemKeeps ==
  ASSUME WindowsInv, BatchItem
  PROVE  WindowsInv'
<1>1. /\ modal = "signing" /\ batch.done < Len(batch.items) /\ modal' \in {"signing", "fail"}
      /\ \/ /\ modal' = "signing" /\ batch' = [batch EXCEPT !.done = @ + 1]
            /\ ~Refuses(heap[batch.items[batch.done + 1]]) /\ txs' = Kept(batch.items[batch.done + 1])
         \/ modal' = "fail" /\ batch' = batch /\ txs' = txs
      /\ UNCHANGED <<cur, todo, heap, verify, show, raw, history, answer, last, odd>>
  BY DEF BatchItem
<1>2. Phase = "still" /\ Behind = "none" /\ Phase' = "still" /\ Behind' = "none"
  BY <1>1, PhaseType, QueueSame DEF WindowsInv, QueueShape
<1>3. cur = "BATCH_SIGN" /\ answer = Nothing
  BY <1>1 DEF WindowsInv, QueueShape, AnswerFlow
<1>4. /\ batch.done \in Nat /\ batch.items \in Seq(Messages)
      /\ batch.done + 1 \in DOMAIN batch.items
  BY <1>1 DEF WindowsInv, WindowTypes, BatchType
<1>5. /\ batch.items[batch.done + 1] \in ItemSet
      /\ batch.items[batch.done + 1] \in Messages
  BY <1>4 DEF ItemSet, ToSet
<1>6. txs' \subseteq Classes
  BY <1>1, <1>5 DEF WindowsInv, WindowTypes, Owned, Kept
<1>7. /\ batch' \in BatchType /\ batch'.msg = batch.msg /\ batch'.items = batch.items
      /\ batch'.code = batch.code /\ batch'.state = batch.state
      /\ batch'.done = IF modal' = "fail" THEN batch.done ELSE batch.done + 1
  BY <1>1, <1>4 DEF WindowsInv, WindowTypes, BatchType, Pointers
<1>8. last # Nothing
  BY <1>3, FrontIsLive DEF Four
<1>9. QueueShape'
  BY <1>1, <1>2, <1>3, <1>4, <1>5, <1>6, <1>7, <1>8, CellsOnly DEF WindowsInv, QueueShape, RequestLoops, Four
<1>10. WindowTypes'
  BY <1>1, <1>2, <1>3, <1>4, <1>5, <1>6, <1>7, <1>8, CellsOnly DEF WindowsInv, WindowTypes
<1>11. Owned'
  BY <1>1, <1>2, <1>3, <1>4, <1>5, <1>6, <1>7, <1>8, CellsOnly DEF WindowsInv, Owned, ItemSet, OfHistory
<1>12. VerifyFlow'
  BY <1>1, <1>2, <1>3, <1>4, <1>5, <1>6, <1>7, <1>8, CellsOnly DEF WindowsInv, VerifyFlow, Coming, Showing, RawOf, Live, Four
<1>13. ShowFlow'
  BY <1>1, <1>2, <1>3, <1>4, <1>5, <1>6, <1>7, <1>8, CellsOnly DEF WindowsInv, ShowFlow, Coming, Showing, RawOf, Live, Four
<1>14. RawFlow'
  BY <1>1, <1>2, <1>3, <1>4, <1>5, <1>6, <1>7, <1>8, CellsOnly DEF WindowsInv, RawFlow, Coming, RawOf, ItemSet
<1>15. BatchFlow'
  BY <1>1, <1>2, <1>3, <1>4, <1>5, <1>6, <1>7, <1>8, CellsOnly DEF WindowsInv, BatchFlow, Coming, Batching, RawOf, Live, Four, ItemSet, Parsed
<1>16. AnswerFlow'
  BY <1>1, <1>2, <1>3, <1>4, <1>5, <1>6, <1>7, <1>8, CellsOnly DEF WindowsInv, AnswerFlow, VerifyOk, ShowOk, RawOk, Session
<1>17. Untouched'
  BY <1>1, <1>2, <1>3, <1>4, <1>5, <1>6, <1>7, <1>8, CellsOnly DEF WindowsInv, Untouched
<1>18. SourceFlow'
  BY <1>1, <1>2, <1>3, <1>4, <1>5, <1>6, <1>7, <1>8, CellsOnly DEF WindowsInv, SourceFlow, Coming, Showing, RawOf
<1>. QED  BY <1>9, <1>10, <1>11, <1>12, <1>13, <1>14, <1>15, <1>16, <1>17, <1>18 DEF WindowsInv

LEMMA BatchAnswerKeeps ==
  ASSUME WindowsInv, BatchAnswer
  PROVE  WindowsInv'
<1>1. /\ modal = "signing" /\ batch.done = Len(batch.items) /\ modal' = "answer"
      /\ answer' = [of |-> SubSeq(batch.items, 1, batch.done), by |-> cur]
      /\ UNCHANGED <<cur, todo, heap, verify, show, raw, batch, history, txs, last, odd>>
  BY DEF BatchAnswer
<1>2. Phase = "still" /\ Behind = "none" /\ Phase' = "still" /\ Behind' = "none"
  BY <1>1, PhaseType, QueueSame DEF WindowsInv, QueueShape
<1>3. cur = "BATCH_SIGN"
  BY <1>1 DEF WindowsInv, QueueShape
<1>4. batch.items \in Seq(Messages) /\ SubSeq(batch.items, 1, batch.done) = batch.items
  BY <1>1 DEF WindowsInv, WindowTypes, BatchType
<1>5. \A i \in DOMAIN batch.items : ~Refuses(heap[batch.items[i]])
  BY <1>1, <1>4 DEF WindowsInv, BatchFlow
<1>6. last # Nothing
  BY <1>3, FrontIsLive DEF Four
<1>7. QueueShape'
  BY <1>1, <1>2, <1>3, <1>4, <1>5, <1>6, CellsOnly DEF WindowsInv, QueueShape, RequestLoops, Four
<1>8. WindowTypes'
  BY <1>1, <1>2, <1>3, <1>4, <1>5, <1>6, CellsOnly DEF WindowsInv, WindowTypes
<1>9. Owned'
  BY <1>1, <1>2, <1>3, <1>4, <1>5, <1>6, CellsOnly DEF WindowsInv, Owned, ItemSet, OfHistory
<1>10. VerifyFlow'
  BY <1>1, <1>2, <1>3, <1>4, <1>5, <1>6, CellsOnly DEF WindowsInv, VerifyFlow, Coming, Showing, RawOf, Live, Four
<1>11. ShowFlow'
  BY <1>1, <1>2, <1>3, <1>4, <1>5, <1>6, CellsOnly DEF WindowsInv, ShowFlow, Coming, Showing, RawOf, Live, Four
<1>12. RawFlow'
  BY <1>1, <1>2, <1>3, <1>4, <1>5, <1>6, CellsOnly DEF WindowsInv, RawFlow, Coming, RawOf, ItemSet
<1>13. BatchFlow'
  BY <1>1, <1>2, <1>3, <1>4, <1>5, <1>6, CellsOnly DEF WindowsInv, BatchFlow, Coming, Batching, RawOf, Live, Four, ItemSet, Parsed
<1>14. AnswerFlow'
  BY <1>1, <1>2, <1>3, <1>4, <1>5, <1>6, CellsOnly DEF WindowsInv, AnswerFlow, VerifyOk, ShowOk, RawOk, Session
<1>15. Untouched'
  BY <1>1, <1>2, <1>3, <1>4, <1>5, <1>6, CellsOnly DEF WindowsInv, Untouched
<1>16. SourceFlow'
  BY <1>1, <1>2, <1>3, <1>4, <1>5, <1>6, CellsOnly DEF WindowsInv, SourceFlow, Coming, Showing, RawOf
<1>. QED  BY <1>7, <1>8, <1>9, <1>10, <1>11, <1>12, <1>13, <1>14, <1>15, <1>16 DEF WindowsInv

LEMMA BatchEndsKeeps ==
  ASSUME WindowsInv, BatchEnds
  PROVE  WindowsInv'
<1>1. /\ modal \in {"answer", "fail"} /\ cur = "BATCH_SIGN" /\ modal' = "none" /\ answer' = Nothing
      /\ ChangeWindow("MAINPANEL")
      /\ UNCHANGED <<heap, verify, show, raw, batch, history, txs, last, odd>>
  BY DEF BatchEnds
<1>2. todo = << >>
  BY <1>1, PhaseType DEF WindowsInv, QueueShape
<1>3. /\ cur' = "MAINPANEL" /\ cur' # cur
      /\ Phase = "still" /\ Behind = "none" /\ Phase' = "left" /\ Behind' = cur
      /\ todo' = <<Call("pause", Behind'), Call("resume", cur')>>
  BY <1>1, <1>2, QueueChanges
<1>4. batch.state = "SIGNING"
  BY <1>1 DEF WindowsInv, BatchFlow
<1>5. QueueShape'
  BY <1>1, <1>2, <1>3, <1>4, CellsOnly DEF WindowsInv, QueueShape, RequestLoops, Four
<1>6. WindowTypes'
  BY <1>1, <1>2, <1>3, <1>4, CellsOnly DEF WindowsInv, WindowTypes
<1>7. Owned'
  BY <1>1, <1>2, <1>3, <1>4, CellsOnly DEF WindowsInv, Owned, ItemSet, OfHistory
<1>8. VerifyFlow'
  BY <1>1, <1>2, <1>3, <1>4, CellsOnly DEF WindowsInv, VerifyFlow, Coming, Showing, RawOf, Live, Four
<1>9. ShowFlow'
  BY <1>1, <1>2, <1>3, <1>4, CellsOnly DEF WindowsInv, ShowFlow, Coming, Showing, RawOf, Live, Four
<1>10. RawFlow'
  BY <1>1, <1>2, <1>3, <1>4, CellsOnly DEF WindowsInv, RawFlow, Coming, RawOf, ItemSet
<1>11. BatchFlow'
  BY <1>1, <1>2, <1>3, <1>4, CellsOnly DEF WindowsInv, BatchFlow, Coming, Batching, RawOf, Live, Four, ItemSet, Parsed
<1>12. AnswerFlow'
  BY <1>1, <1>2, <1>3, <1>4, CellsOnly DEF WindowsInv, AnswerFlow, VerifyOk, ShowOk, RawOk, Session
<1>13. Untouched'
  BY <1>1, <1>2, <1>3, <1>4, CellsOnly DEF WindowsInv, Untouched
<1>14. SourceFlow'
  BY <1>1, <1>2, <1>3, <1>4, CellsOnly DEF WindowsInv, SourceFlow, Coming, Showing, RawOf
<1>. QED  BY <1>5, <1>6, <1>7, <1>8, <1>9, <1>10, <1>11, <1>12, <1>13, <1>14 DEF WindowsInv

LEMMA HistoryResumeKeeps ==
  ASSUME WindowsInv, HistoryResume
  PROVE  WindowsInv'
<1>1. /\ modal = "none" /\ modal' \in {"select", "tips", "none"} /\ Handles("resume", "SIGN_HISTORY")
      /\ UNCHANGED <<heap, verify, show, raw, batch, txs, answer, last, odd>>
  BY DEF HistoryResume, Handles
<1>2. Phase = "shown" /\ cur = "SIGN_HISTORY" /\ cur' = cur /\ Phase' = "still" /\ Behind' = "none" /\ Behind = "none"
  BY <1>1, QueueResumes, PhaseType DEF WindowsInv
<1>3. answer = Nothing
  BY <1>1 DEF WindowsInv, AnswerFlow
<1>4. QueueShape'
  BY <1>1, <1>2, <1>3, CellsOnly DEF WindowsInv, QueueShape, RequestLoops, Four
<1>5. WindowTypes'
  BY <1>1, <1>2, <1>3, CellsOnly DEF WindowsInv, WindowTypes
<1>6. Owned'
  BY <1>1, <1>2, <1>3, CellsOnly DEF WindowsInv, Owned, ItemSet, OfHistory
<1>7. VerifyFlow'
  BY <1>1, <1>2, <1>3, CellsOnly DEF WindowsInv, VerifyFlow, Coming, Showing, RawOf, Live, Four
<1>8. ShowFlow'
  BY <1>1, <1>2, <1>3, CellsOnly DEF WindowsInv, ShowFlow, Coming, Showing, RawOf, Live, Four
<1>9. RawFlow'
  BY <1>1, <1>2, <1>3, CellsOnly DEF WindowsInv, RawFlow, Coming, RawOf, ItemSet
<1>10. BatchFlow'
  BY <1>1, <1>2, <1>3, CellsOnly DEF WindowsInv, BatchFlow, Coming, Batching, RawOf, Live, Four, ItemSet, Parsed
<1>11. AnswerFlow'
  BY <1>1, <1>2, <1>3, CellsOnly DEF WindowsInv, AnswerFlow, VerifyOk, ShowOk, RawOk, Session
<1>12. Untouched'
  BY <1>1, <1>2, <1>3, CellsOnly DEF WindowsInv, Untouched
<1>13. SourceFlow'
  BY <1>1, <1>2, <1>3, CellsOnly DEF WindowsInv, SourceFlow, Coming, Showing, RawOf
<1>. QED  BY <1>4, <1>5, <1>6, <1>7, <1>8, <1>9, <1>10, <1>11, <1>12, <1>13 DEF WindowsInv

LEMMA HistorySelectKeeps ==
  ASSUME WindowsInv, HistorySelect
  PROVE  WindowsInv'
<1>1. /\ modal = "select" /\ modal' \in {"tips", "none"}
      /\ UNCHANGED <<heap, verify, show, raw, batch, txs, answer, last, odd>>
  BY DEF HistorySelect
<1>2. /\ todo = << >> /\ Phase = "still" /\ Behind = "none" /\ cur \notin Four
      /\ answer = Nothing
  BY <1>1, PhaseType DEF WindowsInv, QueueShape, RequestLoops, AnswerFlow
<1>3. \/ cur' = cur /\ Phase' = "still" /\ Behind' = "none"
      \/ /\ modal' = "none" /\ cur' = "MAINPANEL" /\ Phase' \in {"still", "left"} /\ Behind' \notin Four
         /\ Phase' = "left" => Behind' # cur' /\ todo' = <<Call("pause", Behind'), Call("resume", cur')>>
  <2>1. CASE ChangeWindow("MAINPANEL") /\ modal' = "none"
    BY <1>2, <2>1, QueueChanges
  <2>2. CASE UNCHANGED <<cur, todo>>
    BY <1>2, <2>2, QueueSame
  <2>. QED  BY <2>1, <2>2 DEF HistorySelect
<1>4. QueueShape'
  BY <1>1, <1>2, <1>3, CellsOnly DEF WindowsInv, QueueShape, RequestLoops, Four
<1>5. WindowTypes'
  BY <1>1, <1>2, <1>3, CellsOnly DEF WindowsInv, WindowTypes
<1>6. Owned'
  BY <1>1, <1>2, <1>3, CellsOnly DEF WindowsInv, Owned, ItemSet, OfHistory
<1>7. VerifyFlow'
  <2>1. CASE cur' = cur /\ Phase' = "still" /\ Behind' = "none"
    BY <1>1, <1>2, <1>3, <2>1, CellsOnly DEF WindowsInv, VerifyFlow, Coming, Showing, RawOf, Live, Four
  <2>2. CASE /\ modal' = "none" /\ cur' = "MAINPANEL" /\ Phase' \in {"still", "left"} /\ Behind' \notin Four
            /\ Phase' = "left" => Behind' # cur' /\ todo' = <<Call("pause", Behind'), Call("resume", cur')>>
    BY <1>1, <1>2, <1>3, <2>2, CellsOnly DEF WindowsInv, VerifyFlow, Coming, Showing, RawOf, Live, Four
  <2>. QED  BY <1>3, <2>1, <2>2
<1>8. ShowFlow'
  <2>1. CASE cur' = cur /\ Phase' = "still" /\ Behind' = "none"
    BY <1>1, <1>2, <1>3, <2>1, CellsOnly DEF WindowsInv, ShowFlow, Coming, Showing, RawOf, Live, Four
  <2>2. CASE /\ modal' = "none" /\ cur' = "MAINPANEL" /\ Phase' \in {"still", "left"} /\ Behind' \notin Four
            /\ Phase' = "left" => Behind' # cur' /\ todo' = <<Call("pause", Behind'), Call("resume", cur')>>
    BY <1>1, <1>2, <1>3, <2>2, CellsOnly DEF WindowsInv, ShowFlow, Coming, Showing, RawOf, Live, Four
  <2>. QED  BY <1>3, <2>1, <2>2
<1>9. RawFlow'
  BY <1>1, <1>2, <1>3, CellsOnly DEF WindowsInv, RawFlow, Coming, RawOf, ItemSet
<1>10. BatchFlow'
  <2>1. CASE cur' = cur /\ Phase' = "still" /\ Behind' = "none"
    BY <1>1, <1>2, <1>3, <2>1, CellsOnly DEF WindowsInv, BatchFlow, Coming, Batching, RawOf, Live, Four, ItemSet, Parsed
  <2>2. CASE /\ modal' = "none" /\ cur' = "MAINPANEL" /\ Phase' \in {"still", "left"} /\ Behind' \notin Four
            /\ Phase' = "left" => Behind' # cur' /\ todo' = <<Call("pause", Behind'), Call("resume", cur')>>
    BY <1>1, <1>2, <1>3, <2>2, CellsOnly DEF WindowsInv, BatchFlow, Coming, Batching, RawOf, Live, Four, ItemSet, Parsed
  <2>. QED  BY <1>3, <2>1, <2>2
<1>11. AnswerFlow'
  BY <1>1, <1>2, <1>3, CellsOnly DEF WindowsInv, AnswerFlow, VerifyOk, ShowOk, RawOk, Session
<1>12. Untouched'
  BY <1>1, <1>2, <1>3, CellsOnly DEF WindowsInv, Untouched
<1>13. SourceFlow'
  <2>1. CASE cur' = cur /\ Phase' = "still" /\ Behind' = "none"
    BY <1>1, <1>2, <1>3, <2>1, CellsOnly DEF WindowsInv, SourceFlow, Coming, Showing, RawOf
  <2>2. CASE /\ modal' = "none" /\ cur' = "MAINPANEL" /\ Phase' \in {"still", "left"} /\ Behind' \notin Four
            /\ Phase' = "left" => Behind' # cur' /\ todo' = <<Call("pause", Behind'), Call("resume", cur')>>
    BY <1>1, <1>2, <1>3, <2>2, CellsOnly DEF WindowsInv, SourceFlow, Coming, Showing, RawOf
  <2>. QED  BY <1>3, <2>1, <2>2
<1>. QED  BY <1>4, <1>5, <1>6, <1>7, <1>8, <1>9, <1>10, <1>11, <1>12, <1>13 DEF WindowsInv

LEMMA HistoryTipsKeeps ==
  ASSUME WindowsInv, HistoryTips
  PROVE  WindowsInv'
<1>1. /\ modal = "tips" /\ modal' = "select"
      /\ cur' = cur /\ todo' = todo
      /\ UNCHANGED <<heap, verify, show, raw, batch, txs, answer, last, odd>>
  BY DEF HistoryTips, Idle
<1>2. /\ Phase = "still" /\ Behind = "none" /\ cur \notin Four
      /\ answer = Nothing
  BY <1>1, PhaseType DEF WindowsInv, QueueShape, RequestLoops, AnswerFlow, Four
<1>3. Phase' = Phase /\ Behind' = Behind
  BY <1>1, QueueSame
<1>4. QueueShape'
  BY <1>1, <1>2, <1>3, CellsOnly DEF WindowsInv, QueueShape, RequestLoops, Four
<1>5. WindowTypes'
  BY <1>1, <1>2, <1>3, CellsOnly DEF WindowsInv, WindowTypes
<1>6. Owned'
  BY <1>1, <1>2, <1>3, CellsOnly DEF WindowsInv, Owned, ItemSet, OfHistory
<1>7. VerifyFlow'
  BY <1>1, <1>2, <1>3, CellsOnly DEF WindowsInv, VerifyFlow, Coming, Showing, RawOf, Live, Four
<1>8. ShowFlow'
  BY <1>1, <1>2, <1>3, CellsOnly DEF WindowsInv, ShowFlow, Coming, Showing, RawOf, Live, Four
<1>9. RawFlow'
  BY <1>1, <1>2, <1>3, CellsOnly DEF WindowsInv, RawFlow, Coming, RawOf, ItemSet
<1>10. BatchFlow'
  BY <1>1, <1>2, <1>3, CellsOnly DEF WindowsInv, BatchFlow, Coming, Batching, RawOf, Live, Four, ItemSet, Parsed
<1>11. AnswerFlow'
  BY <1>1, <1>2, <1>3, CellsOnly DEF WindowsInv, AnswerFlow, VerifyOk, ShowOk, RawOk, Session
<1>12. Untouched'
  BY <1>1, <1>2, <1>3, CellsOnly DEF WindowsInv, Untouched
<1>13. SourceFlow'
  BY <1>1, <1>2, <1>3, CellsOnly DEF WindowsInv, SourceFlow, Coming, Showing, RawOf
<1>. QED  BY <1>4, <1>5, <1>6, <1>7, <1>8, <1>9, <1>10, <1>11, <1>12, <1>13 DEF WindowsInv

LEMMA HistoryAgainKeeps ==
  ASSUME WindowsInv, HistoryAgain
  PROVE  WindowsInv'
<1>1. /\ modal = "none" /\ cur = "SIGN_HISTORY" /\ todo = << >> /\ modal' = "select"
      /\ cur' = cur /\ todo' = todo
      /\ UNCHANGED <<heap, verify, show, raw, batch, txs, answer, last, odd>>
  BY DEF HistoryAgain, Idle
<1>2. /\ Phase = "still" /\ Behind = "none" /\ cur \notin Four
      /\ answer = Nothing
  BY <1>1, PhaseType DEF WindowsInv, QueueShape, RequestLoops, AnswerFlow, Four
<1>3. Phase' = Phase /\ Behind' = Behind
  BY <1>1, QueueSame
<1>4. QueueShape'
  BY <1>1, <1>2, <1>3, CellsOnly DEF WindowsInv, QueueShape, RequestLoops, Four
<1>5. WindowTypes'
  BY <1>1, <1>2, <1>3, CellsOnly DEF WindowsInv, WindowTypes
<1>6. Owned'
  BY <1>1, <1>2, <1>3, CellsOnly DEF WindowsInv, Owned, ItemSet, OfHistory
<1>7. VerifyFlow'
  BY <1>1, <1>2, <1>3, CellsOnly DEF WindowsInv, VerifyFlow, Coming, Showing, RawOf, Live, Four
<1>8. ShowFlow'
  BY <1>1, <1>2, <1>3, CellsOnly DEF WindowsInv, ShowFlow, Coming, Showing, RawOf, Live, Four
<1>9. RawFlow'
  BY <1>1, <1>2, <1>3, CellsOnly DEF WindowsInv, RawFlow, Coming, RawOf, ItemSet
<1>10. BatchFlow'
  BY <1>1, <1>2, <1>3, CellsOnly DEF WindowsInv, BatchFlow, Coming, Batching, RawOf, Live, Four, ItemSet, Parsed
<1>11. AnswerFlow'
  BY <1>1, <1>2, <1>3, CellsOnly DEF WindowsInv, AnswerFlow, VerifyOk, ShowOk, RawOk, Session
<1>12. Untouched'
  BY <1>1, <1>2, <1>3, CellsOnly DEF WindowsInv, Untouched
<1>13. SourceFlow'
  BY <1>1, <1>2, <1>3, CellsOnly DEF WindowsInv, SourceFlow, Coming, Showing, RawOf
<1>. QED  BY <1>4, <1>5, <1>6, <1>7, <1>8, <1>9, <1>10, <1>11, <1>12, <1>13 DEF WindowsInv

LEMMA HistoryClickKeeps ==
  ASSUME WindowsInv, NEW c, HistoryClick(c)
  PROVE  WindowsInv'
<1>1. /\ modal = "none" /\ cur = "SIGN_HISTORY" /\ todo = << >> /\ Free # {} /\ c \in txs
      /\ heap' = [heap EXCEPT ![Fresh] = c]
      /\ ShowTakes(Fresh, "history") /\ ChangeWindow("TXSHOW")
      /\ UNCHANGED <<modal, verify, raw, batch, history, txs, answer, last, odd>>
  BY DEF HistoryClick, Idle
<1>2. /\ cur' = "TXSHOW" /\ cur' # cur
      /\ Phase = "still" /\ Behind = "none" /\ Phase' = "left" /\ Behind' = cur
      /\ todo' = <<Call("pause", Behind'), Call("resume", cur')>>
  BY <1>1, QueueChanges
<1>3. Fresh \in Messages /\ heap[Fresh] = Nothing
  BY <1>1, FreshCell
<1>4. /\ show' \in ShowType /\ show'.msg = Fresh /\ show'.from = "history"
      /\ show'.ret = -1 /\ show'.raw = FALSE /\ show'.sess = Nothing
      /\ show'.view = IF show.sess = Nothing /\ show.view # Nothing THEN show.view ELSE "history"
  BY <1>1, <1>3, ShowGiven DEF WindowsInv, WindowTypes, Sources, Pointers
<1>5. c \in Classes /\ c # Nothing
  BY <1>1, ClassesAssumption DEF WindowsInv, WindowTypes
<1>6. \A m \in Messages : heap'[m] = IF m = Fresh THEN c ELSE heap[m]
  BY <1>1 DEF WindowsInv, WindowTypes
<1>7. ItemSet' = ItemSet /\ ItemSet \subseteq Messages
  BY <1>1 DEF WindowsInv, WindowTypes, BatchType, ItemSet, ToSet
<1>8. show.from = "history" => show.msg = Nothing
  BY <1>1, <1>2 DEF WindowsInv, ShowFlow, Showing, RawOf
<1>9. last # Nothing
  BY <1>1 DEF WindowsInv, Untouched
<1>10. /\ Fresh # verify.msg /\ Fresh # batch.msg /\ Fresh \notin ItemSet
  BY <1>3 DEF WindowsInv, Owned
<1>11. verify.msg \in Pointers /\ verify.msg # Gone
  BY DEF WindowsInv, WindowTypes, VerifyType, Owned
<1>12. QueueShape'
  BY <1>1, <1>2, <1>3, <1>4, <1>5, <1>6, <1>7, <1>8, <1>9, <1>10, <1>11, CellsOnly DEF WindowsInv, QueueShape, RequestLoops, Four
<1>13. WindowTypes'
  BY <1>1, <1>2, <1>3, <1>4, <1>5, <1>6, <1>7, <1>8, <1>9, <1>10, <1>11, CellsOnly DEF WindowsInv, WindowTypes
<1>14. Owned'
  BY <1>1, <1>2, <1>3, <1>4, <1>5, <1>6, <1>7, <1>8, <1>9, <1>10, <1>11, CellsOnly DEF WindowsInv, Owned, ItemSet, OfHistory
<1>15. VerifyFlow'
  BY <1>1, <1>2, <1>3, <1>4, <1>5, <1>6, <1>7, <1>8, <1>9, <1>10, <1>11, CellsOnly DEF WindowsInv, VerifyFlow, Coming, Showing, RawOf, Live, Four
<1>16. ShowFlow'
  BY <1>1, <1>2, <1>3, <1>4, <1>5, <1>6, <1>7, <1>8, <1>9, <1>10, <1>11, CellsOnly DEF WindowsInv, ShowFlow, Coming, Showing, RawOf, Live, Four
<1>17. RawFlow'
  BY <1>1, <1>2, <1>3, <1>4, <1>5, <1>6, <1>7, <1>8, <1>9, <1>10, <1>11, CellsOnly DEF WindowsInv, RawFlow, Coming, RawOf, ItemSet
<1>18. BatchFlow'
  BY <1>1, <1>2, <1>3, <1>4, <1>5, <1>6, <1>7, <1>8, <1>9, <1>10, <1>11, CellsOnly DEF WindowsInv, BatchFlow, Coming, Batching, RawOf, Live, Four, ItemSet, Parsed
<1>19. AnswerFlow'
  BY <1>1, <1>2, <1>3, <1>4, <1>5, <1>6, <1>7, <1>8, <1>9, <1>10, <1>11, CellsOnly DEF WindowsInv, AnswerFlow, VerifyOk, ShowOk, RawOk, Session
<1>20. Untouched'
  BY <1>1, <1>2, <1>3, <1>4, <1>5, <1>6, <1>7, <1>8, <1>9, <1>10, <1>11, CellsOnly DEF WindowsInv, Untouched
<1>21. SourceFlow'
  BY <1>1, <1>2, <1>3, <1>4, <1>5, <1>6, <1>7, <1>8, <1>9, <1>10, <1>11, CellsOnly DEF WindowsInv, SourceFlow, Coming, Showing, RawOf
<1>. QED  BY <1>12, <1>13, <1>14, <1>15, <1>16, <1>17, <1>18, <1>19, <1>20, <1>21 DEF WindowsInv

LEMMA VerifyGiven ==
  ASSUME NEW m \in Messages, NEW dead \in SUBSET Messages, verify \in VerifyType,
         VerifyTakes(m, dead)
  PROVE  /\ verify' \in VerifyType /\ verify'.msg = m /\ verify'.ret = -1
         /\ verify'.details = FALSE /\ verify'.sess = Nothing
         /\ verify'.code = After(verify.code, dead)
<1>. DEFINE c == Closed(verify)
            d == [msg |-> After(c.msg, dead), ret |-> c.ret, details |-> c.details,
                  sess |-> After(c.sess, dead), code |-> After(c.code, dead)]
<1>1. c \in VerifyType /\ c.sess = Nothing /\ c.code = verify.code
  BY ClosedFields
<1>2. verify' = [d EXCEPT !.ret = -1, !.details = FALSE, !.msg = m]
  BY <1>1, VerifyDangles DEF VerifyTakes
<1>3. PICK z \in Int : z = -1
  OBVIOUS
<1>. HIDE DEF c
<1>4. verify' = [msg |-> m, ret |-> z, details |-> FALSE, sess |-> After(c.sess, dead),
                 code |-> After(c.code, dead)]
  BY <1>2, <1>3
<1>5. After(c.sess, dead) = Nothing /\ After(c.code, dead) \in Pointers
  BY <1>1, DeletedPointers DEF VerifyType, After
<1>6. verify' = [msg |-> m, ret |-> z, details |-> FALSE, sess |-> Nothing,
                 code |-> After(c.code, dead)]
  BY <1>4, <1>5
<1>. QED  BY <1>1, <1>3, <1>5, <1>6 DEF VerifyType, Pointers

LEMMA ShowLeft ==
  ASSUME NEW dead \in SUBSET Messages, show \in ShowType, show' = Dangles(show, dead)
  PROVE  /\ show' \in ShowType /\ show'.msg = After(show.msg, dead) /\ show'.from = show.from
         /\ show'.ret = show.ret /\ show'.raw = show.raw /\ show'.view = show.view
         /\ show'.sess = After(show.sess, dead) /\ (show'.sess = Nothing <=> show.sess = Nothing)
<1>1. show' = [msg |-> After(show.msg, dead), from |-> show.from, ret |-> show.ret,
               raw |-> show.raw, sess |-> After(show.sess, dead), view |-> show.view,
               at |-> show.at]
  BY ShowDangles
<1>2. After(show.msg, dead) \in Pointers /\ After(show.sess, dead) \in Pointers
  BY DeletedPointers DEF ShowType
<1>3. After(show.sess, dead) = Nothing <=> show.sess = Nothing
  BY DeletedPointers, CellsOnly DEF After
<1>. QED  BY <1>1, <1>2, <1>3 DEF ShowType

LEMMA RawLeft ==
  ASSUME NEW dead \in SUBSET Messages, raw \in RawType, raw' = Dangles(raw, dead)
  PROVE  /\ raw' \in RawType /\ raw'.msg = After(raw.msg, dead) /\ raw'.from = raw.from
         /\ raw'.ret = raw.ret /\ raw'.back = raw.back /\ raw'.view = raw.view
         /\ raw'.sess = After(raw.sess, dead) /\ (raw'.sess = Nothing <=> raw.sess = Nothing)
<1>1. raw' = [msg |-> After(raw.msg, dead), from |-> raw.from, ret |-> raw.ret,
              back |-> raw.back, sess |-> After(raw.sess, dead), view |-> raw.view]
  BY RawDangles
<1>2. After(raw.msg, dead) \in Pointers /\ After(raw.sess, dead) \in Pointers
  BY DeletedPointers DEF RawType
<1>3. After(raw.sess, dead) = Nothing <=> raw.sess = Nothing
  BY DeletedPointers, CellsOnly DEF After
<1>. QED  BY <1>1, <1>2, <1>3 DEF RawType

LEMMA ScanSingleKeeps ==
  ASSUME WindowsInv, NEW c \in Classes, ScanSingle(c)
  PROVE  WindowsInv'
<1>. DEFINE dead == {verify.msg} \ {Nothing}
<1>1. /\ modal = "none" /\ cur = "SCAN" /\ todo = << >> /\ Free # {}
      /\ heap' = [Freed(dead) EXCEPT ![Fresh] = c] /\ VerifyTakes(Fresh, dead)
      /\ show' = Dangles(show, dead) /\ raw' = Dangles(raw, dead) /\ last' = Fresh
      /\ ChangeWindow("TX_VERIFY_CODE")
      /\ UNCHANGED <<modal, batch, history, txs, answer, odd>>
  BY DEF ScanSingle, Idle
<1>2. /\ cur' = "TX_VERIFY_CODE" /\ cur' # cur
      /\ Phase = "still" /\ Behind = "none" /\ Phase' = "left" /\ Behind' = cur
      /\ todo' = <<Call("pause", Behind'), Call("resume", cur')>>
  BY <1>1, QueueChanges
<1>3. /\ dead \in SUBSET Messages /\ (heap[verify.msg] # Nothing \/ verify.msg = Nothing)
      /\ \A m \in dead : m = verify.msg
  BY DEF WindowsInv, WindowTypes, VerifyType, Pointers, Owned
<1>4. Fresh \in Messages /\ heap[Fresh] = Nothing /\ Fresh # Nothing
  BY <1>1, FreshCell, CellsOnly
<1>. HIDE DEF dead
<1>6. /\ verify' \in VerifyType /\ verify'.msg = Fresh /\ verify'.ret = -1
      /\ verify'.details = FALSE /\ verify'.sess = Nothing
      /\ verify'.code = After(verify.code, dead)
  BY <1>1, <1>3, <1>4, VerifyGiven DEF WindowsInv, WindowTypes
<1>7. /\ show' \in ShowType /\ show'.msg = After(show.msg, dead) /\ show'.from = show.from
      /\ show'.ret = show.ret /\ show'.raw = show.raw /\ show'.view = show.view
      /\ show'.sess = After(show.sess, dead) /\ (show'.sess = Nothing <=> show.sess = Nothing)
  BY <1>1, <1>3, ShowLeft DEF WindowsInv, WindowTypes
<1>8. /\ raw' \in RawType /\ raw'.msg = After(raw.msg, dead) /\ raw'.from = raw.from
      /\ raw'.ret = raw.ret /\ raw'.back = raw.back /\ raw'.view = raw.view
      /\ raw'.sess = After(raw.sess, dead) /\ (raw'.sess = Nothing <=> raw.sess = Nothing)
  BY <1>1, <1>3, RawLeft DEF WindowsInv, WindowTypes
<1>9. \A m \in Messages : heap'[m] = IF m = Fresh THEN c ELSE IF m \in dead THEN Nothing ELSE heap[m]
  BY <1>1, <1>4 DEF Freed
<1>10. heap' \in [Messages -> Classes \cup Batches \cup {Nothing}]
  BY <1>1, <1>4 DEF Freed, WindowsInv, WindowTypes
<1>11. ItemSet' = ItemSet /\ ItemSet \subseteq Messages /\ Fresh \notin ItemSet /\ Fresh # verify.msg /\ Fresh # batch.msg
  BY <1>1, <1>4 DEF WindowsInv, WindowTypes, BatchType, ItemSet, ToSet, Owned
<1>12. show.from = "history" => show.msg = Nothing
  BY <1>1, <1>2 DEF WindowsInv, ShowFlow, Showing, RawOf
<1>13. c # Nothing
  BY ClassesAssumption
<1>14. verify.msg \in dead \/ verify.msg = Nothing
  BY DEF dead
<1>25. verify'.code \in {Nothing, Gone} /\ verify'.code # verify'.msg
  BY <1>4, <1>6, <1>14, CellsOnly DEF WindowsInv, VerifyFlow, After
<1>15. QueueShape'
  BY <1>1, <1>2, <1>3, <1>4, <1>6, <1>7, <1>8, <1>9, <1>10, <1>11, <1>12, <1>13, <1>14, CellsOnly DEF WindowsInv, QueueShape, RequestLoops, Four
<1>16. WindowTypes'
  BY <1>1, <1>4, <1>6, <1>7, <1>8, <1>10 DEF WindowsInv, WindowTypes, Pointers
<1>17. Owned'
  <2>1. /\ verify'.msg # Gone /\ batch'.msg # Gone /\ (show'.from = "history" => show'.msg = Nothing)
         /\ batch'.msg = batch.msg /\ show'.from = show.from
    BY <1>1, <1>3, <1>4, <1>6, <1>7, <1>12, CellsOnly, DeletedPointers DEF WindowsInv, Owned, After
  <2>2. ASSUME NEW m \in Messages
        PROVE  /\ heap'[m] # Nothing <=> m = verify'.msg \/ m = batch'.msg \/ m \in ItemSet' \/ OfHistory(m)'
               /\ m = verify'.msg => m # batch'.msg /\ m \notin ItemSet' /\ ~OfHistory(m)'
               /\ m = batch'.msg => m \notin ItemSet' /\ ~OfHistory(m)'
               /\ m \in ItemSet' => ~OfHistory(m)'
               /\ m # batch'.msg => heap'[m] \in Classes \cup {Nothing}
    <3>1. ~OfHistory(m) /\ ~OfHistory(m)'
      BY <1>12, <2>1, CellsOnly DEF OfHistory
    <3>2. CASE m = Fresh
      BY <1>6, <1>9, <1>11, <1>13, <2>1, <3>1, <3>2
    <3>3. CASE m \in dead
      BY <1>3, <1>4, <1>6, <1>9, <1>11, <2>1, <3>1, <3>3 DEF WindowsInv, Owned
    <3>4. CASE m # Fresh /\ m \notin dead
      BY <1>3, <1>6, <1>9, <1>11, <1>14, <2>1, <3>1, <3>4, CellsOnly DEF WindowsInv, Owned
    <3>. QED  BY <3>2, <3>3, <3>4
  <2>3. batch'.msg # Nothing => heap'[batch'.msg] \in Batches
    BY <1>3, <1>9, <1>11, <2>1, CellsOnly DEF WindowsInv, WindowTypes, BatchType, Pointers, Owned
  <2>. QED  BY <2>1, <2>2, <2>3, CellsOnly DEF Owned
<1>18. VerifyFlow'
  BY <1>1, <1>2, <1>3, <1>4, <1>6, <1>7, <1>8, <1>9, <1>10, <1>11, <1>12, <1>13, <1>14, <1>25, CellsOnly DEF WindowsInv, VerifyFlow, Coming, Showing, RawOf, Live, Four
<1>19. ShowFlow'
  BY <1>1, <1>2, <1>3, <1>6, <1>7, <1>8, <1>12, <1>14, CellsOnly DEF WindowsInv, ShowFlow, Coming, Showing, RawOf, Live, Four, After
<1>20. RawFlow'
  BY <1>1, <1>2, <1>3, <1>4, <1>6, <1>7, <1>8, <1>9, <1>10, <1>11, <1>12, <1>13, <1>14, CellsOnly DEF WindowsInv, RawFlow, Coming, RawOf, ItemSet
<1>21. BatchFlow'
  BY <1>1, <1>2, <1>3, <1>4, <1>6, <1>7, <1>8, <1>9, <1>10, <1>11, <1>12, <1>13, <1>14, CellsOnly DEF WindowsInv, BatchFlow, Coming, Batching, RawOf, Live, Four, ItemSet, Parsed
<1>22. AnswerFlow'
  BY <1>1, <1>2, <1>3, <1>4, <1>6, <1>7, <1>8, <1>9, <1>10, <1>11, <1>12, <1>13, <1>14, CellsOnly DEF WindowsInv, AnswerFlow, VerifyOk, ShowOk, RawOk, Session
<1>23. Untouched'
  BY <1>1, <1>2, <1>3, <1>4, <1>6, <1>7, <1>8, <1>9, <1>10, <1>11, <1>12, <1>13, <1>14, CellsOnly DEF WindowsInv, Untouched
<1>24. SourceFlow'
  BY <1>1, <1>2, <1>3, <1>4, <1>6, <1>7, <1>8, <1>9, <1>10, <1>11, <1>12, <1>13, <1>14, CellsOnly DEF WindowsInv, SourceFlow, Coming, Showing, RawOf
<1>. QED  BY <1>15, <1>16, <1>17, <1>18, <1>19, <1>20, <1>21, <1>22, <1>23, <1>24 DEF WindowsInv

LEMMA ScanBatchKeeps ==
  ASSUME WindowsInv, NEW c \in Batches, ScanBatch(c)
  PROVE  WindowsInv'
<1>. DEFINE dead == (ItemSet \cup {batch.msg}) \ {Nothing}
<1>1. /\ modal = "none" /\ cur = "SCAN" /\ todo = << >> /\ Free # {}
      /\ heap' = [Freed(dead) EXCEPT ![Fresh] = c]
      /\ batch' = [Dangles(batch, dead) EXCEPT !.items = << >>, !.sess = Nothing, !.msg = Fresh]
      /\ raw' = Dangles(raw, dead) /\ last' = Fresh
      /\ ChangeWindow("BATCH_SIGN")
      /\ UNCHANGED <<modal, verify, show, history, txs, answer, odd>>
  BY DEF ScanBatch, Idle, ItemSet
<1>2. /\ cur' = "BATCH_SIGN" /\ cur' # cur
      /\ Phase = "still" /\ Behind = "none" /\ Phase' = "left" /\ Behind' = cur
      /\ todo' = <<Call("pause", Behind'), Call("resume", cur')>>
  BY <1>1, QueueChanges
<1>3. ItemSet \subseteq Messages /\ batch.msg \in Messages \cup {Nothing}
  BY DEF WindowsInv, WindowTypes, BatchType, Pointers, Owned, ItemSet, ToSet
<1>4. dead \in SUBSET Messages /\ \A m \in Messages : m \in dead <=> m = batch.msg \/ m \in ItemSet
  BY <1>3, CellsOnly
<1>5. Fresh \in Messages /\ heap[Fresh] = Nothing /\ Fresh # Nothing
  BY <1>1, FreshCell, CellsOnly
<1>. HIDE DEF dead
<1>7. /\ batch' \in BatchType /\ batch'.msg = Fresh /\ batch'.items = << >>
      /\ batch'.state = batch.state /\ batch'.sess = Nothing /\ ItemSet' = {}
  <2>0. batch' = [[msg |-> After(batch.msg, dead), items |-> After(batch.items, dead),
                   state |-> batch.state, sess |-> After(batch.sess, dead),
                   code |-> After(batch.code, dead), done |-> batch.done]
                    EXCEPT !.items = << >>, !.sess = Nothing, !.msg = Fresh]
    BY <1>1, <1>4, BatchDangles DEF WindowsInv, WindowTypes
  <2>1. batch' = [msg |-> Fresh, items |-> << >>, state |-> batch.state, sess |-> Nothing,
                 code |-> After(batch.code, dead), done |-> batch.done]
    BY <2>0
  <2>2. After(batch.code, dead) \in Pointers
    BY <1>4, DeletedPointers DEF WindowsInv, WindowTypes, BatchType
  <2>3. batch.state \in {"LIST", "SELECT", "DETAIL", "SIGNING"} /\ batch.done \in Nat
    BY DEF WindowsInv, WindowTypes, BatchType
  <2>. QED  BY <1>5, <2>1, <2>2, <2>3 DEF BatchType, Pointers, ItemSet, ToSet
<1>8. /\ raw' \in RawType /\ raw'.msg = After(raw.msg, dead) /\ raw'.from = raw.from
      /\ raw'.ret = raw.ret /\ raw'.back = raw.back /\ raw'.view = raw.view
      /\ raw'.sess = After(raw.sess, dead) /\ (raw'.sess = Nothing <=> raw.sess = Nothing)
  BY <1>1, <1>4, RawLeft DEF WindowsInv, WindowTypes
<1>9. \A m \in Messages : heap'[m] = IF m = Fresh THEN c ELSE IF m \in dead THEN Nothing ELSE heap[m]
  BY <1>1, <1>5 DEF Freed
<1>10. heap' \in [Messages -> Classes \cup Batches \cup {Nothing}]
  BY <1>1, <1>5 DEF Freed, WindowsInv, WindowTypes
<1>11. Fresh \notin ItemSet /\ Fresh # verify.msg /\ Fresh # batch.msg
  BY <1>5 DEF WindowsInv, Owned
<1>12. show.from = "history" => show.msg = Nothing
  BY <1>1, <1>2 DEF WindowsInv, ShowFlow, Showing, RawOf
<1>13. batch.state # "DETAIL"
  BY <1>1 DEF WindowsInv, BatchFlow, Batching, RawOf
<1>14. c # Nothing
  BY ClassesAssumption
<1>15. verify.msg \in Messages => verify.msg \notin dead
  BY <1>4 DEF WindowsInv, Owned
<1>16. verify.msg # Nothing => heap'[verify.msg] = heap[verify.msg]
  BY <1>9, <1>11, <1>15 DEF WindowsInv, WindowTypes, VerifyType, Pointers, Owned
<1>17. QueueShape'
  BY <1>1, <1>2, <1>3, <1>4, <1>5, <1>7, <1>8, <1>9, <1>10, <1>11, <1>12, <1>13, <1>14, <1>15, <1>16, CellsOnly DEF WindowsInv, QueueShape, RequestLoops, Four
<1>18. WindowTypes'
  BY <1>1, <1>5, <1>7, <1>8, <1>10 DEF WindowsInv, WindowTypes, Pointers
<1>19. Owned'
  BY <1>1, <1>2, <1>3, <1>4, <1>5, <1>7, <1>8, <1>9, <1>10, <1>11, <1>12, <1>13, <1>14, <1>15, <1>16, CellsOnly DEF WindowsInv, Owned, ItemSet, OfHistory
<1>20. VerifyFlow'
  BY <1>1, <1>2, <1>3, <1>4, <1>5, <1>7, <1>8, <1>9, <1>10, <1>11, <1>12, <1>13, <1>14, <1>15, <1>16, CellsOnly DEF WindowsInv, VerifyFlow, Coming, Showing, RawOf, Live, Four
<1>21. ShowFlow'
  BY <1>1, <1>2, <1>3, <1>4, <1>5, <1>7, <1>8, <1>9, <1>10, <1>11, <1>12, <1>13, <1>14, <1>15, <1>16, CellsOnly DEF WindowsInv, ShowFlow, Coming, Showing, RawOf, Live, Four
<1>22. RawFlow'
  BY <1>1, <1>2, <1>3, <1>4, <1>5, <1>7, <1>8, <1>9, <1>10, <1>11, <1>12, <1>13, <1>14, <1>15, <1>16, CellsOnly DEF WindowsInv, RawFlow, Coming, RawOf, ItemSet
<1>23. BatchFlow'
  BY <1>1, <1>2, <1>3, <1>4, <1>5, <1>7, <1>8, <1>9, <1>10, <1>11, <1>12, <1>13, <1>14, <1>15, <1>16, CellsOnly DEF WindowsInv, BatchFlow, Coming, Batching, RawOf, Live, Four, ItemSet, Parsed
<1>24. AnswerFlow'
  BY <1>1, <1>2, <1>3, <1>4, <1>5, <1>7, <1>8, <1>9, <1>10, <1>11, <1>12, <1>13, <1>14, <1>15, <1>16, CellsOnly DEF WindowsInv, AnswerFlow, VerifyOk, ShowOk, RawOk, Session
<1>25. Untouched'
  BY <1>1, <1>2, <1>3, <1>4, <1>5, <1>7, <1>8, <1>9, <1>10, <1>11, <1>12, <1>13, <1>14, <1>15, <1>16, CellsOnly DEF WindowsInv, Untouched
<1>26. SourceFlow'
  BY <1>1, <1>2, <1>3, <1>4, <1>5, <1>7, <1>8, <1>9, <1>10, <1>11, <1>12, <1>13, <1>14, <1>15, <1>16, CellsOnly DEF WindowsInv, SourceFlow, Coming, Showing, RawOf
<1>. QED  BY <1>17, <1>18, <1>19, <1>20, <1>21, <1>22, <1>23, <1>24, <1>25, <1>26 DEF WindowsInv

\* initDView of the two windows that show a message
LEMMA ShowOpens ==
  ASSUME show \in ShowType, Live(show.msg), show.msg # batch.msg, WindowTypes, Owned
  PROVE  /\ Opens(show) \in ShowType /\ Opens(show).msg = show.msg
         /\ Opens(show).from = show.from /\ Opens(show).raw = show.raw
         /\ Opens(show).view = IF show.sess = Nothing /\ show.view # Nothing THEN show.view
                               ELSE show.from
         /\ IF heap[show.msg].decodes
            THEN Opens(show).ret = heap[show.msg].ret /\ Opens(show).sess = show.msg
            ELSE Opens(show).ret = show.ret /\ Opens(show).sess = Nothing
<1>. DEFINE c == Closed(show)
            o == Viewing(c)
            z == heap[show.msg].ret
<1>1. /\ c \in ShowType /\ c.sess = Nothing /\ c.msg = show.msg /\ c.from = show.from
      /\ c.raw = show.raw /\ c.ret = show.ret
      /\ c.view = IF show.sess = Nothing THEN show.view ELSE Nothing
  BY ClosedFields
<1>. HIDE DEF c
<1>2. /\ o \in ShowType /\ o.sess = Nothing /\ o.msg = show.msg /\ o.from = show.from
      /\ o.raw = show.raw /\ o.ret = show.ret
      /\ o.view = IF c.view = Nothing THEN show.from ELSE c.view
  BY <1>1 DEF Viewing, ShowType
<1>3. z \in Int /\ show.msg \in Pointers
  <2>1. heap[show.msg] \in Classes
    BY DEF Live, Owned
  <2>. QED  BY <2>1, ClassesAssumption DEF ShowType
<1>4. Opens(show) = IF ~heap[show.msg].decodes THEN o ELSE [o EXCEPT !.ret = z, !.sess = show.msg]
  BY DEF Opens, c
<1>. HIDE DEF o, z
<1>5. [o EXCEPT !.ret = z, !.sess = show.msg] \in ShowType
  BY <1>2, <1>3 DEF ShowType
<1>6. CASE heap[show.msg].decodes
  BY <1>1, <1>2, <1>4, <1>5, <1>6 DEF ShowType, z
<1>7. CASE ~heap[show.msg].decodes
  BY <1>1, <1>2, <1>4, <1>7
<1>. QED  BY <1>6, <1>7

LEMMA RawOpens ==
  ASSUME raw \in RawType, Live(raw.msg), raw.msg # batch.msg, WindowTypes, Owned
  PROVE  /\ Opens(raw) \in RawType /\ Opens(raw).msg = raw.msg
         /\ Opens(raw).from = raw.from /\ Opens(raw).back = raw.back
         /\ Opens(raw).view = IF raw.sess = Nothing /\ raw.view # Nothing THEN raw.view
                              ELSE raw.from
         /\ IF heap[raw.msg].decodes
            THEN Opens(raw).ret = heap[raw.msg].ret /\ Opens(raw).sess = raw.msg
            ELSE Opens(raw).ret = raw.ret /\ Opens(raw).sess = Nothing
<1>. DEFINE c == Closed(raw)
            o == Viewing(c)
            z == heap[raw.msg].ret
<1>1. /\ c \in RawType /\ c.sess = Nothing /\ c.msg = raw.msg /\ c.from = raw.from
      /\ c.back = raw.back /\ c.ret = raw.ret
      /\ c.view = IF raw.sess = Nothing THEN raw.view ELSE Nothing
  BY ClosedFields
<1>. HIDE DEF c
<1>2. /\ o \in RawType /\ o.sess = Nothing /\ o.msg = raw.msg /\ o.from = raw.from
      /\ o.back = raw.back /\ o.ret = raw.ret
      /\ o.view = IF c.view = Nothing THEN raw.from ELSE c.view
  BY <1>1 DEF Viewing, RawType
<1>3. z \in Int /\ raw.msg \in Pointers
  <2>1. heap[raw.msg] \in Classes
    BY DEF Live, Owned
  <2>. QED  BY <2>1, ClassesAssumption DEF RawType
<1>4. Opens(raw) = IF ~heap[raw.msg].decodes THEN o ELSE [o EXCEPT !.ret = z, !.sess = raw.msg]
  BY DEF Opens, c
<1>. HIDE DEF o, z
<1>5. [o EXCEPT !.ret = z, !.sess = raw.msg] \in RawType
  BY <1>2, <1>3 DEF RawType
<1>6. CASE heap[raw.msg].decodes
  BY <1>1, <1>2, <1>4, <1>5, <1>6 DEF RawType, z
<1>7. CASE ~heap[raw.msg].decodes
  BY <1>1, <1>2, <1>4, <1>7
<1>. QED  BY <1>6, <1>7

LEMMA VerifyOpened ==
  ASSUME verify \in VerifyType, Live(verify.msg), verify.msg # batch.msg, WindowTypes, Owned,
         VerifyOpens, verify.ret = -1, verify.code # verify.msg,
         verify.code \in {Nothing, Gone, verify.msg}
  PROVE  /\ verify' \in VerifyType /\ verify'.msg = verify.msg
         /\ verify'.details = verify.details /\ modal' \in {"none", "error", "leave"}
         /\ verify'.ret = 0 => verify'.sess = verify.msg /\ ~Refuses(heap[verify.msg])
         /\ verify'.ret = 0 <=> ~Refuses(heap[verify.msg])
         /\ verify'.code \in {Nothing, Gone, verify.msg}
         /\ verify'.code = verify.msg <=> verify'.ret = 0 /\ HasCode(heap[verify.msg].head)
<1>. DEFINE c == heap[verify.msg]
            v == Closed(verify)
            z == c.ret
<1>1. /\ v \in VerifyType /\ v.sess = Nothing /\ v.msg = verify.msg
      /\ v.details = verify.details /\ v.ret = -1 /\ v.code = verify.code
  BY ClosedFields
<1>2. verify.msg \in Pointers /\ z \in Int
  <2>1. heap[verify.msg] \in Classes
    BY DEF Live, Owned
  <2>. QED  BY <2>1, ClassesAssumption DEF VerifyType
<1>3. \/ ~c.decodes /\ verify' = v /\ modal' = "error"
      \/ c.decodes /\ c.ret # 0 /\ verify' = [v EXCEPT !.ret = z] /\ modal' = "leave"
      \/ /\ c.decodes /\ c.ret = 0 /\ modal' = IF HasCode(c.head) THEN "none" ELSE "error"
         /\ verify' = [v EXCEPT !.ret = 0, !.sess = verify.msg,
                                !.code = IF HasCode(c.head) THEN verify.msg ELSE @]
  BY Zenon DEF VerifyOpens
<1>. HIDE DEF v, z
<1>4. CASE ~c.decodes /\ verify' = v /\ modal' = "error"
  BY <1>1, <1>4 DEF Refuses
<1>5. CASE c.decodes /\ c.ret # 0 /\ verify' = [v EXCEPT !.ret = z] /\ modal' = "leave"
  BY <1>1, <1>2, <1>5 DEF Refuses, VerifyType, z
<1>6. CASE /\ c.decodes /\ c.ret = 0 /\ modal' = IF HasCode(c.head) THEN "none" ELSE "error"
           /\ verify' = [v EXCEPT !.ret = 0, !.sess = verify.msg,
                                  !.code = IF HasCode(c.head) THEN verify.msg ELSE @]
  <2>0. PICK zero \in Int : zero = 0
    OBVIOUS
  <2>1. verify' = [[v EXCEPT !.ret = zero, !.sess = verify.msg]
                   EXCEPT !.code = IF HasCode(c.head) THEN verify.msg ELSE v.code]
    BY <1>1, <1>6, <2>0 DEF VerifyType
  <2>. DEFINE w == [v EXCEPT !.ret = zero, !.sess = verify.msg]
              k == IF HasCode(c.head) THEN verify.msg ELSE v.code
  <2>2. /\ w \in VerifyType /\ w.ret = zero /\ w.sess = verify.msg /\ w.msg = verify.msg
        /\ w.details = verify.details
    BY <1>1, <1>2 DEF VerifyType
  <2>3. k \in Pointers
    BY <1>1, <1>2 DEF VerifyType
  <2>. HIDE DEF w
  <2>4. verify' = [w EXCEPT !.code = k]
    BY <2>1 DEF w
  <2>5. /\ verify' \in VerifyType /\ verify'.ret = zero /\ verify'.sess = verify.msg
        /\ verify'.msg = verify.msg /\ verify'.details = verify.details /\ verify'.code = k
    <3>. HIDE DEF k
    <3>. QED  BY <2>2, <2>3, <2>4 DEF VerifyType
  <2>6. /\ verify'.code \in {Nothing, Gone, verify.msg}
        /\ verify'.code = verify.msg <=> HasCode(c.head)
    BY <1>1, <2>5
  <2>. HIDE DEF k
  <2>. QED  BY <1>6, <2>0, <2>5, <2>6 DEF Refuses
<1>. QED  BY <1>3, <1>4, <1>5, <1>6

LEMMA VerifyResumeKeeps ==
  ASSUME WindowsInv, VerifyResume
  PROVE  WindowsInv'
<1>1. /\ Phase = "shown" /\ cur = "TX_VERIFY_CODE" /\ cur' = cur /\ Phase' = "still" /\ Behind' = "none"
      /\ Behind = "none" /\ modal = "none"
  BY QueueResumes, PhaseType DEF WindowsInv, Handles, VerifyResume
<1>2. /\ UNCHANGED <<heap, show, raw, batch, history, txs, answer, last, odd>>
  BY DEF VerifyResume
<1>3. Live(verify.msg) /\ verify.msg # Nothing /\ verify.msg # batch.msg /\ last # Nothing
  BY <1>1, FrontIsLive, CellsOnly DEF Four, Live, WindowsInv, Owned
<1>4. /\ ~verify.details => verify.ret = -1 /\ verify.code # verify.msg
      /\ verify.code \in {Nothing, Gone, verify.msg}
  BY <1>1 DEF WindowsInv, VerifyFlow, Coming
<1>5. answer = Nothing
  BY <1>1 DEF WindowsInv, AnswerFlow
<1>6. /\ verify' \in VerifyType /\ verify'.msg = verify.msg
      /\ verify'.details = FALSE /\ modal' \in {"none", "error", "leave"}
      /\ verify'.ret = 0 => verify'.sess = verify.msg /\ ~Refuses(heap[verify.msg])
      /\ verify'.ret = 0 <=> ~Refuses(heap[verify.msg])
      /\ verify'.code \in {Nothing, Gone, verify.msg}
      /\ verify'.code = verify.msg <=> verify'.ret = 0 /\ HasCode(heap[verify.msg].head)
  <2>1. CASE verify.details
    BY <1>1, <1>2, <1>3, <2>1 DEF VerifyResume, WindowsInv, WindowTypes, VerifyType, VerifyFlow
  <2>2. CASE ~verify.details
    <3>1. VerifyOpens
      BY <1>3, <2>2 DEF VerifyResume
    <3>2. verify.details = FALSE
      BY <2>2 DEF WindowsInv, WindowTypes, VerifyType
    <3>. QED  BY <1>3, <1>4, <2>2, <3>1, <3>2, VerifyOpened DEF WindowsInv, WindowTypes
  <2>. QED  BY <2>1, <2>2
<1>7. QueueShape'
  BY <1>1, <1>2, <1>3, <1>4, <1>5, <1>6, CellsOnly DEF WindowsInv, QueueShape, RequestLoops, Four
<1>8. WindowTypes'
  BY <1>1, <1>2, <1>3, <1>4, <1>5, <1>6, CellsOnly DEF WindowsInv, WindowTypes
<1>9. Owned'
  BY <1>1, <1>2, <1>3, <1>4, <1>5, <1>6, CellsOnly DEF WindowsInv, Owned, ItemSet, OfHistory
<1>10. VerifyFlow'
  BY <1>1, <1>2, <1>3, <1>4, <1>5, <1>6, CellsOnly DEF WindowsInv, VerifyFlow, Coming, Showing, RawOf, Live, Four
<1>11. ShowFlow'
  BY <1>1, <1>2, <1>3, <1>4, <1>5, <1>6, CellsOnly DEF WindowsInv, ShowFlow, Coming, Showing, RawOf, Live, Four
<1>12. RawFlow'
  BY <1>1, <1>2, <1>3, <1>4, <1>5, <1>6, CellsOnly DEF WindowsInv, RawFlow, Coming, RawOf, ItemSet
<1>13. BatchFlow'
  BY <1>1, <1>2, <1>3, <1>4, <1>5, <1>6, CellsOnly DEF WindowsInv, BatchFlow, Coming, Batching, RawOf, Live, Four, ItemSet, Parsed
<1>14. AnswerFlow'
  BY <1>1, <1>2, <1>3, <1>4, <1>5, <1>6, CellsOnly DEF WindowsInv, AnswerFlow, VerifyOk, ShowOk, RawOk, Session
<1>15. Untouched'
  BY <1>1, <1>2, <1>3, <1>4, <1>5, <1>6, CellsOnly DEF WindowsInv, Untouched
<1>16. SourceFlow'
  BY <1>1, <1>2, <1>3, <1>4, <1>5, <1>6, CellsOnly DEF WindowsInv, SourceFlow, Coming, Showing, RawOf
<1>. QED  BY <1>7, <1>8, <1>9, <1>10, <1>11, <1>12, <1>13, <1>14, <1>15, <1>16 DEF WindowsInv

LEMMA ShowResumeKeeps ==
  ASSUME WindowsInv, ShowResume
  PROVE  WindowsInv'
<1>1. /\ Phase = "shown" /\ cur = "TXSHOW" /\ cur' = cur /\ Phase' = "still" /\ Behind' = "none"
      /\ Behind = "none" /\ modal = "none"
  BY QueueResumes, PhaseType DEF WindowsInv, Handles, ShowResume
<1>2. /\ UNCHANGED <<heap, verify, raw, batch, history, txs, answer, last>>
  BY DEF ShowResume
<1>3. Live(show.msg) /\ show.msg # Nothing /\ show.msg # batch.msg /\ last # Nothing
  BY <1>1, FrontIsLive, CellsOnly DEF Four, Live
<1>4. ~show.raw => show.ret = -1
  BY <1>1 DEF WindowsInv, ShowFlow, Coming
<1>5. answer = Nothing /\ (show.from = "app" => verify.msg = show.msg)
  BY <1>1 DEF WindowsInv, AnswerFlow, VerifyFlow, Showing
<1>6. /\ show' \in ShowType /\ show'.msg = show.msg /\ show'.from = show.from
      /\ show'.raw = FALSE /\ modal' \in {"none", "error"} /\ odd' \in BOOLEAN /\ (odd => odd')
      /\ show'.ret = 0 => show'.sess = show.msg /\ ~Refuses(heap[show.msg])
      /\ show'.sess \in {show.sess, Nothing, show.msg}
      /\ ~odd' => show'.view = show.from /\ (show'.sess = Nothing => show.raw /\ show.sess = Nothing)
  <2>1. CASE show.raw
    BY <1>1, <1>2, <1>3, <2>1 DEF ShowResume, WindowsInv, WindowTypes, ShowType, ShowFlow, SourceFlow, Showing
  <2>2. CASE ~show.raw
    <3>1. /\ show' = [Opens(show) EXCEPT !.at = 1] /\ odd' = (odd \/ ~heap[show.msg].decodes)
          /\ modal' = IF Refuses(heap[show.msg]) THEN "error" ELSE "none"
      BY <1>3, <2>2 DEF ShowResume
    <3>. DEFINE o == Opens(show)
    <3>2. /\ o \in ShowType /\ o.msg = show.msg /\ o.from = show.from /\ o.raw = show.raw
          /\ o.view = IF show.sess = Nothing /\ show.view # Nothing THEN show.view ELSE show.from
          /\ IF heap[show.msg].decodes THEN o.ret = heap[show.msg].ret /\ o.sess = show.msg
             ELSE o.ret = show.ret /\ o.sess = Nothing
      BY <1>3, ShowOpens DEF WindowsInv, WindowTypes
    <3>. HIDE DEF o
    <3>3. /\ show' \in ShowType /\ show'.msg = o.msg /\ show'.from = o.from /\ show'.raw = o.raw
          /\ show'.view = o.view /\ show'.ret = o.ret /\ show'.sess = o.sess
      BY <3>1, <3>2 DEF ShowType, o
    <3>4. show.raw = FALSE /\ odd \in BOOLEAN
      BY <2>2 DEF WindowsInv, WindowTypes, ShowType
    <3>5. ~odd => show.view = show.from
      BY <1>1 DEF WindowsInv, SourceFlow, Showing
    <3>6. odd' \in BOOLEAN /\ (odd => odd') /\ (~odd' => ~odd /\ heap[show.msg].decodes)
      BY <3>1, <3>4
    <3>7. modal' \in {"none", "error"}
      BY <3>1
    <3>. QED  BY <1>3, <1>4, <2>2, <3>2, <3>3, <3>4, <3>5, <3>6, <3>7 DEF Refuses
  <2>. QED  BY <2>1, <2>2
<1>7. QueueShape'
  BY <1>1, <1>2, <1>3, <1>4, <1>5, <1>6, CellsOnly DEF WindowsInv, QueueShape, RequestLoops, Four
<1>8. WindowTypes'
  BY <1>1, <1>2, <1>3, <1>4, <1>5, <1>6, CellsOnly DEF WindowsInv, WindowTypes
<1>9. Owned'
  BY <1>1, <1>2, <1>3, <1>4, <1>5, <1>6, CellsOnly DEF WindowsInv, Owned, ItemSet, OfHistory
<1>10. VerifyFlow'
  BY <1>1, <1>2, <1>3, <1>4, <1>5, <1>6, CellsOnly DEF WindowsInv, VerifyFlow, Coming, Showing, RawOf, Live, Four
<1>11. ShowFlow'
  BY <1>1, <1>2, <1>3, <1>4, <1>5, <1>6, CellsOnly DEF WindowsInv, ShowFlow, Coming, Showing, RawOf, Live, Four
<1>12. RawFlow'
  BY <1>1, <1>2, <1>3, <1>4, <1>5, <1>6, CellsOnly DEF WindowsInv, RawFlow, Coming, RawOf, ItemSet
<1>13. BatchFlow'
  BY <1>1, <1>2, <1>3, <1>4, <1>5, <1>6, CellsOnly DEF WindowsInv, BatchFlow, Coming, Batching, RawOf, Live, Four, ItemSet, Parsed
<1>14. AnswerFlow'
  BY <1>1, <1>2, <1>3, <1>4, <1>5, <1>6, CellsOnly DEF WindowsInv, AnswerFlow, VerifyOk, ShowOk, RawOk, Session
<1>15. Untouched'
  BY <1>1, <1>2, <1>3, <1>4, <1>5, <1>6, CellsOnly DEF WindowsInv, Untouched
<1>16. SourceFlow'
  BY <1>1, <1>2, <1>3, <1>4, <1>5, <1>6, CellsOnly DEF WindowsInv, SourceFlow, Coming, Showing, RawOf
<1>. QED  BY <1>7, <1>8, <1>9, <1>10, <1>11, <1>12, <1>13, <1>14, <1>15, <1>16 DEF WindowsInv

LEMMA RawResumeKeeps ==
  ASSUME WindowsInv, RawResume
  PROVE  WindowsInv'
<1>1. /\ Phase = "shown" /\ cur = "TX_RAW_DATA" /\ cur' = cur /\ Phase' = "still" /\ Behind' = "none"
      /\ Behind = "none" /\ modal = "none"
  BY QueueResumes, PhaseType DEF WindowsInv, Handles, RawResume
<1>2. /\ UNCHANGED <<heap, verify, show, batch, history, txs, answer, last>>
  BY DEF RawResume
<1>3. Live(raw.msg) /\ raw.msg # Nothing /\ raw.msg # batch.msg /\ last # Nothing
  BY <1>1, FrontIsLive, CellsOnly DEF Four, Live
<1>4. raw.ret = -1
  BY <1>1 DEF WindowsInv, RawFlow, Coming
<1>5. answer = Nothing
  BY <1>1 DEF WindowsInv, AnswerFlow
<1>6. /\ raw' = Opens(raw) /\ odd' = (odd \/ ~heap[raw.msg].decodes)
      /\ modal' = IF Refuses(heap[raw.msg]) \/ Segments(heap[raw.msg].hex) < 1 THEN "error" ELSE "none"
  BY <1>3 DEF RawResume
<1>7. modal' \in {"none", "error"}
  BY <1>6
<1>8. /\ raw' \in RawType /\ raw'.msg = raw.msg /\ raw'.from = raw.from /\ raw'.back = raw.back
      /\ raw'.view = IF raw.sess = Nothing /\ raw.view # Nothing THEN raw.view ELSE raw.from
      /\ IF heap[raw.msg].decodes
         THEN raw'.ret = heap[raw.msg].ret /\ raw'.sess = raw.msg
         ELSE raw'.ret = raw.ret /\ raw'.sess = Nothing
  BY <1>3, <1>6, RawOpens DEF WindowsInv, WindowTypes
<1>9. odd' \in BOOLEAN /\ (odd => odd') /\ (~odd' => ~odd /\ heap[raw.msg].decodes)
  BY <1>6 DEF WindowsInv, WindowTypes
<1>10. raw'.ret = 0 => raw'.sess = raw.msg /\ ~Refuses(heap[raw.msg])
  BY <1>4, <1>8 DEF Refuses
<1>11. QueueShape'
  BY <1>1, <1>2, <1>3, <1>4, <1>5, <1>6, <1>7, <1>8, <1>9, <1>10, CellsOnly DEF WindowsInv, QueueShape, RequestLoops, Four
<1>12. WindowTypes'
  BY <1>1, <1>2, <1>3, <1>4, <1>5, <1>6, <1>7, <1>8, <1>9, <1>10, CellsOnly DEF WindowsInv, WindowTypes
<1>13. Owned'
  BY <1>1, <1>2, <1>3, <1>4, <1>5, <1>6, <1>7, <1>8, <1>9, <1>10, CellsOnly DEF WindowsInv, Owned, ItemSet, OfHistory
<1>14. VerifyFlow'
  BY <1>1, <1>2, <1>3, <1>4, <1>5, <1>6, <1>7, <1>8, <1>9, <1>10, CellsOnly DEF WindowsInv, VerifyFlow, Coming, Showing, RawOf, Live, Four
<1>15. ShowFlow'
  BY <1>1, <1>2, <1>3, <1>4, <1>5, <1>6, <1>7, <1>8, <1>9, <1>10, CellsOnly DEF WindowsInv, ShowFlow, Coming, Showing, RawOf, Live, Four
<1>16. RawFlow'
  BY <1>1, <1>2, <1>3, <1>4, <1>5, <1>6, <1>7, <1>8, <1>9, <1>10, CellsOnly DEF WindowsInv, RawFlow, Coming, RawOf, ItemSet
<1>17. BatchFlow'
  BY <1>1, <1>2, <1>3, <1>4, <1>5, <1>6, <1>7, <1>8, <1>9, <1>10, CellsOnly DEF WindowsInv, BatchFlow, Coming, Batching, RawOf, Live, Four, ItemSet, Parsed
<1>18. AnswerFlow'
  BY <1>1, <1>2, <1>3, <1>4, <1>5, <1>6, <1>7, <1>8, <1>9, <1>10, CellsOnly DEF WindowsInv, AnswerFlow, VerifyOk, ShowOk, RawOk, Session
<1>19. Untouched'
  BY <1>1, <1>2, <1>3, <1>4, <1>5, <1>6, <1>7, <1>8, <1>9, <1>10, CellsOnly DEF WindowsInv, Untouched
<1>20. SourceFlow'
  BY <1>1, <1>2, <1>3, <1>4, <1>5, <1>6, <1>7, <1>8, <1>9, <1>10, CellsOnly DEF WindowsInv, SourceFlow, Coming, Showing, RawOf
<1>. QED  BY <1>11, <1>12, <1>13, <1>14, <1>15, <1>16, <1>17, <1>18, <1>19, <1>20 DEF WindowsInv

LEMMA RawPauseKeeps ==
  ASSUME WindowsInv, RawPause
  PROVE  WindowsInv'
<1>1. /\ Phase = "left" /\ Behind = "TX_RAW_DATA" /\ cur' = cur /\ Phase' = "shown" /\ Behind' = "none"
      /\ modal = "none" /\ modal' = modal /\ answer' = answer /\ cur # Behind
  BY QueuePauses DEF WindowsInv, Handles, QueueShape, RawPause
<1>2. /\ UNCHANGED <<modal, heap, verify, show, batch, history, txs, answer, last, odd>>
  BY DEF RawPause
<1>3. /\ raw' \in RawType /\ raw'.msg = raw.msg /\ raw'.ret = raw.ret /\ raw'.from = raw.from
      /\ raw'.back = raw.back /\ raw'.sess = Nothing
      /\ raw'.view = IF raw.sess = Nothing THEN raw.view ELSE Nothing
  BY ClosedFields DEF RawPause, WindowsInv, WindowTypes
<1>4. QueueShape'
  BY <1>1, <1>2, <1>3, CellsOnly DEF WindowsInv, QueueShape, RequestLoops, Four
<1>5. WindowTypes'
  BY <1>1, <1>2, <1>3, CellsOnly DEF WindowsInv, WindowTypes
<1>6. Owned'
  BY <1>1, <1>2, <1>3, CellsOnly DEF WindowsInv, Owned, ItemSet, OfHistory
<1>7. VerifyFlow'
  BY <1>1, <1>2, <1>3, CellsOnly DEF WindowsInv, VerifyFlow, Coming, Showing, RawOf, Live, Four
<1>8. ShowFlow'
  BY <1>1, <1>2, <1>3, CellsOnly DEF WindowsInv, ShowFlow, Coming, Showing, RawOf, Live, Four
<1>9. RawFlow'
  BY <1>1, <1>2, <1>3, CellsOnly DEF WindowsInv, RawFlow, Coming, RawOf, ItemSet
<1>10. BatchFlow'
  BY <1>1, <1>2, <1>3, CellsOnly DEF WindowsInv, BatchFlow, Coming, Batching, RawOf, Live, Four, ItemSet, Parsed
<1>11. AnswerFlow'
  BY <1>1, <1>2, <1>3, CellsOnly DEF WindowsInv, AnswerFlow, VerifyOk, ShowOk, RawOk, Session
<1>12. Untouched'
  BY <1>1, <1>2, <1>3, CellsOnly DEF WindowsInv, Untouched
<1>13. SourceFlow'
  BY <1>1, <1>2, <1>3, CellsOnly DEF WindowsInv, SourceFlow, Coming, Showing, RawOf
<1>. QED  BY <1>4, <1>5, <1>6, <1>7, <1>8, <1>9, <1>10, <1>11, <1>12, <1>13 DEF WindowsInv

LEMMA VerifyPauseStays ==
  ASSUME WindowsInv, VerifyPause, verify.details
  PROVE  WindowsInv'
<1>1. /\ Phase = "left" /\ Behind = "TX_VERIFY_CODE" /\ cur' = cur /\ Phase' = "shown" /\ Behind' = "none"
      /\ modal = "none" /\ modal' = modal /\ answer' = answer /\ cur # Behind
  BY QueuePauses DEF WindowsInv, Handles, QueueShape, VerifyPause
<1>2. /\ UNCHANGED <<modal, heap, verify, show, raw, batch, history, txs, answer, last, odd>>
  BY DEF VerifyPause
<1>3. QueueShape'
  BY <1>1, <1>2, CellsOnly DEF WindowsInv, QueueShape, RequestLoops, Four
<1>4. WindowTypes'
  BY <1>1, <1>2, CellsOnly DEF WindowsInv, WindowTypes
<1>5. Owned'
  BY <1>1, <1>2, CellsOnly DEF WindowsInv, Owned, ItemSet, OfHistory
<1>6. VerifyFlow'
  BY <1>1, <1>2, CellsOnly DEF WindowsInv, VerifyFlow, Coming, Showing, RawOf, Live, Four
<1>7. ShowFlow'
  BY <1>1, <1>2, CellsOnly DEF WindowsInv, ShowFlow, Coming, Showing, RawOf, Live, Four
<1>8. RawFlow'
  BY <1>1, <1>2, CellsOnly DEF WindowsInv, RawFlow, Coming, RawOf, ItemSet
<1>9. BatchFlow'
  BY <1>1, <1>2, CellsOnly DEF WindowsInv, BatchFlow, Coming, Batching, RawOf, Live, Four, ItemSet, Parsed
<1>10. AnswerFlow'
  BY <1>1, <1>2, CellsOnly DEF WindowsInv, AnswerFlow, VerifyOk, ShowOk, RawOk, Session
<1>11. Untouched'
  BY <1>1, <1>2, CellsOnly DEF WindowsInv, Untouched
<1>12. SourceFlow'
  BY <1>1, <1>2, CellsOnly DEF WindowsInv, SourceFlow, Coming, Showing, RawOf
<1>. QED  BY <1>3, <1>4, <1>5, <1>6, <1>7, <1>8, <1>9, <1>10, <1>11, <1>12 DEF WindowsInv

LEMMA VerifyPauseEnds ==
  ASSUME WindowsInv, VerifyPause, ~verify.details
  PROVE  WindowsInv'
<1>. DEFINE dead == {verify.msg}
<1>1. /\ Phase = "left" /\ Behind = "TX_VERIFY_CODE" /\ cur' = cur /\ Phase' = "shown" /\ Behind' = "none"
      /\ modal = "none" /\ modal' = modal /\ answer' = answer /\ cur # Behind
  BY QueuePauses DEF WindowsInv, Handles, QueueShape, VerifyPause
<1>2. cur # "TX_VERIFY_CODE" /\ cur # "TXSHOW" /\ cur # "TX_RAW_DATA" /\ cur # "BATCH_SIGN"
  BY <1>1 DEF WindowsInv, VerifyFlow, Four
<1>3. verify.msg \in Messages /\ dead \in SUBSET Messages /\ {verify.msg} \ {Nothing} = dead
  BY <1>1, CellsOnly DEF WindowsInv, VerifyFlow, WindowTypes, VerifyType, Pointers, Owned
<1>4. /\ verify' = [Dangles(Closed(verify), dead) EXCEPT !.msg = Nothing]
      /\ show' = Dangles(show, dead) /\ raw' = Dangles(raw, dead)
      /\ last' = IF last = verify.msg THEN Gone ELSE last
      /\ heap' = Freed(dead)
      /\ UNCHANGED <<modal, batch, history, txs, answer, odd>>
  BY <1>3 DEF VerifyPause
<1>5. last' \in Pointers /\ last' # Nothing
  BY <1>3, <1>4, CellsOnly DEF WindowsInv, WindowTypes, Untouched, Pointers
<1>6. /\ verify' \in VerifyType /\ verify'.msg = Nothing /\ verify'.ret = verify.ret
      /\ verify'.details = FALSE /\ verify'.sess = Nothing
      /\ verify'.code \in {Nothing, Gone}
  <2>. DEFINE c == Closed(verify)
              d == [msg |-> After(c.msg, dead), ret |-> c.ret, details |-> c.details,
                    sess |-> After(c.sess, dead), code |-> After(c.code, dead)]
  <2>1. /\ c \in VerifyType /\ c.sess = Nothing /\ c.details = verify.details /\ c.ret = verify.ret
        /\ c.code = verify.code
    BY ClosedFields DEF WindowsInv, WindowTypes
  <2>2. verify' = [d EXCEPT !.msg = Nothing]
    BY <1>3, <1>4, <2>1, VerifyDangles
  <2>. HIDE DEF c
  <2>3. After(c.sess, dead) = Nothing /\ After(c.code, dead) \in Pointers
    BY <1>3, <2>1, DeletedPointers DEF VerifyType, After
  <2>4. verify' = [msg |-> Nothing, ret |-> c.ret, details |-> c.details, sess |-> Nothing,
                   code |-> After(c.code, dead)]
    BY <2>2, <2>3
  <2>5. verify.details = FALSE
    BY DEF WindowsInv, WindowTypes, VerifyType
  <2>6. After(c.code, dead) \in {Nothing, Gone}
    BY <2>1 DEF WindowsInv, VerifyFlow, After, dead
  <2>. QED  BY <2>1, <2>3, <2>4, <2>5, <2>6 DEF VerifyType, Pointers
<1>7. /\ show' \in ShowType /\ show'.msg = After(show.msg, dead) /\ show'.from = show.from
      /\ show'.ret = show.ret /\ show'.raw = show.raw /\ show'.view = show.view
      /\ show'.sess = After(show.sess, dead) /\ (show'.sess = Nothing <=> show.sess = Nothing)
  BY <1>3, <1>4, ShowLeft DEF WindowsInv, WindowTypes
<1>8. /\ raw' \in RawType /\ raw'.msg = After(raw.msg, dead) /\ raw'.from = raw.from
      /\ raw'.ret = raw.ret /\ raw'.back = raw.back /\ raw'.view = raw.view
      /\ raw'.sess = After(raw.sess, dead) /\ (raw'.sess = Nothing <=> raw.sess = Nothing)
  BY <1>3, <1>4, RawLeft DEF WindowsInv, WindowTypes
<1>9. /\ \A m \in Messages : heap'[m] = IF m \in dead THEN Nothing ELSE heap[m]
      /\ heap' \in [Messages -> Classes \cup Batches \cup {Nothing}]
  BY <1>4 DEF Freed, WindowsInv, WindowTypes
<1>10. show.from = "history" => show.msg = Nothing /\ show'.msg = Nothing
  BY <1>1, <1>2, <1>3, <1>7, DeletedPointers DEF WindowsInv, ShowFlow, Showing, RawOf, After
<1>11. batch.msg # verify.msg /\ verify.msg \notin ItemSet /\ ItemSet' = ItemSet
  BY <1>3, <1>4 DEF WindowsInv, Owned, ItemSet
<1>12. batch.state # "DETAIL" /\ Behind' # "TXSHOW"
  BY <1>1, <1>2 DEF WindowsInv, BatchFlow, Batching, RawOf
<1>13. QueueShape'
  BY <1>1, <1>2, <1>3, <1>4, <1>5, <1>6, <1>7, <1>8, <1>9, <1>10, <1>11, <1>12, CellsOnly DEF WindowsInv, QueueShape, RequestLoops, Four
<1>14. WindowTypes'
  BY <1>4, <1>5, <1>6, <1>7, <1>8, <1>9 DEF WindowsInv, WindowTypes
<1>15. Owned'
  <2>1. /\ verify'.msg # Gone /\ batch'.msg # Gone /\ batch'.msg = batch.msg
         /\ show'.from = show.from /\ (show'.from = "history" => show'.msg = Nothing)
    BY <1>4, <1>6, <1>7, <1>10, CellsOnly DEF WindowsInv, Owned
  <2>2. ASSUME NEW m \in Messages
        PROVE  /\ heap'[m] # Nothing <=> m = verify'.msg \/ m = batch'.msg \/ m \in ItemSet' \/ OfHistory(m)'
               /\ m = verify'.msg => m # batch'.msg /\ m \notin ItemSet' /\ ~OfHistory(m)'
               /\ m = batch'.msg => m \notin ItemSet' /\ ~OfHistory(m)'
               /\ m \in ItemSet' => ~OfHistory(m)'
               /\ m # batch'.msg => heap'[m] \in Classes \cup {Nothing}
    <3>1. ~OfHistory(m) /\ ~OfHistory(m)'
      BY <1>10, <2>1, CellsOnly DEF OfHistory
    <3>2. CASE m \in dead
      BY <1>6, <1>9, <1>11, <2>1, <3>1, <3>2, CellsOnly DEF dead
    <3>3. CASE m \notin dead
      BY <1>6, <1>9, <1>11, <2>1, <3>1, <3>3, CellsOnly DEF WindowsInv, Owned, dead
    <3>. QED  BY <3>2, <3>3
  <2>3. batch'.msg # Nothing => heap'[batch'.msg] \in Batches
    BY <1>9, <1>11, <2>1, CellsOnly DEF WindowsInv, WindowTypes, BatchType, Pointers, Owned, dead
  <2>. QED  BY <2>1, <2>2, <2>3, CellsOnly DEF Owned
<1>16. VerifyFlow'
  <2>1. ~Showing'
    BY <1>1, <1>2 DEF Showing, RawOf
  <2>. QED  BY <1>1, <1>2, <1>6, <2>1 DEF VerifyFlow
<1>17. ShowFlow'
  <2>1. ~Showing' /\ ~RawOf("TXSHOW")'
    BY <1>1, <1>2 DEF Showing, RawOf
  <2>2. show'.sess \in {Nothing, Gone, IF show'.from = "app" THEN verify'.msg ELSE show'.msg}
    <3>1. show.from = "app" \/ show.from = "history"
      BY DEF WindowsInv, WindowTypes, ShowType, Sources
    <3>2. show.sess \in {Nothing, Gone, IF show.from = "app" THEN verify.msg ELSE show.msg}
      BY DEF WindowsInv, ShowFlow
    <3>. QED  BY <1>3, <1>6, <1>7, <1>10, <3>1, <3>2, CellsOnly DEF After, dead
  <2>. QED  BY <1>1, <1>2, <1>7, <1>10, <2>1, <2>2 DEF ShowFlow
<1>18. RawFlow'
  BY <1>1, <1>2 DEF RawFlow, RawOf
<1>19. BatchFlow'
  <2>1. ~Batching' /\ batch' = batch /\ modal' = "none"
    BY <1>1, <1>2, <1>4 DEF Batching, RawOf
  <2>. QED  BY <1>1, <1>2, <1>12, <2>1 DEF BatchFlow, Coming
<1>20. AnswerFlow'
  BY <1>1, <1>2, <1>4 DEF WindowsInv, AnswerFlow
<1>21. Untouched'
  BY <1>5 DEF Untouched
<1>22. SourceFlow'
  <2>1. ~Showing' /\ cur' # "TX_RAW_DATA"
    BY <1>1, <1>2 DEF Showing, RawOf
  <2>. QED  BY <1>1, <1>2, <1>4, <1>7, <1>8, <2>1 DEF WindowsInv, SourceFlow
<1>. QED  BY <1>13, <1>14, <1>15, <1>16, <1>17, <1>18, <1>19, <1>20, <1>21, <1>22 DEF WindowsInv

LEMMA VerifyPauseKeeps ==
  ASSUME WindowsInv, VerifyPause
  PROVE  WindowsInv'
BY VerifyPauseStays, VerifyPauseEnds

LEMMA ShowPauseStays ==
  ASSUME WindowsInv, ShowPause, show.raw
  PROVE  WindowsInv'
<1>1. /\ Phase = "left" /\ Behind = "TXSHOW" /\ cur' = cur /\ Phase' = "shown" /\ Behind' = "none"
      /\ modal = "none" /\ modal' = modal /\ answer' = answer /\ cur # Behind
  BY QueuePauses DEF WindowsInv, Handles, QueueShape, ShowPause
<1>2. /\ UNCHANGED <<modal, heap, verify, show, raw, batch, history, txs, answer, last, odd>>
  BY DEF ShowPause
<1>3. QueueShape'
  BY <1>1, <1>2, CellsOnly DEF WindowsInv, QueueShape, RequestLoops, Four
<1>4. WindowTypes'
  BY <1>1, <1>2, CellsOnly DEF WindowsInv, WindowTypes
<1>5. Owned'
  BY <1>1, <1>2, CellsOnly DEF WindowsInv, Owned, ItemSet, OfHistory
<1>6. VerifyFlow'
  BY <1>1, <1>2, CellsOnly DEF WindowsInv, VerifyFlow, Coming, Showing, RawOf, Live, Four
<1>7. ShowFlow'
  BY <1>1, <1>2, CellsOnly DEF WindowsInv, ShowFlow, Coming, Showing, RawOf, Live, Four
<1>8. RawFlow'
  BY <1>1, <1>2, CellsOnly DEF WindowsInv, RawFlow, Coming, RawOf, ItemSet
<1>9. BatchFlow'
  BY <1>1, <1>2, CellsOnly DEF WindowsInv, BatchFlow, Coming, Batching, RawOf, Live, Four, ItemSet, Parsed
<1>10. AnswerFlow'
  BY <1>1, <1>2, CellsOnly DEF WindowsInv, AnswerFlow, VerifyOk, ShowOk, RawOk, Session
<1>11. Untouched'
  BY <1>1, <1>2, CellsOnly DEF WindowsInv, Untouched
<1>12. SourceFlow'
  BY <1>1, <1>2, CellsOnly DEF WindowsInv, SourceFlow, Coming, Showing, RawOf
<1>. QED  BY <1>3, <1>4, <1>5, <1>6, <1>7, <1>8, <1>9, <1>10, <1>11, <1>12 DEF WindowsInv

LEMMA ShowPauseApp ==
  ASSUME WindowsInv, ShowPause, ~show.raw, show.from = "app"
  PROVE  WindowsInv'
<1>1. /\ Phase = "left" /\ Behind = "TXSHOW" /\ cur' = cur /\ Phase' = "shown" /\ Behind' = "none"
      /\ modal = "none" /\ modal' = modal /\ answer' = answer /\ cur # Behind
  BY QueuePauses DEF WindowsInv, Handles, QueueShape, ShowPause
<1>2. /\ show' = [Closed(show) EXCEPT !.msg = @]
      /\ UNCHANGED <<modal, heap, verify, raw, batch, history, txs, answer, last, odd>>
  BY DEF ShowPause
<1>3. /\ show' \in ShowType /\ show'.ret = show.ret /\ show'.from = show.from
      /\ show'.raw = show.raw /\ show'.sess = Nothing
      /\ show'.view = IF show.sess = Nothing THEN show.view ELSE Nothing
      /\ show'.msg = show.msg
  <2>. DEFINE c == Closed(show)
  <2>1. /\ c \in ShowType /\ c.sess = Nothing /\ c.ret = show.ret /\ c.from = show.from
        /\ c.raw = show.raw /\ c.msg = show.msg
        /\ c.view = IF show.sess = Nothing THEN show.view ELSE Nothing
    BY ClosedFields DEF WindowsInv, WindowTypes
  <2>. HIDE DEF c
  <2>2. show' = c
    BY <1>2, <2>1 DEF ShowType, c
  <2>. QED  BY <2>1, <2>2
<1>4. QueueShape'
  BY <1>1, <1>2, <1>3, CellsOnly DEF WindowsInv, QueueShape, RequestLoops, Four
<1>5. WindowTypes'
  BY <1>1, <1>2, <1>3, CellsOnly DEF WindowsInv, WindowTypes
<1>6. Owned'
  BY <1>1, <1>2, <1>3, CellsOnly DEF WindowsInv, Owned, ItemSet, OfHistory
<1>7. VerifyFlow'
  BY <1>1, <1>2, <1>3, CellsOnly DEF WindowsInv, VerifyFlow, Coming, Showing, RawOf, Live, Four
<1>8. ShowFlow'
  BY <1>1, <1>2, <1>3, CellsOnly DEF WindowsInv, ShowFlow, Coming, Showing, RawOf, Live, Four
<1>9. RawFlow'
  BY <1>1, <1>2, <1>3, CellsOnly DEF WindowsInv, RawFlow, Coming, RawOf, ItemSet
<1>10. BatchFlow'
  BY <1>1, <1>2, <1>3, CellsOnly DEF WindowsInv, BatchFlow, Coming, Batching, RawOf, Live, Four, ItemSet, Parsed
<1>11. AnswerFlow'
  BY <1>1, <1>2, <1>3, CellsOnly DEF WindowsInv, AnswerFlow, VerifyOk, ShowOk, RawOk, Session
<1>12. Untouched'
  BY <1>1, <1>2, <1>3, CellsOnly DEF WindowsInv, Untouched
<1>13. SourceFlow'
  <2>1. ~Showing' /\ cur' # "TX_RAW_DATA"
    BY <1>1 DEF WindowsInv, ShowFlow, Showing, RawOf, Four
  <2>. QED  BY <1>1, <1>2, <1>3, <2>1 DEF WindowsInv, SourceFlow
<1>. QED  BY <1>4, <1>5, <1>6, <1>7, <1>8, <1>9, <1>10, <1>11, <1>12, <1>13 DEF WindowsInv

LEMMA ShowPauseHistory ==
  ASSUME WindowsInv, ShowPause, ~show.raw, show.from = "history"
  PROVE  WindowsInv'
<1>. DEFINE dead == {show.msg} \ {Nothing}
<1>1. /\ Phase = "left" /\ Behind = "TXSHOW" /\ cur' = cur /\ Phase' = "shown" /\ Behind' = "none"
      /\ modal = "none" /\ modal' = modal /\ answer' = answer /\ cur # Behind
  BY QueuePauses DEF WindowsInv, Handles, QueueShape, ShowPause
<1>2. cur # "TX_VERIFY_CODE" /\ cur # "TXSHOW" /\ cur # "TX_RAW_DATA" /\ cur # "BATCH_SIGN"
  BY <1>1 DEF WindowsInv, ShowFlow, Four
<1>3. show.msg \in Messages \cup {Nothing} /\ dead \in SUBSET Messages
  BY CellsOnly DEF WindowsInv, WindowTypes, ShowType, Pointers, Owned
<1>4. /\ show' = [Closed(show) EXCEPT !.msg = Nothing]
      /\ raw' = Dangles(raw, dead) /\ heap' = Freed({show.msg})
      /\ UNCHANGED <<modal, verify, batch, history, txs, answer, last, odd>>
  BY DEF ShowPause
<1>5. /\ show' \in ShowType /\ show'.ret = show.ret /\ show'.from = show.from
      /\ show'.raw = show.raw /\ show'.sess = Nothing
      /\ show'.view = IF show.sess = Nothing THEN show.view ELSE Nothing
      /\ show'.msg = Nothing
  <2>. DEFINE c == Closed(show)
  <2>1. /\ c \in ShowType /\ c.sess = Nothing /\ c.ret = show.ret /\ c.from = show.from
        /\ c.raw = show.raw
        /\ c.view = IF show.sess = Nothing THEN show.view ELSE Nothing
    BY ClosedFields DEF WindowsInv, WindowTypes
  <2>. HIDE DEF c
  <2>2. show' = [c EXCEPT !.msg = Nothing]
    BY <1>4 DEF c
  <2>. QED  BY <2>1, <2>2 DEF ShowType, Pointers
<1>6. /\ raw' \in RawType /\ raw'.msg = After(raw.msg, dead) /\ raw'.from = raw.from
      /\ raw'.ret = raw.ret /\ raw'.back = raw.back /\ raw'.view = raw.view
      /\ raw'.sess = After(raw.sess, dead) /\ (raw'.sess = Nothing <=> raw.sess = Nothing)
  BY <1>3, <1>4, RawLeft DEF WindowsInv, WindowTypes
<1>7. /\ \A m \in Messages : heap'[m] = IF m \in dead THEN Nothing ELSE heap[m]
      /\ heap' \in [Messages -> Classes \cup Batches \cup {Nothing}]
  BY <1>3, <1>4, CellsOnly DEF Freed, WindowsInv, WindowTypes
<1>8. show.msg \in Messages => batch.msg # show.msg /\ show.msg \notin ItemSet /\ verify.msg # show.msg
  BY CellsOnly DEF WindowsInv, Owned, OfHistory
<1>9. ItemSet' = ItemSet
  BY <1>4 DEF ItemSet
<1>10. batch.state # "DETAIL" /\ Behind' = "none"
  BY <1>1, <1>2 DEF WindowsInv, BatchFlow, Batching, RawOf
<1>11. \A m \in Messages : m \in dead <=> m = show.msg
  BY CellsOnly
<1>. HIDE DEF dead
<1>13. QueueShape'
  BY <1>1, <1>2, <1>3, <1>4, <1>5, <1>6, <1>7, <1>8, <1>9, <1>10, <1>11, CellsOnly DEF WindowsInv, QueueShape, RequestLoops, Four
<1>14. WindowTypes'
  BY <1>4, <1>5, <1>6, <1>7 DEF WindowsInv, WindowTypes
<1>15. Owned'
  <2>1. /\ verify'.msg # Gone /\ batch'.msg # Gone /\ batch'.msg = batch.msg /\ verify'.msg = verify.msg
         /\ show'.msg # Gone
    BY <1>4, <1>5, CellsOnly DEF WindowsInv, Owned
  <2>2. ASSUME NEW m \in Messages
        PROVE  /\ heap'[m] # Nothing <=> m = verify'.msg \/ m = batch'.msg \/ m \in ItemSet' \/ OfHistory(m)'
               /\ m = verify'.msg => m # batch'.msg /\ m \notin ItemSet' /\ ~OfHistory(m)'
               /\ m = batch'.msg => m \notin ItemSet' /\ ~OfHistory(m)'
               /\ m \in ItemSet' => ~OfHistory(m)'
               /\ m # batch'.msg => heap'[m] \in Classes \cup {Nothing}
    <3>1. ~OfHistory(m)' /\ (OfHistory(m) <=> m \in dead)
      BY <1>5, <1>11, CellsOnly DEF OfHistory
    <3>2. CASE m \in dead
      BY <1>7, <1>8, <1>9, <1>11, <2>1, <3>1, <3>2, CellsOnly
    <3>3. CASE m \notin dead
      BY <1>7, <1>9, <1>11, <2>1, <3>1, <3>3, CellsOnly DEF WindowsInv, Owned
    <3>. QED  BY <3>2, <3>3
  <2>3. batch'.msg # Nothing => heap'[batch'.msg] \in Batches
    BY <1>7, <1>8, <1>11, <2>1, CellsOnly DEF WindowsInv, WindowTypes, BatchType, Pointers, Owned
  <2>. QED  BY <2>1, <2>2, <2>3, CellsOnly DEF Owned
<1>16. VerifyFlow'
  <2>1. ~Showing' /\ cur' # "TX_VERIFY_CODE" /\ verify' = verify
    BY <1>1, <1>2, <1>4 DEF Showing, RawOf
  <2>2. verify.msg # Nothing => heap'[verify.msg] = heap[verify.msg]
    BY <1>7, <1>8, <1>11, CellsOnly DEF WindowsInv, WindowTypes, VerifyType, Pointers, Owned
  <2>. QED  BY <1>1, <1>2, <2>1, <2>2 DEF WindowsInv, VerifyFlow
<1>17. ShowFlow'
  <2>1. ~Showing' /\ ~RawOf("TXSHOW")'
    BY <1>1, <1>2 DEF Showing, RawOf
  <2>. QED  BY <1>1, <1>2, <1>5, <2>1 DEF ShowFlow
<1>18. RawFlow'
  BY <1>1, <1>2 DEF RawFlow, RawOf
<1>19. BatchFlow'
  <2>1. ~Batching' /\ batch' = batch /\ modal' = "none"
    BY <1>1, <1>2, <1>4 DEF Batching, RawOf
  <2>. QED  BY <1>1, <1>2, <1>10, <2>1 DEF BatchFlow, Coming
<1>20. AnswerFlow'
  BY <1>1, <1>2, <1>4 DEF WindowsInv, AnswerFlow
<1>21. Untouched'
  BY <1>4, <1>5 DEF WindowsInv, Untouched
<1>22. SourceFlow'
  <2>1. ~Showing' /\ cur' # "TX_RAW_DATA"
    BY <1>1, <1>2 DEF Showing, RawOf
  <2>. QED  BY <1>1, <1>2, <1>4, <1>5, <1>6, <2>1 DEF WindowsInv, SourceFlow
<1>. QED  BY <1>13, <1>14, <1>15, <1>16, <1>17, <1>18, <1>19, <1>20, <1>21, <1>22 DEF WindowsInv

LEMMA ShowPauseKeeps ==
  ASSUME WindowsInv, ShowPause
  PROVE  WindowsInv'
<1>1. show.from = "app" \/ show.from = "history"
  BY DEF WindowsInv, WindowTypes, ShowType, Sources
<1>. QED  BY <1>1, ShowPauseStays, ShowPauseApp, ShowPauseHistory

\* The cells the items of a batch get
Cells(n) == SubSeq(SetToSeq(Free), 1, n)

LEMMA CellsAreFree ==
  ASSUME NEW n \in Nat, n <= Cardinality(Free)
  PROVE  /\ Cells(n) \in Seq(Messages) /\ Len(Cells(n)) = n /\ DOMAIN Cells(n) = 1..n
         /\ \A i \in 1..n : Cells(n)[i] \in Free
         /\ \A i, j \in 1..n : Cells(n)[i] = Cells(n)[j] => i = j
         /\ ToSet(Cells(n)) = {Cells(n)[i] : i \in 1..n}
<1>. DEFINE k == Cardinality(Free)
            s == SetToSeq(Free)
<1>1. k \in Nat /\ ExistsBijection(1..k, Free)
  BY FS_Subset, FS_CardinalityType, PointersAssumption DEF Free
<1>2. \E f \in [1..k -> Free] : IsInjective(f)
  BY <1>1 DEF ExistsBijection, Bijection, Injection
<1>3. s \in [1..k -> Free] /\ IsInjective(s)
  BY <1>2 DEF SetToSeq
<1>4. \A i, j \in 1..k : s[i] = s[j] => i = j
  BY <1>3 DEF IsInjective
<1>5. Free \subseteq Messages
  BY DEF Free
<1>. HIDE DEF s
<1>6. s \in Seq(Messages) /\ Len(s) = k
  BY <1>1, <1>3, <1>5
<1>7. /\ Cells(n) \in Seq(Messages) /\ Len(Cells(n)) = n
      /\ \A i \in 1..n : Cells(n)[i] = s[i]
  BY <1>1, <1>6 DEF Cells, s
<1>8. \A i \in 1..n : i \in 1..k
  BY <1>1
<1>. QED  BY <1>3, <1>4, <1>7, <1>8 DEF ToSet
LEMMA BatchResumeDetail ==
  ASSUME WindowsInv, BatchResume, batch.state = "DETAIL"
  PROVE  WindowsInv'
<1>1. /\ Phase = "shown" /\ cur = "BATCH_SIGN" /\ cur' = cur /\ Phase' = "still" /\ Behind' = "none"
      /\ Behind = "none" /\ modal = "none"
  BY QueueResumes, PhaseType DEF WindowsInv, Handles, BatchResume
<1>2. /\ UNCHANGED <<modal, heap, verify, show, raw, batch, history, txs, answer, last, odd>>
  BY DEF BatchResume
<1>3. answer = Nothing /\ last # Nothing
  BY <1>1, FrontIsLive DEF WindowsInv, AnswerFlow, Four
<1>4. QueueShape'
  BY <1>1, <1>2, <1>3, CellsOnly DEF WindowsInv, QueueShape, RequestLoops, Four
<1>5. WindowTypes'
  BY <1>1, <1>2, <1>3, CellsOnly DEF WindowsInv, WindowTypes
<1>6. Owned'
  BY <1>1, <1>2, <1>3, CellsOnly DEF WindowsInv, Owned, ItemSet, OfHistory
<1>7. VerifyFlow'
  BY <1>1, <1>2, <1>3, CellsOnly DEF WindowsInv, VerifyFlow, Coming, Showing, RawOf, Live, Four
<1>8. ShowFlow'
  BY <1>1, <1>2, <1>3, CellsOnly DEF WindowsInv, ShowFlow, Coming, Showing, RawOf, Live, Four
<1>9. RawFlow'
  BY <1>1, <1>2, <1>3, CellsOnly DEF WindowsInv, RawFlow, Coming, RawOf, ItemSet
<1>10. BatchFlow'
  BY <1>1, <1>2, <1>3, CellsOnly DEF WindowsInv, BatchFlow, Coming, Batching, RawOf, Live, Four, ItemSet, Parsed
<1>11. AnswerFlow'
  BY <1>1, <1>2, <1>3, CellsOnly DEF WindowsInv, AnswerFlow, VerifyOk, ShowOk, RawOk, Session
<1>12. Untouched'
  BY <1>1, <1>2, <1>3, CellsOnly DEF WindowsInv, Untouched
<1>13. SourceFlow'
  BY <1>1, <1>2, <1>3, CellsOnly DEF WindowsInv, SourceFlow, Coming, Showing, RawOf
<1>. QED  BY <1>4, <1>5, <1>6, <1>7, <1>8, <1>9, <1>10, <1>11, <1>12, <1>13 DEF WindowsInv

LEMMA BatchResumeFails ==
  ASSUME WindowsInv, BatchResume, batch.state # "DETAIL", ~heap[batch.msg].parses
  PROVE  WindowsInv'
<1>1. /\ Phase = "shown" /\ cur = "BATCH_SIGN" /\ cur' = cur /\ Phase' = "still" /\ Behind' = "none"
      /\ Behind = "none" /\ modal = "none"
  BY QueueResumes, PhaseType DEF WindowsInv, Handles, BatchResume
<1>2. answer = Nothing /\ last # Nothing /\ batch.msg # Nothing
  BY <1>1, FrontIsLive, CellsOnly DEF WindowsInv, AnswerFlow, Four, Live
<1>3. /\ modal' = "leave" /\ batch' = [batch EXCEPT !.sess = Nothing, !.state = "LIST"]
      /\ UNCHANGED <<heap, verify, show, raw, history, txs, answer, last, odd>>
  BY <1>2 DEF BatchResume
<1>4. /\ batch' \in BatchType /\ batch'.msg = batch.msg /\ batch'.items = batch.items
      /\ batch'.state = "LIST" /\ batch'.code = batch.code
  <2>1. batch \in BatchType
    BY DEF WindowsInv, WindowTypes
  <2>. QED  BY <1>3, <2>1 DEF BatchType, Pointers
<1>5. QueueShape'
  BY <1>1, <1>2, <1>3, <1>4, CellsOnly DEF WindowsInv, QueueShape, RequestLoops, Four
<1>6. WindowTypes'
  BY <1>1, <1>2, <1>3, <1>4, CellsOnly DEF WindowsInv, WindowTypes
<1>7. Owned'
  BY <1>1, <1>2, <1>3, <1>4, CellsOnly DEF WindowsInv, Owned, ItemSet, OfHistory
<1>8. VerifyFlow'
  BY <1>1, <1>2, <1>3, <1>4, CellsOnly DEF WindowsInv, VerifyFlow, Coming, Showing, RawOf, Live, Four
<1>9. ShowFlow'
  BY <1>1, <1>2, <1>3, <1>4, CellsOnly DEF WindowsInv, ShowFlow, Coming, Showing, RawOf, Live, Four
<1>10. RawFlow'
  BY <1>1, <1>2, <1>3, <1>4, CellsOnly DEF WindowsInv, RawFlow, Coming, RawOf, ItemSet
<1>11. BatchFlow'
  BY <1>1, <1>2, <1>3, <1>4, CellsOnly DEF WindowsInv, BatchFlow, Coming, Batching, RawOf, Live, Four, ItemSet, Parsed
<1>12. AnswerFlow'
  BY <1>1, <1>2, <1>3, <1>4, CellsOnly DEF WindowsInv, AnswerFlow, VerifyOk, ShowOk, RawOk, Session
<1>13. Untouched'
  BY <1>1, <1>2, <1>3, <1>4, CellsOnly DEF WindowsInv, Untouched
<1>14. SourceFlow'
  BY <1>1, <1>2, <1>3, <1>4, CellsOnly DEF WindowsInv, SourceFlow, Coming, Showing, RawOf
<1>. QED  BY <1>5, <1>6, <1>7, <1>8, <1>9, <1>10, <1>11, <1>12, <1>13, <1>14 DEF WindowsInv

LEMMA BatchResumeParses ==
  ASSUME WindowsInv, BatchResume, batch.state # "DETAIL", heap[batch.msg].parses
  PROVE  WindowsInv'
<1>. DEFINE c == heap[batch.msg]
            n == Len(c.items)
            s == Cells(n)
<1>1. /\ Phase = "shown" /\ cur = "BATCH_SIGN" /\ cur' = cur /\ Phase' = "still" /\ Behind' = "none"
      /\ Behind = "none" /\ modal = "none"
  BY QueueResumes, PhaseType DEF WindowsInv, Handles, BatchResume
<1>2. answer = Nothing /\ last # Nothing /\ batch.msg \in Messages /\ batch.msg # Nothing /\ heap[batch.msg] # Nothing
  BY <1>1, FrontIsLive, CellsOnly DEF WindowsInv, AnswerFlow, Four, Live
<1>3. /\ n <= Cardinality(Free) /\ BatchParses
      /\ UNCHANGED <<verify, show, raw, history, txs, answer, last, odd>>
  BY <1>2 DEF BatchResume
<1>4. c.items \in Seq(Classes) /\ n \in Nat /\ n = Len(c.items)
  BY <1>2, ClassesAssumption DEF WindowsInv, Owned
<1>5. /\ s \in Seq(Messages) /\ Len(s) = n /\ DOMAIN s = 1..n
      /\ \A i \in 1..n : s[i] \in Free
      /\ \A i, j \in 1..n : s[i] = s[j] => i = j
      /\ ToSet(s) = {s[i] : i \in 1..n}
  BY <1>3, <1>4, CellsAreFree
<1>6. /\ heap' = [m \in Messages |-> IF m \in ToSet(s) THEN c.items[CHOOSE i \in DOMAIN s : s[i] = m]
                                     ELSE heap[m]]
      /\ batch' = [batch EXCEPT !.sess = Nothing, !.state = "LIST", !.items = s,
                                !.code = IF HasCode(c.head) THEN batch.msg ELSE @]
      /\ modal' = IF HasCode(c.head) THEN "none" ELSE "leave"
  BY <1>3 DEF BatchParses, Cells
<1>. HIDE DEF c, n, s
<1>8. /\ batch' \in BatchType /\ batch'.msg = batch.msg /\ batch'.items = s /\ batch'.state = "LIST"
      /\ modal' # "leave" => batch'.code = batch.msg
  <2>. DEFINE k == IF HasCode(c.head) THEN batch.msg ELSE batch.code
              b == [batch EXCEPT !.sess = Nothing, !.state = "LIST"]
  <2>1. /\ b \in BatchType /\ b.state = "LIST" /\ b.msg = batch.msg /\ b.code = batch.code
    BY DEF WindowsInv, WindowTypes, BatchType, Pointers
  <2>2. batch' = [b EXCEPT !.items = s, !.code = k]
    BY <1>6 DEF WindowsInv, WindowTypes, BatchType
  <2>3. k \in Pointers /\ (modal' # "leave" => k = batch.msg)
    BY <1>2, <1>6 DEF WindowsInv, WindowTypes, BatchType
  <2>. HIDE DEF b, k
  <2>. QED  BY <1>5, <2>1, <2>2, <2>3 DEF BatchType
<1>9. modal' \in {"none", "leave"} /\ (modal = "none")
  BY <1>1, <1>6
<1>10. /\ \A i \in 1..n : heap'[s[i]] = c.items[i] /\ c.items[i] \in Classes /\ s[i] \in Messages
  <2>1. ASSUME NEW i \in 1..n PROVE heap'[s[i]] = c.items[i] /\ c.items[i] \in Classes /\ s[i] \in Messages
    <3>1. s[i] \in ToSet(s) /\ s[i] \in Messages /\ i \in DOMAIN s
      BY <1>5
    <3>. DEFINE h == CHOOSE j \in DOMAIN s : s[j] = s[i]
    <3>2. h = i
      BY <1>5, <3>1
    <3>3. heap'[s[i]] = c.items[h]
      BY <1>6, <3>1
    <3>. HIDE DEF h
    <3>4. heap'[s[i]] = c.items[i]
      BY <3>2, <3>3
    <3>5. c.items[i] \in Classes
      BY <1>4
    <3>. QED  BY <3>1, <3>4, <3>5
  <2>. QED  BY <2>1
<1>11. \A m \in Messages : m \notin ItemSet' => heap'[m] = heap[m]
  BY <1>6, <1>8 DEF ItemSet
<1>12. \A m \in Messages : m \in ItemSet' => heap[m] = Nothing /\ heap'[m] \in Classes /\ heap'[m] # Nothing
  BY <1>5, <1>8, <1>10, ClassesAssumption DEF ItemSet, Free
<1>13. heap' \in [Messages -> Classes \cup Batches \cup {Nothing}]
  <2>1. \A m \in Messages : heap'[m] \in Classes \cup Batches \cup {Nothing}
    BY <1>11, <1>12 DEF WindowsInv, WindowTypes
  <2>2. heap' = [m \in Messages |-> heap'[m]]
    BY <1>6
  <2>. QED  BY <2>1, <2>2
<1>14. batch.items = << >>
  BY <1>1 DEF WindowsInv, BatchFlow, Coming
<1>15. ItemSet = {}
  BY <1>14 DEF ItemSet, ToSet
<1>16. batch.msg \notin ItemSet' /\ heap'[batch.msg] = c /\ Live(last) /\ Live(last)' /\ batch.msg = last
  BY <1>1, <1>2, <1>3, <1>11, <1>12, <1>8, CellsOnly DEF WindowsInv, BatchFlow, Batching, Live, c
<1>17. QueueShape'
  BY <1>1, <1>9 DEF QueueShape, RequestLoops, Four
<1>18. WindowTypes'
  BY <1>3, <1>8, <1>13 DEF WindowsInv, WindowTypes
<1>19. Owned'
  <2>1. /\ verify' = verify /\ show' = show /\ batch'.msg = batch.msg
    BY <1>3, <1>8
  <2>2. ASSUME NEW m \in Messages
        PROVE  /\ heap'[m] # Nothing <=> m = verify'.msg \/ m = batch'.msg \/ m \in ItemSet' \/ OfHistory(m)'
               /\ m = verify'.msg => m # batch'.msg /\ m \notin ItemSet' /\ ~OfHistory(m)'
               /\ m = batch'.msg => m \notin ItemSet' /\ ~OfHistory(m)'
               /\ m \in ItemSet' => ~OfHistory(m)'
               /\ m # batch'.msg => heap'[m] \in Classes \cup {Nothing}
    <3>1. OfHistory(m)' <=> OfHistory(m)
      BY <2>1 DEF OfHistory
    <3>2. CASE m \in ItemSet'
      BY <1>12, <2>1, <3>1, <3>2 DEF WindowsInv, Owned
    <3>3. CASE m \notin ItemSet'
      BY <1>11, <1>15, <2>1, <3>1, <3>3 DEF WindowsInv, Owned
    <3>. QED  BY <3>2, <3>3
  <2>3. /\ batch'.msg # Nothing => heap'[batch'.msg] \in Batches
        /\ verify'.msg # Gone /\ batch'.msg # Gone /\ (show'.from = "history" => show'.msg # Gone)
    BY <1>2, <1>16, <2>1 DEF WindowsInv, Owned, c
  <2>. QED  BY <2>2, <2>3 DEF Owned
<1>20. VerifyFlow'
  <2>1. verify.msg # Nothing => heap'[verify.msg] = heap[verify.msg]
    BY <1>11, <1>12 DEF WindowsInv, WindowTypes, VerifyType, Pointers, Owned
  <2>2. ~Showing /\ ~Showing' /\ cur # "TX_VERIFY_CODE"
    BY <1>1 DEF Showing, RawOf
  <2>. QED  BY <1>1, <1>3, <2>1, <2>2 DEF WindowsInv, VerifyFlow
<1>21. ShowFlow'
  <2>1. ~Showing /\ ~Showing' /\ ~RawOf("TXSHOW") /\ ~RawOf("TXSHOW")'
    BY <1>1 DEF Showing, RawOf
  <2>. QED  BY <1>1, <1>3, <2>1 DEF WindowsInv, ShowFlow
<1>22. RawFlow'
  BY <1>1 DEF RawFlow, RawOf
<1>23. BatchFlow'
  <2>1. modal' # "leave" => Parsed'
    BY <1>4, <1>5, <1>8, <1>10, <1>16 DEF Parsed
  <2>. QED  BY <1>1, <1>3, <1>8, <1>9, <1>16, <2>1 DEF BatchFlow, Coming, Batching, RawOf, Live, Four, WindowsInv
<1>24. AnswerFlow'
  BY <1>1, <1>2, <1>3, <1>9 DEF AnswerFlow
<1>25. Untouched'
  BY <1>2, <1>3 DEF Untouched
<1>26. SourceFlow'
  BY <1>1, <1>3 DEF WindowsInv, SourceFlow, Showing, RawOf
<1>. QED  BY <1>17, <1>18, <1>19, <1>20, <1>21, <1>22, <1>23, <1>24, <1>25, <1>26 DEF WindowsInv

LEMMA BatchResumeKeeps ==
  ASSUME WindowsInv, BatchResume
  PROVE  WindowsInv'
BY BatchResumeDetail, BatchResumeFails, BatchResumeParses

LEMMA BatchPauseDetail ==
  ASSUME WindowsInv, BatchPause, batch.state = "DETAIL"
  PROVE  WindowsInv'
<1>1. /\ Phase = "left" /\ Behind = "BATCH_SIGN" /\ cur' = cur /\ Phase' = "shown" /\ Behind' = "none"
      /\ modal = "none" /\ modal' = modal /\ answer' = answer /\ cur # Behind
  BY QueuePauses DEF WindowsInv, Handles, QueueShape, BatchPause
<1>2. /\ UNCHANGED <<modal, heap, verify, show, raw, batch, history, txs, answer, last, odd>>
  BY DEF BatchPause
<1>3. QueueShape'
  BY <1>1, <1>2, CellsOnly DEF WindowsInv, QueueShape, RequestLoops, Four
<1>4. WindowTypes'
  BY <1>1, <1>2, CellsOnly DEF WindowsInv, WindowTypes
<1>5. Owned'
  BY <1>1, <1>2, CellsOnly DEF WindowsInv, Owned, ItemSet, OfHistory
<1>6. VerifyFlow'
  BY <1>1, <1>2, CellsOnly DEF WindowsInv, VerifyFlow, Coming, Showing, RawOf, Live, Four
<1>7. ShowFlow'
  BY <1>1, <1>2, CellsOnly DEF WindowsInv, ShowFlow, Coming, Showing, RawOf, Live, Four
<1>8. RawFlow'
  BY <1>1, <1>2, CellsOnly DEF WindowsInv, RawFlow, Coming, RawOf, ItemSet
<1>9. BatchFlow'
  BY <1>1, <1>2, CellsOnly DEF WindowsInv, BatchFlow, Coming, Batching, RawOf, Live, Four, ItemSet, Parsed
<1>10. AnswerFlow'
  BY <1>1, <1>2, CellsOnly DEF WindowsInv, AnswerFlow, VerifyOk, ShowOk, RawOk, Session
<1>11. Untouched'
  BY <1>1, <1>2, CellsOnly DEF WindowsInv, Untouched
<1>12. SourceFlow'
  BY <1>1, <1>2, CellsOnly DEF WindowsInv, SourceFlow, Coming, Showing, RawOf
<1>. QED  BY <1>3, <1>4, <1>5, <1>6, <1>7, <1>8, <1>9, <1>10, <1>11, <1>12 DEF WindowsInv

LEMMA BatchPauseEnds ==
  ASSUME WindowsInv, BatchPause, batch.state # "DETAIL"
  PROVE  WindowsInv'
<1>. DEFINE dead == (ItemSet \cup {batch.msg}) \ {Nothing}
<1>1. /\ Phase = "left" /\ Behind = "BATCH_SIGN" /\ cur' = cur /\ Phase' = "shown" /\ Behind' = "none"
      /\ modal = "none" /\ modal' = modal /\ answer' = answer /\ cur # Behind
  BY QueuePauses DEF WindowsInv, Handles, QueueShape, BatchPause
<1>2. cur # "TX_VERIFY_CODE" /\ cur # "TXSHOW" /\ cur # "TX_RAW_DATA" /\ cur # "BATCH_SIGN"
  BY <1>1 DEF WindowsInv, BatchFlow, Four
<1>3. /\ batch' = [Dangles(batch, dead) EXCEPT !.items = << >>, !.msg = Nothing, !.sess = Nothing]
      /\ raw' = Dangles(raw, dead) /\ heap' = Freed(dead)
      /\ last' = IF last \in dead THEN Gone ELSE last
      /\ UNCHANGED <<modal, verify, show, history, txs, answer, odd>>
  BY DEF BatchPause, ItemSet
<1>4. ItemSet \subseteq Messages /\ batch.msg \in Messages \cup {Nothing}
  BY DEF WindowsInv, WindowTypes, BatchType, Pointers, Owned, ItemSet, ToSet
<1>5. dead \in SUBSET Messages /\ \A m \in Messages : m \in dead <=> m = batch.msg \/ m \in ItemSet
  BY <1>4, CellsOnly
<1>. HIDE DEF dead
<1>7. /\ last' \in Pointers
      /\ last' = Nothing => last = Nothing
  BY <1>3, CellsOnly DEF WindowsInv, WindowTypes, Pointers
<1>8. /\ batch' \in BatchType /\ batch'.msg = Nothing /\ batch'.items = << >>
      /\ batch'.state = batch.state /\ ItemSet' = {}
  <2>0. batch' = [[msg |-> After(batch.msg, dead), items |-> After(batch.items, dead),
                   state |-> batch.state, sess |-> After(batch.sess, dead),
                   code |-> After(batch.code, dead), done |-> batch.done]
                    EXCEPT !.items = << >>, !.msg = Nothing, !.sess = Nothing]
    BY <1>3, <1>5, BatchDangles DEF WindowsInv, WindowTypes
  <2>1. batch' = [msg |-> Nothing, items |-> << >>, state |-> batch.state, sess |-> Nothing,
                 code |-> After(batch.code, dead), done |-> batch.done]
    BY <2>0
  <2>2. After(batch.code, dead) \in Pointers
    BY <1>5, DeletedPointers DEF WindowsInv, WindowTypes, BatchType
  <2>3. batch.state \in {"LIST", "SELECT", "DETAIL", "SIGNING"} /\ batch.done \in Nat
    BY DEF WindowsInv, WindowTypes, BatchType
  <2>. QED  BY <2>1, <2>2, <2>3 DEF BatchType, Pointers, ItemSet, ToSet
<1>9. /\ raw' \in RawType /\ raw'.msg = After(raw.msg, dead) /\ raw'.from = raw.from
      /\ raw'.ret = raw.ret /\ raw'.back = raw.back /\ raw'.view = raw.view
      /\ raw'.sess = After(raw.sess, dead) /\ (raw'.sess = Nothing <=> raw.sess = Nothing)
  BY <1>3, <1>5, RawLeft DEF WindowsInv, WindowTypes
<1>10. /\ \A m \in Messages : heap'[m] = IF m \in dead THEN Nothing ELSE heap[m]
       /\ heap' \in [Messages -> Classes \cup Batches \cup {Nothing}]
  BY <1>3 DEF Freed, WindowsInv, WindowTypes
<1>11. verify.msg # Nothing => heap'[verify.msg] = heap[verify.msg] /\ verify.msg \notin dead
  BY <1>5, <1>10 DEF WindowsInv, WindowTypes, VerifyType, Pointers, Owned
<1>12. QueueShape'
  BY <1>1, <1>2, <1>3, <1>4, <1>5, <1>7, <1>8, <1>9, <1>10, <1>11, CellsOnly DEF WindowsInv, QueueShape, RequestLoops, Four
<1>13. WindowTypes'
  BY <1>3, <1>7, <1>8, <1>9, <1>10 DEF WindowsInv, WindowTypes
<1>14. Owned'
  <2>1. verify' = verify /\ show' = show /\ batch'.msg = Nothing /\ ItemSet' = {}
    BY <1>3, <1>8
  <2>2. ASSUME NEW m \in Messages
        PROVE  /\ heap'[m] # Nothing <=> m = verify'.msg \/ m = batch'.msg \/ m \in ItemSet' \/ OfHistory(m)'
               /\ m = verify'.msg => m # batch'.msg /\ m \notin ItemSet' /\ ~OfHistory(m)'
               /\ m = batch'.msg => m \notin ItemSet' /\ ~OfHistory(m)'
               /\ m \in ItemSet' => ~OfHistory(m)'
               /\ m # batch'.msg => heap'[m] \in Classes \cup {Nothing}
    <3>1. OfHistory(m)' <=> OfHistory(m)
      BY <2>1 DEF OfHistory
    <3>2. CASE m \in dead
      BY <1>5, <1>10, <2>1, <3>1, <3>2, CellsOnly DEF WindowsInv, Owned
    <3>3. CASE m \notin dead
      BY <1>5, <1>10, <2>1, <3>1, <3>3, CellsOnly DEF WindowsInv, Owned
    <3>. QED  BY <3>2, <3>3
  <2>. QED  BY <2>1, <2>2, CellsOnly DEF Owned, WindowsInv
<1>15. VerifyFlow'
  <2>1. ~Showing' /\ cur' # "TX_VERIFY_CODE" /\ verify' = verify
    BY <1>1, <1>2, <1>3 DEF Showing, RawOf
  <2>. QED  BY <1>1, <1>2, <1>11, <2>1 DEF WindowsInv, VerifyFlow
<1>16. ShowFlow'
  <2>1. ~Showing /\ ~Showing' /\ ~RawOf("TXSHOW") /\ ~RawOf("TXSHOW")'
    BY <1>1, <1>2 DEF Showing, RawOf
  <2>. QED  BY <1>1, <1>2, <1>3, <2>1 DEF WindowsInv, ShowFlow
<1>17. RawFlow'
  BY <1>1, <1>2 DEF RawFlow, RawOf
<1>18. BatchFlow'
  <2>1. ~Batching' /\ modal' = "none"
    BY <1>1, <1>2 DEF Batching, RawOf
  <2>. QED  BY <1>1, <1>2, <1>8, <2>1 DEF BatchFlow, Coming
<1>19. AnswerFlow'
  BY <1>1, <1>2, <1>3 DEF WindowsInv, AnswerFlow
<1>20. Untouched'
  BY <1>3, <1>7, <1>8 DEF WindowsInv, Untouched
<1>21. SourceFlow'
  <2>1. ~Showing' /\ cur' # "TX_RAW_DATA"
    BY <1>1, <1>2 DEF Showing, RawOf
  <2>. QED  BY <1>1, <1>2, <1>3, <1>9, <2>1 DEF WindowsInv, SourceFlow
<1>. QED  BY <1>12, <1>13, <1>14, <1>15, <1>16, <1>17, <1>18, <1>19, <1>20, <1>21 DEF WindowsInv

LEMMA BatchPauseKeeps ==
  ASSUME WindowsInv, BatchPause
  PROVE  WindowsInv'
BY BatchPauseDetail, BatchPauseEnds

-----------------------------------------------------------------------------
(* The rest of the device: it moves between other windows, shows its own     *)
(* dialogs and leaves what the windows of a request have alone.              *)

LEMMA Aside ==
  ASSUME WindowsInv, UNCHANGED <<cur, todo, modal>>,
         UNCHANGED <<heap, verify, show, raw, batch, txs, answer, last, odd>>
  PROVE  WindowsInv'
<1>1. Phase' = Phase /\ Behind' = Behind
  BY QueueSame
<1>2. QueueShape'
  BY <1>1 DEF WindowsInv, QueueShape
<1>3. WindowTypes' /\ Owned'
  BY DEF WindowsInv, WindowTypes, Owned, ItemSet, OfHistory
<1>4. VerifyFlow' /\ ShowFlow'
  BY <1>1 DEF WindowsInv, VerifyFlow, ShowFlow, Coming, Showing, RawOf, Live
<1>5. RawFlow' /\ BatchFlow'
  BY <1>1 DEF WindowsInv, RawFlow, BatchFlow, Coming, Batching, RawOf, Live, ItemSet, Parsed
<1>6. AnswerFlow' /\ Untouched' /\ SourceFlow'
  BY <1>1 DEF WindowsInv, AnswerFlow, Untouched, SourceFlow, VerifyOk, ShowOk, RawOk, Session,
               Coming, Showing, RawOf
<1>. QED  BY <1>2, <1>3, <1>4, <1>5, <1>6 DEF WindowsInv

\* No window of a request is in front, before or after.
LEMMA OutsideKeeps ==
  ASSUME WindowsInv, QueueShape', cur \notin Four, cur' \notin Four,
         modal' \notin RequestLoops, modal \notin RequestLoops,
         UNCHANGED <<heap, verify, show, raw, batch, txs, answer, last, odd>>,
         \/ Behind' = Behind
         \/ Behind' \notin Four /\ (Behind \notin Four \/ last = Nothing)
  PROVE  WindowsInv'
<1>1. ~Showing /\ ~Showing' /\ ~Batching /\ ~Batching' /\ ~RawOf("TXSHOW") /\ ~RawOf("BATCH_SIGN")
      /\ ~RawOf("TXSHOW")' /\ ~RawOf("BATCH_SIGN")'
  BY DEF Showing, Batching, RawOf, Four
<1>2. cur' # "TX_VERIFY_CODE" /\ cur' # "TXSHOW" /\ cur' # "TX_RAW_DATA" /\ cur' # "BATCH_SIGN"
  BY DEF Four
<1>3. answer = Nothing /\ modal' \notin {"pin", "answer", "signing", "leave", "fail"}
  BY DEF WindowsInv, AnswerFlow, RequestLoops
<1>4. WindowTypes' /\ Owned' /\ Untouched'
  BY DEF WindowsInv, WindowTypes, Owned, ItemSet, OfHistory, Untouched
<1>5. VerifyFlow'
  BY <1>1, <1>2 DEF WindowsInv, VerifyFlow, Four
<1>6. ShowFlow'
  <2>1. show.from = "history" /\ show.msg # Nothing => Behind' = "TXSHOW" /\ ~show.raw
    BY <1>1 DEF WindowsInv, ShowFlow, Untouched, Four
  <2>2. Behind' = "TXSHOW" => ~show.raw
    BY <1>1 DEF WindowsInv, ShowFlow, Four
  <2>. QED  BY <1>1, <1>2, <2>1, <2>2 DEF WindowsInv, ShowFlow
<1>7. RawFlow'
  BY <1>1, <1>2 DEF RawFlow
<1>8. BatchFlow'
  <2>1. batch.state # "DETAIL"
    BY <1>1 DEF WindowsInv, BatchFlow
  <2>. QED  BY <1>1, <1>2, <1>3, <2>1 DEF BatchFlow
<1>9. AnswerFlow'
  BY <1>3 DEF AnswerFlow
<1>10. SourceFlow'
  BY <1>1, <1>2 DEF WindowsInv, SourceFlow, Four
<1>. QED  BY <1>4, <1>5, <1>6, <1>7, <1>8, <1>9, <1>10 DEF WindowsInv

\* From one of the other windows to another
LEMMA MovesOutside ==
  ASSUME WindowsInv, NEW w, todo = << >>, cur \notin Four, w \notin Four, ChangeWindow(w),
         modal \notin RequestLoops, modal' = "none",
         UNCHANGED <<heap, verify, show, raw, batch, txs, answer, last, odd>>
  PROVE  WindowsInv'
<1>1. /\ cur' = w /\ Behind = "none"
      /\ w = cur => Phase' = "still" /\ Behind' = "none"
      /\ w # cur => /\ Phase' = "left" /\ Behind' = cur
                    /\ todo' = <<Call("pause", Behind'), Call("resume", cur')>>
  BY QueueChanges
<1>2. QueueShape'
  BY <1>1 DEF QueueShape
<1>3. Behind \notin Four /\ Behind' \notin Four
  BY <1>1 DEF Four
<1>4. modal' \notin RequestLoops
  BY DEF RequestLoops
<1>. QED  BY <1>1, <1>2, <1>3, <1>4, OutsideKeeps

\* A dialog of one of the other windows opens or closes.
LEMMA DialogOutside ==
  ASSUME WindowsInv, UNCHANGED <<cur, todo>>, cur \notin Four,
         modal' \notin RequestLoops, modal \notin RequestLoops,
         modal' # "none" => todo = << >>,
         UNCHANGED <<heap, verify, show, raw, batch, txs, answer, last, odd>>
  PROVE  WindowsInv'
<1>1. Phase' = Phase /\ Behind' = Behind /\ (modal' # "none" => Phase = "still")
  BY QueueSame, PhaseType
<1>2. QueueShape'
  BY <1>1 DEF WindowsInv, QueueShape, RequestLoops
<1>. QED  BY <1>1, <1>2, OutsideKeeps

\* A notification of one of the other windows; onResume may open a dialog.
LEMMA HandledOutside ==
  ASSUME WindowsInv, modal = "none", cur' = cur, Behind' = "none",
         \/ Phase = "shown" /\ Phase' = "still" /\ cur \notin Four
         \/ Phase = "left" /\ Phase' = "shown" /\ Behind \notin Four /\ modal' = "none",
         modal' \notin RequestLoops,
         UNCHANGED <<heap, verify, show, raw, batch, txs, answer, last, odd>>
  PROVE  WindowsInv'
<1>1. /\ UNCHANGED <<heap, verify, show, raw, batch, txs, answer, last, odd>>
      /\ modal' \notin RequestLoops /\ modal = "none" /\ cur' = cur /\ Behind' = "none"
      /\ \/ Phase = "shown" /\ Phase' = "still" /\ cur \notin Four /\ Behind = "none"
         \/ Phase = "left" /\ Phase' = "shown" /\ Behind \notin Four /\ modal' = "none"
  BY PhaseType
<1>2. modal' \notin {"error", "leave", "pin", "answer", "signing", "fail"}
  BY <1>1 DEF RequestLoops
<1>3. answer = Nothing
  BY <1>1 DEF WindowsInv, AnswerFlow
<1>4. QueueShape'
  BY <1>1, <1>2, <1>3, CellsOnly DEF WindowsInv, QueueShape, RequestLoops, Four
<1>5. WindowTypes'
  BY <1>1, <1>2, <1>3, CellsOnly DEF WindowsInv, WindowTypes
<1>6. Owned'
  BY <1>1, <1>2, <1>3, CellsOnly DEF WindowsInv, Owned, ItemSet, OfHistory
<1>7. VerifyFlow'
  BY <1>1, <1>2, <1>3, CellsOnly DEF WindowsInv, VerifyFlow, Coming, Showing, RawOf, Live, Four
<1>8. ShowFlow'
  <2>1. CASE Phase = "shown"
    BY <1>1, <1>2, <1>3, <2>1, CellsOnly DEF WindowsInv, ShowFlow, Coming, Showing, RawOf, Live, Four
  <2>2. CASE Phase = "left"
    BY <1>1, <1>2, <1>3, <2>2, CellsOnly DEF WindowsInv, ShowFlow, Coming, Showing, RawOf, Live, Four
  <2>. QED  BY <1>1, <2>1, <2>2
<1>9. RawFlow'
  BY <1>1, <1>2, <1>3, CellsOnly DEF WindowsInv, RawFlow, Coming, RawOf, ItemSet
<1>10. BatchFlow'
  BY <1>1, <1>2, <1>3, CellsOnly DEF WindowsInv, BatchFlow, Coming, Batching, RawOf, Live, Four, ItemSet, Parsed
<1>11. AnswerFlow'
  BY <1>1, <1>2, <1>3, CellsOnly DEF WindowsInv, AnswerFlow, VerifyOk, ShowOk, RawOk, Session
<1>12. Untouched'
  BY <1>1, <1>2, <1>3, CellsOnly DEF WindowsInv, Untouched
<1>13. SourceFlow'
  <2>1. CASE Phase = "shown"
    BY <1>1, <1>2, <1>3, <2>1, CellsOnly DEF WindowsInv, SourceFlow, Coming, Showing, RawOf, Four
  <2>2. CASE Phase = "left"
    BY <1>1, <1>2, <1>3, <2>2, CellsOnly DEF WindowsInv, SourceFlow, Coming, Showing, RawOf, Four
  <2>. QED  BY <1>1, <2>1, <2>2
<1>. QED  BY <1>4, <1>5, <1>6, <1>7, <1>8, <1>9, <1>10, <1>11, <1>12, <1>13 DEF WindowsInv

LEMMA PlainKeeps ==
  ASSUME WindowsInv, Plain
  PROVE  WindowsInv'
<1>1. /\ modal = "none" /\ cur' = cur /\ Behind' = "none"
      /\ \/ Phase = "shown" /\ Phase' = "still" /\ cur \notin Four
         \/ Phase = "left" /\ Phase' = "shown" /\ Behind \notin Four
  BY QueuePlain DEF WindowsInv, Four
<1>2. /\ UNCHANGED <<heap, verify, show, raw, batch, txs, answer, last, odd>>
      /\ modal' = "none" /\ modal' \notin RequestLoops
  BY <1>1 DEF Plain, RequestLoops
<1>. QED  BY <1>1, <1>2, HandledOutside

LEMMA HandlesOutside ==
  ASSUME WindowsInv, NEW w, w \notin Four,
         \/ Handles("resume", w) /\ modal' \notin RequestLoops
         \/ Handles("pause", w) /\ modal' = "none",
         UNCHANGED <<heap, verify, show, raw, batch, txs, answer, last, odd>>
  PROVE  WindowsInv'
<1>1. QueueShape /\ modal = "none"
  BY DEF WindowsInv, Handles
<1>2. CASE Handles("resume", w) /\ modal' \notin RequestLoops
  <2>1. Phase = "shown" /\ cur = w /\ cur' = cur /\ Phase' = "still" /\ Behind' = "none"
    BY <1>1, <1>2, QueueResumes
  <2>. QED  BY <1>1, <1>2, <2>1, HandledOutside
<1>3. CASE Handles("pause", w) /\ modal' = "none"
  <2>1. Phase = "left" /\ Behind = w /\ cur' = cur /\ Phase' = "shown" /\ Behind' = "none"
    BY <1>1, <1>3, QueuePauses
  <2>2. modal' \notin RequestLoops
    BY <1>3 DEF RequestLoops
  <2>. QED  BY <1>1, <1>3, <2>1, <2>2, HandledOutside
<1>. QED  BY <1>2, <1>3

\* A restart, before anything was scanned
LEMMA RestartKeeps ==
  ASSUME WindowsInv, last = Nothing, cur' \in {"MAINPANEL", "GUIDE"},
         todo' = <<Call("resume", cur')>>, modal' = "none",
         UNCHANGED <<heap, verify, show, raw, batch, txs, answer, last, odd>>
  PROVE  WindowsInv'
<1>1. cur \notin Four /\ cur' \notin Four
  BY FrontIsLive DEF Four
<1>2. modal \notin RequestLoops /\ modal' \notin RequestLoops
  BY <1>1 DEF WindowsInv, QueueShape, RequestLoops
<1>3. todo' # << >> /\ Phase' = "shown"
  BY DEF Phase, Call
<1>4. Behind' = "none" /\ "none" \notin Four
  BY <1>3 DEF Behind, Four
<1>5. QueueShape'
  BY <1>3 DEF QueueShape
<1>. QED  BY <1>1, <1>2, <1>4, <1>5, OutsideKeeps

LEMMA WindowsBegin ==
  ASSUME WindowsInit
  PROVE  WindowsInv
<1>1. todo # << >> /\ todo = <<Call("resume", cur)>> /\ cur \in {"MAINPANEL", "GUIDE"}
  BY DEF WindowsInit
<1>2. Phase = "shown" /\ Behind = "none"
  BY <1>1 DEF Phase, Behind, Call
<1>3. /\ modal = "none" /\ heap = [m \in Messages |-> Nothing]
      /\ history = "none" /\ txs = {} /\ answer = Nothing /\ last = Nothing /\ odd = FALSE
  BY DEF WindowsInit
<1>4. PICK z \in Int : z = -1
  OBVIOUS
<1>5. /\ verify \in VerifyType /\ verify.msg = Nothing /\ verify.ret = -1 /\ verify.sess = Nothing
      /\ ~verify.details /\ verify.code = Nothing
  <2>1. verify = [msg |-> Nothing, ret |-> z, details |-> FALSE, sess |-> Nothing, code |-> Nothing]
    BY <1>4 DEF WindowsInit
  <2>. QED  BY <1>4, <2>1 DEF VerifyType, Pointers
<1>6. /\ show \in ShowType /\ show.msg = Nothing /\ show.from = "app" /\ show.sess = Nothing
      /\ ~show.raw /\ show.view = Nothing
  <2>1. show = [msg |-> Nothing, from |-> "app", ret |-> z, raw |-> FALSE, sess |-> Nothing,
                view |-> Nothing, at |-> 1]
    BY <1>4 DEF WindowsInit
  <2>2. PICK one \in Int : one = 1
    OBVIOUS
  <2>3. show = [msg |-> Nothing, from |-> "app", ret |-> z, raw |-> FALSE, sess |-> Nothing,
                view |-> Nothing, at |-> one]
    BY <2>1, <2>2
  <2>. QED  BY <1>4, <2>2, <2>3 DEF ShowType, Pointers, Sources
<1>7. raw \in RawType /\ raw.sess = Nothing /\ raw.view = Nothing
  <2>1. raw = [msg |-> Nothing, from |-> "app", ret |-> z, back |-> "TXSHOW", sess |-> Nothing,
               view |-> Nothing]
    BY <1>4 DEF WindowsInit
  <2>. QED  BY <1>4, <2>1 DEF RawType, Pointers, Sources
<1>8. /\ batch \in BatchType /\ batch.msg = Nothing /\ batch.items = << >> /\ batch.state = "LIST"
      /\ ItemSet = {}
  <2>1. batch = [msg |-> Nothing, items |-> << >>, state |-> "LIST", sess |-> Nothing,
                 code |-> Nothing, done |-> 0]
    BY DEF WindowsInit
  <2>2. PICK zero \in Nat : zero = 0
    OBVIOUS
  <2>3. batch = [msg |-> Nothing, items |-> << >>, state |-> "LIST", sess |-> Nothing,
                 code |-> Nothing, done |-> zero]
    BY <2>1, <2>2
  <2>. QED  BY <2>2, <2>3 DEF BatchType, Pointers, ItemSet, ToSet
<1>9. cur \notin Four /\ ~Showing /\ ~Batching /\ ~RawOf("TXSHOW") /\ ~RawOf("BATCH_SIGN")
  BY <1>1 DEF Four, Showing, Batching, RawOf
<1>10. QueueShape /\ WindowTypes
  BY <1>2, <1>3, <1>5, <1>6, <1>7, <1>8 DEF QueueShape, WindowTypes, Pointers
<1>11. Owned
  BY <1>3, <1>5, <1>6, <1>8, CellsOnly DEF Owned, OfHistory
<1>12. VerifyFlow /\ ShowFlow
  BY <1>1, <1>2, <1>5, <1>6, <1>9 DEF VerifyFlow, ShowFlow
<1>13. RawFlow /\ BatchFlow
  BY <1>1, <1>2, <1>3, <1>8, <1>9 DEF RawFlow, BatchFlow
<1>14. AnswerFlow /\ Untouched /\ SourceFlow
  BY <1>1, <1>3, <1>5, <1>6, <1>7, <1>8, <1>9 DEF AnswerFlow, Untouched, SourceFlow
<1>. QED  BY <1>10, <1>11, <1>12, <1>13, <1>14 DEF WindowsInv

\* Every step of the windows of a request
LEMMA WindowsStep ==
  ASSUME WindowsInv, WindowsNext
  PROVE  WindowsInv'
<1>1. CASE Posted \/ Plain \/ VerifyResume \/ VerifyPause \/ VerifyCancel \/ VerifyDetails
  BY <1>1, PostedKeeps, PlainKeeps, VerifyResumeKeeps, VerifyPauseKeeps, VerifyCancelKeeps,
     VerifyDetailsKeeps
<1>2. CASE ShowResume \/ ShowPause \/ ShowScroll \/ ShowBack \/ ShowRaw
  BY <1>2, ShowResumeKeeps, ShowPauseKeeps, ShowScrollKeeps, ShowBackKeeps, ShowRawKeeps
<1>3. CASE RawResume \/ RawPause \/ RawBack
  BY <1>3, RawResumeKeeps, RawPauseKeeps, RawBackKeeps
<1>4. CASE SignKey \/ PinEntered \/ AnswerClosed \/ ErrorClosed
  BY <1>4, SignKeyKeeps, PinEnteredKeeps, AnswerClosedKeeps, ErrorClosedKeeps
<1>5. CASE BatchResume \/ BatchPause \/ BatchCancel \/ BatchSelect \/ BatchBack \/ BatchRaw
  BY <1>5, BatchResumeKeeps, BatchPauseKeeps, BatchCancelKeeps, BatchSelectKeeps, BatchBackKeeps,
     BatchRawKeeps
<1>6. CASE \E i \in Items : BatchDetail(i)
  BY <1>6, BatchDetailKeeps
<1>7. CASE BatchKey \/ BatchPin \/ BatchItem \/ BatchAnswer \/ BatchEnds
  BY <1>7, BatchKeyKeeps, BatchPinKeeps, BatchItemKeeps, BatchAnswerKeeps, BatchEndsKeeps
<1>8. CASE HistoryResume \/ HistorySelect \/ HistoryTips \/ HistoryAgain
  BY <1>8, HistoryResumeKeeps, HistorySelectKeeps, HistoryTipsKeeps, HistoryAgainKeeps
<1>9. CASE \E c \in txs : HistoryClick(c)
  BY <1>9, HistoryClickKeeps
<1>. QED  BY <1>1, <1>2, <1>3, <1>4, <1>5, <1>6, <1>7, <1>8, <1>9 DEF WindowsNext

\* Their dialogs are their own.
LEMMA OwnDialogs ==
  ASSUME WindowsNext
  PROVE  modal \in {"none", "select", "tips"} \cup RequestLoops
BY DEF WindowsNext, Posted, Plain, VerifyResume, VerifyPause, VerifyCancel, VerifyDetails,
       ShowResume, ShowPause, ShowScroll, ShowBack, ShowRaw, RawResume, RawPause, RawBack,
       SignKey, PinEntered, AnswerClosed, ErrorClosed, BatchResume, BatchPause, BatchCancel,
       BatchSelect, BatchBack, BatchRaw, BatchDetail, BatchKey, BatchPin, BatchItem,
       BatchAnswer, BatchEnds, HistoryResume, HistorySelect, HistoryTips, HistoryAgain,
       HistoryClick, Handles, Idle, RequestLoops

-----------------------------------------------------------------------------
(* What the windows promise follows from the invariant.                     *)

LEMMA IdleIsStill ==
  ASSUME Idle
  PROVE  Phase = "still" /\ ~Coming /\ modal = "none"
BY PhaseType DEF Idle, Coming

LEMMA InvSignsLast == WindowsInv => SignsLastScanned
<1> SUFFICES ASSUME WindowsInv, answer # Nothing, answer.by # "BATCH_SIGN"
             PROVE  /\ answer.of = <<Message>> /\ Message = last /\ Live(last)
                    /\ verify.msg = last /\ ~Refuses(heap[last])
  BY DEF SignsLastScanned
<1>1. /\ modal = "answer" /\ answer.by = cur /\ cur # "BATCH_SIGN" /\ answer.of = <<Session>>
      /\ VerifyOk \/ ShowOk \/ RawOk
  BY DEF WindowsInv, AnswerFlow
<1>2. CASE VerifyOk
  <2>1. cur = "TX_VERIFY_CODE" /\ verify.ret = 0
    BY <1>2 DEF VerifyOk
  <2>2. Session = verify.sess /\ Message = verify.msg
    BY <2>1 DEF Session, Message
  <2>3. verify.msg = last /\ Live(last) /\ verify.sess = verify.msg
    BY <2>1 DEF WindowsInv, VerifyFlow
  <2>. QED  BY <1>1, <2>1, <2>2, <2>3, CellsOnly DEF WindowsInv, VerifyFlow, Live
<1>3. CASE ShowOk
  <2>1. cur = "TXSHOW" /\ show.ret = 0 /\ show.from = "app" /\ Showing
    BY <1>3 DEF ShowOk, Showing
  <2>2. Session = show.sess /\ Message = show.msg
    BY <2>1 DEF Session, Message
  <2>. QED  BY <1>1, <2>1, <2>2 DEF WindowsInv, VerifyFlow, ShowFlow
<1>4. CASE RawOk
  <2>1. cur = "TX_RAW_DATA" /\ raw.ret = 0 /\ raw.from = "app"
    BY <1>4 DEF RawOk
  <2>2. Session = raw.sess /\ Message = raw.msg
    BY <2>1 DEF Session, Message
  <2>3. raw.back # "BATCH_SIGN"
    BY <2>1 DEF WindowsInv, RawFlow, RawOf
  <2>4. RawOf("TXSHOW") /\ Showing
    BY <2>1, <2>3 DEF WindowsInv, WindowTypes, RawType, RawOf, Showing
  <2>5. raw.msg = show.msg /\ show.from = "app"
    BY <2>1, <2>4 DEF WindowsInv, ShowFlow
  <2>. QED  BY <1>1, <2>1, <2>2, <2>4, <2>5 DEF WindowsInv, VerifyFlow, RawFlow
<1>. QED  BY <1>1, <1>2, <1>3, <1>4

LEMMA InvBatchWhole == WindowsInv => BatchAllOrNone
<1> SUFFICES ASSUME WindowsInv, answer # Nothing, answer.by = "BATCH_SIGN"
             PROVE  /\ batch.msg = last
                    /\ [i \in DOMAIN answer.of |-> heap[answer.of[i]]] = heap[batch.msg].items
                    /\ \A i \in DOMAIN answer.of : ~Refuses(heap[answer.of[i]])
  BY DEF BatchAllOrNone
<1>1. /\ modal = "answer" /\ cur = "BATCH_SIGN" /\ answer.of = batch.items
      /\ \A i \in DOMAIN batch.items : ~Refuses(heap[batch.items[i]])
  BY DEF WindowsInv, AnswerFlow
<1>2. Phase = "still" /\ Batching
  BY <1>1 DEF WindowsInv, QueueShape, Batching
<1>3. Parsed /\ batch.msg = last /\ batch.msg # Nothing
  BY <1>1, <1>2, FrontIsLive, CellsOnly DEF WindowsInv, BatchFlow, Live
<1>4. heap[batch.msg].items \in Seq(Classes)
  BY <1>3, ClassesAssumption DEF WindowsInv, Owned
<1>5. batch.items \in Seq(Messages)
  BY DEF WindowsInv, WindowTypes, BatchType
<1>6. [i \in DOMAIN batch.items |-> heap[batch.items[i]]] = heap[batch.msg].items
  <2>. DEFINE s == heap[batch.msg].items
  <2>. HIDE DEF s
  <2>1. s \in Seq(Classes) /\ Len(batch.items) = Len(s)
    BY <1>3, <1>4 DEF Parsed, s
  <2>2. \A i \in DOMAIN batch.items : heap[batch.items[i]] = s[i]
    BY <1>3 DEF Parsed, s
  <2>3. DOMAIN batch.items = DOMAIN s /\ s = [i \in DOMAIN s |-> s[i]]
    BY <1>5, <2>1
  <2>4. [i \in DOMAIN batch.items |-> heap[batch.items[i]]] = s
    BY <2>2, <2>3
  <2>. QED  BY <2>4 DEF s
<1>. QED  BY <1>1, <1>3, <1>6

LEMMA InvOwned == WindowsInv => MessagesOwned
<1> SUFFICES ASSUME WindowsInv PROVE MessagesOwned
  OBVIOUS
<1>1. {m \in Messages : heap[m] # Nothing} = Owners \ {Nothing}
  <2>1. /\ verify.msg \in Messages \cup {Nothing} /\ batch.msg \in Messages \cup {Nothing}
        /\ show.from = "history" => show.msg \in Messages \cup {Nothing}
    BY DEF WindowsInv, WindowTypes, Owned, VerifyType, BatchType, ShowType, Pointers
  <2>2. ItemSet \subseteq Messages
    BY DEF WindowsInv, WindowTypes, BatchType, ItemSet, ToSet
  <2>3. \A m : m \in Owners <=> m = verify.msg \/ m = batch.msg \/ m \in ItemSet \/ OfHistory(m)
    BY DEF Owners, ItemSet, OfHistory
  <2>4. Owners \subseteq Messages \cup {Nothing}
    BY <2>1, <2>2, <2>3 DEF OfHistory
  <2>5. \A m \in Messages : heap[m] # Nothing <=> m \in Owners
    BY <2>3 DEF WindowsInv, Owned
  <2>. QED  BY <2>4, <2>5, CellsOnly
<1>2. cur = "TXSHOW" => Live(show.msg)
  BY FrontIsLive
<1>3. cur = "TX_RAW_DATA" => Live(raw.msg)
  BY FrontIsLive
<1>4. show.from = "app" /\ show.sess # Nothing => show.sess \in {verify.msg, Gone}
  BY DEF WindowsInv, ShowFlow
<1>. QED  BY <1>1, <1>2, <1>3, <1>4 DEF MessagesOwned

LEMMA InvCode == WindowsInv => CodeIsOfRequest
<1>1. ASSUME WindowsInv, Idle, cur = "TX_VERIFY_CODE"
      PROVE  /\ verify.ret = 0 <=> ~Refuses(heap[verify.msg])
             /\ verify.code = verify.msg <=> verify.ret = 0 /\ HasCode(heap[verify.msg].head)
  <2>1. verify.msg # Nothing /\ ~Coming
    BY <1>1, FrontIsLive, IdleIsStill, CellsOnly DEF Live
  <2>. QED  BY <1>1, <2>1 DEF WindowsInv, VerifyFlow
<1>2. ASSUME WindowsInv, Idle, cur = "BATCH_SIGN"
      PROVE  batch.code = batch.msg /\ Len(batch.items) = Len(heap[batch.msg].items)
  BY <1>2, IdleIsStill DEF WindowsInv, BatchFlow, Parsed
<1>. QED  BY <1>1, <1>2 DEF CodeIsOfRequest

LEMMA InvSource == WindowsInv => SourceTold
BY DEF WindowsInv, SourceFlow, SourceTold, Showing

=============================================================================
