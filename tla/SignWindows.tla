----------------------------- MODULE SignWindows ------------------------------
(***************************************************************************)
(* The windows of a request: TxVerifyCodeWin, TxShowWin, TxRawDataWin,      *)
(* BatchSignWin and SignHistoryWin, as the GUI thread runs them.  A window  *)
(* is kept when it is left (isHold), with its pointers and its session.  A  *)
(* change of windows queues onPause of the one and onResume of the other    *)
(* (MSG_SHOWWINDOW is a notification); sendMessage runs at once.            *)
(*                                                                         *)
(* A message is a cell of the heap with the class of request in it: whether *)
(* it can be processed, what its view returns, how many screens its page    *)
(* has, whether TxGetVerifyCode finds a code and whether the view names the *)
(* coin the history needs.                                                  *)
(***************************************************************************)
EXTENDS Integers, Sequences, FiniteSets, SequencesExt

CONSTANTS Messages,   \* the cells of the heap
          Gone,       \* what a pointer to a deleted message becomes
          Nothing, Classes, Batches,
          MaxRows     \* bound: kinds of rows the history keeps

\* What is in the members of the windows besides pointers
Marks == {"app", "history", "LIST", "SELECT", "DETAIL", "SIGNING"}
         \cup {"TX_VERIFY_CODE", "TXSHOW", "TX_RAW_DATA", "BATCH_SIGN"}

ASSUME PointersAssumption ==
  /\ IsFiniteSet(Messages)
  /\ Gone # Nothing /\ {Gone, Nothing} \cap Messages = {}
  /\ (Messages \cup {Gone, Nothing}) \cap (Marks \cup Int \cup BOOLEAN) = {}

ASSUME ClassesAssumption ==
  /\ Nothing \notin Classes \cup Batches
  /\ \A c \in Classes : c.ret \in Int
  /\ \A b \in Batches : b.items \in Seq(Classes)

VARIABLES
  cur,      \* mCurWindowID
  todo,     \* notifications the GUI thread has not handled yet
  modal,    \* the loop the GUI thread is in: "none", "pin", "error", "leave"
            \* (a dialog that posts MSG_CHANGE_WINDOW when closed), "answer"
            \* (showQRWindow), "signing", "fail", "select", "tips"
  heap,     \* the class of a message that is allocated
  verify, show, raw, batch,   \* the members of the windows
  history,  \* mCoinType of SignHistoryWin: 0 or a kind of rows
  txs,     \* the transactions table
  answer,   \* what the codes on the screen are the signatures of
  last,     \* the message scanned last
  odd       \* TxShowWin or TxRawDataWin was given a request it cannot process

wvars == <<cur, todo, modal, heap, verify, show, raw, batch, history, txs, answer, last, odd>>

Live(m) == m \in Messages /\ heap[m] # Nothing

Call(call, w) == [call |-> call, win |-> w]

WindowsInit ==
  /\ cur \in {"MAINPANEL", "GUIDE"} /\ todo = <<Call("resume", cur)>> /\ modal = "none"
  /\ heap = [m \in Messages |-> Nothing]
  /\ verify = [msg |-> Nothing, ret |-> -1, details |-> FALSE, sess |-> Nothing, code |-> Nothing]
  /\ show = [msg |-> Nothing, from |-> "app", ret |-> -1, raw |-> FALSE, sess |-> Nothing,
             view |-> Nothing, at |-> 1]
  /\ raw = [msg |-> Nothing, from |-> "app", ret |-> -1, back |-> "TXSHOW", sess |-> Nothing,
            view |-> Nothing]
  /\ batch = [msg |-> Nothing, items |-> << >>, state |-> "LIST", sess |-> Nothing,
              code |-> Nothing, done |-> 0]
  /\ history = "none" /\ txs = {} /\ answer = Nothing /\ last = Nothing /\ odd = FALSE

\* proto_client_message_delete of a set of messages: every pointer to one of them,
\* in whichever window, dangles from now on.
Free == {m \in Messages : heap[m] = Nothing}
Fresh == CHOOSE m \in Free : TRUE
Freed(dead) == [m \in Messages |-> IF m \in dead THEN Nothing ELSE heap[m]]
Dangles(win, dead) == [f \in DOMAIN win |-> IF win[f] \in dead THEN Gone ELSE win[f]]

Idle == todo = << >> /\ modal = "none"

-----------------------------------------------------------------------------
(* GuiMain::changeWindow, and the queue                                     *)

ChangeWindow(w) ==
  /\ cur' = w
  /\ todo' = IF cur = w THEN todo ELSE todo \o <<Call("pause", cur), Call("resume", w)>>

Handles(call, w) == /\ modal = "none" /\ todo # << >> /\ Head(todo) = Call(call, w)
                  /\ todo' = Tail(todo) /\ UNCHANGED cur

Posted == /\ modal = "none" /\ todo # << >> /\ Head(todo).call = "change"
          /\ LET w == Head(todo).win
             IN  /\ cur' = w
                 /\ todo' = Tail(todo) \o IF cur = w THEN << >>
                                          ELSE <<Call("pause", cur), Call("resume", w)>>
          /\ UNCHANGED <<modal, heap, verify, show, raw, batch, history, txs, answer, last, odd>>

\* Windows without a handler that matters here
Plain == /\ modal = "none" /\ todo # << >>
         /\ Head(todo).win \in {"MAINPANEL", "SCAN"} \/ Head(todo) = Call("pause", "SIGN_HISTORY")
         /\ Head(todo).call # "change"
         /\ todo' = Tail(todo)
         /\ UNCHANGED <<cur, modal, heap, verify, show, raw, batch, history, txs, answer, last, odd>>

-----------------------------------------------------------------------------
(* tx_common.c: the code the phone shows for the same message               *)

\* GetExtHeaderLen: six bytes of time, then 'z', a length of one or two bytes and
\* the header itself; eleven bytes at least
HeaderLen(h) ==
  LET time == IF h.time THEN 6 ELSE 0
      full == time + 1 + (IF h.low < 128 THEN 1 ELSE 2) + h.low
  IN  IF h.len < time THEN -1
      ELSE IF ~h.ext THEN time
      ELSE IF h.len < time + 11 THEN -2
      ELSE IF ~h.magic THEN -3
      ELSE IF h.low >= 16384 THEN -4
      ELSE IF h.len < full THEN -5 ELSE full

\* TxGetVerifyCode: of this device, this client and the account it is for, over
\* the data behind the headers
VerifyCode(h) ==
  IF ~h.sn THEN -10 ELSE IF ~h.client THEN -11 ELSE IF ~h.account THEN -12
  ELSE IF HeaderLen(h) < 0 THEN -13 ELSE 1

HasCode(h) == VerifyCode(h) >= 0

-----------------------------------------------------------------------------
(* freeWinData and initDView: a session that was never opened keeps the view *)

\* A view that stays behind
ClosedHalf(win) == IF win.sess = Nothing THEN win ELSE [win EXCEPT !.sess = Nothing]

Closed(win) == IF win.sess = Nothing THEN win
               ELSE IF "view" \in DOMAIN win THEN [win EXCEPT !.sess = Nothing, !.view = Nothing]
               ELSE [win EXCEPT !.sess = Nothing]

Viewing(win) == IF win.view = Nothing THEN [win EXCEPT !.view = win.from] ELSE win

\* onSignReqData of the three windows; only TxVerifyCodeWin owns what it is given.
VerifyTakes(m, dead) ==
  verify' = [Dangles(Closed(verify), dead) EXCEPT !.ret = -1, !.details = FALSE, !.msg = m]

ShowTakes(m, from) ==
  show' = Viewing([Closed(show) EXCEPT !.ret = -1, !.raw = FALSE, !.msg = m, !.from = from])

\* What the view answered last time stays.
RawTakesKeeping(m, from, back) ==
  raw' = Viewing([Closed(raw) EXCEPT !.msg = m, !.from = from, !.back = back])

RawTakes(m, from, back) ==
  raw' = Viewing([Closed(raw) EXCEPT !.ret = -1, !.msg = m, !.from = from, !.back = back])

-----------------------------------------------------------------------------
(* GuiMain::onQrResult: the windows are told before they are shown          *)

Scan == /\ Idle /\ cur = "MAINPANEL" /\ ChangeWindow("SCAN")
        /\ UNCHANGED <<modal, heap, verify, show, raw, batch, history, txs, answer, last, odd>>

\* A request for a signature
ScanSingle(c) ==
  /\ Idle /\ cur = "SCAN" /\ Free # {}
  /\ LET dead == {verify.msg} \ {Nothing}
     IN  /\ heap' = [Freed(dead) EXCEPT ![Fresh] = c]
         /\ VerifyTakes(Fresh, dead)
         /\ show' = Dangles(show, dead) /\ raw' = Dangles(raw, dead)
  /\ last' = Fresh
  /\ ChangeWindow("TX_VERIFY_CODE")
  /\ UNCHANGED <<modal, batch, history, txs, answer, odd>>

\* freeAllTx, then the old batch itself: none is left when the window was paused.
ScanBatch(c) ==
  /\ Idle /\ cur = "SCAN" /\ Free # {}
  /\ LET dead == (ToSet(batch.items) \cup {batch.msg}) \ {Nothing}
     IN  /\ heap' = [Freed(dead) EXCEPT ![Fresh] = c]
         /\ batch' = [Dangles(batch, dead) EXCEPT !.items = << >>, !.sess = Nothing, !.msg = Fresh]
         /\ raw' = Dangles(raw, dead)
  /\ last' = Fresh
  /\ ChangeWindow("BATCH_SIGN")
  /\ UNCHANGED <<modal, verify, show, history, txs, answer, odd>>

\* To the window it was opened from
ScanLeft(w) == /\ Idle /\ cur = "SCAN" /\ ChangeWindow(w)
               /\ UNCHANGED <<modal, heap, verify, show, raw, batch, history, txs, answer, last, odd>>

-----------------------------------------------------------------------------
(* TxVerifyCodeWin                                                          *)

\* The code is made once.
VerifyOpensOnce ==
  LET c == heap[verify.msg]
      v == Closed(verify)
  IN  IF ~c.decodes THEN /\ verify' = v /\ modal' = "error"
      ELSE IF c.ret # 0 THEN /\ verify' = [v EXCEPT !.ret = c.ret] /\ modal' = "leave"
      ELSE /\ verify' = [v EXCEPT !.ret = 0, !.sess = verify.msg,
                                  !.code = IF HasCode(c.head) /\ @ = Nothing THEN verify.msg ELSE @]
           /\ modal' = IF HasCode(c.head) THEN "none" ELSE "error"

VerifyOpens ==
  LET c == heap[verify.msg]
      v == Closed(verify)
  IN  IF ~c.decodes THEN /\ verify' = v /\ modal' = "error"
      ELSE IF c.ret # 0 THEN /\ verify' = [v EXCEPT !.ret = c.ret] /\ modal' = "leave"
      ELSE /\ verify' = [v EXCEPT !.ret = 0, !.sess = verify.msg,
                                  !.code = IF HasCode(c.head) THEN verify.msg ELSE @]
           /\ modal' = IF HasCode(c.head) THEN "none" ELSE "error"

VerifyResume ==
  /\ Handles("resume", "TX_VERIFY_CODE")
  /\ IF verify.msg = Nothing THEN UNCHANGED <<verify, modal>>
     ELSE IF verify.details THEN verify' = [verify EXCEPT !.details = FALSE] /\ UNCHANGED modal
     ELSE VerifyOpens
  /\ UNCHANGED <<heap, show, raw, batch, history, txs, answer, last, odd>>

VerifyPause ==
  /\ Handles("pause", "TX_VERIFY_CODE")
  /\ IF verify.details THEN UNCHANGED <<verify, show, raw, last, heap>>
     ELSE /\ verify' = [Dangles(Closed(verify), {verify.msg}) EXCEPT !.msg = Nothing]
          /\ show' = Dangles(show, {verify.msg} \ {Nothing})
          /\ raw' = Dangles(raw, {verify.msg} \ {Nothing})
          /\ last' = IF last = verify.msg THEN Gone ELSE last
          /\ heap' = Freed({verify.msg})
  /\ UNCHANGED <<modal, batch, history, txs, answer, odd>>

VerifyCancel ==
  /\ Idle /\ cur = "TX_VERIFY_CODE" /\ ChangeWindow("MAINPANEL")
  /\ UNCHANGED <<modal, heap, verify, show, raw, batch, history, txs, answer, last, odd>>

VerifyDetails ==
  /\ Idle /\ cur = "TX_VERIFY_CODE"
  /\ verify' = [verify EXCEPT !.details = TRUE]
  /\ ShowTakes(verify.msg, "app")
  /\ ChangeWindow("TXSHOW")
  /\ UNCHANGED <<modal, heap, raw, batch, history, txs, answer, last, odd>>

VerifyOk == cur = "TX_VERIFY_CODE" /\ verify.ret = 0

-----------------------------------------------------------------------------
(* TxShowWin: pages are scrolled by whole screens                           *)

Opens(win) ==
  LET c == heap[win.msg]
      o == Viewing(Closed(win))
  IN  IF ~c.decodes THEN o ELSE [o EXCEPT !.ret = c.ret, !.sess = win.msg]

Refuses(c) == ~c.decodes \/ c.ret # 0

ShowResume ==
  /\ Handles("resume", "TXSHOW")
  /\ IF show.msg = Nothing THEN UNCHANGED <<show, modal, odd>>
     ELSE IF show.raw THEN show' = [show EXCEPT !.raw = FALSE] /\ UNCHANGED <<modal, odd>>
     ELSE /\ show' = [Opens(show) EXCEPT !.at = 1]
          /\ modal' = IF Refuses(heap[show.msg]) THEN "error" ELSE "none"
          /\ odd' = (odd \/ ~heap[show.msg].decodes)
  /\ UNCHANGED <<heap, verify, raw, batch, history, txs, answer, last>>

\* The message of the history is kept.
ShowPauseKeeping ==
  /\ Handles("pause", "TXSHOW")
  /\ show' = IF show.raw THEN show ELSE Closed(show)
  /\ UNCHANGED <<modal, heap, verify, raw, batch, history, txs, answer, last, odd>>

ShowPause ==
  /\ Handles("pause", "TXSHOW")
  /\ LET own == ~show.raw /\ show.from = "history"
     IN  /\ show' = IF show.raw THEN show
                    ELSE [Closed(show) EXCEPT !.msg = IF own THEN Nothing ELSE @]
         /\ raw' = IF own THEN Dangles(raw, {show.msg} \ {Nothing}) ELSE raw
         /\ heap' = IF own THEN Freed({show.msg}) ELSE heap
  /\ UNCHANGED <<modal, verify, batch, history, txs, answer, last, odd>>

ShowScroll ==
  /\ Idle /\ cur = "TXSHOW" /\ show.ret = 0
  /\ \E d \in {-1, 1} : /\ show.at + d \in 1..heap[show.msg].pages
                        /\ show' = [show EXCEPT !.at = @ + d]
  /\ UNCHANGED <<cur, todo, modal, heap, verify, raw, batch, history, txs, answer, last, odd>>

ShowBack ==
  /\ Idle /\ cur = "TXSHOW"
  /\ ChangeWindow(IF show.from = "history" THEN "SIGN_HISTORY" ELSE "TX_VERIFY_CODE")
  /\ UNCHANGED <<modal, heap, verify, show, raw, batch, history, txs, answer, last, odd>>

ShowRaw ==
  /\ Idle /\ cur = "TXSHOW"
  /\ show' = [show EXCEPT !.raw = TRUE]
  /\ RawTakes(show.msg, show.from, "TXSHOW")
  /\ ChangeWindow("TX_RAW_DATA")
  /\ UNCHANGED <<modal, heap, verify, batch, history, txs, answer, last, odd>>

ShowOk == /\ cur = "TXSHOW" /\ show.ret = 0 /\ show.from = "app"
          /\ show.at = heap[show.msg].pages

-----------------------------------------------------------------------------
(* TxRawDataWin: the whole message in hex, seven segments at most           *)

FirstSegment == 200
RestSegment == 289
MaxSegments == 7

\* splitString: the number of segments of a text of n characters
Segments(n) ==
  IF n = 0 THEN -11 ELSE IF n <= FirstSegment THEN 1
  ELSE LET rest == (n - FirstSegment + RestSegment - 1) \div RestSegment
       IN  IF 1 + rest > MaxSegments THEN MaxSegments ELSE 1 + rest

\* The window has a session but no view of its own while it shows the data.
RawResume ==
  /\ Handles("resume", "TX_RAW_DATA")
  /\ IF raw.msg = Nothing THEN UNCHANGED <<raw, modal, odd>>
     ELSE LET c == heap[raw.msg]
          IN  /\ raw' = Opens(raw)
              /\ modal' = IF Refuses(c) \/ Segments(c.hex) < 1 THEN "error" ELSE "none"
              /\ odd' = (odd \/ ~c.decodes)
  /\ UNCHANGED <<heap, verify, show, batch, history, txs, answer, last>>

RawPause ==
  /\ Handles("pause", "TX_RAW_DATA")
  /\ raw' = Closed(raw)
  /\ UNCHANGED <<modal, heap, verify, show, batch, history, txs, answer, last, odd>>

RawBack ==
  /\ Idle /\ cur = "TX_RAW_DATA" /\ ChangeWindow(raw.back)
  /\ UNCHANGED <<modal, heap, verify, show, raw, batch, history, txs, answer, last, odd>>

RawOk == cur = "TX_RAW_DATA" /\ raw.ret = 0 /\ raw.from = "app"

-----------------------------------------------------------------------------
(* doSignReq of the three windows: the PIN, onSign of the window's session, *)
(* the codes, the history, the main window                                  *)

Session == CASE cur = "TX_VERIFY_CODE" -> verify.sess
             [] cur = "TXSHOW" -> show.sess
             [] cur = "TX_RAW_DATA" -> raw.sess
Message == CASE cur = "TX_VERIFY_CODE" -> verify.msg
             [] cur = "TXSHOW" -> show.msg
             [] cur = "TX_RAW_DATA" -> raw.msg

SignKey == /\ Idle /\ (VerifyOk \/ ShowOk \/ RawOk)
           /\ modal' = "pin"
           /\ UNCHANGED <<cur, todo, heap, verify, show, raw, batch, history, txs, answer, last, odd>>

PinEntered ==
  /\ modal = "pin" /\ cur # "BATCH_SIGN"
  /\ \/ modal' = "none" /\ UNCHANGED answer
     \/ modal' = "error" /\ UNCHANGED answer
     \/ modal' = "answer" /\ answer' = [of |-> <<Session>>, by |-> cur]
  /\ UNCHANGED <<cur, todo, heap, verify, show, raw, batch, history, txs, last, odd>>

\* tx_save_history of a page that names a coin
Kept(m) == IF heap[m].kept /\ Cardinality(txs) < MaxRows THEN txs \cup {heap[m]} ELSE txs

AnswerClosed ==
  /\ modal = "answer" /\ cur # "BATCH_SIGN"
  /\ answer' = Nothing
  /\ \/ /\ modal' = "none" /\ txs' = Kept(Message) /\ ChangeWindow("MAINPANEL")
     \/ /\ modal' = "error" /\ UNCHANGED <<txs, cur, todo>>
  /\ UNCHANGED <<heap, verify, show, raw, batch, history, last, odd>>

ErrorClosed ==
  /\ modal \in {"error", "leave"}
  /\ modal' = "none"
  /\ todo' = IF modal = "leave" THEN Append(todo, Call("change", "MAINPANEL")) ELSE todo
  /\ UNCHANGED <<cur, heap, verify, show, raw, batch, history, txs, answer, last, odd>>
-----------------------------------------------------------------------------
(* BatchSignWin: a list, the selected item, its page, or the signing        *)

Items == DOMAIN batch.items

\* parseBatchMessage: a message of its own for every item
BatchParses ==
  LET c == heap[batch.msg]
      s == SubSeq(SetToSeq(Free), 1, Len(c.items))
  IN  /\ heap' = [m \in Messages |-> IF m \in ToSet(s) THEN c.items[CHOOSE i \in DOMAIN s : s[i] = m]
                                     ELSE heap[m]]
      /\ batch' = [batch EXCEPT !.sess = Nothing, !.state = "LIST", !.items = s,
                                !.code = IF HasCode(c.head) THEN batch.msg ELSE @]
      /\ modal' = IF HasCode(c.head) THEN "none" ELSE "leave"

BatchResume ==
  /\ Handles("resume", "BATCH_SIGN")
  /\ IF batch.msg = Nothing \/ batch.state = "DETAIL" THEN UNCHANGED <<batch, heap, modal>>
     ELSE IF ~heap[batch.msg].parses
     THEN /\ batch' = [batch EXCEPT !.sess = Nothing, !.state = "LIST"]
          /\ modal' = "leave" /\ UNCHANGED heap
     ELSE Len(heap[batch.msg].items) <= Cardinality(Free) /\ BatchParses
  /\ UNCHANGED <<verify, show, raw, history, txs, answer, last, odd>>

BatchPause ==
  /\ Handles("pause", "BATCH_SIGN")
  /\ IF batch.state = "DETAIL" THEN UNCHANGED <<batch, heap, raw, last>>
     ELSE LET dead == (ToSet(batch.items) \cup {batch.msg}) \ {Nothing}
          IN  /\ batch' = [Dangles(batch, dead) EXCEPT !.items = << >>, !.msg = Nothing, !.sess = Nothing]
              /\ raw' = Dangles(raw, dead)
              /\ last' = IF last \in dead THEN Gone ELSE last
              /\ heap' = Freed(dead)
  /\ UNCHANGED <<modal, verify, show, history, txs, answer, odd>>

BatchCancel ==
  /\ Idle /\ cur = "BATCH_SIGN" /\ batch.state = "LIST" /\ ChangeWindow("MAINPANEL")
  /\ UNCHANGED <<modal, heap, verify, show, raw, batch, history, txs, answer, last, odd>>

\* Keys between the list and its selection
BatchSelect ==
  /\ Idle /\ cur = "BATCH_SIGN" /\ batch.state \in {"LIST", "SELECT"}
  /\ batch' = [batch EXCEPT !.state = IF @ = "LIST" THEN "SELECT" ELSE "LIST"]
  /\ UNCHANGED <<cur, todo, modal, heap, verify, show, raw, history, txs, answer, last, odd>>

\* showDetailView: an item without a page is not entered, its session stays open
BatchDetail(i) ==
  /\ Idle /\ cur = "BATCH_SIGN" /\ batch.state = "SELECT" /\ i \in Items
  /\ IF Refuses(heap[batch.items[i]])
     THEN /\ batch' = [batch EXCEPT !.sess = IF heap[batch.items[i]].decodes THEN batch.items[i]
                                             ELSE Nothing]
          /\ modal' = "error"
     ELSE /\ batch' = [batch EXCEPT !.state = "DETAIL", !.sess = batch.items[i]]
          /\ UNCHANGED modal
  /\ UNCHANGED <<cur, todo, heap, verify, show, raw, history, txs, answer, last, odd>>

BatchBack ==
  /\ Idle /\ cur = "BATCH_SIGN" /\ batch.state = "DETAIL"
  /\ batch' = [batch EXCEPT !.state = "SELECT", !.sess = Nothing]
  /\ UNCHANGED <<cur, todo, modal, heap, verify, show, raw, history, txs, answer, last, odd>>

\* The data of the item, as of a request of the history
BatchRaw ==
  /\ Idle /\ cur = "BATCH_SIGN" /\ batch.state = "DETAIL"
  /\ RawTakes(batch.sess, "history", "BATCH_SIGN")
  /\ ChangeWindow("TX_RAW_DATA")
  /\ UNCHANGED <<modal, heap, verify, show, batch, history, txs, answer, last, odd>>

\* doSignAll: every key of OK, whatever is shown, asks for the PIN of all
BatchKey ==
  /\ Idle /\ cur = "BATCH_SIGN" /\ batch.state # "SIGNING"
  /\ batch' = [batch EXCEPT !.state = "SIGNING", !.sess = Nothing, !.done = 0]
  /\ modal' = "pin"
  /\ UNCHANGED <<cur, todo, heap, verify, show, raw, history, txs, answer, last, odd>>

BatchPin ==
  /\ modal = "pin" /\ cur = "BATCH_SIGN"
  /\ \/ modal' = "none" /\ batch' = [batch EXCEPT !.state = "LIST"]
     \/ modal' = "signing" /\ UNCHANGED batch
  /\ UNCHANGED <<cur, todo, heap, verify, show, raw, history, txs, answer, last, odd>>

\* An item that fails is left out.
BatchItemSkipping ==
  /\ modal = "signing" /\ batch.done < Len(batch.items)
  /\ LET m == batch.items[batch.done + 1]
     IN  /\ batch' = [batch EXCEPT !.done = @ + 1]
         /\ txs' = IF Refuses(heap[m]) THEN txs ELSE Kept(m)
  /\ UNCHANGED <<cur, todo, modal, heap, verify, show, raw, history, answer, last, odd>>

\* One turn: an item is signed and put into the history at once, or the whole
\* batch fails, the signatures made so far with it.
BatchItem ==
  /\ modal = "signing" /\ batch.done < Len(batch.items)
  /\ LET m == batch.items[batch.done + 1]
     IN  \/ /\ ~Refuses(heap[m])
            /\ batch' = [batch EXCEPT !.done = @ + 1] /\ txs' = Kept(m) /\ UNCHANGED modal
         \/ modal' = "fail" /\ UNCHANGED <<batch, txs>>
  /\ UNCHANGED <<cur, todo, heap, verify, show, raw, history, answer, last, odd>>

BatchAnswer ==
  /\ modal = "signing" /\ batch.done = Len(batch.items)
  /\ modal' = "answer" /\ answer' = [of |-> SubSeq(batch.items, 1, batch.done), by |-> cur]
  /\ UNCHANGED <<cur, todo, heap, verify, show, raw, batch, history, txs, last, odd>>

BatchEnds ==
  /\ modal \in {"answer", "fail"} /\ cur = "BATCH_SIGN"
  /\ modal' = "none" /\ answer' = Nothing /\ ChangeWindow("MAINPANEL")
  /\ UNCHANGED <<heap, verify, show, raw, batch, history, txs, last, odd>>

-----------------------------------------------------------------------------
(* SignHistoryWin: from the main panel, after the kind of rows was selected *)

HistoryKey ==
  /\ Idle /\ cur = "MAINPANEL" /\ history' = "none" /\ ChangeWindow("SIGN_HISTORY")
  /\ UNCHANGED <<modal, heap, verify, show, raw, batch, txs, answer, last, odd>>

HistoryResume ==
  /\ Handles("resume", "SIGN_HISTORY")
  /\ modal' = IF history = "none" THEN "select" ELSE IF txs = {} THEN "tips" ELSE "none"
  /\ UNCHANGED <<heap, verify, show, raw, batch, history, txs, answer, last, odd>>

\* The sheet of kinds and the PIN: the way back is to the main panel.
HistorySelect ==
  /\ modal = "select"
  /\ \/ /\ history' = "kind" /\ modal' = IF txs = {} THEN "tips" ELSE "none"
        /\ UNCHANGED <<cur, todo>>
     \/ modal' = "none" /\ ChangeWindow("MAINPANEL") /\ UNCHANGED history
  /\ UNCHANGED <<heap, verify, show, raw, batch, txs, answer, last, odd>>

\* No rows: select again, in a call of onResume within onResume
HistoryTips ==
  /\ modal = "tips" /\ history' = "none" /\ modal' = "select"
  /\ UNCHANGED <<cur, todo, heap, verify, show, raw, batch, txs, answer, last, odd>>

HistoryAgain ==
  /\ Idle /\ cur = "SIGN_HISTORY" /\ history' = "none" /\ modal' = "select"
  /\ UNCHANGED <<cur, todo, heap, verify, show, raw, batch, txs, answer, last, odd>>

\* onClickTx: the row's message is made anew and belongs to TxShowWin.
HistoryClick(c) ==
  /\ Idle /\ cur = "SIGN_HISTORY" /\ c \in txs /\ Free # {}
  /\ heap' = [heap EXCEPT ![Fresh] = c]
  /\ ShowTakes(Fresh, "history")
  /\ ChangeWindow("TXSHOW")
  /\ UNCHANGED <<modal, verify, raw, batch, history, txs, answer, last, odd>>

-----------------------------------------------------------------------------
WindowsNext ==
  \/ Posted \/ Plain \/ VerifyResume \/ VerifyPause \/ VerifyCancel \/ VerifyDetails
  \/ ShowResume \/ ShowPause \/ ShowScroll \/ ShowBack \/ ShowRaw
  \/ RawResume \/ RawPause \/ RawBack
  \/ SignKey \/ PinEntered \/ AnswerClosed \/ ErrorClosed
  \/ BatchResume \/ BatchPause \/ BatchCancel \/ BatchSelect \/ BatchBack \/ BatchRaw
  \/ \E i \in Items : BatchDetail(i)
  \/ BatchKey \/ BatchPin \/ BatchItem \/ BatchAnswer \/ BatchEnds
  \/ HistoryResume \/ HistorySelect \/ HistoryTips \/ HistoryAgain
  \/ \E c \in txs : HistoryClick(c)

-----------------------------------------------------------------------------
\* What is signed is the message scanned last: on whichever of the three windows
\* OK was pressed, the session that signed, the message the history gets and the
\* message TxVerifyCodeWin owns are the same, and its view accepted it.
SignsLastScanned ==
  answer # Nothing /\ answer.by # "BATCH_SIGN" =>
    /\ answer.of = <<Message>> /\ Message = last /\ Live(last) /\ verify.msg = last
    /\ ~Refuses(heap[last])

\* An answer to a batch has the signatures of all its items, in their order, and
\* none of an item whose view refused it.
BatchAllOrNone ==
  answer # Nothing /\ answer.by = "BATCH_SIGN" =>
    /\ batch.msg = last
    /\ [i \in DOMAIN answer.of |-> heap[answer.of[i]]] = heap[batch.msg].items
    /\ \A i \in DOMAIN answer.of : ~Refuses(heap[answer.of[i]])

\* Every message has one owner as long as it is allocated, and no window that is
\* shown, or will be when the queue is empty, refers to one that was deleted.
Owners ==
  {verify.msg, batch.msg} \cup ToSet(batch.items)
  \cup IF show.from = "history" THEN {show.msg} ELSE {}

MessagesOwned ==
  /\ {m \in Messages : heap[m] # Nothing} = Owners \ {Nothing}
  /\ Idle /\ cur = "TXSHOW" => Live(show.msg)
  /\ Idle /\ cur = "TX_RAW_DATA" => Live(raw.msg)
  /\ Idle /\ cur \in {"TX_VERIFY_CODE", "TXSHOW"} /\ show.from = "app" /\ show.sess # Nothing =>
       show.sess \in {verify.msg, Gone}

\* OK signs in TxVerifyCodeWin exactly if the view accepted the request, and the label has
\* the code of the request exactly if it was accepted and has one.  Of a request without
\* one the label keeps what it had, the code of an earlier request or nothing, and OK signs
\* all the same.  In a batch, which is left in that case, the code is that of the batch.
CodeIsOfRequest ==
  /\ Idle /\ cur = "TX_VERIFY_CODE" =>
       /\ verify.ret = 0 <=> ~Refuses(heap[verify.msg])
       /\ verify.code = verify.msg <=> verify.ret = 0 /\ HasCode(heap[verify.msg].head)
  /\ Idle /\ cur = "BATCH_SIGN" => batch.code = batch.msg /\ Len(batch.items) = Len(heap[batch.msg].items)

\* What TxVerifyCodeWin signs was shown with its own code, as the error of a code that cannot
\* be made asks to try again, and as a batch without a code is given up.
SignedUnderOwnCode ==
  answer # Nothing /\ answer.by = "TX_VERIFY_CODE" => verify.code = verify.msg

\* A view is told where its message comes from, unless a request that could not be
\* processed left its view behind: the next one is then taken to come from there.
SourceTold ==
  /\ Idle /\ cur = "TXSHOW" /\ show.view # show.from => odd
  /\ Idle /\ cur = "TX_RAW_DATA" /\ raw.view # raw.from => odd
=============================================================================
