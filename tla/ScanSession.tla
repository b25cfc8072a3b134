---------------------------- MODULE ScanSession ----------------------------
(***************************************************************************)
(* Scanning QR codes: CameraManager, merge_qr_packet_buffer, the scan      *)
(* window and the change of windows.                                       *)
(*                                                                         *)
(* The camera driver calls onQrResult in a thread of its own, which holds  *)
(* the camera's mutex to its end: also while it sends the GUI thread a     *)
(* message and waits for it.  The GUI thread takes the same mutex to show  *)
(* the progress and to stop and start the preview around an error dialog.  *)
(* Changes of the window start and stop the preview through the message    *)
(* loop, which keeps their order (MsgOutbox).                              *)
(***************************************************************************)
EXTENDS Integers, Sequences, FiniteSets

CONSTANTS
  Transfers,   \* what a phone shows, each as a series of chunks
  Total,       \* Total[t]: the number of its chunks
  Header,      \* Header[t]: client, type and total, what merging compares
  Paired,      \* the headers of clients whose key is known
  Text,        \* a QR code that is not one of the protocol's
  Bad,         \* one whose decoding fails
  None,
  MaxFrames,   \* bound on the QR codes decoded
  MaxKeys,     \* bound on the keys and screen-offs
  Shuts        \* whether shutdownLoop shuts the device down

ASSUME ConstantsAssumption ==
  /\ Total \in [Transfers -> 1 .. 256]    \* longer ones are refused
  /\ \A s, t \in Transfers : Header[s] = Header[t] => Total[s] = Total[t]
  /\ {Text, Bad, None} \cap (Transfers \cup {Header[t] : t \in Transfers}) = {}
  /\ None # "cam" /\ None # Text
  /\ {Text, Bad} \cap (Transfers \X (0 .. 255)) = {}
  /\ MaxFrames \in Nat /\ MaxKeys \in Nat /\ Shuts \in BOOLEAN

Index == 0 .. 255    \* MAX_QR_BUFFER_SIZE
Slots == {i \in Index : \E t \in Transfers : i < Total[t]}
Heads == {Header[t] : t \in Transfers}
Frames == (UNION {{<<t, i>> : i \in 0 .. Total[t] - 1} : t \in Transfers}) \cup {Text, Bad}

\* p_total of a merged packet.
TotalOf(h) ==
  CASE h = None -> 0 [] h = Text -> 1
    [] OTHER -> Total[CHOOSE t \in Transfers : Header[t] = h]

VARIABLES
  lock,      \* mLock
  preview,   \* the adapter shows the camera's picture
  enabled,   \* mQrEnable
  last,      \* mLastQrResult
  buf,       \* mQrBuffer: its header and chunks
  res,       \* mQrResult: its header and data
  cpc, frame,   \* the camera thread: where it is, and its QR code
  gpc, to,      \* the GUI thread: where it is, and the window it changes to
  win,       \* mCurWindowID
  dialogs,   \* error dialogs open, one over the other
  guiq,      \* notifications for the scan window
  posts,     \* preview messages for the message loop
  message,   \* mMessage of the window that handles requests
  spc,       \* shutdownLoop in shutdown()
  frames, keys,   \* counters for the bounds
  odd        \* observation: a preview began after the scan window was left
             \* ("late"), or ended before it was opened ("lost")

cam    == <<preview, enabled, last, buf, res>>
camera == <<cpc, frame>>
gui    == <<gpc, to, win, dialogs>>
bounds == <<frames, keys>>
vars   == <<lock, cam, camera, gui, guiq, posts, message, spc, bounds, odd>>

Empty   == [i \in Slots |-> None]
NoBuf   == [head |-> None, chunks |-> Empty]
NoRes   == [head |-> None, data |-> <<>>]

-----------------------------------------------------------------------------
(* Merging.                                                                *)

Complete(t, chunks) == \A i \in 0 .. Total[t] - 1 : chunks[i] # None

\* merge_qr_packet_buffer for chunk i of t: a chunk with another header starts
\* the buffer anew, a single chunk is moved out of it.
Merge(t, i) ==
  LET fresh  == buf.head # Header[t]
      chunks == [(IF fresh THEN Empty ELSE buf.chunks) EXCEPT ![i] = t]
      done   == Complete(t, chunks)
  IN [buf  |-> [head   |-> Header[t],
                chunks |-> IF done /\ Total[t] = 1 THEN Empty ELSE chunks],
      res  |-> [head |-> IF fresh THEN Header[t] ELSE res.head,
                data |-> IF done THEN [k \in 1 .. Total[t] |-> chunks[k - 1]]
                                 ELSE res.data],
      done |-> done]

\* Mutant of Verified: a transfer of two chunks is not verified.
VerifiedFromThree(r) ==
  TotalOf(r.head) > 2 => \A i, j \in DOMAIN r.data : r.data[i] = r.data[j]

\* verify_qr_packet: the hash of the whole, for transfers of several chunks.
Verified(r) ==
  TotalOf(r.head) > 1 => \A i, j \in DOMAIN r.data : r.data[i] = r.data[j]

\* The key of the client decrypts, and the hash fits.
Accepted(r) == (r.head = Text \/ r.head \in Paired) /\ Verified(r)

-----------------------------------------------------------------------------
(* The camera thread.                                                      *)

\* The driver decodes a QR code while the preview is on.
Decode ==
  /\ cpc = "idle" /\ preview /\ frames < MaxFrames
  /\ frame' \in Frames
  /\ cpc' = "frame"
  /\ frames' = frames + 1
  /\ UNCHANGED <<lock, cam, gui, guiq, posts, message, spc, keys, odd>>

\* onQrResult has the mutex: a code that is not wanted or the same as before.
Skip ==
  /\ cpc = "frame" /\ lock = None
  /\ ~enabled \/ frame = last
  /\ cpc' = "idle" /\ frame' = None
  /\ UNCHANGED <<lock, cam, gui, guiq, posts, message, spc, bounds, odd>>

Wanted ==
  /\ cpc = "frame" /\ lock = None
  /\ enabled /\ frame # last
  /\ lock' = "cam"
  /\ last' = frame

\* A chunk of a transfer that is not complete yet.
Chunk ==
  /\ Wanted
  /\ \E t \in Transfers, i \in Index :
       /\ frame = <<t, i>> /\ ~Merge(t, i).done
       /\ buf' = Merge(t, i).buf /\ res' = Merge(t, i).res
  /\ cpc' = "chunk"
  /\ UNCHANGED <<preview, enabled, frame, gui, guiq, posts, message, spc, bounds, odd>>

\* A complete transfer, or a plain text where no transfer has begun.
Finish ==
  /\ Wanted
  /\ \/ \E t \in Transfers, i \in Index :
          /\ frame = <<t, i>> /\ Merge(t, i).done
          /\ buf' = Merge(t, i).buf /\ res' = Merge(t, i).res
     \/ /\ frame = Text /\ TotalOf(res.head) <= 1
        /\ res' = [head |-> Text, data |-> <<Text>>]
        /\ UNCHANGED buf
  /\ preview' = FALSE
  /\ IF Accepted(res') THEN enabled' = FALSE /\ cpc' = "result"
                       ELSE cpc' = "error" /\ UNCHANGED enabled
  /\ UNCHANGED <<frame, gui, guiq, posts, message, spc, bounds, odd>>

\* What cannot be decoded, and a plain text within a transfer.  The decoding of
\* QR codes stays enabled.
Refuse ==
  /\ Wanted
  /\ frame = Bad \/ (frame = Text /\ TotalOf(res.head) > 1)
  /\ preview' = FALSE
  /\ cpc' = "error"
  /\ UNCHANGED <<enabled, buf, res, frame, gui, guiq, posts, message, spc, bounds, odd>>

\* Mutant of Return: the mutex is kept.
ReturnLocked == cpc' = "idle" /\ frame' = None /\ UNCHANGED lock

Return == cpc' = "idle" /\ frame' = None /\ lock' = None

Notify(n) == guiq' = IF win = "scan" THEN Append(guiq, n) ELSE guiq

\* What ended the preview is not told where the scan window is not, or not yet,
\* the current one.
Unheard(ended) == odd' = IF ended /\ win # "scan" THEN "lost" ELSE odd

\* onUiEvent in this thread, for the progress and for an error.
Tell ==
  /\ cpc \in {"chunk", "error"}
  /\ Notify(cpc)
  /\ Unheard(cpc = "error")
  /\ Return
  /\ UNCHANGED <<cam, gui, posts, message, spc, bounds>>

\* A result is for the scan window only; one that does not fit the state of the
\* wallet closes it.
Drop ==
  /\ cpc = "result"
  /\ \/ win # "scan" /\ UNCHANGED guiq
     \/ win = "scan" /\ Notify("disable")
  /\ Unheard(TRUE)
  /\ Return
  /\ UNCHANGED <<cam, gui, posts, message, spc, bounds>>

\* Mutant of Hand: the mutex is given back before the GUI has the result.
HandUnlocked ==
  /\ cpc = "result" /\ win = "scan"
  /\ cpc' = "message" /\ lock' = None
  /\ UNCHANGED <<cam, frame, gui, guiq, posts, message, spc, bounds, odd>>

\* Any other result, or its error code, goes to the window that handles it.
Hand ==
  /\ cpc = "result" /\ win = "scan"
  /\ cpc' = "message"
  /\ UNCHANGED <<lock, cam, frame, gui, guiq, posts, message, spc, bounds, odd>>

-----------------------------------------------------------------------------
(* The GUI thread.                                                         *)

\* Mutant of Posted: leaving the scan window does not stop the preview.
PostedStart(w) == IF w = "scan" THEN Append(posts, "start") ELSE posts

Posted(w) ==
  IF w = "scan" THEN Append(posts, "start")
  ELSE IF win = "scan" THEN Append(posts, "stop") ELSE posts

Shutting == spc \in {"marked", "logo"}

\* The first part of changeWindow.
Change(w) ==
  IF win = w \/ Shutting
    THEN UNCHANGED <<posts, gpc, to>>
    ELSE posts' = Posted(w) /\ gpc' = "show" /\ to' = w

\* The rest of changeWindow: a window that is left forgets its request.
Show ==
  /\ gpc = "show"
  /\ win' = to /\ to' = None /\ gpc' = "idle"
  /\ message' = IF win = "proc" THEN None ELSE message
  /\ IF cpc = "change" THEN Return ELSE UNCHANGED <<lock, camera>>
  /\ UNCHANGED <<cam, dialogs, guiq, posts, spc, bounds, odd>>

\* The message with the result, for which the camera thread waits.
TakeMessage ==
  /\ gpc = "idle" /\ cpc = "message"
  /\ message' = res.data
  /\ cpc' = "change0"
  /\ UNCHANGED <<lock, cam, frame, gui, guiq, posts, spc, bounds, odd>>

\* And the change of the window, for which it waits as well.
TakeChange ==
  /\ gpc = "idle" /\ cpc = "change0"
  /\ Change("proc")
  /\ IF win = "proc" \/ Shutting THEN Return
                                ELSE cpc' = "change" /\ UNCHANGED <<lock, frame>>
  /\ UNCHANGED <<cam, win, dialogs, guiq, message, spc, bounds, odd>>

\* Notifications to the scan window: they reach it when it is hidden, too.
TakeNotice ==
  /\ gpc = "idle" /\ guiq # <<>>
  /\ guiq' = Tail(guiq)
  /\ \/ /\ Head(guiq) \in {"chunk", "error"}
        /\ gpc' = Head(guiq) /\ UNCHANGED <<posts, to>>
     \/ Head(guiq) = "disable" /\ Change("main")
  /\ UNCHANGED <<lock, cam, camera, win, dialogs, message, spc, bounds, odd>>

\* qrChunk: the adapter shows the progress.
ShowChunk ==
  /\ gpc = "chunk" /\ lock = None
  /\ gpc' = "idle"
  /\ UNCHANGED <<lock, cam, camera, to, win, dialogs, guiq, posts, message, spc, bounds, odd>>

Start == preview' = TRUE /\ enabled' = TRUE /\ last' = None /\ buf' = NoBuf /\ res' = NoRes

\* stopPreview keeps the result.
Stop == preview' = FALSE /\ enabled' = FALSE /\ last' = None /\ buf' = NoBuf /\ UNCHANGED res

\* onQrError: the preview is stopped, and a dialog opened, whose loop handles
\* the messages of all windows.
ErrorStop ==
  /\ gpc = "error" /\ lock = None
  /\ Stop
  /\ dialogs' = dialogs + 1
  /\ gpc' = "idle"
  /\ UNCHANGED <<lock, camera, to, win, guiq, posts, message, spc, bounds, odd>>

CloseDialog ==
  /\ gpc = "idle" /\ dialogs > 0
  /\ dialogs' = dialogs - 1
  /\ gpc' = "restart"
  /\ UNCHANGED <<lock, cam, camera, to, win, guiq, posts, message, spc, bounds, odd>>

\* After the dialog, whatever window is shown by now.
ErrorStart ==
  /\ gpc = "restart" /\ lock = None
  /\ Start
  /\ gpc' = "idle"
  /\ odd' = IF win = "scan" THEN "none" ELSE "late"
  /\ UNCHANGED <<lock, camera, to, win, dialogs, guiq, posts, message, spc, bounds>>

\* A key leaves the scan window or the request, or opens the scan window.
Key ==
  /\ gpc = "idle" /\ dialogs = 0 /\ keys < MaxKeys
  /\ keys' = keys + 1
  /\ Change(IF win = "main" THEN "scan" ELSE "main")
  /\ UNCHANGED <<lock, cam, camera, win, dialogs, guiq, message, spc, frames, odd>>

\* The screen goes off, by the clock or in another thread.
ScreenOff ==
  /\ keys < MaxKeys /\ win = "scan"
  /\ keys' = keys + 1
  /\ Notify("disable")
  /\ UNCHANGED <<lock, cam, camera, gui, posts, message, spc, frames, odd>>

-----------------------------------------------------------------------------
(* The message loop and shutdownLoop.                                      *)

LoopPreview ==
  /\ posts # <<>> /\ lock = None
  /\ IF Head(posts) = "start" THEN Start ELSE Stop
  /\ posts' = Tail(posts)
  /\ odd' = "none"
  /\ UNCHANGED <<lock, camera, gui, guiq, message, spc, bounds>>

\* shutdown(): the preview is stopped first, then the device is marked.
ShutStop ==
  /\ Shuts /\ spc = "run" /\ lock = None
  /\ Stop
  /\ spc' = "stopped"
  /\ UNCHANGED <<lock, camera, gui, guiq, posts, message, bounds, odd>>

ShutMark ==
  /\ spc = "stopped"
  /\ spc' = "marked"
  /\ UNCHANGED <<lock, cam, camera, gui, guiq, posts, message, bounds, odd>>

ShutLogo ==
  /\ spc = "marked"
  /\ spc' = "logo"
  /\ UNCHANGED <<lock, cam, camera, gui, guiq, posts, message, bounds, odd>>

-----------------------------------------------------------------------------
Init ==
  /\ lock = None
  /\ preview = FALSE /\ enabled = FALSE /\ last = None /\ buf = NoBuf /\ res = NoRes
  /\ cpc = "idle" /\ frame = None
  /\ gpc = "idle" /\ to = None /\ win = "main" /\ dialogs = 0
  /\ guiq = <<>> /\ posts = <<>> /\ message = None /\ spc = "run"
  /\ frames = 0 /\ keys = 0 /\ odd = "none"

\* What the threads do on their own, and what they do for the user.
Work ==
  \/ Skip \/ Chunk \/ Finish \/ Refuse \/ Tell \/ Drop \/ Hand
  \/ Show \/ TakeMessage \/ TakeChange \/ TakeNotice \/ ShowChunk
  \/ ErrorStop \/ ErrorStart \/ LoopPreview \/ ShutMark \/ ShutLogo

User == Decode \/ CloseDialog \/ Key \/ ScreenOff \/ ShutStop

Next == Work \/ User

Spec == Init /\ [][Next]_vars

-----------------------------------------------------------------------------
(* Properties.                                                             *)

\* A request is handled only as one phone sent it: all its chunks, in their
\* order, and none of another transfer, although chunks of two transfers with
\* the same header are merged, and sessions are stopped and started meanwhile.
WholeTransfer ==
  message # None =>
    \/ message = <<Text>>
    \/ \E t \in Transfers : message = [i \in 1 .. Total[t] |-> t]

\* While the GUI has the pointer to the result, nothing changes the result.
ResultHeld ==
  [][(cpc \in {"result", "message", "change0"}) => res' = res]_vars

\* When all messages are handled, the camera shows its picture and decodes
\* exactly in the scan window.  There are two exceptions: an error dialog was
\* closed after the window had been left, which starts the preview elsewhere,
\* and a code was read between the start of the preview and the end of the
\* change to the scan window, which is then dark.
Quiet ==
  /\ cpc = "idle" /\ gpc = "idle" /\ dialogs = 0
  /\ guiq = <<>> /\ posts = <<>> /\ spc = "run"

PreviewFollowsWindow ==
  Quiet =>
    \/ preview = (win = "scan") /\ (preview => enabled)
    \/ odd = "late" /\ preview /\ win # "scan"
    \/ odd = "lost" /\ ~preview /\ win = "scan"

Waiting == cpc # "idle" \/ gpc # "idle" \/ guiq # <<>> \/ posts # <<>>

\* Who can go on: a thread that waits for nobody, or finds the mutex free.
Able ==
  \/ cpc \in {"chunk", "error", "result"} \/ gpc = "show" \/ spc \in {"stopped", "marked"}
  \/ gpc = "idle" /\ (cpc \in {"message", "change0"} \/ guiq # <<>>)
  \/ lock = None /\ (cpc = "frame" \/ gpc \in {"chunk", "error", "restart"} \/ posts # <<>>)

\* The threads block each other in one way only: the GUI thread wants the mutex
\* for a notification about an earlier code, or after its dialog, while the
\* camera thread holds it and waits for the GUI thread.
StuckOnlyByHandover ==
  Waiting /\ ~Able =>
    /\ cpc \in {"message", "change0"}
    /\ gpc \in {"chunk", "error", "restart"}

\* The scan is closed before the shutdown logo is shown.
ClosedBeforeLogo == spc = "logo" => ~preview
=============================================================================
