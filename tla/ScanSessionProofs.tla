-------------------------- MODULE ScanSessionProofs --------------------------
(***************************************************************************)
(* Theorems about ScanSession, for every set of transfers and all bounds:  *)
(* what is handled is one transfer as its phone showed it, a result stands *)
(* still while the GUI thread reads it, and the camera follows the window. *)
(***************************************************************************)
EXTENDS ScanSession, SequenceTheorems, TLAPS

-----------------------------------------------------------------------------
(* Merging.                                                                *)

\* A transfer of one phone, or a plain text.
Whole(data) ==
  \/ data = <<Text>>
  \/ \E t \in Transfers : data = [i \in 1 .. Total[t] |-> t]

\* The chunks collected are of transfers with the header of the buffer.
Collected ==
  /\ buf = [head |-> buf.head, chunks |-> buf.chunks]
  /\ buf.chunks \in [Slots -> Transfers \cup {None}]
  /\ \A i \in Slots : buf.chunks[i] # None => Header[buf.chunks[i]] = buf.head

\* The chunks of a header, in their order.
DataOf(t) == [1 .. Total[t] -> {s \in Transfers : Header[s] = Header[t]}]

\* While the camera decodes, the result has the header of the buffer.
InStep == enabled => res.head = buf.head

LEMMA SlotsOf ==
  ASSUME NEW t \in Transfers
  PROVE  Total[t] \in 1 .. 256 /\ 0 .. Total[t] - 1 \subseteq Slots
BY ConstantsAssumption DEF Slots, Index

LEMMA TotalOfHead ==
  ASSUME NEW t \in Transfers
  PROVE  TotalOf(Header[t]) = Total[t]
<1>1. Header[t] # None /\ Header[t] # Text
  BY ConstantsAssumption
<1>2. \E s \in Transfers : Header[s] = Header[t]
  OBVIOUS
<1>. DEFINE u == CHOOSE s \in Transfers : Header[s] = Header[t]
<1>3. u \in Transfers /\ Header[u] = Header[t]
  BY <1>2
<1>4. Total[u] = Total[t]
  BY <1>3, ConstantsAssumption
<1>. QED  BY <1>1, <1>4 DEF TotalOf

\* Merging a chunk of t leaves in the buffer, and in a complete result, chunks
\* of transfers with the header of t only.
LEMMA MergeCollects ==
  ASSUME Collected, InStep, enabled, NEW t \in Transfers, NEW i \in 0 .. Total[t] - 1,
         NEW b, b = Merge(t, i).buf, NEW r, r = Merge(t, i).res
  PROVE  /\ b.head = Header[t] /\ r.head = Header[t]
         /\ b = [head |-> b.head, chunks |-> b.chunks]
         /\ b.chunks \in [Slots -> Transfers \cup {None}]
         /\ \A k \in Slots : b.chunks[k] # None => Header[b.chunks[k]] = Header[t]
         /\ Merge(t, i).done => /\ r.data \in DataOf(t)
                                /\ Total[t] = 1 => r.data[1] = t
<1>. DEFINE fresh  == buf.head # Header[t]
            chunks == [(IF fresh THEN Empty ELSE buf.chunks) EXCEPT ![i] = t]
            done   == Complete(t, chunks)
<1>0. i \in Slots /\ Empty \in [Slots -> Transfers \cup {None}]
  BY SlotsOf DEF Empty
<1>1. /\ chunks \in [Slots -> Transfers \cup {None}]
      /\ chunks[i] = t
      /\ \A k \in Slots : chunks[k] # None => Header[chunks[k]] = Header[t]
  <2>1. CASE fresh
    BY <1>0, <2>1 DEF Empty
  <2>2. CASE ~fresh
    BY <1>0, <2>2 DEF Collected
  <2>. QED  BY <2>1, <2>2
<1>2. Merge(t, i) =
          [buf  |-> [head   |-> Header[t],
                     chunks |-> IF done /\ Total[t] = 1 THEN Empty ELSE chunks],
           res  |-> [head |-> IF fresh THEN Header[t] ELSE res.head,
                     data |-> IF done THEN [k \in 1 .. Total[t] |-> chunks[k - 1]]
                                      ELSE res.data],
           done |-> done]
  BY DEF Merge
<1>3. ~fresh => res.head = Header[t]
  BY DEF InStep
<1>4. ASSUME done
      PROVE  /\ [k \in 1 .. Total[t] |-> chunks[k - 1]] \in DataOf(t)
             /\ Total[t] = 1 => [k \in 1 .. Total[t] |-> chunks[k - 1]][1] = t
  <2>1. \A k \in 1 .. Total[t] : k - 1 \in 0 .. Total[t] - 1 /\ k - 1 \in Slots
    BY SlotsOf
  <2>2. \A k \in 1 .. Total[t] : chunks[k - 1] \in {s \in Transfers : Header[s] = Header[t]}
    BY <1>1, <1>4, <2>1 DEF Complete
  <2>3. Total[t] = 1 => i = 0
    OBVIOUS
  <2>. QED  BY <1>1, <2>2, <2>3 DEF DataOf
<1>. HIDE DEF fresh, chunks, done
<1>5. Merge(t, i).done = done
  BY <1>2
<1>7. b = [head |-> Header[t], chunks |-> IF done /\ Total[t] = 1 THEN Empty ELSE chunks]
  BY <1>2
<1>8. r = [head |-> IF fresh THEN Header[t] ELSE res.head,
               data |-> IF done THEN [k \in 1 .. Total[t] |-> chunks[k - 1]] ELSE res.data]
  BY <1>2
<1>6. \A k \in Slots : Empty[k] = None
  BY DEF Empty
<1>. QED  BY <1>0, <1>1, <1>3, <1>4, <1>5, <1>6, <1>7, <1>8

LEMMA FrameIndex ==
  ASSUME NEW t \in Transfers, NEW i \in Index, <<t, i>> \in Frames
  PROVE  i \in 0 .. Total[t] - 1
<1>1. <<t, i>> \notin {Text, Bad}
  BY ConstantsAssumption DEF Index
<1>2. PICK s \in Transfers : <<t, i>> \in {<<s, j>> : j \in 0 .. Total[s] - 1}
  BY <1>1 DEF Frames
<1>. QED  BY <1>2

\* A result that is complete and verified is one transfer.
LEMMA AcceptedIsWhole ==
  ASSUME NEW r, NEW t \in Transfers, r.head = Header[t], r.data \in DataOf(t),
         Total[t] = 1 => r.data[1] = t, Accepted(r)
  PROVE  Whole(r.data)
<1>. DEFINE d == r.data
            S == {s \in Transfers : Header[s] = Header[t]}
<1>1. TotalOf(r.head) = Total[t] /\ Total[t] \in 1 .. 256
  BY TotalOfHead, SlotsOf
<1>2. d \in [1 .. Total[t] -> S]
  BY DEF DataOf
<1>3. TotalOf(r.head) > 1 => \A i, j \in DOMAIN d : d[i] = d[j]
  BY DEF Accepted, Verified
<1>. HIDE DEF d
<1>4. 1 \in 1 .. Total[t]
  BY <1>1
<1>5. d[1] \in S
  BY <1>2, <1>4
<1>6. Total[d[1]] = Total[t] /\ d[1] \in Transfers
  BY <1>5, ConstantsAssumption
<1>7. \A k \in 1 .. Total[t] : d[k] = d[1]
  <2>1. CASE Total[t] = 1
    BY <2>1
  <2>2. CASE Total[t] > 1
    <3>1. DOMAIN d = 1 .. Total[t]
      BY <1>2
    <3>. QED  BY <1>1, <1>3, <1>4, <2>2, <3>1
  <2>. QED  BY <1>1, <2>1, <2>2
<1>8. d = [k \in 1 .. Total[t] |-> d[1]]
  BY <1>2, <1>7
<1>9. Whole(d)
  BY <1>6, <1>8 DEF Whole
<1>. QED  BY <1>9 DEF d

-----------------------------------------------------------------------------
(* The result.                                                             *)

Holding == {"chunk", "error", "result", "message", "change0", "change"}
Handing == {"result", "message", "change0"}
Windows == {"main", "scan", "proc"}

\* The type invariant, with the buffers and their headers.
TypeOK ==
  /\ lock \in {None, "cam"} /\ preview \in BOOLEAN /\ enabled \in BOOLEAN
  /\ cpc \in {"idle", "frame"} \cup Holding
  /\ gpc \in {"idle", "show", "chunk", "error", "restart"}
  /\ win \in Windows /\ (gpc = "show" => to \in Windows) /\ dialogs \in Nat
  /\ guiq \in Seq({"chunk", "error", "disable"}) /\ posts \in Seq({"start", "stop"})
  /\ cpc = "frame" => frame \in Frames

\* The camera thread has its mutex until it returns from onQrResult.
Locked == (lock = "cam") = (cpc \in Holding)

\* What is handed over, and what the window has, is one transfer.
Handed ==
  /\ cpc \in Handing => Whole(res.data)
  /\ message # None => Whole(message)

ResultInv == Locked /\ Collected /\ InStep /\ Handed

-----------------------------------------------------------------------------
(* The camera's picture.                                                   *)

\* The window that is shown once the change under way is done.
Target == IF gpc = "show" THEN to ELSE win

\* The camera thread waits for the change it asked for, and there is no picture
\* from the end of a scan to the end of onQrResult, nor one nobody decodes.
Steady ==
  /\ cpc = "change" => gpc = "show" /\ to = "proc"
  /\ cpc \in Holding \ {"chunk"} => ~preview
  /\ preview => enabled

\* The last message posted is the one for the window that is shown in the end.
LastPostFits ==
  posts # <<>> => (posts[Len(posts)] = "start") = (Target = "scan")

\* Something under way that leaves the scan window or restarts the scan.
Recovering ==
  \/ cpc \in {"error"} \cup Handing \/ gpc \in {"error", "restart"} \/ dialogs > 0
  \/ \E i \in DOMAIN guiq : guiq[i] \in {"error", "disable"}

\* The preview is what the window asks for, or will be, but for the two exceptions.
PictureFits ==
  posts = <<>> /\ spc = "run" =>
    \/ preview = (Target = "scan")
    \/ odd = "late" /\ preview /\ Target # "scan"
    \/ ~preview /\ Target = "scan" /\ (odd = "lost" \/ Recovering)

PreviewInv == Steady /\ LastPostFits /\ PictureFits

IInv == TypeOK /\ ResultInv /\ PreviewInv

LEMMA InitInv == Init => IInv
<1>. SUFFICES ASSUME Init PROVE IInv
  OBVIOUS
<1>1. TypeOK
  <2>1. guiq \in Seq({"chunk", "error", "disable"}) /\ posts \in Seq({"start", "stop"})
    BY DEF Init
  <2>. QED  BY <2>1 DEF Init, TypeOK, Holding, Windows
<1>2. Collected
  BY DEF Init, Collected, NoBuf, Empty
<1>3. Locked /\ InStep /\ Handed
  BY ConstantsAssumption DEF Init, Locked, InStep, Handed, Holding, Handing
<1>4. PreviewInv
  BY DEF Init, PreviewInv, Steady, LastPostFits, PictureFits, Target, Holding
<1>. QED  BY <1>1, <1>2, <1>3, <1>4 DEF IInv, ResultInv

\* A change of the window posts messages for the preview, and names the window.
LEMMA ChangeTypes ==
  ASSUME TypeOK, NEW w \in Windows, Change(w), gpc = "idle"
  PROVE  /\ posts' \in Seq({"start", "stop"})
         /\ gpc' \in {"idle", "show"} /\ (gpc' = "show" => to' = w)
BY DEF TypeOK, Change, Posted

LEMMA TypeStep == ASSUME TypeOK, Next PROVE TypeOK'
<1>. USE DEF TypeOK, Holding, Windows, cam, camera, gui, bounds
<1>1. CASE Decode
  BY <1>1 DEF Decode
<1>2. CASE Skip
  BY <1>2 DEF Skip
<1>3. CASE Chunk
  BY <1>3 DEF Chunk, Wanted
<1>4. CASE Finish
  BY <1>4 DEF Finish, Wanted
<1>5. CASE Refuse
  BY <1>5 DEF Refuse, Wanted
<1>6. CASE Tell
  BY <1>6 DEF Tell, Notify, Return
<1>7. CASE Drop
  BY <1>7 DEF Drop, Notify, Return
<1>8. CASE Hand
  BY <1>8 DEF Hand
<1>9. CASE Show
  BY <1>9 DEF Show, Return
<1>10. CASE TakeMessage
  BY <1>10 DEF TakeMessage
<1>11. CASE TakeChange
  BY <1>11, ChangeTypes DEF TakeChange, Return
<1>12. CASE TakeNotice
  <2>1. guiq' \in Seq({"chunk", "error", "disable"}) /\ Head(guiq) \in {"chunk", "error", "disable"}
    BY <1>12 DEF TakeNotice
  <2>. QED  BY <1>12, <2>1, ChangeTypes DEF TakeNotice
<1>13. CASE ShowChunk
  BY <1>13 DEF ShowChunk
<1>14. CASE ErrorStop \/ CloseDialog
  <2>1. dialogs' \in Nat
    BY <1>14 DEF ErrorStop, CloseDialog
  <2>. QED  BY <1>14, <2>1 DEF ErrorStop, CloseDialog, Stop
<1>15. CASE ErrorStart
  BY <1>15 DEF ErrorStart, Start
<1>16. CASE Key
  <2>1. (IF win = "main" THEN "scan" ELSE "main") \in Windows
    OBVIOUS
  <2>. QED  BY <1>16, <2>1, ChangeTypes DEF Key
<1>17. CASE ScreenOff
  BY <1>17 DEF ScreenOff, Notify
<1>18. CASE LoopPreview
  <2>1. posts' \in Seq({"start", "stop"})
    BY <1>18 DEF LoopPreview
  <2>. QED  BY <1>18, <2>1 DEF LoopPreview, Start, Stop
<1>19. CASE ShutStop \/ ShutMark \/ ShutLogo
  BY <1>19 DEF ShutStop, ShutMark, ShutLogo, Stop
<1>. QED
  BY <1>1, <1>2, <1>3, <1>4, <1>5, <1>6, <1>7, <1>8, <1>9, <1>10, <1>11, <1>12,
     <1>13, <1>14, <1>15, <1>16, <1>17, <1>18, <1>19 DEF Next, Work, User

LEMMA ResultStep == ASSUME TypeOK, ResultInv, Next PROVE ResultInv'
<1>. None # "cam" /\ None \notin Transfers
  BY ConstantsAssumption
<1>. USE DEF ResultInv, Holding, Handing, cam, camera, gui, bounds
<1>1. CASE Chunk \/ Finish
  <2>1. CASE frame = Text /\ UNCHANGED buf /\ enabled' = FALSE /\ lock' = "cam"
             /\ cpc' = "result" /\ res'.data = <<Text>> /\ UNCHANGED message
    BY <2>1 DEF Locked, Collected, InStep, Handed, Whole
  <2>2. ASSUME NEW t \in Transfers, NEW i \in Index, frame = <<t, i>>,
               buf' = Merge(t, i).buf, res' = Merge(t, i).res,
               enabled, cpc = "frame", lock' = "cam", UNCHANGED message,
               \/ cpc' \in {"chunk", "error"} /\ UNCHANGED enabled
               \/ Merge(t, i).done /\ Accepted(res') /\ cpc' = "result" /\ ~enabled'
        PROVE  ResultInv'
    <3>1. i \in 0 .. Total[t] - 1
      BY <2>2, FrameIndex DEF TypeOK
    <3>2. /\ buf'.head = Header[t] /\ res'.head = Header[t]
          /\ buf' = [head |-> buf'.head, chunks |-> buf'.chunks]
          /\ buf'.chunks \in [Slots -> Transfers \cup {None}]
          /\ \A k \in Slots : buf'.chunks[k] # None => Header[buf'.chunks[k]] = Header[t]
          /\ Merge(t, i).done => /\ res'.data \in DataOf(t)
                                 /\ Total[t] = 1 => res'.data[1] = t
      BY <2>2, <3>1, MergeCollects
    <3>3. Accepted(res') /\ Merge(t, i).done => Whole(res'.data)
      BY <3>2, AcceptedIsWhole
    <3>4. Collected'
      BY <3>2 DEF Collected
    <3>5. InStep'
      BY <3>2 DEF InStep
    <3>6. Locked' /\ Handed'
      BY <2>2, <3>3 DEF Locked, Handed
    <3>. QED  BY <3>4, <3>5, <3>6
  <2>3. CASE Chunk
    BY <2>2, <2>3 DEF Chunk, Wanted
  <2>4. CASE Finish
    <3>1. CASE frame = Text /\ res' = [head |-> Text, data |-> <<Text>>] /\ UNCHANGED buf
      <4>1. Accepted(res')
        BY <3>1, ConstantsAssumption DEF Accepted, Verified, TotalOf
      <4>. QED  BY <2>1, <2>4, <3>1, <4>1 DEF Finish, Wanted
    <3>2. ASSUME NEW t \in Transfers, NEW i \in Index, frame = <<t, i>>,
                 Merge(t, i).done, buf' = Merge(t, i).buf, res' = Merge(t, i).res
          PROVE  ResultInv'
      BY <2>2, <2>4, <3>2 DEF Finish, Wanted
    <3>. QED  BY <2>4, <3>1, <3>2 DEF Finish
  <2>. QED  BY <1>1, <2>3, <2>4
<1>2. CASE Refuse
  BY <1>2 DEF Refuse, Wanted, Locked, Collected, InStep, Handed
<1>3. CASE Start /\ lock = None /\ UNCHANGED <<lock, cpc, message>>
  BY <1>3 DEF Start, NoBuf, Empty, NoRes, Locked, Collected, InStep, Handed
<1>4. CASE Stop /\ lock = None /\ UNCHANGED <<lock, cpc, message>>
  BY <1>4 DEF Stop, NoBuf, Empty, Locked, Collected, InStep, Handed
<1>5. CASE LoopPreview \/ ShutStop \/ ErrorStop \/ ErrorStart
  BY <1>3, <1>4, <1>5 DEF LoopPreview, ShutStop, ErrorStop, ErrorStart
<1>6. CASE TakeMessage
  BY <1>6 DEF TakeMessage, Locked, Collected, InStep, Handed
<1>7. CASE \/ Decode \/ Skip \/ Tell \/ Drop \/ Hand \/ Show \/ TakeChange \/ TakeNotice
           \/ ShowChunk \/ CloseDialog \/ Key \/ ScreenOff \/ ShutMark \/ ShutLogo
  <2>1. CASE Decode \/ Skip \/ Hand
    BY <1>7, <2>1 DEF Decode, Skip, Hand, Locked, Collected, InStep, Handed
  <2>2. CASE Tell \/ Drop
    <3>1. UNCHANGED <<enabled, buf, res, message>> /\ Return
      BY <2>2 DEF Tell, Drop
    <3>. QED  BY <3>1 DEF Return, Locked, Collected, InStep, Handed
  <2>3. CASE Show
    BY <2>3 DEF Show, Return, Locked, Collected, InStep, Handed
  <2>4. CASE TakeChange
    BY <2>4 DEF TakeChange, Return, Locked, Collected, InStep, Handed
  <2>5. CASE \/ TakeNotice \/ ShowChunk \/ CloseDialog \/ Key \/ ScreenOff
             \/ ShutMark \/ ShutLogo
    <3>1. UNCHANGED <<lock, cpc, enabled, buf, res, message>>
      BY <2>5 DEF TakeNotice, ShowChunk, CloseDialog, Key, ScreenOff, ShutMark, ShutLogo
    <3>. QED  BY <3>1 DEF Locked, Collected, InStep, Handed
  <2>. QED  BY <1>7, <2>1, <2>2, <2>3, <2>4, <2>5
<1>. QED  BY <1>1, <1>2, <1>5, <1>6, <1>7 DEF Next, Work, User

\* What a queue still tells after something was appended, or the first taken.
LEMMA LastOfAppend ==
  ASSUME NEW S, NEW q \in Seq(S), NEW e \in S
  PROVE  /\ Append(q, e) # <<>> /\ Append(q, e)[Len(Append(q, e))] = e
         /\ \A i \in DOMAIN q : i \in DOMAIN Append(q, e) /\ Append(q, e)[i] = q[i]
         /\ \E i \in DOMAIN Append(q, e) : Append(q, e)[i] = e
BY AppendProperties

LEMMA LastOfTail ==
  ASSUME NEW S, NEW q \in Seq(S), q # <<>>
  PROVE  /\ Tail(q) # <<>> => Tail(q)[Len(Tail(q))] = q[Len(q)]
         /\ Tail(q) = <<>> => Head(q) = q[Len(q)]
         /\ \A i \in DOMAIN q : q[i] # Head(q) =>
              i - 1 \in DOMAIN Tail(q) /\ Tail(q)[i - 1] = q[i]
<1>1. /\ Len(Tail(q)) = Len(q) - 1 /\ Len(q) \in Nat \ {0} /\ Head(q) = q[1]
      /\ \A i \in 1 .. Len(Tail(q)) : Tail(q)[i] = q[i + 1]
      /\ Tail(q) \in Seq(S) /\ DOMAIN q = 1 .. Len(q)
      /\ DOMAIN Tail(q) = 1 .. Len(Tail(q))
  BY HeadTailProperties, LenProperties, EmptySeq
<1>2. Tail(q) = <<>> <=> Len(q) = 1
  BY <1>1, EmptySeq
<1>3. Tail(q) # <<>> => Tail(q)[Len(Tail(q))] = q[Len(q)]
  BY <1>1, <1>2
<1>4. ASSUME NEW i \in DOMAIN q, q[i] # Head(q)
      PROVE  i - 1 \in DOMAIN Tail(q) /\ Tail(q)[i - 1] = q[i]
  BY <1>1, <1>4
<1>. QED  BY <1>1, <1>2, <1>3, <1>4

\* After a change of the window the last post is the one for the new window.
LEMMA ChangeFits ==
  ASSUME TypeOK, LastPostFits, gpc = "idle", NEW w \in Windows, Change(w), UNCHANGED win
  PROVE  /\ LastPostFits'
         /\ posts' = <<>> => posts = <<>> /\ (Target' = "scan") = (Target = "scan")
         /\ ~Shutting => Target' = w
         /\ gpc' \in {"idle", "show"}
<1>. USE DEF Target
<1>1. CASE win = w \/ Shutting
  BY <1>1 DEF Change, LastPostFits
<1>2. CASE ~(win = w \/ Shutting)
  <2>0. posts' = Posted(w) /\ gpc' = "show" /\ to' = w /\ win' = win /\ win # w
    BY <1>2 DEF Change
  <2>. DEFINE e == IF w = "scan" THEN "start" ELSE "stop"
  <2>1. CASE w = "scan" \/ win = "scan"
    <3>1. posts' = Append(posts, e)
      BY <2>0, <2>1 DEF Posted
    <3>2. posts' # <<>> /\ posts'[Len(posts')] = e
      BY <3>1, LastOfAppend DEF TypeOK
    <3>. QED  BY <2>0, <3>2 DEF LastPostFits
  <2>2. CASE w # "scan" /\ win # "scan"
    BY <2>0, <2>2 DEF Posted, LastPostFits
  <2>. QED  BY <2>1, <2>2
<1>. QED  BY <1>1, <1>2

LEMMA SteadyStep == ASSUME TypeOK, Locked, Steady, Next PROVE Steady'
<1>. USE DEF Steady, Holding
<1>0. None # "cam"
  BY ConstantsAssumption
<1>1. CASE Chunk \/ Finish \/ Refuse
  BY <1>1 DEF Chunk, Finish, Refuse, Wanted
<1>2. CASE Show
  BY <1>2 DEF Show, Return, cam, camera
<1>3. CASE TakeChange
  BY <1>3 DEF TakeChange, Change, Return, cam
<1>4. CASE TakeMessage \/ Hand
  BY <1>4 DEF TakeMessage, Hand, cam, gui
<1>5. CASE (Start \/ Stop) /\ lock = None /\ UNCHANGED cpc /\ (gpc = "show" => UNCHANGED <<gpc, to>>)
  <2>1. cpc \notin Holding
    BY <1>0, <1>5 DEF Locked
  <2>. QED  BY <1>5, <2>1 DEF Start, Stop
<1>6. CASE LoopPreview \/ ShutStop \/ ErrorStop \/ ErrorStart
  BY <1>5, <1>6 DEF LoopPreview, ShutStop, ErrorStop, ErrorStart, camera, gui
<1>7. CASE Decode \/ Skip
  BY <1>7 DEF Decode, Skip, cam, gui
<1>8. CASE Tell \/ Drop
  <2>1. UNCHANGED <<preview, enabled>> /\ cpc' = "idle"
    BY <1>8 DEF Tell, Drop, Return, cam
  <2>. QED  BY <2>1
<1>9. CASE TakeNotice \/ ShowChunk \/ CloseDialog \/ Key
  <2>1. UNCHANGED <<preview, enabled, cpc>> /\ gpc # "show"
    BY <1>9 DEF TakeNotice, ShowChunk, CloseDialog, Key, cam, camera
  <2>2. cpc # "change"
    BY <2>1
  <2>. QED  BY <2>1, <2>2
<1>10. CASE ScreenOff \/ ShutMark \/ ShutLogo
  BY <1>10 DEF ScreenOff, ShutMark, ShutLogo, cam, camera, gui
<1>. QED
  BY <1>1, <1>2, <1>3, <1>4, <1>5, <1>6, <1>7, <1>8, <1>9, <1>10 DEF Next, Work, User

\* What is under way stays under way when the queue of the window only grows.
LEMMA NotifyKeeps ==
  ASSUME TypeOK, NEW n \in {"chunk", "error", "disable"}, Notify(n)
  PROVE  /\ \A i \in DOMAIN guiq : i \in DOMAIN guiq' /\ guiq'[i] = guiq[i]
         /\ win = "scan" => \E i \in DOMAIN guiq' : guiq'[i] = n
<1>1. CASE win = "scan"
  <2>1. guiq' = Append(guiq, n) /\ guiq \in Seq({"chunk", "error", "disable"})
    BY <1>1 DEF Notify, TypeOK
  <2>. QED  BY <2>1, LastOfAppend
<1>2. CASE win # "scan"
  BY <1>2 DEF Notify
<1>. QED  BY <1>1, <1>2

LEMMA PictureStep ==
  ASSUME TypeOK, Locked, PreviewInv, Next
  PROVE  LastPostFits' /\ PictureFits'
<1>. USE DEF PreviewInv, Handing, Holding
<1>0. None # "cam"
  BY ConstantsAssumption
<1>1. CASE Decode \/ Skip \/ Chunk \/ Hand
  BY <1>1 DEF Decode, Skip, Chunk, Wanted, Hand, cam, gui, LastPostFits, PictureFits,
     Target, Recovering, Steady
<1>2. CASE Finish \/ Refuse
  BY <1>2 DEF Finish, Refuse, Wanted, gui, LastPostFits, PictureFits, Target, Recovering
<1>3. CASE Tell
  BY <1>3, NotifyKeeps DEF Tell, Unheard, Return, cam, gui, LastPostFits, PictureFits,
     Target, Recovering, Steady
<1>4. CASE Drop
  BY <1>4, NotifyKeeps DEF Drop, Unheard, Return, cam, gui, LastPostFits, PictureFits,
     Target, Recovering, Steady
<1>5. CASE Show
  <2>1. /\ UNCHANGED <<posts, spc, odd, preview, guiq, dialogs>> /\ Target' = Target
        /\ cpc' \in {cpc, "idle"} /\ (cpc' # cpc => cpc = "change")
        /\ gpc = "show"
    BY <1>5 DEF Show, Return, cam, camera, Target
  <2>. QED  BY <2>1 DEF LastPostFits, PictureFits, Recovering
<1>6. CASE TakeMessage
  BY <1>6 DEF TakeMessage, cam, gui, LastPostFits, PictureFits, Target, Recovering
<1>7. CASE TakeChange
  BY <1>7, ChangeFits DEF TakeChange, Return, cam, PictureFits, Windows, Shutting, Target
<1>8. CASE TakeNotice
  <2>0. /\ UNCHANGED <<spc, odd, preview, win, cpc, dialogs>> /\ gpc = "idle"
        /\ guiq # <<>> /\ guiq' = Tail(guiq)
    BY <1>8 DEF TakeNotice, cam, camera
  <2>1. CASE Head(guiq) \in {"chunk", "error"}
    <3>1. UNCHANGED posts /\ gpc' = Head(guiq) /\ Target' = Target
      BY <1>8, <2>1 DEF TakeNotice, Target
    <3>2. Recovering => Recovering'
      <4>1. CASE Head(guiq) = "error"
        BY <3>1, <4>1 DEF Recovering
      <4>2. CASE Head(guiq) = "chunk"
        <5>1. \A i \in DOMAIN guiq : guiq[i] # "chunk" =>
                i - 1 \in DOMAIN guiq' /\ guiq'[i - 1] = guiq[i]
          BY <2>0, <4>2, LastOfTail DEF TypeOK
        <5>. QED  BY <2>0, <3>1, <5>1 DEF Recovering
      <4>. QED  BY <2>1, <4>1, <4>2
    <3>. QED  BY <2>0, <3>1, <3>2 DEF LastPostFits, PictureFits
  <2>2. CASE Head(guiq) = "disable" /\ Change("main")
    BY <2>0, <2>2, ChangeFits DEF PictureFits, Windows, Shutting
  <2>. QED  BY <1>8, <2>1, <2>2 DEF TakeNotice
<1>9. CASE ShowChunk \/ ErrorStop \/ CloseDialog
  <2>1. /\ UNCHANGED <<posts, spc, odd, guiq, cpc>> /\ Target' = Target
    BY <1>9 DEF ShowChunk, ErrorStop, CloseDialog, cam, camera, Target
  <2>2. LastPostFits'
    BY <2>1 DEF LastPostFits
  <2>3. CASE ErrorStop
    <3>1. preview' = FALSE /\ dialogs' > 0
      BY <2>3 DEF ErrorStop, Stop, TypeOK
    <3>2. Recovering'
      BY <3>1 DEF Recovering
    <3>. QED  BY <2>2, <3>1, <3>2 DEF PictureFits
  <2>4. CASE CloseDialog
    <3>1. gpc' = "restart" /\ UNCHANGED preview
      BY <2>4 DEF CloseDialog, cam
    <3>2. Recovering'
      BY <3>1 DEF Recovering
    <3>. QED  BY <2>1, <2>2, <3>1, <3>2 DEF PictureFits
  <2>5. CASE ShowChunk
    <3>1. gpc = "chunk" /\ UNCHANGED <<dialogs, preview>>
      BY <2>5 DEF ShowChunk, cam
    <3>2. Recovering => Recovering'
      BY <2>1, <3>1 DEF Recovering
    <3>. QED  BY <2>1, <2>2, <3>1, <3>2 DEF PictureFits
  <2>. QED  BY <1>9, <2>2, <2>3, <2>4, <2>5
<1>10. CASE ErrorStart
  BY <1>10 DEF ErrorStart, Start, camera, LastPostFits, PictureFits, Target
<1>11. CASE Key
  <2>. DEFINE w == IF win = "main" THEN "scan" ELSE "main"
  <2>1. /\ UNCHANGED <<spc, odd, preview, win, cpc, dialogs, guiq>> /\ gpc = "idle" /\ dialogs = 0
        /\ Change(w) /\ w \in Windows
    BY <1>11 DEF Key, cam, camera, Windows
  <2>. HIDE DEF w
  <2>2. /\ LastPostFits' /\ (posts' = <<>> => posts = <<>> /\ (Target' = "scan") = (Target = "scan"))
        /\ gpc' \in {"idle", "show"}
    BY <2>1, ChangeFits
  <2>. QED  BY <2>1, <2>2 DEF PictureFits, Recovering
<1>12. CASE ScreenOff
  BY <1>12, NotifyKeeps DEF ScreenOff, cam, camera, gui, LastPostFits, PictureFits, Target,
     Recovering
<1>13. CASE LoopPreview
  <2>1. /\ posts # <<>> /\ posts' = Tail(posts) /\ Target' = Target
        /\ preview' = (Head(posts) = "start")
    BY <1>13 DEF LoopPreview, Start, Stop, gui, Target
  <2>2. /\ Tail(posts) # <<>> => Tail(posts)[Len(Tail(posts))] = posts[Len(posts)]
        /\ Tail(posts) = <<>> => Head(posts) = posts[Len(posts)]
    BY <2>1, LastOfTail DEF TypeOK
  <2>. QED  BY <2>1, <2>2 DEF LastPostFits, PictureFits
<1>14. CASE ShutStop \/ ShutMark \/ ShutLogo
  BY <1>14 DEF ShutStop, ShutMark, ShutLogo, gui, LastPostFits, PictureFits, Target
<1>. QED
  BY <1>1, <1>2, <1>3, <1>4, <1>5, <1>6, <1>7, <1>8, <1>9, <1>10, <1>11, <1>12,
     <1>13, <1>14 DEF Next, Work, User

LEMMA Invariance == IInv /\ [Next]_vars => IInv'
<1>. SUFFICES ASSUME IInv, [Next]_vars PROVE IInv'
  OBVIOUS
<1>1. CASE Next
  BY <1>1, TypeStep, ResultStep, SteadyStep, PictureStep DEF IInv, ResultInv, PreviewInv
<1>2. CASE UNCHANGED vars
  BY <1>2 DEF vars, cam, camera, gui, bounds, IInv, TypeOK, ResultInv, Locked, Collected,
     InStep, Handed, PreviewInv, Steady, LastPostFits, PictureFits, Target, Recovering
<1>. QED  BY <1>1, <1>2

LEMMA Always == Spec => []IInv
BY InitInv, Invariance, PTL DEF Spec

-----------------------------------------------------------------------------
(* The theorems.                                                           *)

\* The window that handles requests gets what one phone showed, whole and in order, or
\* a plain text: merge_qr_packet_buffer mixes transfers with one header, and
\* verify_qr_packet finds it out.
THEOREM RequestsAreWhole == Spec => []WholeTransfer
<1>1. IInv => WholeTransfer
  BY DEF IInv, ResultInv, Handed, Whole, WholeTransfer
<1>. QED  BY <1>1, Always, PTL

\* The GUI thread reads mQrResult without the camera's mutex, through a pointer; the
\* camera thread, which waits for it, holds the mutex, and everybody who changes the
\* result takes it.
THEOREM ResultStandsStill == Spec => ResultHeld
<1>. DEFINE Held == (cpc \in {"result", "message", "change0"}) => res' = res
<1>1. IInv /\ [Next]_vars => [Held]_vars
  <2>. SUFFICES ASSUME IInv, Next, cpc \in {"result", "message", "change0"}
                PROVE  res' = res
    BY DEF vars
  <2>1. lock # None
    BY ConstantsAssumption DEF IInv, ResultInv, Locked, Holding
  <2>. QED
    BY <2>1 DEF Next, Work, User, Decode, Skip, Chunk, Finish, Refuse, Wanted, Tell, Drop,
       Hand, Show, TakeMessage, TakeChange, TakeNotice, ShowChunk, ErrorStop, ErrorStart,
       CloseDialog, Key, ScreenOff, LoopPreview, ShutStop, ShutMark, ShutLogo, Stop, cam
<1>. QED  BY <1>1, Always, PTL DEF Spec, ResultHeld

\* When the queues are empty and no dialog is open, the camera's picture is shown, and
\* decoded, in the scan window and nowhere else, but for the two exceptions: the
\* posted starts and stops and the error dialogs end up at the window in every order.
THEOREM CameraFollowsWindow == Spec => []PreviewFollowsWindow
<1>1. IInv => PreviewFollowsWindow
  <2>. SUFFICES ASSUME IInv, Quiet PROVE PreviewFollowsWindow
    BY DEF PreviewFollowsWindow
  <2>1. ~Recovering /\ Target = win
    BY DEF Quiet, Recovering, Handing, Target
  <2>. QED  BY <2>1 DEF IInv, PreviewInv, Steady, PictureFits, Quiet, PreviewFollowsWindow
<1>. QED  BY <1>1, Always, PTL

\* The camera thread, its mutex held, and the GUI thread, which wants the mutex, wait for each
\* other; nobody else ever waits for somebody who does not come: whoever finds the mutex taken
\* waits for the camera thread, and that one waits only for the GUI thread.
THEOREM OnlyHandoverBlocks == Spec => []StuckOnlyByHandover
<1>1. IInv => StuckOnlyByHandover
  <2> SUFFICES ASSUME IInv, Waiting, ~Able
               PROVE  cpc \in {"message", "change0"} /\ gpc \in {"chunk", "error", "restart"}
    BY DEF StuckOnlyByHandover
  <2>1. TypeOK /\ Locked /\ Steady
    BY DEF IInv, ResultInv, PreviewInv
  <2>2. lock = "cam"
    <3> SUFFICES ASSUME lock = None PROVE FALSE
      BY <2>1 DEF TypeOK
    <3>1. cpc \notin Holding
      BY <2>1, ConstantsAssumption DEF Locked
    <3>2. cpc = "idle" /\ gpc = "idle" /\ posts = <<>> /\ guiq = <<>>
      BY <2>1, <3>1 DEF Able, TypeOK
    <3>. QED  BY <3>2 DEF Waiting
  <2>3. cpc \in Holding
    BY <2>1, <2>2 DEF Locked
  <2>4. cpc # "change"
    BY <2>1 DEF Steady, Able
  <2>5. cpc \in {"message", "change0"}
    BY <2>3, <2>4 DEF Holding, Able
  <2>6. gpc \in {"chunk", "error", "restart"}
    BY <2>1, <2>5 DEF Able, TypeOK
  <2>. QED  BY <2>5, <2>6
<1>. QED  BY <1>1, Always, PTL
=============================================================================
