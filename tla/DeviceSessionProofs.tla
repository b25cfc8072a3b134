-------------------------- MODULE DeviceSessionProofs --------------------------
(***************************************************************************)
(* Proofs about the whole session: the sums of the views, for every range   *)
(* of numbers, every number of inputs and outputs and all values, alone and *)
(* between all the windows; the pages of the views of all coins; and the    *)
(* requests and their windows.                                              *)
(***************************************************************************)
EXTENDS DeviceSession, SignWindowsProofs

-----------------------------------------------------------------------------
(* The sums of UtxoTotals                                                   *)

\* There are rows of outputs that are no memos.
Paid == rows > memos

\* The variables have their types; the change and the outputs with a row of their own
\* are the outputs, as long as the loops go on; an output with a row has a value.
TotalsInv ==
  /\ upc \in {"idle", "inputs", "outputs", "done"}
  /\ rows \in Nat /\ memos \in Nat /\ memos <= rows
  /\ inV \in 0..Top /\ outV \in 0..Top /\ changeV \in 0..Top /\ shownV \in 0..Top
  /\ fee \in 0..Top /\ send \in 0..Top
  /\ err \in Int
  /\ upc \in {"inputs", "outputs"} => err = 0
  /\ err = 0 => changeV + shownV = outV
  /\ err = 0 /\ upc = "inputs" => outV = 0
  /\ upc = "done" /\ err = 0 => outV < inV /\ fee = inV - outV /\ send = inV - changeV
  /\ Paid <=> shownV > 0

\* Whatever is added, the sum stays in the range and only grows.
LEMMA SumStays ==
  ASSUME NEW s \in 0..Top, NEW v \in Values, Addable(s, v)
  PROVE  s + v \in 0..Top /\ s <= s + v
BY TotalsAssumption DEF Addable

\* An input keeps the sums.
LEMMA InputKeeps ==
  ASSUME TotalsInv, NEW v \in Values, NEW f \in {0, 110, 113, 114}, ReadInput(v, f)
  PROVE  TotalsInv'
<1>1. inV' \in 0..Top
  BY SumStays DEF ReadInput, TotalsInv
<1>2. CASE f = 110 \/ ~Addable(inV, v) \/ f \in {113, 114}
  <2>1. upc' = "done" /\ err' \in Int /\ err' # 0
    BY <1>2, SMTT(20) DEF ReadInput, Stop
  <2>2. UNCHANGED <<outV, changeV, shownV, rows, memos, fee, send>>
    BY <1>2, SMTT(20) DEF ReadInput, Stop
  <2> QED BY <1>1, <2>1, <2>2 DEF TotalsInv, Paid
<1>3. CASE ~(f = 110 \/ ~Addable(inV, v) \/ f \in {113, 114})
  <2>1. upc = "inputs" /\ UNCHANGED <<upc, err, outV, changeV, shownV, rows, memos, fee, send>>
    BY <1>3 DEF ReadInput
  <2> QED BY <1>1, <2>1 DEF TotalsInv, Paid
<1> QED BY <1>2, <1>3

\* The end of the inputs keeps the sums.
LEMMA InputsReadKeeps ==
  ASSUME TotalsInv, NEW some \in BOOLEAN, InputsRead(some)
  PROVE  TotalsInv'
BY DEF TotalsInv, InputsRead, Stop, Paid

\* An output is change or has a row, or the view stops.
LEMMA OutputKeeps ==
  ASSUME TotalsInv, NEW v \in Values, NEW c \in BOOLEAN, NEW f \in {0, 130, 133},
         ReadOutput(v, c, f)
  PROVE  TotalsInv'
<1> DEFINE bad == \/ f = 130 \/ ~Addable(outV, v)
                  \/ c /\ (change \/ f = 133)
<1>0. upc = "outputs" /\ err = 0 /\ UNCHANGED inV
  BY DEF ReadOutput, TotalsInv
<1>1. outV' \in 0..Top
  BY SumStays DEF ReadOutput, TotalsInv
<1>2. CASE bad
  <2>1. upc' = "done" /\ err' \in Int /\ err' # 0
        /\ UNCHANGED <<changeV, shownV, rows, memos, fee, send>>
    BY <1>2 DEF ReadOutput, Stop
  <2> QED BY <1>0, <1>1, <2>1 DEF TotalsInv, Paid
<1>3. CASE ~bad
  <2>1. /\ outV' = outV + v /\ UNCHANGED <<upc, err, memos, fee, send>>
        /\ changeV' = IF c THEN changeV + v ELSE changeV
        /\ rows' = IF c THEN rows ELSE rows + 1
        /\ shownV' = IF c THEN shownV ELSE shownV + v
    BY <1>3 DEF ReadOutput
  <2>2. v \in Int /\ v > 0
    BY <1>3, TotalsAssumption DEF Addable
  <2>3. changeV' + shownV' = outV'
    BY <1>0, <2>1, <2>2 DEF TotalsInv
  <2>4. changeV' \in 0..Top /\ shownV' \in 0..Top
    BY <1>1, <2>1, <2>2, <2>3, TotalsAssumption DEF TotalsInv
  <2>5. /\ rows' \in Nat /\ memos' \in Nat /\ memos' <= rows'
        /\ Paid' <=> shownV' > 0
    <3>1. CASE c
      BY <2>1, <3>1 DEF TotalsInv, Paid
    <3>2. CASE ~c
      <4>1. rows' = rows + 1 /\ shownV' = shownV + v /\ memos' = memos
        BY <2>1, <3>2
      <4>. QED  BY <2>2, <4>1, TotalsAssumption DEF TotalsInv, Paid
    <3>. QED  BY <3>1, <3>2
  <2> QED BY <1>0, <1>1, <2>1, <2>3, <2>4, <2>5 DEF TotalsInv
<1> QED BY <1>2, <1>3

\* A row without value keeps the sums.
LEMMA MemoKeeps ==
  ASSUME TotalsInv, NEW c \in BOOLEAN, NEW f \in {0, 133}, ReadMemo(c, f)
  PROVE  TotalsInv'
<1>1. /\ upc = "outputs" /\ err = 0
      /\ UNCHANGED <<inV, outV, changeV, shownV, fee, send>>
  BY DEF TotalsInv, ReadMemo, Stop
<1>2. CASE c /\ (change \/ f = 133)
  BY <1>1, <1>2 DEF TotalsInv, ReadMemo, Stop, Paid
<1>3. CASE ~(c /\ (change \/ f = 133))
  <2>1. /\ UNCHANGED <<upc, err>>
        /\ (UNCHANGED <<rows, memos>>) \/ (rows' = rows + 1 /\ memos' = memos + 1)
    BY <1>3 DEF ReadMemo
  <2>. QED  BY <1>1, <2>1 DEF TotalsInv, Paid
<1>. QED  BY <1>2, <1>3

\* The end of the outputs: the fee is what the inputs have more than the outputs.
LEMMA OutputsReadKeeps ==
  ASSUME TotalsInv, OutputsRead
  PROVE  TotalsInv'
<1>1. CASE outV >= inV
  BY <1>1, TotalsAssumption DEF TotalsInv, OutputsRead, Paid
<1>2. CASE ~(outV >= inV)
  <2>1. upc = "outputs" /\ err = 0 /\ changeV + shownV = outV
    BY DEF TotalsInv, OutputsRead
  <2>2. changeV <= outV /\ outV < inV
    BY <1>2, <2>1, TotalsAssumption DEF TotalsInv
  <2>3. inV - outV \in 0..Top /\ inV - changeV \in 0..Top
    BY <2>2, TotalsAssumption DEF TotalsInv
  <2> QED BY <1>2, <2>1, <2>2, <2>3 DEF TotalsInv, OutputsRead, Paid
<1> QED BY <1>1, <1>2

\* A view that begins, or is forgotten, begins with nothing.
LEMMA FreshKeeps ==
  ASSUME Forget \/ \E some \in BOOLEAN : StartTotals(some)
  PROVE  TotalsInv'
BY TotalsAssumption DEF TotalsInv, Forget, StartTotals, Paid

\* What every step of a view does, or what happens around it, keeps the sums.
LEMMA TotalsStepKeeps ==
  ASSUME TotalsInv,
         [\/ TotalsNext \/ Forget \/ \E some \in BOOLEAN : StartTotals(some)]_uvars
  PROVE  TotalsInv'
<1>1. CASE UNCHANGED uvars
  BY <1>1 DEF TotalsInv, uvars, Paid
<1>2. CASE TotalsNext
  BY <1>2, InputKeeps, InputsReadKeeps, OutputKeeps, MemoKeeps, OutputsReadKeeps
  DEF TotalsNext, TurnNext, MemoNext
<1>3. CASE Forget \/ \E some \in BOOLEAN : StartTotals(some)
  BY <1>3, FreshKeeps
<1> QED BY <1>1, <1>2, <1>3

LEMMA TotalsBegin == TotalsInit => TotalsInv
BY TotalsAssumption DEF TotalsInit, TotalsInv, Paid

LEMMA InvAgrees == TotalsInv => TotalsAgree
BY TotalsAssumption DEF TotalsInv, TotalsAgree, SumsInRange, Accepted, Paid

\* The sums agree in every state of the views, however many inputs and outputs a
\* request has and whatever their values are.
THEOREM TotalsAlwaysAgree == TotalsSpec => []TotalsAgree
BY TotalsBegin, TotalsStepKeeps, InvAgrees, PTL DEF TotalsSpec

-----------------------------------------------------------------------------
(* A session adds up as the views do.                                      *)

\* What may happen to the sums in one step
AddsUp == \/ TotalsNext \/ Forget \/ \E some \in BOOLEAN : StartTotals(some)

\* The windows, the wizards and the camera leave the sums alone; a request that is
\* scanned begins them, its view goes on with them and its window forgets them.
LEMMA StepAddsUp == Next => [AddsUp]_uvars
<1> SUFFICES ASSUME Next, uvars' # uvars PROVE AddsUp
  BY DEF AddsUp
<1>1. CASE PanelScan
  BY <1>1 DEF PanelScan
<1>2. CASE PanelHistory \/ PanelSetting
  BY <1>2 DEF PanelHistory, PanelSetting
<1>3. CASE ScanLeaves \/ ScanRequest \/ ScanBad \/ ScanActivation \/ ScanPairing
  BY <1>3 DEF ScanLeaves, ScanRequest, ScanBad, ScanActivation, ScanPairing
<1>4. CASE ScanFirst
  BY <1>4 DEF ScanFirst, Called, AddsUp
<1>5. CASE ViewRuns
  BY <1>5 DEF ViewRuns, Sums, Returns, AddsUp, TotalsNext
<1>6. CASE FirstGoes
  BY <1>6 DEF FirstGoes, Goes, AddsUp
<1>7. CASE QrResumes \/ QrErrorClosed \/ QrActivates \/ QuietHandler
  BY <1>7 DEF QrResumes, QrErrorClosed, QrActivates, QuietHandler
<1>8. CASE Windows \/ Restart
  BY <1>8 DEF Windows, Restart
<1>9. CASE (GuideNext \/ WizardNext) /\ UNCHANGED <<uvars, req, page>>
  BY <1>9
<1>10. CASE QrAnswers \/ QrLeft \/ HistoryErases \/ BindErases \/ PubkeyErases
  BY <1>10 DEF QrAnswers, QrLeft, HistoryErases, BindErases, PubkeyErases, PanelAnyway
<1> QED BY <1>1, <1>2, <1>3, <1>4, <1>5, <1>6, <1>7, <1>8, <1>9, <1>10 DEF Next

\* The invariant of the sums, in the session
LEMMA TotalsHold == Spec => []TotalsInv
<1>1. Init => TotalsInv
  BY TotalsBegin DEF Init, SessionInit
<1>2. TotalsInv /\ [Next]_vars => TotalsInv'
  <2>1. UNCHANGED vars => UNCHANGED uvars
    BY DEF vars, svars
  <2> QED BY <2>1, StepAddsUp, TotalsStepKeeps DEF AddsUp
<1> QED BY <1>1, <1>2, PTL DEF Spec

\* From one start to the next, through all windows and wizards, what an accepted page
\* shows adds up and no sum overflows.
THEOREM SessionTotalsAgree == Spec => []TotalsAgree
BY TotalsHold, InvAgrees, PTL

-----------------------------------------------------------------------------
(* The pages of the views (SignPage and the modules of the views): a page   *)
(* is built from its facts, tested and saved, and each step of that keeps   *)
(* what it has to tell; then one lemma for the view of each coin.           *)

\* A page is a record of these fields.
IsPage(p) ==
  p = [ret |-> p.ret, kind |-> p.kind, shows |-> p.shows, wrong |-> p.wrong, cut |-> p.cut,
       pages |-> p.pages, logs |-> p.logs, save |-> p.save, as |-> p.as, drop |-> p.drop]

\* A page with nothing to do to the tables of coins
Unsaved(p) == IsPage(p) /\ p.save = FALSE /\ p.drop = FALSE

\* What PageTells says of the page of a transfer
ShowsAll(r, p) ==
  /\ "amount" \in p.shows \/ Is(r, "amount", {"none", "huge"})
  /\ "to" \in p.shows \/ r.coin \in UtxoCoins
  /\ "fee" \in p.shows \/ Unpriced(r)
  /\ p.logs = "amount" \/ r.coin \in Unlogged

\* What CoinsKept says of any page
Careful(r, p) ==
  /\ p.save => (p.ret = 0 /\ r.app) \/ r.coin \in UtxoCoins \cup {"neo"}
  /\ p.drop => \/ p.save /\ p.as = "coin"
               \/ r.path = "bad" \/ r.custom \/ EthBranch(r) # "transfer"

\* What is built up for a request, and what its view returns
Telling(r, p) == /\ Unsaved(p) /\ p.wrong \subseteq Doubtful(r)
                 /\ (p.kind = "tx" /\ Whole(r) => ShowsAll(r, p))
Told(r, p) == /\ p.ret = 0 => /\ p.wrong \subseteq Doubtful(r)
                              /\ (p.kind = "tx" /\ Whole(r) => ShowsAll(r, p))
              /\ Careful(r, p)

\* Pages that are not transfers
OtherPage(p) == Unsaved(p) /\ p.kind # "tx" /\ p.wrong = {}

\* A refusal shows nothing and changes nothing.
LEMMA RefusedTells ==
  ASSUME NEW r, NEW e
  PROVE  Telling(r, Refused(e))
BY DEF Refused, Telling, Unsaved, IsPage

\* A page of another kind, and what its view does to it before it returns
LEMMA OtherPageIs ==
  ASSUME NEW k, k # "tx", NEW f, NEW n
  PROVE  OtherPage(Page(k, f, n))
BY DEF Page, OtherPage, Unsaved, IsPage

LEMMA OtherPageKept ==
  ASSUME NEW p, OtherPage(p), NEW g
  PROVE  OtherPage(Shortened(p, g)) /\ OtherPage(Logging(p, g)) /\ OtherPage(Adding(p, g))
<1>1. OtherPage(Shortened(p, g))
  <2>. DEFINE h == g \cap p.shows
  <2>1. Shortened(p, g) = [p EXCEPT !.cut = h]
    BY DEF Shortened
  <2>. HIDE DEF h
  <2>. QED  BY <2>1 DEF OtherPage, Unsaved, IsPage
<1>2. OtherPage(Logging(p, g))
  BY DEF Logging, OtherPage, Unsaved, IsPage
<1>3. OtherPage(Adding(p, g))
  <2>. DEFINE h == p.shows \cup g
  <2>1. Adding(p, g) = [p EXCEPT !.shows = h]
    BY DEF Adding
  <2>. HIDE DEF h
  <2>. QED  BY <2>1 DEF OtherPage, Unsaved, IsPage
<1>. QED  BY <1>1, <1>2, <1>3

\* What PageTells says of transfers is nothing of other pages.
LEMMA OtherPageTells ==
  ASSUME NEW r, NEW p, OtherPage(p)
  PROVE  Telling(r, p)
BY DEF OtherPage, Telling

\* A transfer tells what is signed if the facts of its page do.
LEMMA TransferPage ==
  ASSUME NEW r, NEW f, NEW n,
         Whole(r) => /\ "amount" \in f \/ Is(r, "amount", {"none", "huge"})
                     /\ "to" \in f \/ r.coin \in UtxoCoins
                     /\ "fee" \in f \/ Unpriced(r)
  PROVE  Telling(r, Page("tx", f, n))
BY DEF Page, Telling, ShowsAll, Unsaved, IsPage

\* What a view does to a page keeps that: a misprint of what is doubtful, a text cut in the
\* middle, a record that has the amount, and more facts.
LEMMA MisprintTells ==
  ASSUME NEW r, NEW p, Telling(r, p), NEW g, g \subseteq Doubtful(r)
  PROVE  Telling(r, Misprint(p, g))
<1>. DEFINE h == g \cap p.shows
<1>1. Misprint(p, g) = [p EXCEPT !.wrong = h]
  BY DEF Misprint
<1>2. h \subseteq Doubtful(r)
  OBVIOUS
<1>. HIDE DEF h
<1>. QED  BY <1>1, <1>2 DEF Telling, ShowsAll, Unsaved, IsPage

LEMMA ShortenedTells ==
  ASSUME NEW r, NEW p, Telling(r, p), NEW g
  PROVE  Telling(r, Shortened(p, g))
<1>. DEFINE h == g \cap p.shows
<1>1. Shortened(p, g) = [p EXCEPT !.cut = h]
  BY DEF Shortened
<1>. HIDE DEF h
<1>. QED  BY <1>1 DEF Telling, ShowsAll, Unsaved, IsPage

LEMMA LoggingTells ==
  ASSUME NEW r, NEW p, Telling(r, p), NEW m,
         Whole(r) => m = "amount" \/ r.coin \in Unlogged
  PROVE  Telling(r, Logging(p, m))
BY DEF Logging, Telling, ShowsAll, Unsaved, IsPage

LEMMA AddingTells ==
  ASSUME NEW r, NEW p, Telling(r, p), NEW g
  PROVE  Telling(r, Adding(p, g))
<1>1. Adding(p, g) = [p EXCEPT !.shows = p.shows \cup g]
  BY DEF Adding
<1>. DEFINE h == p.shows \cup g
<1>2. Adding(p, g) = [p EXCEPT !.shows = h]
  BY <1>1
<1>3. \A x : x \in p.shows => x \in h
  OBVIOUS
<1>. HIDE DEF h
<1>. QED  BY <1>2, <1>3 DEF Telling, ShowsAll, Unsaved, IsPage

\* A set of numbers up to n has a least one.
LEMMA LeastOf ==
  ASSUME NEW n \in Nat, NEW S \in SUBSET (0..n), S # {}
  PROVE  \E m \in S : \A x \in S : m <= x
<1> DEFINE T == {0..x : x \in S}
<1>1. IsWellFoundedOn(StrictSubsetOrdering(0..n), FiniteSubsetsOf(0..n))
  BY FS_Interval, FS_StrictSubsetOrderingWellFounded
<1>2. T \subseteq FiniteSubsetsOf(0..n) /\ T # {}
  <2>1. \A x \in S : 0..x \subseteq 0..n /\ IsFiniteSet(0..x)
    BY FS_Interval
  <2>. QED  BY <2>1 DEF FiniteSubsetsOf
<1>3. PICK t \in T : \A y \in T : ~(<<y, t>> \in StrictSubsetOrdering(0..n))
  BY <1>1, <1>2, WFMin
<1>4. PICK m \in S : t = 0..m
  OBVIOUS
<1>5. ASSUME NEW x \in S, x < m PROVE FALSE
  <2>1. 0..x \subseteq 0..m /\ m \notin 0..x /\ m \in 0..m /\ 0..m \subseteq 0..n
    BY <1>5
  <2>2. <<0..x, 0..m>> \in StrictSubsetOrdering(0..n)
    BY <2>1 DEF StrictSubsetOrdering
  <2>. QED  BY <1>3, <1>4, <2>2
<1>. QED  BY <1>5

\* Of tests some of which fail, the first that does decides; otherwise the page is shown.
LEMMA TestedFails ==
  ASSUME NEW tests, Len(tests) \in Nat, NEW p, NEW i \in 1..Len(tests), tests[i].fails
  PROVE  \E j \in 1..Len(tests) : tests[j].fails /\ Tested(tests, p) = Refused(tests[j].ret)
<1>. DEFINE S == {j \in 1..Len(tests) : tests[j].fails}
<1>1. S \in SUBSET (0..Len(tests)) /\ S # {}
  OBVIOUS
<1>2. \E m \in S : \A x \in S : m <= x
  <2>. HIDE DEF S
  <2>. QED  BY <1>1, LeastOf
<1>3. Min(S) \in S
  BY <1>2 DEF Min
<1>4. Tested(tests, p) = Refused(tests[Min(S)].ret)
  <2>1. SelectInSeq(tests, LAMBDA t : t.fails) = Min(S)
    BY <1>1 DEF SelectInSeq
  <2>2. Min(S) # 0
    BY <1>3
  <2>. HIDE DEF S
  <2>. QED  BY <2>1, <2>2 DEF Tested
<1>. QED  BY <1>3, <1>4

LEMMA TestedPasses ==
  ASSUME NEW tests, Len(tests) \in Nat, NEW p, \A i \in 1..Len(tests) : ~tests[i].fails
  PROVE  Tested(tests, p) = p
<1>1. SelectInSeq(tests, LAMBDA t : t.fails) = 0
  BY DEF SelectInSeq
<1>. QED  BY <1>1 DEF Tested

\* A view either refuses a request or shows the page.
LEMMA TestedIs ==
  ASSUME NEW tests, NEW p
  PROVE  Tested(tests, p) = p \/ \E e : Tested(tests, p) = Refused(e)
BY DEF Tested

\* The tests refuse a request or leave its page as it is.
LEMMA TestedTells ==
  ASSUME NEW r, NEW p, Telling(r, p), NEW tests
  PROVE  Telling(r, Tested(tests, p))
BY TestedIs, RefusedTells

\* What a view returns
LEMMA SavingTells ==
  ASSUME NEW r, NEW p, Telling(r, p), NEW c \in BOOLEAN,
         c => (p.ret = 0 /\ r.app) \/ r.coin \in UtxoCoins \cup {"neo"}
  PROVE  Told(r, Saving(p, c))
<1>1. Saving(p, c) = [ret |-> p.ret, kind |-> p.kind, shows |-> p.shows, wrong |-> p.wrong,
                      cut |-> p.cut, pages |-> p.pages, logs |-> p.logs, save |-> c,
                      as |-> p.as, drop |-> FALSE]
  <2>1. Saving(p, c) = [p EXCEPT !.save = c]
    BY DEF Saving
  <2>. QED  BY <2>1 DEF Telling, Unsaved, IsPage
<1>. QED  BY <1>1 DEF Told, Telling, ShowsAll, Careful

\* A view that remembers the coin of a scanned request it accepts
LEMMA ShownTells ==
  ASSUME NEW r, NEW p, Telling(r, p), NEW c \in BOOLEAN,
         c => r.app \/ r.coin \in UtxoCoins \cup {"neo"}
  PROVE  Told(r, IfShown(p, c))
<1>. DEFINE d == c /\ p.ret = 0
<1>1. d \in BOOLEAN /\ (d => p.ret = 0 /\ (r.app \/ r.coin \in UtxoCoins \cup {"neo"}))
  OBVIOUS
<1>2. IfShown(p, c) = Saving(p, d)
  BY DEF IfShown
<1>. HIDE DEF d
<1>. QED  BY <1>1, <1>2, SavingTells

\* A view that changes no table, and one that another one tests again
LEMMA UnsavedTells ==
  ASSUME NEW r, NEW p, Telling(r, p)
  PROVE  Told(r, p)
BY DEF Telling, Told, Careful, Unsaved

LEMMA TestedTold ==
  ASSUME NEW r, NEW p, Told(r, p), NEW tests
  PROVE  Told(r, Tested(tests, p))
BY TestedIs, RefusedTells, UnsavedTells

OpType(coin, ops) ==
  [coin : {coin}, op : ops, uname : BOOLEAN, main : BOOLEAN, named : BOOLEAN, rate : BOOLEAN,
   parsed : BOOLEAN, amount : {"small", "fine", "huge"}, unit : {"kept", "lost"},
   memo : BOOLEAN, to : BOOLEAN, fee : BOOLEAN, app : BOOLEAN]

\* The fields of the requests with an operation
LEMMA OpTyped ==
  ASSUME NEW c, NEW ops, NEW r \in OpReqs(c, ops)
  PROVE  r \in OpType(c, ops)
<1>1. ASSUME NEW o \in ops, NEW u \in BOOLEAN, NEW m \in BOOLEAN, NEW n \in BOOLEAN,
             NEW x \in BOOLEAN,
             NEW p \in BOOLEAN
      PROVE  OpTested(c, o, u, m, n, x, p) \in OpType(c, ops)
  BY DEF OpBase, OpType, OpTested
<1>2. ASSUME NEW o \in ops, NEW a \in {"small", "fine", "huge"}, NEW k \in {"kept", "lost"},
             NEW m \in BOOLEAN, NEW t \in BOOLEAN, NEW f \in BOOLEAN, NEW q \in BOOLEAN
      PROVE  OpShown(c, o, a, k, m, t, f, q) \in OpType(c, ops)
  BY DEF OpBase, OpType, OpShown
<1>. QED  BY <1>1, <1>2 DEF OpReqs

\* What may be misprinted, what a number leaves on the page, and what the fields are
LEMMA OpDoubtful ==
  ASSUME NEW r, NEW c, NEW ops, r \in OpType(c, ops)
  PROVE  /\ c \in Doubles => Rounded(r.amount) \subseteq Doubtful(r)
         /\ c \in Doubles \ {"sui"} => UnitLost(r) \subseteq Doubtful(r)
         /\ c = "fil" => Texts(~r.fee, {"fee"}) \subseteq Doubtful(r)
         /\ Digits(r.amount) = {"amount"} \/ Is(r, "amount", {"none", "huge"})
         /\ Whole(r) => r.to /\ r.op \notin {"nft", "compressed"}
         /\ r.coin = c /\ r.op \in ops /\ r.app \in BOOLEAN
<1>1. r.coin = c /\ r.op \in ops /\ r.app \in BOOLEAN /\ {"amount", "unit", "fee", "to", "op"} \subseteq DOMAIN r
  BY DEF OpType
<1>2. Whole(r) => r.to /\ r.op \notin {"nft", "compressed"}
  BY DEF OpType, Whole, Is
<1>3. Digits(r.amount) = {"amount"} \/ Is(r, "amount", {"none", "huge"})
  BY DEF OpType, Is, Digits
<1>4. ASSUME c \in Doubles PROVE Rounded(r.amount) \subseteq Doubtful(r)
  BY <1>1, <1>4 DEF Rounded, Doubtful, AmountDoubtful, Is, Texts
<1>5. ASSUME c \in Doubles \ {"sui"} PROVE UnitLost(r) \subseteq Doubtful(r)
  BY <1>1, <1>5 DEF UnitLost, Doubtful, FeeDoubtful, Is, Texts
<1>6. ASSUME c = "fil" PROVE Texts(~r.fee, {"fee"}) \subseteq Doubtful(r)
  <2>1. r.fee \in BOOLEAN
    BY DEF OpType
  <2>. QED  BY <1>1, <1>6, <2>1 DEF Doubtful, FeeDoubtful, Is, Texts
<1>. QED  BY <1>1, <1>2, <1>3, <1>4, <1>5, <1>6

\* The pages these views have in common
LEMMA TransferTells ==
  ASSUME NEW r, NEW n
  PROVE  Telling(r, Transfer(n))
<1>1. {"amount", "to"} \subseteq {"amount", "fee"} \cup Addresses
  BY DEF Addresses
<1>. QED  BY <1>1, TransferPage, ShortenedTells DEF Transfer

LEMMA NftTells ==
  ASSUME NEW r, ~Whole(r), NEW g
  PROVE  Telling(r, NftPage(g))
BY TransferPage, ShortenedTells, LoggingTells DEF NftPage

LEMMA AppTells ==
  ASSUME NEW g
  PROVE  OtherPage(AppPage(g))
BY OtherPageIs, OtherPageKept DEF AppPage

\* What the pages of messages and of applications, and refusals, tell of any request
LEMMA OthersTell ==
  ASSUME NEW r
  PROVE  Telling(r, AppPage({})) /\ Telling(r, AppPage({"message"})) /\ Telling(r, Refused(-10300))
<1>1. Telling(r, AppPage({}))
  BY AppTells, OtherPageTells
<1>2. Telling(r, AppPage({"message"}))
  BY AppTells, OtherPageTells
<1>3. Telling(r, Refused(-10300))
  BY RefusedTells
<1>. QED  BY <1>1, <1>2, <1>3

\* coin/Solana
LEMMA SolTells ==
  ASSUME NEW r \in SolReqs
  PROVE  Told(r, SolView(r))
<1>1. r \in OpType("sol", SolTransfers \cup SolHardware \cup
                   {"nft", "compressed", "dapp", "message", "relayer", "nonce", "new"})
  BY OpTyped DEF SolReqs
<1>2. Telling(r, SolTransferPage(r))
  <2>1. Rounded(r.amount) \cup UnitLost(r) \subseteq Doubtful(r)
    BY <1>1, OpDoubtful DEF Doubles
  <2>. QED  BY <2>1, TransferTells, AddingTells, MisprintTells DEF SolTransferPage
<1>3. Telling(r, SolHardwarePage(r))
  <2>1. Texts(r.amount = "fine", {"amount"}) \subseteq Rounded(r.amount)
    BY DEF Texts, Rounded
  <2>2. Texts(r.amount = "fine", {"amount"}) \subseteq Doubtful(r)
    BY <1>1, <2>1, OpDoubtful DEF Doubles
  <2>. QED  BY <2>2, TransferTells, AddingTells, MisprintTells DEF SolHardwarePage
<1>4. r.op = "relayer" => Telling(r, SolRelayerPage(r))
  <2>. DEFINE f == {"amount", "from"} \cup Texts(r.named, {"token"}) \cup Texts(r.fee, {"fee"})
                   \cup Texts(r.to, {"to"})
  <2>1. "amount" \in f /\ (Whole(r) => "to" \in f)
    BY <1>1, OpDoubtful DEF Texts
  <2>3. r.op = "relayer" => "fee" \in f \/ Unpriced(r)
    BY <1>1 DEF Texts, Unpriced, Is, OpType
  <2>2. SolRelayerPage(r) = Shortened(Page("tx", f, 2), Addresses)
    BY DEF SolRelayerPage
  <2>. HIDE DEF f
  <2>. QED  BY <2>1, <2>2, <2>3, TransferPage, ShortenedTells
<1>. DEFINE nft == Misprint(NftPage({"nftid"} \cup Addresses), UnitLost(r))
            compressed == Misprint(Logging(Shortened(Page("tx", {"fee"} \cup Addresses, 2), Addresses), "none"),
                                   UnitLost(r))
            nonce == Logging(Page("app", {"fee"}, 1), "none")
<1>5. r.op = "nft" => Telling(r, nft)
  BY <1>1, OpDoubtful, NftTells, MisprintTells DEF Doubles
<1>6. r.op = "compressed" => Telling(r, compressed)
  <2>. SUFFICES ASSUME r.op = "compressed" PROVE Telling(r, compressed)
    OBVIOUS
  <2>1. ~Whole(r)
    BY <1>1 DEF OpType, Whole, Is
  <2>2. UnitLost(r) \subseteq Doubtful(r)
    BY <1>1, OpDoubtful DEF Doubles
  <2>. QED  BY <2>1, <2>2, TransferPage, ShortenedTells, LoggingTells, MisprintTells
<1>7. Telling(r, nonce)
  BY OtherPageIs, OtherPageKept, OtherPageTells
<1>8. Telling(r, SolBody(r))
  <2>. USE DEF SolTransfers, SolHardware
  <2>1. CASE r.op = "transfer"      BY <2>1, <1>2 DEF SolBody
  <2>2. CASE r.op = "token"         BY <2>2, <1>2 DEF SolBody
  <2>3. CASE r.op = "token2022"     BY <2>3, <1>2 DEF SolBody
  <2>4. CASE r.op = "nft"           BY <2>4, <1>5 DEF SolBody
  <2>5. CASE r.op = "compressed"    BY <2>5, <1>6 DEF SolBody
  <2>6. CASE r.op = "dapp"          BY <2>6, OthersTell DEF SolBody
  <2>7. CASE r.op = "message"       BY <2>7, OthersTell DEF SolBody
  <2>8. CASE r.op = "relayer"       BY <2>8, <1>4 DEF SolBody
  <2>9. CASE r.op = "nonce"         BY <2>9, <1>7 DEF SolBody
  <2>10. CASE r.op = "hardware"     BY <2>10, <1>3 DEF SolBody
  <2>11. CASE r.op = "hardware2022" BY <2>11, <1>3 DEF SolBody
  <2>12. CASE r.op = "create2022"   BY <2>12, <1>3 DEF SolBody
  <2>13. CASE r.op = "new"          BY <2>13, OthersTell DEF SolBody
  <2>. QED  BY <1>1, <2>1, <2>2, <2>3, <2>4, <2>5, <2>6, <2>7, <2>8, <2>9, <2>10, <2>11, <2>12,
               <2>13 DEF OpType
<1>. QED  BY <1>1, <1>8, TestedTells, ShownTells DEF SolView, OpType

\* coin/Near
LEMMA NearTells ==
  ASSUME NEW r \in NearReqs
  PROVE  Told(r, NearView(r))
<1>1. r \in OpType("near", {"register", "transfer", "dapp", "nft", "new"})
  BY OpTyped DEF NearReqs
<1>. DEFINE register == Logging(Shortened(Page("approval", {"fee", "contract", "pubkey"}, 2), {"pubkey"}), "none")
            f == Digits(r.amount) \cup {"money", "fee"} \cup Addresses
            transfer == Shortened(Page("tx", f, 2), Addresses)
            dapp == Adding(AppPage({"message"}), {"fee"})
            nft == NftPage(Addresses)
<1>2. Telling(r, register) /\ Telling(r, dapp)
  BY OtherPageIs, OtherPageKept, AppTells, OtherPageTells
<1>3. Telling(r, transfer)
  <2>1. "amount" \in f \/ Is(r, "amount", {"none", "huge"})
    BY <1>1, OpDoubtful
  <2>2. "fee" \in f /\ "to" \in f
    BY DEF Addresses
  <2>. HIDE DEF f
  <2>. QED  BY <2>1, <2>2, TransferPage, ShortenedTells
<1>4. r.op = "nft" => Telling(r, nft)
  BY <1>1, OpDoubtful, NftTells
<1>5. Telling(r, NearBody(r))
  <2>. HIDE DEF register, transfer, dapp, nft
  <2>1. CASE r.op = "register"      BY <2>1, <1>2 DEF NearBody, register
  <2>2. CASE r.op = "transfer"      BY <2>2, <1>3 DEF NearBody, transfer, f
  <2>3. CASE r.op = "dapp"          BY <2>3, <1>2 DEF NearBody, dapp
  <2>4. CASE r.op = "nft"           BY <2>4, <1>4 DEF NearBody, nft
  <2>5. CASE r.op = "new"           BY <2>5, OthersTell DEF NearBody
  <2>. QED  BY <1>1, <2>1, <2>2, <2>3, <2>4, <2>5 DEF OpType
<1>. QED  BY <1>1, <1>5, TestedTells, ShownTells DEF NearView, OpType

\* coin/Sui
LEMMA SuiTells ==
  ASSUME NEW r \in SuiReqs
  PROVE  Told(r, SuiView(r))
<1>1. r \in OpType("sui", {"transfer", "nft", "message", "swap", "new"})
  BY OpTyped DEF SuiReqs
<1>2. Telling(r, Misprint(Transfer(2), Rounded(r.amount)))
  <2>1. Rounded(r.amount) \subseteq Doubtful(r)
    BY <1>1, OpDoubtful DEF Doubles
  <2>. QED  BY <2>1, TransferTells, MisprintTells
<1>3. r.op = "nft" => Telling(r, NftPage({"nftid"} \cup Addresses))
  BY <1>1, OpDoubtful, NftTells
<1>4. Telling(r, SuiBody(r))
  BY <1>2, <1>3, OthersTell DEF SuiBody
<1>. QED  BY <1>1, <1>4, TestedTells, ShownTells DEF SuiView, OpType

\* Transfers that print the double, and are not in the history
LEMMA FloatTells ==
  ASSUME NEW r, NEW c, NEW ops, r \in OpType(c, ops), c \in Unlogged,
         c \in Doubles \ {"sui"}, NEW n
  PROVE  Telling(r, FloatTransfer(r, n))
<1>1. Rounded(r.amount) \cup UnitLost(r) \subseteq Doubtful(r)
  BY OpDoubtful
<1>2. r.coin \in Unlogged
  BY OpDoubtful
<1>. QED  BY <1>1, <1>2, TransferTells, MisprintTells, LoggingTells DEF FloatTransfer

\* coin/Ton
LEMMA TonTells ==
  ASSUME NEW r \in TonReqs
  PROVE  Told(r, TonView(r))
<1>1. r \in OpType("ton", {"transfer", "nft", "dapp", "message", "new"}) /\ "ton" \in Unlogged /\ "ton" \in Doubles \ {"sui"}
  BY OpTyped DEF TonReqs, Unlogged, Doubles
<1>. DEFINE pays == Adding(FloatTransfer(r, IF r.memo THEN 3 ELSE 2), Texts(r.memo, {"memo"}))
            nft == Misprint(NftPage({"nftid"} \cup Addresses), UnitLost(r))
            body == CASE r.op = "transfer" -> pays
                      [] r.op = "nft" -> nft
                      [] OTHER -> AppPage({})
<1>2. Telling(r, pays)
  BY <1>1, FloatTells, AddingTells
<1>3. r.op = "nft" => Telling(r, nft)
  BY <1>1, OpDoubtful, NftTells, MisprintTells
<1>4. Telling(r, body)
  <2>. HIDE DEF pays, nft
  <2>. QED  BY <1>2, <1>3, AppTells, OtherPageTells
<1>5. \E tests : TonView(r) = IfShown(Tested(tests, body), r.app)
  BY DEF TonView
<1>. HIDE DEF body
<1>. QED  BY <1>1, <1>4, <1>5, TestedTells, ShownTells DEF OpType

\* coin/Alph
LEMMA AlphTells ==
  ASSUME NEW r \in AlphReqs
  PROVE  Told(r, AlphView(r))
<1>1. r \in OpType("alph", {"transfer", "token", "nft", "dapp", "new"}) /\ "alph" \in Unlogged /\ "alph" \in Doubles \ {"sui"}
  BY OpTyped DEF AlphReqs, Unlogged, Doubles
<1>. DEFINE nft == Misprint(NftPage({"nftid"} \cup Addresses), UnitLost(r))
            body == CASE r.op \in {"transfer", "token"} -> FloatTransfer(r, 2)
                      [] r.op = "nft" -> nft
                      [] OTHER -> AppPage({})
<1>2. Telling(r, FloatTransfer(r, 2))
  BY <1>1, FloatTells
<1>3. r.op = "nft" => Telling(r, nft)
  BY <1>1, OpDoubtful, NftTells, MisprintTells
<1>4. Telling(r, body)
  <2>. HIDE DEF nft
  <2>. QED  BY <1>2, <1>3, OthersTell
<1>5. \E tests : AlphView(r) = IfShown(Tested(tests, body), r.app)
  BY DEF AlphView
<1>. HIDE DEF body
<1>. QED  BY <1>1, <1>4, <1>5, TestedTells, ShownTells DEF OpType

\* coin/Venom
LEMMA VenomTells ==
  ASSUME NEW r \in VenomReqs
  PROVE  Told(r, VenomView(r))
<1>1. r \in OpType("venom", {"transfer", "new"}) /\ "venom" \in Unlogged /\ "venom" \in Doubles \ {"sui"}
  BY OpTyped DEF VenomReqs, Unlogged, Doubles
<1>. QED  BY <1>1, FloatTells, TestedTells, ShownTells DEF VenomView, OpType

\* coin/Filecoin
LEMMA FilecoinTells ==
  ASSUME NEW r \in FilecoinReqs
  PROVE  Told(r, FilecoinView(r))
<1>1. r \in OpType("fil", {"transfer", "new"}) /\ "fil" \in Unlogged /\ "fil" \in Doubles \ {"sui"}
  BY OpTyped DEF FilecoinReqs, Unlogged, Doubles
<1>. DEFINE page0 == FloatTransfer(r, 2)
            g == page0.wrong \cup Texts(~r.fee, {"fee"})
            body == [page0 EXCEPT !.wrong = g]
<1>2. Telling(r, page0)
  BY <1>1, FloatTells
<1>3. Texts(~r.fee, {"fee"}) \subseteq Doubtful(r)
  BY <1>1, OpDoubtful
<1>4. Telling(r, body)
  <2>. HIDE DEF page0
  <2>1. g \subseteq Doubtful(r)
    BY <1>2, <1>3 DEF Telling
  <2>. HIDE DEF g
  <2>. QED  BY <1>2, <2>1 DEF Telling, ShowsAll, Unsaved, IsPage
<1>5. \E tests : FilecoinView(r) = IfShown(Tested(tests, body), r.app)
  BY DEF FilecoinView
<1>. HIDE DEF body
<1>. QED  BY <1>1, <1>4, <1>5, TestedTells, ShownTells DEF OpType

\* coin/Chromia
LEMMA ChromiaTells ==
  ASSUME NEW r \in ChromiaReqs
  PROVE  Told(r, ChromiaView(r))
<1>1. r \in OpType("chr", {"transfer", "register", "new"}) /\ "chr" \in Unlogged
  BY OpTyped DEF ChromiaReqs, Unlogged
<1>. DEFINE other == Shortened(Page("approval", {"network"}, 1), {"network"})
            body == IF r.op = "transfer" THEN Transfer(2) ELSE other
<1>2. Telling(r, other)
  BY OtherPageIs, OtherPageKept, OtherPageTells
<1>3. Telling(r, body)
  <2>. HIDE DEF other
  <2>. QED  BY <1>2, TransferTells
<1>4. Telling(r, Logging(body, "none"))
  <2>. HIDE DEF body
  <2>1. r.coin \in Unlogged
    BY <1>1 DEF OpType
  <2>. QED  BY <1>3, <2>1, LoggingTells
<1>5. \E tests : ChromiaView(r) = IfShown(Tested(tests, Logging(body, "none")), r.app)
  BY DEF ChromiaView
<1>. HIDE DEF body
<1>. QED  BY <1>1, <1>4, <1>5, TestedTells, ShownTells DEF OpType

\* coin/Multiversx
LEMMA MultiversxTells ==
  ASSUME NEW r \in MultiversxReqs
  PROVE  Told(r, MultiversxView(r))
<1>1. r \in OpType("egld", {"transfer", "token", "dapp", "message", "new"}) /\ "egld" \in Unlogged
  BY OpTyped DEF MultiversxReqs, Unlogged
<1>. DEFINE coin == r.op = "transfer"
            pays == Adding(Transfer(IF coin THEN 3 ELSE 2), Texts(coin /\ r.memo, {"memo"}))
            g == IF r.op = "dapp" THEN {} ELSE {"message"}
            body == CASE r.op \in {"transfer", "token"} -> pays
                      [] r.op \in {"dapp", "message"} -> AppPage(g)
                      [] OTHER -> Refused(-10300)
<1>2. Telling(r, pays)
  BY TransferTells, AddingTells
<1>3. Telling(r, AppPage(g))
  <2>. HIDE DEF g
  <2>. QED  BY AppTells, OtherPageTells
<1>4. Telling(r, body)
  <2>. HIDE DEF pays, g
  <2>. QED  BY <1>2, <1>3, OthersTell
<1>5. \E tests : MultiversxView(r) = IfShown(Tested(tests, Logging(body, "none")), r.app)
  BY DEF MultiversxView
<1>. HIDE DEF body
<1>6. Telling(r, Logging(body, "none"))
  <2>1. r.coin \in Unlogged
    BY <1>1 DEF OpType
  <2>. QED  BY <1>4, <2>1, LoggingTells
<1>. QED  BY <1>1, <1>5, <1>6, TestedTells, ShownTells DEF OpType

\* A memo only adds to a page.
LEMMA MemoTells ==
  ASSUME NEW r, NEW p, Telling(r, p)
  PROVE  Telling(r, WithMemo(r, p))
<1>. DEFINE q == Adding(p, {"memo"})
<1>1. Telling(r, q)
  BY AddingTells
<1>2. WithMemo(r, p) = p \/ WithMemo(r, p) = [q EXCEPT !.pages = 3]
  BY DEF WithMemo
<1>. HIDE DEF q
<1>3. Telling(r, [q EXCEPT !.pages = 3])
  BY <1>1 DEF Telling, ShowsAll, Unsaved, IsPage
<1>. QED  BY <1>2, <1>3

\* coin/Cosmos
LEMMA CosmosTells ==
  ASSUME NEW r \in CosmosReqs
  PROVE  Told(r, CosmosView(r))
<1>1. r \in OpType("atom", {"transfer", "token", "dapp", "new"})
  BY OpTyped DEF CosmosReqs
<1>. DEFINE f == Digits(r.amount) \cup {"fee"} \cup Addresses \cup Texts(r.to, {"tax"})
            pays == Page("tx", f, 2)
            dapp == Adding(AppPage({"message"}), {"fee", "gas"})
            body == CASE r.op \in {"transfer", "token"} -> pays
                      [] r.op = "dapp" -> dapp
                      [] OTHER -> Refused(-10300)
<1>2. Telling(r, pays)
  <2>1. /\ "amount" \in f \/ Is(r, "amount", {"none", "huge"})
        /\ "to" \in f /\ "fee" \in f
    BY <1>1, OpDoubtful DEF Addresses
  <2>. HIDE DEF f
  <2>. QED  BY <2>1, TransferPage
<1>3. Telling(r, dapp)
  BY AppTells, OtherPageKept, OtherPageTells
<1>4. Telling(r, body)
  <2>. HIDE DEF pays, dapp
  <2>. QED  BY <1>2, <1>3, OthersTell
<1>5. \E tests : CosmosView(r) = IfShown(Tested(tests, WithMemo(r, body)), r.app)
  BY DEF CosmosView
<1>. HIDE DEF body
<1>. QED  BY <1>1, <1>4, <1>5, MemoTells, TestedTells, ShownTells DEF OpType

\* coin/Inj
LEMMA InjTells ==
  ASSUME NEW r \in InjReqs
  PROVE  Told(r, InjView(r))
<1>1. r \in OpType("inj", {"transfer", "dapp", "new"})
  BY OpTyped DEF InjReqs
<1>. DEFINE f == Digits(r.amount) \cup {"money", "fee"} \cup Addresses
            pays == Page("tx", f, 2)
            body == CASE r.op = "transfer" -> pays
                      [] r.op = "dapp" -> AppPage({"message"})
                      [] OTHER -> Refused(-10300)
<1>2. Telling(r, pays)
  <2>1. /\ "amount" \in f \/ Is(r, "amount", {"none", "huge"})
        /\ "to" \in f /\ "fee" \in f
    BY <1>1, OpDoubtful DEF Addresses
  <2>. HIDE DEF f
  <2>. QED  BY <2>1, TransferPage
<1>4. Telling(r, body)
  <2>. HIDE DEF pays
  <2>. QED  BY <1>2, OthersTell
<1>5. \E tests : InjView(r) = IfShown(Tested(tests, WithMemo(r, body)), r.app)
  BY DEF InjView
<1>. HIDE DEF body
<1>. QED  BY <1>1, <1>4, <1>5, MemoTells, TestedTells, ShownTells DEF OpType

\* coin/Binance
LEMMA BncTells ==
  ASSUME NEW r \in BncReqs
  PROVE  Told(r, BncView(r))
<1>1. r \in OpType("bnc", {"transfer", "delegate", "order", "cancel"})
  BY OpTyped DEF BncReqs
<1>2. Telling(r, BncOrder(r))
  <2>. DEFINE order == {"side", "price", "amount"}
              f == order \cup {"from", "ordertype"}
              g == order \cup {"order", "time"}
  <2>1. BncOrder(r) \in {Page("order", f, 1), Shortened(Page("order", g, 1), {"order"})}
    BY DEF BncOrder
  <2>. HIDE DEF f, g
  <2>. QED  BY <2>1, OtherPageIs, OtherPageKept, OtherPageTells
<1>3. Told(r, BncSend(r))
  <2>. DEFINE f == {"amount", "money"} \cup Texts(r.op = "transfer" \/ r.parsed, Addresses)
                   \cup Texts(r.op = "delegate", {"validator"})
                   \cup Texts(r.op = "transfer" /\ r.memo, {"memo"})
  <2>1. Whole(r) => {"amount", "to"} \subseteq f
    <3>1. Whole(r) => r.parsed
      BY <1>1 DEF Whole, Is, OpType
    <3>. QED  BY <3>1 DEF Texts, Addresses
  <2>2. Unpriced(r)
    BY <1>1 DEF OpType, Feeless, Unpriced
  <2>3. \E tests : BncSend(r) = IfShown(Tested(tests, Page("tx", f, 2)), r.app)
    BY DEF BncSend
  <2>. HIDE DEF f
  <2>4. Telling(r, Page("tx", f, 2))
    BY <2>1, <2>2, TransferPage
  <2>. QED  BY <1>1, <2>3, <2>4, TestedTells, ShownTells DEF OpType
<1>. QED  BY <1>2, <1>3, UnsavedTells DEF BncView

\* coin/Polkadot
LEMMA DotTells ==
  ASSUME NEW r \in DotReqs
  PROVE  Told(r, DotView(r))
<1>. DEFINE f == Digits(r.amount) \cup {"money", "fee"} \cup Addresses
<1>1. "amount" \in f \/ Is(r, "amount", {"none", "huge"})
  BY DEF DotReqs, Is, Digits
<1>2. "fee" \in f /\ "to" \in f
  BY DEF Addresses
<1>3. DotView(r) = Tested(DotTests(r), Page("tx", f, 2))
  BY DEF DotView
<1>. HIDE DEF f
<1>4. Telling(r, Page("tx", f, 2))
  BY <1>1, <1>2, TransferPage
<1>. QED  BY <1>3, <1>4, TestedTells, UnsavedTells

\* coin/Stellar
LEMMA XlmTells ==
  ASSUME NEW r \in XlmReqs
  PROVE  Told(r, XlmView(r))
<1>. DEFINE f == {"amount", "money"} \cup Addresses \cup Texts(r.memo # "none", {"memo"})
            trust == Logging(Page("tx", {"token", "contract"}, 1), "none")
            body == IF r.op = "trust" THEN trust ELSE Page("tx", f, 2)
            c == r.app /\ r.op = "payment"
<1>1. Unpriced(r) /\ {"amount", "to"} \subseteq f
  BY DEF XlmReqs, Feeless, Unpriced, Addresses
<1>2. r.op = "trust" => ~Whole(r)
  BY DEF XlmReqs, Whole, Is
<1>3. Telling(r, Page("tx", f, 2))
  <2>. HIDE DEF f
  <2>. QED  BY <1>1, TransferPage
<1>4. r.op = "trust" => Telling(r, trust)
  BY <1>2, TransferPage, LoggingTells
<1>5. Telling(r, body)
  <2>. HIDE DEF f, trust
  <2>. QED  BY <1>3, <1>4
<1>6. c \in BOOLEAN /\ (c => r.app)
  BY DEF XlmReqs
<1>7. XlmView(r) = IfShown(Tested(XlmTests(r), body), c)
  BY DEF XlmView
<1>. HIDE DEF body, c
<1>. QED  BY <1>5, <1>6, <1>7, TestedTells, ShownTells

\* coin/Cardano
LEMMA AdaTells ==
  ASSUME NEW r \in AdaReqs
  PROVE  Told(r, AdaView(r))
<1>. DEFINE f == {"amount", "fee", "to"} \cup Texts(r.token, {"money"})
                 \cup Texts(r.change /\ ~r.stops, {"from"})
            w == Texts(r.recipients > 1, {"to"}) \cup Texts(r.stops, {"amount"}) \cup NumbersLost(r)
            body == Misprint(Shortened(Page("tx", f, 2), {"to", "from"}), w)
<1>1. {"amount", "to"} \subseteq f /\ "fee" \in f
  OBVIOUS
<1>2. w \subseteq Doubtful(r)
  <2>1. Texts(r.recipients > 1, {"to"}) \subseteq Doubtful(r)
    BY DEF AdaReqs, Is, Doubtful, PayeeDoubtful, Texts
  <2>2. Texts(r.stops, {"amount"}) \subseteq Doubtful(r)
    BY DEF AdaReqs, Is, Doubtful, AmountDoubtful, Texts
  <2>3. NumbersLost(r) \subseteq Doubtful(r)
    BY DEF AdaReqs, Is, Doubtful, AmountDoubtful, FeeDoubtful, Selves, Texts, NumbersLost
  <2>. QED  BY <2>1, <2>2, <2>3
<1>3. Telling(r, body)
  <2>. HIDE DEF f, w
  <2>. QED  BY <1>1, <1>2, TransferPage, ShortenedTells, MisprintTells
<1>4. \E tests : AdaView(r) = IfShown(Tested(tests, body), r.app)
  BY DEF AdaView
<1>5. r.app \in BOOLEAN
  BY DEF AdaReqs
<1>. HIDE DEF body
<1>. QED  BY <1>3, <1>4, <1>5, TestedTells, ShownTells

\* The coins with inputs and outputs, whatever error their sums found
LEMMA MoreTells ==
  ASSUME NEW r, NEW p, Telling(r, p)
  PROVE  Telling(r, ShowMore(p))
<1>1. ShowMore(p) = Adding(p, {"from"})
  BY DEF ShowMore, Adding
<1>. QED  BY <1>1, AddingTells

\* What may be lost or be of another output is doubtful.
LEMMA UtxoDoubtful ==
  ASSUME NEW r \in UtxoReqs
  PROVE  /\ r.coin \in {"btc", "kas"} => NumbersLost(r) \subseteq Doubtful(r)
         /\ r.brc \in {"nft", "unlock"} => {"to"} \subseteq Doubtful(r)
<1>1. r.coin \in UtxoCoins /\ "unit" \in DOMAIN r
  BY DEF UtxoReqs
<1>2. ASSUME r.coin \in {"btc", "kas"} PROVE NumbersLost(r) \subseteq Doubtful(r)
  BY <1>1, <1>2 DEF Doubtful, AmountDoubtful, FeeDoubtful, Selves, Is, Texts, NumbersLost
<1>3. ASSUME r.brc \in {"nft", "unlock"} PROVE {"to"} \subseteq Doubtful(r)
  BY <1>1, <1>3 DEF Doubtful, PayeeDoubtful, Texts
<1>. QED  BY <1>2, <1>3

\* coin/Bitcoin
LEMMA BtcTells ==
  ASSUME NEW r \in UtxoReqs, r.coin = "btc", NEW sums
  PROVE  Told(r, BtcView(r, sums))
<1>1. r.coin \in Unlogged /\ r.coin \in UtxoCoins
  BY DEF Unlogged, UtxoCoins
<1>2. Telling(r, BtcTransferPage(r, sums))
  <2>. DEFINE f == {"amount", "fee"} \cup Recipients(sums)
                   \cup Texts(r.brc \in {"plain", "send", "rune"}, {"money"})
                   \cup Texts(r.brc = "inscribe", {"memo"})
  <2>1. "amount" \in f /\ "fee" \in f
    OBVIOUS
  <2>2. BtcTransferPage(r, sums) = Logging(Shortened(ShowMore(Page("tx", f, 2)), {"to", "from"}), "none")
    BY DEF BtcTransferPage
  <2>. HIDE DEF f
  <2>. QED  BY <1>1, <2>1, <2>2, TransferPage, MoreTells, ShortenedTells, LoggingTells
<1>3. r.brc = "nft" => Telling(r, BtcNftPage(sums))
  <2>1. r.brc = "nft" => ~Whole(r)
    BY DEF UtxoReqs, Whole, Is
  <2>2. \E f : BtcNftPage(sums) = Logging(Shortened(Page("tx", f, 2), {"nftid", "from", "to"}), "none")
    BY DEF BtcNftPage
  <2>. QED  BY <2>1, <2>2, TransferPage, ShortenedTells, LoggingTells
<1>4. Telling(r, BtcBody(r, sums))
  <2>. DEFINE dapp == Logging(Shortened(Page("app", {"contract", "message"}, 1), {"message"}), "none")
              page0 == IF r.brc = "nft" THEN BtcNftPage(sums) ELSE BtcTransferPage(r, sums)
              wrong == BtcWrong(r, sums)
  <2>1. Telling(r, dapp)
    BY OtherPageIs, OtherPageKept, OtherPageTells
  <2>2. Telling(r, page0)
    BY <1>2, <1>3
  <2>3. BtcBody(r, sums) \in {dapp, Refused(-sums.err), Misprint(page0, wrong)}
    BY DEF BtcBody
  <2>4. wrong \subseteq Doubtful(r)
    BY UtxoDoubtful DEF BtcWrong, Texts
  <2>. HIDE DEF dapp, page0, wrong
  <2>5. Telling(r, Misprint(page0, wrong))
    BY <2>2, <2>4, MisprintTells
  <2>. QED  BY <2>1, <2>3, <2>5, RefusedTells
<1>. DEFINE tests == << Fail(~r.rate, -102), Fail(~r.known, -181) >>
            page0 == Tested(tests, BtcBody(r, sums))
            c == (r.rate /\ r.known /\ r.main) \/ (page0.ret = 0 /\ r.app)
<1>5. Telling(r, page0)
  BY <1>4, TestedTells
<1>6. BtcView(r, sums) = Saving(page0, c)
  BY DEF BtcView
<1>7. c \in BOOLEAN
  BY DEF UtxoReqs
<1>. HIDE DEF page0, c
<1>. QED  BY <1>1, <1>5, <1>6, <1>7, SavingTells

\* coin/Kaspa
LEMMA KasTells ==
  ASSUME NEW r \in UtxoReqs, r.coin = "kas", NEW sums
  PROVE  Told(r, KasView(r, sums))
<1>1. r.coin \in Unlogged /\ r.coin \in UtxoCoins
  BY DEF Unlogged, UtxoCoins
<1>. DEFINE f == {"amount", "money", "fee"} \cup Recipients(sums)
            page0 == Logging(Shortened(ShowMore(Page("tx", f, 2)), {"to", "from"}), "none")
            body == Misprint(page0, NumbersLost(r))
            c == r.rate /\ r.known /\ r.main
<1>2. "amount" \in f /\ "fee" \in f
  OBVIOUS
<1>3. Telling(r, page0)
  <2>. HIDE DEF f
  <2>. QED  BY <1>1, <1>2, TransferPage, MoreTells, ShortenedTells, LoggingTells
<1>4. Telling(r, body)
  <2>. HIDE DEF page0
  <2>. QED  BY <1>3, UtxoDoubtful, MisprintTells
<1>5. \E tests : KasView(r, sums) = Saving(Tested(tests, body), c)
  BY DEF KasView
<1>6. c \in BOOLEAN
  BY DEF UtxoReqs
<1>. HIDE DEF body, c
<1>. QED  BY <1>1, <1>4, <1>5, <1>6, TestedTells, SavingTells

\* coin/Nervos
LEMMA CkbTells ==
  ASSUME NEW r \in UtxoReqs, r.coin = "ckb", NEW sums
  PROVE  Told(r, CkbView(r, sums))
<1>1. r.coin \in UtxoCoins
  BY DEF UtxoCoins
<1>. DEFINE f == {"amount", "money", "fee"} \cup Recipients(sums)
            pays == ShowMore(Page("tx", f, 2))
            w == Texts(r.short \/ sums.lead = "change", {"to"})
            unlock == Misprint(Page("approval", {"to", "amount"}, 1), w)
            page0 == IF r.brc = "unlock" THEN unlock ELSE pays
            body == Shortened(page0, {"to", "from"})
            c == r.rate /\ r.known
<1>2. "amount" \in f /\ "fee" \in f
  OBVIOUS
<1>3. Telling(r, pays)
  <2>. HIDE DEF f
  <2>. QED  BY <1>1, <1>2, TransferPage, MoreTells
<1>7. r.brc = "unlock" => Telling(r, unlock)
  <2>1. r.brc = "unlock" => w \subseteq Doubtful(r)
    BY UtxoDoubtful DEF Texts
  <2>. HIDE DEF w
  <2>. QED  BY <2>1, OtherPageIs, OtherPageTells, MisprintTells
<1>4. Telling(r, body)
  <2>. HIDE DEF pays, unlock
  <2>. QED  BY <1>3, <1>7, ShortenedTells
<1>5. \E tests : CkbView(r, sums) = Saving(Tested(tests, body), c)
  BY DEF CkbView, CkbUnlockPage
<1>6. c \in BOOLEAN
  BY DEF UtxoReqs
<1>. HIDE DEF body, c
<1>. QED  BY <1>1, <1>4, <1>5, <1>6, TestedTells, SavingTells

\* All three
LEMMA UtxoTells ==
  ASSUME NEW r \in UtxoReqs, NEW sums
  PROVE  Told(r, UtxoView(r, sums))
<1>1. r.coin \in {"btc", "kas", "ckb"}
  BY DEF UtxoReqs, UtxoCoins
<1>. QED  BY <1>1, BtcTells, KasTells, CkbTells DEF UtxoView

\* A page that is one of a transfer names a recipient exactly if somebody is paid.
Names(sums, p) == IsPage(p) /\ (p.kind = "tx" => ("to" \in p.shows <=> sums.paid))

LEMMA NamesKept ==
  ASSUME NEW sums, NEW p, Names(sums, p), NEW g
  PROVE  /\ Names(sums, Shortened(p, g)) /\ Names(sums, Misprint(p, g)) /\ Names(sums, Logging(p, g))
         /\ Names(sums, Saving(p, g)) /\ Names(sums, ShowMore(p)) /\ Names(sums, Refused(g))
         /\ \A tests : Names(sums, Tested(tests, p))
<1>1. Names(sums, Shortened(p, g))
  <2>. DEFINE h == g \cap p.shows
  <2>1. Shortened(p, g) = [p EXCEPT !.cut = h]
    BY DEF Shortened
  <2>. HIDE DEF h
  <2>. QED  BY <2>1 DEF Names, IsPage
<1>2. Names(sums, Misprint(p, g))
  <2>. DEFINE h == g \cap p.shows
  <2>1. Misprint(p, g) = [p EXCEPT !.wrong = h]
    BY DEF Misprint
  <2>. HIDE DEF h
  <2>. QED  BY <2>1 DEF Names, IsPage
<1>3. Names(sums, Logging(p, g)) /\ Names(sums, Saving(p, g))
  BY DEF Names, IsPage, Logging, Saving
<1>4. Names(sums, ShowMore(p))
  <2>. DEFINE h == p.shows \cup {"from"}
  <2>1. ShowMore(p) = [p EXCEPT !.shows = h]
    BY DEF ShowMore
  <2>2. "to" \in h <=> "to" \in p.shows
    OBVIOUS
  <2>. HIDE DEF h
  <2>. QED  BY <2>1, <2>2 DEF Names, IsPage
<1>5. \A e : Names(sums, Refused(e))
  BY DEF Names, IsPage, Refused
<1>6. ASSUME NEW tests PROVE Names(sums, Tested(tests, p))
  BY <1>5, TestedIs
<1>. QED  BY <1>1, <1>2, <1>3, <1>4, <1>5, <1>6

LEMMA NamesPaid ==
  ASSUME NEW sums, NEW f, "to" \notin f, NEW k, NEW n
  PROVE  /\ Names(sums, Page("tx", f \cup Recipients(sums), n))
         /\ k # "tx" => Names(sums, Page(k, f, n))
<1>1. "to" \in f \cup Recipients(sums) <=> sums.paid
  BY DEF Recipients, Texts
<1>. DEFINE h == f \cup Recipients(sums)
<1>. HIDE DEF h
<1>2. Names(sums, Page("tx", h, n))
  BY <1>1 DEF Names, IsPage, Page, h
<1>. QED  BY <1>2 DEF Names, IsPage, Page, h

\* The views of the coins with outputs
LEMMA UtxoNames ==
  ASSUME NEW r \in UtxoReqs, NEW sums, r.brc # "nft"
  PROVE  Names(sums, UtxoView(r, sums))
<1>0. r.coin \in {"btc", "kas", "ckb"}
  BY DEF UtxoReqs, UtxoCoins
<1>1. CASE r.coin = "btc"
  <2>. DEFINE f == {"amount", "fee"} \cup Texts(r.brc \in {"plain", "send", "rune"}, {"money"})
                   \cup Texts(r.brc = "inscribe", {"memo"})
              dapp == Logging(Shortened(Page("app", {"contract", "message"}, 1), {"message"}), "none")
              pays == Logging(Shortened(ShowMore(Page("tx", f \cup Recipients(sums), 2)), {"to", "from"}), "none")
  <2>1. "to" \notin f
    BY DEF Texts
  <2>2. BtcTransferPage(r, sums) = pays
    <3>1. {"amount", "fee"} \cup Recipients(sums)
            \cup Texts(r.brc \in {"plain", "send", "rune"}, {"money"})
            \cup Texts(r.brc = "inscribe", {"memo"}) = f \cup Recipients(sums)
      OBVIOUS
    <3>. QED  BY <3>1 DEF BtcTransferPage
  <2>3. Names(sums, pays)
    <3>. HIDE DEF f
    <3>. QED  BY <2>1, NamesPaid, NamesKept
  <2>4. Names(sums, dapp)
    BY NamesPaid, NamesKept
  <2>5. BtcBody(r, sums) \in {dapp, Refused(-sums.err), Misprint(pays, BtcWrong(r, sums))}
    BY <2>2 DEF BtcBody
  <2>. HIDE DEF dapp, pays
  <2>6. Names(sums, BtcBody(r, sums))
    BY <2>3, <2>4, <2>5, NamesKept
  <2>7. \E tests, c : BtcView(r, sums) = Saving(Tested(tests, BtcBody(r, sums)), c)
    BY DEF BtcView
  <2>. QED  BY <1>1, <2>6, <2>7, NamesKept DEF UtxoView
<1>2. CASE r.coin = "kas"
  <2>. DEFINE f == {"amount", "money", "fee"}
              pays == Logging(Shortened(ShowMore(Page("tx", f \cup Recipients(sums), 2)), {"to", "from"}), "none")
              body == Misprint(pays, NumbersLost(r))
  <2>1. "to" \notin f
    OBVIOUS
  <2>2. \E tests, c : KasView(r, sums) = Saving(Tested(tests, body), c)
    BY DEF KasView
  <2>3. Names(sums, body)
    <3>. HIDE DEF f
    <3>. QED  BY <2>1, NamesPaid, NamesKept
  <2>. HIDE DEF body
  <2>. QED  BY <1>2, <2>2, <2>3, NamesKept DEF UtxoView
<1>3. CASE r.coin = "ckb"
  <2>. DEFINE f == {"amount", "money", "fee"}
              pays == ShowMore(Page("tx", f \cup Recipients(sums), 2))
              page0 == IF r.brc = "unlock" THEN CkbUnlockPage(r, sums) ELSE pays
              body == Shortened(page0, {"to", "from"})
  <2>1. "to" \notin f
    OBVIOUS
  <2>2. \E tests, c : CkbView(r, sums) = Saving(Tested(tests, body), c)
    BY DEF CkbView
  <2>3. Names(sums, pays)
    <3>. HIDE DEF f
    <3>. QED  BY <2>1, NamesPaid, NamesKept
  <2>4. Names(sums, CkbUnlockPage(r, sums))
    <3>1. \E w : CkbUnlockPage(r, sums) = Misprint(Page("approval", {"to", "amount"}, 1), w)
      BY DEF CkbUnlockPage
    <3>2. Names(sums, Page("approval", {"to", "amount"}, 1))
      BY DEF Names, IsPage, Page
    <3>. QED  BY <3>1, <3>2, NamesKept
  <2>5. Names(sums, body)
    <3>. HIDE DEF pays
    <3>. QED  BY <2>3, <2>4, NamesKept
  <2>. HIDE DEF body
  <2>. QED  BY <1>3, <2>2, <2>5, NamesKept DEF UtxoView
<1>. QED  BY <1>0, <1>1, <1>2, <1>3

\* coin/VeChain
LEMMA VetTells ==
  ASSUME NEW r \in VetReqs
  PROVE  Told(r, VetView(r))
<1>. DEFINE token == r.data \in {"transfer", "transferFrom"}
            named == ~r.known /\ token /\ r.token # "none"
            f == Digits(r.amount) \cup {"money", "fee", "gas", "from"}
                 \cup Texts(r.to \/ token, {"to"}) \cup Texts(r.data = "call", {"data"})
            n == IF r.data = "call" THEN 3 ELSE 2
            c == token /\ (r.known \/ named) /\ r.app
<1>1. /\ "amount" \in f \/ Is(r, "amount", {"none", "huge"})
      /\ Whole(r) => "to" \in f
      /\ "fee" \in f
  <2>1. Digits(r.amount) = {"amount"} \/ Is(r, "amount", {"none", "huge"})
    BY DEF VetReqs, Is, Digits, Amounts
  <2>2. Whole(r) => r.to
    BY DEF VetReqs, Whole, Is
  <2>. QED  BY <2>1, <2>2 DEF Texts
<1>2. \E tests : VetView(r) = IfShown(Tested(tests, Page("tx", f, n)), c)
  BY DEF VetView
<1>3. c \in BOOLEAN /\ (c => r.app)
  BY DEF VetReqs
<1>. HIDE DEF f, n, c
<1>4. Telling(r, Page("tx", f, n))
  BY <1>1, TransferPage
<1>. QED  BY <1>2, <1>3, <1>4, TestedTells, ShownTells

\* coin/Theta
LEMMA ThetaTells ==
  ASSUME NEW r \in ThetaReqs
  PROVE  Told(r, ThetaView(r))
<1>. DEFINE f == Digits(r.amount) \cup {"money", "fee", "from"} \cup Texts(r.to, {"to"})
<1>1. /\ "amount" \in f \/ Is(r, "amount", {"none", "huge"})
      /\ Whole(r) => "to" \in f
      /\ "fee" \in f
  <2>1. Digits(r.amount) = {"amount"} \/ Is(r, "amount", {"none", "huge"})
    BY DEF ThetaReqs, Is, Digits, Amounts
  <2>2. Whole(r) => r.to
    BY DEF ThetaReqs, Whole, Is
  <2>. QED  BY <2>1, <2>2 DEF Texts
<1>2. \E tests : ThetaView(r) = IfShown(Tested(tests, Page("tx", f, 2)), r.app)
  BY DEF ThetaView
<1>3. r.app \in BOOLEAN
  BY DEF ThetaReqs
<1>. HIDE DEF f
<1>4. Telling(r, Page("tx", f, 2))
  BY <1>1, TransferPage
<1>. QED  BY <1>2, <1>3, <1>4, TestedTells, ShownTells

\* coin/Harmony
LEMMA HarmonyTells ==
  ASSUME NEW r \in HarmonyReqs
  PROVE  Told(r, HarmonyView(r))
<1>. DEFINE f == Digits(r.amount) \cup {"money", "fee", "gas", "from"}
                 \cup Texts(r.to, {"to"}) \cup Texts(r.data # "none", {"data"})
            n == IF r.data # "none" THEN 3 ELSE 2
            w == Texts(r.gas = "wraps", {"fee"})
            body == Misprint(Page("tx", f, n), w)
<1>1. /\ "amount" \in f \/ Is(r, "amount", {"none", "huge"})
      /\ Whole(r) => "to" \in f
      /\ "fee" \in f
  <2>1. Digits(r.amount) = {"amount"} \/ Is(r, "amount", {"none", "huge"})
    BY DEF HarmonyReqs, Is, Digits, Amounts
  <2>2. Whole(r) => r.to
    BY DEF HarmonyReqs, Whole, Is
  <2>. QED  BY <2>1, <2>2 DEF Texts
<1>2. w \subseteq Doubtful(r)
  BY DEF HarmonyReqs, Is, Texts, Doubtful, FeeDoubtful
<1>3. Telling(r, body)
  <2>. HIDE DEF f, n, w
  <2>. QED  BY <1>1, <1>2, TransferPage, MisprintTells
<1>4. \E tests : HarmonyView(r) = IfShown(Tested(tests, body), r.app)
  BY DEF HarmonyView
<1>5. r.app \in BOOLEAN
  BY DEF HarmonyReqs
<1>. HIDE DEF body
<1>. QED  BY <1>3, <1>4, <1>5, TestedTells, ShownTells

\* coin/Custmsg
LEMMA CustTells ==
  ASSUME NEW r
  PROVE  Told(r, CustView(r))
<1>1. ASSUME NEW k, k # "tx", NEW t
      PROVE  Telling(r, CustMessage(k, t))
  BY <1>1, OtherPageIs, OtherPageKept, OtherPageTells DEF CustMessage
<1>2. Telling(r, CustBody(r))
  <2>1. CASE r.type = "text" /\ r.bytes
    BY <1>1, <2>1 DEF CustBody
  <2>2. CASE r.type = "text" /\ ~r.bytes
    BY <1>1, <2>2 DEF CustBody
  <2>3. CASE r.type = "login"
    <3>1. CustBody(r) = Page("login", {"from", "message"}, 1)
      BY <2>3 DEF CustBody
    <3>. QED  BY <3>1, OtherPageIs, OtherPageTells
  <2>4. CASE r.type = "auth"
    <3>1. CustBody(r) = Page("approval", {"from", "message"}, 1)
      BY <2>4 DEF CustBody
    <3>. QED  BY <3>1, OtherPageIs, OtherPageTells
  <2>5. CASE r.type = "withdraw"
    <3>1. \E f, n : CustBody(r) = Page("withdraw", f, n)
      BY <2>5 DEF CustBody
    <3>. QED  BY <3>1, OtherPageIs, OtherPageTells
  <2>6. CASE r.type = "typed"
    BY <1>1, <2>6 DEF CustBody
  <2>7. CASE r.type \notin {"text", "login", "auth", "withdraw", "typed"}
    <3>1. CustBody(r) = Refused(UnsupportUpgrade)
      BY <2>7 DEF CustBody
    <3>. QED  BY <3>1, RefusedTells
  <2>. QED  BY <2>1, <2>2, <2>3, <2>4, <2>5, <2>6, <2>7
<1>. QED  BY <1>2, TestedTells, UnsavedTells DEF CustView

\* coin/Ripple
LEMMA XrpTells ==
  ASSUME NEW r \in XrpReqs
  PROVE  Told(r, XrpView(r))
<1>1. Telling(r, XrpPayment(r))
  <2>. DEFINE f == {"amount", "money", "fee", "memo", "from", "to"}
  <2>1. {"amount", "to"} \subseteq f /\ "fee" \in f
    OBVIOUS
  <2>2. XrpPayment(r) = Tested(OwnAddress(r), Page("tx", f, 2))
    BY DEF XrpPayment
  <2>. HIDE DEF f
  <2>. QED  BY <2>1, <2>2, TransferPage, TestedTells
<1>2. r.op = "account" => Telling(r, XrpAccount(r))
  <2>. DEFINE some == Logging(Page("message", {"message"}, 1), "none")
              none == Logging(Page("tx", {}, 1), "none")
  <2>1. Telling(r, some)
    BY OtherPageIs, OtherPageKept, OtherPageTells
  <2>2. r.op = "account" => Telling(r, none)
    <3>1. r.op = "account" => ~Whole(r)
      BY DEF XrpReqs, Whole, Is
    <3>. QED  BY <3>1, TransferPage, LoggingTells
  <2>3. r.key = "long" => XrpAccount(r) = Refused(-1)
    BY DEF XrpAccount
  <2>4. r.key = "some" => XrpAccount(r) = some
    BY DEF XrpAccount
  <2>5. r.key = "none" => XrpAccount(r) = none
    BY DEF XrpAccount
  <2>6. r.key \in {"none", "some", "long"}
    BY DEF XrpReqs
  <2>. HIDE DEF some, none
  <2>. QED  BY <2>1, <2>2, <2>3, <2>4, <2>5, <2>6, RefusedTells
<1>. DEFINE body == CASE r.op = "pay" -> XrpPayment(r)
                      [] r.op = "account" -> XrpAccount(r)
                      [] OTHER -> Refused(-1)
<1>3. Telling(r, body)
  BY <1>1, <1>2, RefusedTells
<1>4. \E tests : XrpView(r) = IfShown(Tested(tests, body), r.app)
  BY DEF XrpView
<1>5. r.app \in BOOLEAN
  BY DEF XrpReqs
<1>. HIDE DEF body
<1>. QED  BY <1>3, <1>4, <1>5, TestedTells, ShownTells

\* coin/Eos
LEMMA EosTells ==
  ASSUME NEW r \in EosReqs
  PROVE  Told(r, EosView(r))
<1>1. Unpriced(r) /\ r.app \in BOOLEAN
  BY DEF EosReqs, Feeless, Unpriced
<1>2. Whole(r) => r.cpu /\ r.net
  BY DEF EosReqs, Whole
<1>3. Telling(r, EosBandwidth(r))
  <2>. DEFINE f == Texts(r.cpu, {"amount"}) \cup Texts(r.net, {"net"}) \cup {"from", "to"}
              l == IF r.cpu \/ r.net THEN "amount" ELSE "none"
  <2>1. Whole(r) => {"amount", "to"} \subseteq f /\ l = "amount"
    BY <1>2 DEF Texts
  <2>2. EosBandwidth(r) = Logging(Page("tx", f, 1), l)
    BY DEF EosBandwidth
  <2>. HIDE DEF f, l
  <2>. QED  BY <1>1, <2>1, <2>2, TransferPage, LoggingTells
<1>. DEFINE f == {"amount", "money", "from", "to"} \cup Texts(r.memo, {"memo"})
            g == {"amount", "money", "from", "to"}
            h == {"amount", "money", "from"}
            transfer == Saving(Page("tx", f, 2), r.app)
<1>4. Told(r, transfer)
  <2>1. {"amount", "to"} \subseteq f
    OBVIOUS
  <2>2. Page("tx", f, 2).ret = 0
    BY DEF Page
  <2>. HIDE DEF f
  <2>. QED  BY <1>1, <2>1, <2>2, TransferPage, SavingTells
<1>5. Telling(r, Page("tx", g, 1))
  <2>1. {"amount", "to"} \subseteq g
    OBVIOUS
  <2>. HIDE DEF g
  <2>. QED  BY <1>1, <2>1, TransferPage
<1>6. r.op = "sellram" => Telling(r, Page("tx", h, 1))
  <2>1. r.op = "sellram" => ~Whole(r)
    BY DEF EosReqs, Whole, Is
  <2>. HIDE DEF h
  <2>. QED  BY <2>1, TransferPage
<1>7. Told(r, EosBody(r))
  <2>. HIDE DEF transfer, g, h
  <2>1. CASE r.op = "transfer"      BY <2>1, <1>4 DEF EosBody, transfer
  <2>2. CASE r.op = "delegatebw"    BY <2>2, <1>3, UnsavedTells DEF EosBody
  <2>3. CASE r.op = "undelegatebw"  BY <2>3, <1>3, UnsavedTells DEF EosBody
  <2>4. CASE r.op = "buyram"        BY <2>4, <1>5, UnsavedTells DEF EosBody, g
  <2>5. CASE r.op = "sellram"       BY <2>5, <1>6, UnsavedTells DEF EosBody, h
  <2>6. CASE r.op = "new"           BY <2>6, RefusedTells, UnsavedTells DEF EosBody
  <2>. QED  BY <2>1, <2>2, <2>3, <2>4, <2>5, <2>6 DEF EosReqs
<1>. QED  BY <1>7, TestedTold DEF EosView

\* coin/Neo
LEMMA NeoTells ==
  ASSUME NEW r \in NeoReqs
  PROVE  Told(r, NeoView(r))
<1>1. /\ r.coin \in UtxoCoins \cup {"neo"} /\ r.app \in BOOLEAN
      /\ (r.token /\ r.known) \in BOOLEAN /\ TRUE \in BOOLEAN
  BY DEF NeoReqs
<1>2. Told(r, NeoInvocation(r))
  <2>. DEFINE f == {"amount", "money", "fee", "from", "to"}
  <2>1. {"amount", "to"} \subseteq f /\ "fee" \in f
    OBVIOUS
  <2>2. \E tests : NeoInvocation(r) = IfShown(Tested(tests, Page("tx", f, 2)), r.app)
    BY DEF NeoInvocation
  <2>. HIDE DEF f
  <2>3. Telling(r, Page("tx", f, 2))
    BY <2>1, TransferPage
  <2>. QED  BY <1>1, <2>2, <2>3, TestedTells, ShownTells
<1>3. "claim" \in r.types => Told(r, NeoClaim(r))
  <2>. DEFINE f == {"amount", "money"}
  <2>1. "claim" \in r.types => ~Whole(r)
    BY ZenonT(40) DEF NeoReqs, Whole, Is
  <2>2. PICK tests : NeoClaim(r) = Saving(Tested(tests, Page("tx", f, 1)),
                                          Tested(tests, Page("tx", f, 1)).ret = 0)
    BY DEF NeoClaim
  <2>. DEFINE q == Tested(tests, Page("tx", f, 1))
              c == q.ret = 0
  <2>. HIDE DEF f
  <2>3. "claim" \in r.types => Telling(r, q)
    BY <2>1, TransferPage, TestedTells
  <2>4. NeoClaim(r) = Saving(q, c) /\ c \in BOOLEAN
    BY <2>2
  <2>. HIDE DEF q, c
  <2>. QED  BY <1>1, <2>3, <2>4, SavingTells
<1>4. Told(r, NeoContract(r))
  <2>. DEFINE f == {"amount", "money", "fee", "to"}
              c == r.token /\ r.known
  <2>1. {"amount", "to"} \subseteq f /\ "fee" \in f
    OBVIOUS
  <2>2. \E tests : NeoContract(r) = Saving(Tested(tests, Page("tx", f, 2)), c)
    BY DEF NeoContract
  <2>. HIDE DEF f, c
  <2>3. Telling(r, Page("tx", f, 2))
    BY <2>1, TransferPage
  <2>. QED  BY <1>1, <2>2, <2>3, TestedTells, SavingTells DEF c
<1>. QED  BY <1>2, <1>3, <1>4, RefusedTells, UnsavedTells DEF NeoView

\* coin/Aptos: a request of an unknown kind has no page, and its test refuses it.
LEMMA AptosTells ==
  ASSUME NEW r \in AptosReqs
  PROVE  Told(r, AptosView(r))
<1>1. r \in OpType("apt", {"transfer", "dapp", "message", "new"})
  BY OpTyped DEF AptosReqs
<1>2. Telling(r, AptosTransfer(r))
  <2>. DEFINE f == {"contract", "fee", "from"}
              call == Shortened(Page("tx", f, 2), {"contract", "from"})
  <2>1. r.coin \in Unlogged
    BY <1>1 DEF OpType, Unlogged
  <2>2. r.to => Telling(r, FloatTransfer(r, 2))
    <3>1. "apt" \in Unlogged /\ "apt" \in Doubles \ {"sui"}
      BY DEF Unlogged, Doubles
    <3>. QED  BY <1>1, <3>1, FloatTells
  <2>3. ~r.to => ~Whole(r)
    BY <1>1 DEF OpType, Whole, Is
  <2>4. UnitLost(r) \subseteq Doubtful(r)
    BY <1>1, OpDoubtful DEF Doubles
  <2>5. ~r.to => Telling(r, call)
    <3>. HIDE DEF f
    <3>. QED  BY <2>3, TransferPage, ShortenedTells
  <2>6. ~r.to => Telling(r, Logging(Misprint(call, UnitLost(r)), "none"))
    <3>. HIDE DEF call
    <3>. QED  BY <2>3, <2>4, <2>5, MisprintTells, LoggingTells
  <2>. QED  BY <2>2, <2>6 DEF AptosTransfer
<1>3. Telling(r, [AppPage({"message"}) EXCEPT !.kind = "message"])
  <2>. DEFINE p == AppPage({"message"})
  <2>1. Unsaved(p) /\ p.wrong = {}
    BY AppTells DEF OtherPage
  <2>. HIDE DEF p
  <2>. DEFINE q == [p EXCEPT !.kind = "message"]
  <2>2. q = [ret |-> p.ret, kind |-> "message", shows |-> p.shows, wrong |-> p.wrong, cut |-> p.cut,
             pages |-> p.pages, logs |-> p.logs, save |-> p.save, as |-> p.as, drop |-> p.drop]
    BY <2>1 DEF Unsaved, IsPage
  <2>3. q.kind = "message" /\ q.wrong = p.wrong /\ q.save = p.save /\ q.drop = p.drop
    BY <2>2
  <2>4. IsPage(q)
    BY <2>2 DEF IsPage
  <2>. HIDE DEF q
  <2>5. OtherPage(q)
    BY <2>1, <2>3, <2>4 DEF OtherPage, Unsaved
  <2>. QED  BY <2>5, OtherPageTells DEF p, q
<1>4. Telling(r, Tested(AptosTests(r), AptosBody(r)))
  <2>1. CASE r.op = "transfer"   BY <2>1, <1>2, TestedTells DEF AptosBody
  <2>2. CASE r.op = "dapp"       BY <2>2, OthersTell, TestedTells DEF AptosBody
  <2>3. CASE r.op = "message"    BY <2>3, <1>3, TestedTells DEF AptosBody
  <2>4. CASE r.op = "new"
    <3>. DEFINE tests == AptosTests(r)
    <3>1. Len(tests) = 4 /\ tests[2].fails
      BY <2>4 DEF AptosTests, Fail
    <3>. HIDE DEF tests
    <3>2. 2 \in 1..Len(tests) /\ Len(tests) \in Nat
      BY <3>1
    <3>3. \E e : Tested(tests, AptosBody(r)) = Refused(e)
      BY <3>1, <3>2, TestedFails
    <3>. QED  BY <3>3, RefusedTells DEF tests
  <2>. QED  BY <1>1, <2>1, <2>2, <2>3, <2>4 DEF OpType
<1>. QED  BY <1>1, <1>4, ShownTells DEF AptosView, OpType

VoteCounts == 0..7
TronOthers == DOMAIN TronContract \cup {"vote", "new"}

TronType ==
  [coin : {"tron"}, op : TronTransfers \cup TronOthers,
   coinok : BOOLEAN, uname : BOOLEAN, late : BOOLEAN, from : BOOLEAN, to : BOOLEAN,
   path : {"ok", "bad", "nokey"}, big : BOOLEAN, amount : {"small", "huge"},
   stack : {"blank", "text"}, station : BOOLEAN, memo : BOOLEAN, votes : VoteCounts, app : BOOLEAN]

LEMMA TronTyped ==
  ASSUME NEW r \in TronReqs
  PROVE  r \in TronType
<1>0. 0 \in VoteCounts /\ "trx" \in TronTransfers /\ {"trx", "trc20"} \subseteq TronTransfers
  BY DEF TronTransfers, VoteCounts
<1>1. ASSUME NEW o \in {"trx", "trc20"}, NEW p \in {"ok", "bad", "nokey"}, NEW f \in BOOLEAN,
             NEW t \in BOOLEAN
      PROVE  TronParties(o, p, f, t) \in TronType
  BY <1>0 DEF TronParties, TronBase, TronType
<1>2. ASSUME NEW c \in BOOLEAN, NEW u \in BOOLEAN, NEW l \in BOOLEAN
      PROVE  TronCoin(c, u, l) \in TronType
  BY <1>0 DEF TronCoin, TronBase, TronType
<1>3. ASSUME NEW o \in TronTransfers, NEW b \in BOOLEAN, NEW a \in {"small", "huge"},
             NEW k \in {"blank", "text"}, NEW s \in BOOLEAN,
             NEW m \in BOOLEAN, NEW q \in BOOLEAN
      PROVE  TronSent(o, b, a, k, s, m, q) \in TronType
  BY <1>0 DEF TronSent, TronBase, TronType
<1>4. ASSUME NEW o \in TronOthers, NEW n \in VoteCounts
      PROVE  TronOther(o, n) \in TronType
  BY DEF TronOther, TronBase, TronType
<1>5. "vote" \in TronOthers /\ DOMAIN TronContract \cup {"new"} \subseteq TronOthers /\ VoteCounts = 0..7
  BY DEF TronOthers, VoteCounts
<1>. QED  BY <1>1, <1>2, <1>3, <1>4, <1>5 DEF TronReqs

\* coin/Tron
LEMMA TronTells ==
  ASSUME NEW r \in TronReqs
  PROVE  Told(r, TronView(r))
<1>1. r \in TronType
  BY TronTyped
<1>2. Unpriced(r) /\ r.app \in BOOLEAN /\ r.coin = "tron"
  BY <1>1 DEF TronType, Feeless, Unpriced
<1>3. Telling(r, TronTransferPage(r))
  <2>. DEFINE station == r.op = "trc20" /\ r.station
              f == {"money", "from", "to"} \cup Texts(station, {"fee"}) \cup Texts(r.memo, {"memo"})
                   \cup Texts(TronUnread(r) => r.stack = "text", {"amount"})
              n == IF station /\ r.memo THEN 3 ELSE 2
              w == Texts(TronUnread(r), {"amount"})
  <2>1. TronUnread(r) => Is(r, "amount", {"none", "huge"}) /\ Is(r, "amount", {"huge"})
    BY <1>1 DEF TronType, TronUnread, Is
  <2>2. "to" \in f /\ ("amount" \in f \/ Is(r, "amount", {"none", "huge"}))
    BY <2>1 DEF Texts
  <2>3. TronTransferPage(r) = Misprint(Page("tx", f, n), w)
    BY DEF TronTransferPage
  <2>4. w \subseteq Doubtful(r)
    BY <1>2, <2>1 DEF Texts, Doubtful, AmountDoubtful
  <2>. HIDE DEF f, n, w
  <2>. QED  BY <1>2, <2>2, <2>3, <2>4, TransferPage, MisprintTells
<1>4. Telling(r, Logging(TronVote(r.votes), "none"))
  <2>1. \E f, n : TronVote(r.votes) = Page("message", f, n)
    BY DEF TronVote
  <2>. QED  BY <2>1, OtherPageIs, OtherPageKept, OtherPageTells
<1>5. ASSUME r.op \in DOMAIN TronContract
      PROVE  Telling(r, Logging(TronContract[r.op], "none"))
  <2>1. /\ OtherPage(TronContract["smart"]) /\ OtherPage(TronContract["freeze"])
        /\ OtherPage(TronContract["unfreeze"]) /\ OtherPage(TronContract["stake"])
        /\ OtherPage(TronContract["delegate"]) /\ OtherPage(TronContract["chain"])
    BY OtherPageIs, OtherPageKept DEF TronContract
  <2>2. r.op \in {"smart", "freeze", "unfreeze", "stake", "delegate", "chain"}
    BY <1>5 DEF TronContract
  <2>. DEFINE p == TronContract[r.op]
  <2>3. OtherPage(p)
    BY <2>1, <2>2
  <2>. HIDE DEF p
  <2>4. Telling(r, Logging(p, "none"))
    BY <2>3, OtherPageKept, OtherPageTells
  <2>. QED  BY <2>4 DEF p
<1>. QED  BY <1>2, <1>3, <1>4, <1>5, TestedTells, ShownTells, UnsavedTells,
             RefusedTells DEF TronView

\* The requests of the EVM family: an account with code names its calls.
EthSigns == 0..3
EthCalls == 0..2
EthDatas == {"none", "call", "transfer", "transferFrom", "safeTransferFrom", "approve"}
EthExtras == {"none", "coin", "erc1155", "erc721"}
EthKinds == {"legacy", "1559", "7702", "7702update", "uapprove", "uapprove7702"}
EthTokens == {"none", "same", "renamed", "othertype", "noname", "decimals"}

EthType ==
  [coin : {"eth"}, sign : EthSigns, data : EthDatas, nft : BOOLEAN, extra : EthExtras, tx : EthKinds,
   known : BOOLEAN, evm : BOOLEAN, custom : BOOLEAN, token : EthTokens,
   contract : {"ok", "noname", "noid", "other"}, rate : BOOLEAN, amount : Amounts,
   gas : {"fits", "wraps"}, path : {"ok", "bad", "nokey"}, calls : EthCalls,
   call : {"transfer", "approve"}, station : BOOLEAN, tip : Amounts \ {"none"}, to : BOOLEAN,
   app : BOOLEAN]

EthShape(r) ==
  /\ r \in EthType
  /\ r.tx \in {"7702", "7702update"} => r.calls \in 1..2

LEMMA EthSets ==
  /\ 0 \in EthSigns /\ 0 \in EthCalls /\ 1..2 \subseteq EthCalls /\ 0..3 = EthSigns
  /\ {"none", "call", "transfer", "transferFrom", "safeTransferFrom", "approve"} \subseteq EthDatas
  /\ {"none", "coin", "erc1155", "erc721"} \subseteq EthExtras
  /\ {"legacy", "1559", "7702", "7702update", "uapprove", "uapprove7702"} \subseteq EthKinds
  /\ {"none", "same", "renamed", "othertype", "noname", "decimals"} \subseteq EthTokens
  /\ {"small", "fine", "huge"} = Amounts \ {"none"}
BY DEF EthSigns, EthCalls, EthDatas, EthExtras, EthKinds, EthTokens, Amounts

LEMMA EthShaped ==
  ASSUME NEW r \in EthReqs
  PROVE  EthShape(r)
<1>0. EthBase \in EthType
  BY EthSets DEF EthBase, EthType
<1>1. ASSUME NEW d \in {"none", "call", "transfer", "transferFrom"}, NEW n \in BOOLEAN,
             NEW e \in {"none", "coin"}, NEW t \in {"legacy", "1559"}, NEW a \in Amounts,
             NEW g \in {"fits", "wraps"}, NEW k \in BOOLEAN, 
             NEW o \in {"none", "same", "renamed", "othertype", "noname", "decimals"}
      PROVE  EthShape(EthCall(d, n, e, t, a, g, k, o))
  <2>0. d \in EthDatas /\ e \in EthExtras /\ t \in EthKinds
    BY EthSets
  <2>. DEFINE v == IF k THEN "none" ELSE o
  <2>1. v \in EthTokens
    BY EthSets
  <2>2. EthCall(d, n, e, t, a, g, k, o) =
          [EthBase EXCEPT !.data = d, !.nft = n, !.extra = e, !.tx = t, !.amount = a, !.gas = g,
                          !.known = k, !.token = v]
    BY DEF EthCall
  <2>. HIDE DEF v
  <2>. DEFINE h == [EthBase EXCEPT !.data = d, !.nft = n, !.extra = e, !.tx = t]
  <2>3. h \in EthType
    BY <1>0, <2>0 DEF EthType
  <2>4. EthCall(d, n, e, t, a, g, k, o) = [h EXCEPT !.amount = a, !.gas = g, !.known = k, !.token = v]
    BY <2>2 DEF EthBase
  <2>. HIDE DEF h
  <2>5. EthCall(d, n, e, t, a, g, k, o) \in EthType
    BY <2>0, <2>1, <2>3, <2>4, ZenonT(40) DEF EthType
  <2>6. /\ EthCall(d, n, e, t, a, g, k, o).tx = t
        /\ EthCall(d, n, e, t, a, g, k, o).calls = 0
    BY <2>2 DEF EthBase
  <2>. QED  BY <2>5, <2>6 DEF EthShape
<1>2. ASSUME NEW d \in {"transfer", "transferFrom", "safeTransferFrom"},
             NEW o \in {"same", "renamed", "noname", "othertype"}, NEW p \in {"ok", "bad", "nokey"}
      PROVE  EthShape(EthNft(d, o, p))
  <2>0. d \in EthDatas /\ o \in EthTokens
    BY EthSets
  <2>. DEFINE e == IF d = "safeTransferFrom" THEN "erc1155" ELSE "erc721"
              f == FALSE
  <2>1. e \in EthExtras /\ f \in BOOLEAN
    BY EthSets
  <2>2. EthNft(d, o, p) =
          [EthBase EXCEPT !.data = d, !.extra = e, !.known = f, !.token = o, !.path = p]
    BY DEF EthNft
  <2>. HIDE DEF e, f
  <2>3. EthNft(d, o, p) \in EthType
    BY <1>0, <2>0, <2>1, <2>2, ZenonT(40) DEF EthType
  <2>4. /\ EthNft(d, o, p).tx = "legacy"
        /\ EthNft(d, o, p).calls = 0
    BY <2>2 DEF EthBase
  <2>. QED  BY <2>3, <2>4 DEF EthShape
<1>3. ASSUME NEW p \in {"ok", "bad", "nokey"}, NEW e \in BOOLEAN, NEW k \in BOOLEAN,
             NEW x \in BOOLEAN,
             NEW t \in BOOLEAN, NEW f \in BOOLEAN, NEW d \in {"none", "transfer"}
      PROVE  EthShape(EthPath(p, e, k, x, t, f, d))
  <2>0. d \in EthDatas
    BY EthSets
  <2>. DEFINE v == IF k THEN "none" ELSE "renamed"
  <2>1. v \in EthTokens
    BY EthSets
  <2>2. EthPath(p, e, k, x, t, f, d) =
          [EthBase EXCEPT !.path = p, !.evm = e, !.known = k, !.rate = x, !.to = t, !.app = f, !.data = d,
                          !.token = v]
    BY DEF EthPath
  <2>. HIDE DEF v
  <2>. DEFINE h == [EthBase EXCEPT !.path = p, !.evm = e, !.known = k, !.rate = x]
  <2>3. h \in EthType
    BY <1>0, <2>0 DEF EthType
  <2>4. EthPath(p, e, k, x, t, f, d) = [h EXCEPT !.to = t, !.app = f, !.data = d, !.token = v]
    BY <2>2 DEF EthBase
  <2>. HIDE DEF h
  <2>5. EthPath(p, e, k, x, t, f, d) \in EthType
    BY <2>0, <2>1, <2>3, <2>4, ZenonT(40) DEF EthType
  <2>6. /\ EthPath(p, e, k, x, t, f, d).tx = "legacy"
        /\ EthPath(p, e, k, x, t, f, d).calls = 0
    BY <2>2 DEF EthBase
  <2>. QED  BY <2>5, <2>6 DEF EthShape
<1>4. ASSUME NEW s \in 0..3, NEW d \in {"none", "call", "approve"},
             NEW c \in {"ok", "noname", "noid", "other"}, NEW t \in BOOLEAN, NEW f \in BOOLEAN
      PROVE  EthShape(EthApp(s, d, c, t, f))
  BY EthSets, ZenonT(40) DEF EthApp, EthBase, EthShape, EthType
<1>5. ASSUME NEW t \in {"7702", "7702update", "uapprove", "uapprove7702"}, NEW k \in BOOLEAN,
             NEW o \in {"none", "same", "renamed"}, NEW n \in 1..2,
             NEW c \in {"transfer", "approve"},
             NEW g \in BOOLEAN, NEW a \in {"small", "fine", "huge"},
             NEW p \in {"small", "fine", "huge"}, NEW f \in BOOLEAN
      PROVE  EthShape(EthCode(t, k, o, n, c, g, a, p, f))
  <2>0. n \in EthCalls /\ t \in EthKinds /\ o \in EthTokens /\ a \in Amounts /\ p \in Amounts \ {"none"}
    BY EthSets
  <2>2. EthCode(t, k, o, n, c, g, a, p, f) =
          [EthBase EXCEPT !.tx = t, !.known = k, !.token = o, !.calls = n, !.call = c, !.station = g,
                          !.amount = a, !.tip = p, !.app = f]
    BY DEF EthCode
  <2>. DEFINE h == [EthBase EXCEPT !.tx = t, !.known = k, !.token = o, !.calls = n]
  <2>3. h \in EthType
    BY <1>0, <2>0 DEF EthType
  <2>. DEFINE i == [h EXCEPT !.call = c, !.station = g]
  <2>4. EthCode(t, k, o, n, c, g, a, p, f) = [i EXCEPT !.amount = a, !.tip = p, !.app = f]
    BY <2>2 DEF EthBase
  <2>. HIDE DEF h
  <2>7. i \in EthType
    BY <2>0, <2>3, ZenonT(40) DEF EthType
  <2>. HIDE DEF i
  <2>5. EthCode(t, k, o, n, c, g, a, p, f) \in EthType
    BY <2>0, <2>4, <2>7, ZenonT(40) DEF EthType
  <2>6. /\ EthCode(t, k, o, n, c, g, a, p, f).tx = t
        /\ EthCode(t, k, o, n, c, g, a, p, f).calls = n
    BY <2>2 DEF EthBase
  <2>. QED  BY <2>5, <2>6 DEF EthShape
<1>6. ASSUME NEW s \in 0..3, NEW d \in {"none", "transfer", "transferFrom"}, NEW c \in BOOLEAN,
             NEW p \in {"ok", "bad"}, NEW f \in BOOLEAN
      PROVE  EthShape(EthOld(s, d, c, p, f))
  <2>0. s \in EthSigns /\ d \in EthDatas /\ p \in {"ok", "bad", "nokey"}
    BY EthSets
  <2>. DEFINE k == FALSE
              v == "renamed"
  <2>1. k \in BOOLEAN /\ v \in EthTokens
    BY EthSets
  <2>2. EthOld(s, d, c, p, f) =
          [EthBase EXCEPT !.sign = s, !.data = d, !.custom = c, !.path = p, !.app = f,
                          !.known = k, !.token = v]
    BY DEF EthOld
  <2>. HIDE DEF k, v
  <2>. DEFINE h == [EthBase EXCEPT !.sign = s, !.data = d, !.custom = c, !.path = p]
  <2>3. h \in EthType
    BY <1>0, <2>0 DEF EthType
  <2>4. EthOld(s, d, c, p, f) = [h EXCEPT !.app = f, !.known = k, !.token = v]
    BY <2>2 DEF EthBase
  <2>. HIDE DEF h
  <2>5. EthOld(s, d, c, p, f) \in EthType
    BY <2>1, <2>3, <2>4, ZenonT(40) DEF EthType
  <2>6. EthOld(s, d, c, p, f).tx = "legacy"
    BY <2>2 DEF EthBase
  <2>. QED  BY <2>5, <2>6 DEF EthShape
<1>7. r \in EthCallReqs => EthShape(r)
  BY <1>1 DEF EthCallReqs
<1>8. r \in EthNftReqs => EthShape(r)
  BY <1>2 DEF EthNftReqs
<1>9. r \in EthPathReqs => EthShape(r)
  BY <1>3 DEF EthPathReqs
<1>10. r \in EthAppReqs => EthShape(r)
  BY <1>4 DEF EthAppReqs
<1>11. r \in EthCodeReqs => EthShape(r)
  <2>. SUFFICES ASSUME r \in EthCodeReqs PROVE EthShape(r)
    OBVIOUS
  <2>1. PICK t \in {"7702", "7702update", "uapprove", "uapprove7702"}, k \in BOOLEAN,
             o \in {"none", "same", "renamed"}, n \in 1..2, c \in {"transfer", "approve"},
             g \in BOOLEAN, a \in {"small", "fine", "huge"}, p \in {"small", "fine", "huge"},
             f \in BOOLEAN : r = EthCode(t, k, o, n, c, g, a, p, f)
    BY DEF EthCodeReqs
  <2>2. EthShape(EthCode(t, k, o, n, c, g, a, p, f))
    BY <1>5
  <2>. QED  BY <2>1, <2>2
<1>12. r \in EthOldReqs => EthShape(r)
  BY <1>6 DEF EthOldReqs
<1>. QED  BY <1>7, <1>8, <1>9, <1>10, <1>11, <1>12 DEF EthReqs

\* A fee the view multiplies without a test, or is paid in a token
LEMMA EthFeeDoubtful ==
  ASSUME NEW r, EthShape(r)
  PROVE  /\ Texts(EthTipWrong(r), {"fee"}) \subseteq Doubtful(r)
         /\ Texts((r.tx = "1559" /\ r.gas = "wraps") \/ EthTipWrong(r), {"fee"}) \subseteq Doubtful(r)
<1>1. {"gas", "tip"} \subseteq DOMAIN r /\ r.tip \in Amounts \ {"none"}
  BY DEF EthShape, EthType
<1>2. r.tip # "small" => Is(r, "tip", {"fine", "huge"})
  BY <1>1 DEF Amounts, Is
<1>. QED  BY <1>1, <1>2 DEF EthTipWrong, Doubtful, FeeDoubtful, Is, Texts

\* coin/Ethereum: a transfer
LEMMA EthTransferTells ==
  ASSUME NEW r, EthShape(r)
  PROVE  Telling(r, EthTransferPage(r))
<1>. DEFINE f == EthAmount(r) \cup EthFee(r) \cup EthFrom(r)
                 \cup Texts(r.to \/ Eth7702(r), {"to"})
                 \cup Texts(r.data # "none" /\ EthMethod(r) = "none", {"data"})
            n == IF "data" \in f THEN 3 ELSE 2
            w == Texts(EthAmountWrong(r), {"amount"}) \cup Texts(EthFeeWrong(r), {"fee"})
<1>1. r.amount \in {"small", "fine"} \/ Is(r, "amount", {"none", "huge"})
  BY DEF EthShape, EthType, Is, Amounts
<1>2. Texts(EthAmountWrong(r), {"amount"}) \subseteq Doubtful(r)
  <2>1. {"amount", "tx"} \subseteq DOMAIN r
    BY DEF EthShape, EthType
  <2>. QED  BY <2>1 DEF EthAmountWrong, Eth7702, Doubtful, AmountDoubtful, Is, Texts
<1>3. Whole(r) => r.to
  BY DEF EthShape, EthType, Whole, Is
<1>4. "amount" \in f \/ Is(r, "amount", {"none", "huge"})
  BY <1>1 DEF EthAmount, Digits
<1>5. Whole(r) => "to" \in f
  BY <1>3 DEF Texts
<1>6. "fee" \in f \/ Unpriced(r)
  <2>1. CASE ~Eth7702(r)
    BY <2>1 DEF EthFee
  <2>2. CASE Eth7702(r) /\ (r.station \/ r.calls >= 2)
    BY <2>2 DEF EthFee, Texts
  <2>3. CASE Eth7702(r) /\ ~(r.station \/ r.calls >= 2)
    <3>1. r.calls = 1
      BY <2>3 DEF EthShape, Eth7702
    <3>2. "calls" \in DOMAIN r
      BY DEF EthShape, EthType
    <3>. QED  BY <2>3, <3>1, <3>2 DEF Is, Unpriced
  <2>. QED  BY <2>1, <2>2, <2>3
<1>7. w \subseteq Doubtful(r)
  BY <1>2, EthFeeDoubtful DEF EthFeeWrong
<1>8. EthTransferPage(r) = Misprint(Page("tx", f, n), w)
  BY DEF EthTransferPage
<1>. HIDE DEF f, n, w
<1>. QED  BY <1>4, <1>5, <1>6, <1>7, <1>8, TransferPage, MisprintTells

\* Its other branches; a transfer is refused for its path only
LEMMA EthBodyTells ==
  ASSUME NEW r, EthShape(r)
  PROVE  /\ Telling(r, EthBody(r))
         /\ EthBranch(r) = "transfer" => r.path = "bad" \/ EthBody(r).ret = 0
<1>. DEFINE tests == << Fail(r.path = "bad" /\ EthMethod(r) \notin {"1155", "transferFrom"}, -2) >>
            f == {"from", "to"} \cup Texts(r.tx = "uapprove" \/ r.station, {"fee"})
            b == EthBranch(r)
            w == Texts(EthTipWrong(r), {"fee"})
<1>1. r.path # "bad" => Tested(tests, EthTransferPage(r)) = EthTransferPage(r)
  <2>1. Len(tests) = 1 /\ (r.path # "bad" => ~tests[1].fails)
    BY DEF Fail
  <2>. HIDE DEF tests
  <2>2. r.path # "bad" => \A i \in 1..Len(tests) : ~tests[i].fails
    BY <2>1
  <2>. QED  BY <2>1, <2>2, TestedPasses
<1>2. EthTransferPage(r).ret = 0
  <2>1. \E g, m, x : EthTransferPage(r) = Misprint(Page("tx", g, m), x)
    BY DEF EthTransferPage
  <2>. QED  BY <2>1 DEF Misprint, Page
<1>3. b = "transfer" => EthBody(r) = Tested(tests, EthTransferPage(r))
  BY DEF EthBody
<1>4. b \in {"approval", "approval7702"} =>
        EthBody(r) = Misprint(Page("approval", {"token", "contract", "fee"}, 1), w)
  BY DEF EthBody, EthApprovalPage
<1>5. b = "revoke" => EthBody(r) = Page("approval", f, 1)
  BY DEF EthBody, EthRevokePage
<1>6. b = "app" => EthBody(r) = Page("app", {"contract", "data"}, 1)
  BY DEF EthBody
<1>7. b = "unsupported" => EthBody(r) = Refused(UnsupportUpgrade)
  BY DEF EthBody
<1>8. b \in {"transfer", "approval", "approval7702", "revoke", "app", "unsupported"}
  BY DEF EthBranch
<1>9. Telling(r, Tested(tests, EthTransferPage(r)))
  <2>. HIDE DEF tests
  <2>. QED  BY EthTransferTells, TestedTells
<1>10. w \subseteq Doubtful(r)
  BY EthFeeDoubtful
<1>. HIDE DEF tests, f, w
<1>11. CASE b = "transfer"
  BY <1>1, <1>2, <1>3, <1>9, <1>11
<1>12. CASE b \in {"approval", "approval7702"}
  BY <1>4, <1>10, <1>12, OtherPageIs, OtherPageTells, MisprintTells
<1>13. CASE b = "revoke"
  BY <1>5, <1>13, OtherPageIs, OtherPageTells
<1>14. CASE b = "app"
  BY <1>6, <1>14, OtherPageIs, OtherPageTells
<1>15. CASE b = "unsupported"
  BY <1>7, <1>15, RefusedTells
<1>. QED  BY <1>8, <1>11, <1>12, <1>13, <1>14, <1>15

\* All the errors of the tests of a view are errors.
Verdicts == [fails : BOOLEAN, ret : Int \ {0}]

\* The tests of the view
LEMMA EthVerdicts ==
  ASSUME NEW r, EthShape(r)
  PROVE  EthSignTests(r) \o EthNameTests(r) \in Seq(Verdicts)
<1>2. EthSignTests(r) \in Seq(Verdicts)
  BY DEF EthSignTests, Fail, Verdicts
<1>3. EthNameTests(r) \in Seq(Verdicts)
  BY DEF EthNameTests, Fail, Verdicts
<1>. QED  BY <1>2, <1>3

\* A row under an old name is deleted only if all tests pass, and a transfer saves it.
LEMMA EthTells ==
  ASSUME NEW r \in EthReqs
  PROVE  Told(r, EthView(r))
<1>1. EthShape(r)
  BY EthShaped
<1>. DEFINE tests == EthSignTests(r) \o EthNameTests(r)
            early == Tested(tests, EthBody(r))
            named == Tested(tests, Page("tx", {}, 0)).ret = 0
            c == EthSaves(r)
            d == named /\ EthDrops(r)
            s == c /\ early.ret = 0
            shown == Saving(early, s)
<1>2. tests \in Seq(Verdicts)
  BY <1>1, EthVerdicts
<1>3. named => early = EthBody(r)
  <2>. HIDE DEF tests
  <2>. SUFFICES ASSUME named PROVE early = EthBody(r)
    OBVIOUS
  <2>1. \A i \in 1..Len(tests) : ~tests[i].fails
    <3>. SUFFICES ASSUME NEW i \in 1..Len(tests), tests[i].fails PROVE FALSE
      OBVIOUS
    <3>1. PICK j \in 1..Len(tests) : Tested(tests, Page("tx", {}, 0)) = Refused(tests[j].ret)
      BY <1>2, TestedFails
    <3>2. tests[j] \in Verdicts
      BY <1>2
    <3>3. tests[j].ret # 0
      BY <3>2 DEF Verdicts
    <3>. QED  BY <3>1, <3>3 DEF Refused
  <2>. QED  BY <1>2, <2>1, TestedPasses
<1>4. Telling(r, early)
  <2>. HIDE DEF tests
  <2>. QED  BY <1>1, EthBodyTells, TestedTells
<1>5. c => r.app
  BY DEF EthSaves
<1>6. EthDrops(r) => c \/ r.custom
  BY <1>1 DEF EthDrops, EthSaves, EthNamedByToken, EthShape
<1>. DEFINE a == IF r.known \/ EthBranch(r) = "transfer" THEN "coin" ELSE "app"
<1>7. d => (s /\ a = "coin") \/ r.path = "bad" \/ r.custom \/ EthBranch(r) # "transfer"
  <2>. HIDE DEF early, named, c
  <2>. QED  BY <1>1, <1>3, <1>6, EthBodyTells
<1>8. EthView(r) = [[shown EXCEPT !.as = a] EXCEPT !.drop = d]
  BY DEF EthView, IfShown
<1>9. s \in BOOLEAN /\ d \in BOOLEAN /\ (s => early.ret = 0 /\ r.app)
  BY <1>5
<1>. HIDE DEF early, c, d, s, a, tests, named
<1>10. shown = [ret |-> early.ret, kind |-> early.kind, shows |-> early.shows, wrong |-> early.wrong,
                cut |-> early.cut, pages |-> early.pages, logs |-> early.logs, save |-> s,
                as |-> early.as, drop |-> FALSE]
  <2>1. shown = [early EXCEPT !.save = s]
    BY DEF Saving
  <2>. HIDE DEF shown
  <2>. QED  BY <1>4, <2>1 DEF Telling, Unsaved, IsPage
<1>11. EthView(r) = [ret |-> early.ret, kind |-> early.kind, shows |-> early.shows, wrong |-> early.wrong,
                     cut |-> early.cut, pages |-> early.pages, logs |-> early.logs, save |-> s,
                     as |-> a, drop |-> d]
  <2>. HIDE DEF shown
  <2>. QED  BY <1>8, <1>10
<1>. QED  BY <1>4, <1>7, <1>9, <1>11 DEF Told, Telling, ShowsAll, Careful

\* The view of a request tells what it has to.
LEMMA ViewTells ==
  ASSUME NEW c \in Coins, NEW r \in RequestsOf(c)
  PROVE  Told(r, View(r)) /\ (r.coin \in UtxoCoins => r \in UtxoReqs)
<1>1. CASE c = "eth"
  <2>1. r \in EthReqs
    BY <1>1 DEF RequestsOf
  <2>2. r.coin = "eth"
    BY <2>1, EthShaped DEF EthShape, EthType
  <2>3. View(r) = EthView(r)
    BY <2>2 DEF View, UtxoCoins
  <2>. QED  BY <2>1, <2>2, <2>3, EthTells DEF UtxoCoins
<1>2. CASE c = "vet"
  <2>1. r \in VetReqs
    BY <1>2 DEF RequestsOf
  <2>2. r.coin = "vet"
    BY <2>1 DEF VetReqs
  <2>3. View(r) = VetView(r)
    BY <2>2 DEF View, UtxoCoins
  <2>. QED  BY <2>1, <2>2, <2>3, VetTells DEF UtxoCoins
<1>3. CASE c = "theta"
  <2>1. r \in ThetaReqs
    BY <1>3 DEF RequestsOf
  <2>2. r.coin = "theta"
    BY <2>1 DEF ThetaReqs
  <2>3. View(r) = ThetaView(r)
    BY <2>2 DEF View, UtxoCoins
  <2>. QED  BY <2>1, <2>2, <2>3, ThetaTells DEF UtxoCoins
<1>4. CASE c = "one"
  <2>1. r \in HarmonyReqs
    BY <1>4 DEF RequestsOf
  <2>2. r.coin = "one"
    BY <2>1 DEF HarmonyReqs
  <2>3. View(r) = HarmonyView(r)
    BY <2>2 DEF View, UtxoCoins
  <2>. QED  BY <2>1, <2>2, <2>3, HarmonyTells DEF UtxoCoins
<1>5. CASE c = "msg"
  <2>1. r \in CustReqs
    BY <1>5 DEF RequestsOf
  <2>2. r.coin = "msg"
    BY <2>1 DEF CustReqs
  <2>3. View(r) = CustView(r)
    BY <2>2 DEF View, UtxoCoins
  <2>. QED  BY <2>1, <2>2, <2>3, CustTells DEF UtxoCoins
<1>6. CASE c = "btc"
  <2>1. r \in UtxoReqs
    BY <1>6 DEF RequestsOf
  <2>2. r.coin \in {"btc", "kas", "ckb"}
    BY <2>1 DEF UtxoReqs, UtxoCoins
  <2>3. View(r) = UtxoView(r, SumsOf)
    BY <2>2 DEF View, UtxoCoins
  <2>. QED  BY <2>1, <2>2, <2>3, UtxoTells DEF UtxoCoins
<1>7. CASE c = "ada"
  <2>1. r \in AdaReqs
    BY <1>7 DEF RequestsOf
  <2>2. r.coin = "ada"
    BY <2>1 DEF AdaReqs
  <2>3. View(r) = AdaView(r)
    BY <2>2 DEF View, UtxoCoins
  <2>. QED  BY <2>1, <2>2, <2>3, AdaTells DEF UtxoCoins
<1>8. CASE c = "tron"
  <2>1. r \in TronReqs
    BY <1>8 DEF RequestsOf
  <2>2. r.coin = "tron"
    BY <2>1, TronTyped DEF TronType
  <2>3. View(r) = TronView(r)
    BY <2>2 DEF View, UtxoCoins
  <2>. QED  BY <2>1, <2>2, <2>3, TronTells DEF UtxoCoins
<1>9. CASE c = "xrp"
  <2>1. r \in XrpReqs
    BY <1>9 DEF RequestsOf
  <2>2. r.coin = "xrp"
    BY <2>1 DEF XrpReqs
  <2>3. View(r) = XrpView(r)
    BY <2>2 DEF View, UtxoCoins
  <2>. QED  BY <2>1, <2>2, <2>3, XrpTells DEF UtxoCoins
<1>10. CASE c = "eos"
  <2>1. r \in EosReqs
    BY <1>10 DEF RequestsOf
  <2>2. r.coin = "eos"
    BY <2>1 DEF EosReqs
  <2>3. View(r) = EosView(r)
    BY <2>2 DEF View, UtxoCoins
  <2>. QED  BY <2>1, <2>2, <2>3, EosTells DEF UtxoCoins
<1>11. CASE c = "neo"
  <2>1. r \in NeoReqs
    BY <1>11 DEF RequestsOf
  <2>2. r.coin = "neo"
    BY <2>1 DEF NeoReqs
  <2>3. View(r) = NeoView(r)
    BY <2>2 DEF View, UtxoCoins
  <2>. QED  BY <2>1, <2>2, <2>3, NeoTells DEF UtxoCoins
<1>12. CASE c = "sol"
  <2>1. r \in SolReqs
    BY <1>12 DEF RequestsOf
  <2>2. r.coin = "sol"
    BY <2>1, OpTyped DEF SolReqs, OpType
  <2>3. View(r) = SolView(r)
    BY <2>2 DEF View, UtxoCoins
  <2>. QED  BY <2>1, <2>2, <2>3, SolTells DEF UtxoCoins
<1>13. CASE c = "near"
  <2>1. r \in NearReqs
    BY <1>13 DEF RequestsOf
  <2>2. r.coin = "near"
    BY <2>1, OpTyped DEF NearReqs, OpType
  <2>3. View(r) = NearView(r)
    BY <2>2 DEF View, UtxoCoins
  <2>. QED  BY <2>1, <2>2, <2>3, NearTells DEF UtxoCoins
<1>14. CASE c = "sui"
  <2>1. r \in SuiReqs
    BY <1>14 DEF RequestsOf
  <2>2. r.coin = "sui"
    BY <2>1, OpTyped DEF SuiReqs, OpType
  <2>3. View(r) = SuiView(r)
    BY <2>2 DEF View, UtxoCoins
  <2>. QED  BY <2>1, <2>2, <2>3, SuiTells DEF UtxoCoins
<1>15. CASE c = "ton"
  <2>1. r \in TonReqs
    BY <1>15 DEF RequestsOf
  <2>2. r.coin = "ton"
    BY <2>1, OpTyped DEF TonReqs, OpType
  <2>3. View(r) = TonView(r)
    BY <2>2 DEF View, UtxoCoins
  <2>. QED  BY <2>1, <2>2, <2>3, TonTells DEF UtxoCoins
<1>16. CASE c = "alph"
  <2>1. r \in AlphReqs
    BY <1>16 DEF RequestsOf
  <2>2. r.coin = "alph"
    BY <2>1, OpTyped DEF AlphReqs, OpType
  <2>3. View(r) = AlphView(r)
    BY <2>2 DEF View, UtxoCoins
  <2>. QED  BY <2>1, <2>2, <2>3, AlphTells DEF UtxoCoins
<1>17. CASE c = "venom"
  <2>1. r \in VenomReqs
    BY <1>17 DEF RequestsOf
  <2>2. r.coin = "venom"
    BY <2>1, OpTyped DEF VenomReqs, OpType
  <2>3. View(r) = VenomView(r)
    BY <2>2 DEF View, UtxoCoins
  <2>. QED  BY <2>1, <2>2, <2>3, VenomTells DEF UtxoCoins
<1>18. CASE c = "fil"
  <2>1. r \in FilecoinReqs
    BY <1>18 DEF RequestsOf
  <2>2. r.coin = "fil"
    BY <2>1, OpTyped DEF FilecoinReqs, OpType
  <2>3. View(r) = FilecoinView(r)
    BY <2>2 DEF View, UtxoCoins
  <2>. QED  BY <2>1, <2>2, <2>3, FilecoinTells DEF UtxoCoins
<1>19. CASE c = "apt"
  <2>1. r \in AptosReqs
    BY <1>19 DEF RequestsOf
  <2>2. r.coin = "apt"
    BY <2>1, OpTyped DEF AptosReqs, OpType
  <2>3. View(r) = AptosView(r)
    BY <2>2 DEF View, UtxoCoins
  <2>. QED  BY <2>1, <2>2, <2>3, AptosTells DEF UtxoCoins
<1>20. CASE c = "chr"
  <2>1. r \in ChromiaReqs
    BY <1>20 DEF RequestsOf
  <2>2. r.coin = "chr"
    BY <2>1, OpTyped DEF ChromiaReqs, OpType
  <2>3. View(r) = ChromiaView(r)
    BY <2>2 DEF View, UtxoCoins
  <2>. QED  BY <2>1, <2>2, <2>3, ChromiaTells DEF UtxoCoins
<1>21. CASE c = "egld"
  <2>1. r \in MultiversxReqs
    BY <1>21 DEF RequestsOf
  <2>2. r.coin = "egld"
    BY <2>1, OpTyped DEF MultiversxReqs, OpType
  <2>3. View(r) = MultiversxView(r)
    BY <2>2 DEF View, UtxoCoins
  <2>. QED  BY <2>1, <2>2, <2>3, MultiversxTells DEF UtxoCoins
<1>22. CASE c = "atom"
  <2>1. r \in CosmosReqs
    BY <1>22 DEF RequestsOf
  <2>2. r.coin = "atom"
    BY <2>1, OpTyped DEF CosmosReqs, OpType
  <2>3. View(r) = CosmosView(r)
    BY <2>2 DEF View, UtxoCoins
  <2>. QED  BY <2>1, <2>2, <2>3, CosmosTells DEF UtxoCoins
<1>23. CASE c = "inj"
  <2>1. r \in InjReqs
    BY <1>23 DEF RequestsOf
  <2>2. r.coin = "inj"
    BY <2>1, OpTyped DEF InjReqs, OpType
  <2>3. View(r) = InjView(r)
    BY <2>2 DEF View, UtxoCoins
  <2>. QED  BY <2>1, <2>2, <2>3, InjTells DEF UtxoCoins
<1>24. CASE c = "bnc"
  <2>1. r \in BncReqs
    BY <1>24 DEF RequestsOf
  <2>2. r.coin = "bnc"
    BY <2>1, OpTyped DEF BncReqs, OpType
  <2>3. View(r) = BncView(r)
    BY <2>2 DEF View, UtxoCoins
  <2>. QED  BY <2>1, <2>2, <2>3, BncTells DEF UtxoCoins
<1>25. CASE c = "dot"
  <2>1. r \in DotReqs
    BY <1>25 DEF RequestsOf
  <2>2. r.coin = "dot"
    BY <2>1 DEF DotReqs
  <2>3. View(r) = DotView(r)
    BY <2>2 DEF View, UtxoCoins
  <2>. QED  BY <2>1, <2>2, <2>3, DotTells DEF UtxoCoins
<1>26. CASE c = "xlm"
  <2>1. r \in XlmReqs
    BY <1>26 DEF RequestsOf
  <2>2. r.coin = "xlm"
    BY <2>1 DEF XlmReqs
  <2>3. View(r) = XlmView(r)
    BY <2>2 DEF View, UtxoCoins
  <2>. QED  BY <2>1, <2>2, <2>3, XlmTells DEF UtxoCoins
<1>. QED  BY <1>1, <1>2, <1>3, <1>4, <1>5, <1>6, <1>7, <1>8, <1>9, <1>10, <1>11, <1>12, <1>13,
             <1>14, <1>15, <1>16, <1>17, <1>18, <1>19, <1>20, <1>21, <1>22, <1>23, <1>24,
             <1>25, <1>26 DEF Coins

-----------------------------------------------------------------------------
(* The pages of the views, in the session                                   *)

\* The request whose view runs is one of some coin, and the page is what its view made
\* of it.
PageInv ==
  /\ req # Nothing => \E c \in Coins : req \in RequestsOf(c)
  /\ page # Nothing => req # Nothing /\ page = View(req)

LEMMA ViewStays ==
  ASSUME UNCHANGED <<req, page, uvars>>, PageInv
  PROVE  PageInv'
<1>1. View(req)' = View(req)
  BY DEF View, SumsOf, uvars
<1>2. req' = req /\ page' = page
  OBVIOUS
<1>. QED  BY <1>1, <1>2 DEF PageInv

\* Only a scan, a view that returns and the window that takes its page change them.
LEMMA StepTells ==
  ASSUME PageInv, Next
  PROVE  PageInv'
<1>1. CASE UNCHANGED <<req, page, uvars>>
  BY <1>1, ViewStays
<1>2. CASE PanelScan
  BY <1>2, <1>1 DEF PanelScan
<1>3. CASE PanelHistory \/ PanelSetting
  BY <1>3, <1>1 DEF PanelHistory, PanelSetting
<1>4. CASE ScanLeaves \/ ScanRequest \/ ScanBad \/ ScanActivation \/ ScanPairing
  BY <1>4, <1>1 DEF ScanLeaves, ScanRequest, ScanBad, ScanActivation, ScanPairing
<1>5. CASE ScanFirst
  <2>1. PICK c \in Coins : \E r \in RequestsOf(c) : Called(r)
    BY <1>5 DEF ScanFirst
  <2>2. req' \in RequestsOf(c) /\ page' = page
    BY <2>1 DEF Called
  <2>3. page = Nothing
    BY <1>5 DEF ScanFirst, First, PageInv
  <2>. QED  BY <2>2, <2>3 DEF PageInv
<1>6. CASE ViewRuns
  <2>1. CASE Sums
    BY <2>1 DEF Sums, Running, PageInv
  <2>2. CASE Returns
    <3>1. req' = req /\ page' = View(req) /\ req # Nothing /\ UNCHANGED uvars
      BY <2>2 DEF Returns, Running
    <3>2. View(req)' = View(req)
      BY <3>1 DEF View, SumsOf, uvars
    <3>. QED  BY <3>1, <3>2 DEF PageInv
  <2>. QED  BY <1>6, <2>1, <2>2 DEF ViewRuns
<1>7. CASE FirstGoes
  BY <1>7 DEF FirstGoes, Goes, PageInv
<1>8. CASE QrResumes \/ QrErrorClosed \/ QrActivates \/ QuietHandler
  BY <1>8, <1>1 DEF QrResumes, QrErrorClosed, QrActivates, QuietHandler
<1>9. CASE Windows \/ Restart
  BY <1>9, <1>1 DEF Windows, Restart
<1>10. CASE (GuideNext \/ WizardNext) /\ UNCHANGED <<uvars, req, page>>
  BY <1>10, <1>1
<1>11. CASE QrAnswers \/ QrLeft \/ HistoryErases \/ BindErases \/ PubkeyErases
  BY <1>11, <1>1 DEF QrAnswers, QrLeft, HistoryErases, BindErases, PubkeyErases, PanelAnyway
<1>. QED  BY <1>2, <1>3, <1>4, <1>5, <1>6, <1>7, <1>8, <1>9, <1>10, <1>11 DEF Next

\* The invariant of the pages
LEMMA PagesKept == Spec => []PageInv
<1>1. Init => PageInv
  BY DEF Init, SessionInit, PageInv
<1>2. PageInv /\ [Next]_vars => PageInv'
  <2>1. UNCHANGED vars => UNCHANGED <<req, page, uvars>>
    BY DEF vars, svars
  <2>. QED  BY <2>1, ViewStays, StepTells
<1>. QED  BY <1>1, <1>2, PTL DEF Spec

\* The page in front is what the view of its request tells.
LEMMA PageIsTold ==
  ASSUME PageInv, page # Nothing
  PROVE  /\ Told(req, page) /\ page = View(req)
         /\ req.coin \in UtxoCoins => req \in UtxoReqs
BY ViewTells DEF PageInv

\* The page of any coin, whatever the request says and whenever it is scanned: its texts
\* are what is signed, but for those that are named; that of a transfer has the amount,
\* the fee but for the coins whose views leave it out, and the recipient, where outputs
\* are added up exactly if somebody but the change is paid; and the history gets the
\* amount.
THEOREM PagesTell == Spec => []PageTells
<1>1. PageInv /\ TotalsInv => PageTells
  <2>. SUFFICES ASSUME PageInv, TotalsInv, page # Nothing, page.ret = 0
                PROVE  /\ page.wrong \subseteq Doubtful(req)
                       /\ page.kind = "tx" /\ Whole(req) =>
                            /\ "amount" \in page.shows \/ Is(req, "amount", {"none", "huge"})
                            /\ "to" \in page.shows \/ (req.coin \in UtxoCoins /\ shownV = 0)
                            /\ "fee" \in page.shows \/ Unpriced(req)
                            /\ page.logs = "amount" \/ req.coin \in Unlogged
                            /\ req.coin \in UtxoCoins => ("to" \in page.shows <=> shownV > 0)
    BY DEF PageTells
  <2>1. /\ page.wrong \subseteq Doubtful(req)
        /\ (page.kind = "tx" /\ Whole(req) => ShowsAll(req, page))
    BY PageIsTold DEF Told
  <2>2. ASSUME req.coin \in UtxoCoins, page.kind = "tx", Whole(req)
        PROVE  "to" \in page.shows <=> shownV > 0
    <3>1. req \in UtxoReqs /\ page = View(req)
      BY <2>2, PageIsTold
    <3>2. req.brc # "nft"
      BY <2>2, <3>1 DEF UtxoReqs, Whole, Is
    <3>3. View(req) = UtxoView(req, SumsOf)
      BY <2>2 DEF View, UtxoCoins
    <3>4. Names(SumsOf, page)
      BY <3>1, <3>2, <3>3, UtxoNames
    <3>5. SumsOf.paid <=> Paid
      BY DEF SumsOf, Paid
    <3>. QED  BY <2>2, <3>4, <3>5 DEF Names, TotalsInv
  <2>3. shownV \in Int /\ shownV >= 0
    BY TotalsAssumption DEF TotalsInv
  <2>4. ASSUME page.kind = "tx", Whole(req)
        PROVE  /\ "to" \in page.shows \/ (req.coin \in UtxoCoins /\ shownV = 0)
               /\ req.coin \in UtxoCoins => ("to" \in page.shows <=> shownV > 0)
    <3>1. CASE req.coin \in UtxoCoins
      BY <2>2, <2>3, <2>4, <3>1
    <3>2. CASE req.coin \notin UtxoCoins
      BY <2>1, <2>4, <3>2 DEF ShowsAll
    <3>. QED  BY <3>1, <3>2
  <2>. QED  BY <2>1, <2>4 DEF ShowsAll
<1>. QED  BY <1>1, PagesKept, TotalsHold, PTL

\* Whatever request is looked at, the tables of coins change only for a scanned one that
\* can be signed, but for Bitcoin, Kaspa, Nervos and Neo; and the row of a renamed token
\* that is deleted comes back, but for a bad path, a custom coin and what is no transfer.
THEOREM CoinsStay == Spec => []CoinsKept
<1>1. PageInv => CoinsKept
  <2>. SUFFICES ASSUME PageInv, page # Nothing PROVE Careful(req, page)
    BY DEF CoinsKept, Careful
  <2>. QED  BY PageIsTold DEF Told
<1>. QED  BY <1>1, PagesKept, PTL

-----------------------------------------------------------------------------
(* The windows of a request between the other windows and the wizards.      *)

\* The dialogs that belong to a wizard are open only in it, and the scan window never
\* goes back to a window of a request.
WizardsAside ==
  /\ "kind" \in DOMAIN dlg
  /\ dlg.kind = "active" => modal = "guide"
  /\ dlg.kind = "change" => modal = "setting"
  /\ from \notin Four

\* The loops of the other windows
Elsewhere == {"guide", "phrase", "verify", "setting", "reset", "qr"}

SessionInv == WindowsInv /\ WizardsAside

LEMMA NothingIsNoWindow == Nothing \notin Four /\ Elsewhere \cap RequestLoops = {}
<1>1. Four \subseteq Marks
  BY DEF Four, Marks
<1>2. Nothing \notin Marks
  BY PointersAssumption
<1>. QED  BY <1>1, <1>2 DEF Elsewhere, RequestLoops

\* In a loop of another window no window of a request is in front.
LEMMA LoopElsewhere ==
  ASSUME WindowsInv, modal \in Elsewhere
  PROVE  cur \notin Four /\ modal \notin RequestLoops /\ todo = << >>
<1>1. modal # "none" /\ modal \notin RequestLoops
  BY DEF Elsewhere, RequestLoops
<1>. QED  BY <1>1, PhaseType DEF WindowsInv, QueueShape

\* Steps of the wizards that stay in their loop
GuideStays ==
  \/ Language \/ ActiveStarts \/ ActiveAnswer
  \/ Onward \/ Backward \/ AccountSelect \/ CountSelected \/ SechipChecked
  \/ Generated \/ WordsShown \/ PageTurned \/ WordsRead \/ WordsLeft
  \/ ConfirmStarts \/ ConfirmMoves \/ ConfirmOk \/ ConfirmTimer \/ ConfirmLeft
  \/ RecoveryStarts \/ LetterTyped \/ WordTyped \/ WordLeft \/ RecoveryTyped
  \/ PinStarts \/ PinTyped \/ PinLeft \/ Stored \/ Verified

WizardStays ==
  \/ WizardOnward \/ WizardBackward \/ ActionDetected \/ TypeSelected
  \/ PinPassed \/ PinRefused
  \/ WizardCount \/ VerifyStarts \/ WordsDiffer \/ WordsKept
  \/ PhraseStarts \/ PhraseTyped \/ PhraseConfirmed \/ PhraseLeft \/ PhraseSaved

\* A dialog closes, goes on, or is followed by one of its wizard.
DialogGoesOn ==
  /\ "kind" \in DOMAIN dlg => "kind" \in DOMAIN dlg'
  /\ dlg'.kind \in {"active", "change"} /\ "kind" \in DOMAIN dlg =>
       dlg'.kind = dlg.kind \/ (dlg'.kind = "active" /\ modal = "guide")

LEMMA ClosedDialog ==
  ASSUME dlg' = NoDialog \/ dlg' = dlg
  PROVE  DialogGoesOn
BY DEF DialogGoesOn, NoDialog

LEMMA GuideStaysAside ==
  ASSUME GuideStays
  PROVE  OnlyWizard /\ from' = from /\ DialogGoesOn
<1>1. CASE Language \/ Onward \/ Backward \/ AccountSelect \/ CountSelected \/ SechipChecked
  BY <1>1, ClosedDialog DEF Language, Onward, Backward, AccountSelect, CountSelected,
     SechipChecked, Onto, Off, Stays
<1>2. CASE ActiveStarts
  <2>1. dlg' = dlg \/ dlg' = [kind |-> "active", at |-> IF active.step # 0 THEN 2 ELSE 0]
    BY <1>2 DEF ActiveStarts
  <2>2. modal = "guide"
    BY <1>2 DEF ActiveStarts, At
  <2>3. DialogGoesOn
    BY <2>1, <2>2 DEF DialogGoesOn
  <2>. QED  BY <1>2, <2>3 DEF ActiveStarts
<1>3. CASE ActiveAnswer
  <2>1. DialogGoesOn
    BY <1>3 DEF ActiveAnswer, DialogGoesOn, NoDialog
  <2>. QED  BY <1>3, <2>1 DEF ActiveAnswer
<1>4. CASE Generated \/ WordsRead \/ WordsLeft \/ ConfirmLeft \/ PinLeft
  BY <1>4, ClosedDialog DEF Generated, WordsRead, WordsLeft, ConfirmLeft, PinLeft, Onto, Off, Stays
<1>5. CASE WordsShown \/ PageTurned
  BY <1>5 DEF WordsShown, PageTurned, ShowsPage, DialogGoesOn
<1>6. CASE ConfirmStarts \/ ConfirmTimer
  BY <1>6, ClosedDialog DEF ConfirmStarts, ConfirmTimer, Asks, Onto, DialogGoesOn
<1>7. CASE ConfirmMoves \/ ConfirmOk
  BY <1>7 DEF ConfirmMoves, ConfirmOk, DialogGoesOn
<1>8. CASE RecoveryStarts \/ WordTyped \/ WordLeft \/ RecoveryTyped
  <2>1. /\ dlg' = NoDialog \/ \E typed, at : dlg' = Asking(typed, at)
        /\ OnlyWizard /\ from' = from
    BY <1>8 DEF RecoveryStarts, WordTyped, WordLeft, RecoveryTyped, WordsStart, Onto, Off
  <2>. QED  BY <2>1, ClosedDialog DEF Asking, DialogGoesOn
<1>9. CASE LetterTyped
  BY <1>9 DEF LetterTyped, DialogGoesOn
<1>10. CASE PinStarts \/ PinTyped
  <2>1. /\ \/ \E p : dlg' = [kind |-> "pin", first |-> p] \/ dlg' = [dlg EXCEPT !.first = p]
           \/ \E p : dlg' = [kind |-> "store", pin |-> p]
           \/ dlg' = NoDialog
        /\ OnlyWizard /\ from' = from
    BY <1>10 DEF PinStarts, PinTyped
  <2>. QED  BY <2>1, ClosedDialog DEF DialogGoesOn
<1>11. CASE Stored
  BY <1>11, ClosedDialog DEF Stored, Stays, DialogGoesOn
<1>12. CASE Verified
  BY <1>12, ClosedDialog DEF Verified, Onto, Stays
<1>. QED  BY <1>1, <1>2, <1>3, <1>4, <1>5, <1>6, <1>7, <1>8, <1>9, <1>10, <1>11, <1>12 DEF GuideStays

LEMMA WizardStaysAside ==
  ASSUME WizardStays
  PROVE  OnlyWizard /\ from' = from /\ DialogGoesOn
<1>1. CASE WizardOnward \/ WizardBackward \/ ActionDetected \/ TypeSelected
  BY <1>1, ClosedDialog DEF WizardOnward, WizardBackward, ActionDetected, TypeSelected, Onto, Off
<1>2. CASE PinPassed \/ PinRefused \/ WizardCount
  BY <1>2, ClosedDialog DEF PinPassed, PinRefused, WizardCount, Onto, Off
<1>3. CASE VerifyStarts \/ WordsDiffer \/ WordsKept
  BY <1>3, ClosedDialog DEF VerifyStarts, WordsDiffer, WordsKept, WordsStart, Asking, DialogGoesOn
<1>4. CASE PhraseStarts \/ PhraseTyped
  BY <1>4, ClosedDialog DEF PhraseStarts, PhraseTyped, DialogGoesOn
<1>5. CASE PhraseConfirmed \/ PhraseLeft \/ PhraseSaved
  BY <1>5, ClosedDialog DEF PhraseConfirmed, PhraseLeft, PhraseSaved, Onto, Off
<1>. QED  BY <1>1, <1>2, <1>3, <1>4, <1>5 DEF WizardStays

LEMMA StaysKeeps ==
  ASSUME SessionInv, GuideStays \/ WizardStays
  PROVE  SessionInv'
<1>1. OnlyWizard /\ from' = from /\ DialogGoesOn
  BY GuideStaysAside, WizardStaysAside
<1>2. WindowsInv'
  BY <1>1, Aside DEF SessionInv, OnlyWizard, Requests
<1>3. WizardsAside'
  BY <1>1 DEF SessionInv, WizardsAside, OnlyWizard, DialogGoesOn
<1>. QED  BY <1>2, <1>3 DEF SessionInv

\* What is left of WizardsAside when a loop begins or ends
LEMMA AsideStays ==
  ASSUME WizardsAside,
         \/ dlg' = NoDialog
         \/ dlg' = dlg /\ (modal' = modal \/ modal \notin {"guide", "setting"}),
         from' = from \/ from' = Nothing \/ (from' = cur /\ cur \notin Four)
  PROVE  WizardsAside'
<1>1. from' \notin Four
  BY NothingIsNoWindow DEF WizardsAside
<1>2. CASE dlg' = NoDialog
  BY <1>1, <1>2 DEF WizardsAside, NoDialog
<1>3. CASE dlg' = dlg /\ (modal' = modal \/ modal \notin {"guide", "setting"})
  BY <1>1, <1>3 DEF WizardsAside
<1>. QED  BY <1>2, <1>3

\* A wizard or a dialog ends, and another window comes.
LEMMA LoopEnds ==
  ASSUME SessionInv, NEW w, modal \in Elsewhere, w \notin Four, ChangeWindow(w), modal' = "none",
         UNCHANGED Requests,
         dlg' = NoDialog \/ (dlg' = dlg /\ modal \notin {"guide", "setting"}),
         from' = from \/ from' = cur
  PROVE  SessionInv'
<1>1. cur \notin Four /\ modal \notin RequestLoops /\ todo = << >>
  BY LoopElsewhere DEF SessionInv
<1>2. WindowsInv'
  BY <1>1, MovesOutside DEF SessionInv, Requests
<1>3. WizardsAside'
  BY <1>1, AsideStays DEF SessionInv
<1>. QED  BY <1>2, <1>3 DEF SessionInv

\* From one window to the next, with no dialog open
LEMMA IdleMoves ==
  ASSUME SessionInv, NEW w, Idle, cur \notin Four, w \notin Four, ChangeWindow(w), UNCHANGED modal,
         UNCHANGED Requests, dlg' = dlg, from' = from \/ from' = Nothing \/ from' = cur
  PROVE  SessionInv'
<1>1. modal = "none" /\ todo = << >> /\ modal' = "none" /\ modal \notin RequestLoops
  BY DEF Idle, RequestLoops
<1>2. WindowsInv'
  BY <1>1, MovesOutside DEF SessionInv, Requests
<1>3. WizardsAside'
  BY AsideStays DEF SessionInv
<1>. QED  BY <1>2, <1>3 DEF SessionInv

LEMMA GuideKeeps ==
  ASSUME SessionInv, GuideNext
  PROVE  SessionInv'
<1>1. CASE GuideStarts
  <2>1. /\ Handles("resume", "GUIDE") /\ modal' = "guide" /\ dlg' = dlg /\ from' = from
        /\ UNCHANGED Requests
    BY <1>1 DEF GuideStarts, GuideOpens, Requests
  <2>2. modal = "none"
    BY <2>1 DEF Handles
  <2>3. "GUIDE" \notin Four /\ modal' \notin RequestLoops
    BY <2>1 DEF Four, RequestLoops
  <2>4. WindowsInv'
    BY <2>1, <2>3, HandlesOutside DEF SessionInv, Requests
  <2>5. WizardsAside'
    BY <2>1, <2>2, AsideStays DEF SessionInv
  <2>. QED  BY <2>4, <2>5 DEF SessionInv
<1>2. CASE ActiveScans
  <2>1. /\ modal' = "none" /\ ChangeWindow("SCAN") /\ dlg' = NoDialog /\ from' = cur
        /\ UNCHANGED Requests
    BY <1>2 DEF ActiveScans, Ends, Requests
  <2>2. modal = "guide"
    BY <1>2 DEF ActiveScans, In, SessionInv, WizardsAside
  <2>3. modal \in Elsewhere /\ "SCAN" \notin Four
    BY <2>2 DEF Elsewhere, Four
  <2>. QED  BY <2>1, <2>3, LoopEnds
<1>3. CASE GuideDone
  <2>1. /\ modal' = "none" /\ ChangeWindow("MAINPANEL") /\ dlg' = NoDialog /\ from' = from
        /\ UNCHANGED Requests /\ modal = "guide"
    BY <1>3 DEF GuideDone, Ends, At, Requests
  <2>2. modal \in Elsewhere /\ "MAINPANEL" \notin Four
    BY <2>1 DEF Elsewhere, Four
  <2>. QED  BY <2>1, <2>2, LoopEnds
<1>4. CASE GuideStays
  BY <1>4, StaysKeeps
<1>. QED  BY <1>1, <1>2, <1>3, <1>4 DEF GuideNext, GuideStays

LEMMA WizardStartsKeeps ==
  ASSUME SessionInv, NEW window, NEW wizard, NEW first, window \notin Four,
         wizard \in Elsewhere, WizardStarts(window, wizard, first)
  PROVE  SessionInv'
<1>1. /\ Handles("resume", window) /\ modal' = wizard /\ dlg' = dlg /\ from' = from
      /\ UNCHANGED Requests
  BY DEF WizardStarts, Requests
<1>2. modal = "none" /\ modal' \notin RequestLoops
  BY <1>1, NothingIsNoWindow DEF Handles
<1>3. WindowsInv'
  BY <1>1, <1>2, HandlesOutside DEF SessionInv, Requests
<1>4. WizardsAside'
  BY <1>1, <1>2, AsideStays DEF SessionInv
<1>. QED  BY <1>3, <1>4 DEF SessionInv

LEMMA WizardEndsKeeps ==
  ASSUME SessionInv, WizardLeft \/ PinErases \/ WordsVerified \/ PhraseDone
  PROVE  SessionInv'
<1>1. /\ \E w \in {"SETTING", "GUIDE", "MAINPANEL"} : ChangeWindow(w)
      /\ modal' = "none" /\ dlg' = NoDialog /\ from' = from /\ UNCHANGED Requests
  BY DEF WizardLeft, PinErases, WordsVerified, PhraseDone, Ends, Requests
<1>2. modal \in Elsewhere
  BY DEF WizardLeft, PinErases, WordsVerified, PhraseDone, InWizard, Compared, At, Wizards, Elsewhere
<1>3. PICK w \in {"SETTING", "GUIDE", "MAINPANEL"} : ChangeWindow(w)
  BY <1>1
<1>4. w \notin Four
  BY DEF Four
<1>. QED  BY <1>1, <1>2, <1>3, <1>4, LoopEnds

LEMMA SettingsKeep ==
  ASSUME SessionInv,
         \/ SettingLeft \/ ChangeStarts \/ ChangeTyped \/ ChangeEnds \/ ChangeErases
         \/ ResetStarts \/ ResetDone \/ ResetLeft
  PROVE  SessionInv'
<1>1. CASE SettingLeft
  <2>1. PICK w \in {"MAINPANEL", "PASSPHRASE", "VERIFY"} : ChangeWindow(w)
    BY <1>1 DEF SettingLeft
  <2>2. Idle /\ cur \notin Four /\ w \notin Four
    BY <1>1 DEF SettingLeft, Settings, Four
  <2>. QED  BY <1>1, <2>1, <2>2, IdleMoves DEF SettingLeft, gvars, Requests
<1>2. CASE ChangeStarts \/ ResetStarts
  <2>1. /\ UNCHANGED <<cur, todo>> /\ UNCHANGED Requests /\ from' = from
        /\ cur = "SETTING" /\ Idle /\ modal' \in {"setting", "reset"}
        /\ dlg' = dlg \/ (modal' = "setting" /\ \E o, f : dlg' = [kind |-> "change", old |-> o, first |-> f])
    <3>1. CASE ChangeStarts
      BY <3>1 DEF ChangeStarts, Settings, Requests
    <3>2. CASE ResetStarts
      BY <3>2 DEF ResetStarts, Settings, Requests, gvars
    <3>. QED  BY <1>2, <3>1, <3>2
  <2>2. /\ cur \notin Four /\ modal' \notin RequestLoops /\ modal \notin RequestLoops
        /\ todo = << >> /\ modal = "none"
    BY <2>1 DEF Four, Idle, RequestLoops
  <2>3. WindowsInv'
    BY <2>1, <2>2, DialogOutside DEF SessionInv, Requests
  <2>4. WizardsAside'
    BY <2>1, <2>2 DEF SessionInv, WizardsAside
  <2>. QED  BY <2>3, <2>4 DEF SessionInv
<1>3. CASE ChangeTyped
  <2>1. /\ UNCHANGED <<cur, todo, modal>> /\ UNCHANGED Requests /\ from' = from
        /\ \E o, f : dlg' = [dlg EXCEPT !.old = o] \/ dlg' = [dlg EXCEPT !.first = f]
    BY <1>3 DEF ChangeTyped, Requests
  <2>2. WindowsInv'
    BY <2>1, Aside DEF SessionInv, Requests
  <2>3. WizardsAside'
    BY <2>1 DEF SessionInv, WizardsAside
  <2>. QED  BY <2>2, <2>3 DEF SessionInv
<1>4. CASE ChangeEnds \/ ResetLeft
  <2>1. /\ UNCHANGED <<cur, todo>> /\ UNCHANGED Requests /\ from' = from /\ modal' = "none"
        /\ modal \in {"setting", "reset"}
        /\ dlg' = NoDialog \/ (dlg' = dlg /\ modal = "reset")
    BY <1>4 DEF ChangeEnds, ResetLeft, In, Requests, SessionInv, WizardsAside
  <2>2. modal \in Elsewhere /\ modal' \notin RequestLoops
    BY <2>1 DEF Elsewhere, RequestLoops
  <2>3. cur \notin Four /\ modal \notin RequestLoops
    BY <2>2, LoopElsewhere DEF SessionInv
  <2>4. WindowsInv'
    BY <2>1, <2>2, <2>3, DialogOutside DEF SessionInv, Requests
  <2>5. WizardsAside'
    BY <2>1, AsideStays DEF SessionInv
  <2>. QED  BY <2>4, <2>5 DEF SessionInv
<1>5. CASE ChangeErases
  <2>1. /\ modal = "setting" /\ modal' = "none" /\ dlg' = NoDialog /\ ChangeWindow("GUIDE")
        /\ from' = from /\ UNCHANGED Requests
    BY <1>5 DEF ChangeErases, In, Requests, SessionInv, WizardsAside
  <2>2. modal \in Elsewhere /\ "GUIDE" \notin Four
    BY <2>1 DEF Elsewhere, Four
  <2>. QED  BY <2>1, <2>2, LoopEnds
<1>6. CASE ResetDone
  <2>1. modal = "reset" /\ dlg' = dlg /\ from' = from /\ UNCHANGED Requests
    BY <1>6 DEF ResetDone, Requests
  <2>2. modal \in Elsewhere /\ "GUIDE" \notin Four
    BY <2>1 DEF Elsewhere, Four
  <2>3. CASE modal' = "none" /\ ChangeWindow("GUIDE")
    BY <2>1, <2>2, <2>3, LoopEnds
  <2>4. CASE UNCHANGED <<modal, cur, todo>>
    <3>1. WindowsInv'
      BY <2>1, <2>4, Aside DEF SessionInv, Requests
    <3>2. WizardsAside'
      BY <2>1, <2>4, AsideStays DEF SessionInv
    <3>. QED  BY <3>1, <3>2 DEF SessionInv
  <2>. QED  BY <1>6, <2>3, <2>4 DEF ResetDone
<1>. QED  BY <1>1, <1>2, <1>3, <1>4, <1>5, <1>6

LEMMA WizardKeeps ==
  ASSUME SessionInv, WizardNext
  PROVE  SessionInv'
<1>1. CASE WizardStarts("PASSPHRASE", "phrase", "PASSPHRASE_TIPS")
  BY <1>1, WizardStartsKeeps DEF Four, Elsewhere
<1>2. CASE WizardStarts("VERIFY", "verify", "VERIFY_TIPS")
  BY <1>2, WizardStartsKeeps DEF Four, Elsewhere
<1>3. CASE WizardLeft \/ PinErases \/ WordsVerified \/ PhraseDone
  BY <1>3, WizardEndsKeeps
<1>4. CASE WizardStays
  BY <1>4, StaysKeeps
<1>5. CASE \/ SettingLeft \/ ChangeStarts \/ ChangeTyped \/ ChangeEnds \/ ChangeErases
           \/ ResetStarts \/ ResetDone \/ ResetLeft
  BY <1>5, SettingsKeep
<1>. QED  BY <1>1, <1>2, <1>3, <1>4, <1>5 DEF WizardNext, WizardStays

-----------------------------------------------------------------------------
(* The main panel, the scan window and a restart.                           *)

LEMMA PanelKeeps ==
  ASSUME SessionInv, PanelScan \/ PanelHistory \/ PanelSetting
  PROVE  SessionInv'
<1>1. /\ Idle /\ cur = "MAINPANEL" /\ UNCHANGED modal /\ UNCHANGED Requests /\ dlg' = dlg
      /\ from' = from \/ from' = cur
      /\ \E w \in {"SCAN", "SIGN_HISTORY", "SETTING"} : ChangeWindow(w)
  <2>1. CASE PanelScan
    BY <2>1 DEF PanelScan, Scan, Requests
  <2>2. CASE PanelHistory
    BY <2>2 DEF PanelHistory, HistoryKey, Requests, gvars
  <2>3. CASE PanelSetting
    BY <2>3 DEF PanelSetting, Requests, gvars
  <2>. QED  BY <2>1, <2>2, <2>3
<1>2. PICK w \in {"SCAN", "SIGN_HISTORY", "SETTING"} : ChangeWindow(w)
  BY <1>1
<1>3. cur \notin Four /\ w \notin Four
  BY <1>1 DEF Four
<1>. QED  BY <1>1, <1>2, <1>3, IdleMoves

LEMMA ScanWindowKeeps ==
  ASSUME SessionInv, ScanLeaves \/ ScanBad \/ ScanActivation \/ ScanPairing
  PROVE  SessionInv'
<1>1. /\ Idle /\ cur = "SCAN" /\ UNCHANGED modal /\ UNCHANGED Requests /\ dlg' = dlg
      /\ from' = Nothing /\ \E w \in {from, "QRPROC"} : ChangeWindow(w)
  <2>1. CASE ScanLeaves
    BY <2>1 DEF ScanLeaves, ScanLeft, BackFrom, Requests
  <2>2. CASE ScanBad \/ ScanActivation \/ ScanPairing
    BY <2>2 DEF ScanBad, ScanActivation, ScanPairing, Requests
  <2>. QED  BY <2>1, <2>2
<1>2. PICK w \in {from, "QRPROC"} : ChangeWindow(w)
  BY <1>1
<1>3. cur \notin Four /\ w \notin Four
  BY <1>1 DEF Four, SessionInv, WizardsAside
<1>. QED  BY <1>1, <1>2, <1>3, IdleMoves

LEMMA RequestKeeps ==
  ASSUME SessionInv, ScanRequest \/ FirstGoes
  PROVE  SessionInv'
<1>1. /\ (\E c \in Classes : ScanSingle(c)) \/ (\E c \in Batches : ScanBatch(c))
      /\ from' = Nothing /\ dlg' = dlg
  <2>1. CASE ScanRequest
    BY <2>1 DEF ScanRequest
  <2>2. CASE FirstGoes
    BY <2>2 DEF FirstGoes, Goes
  <2>. QED  BY <2>1, <2>2
<1>2. modal' = modal
  BY <1>1 DEF ScanSingle, ScanBatch
<1>3. WindowsInv'
  BY <1>1, ScanSingleKeeps, ScanBatchKeeps DEF SessionInv
<1>4. WizardsAside'
  BY <1>1, <1>2, AsideStays DEF SessionInv
<1>. QED  BY <1>3, <1>4 DEF SessionInv

LEMMA ViewKeeps ==
  ASSUME SessionInv, ScanFirst \/ ViewRuns \/ UNCHANGED vars
  PROVE  SessionInv'
<1>1. UNCHANGED wvars /\ UNCHANGED <<dlg, from>>
  BY DEF ScanFirst, ViewRuns, Called, Sums, Returns, gvars, vars, svars
<1>2. WindowsInv'
  BY <1>1, Aside DEF SessionInv, wvars
<1>3. WizardsAside'
  BY <1>1, AsideStays DEF SessionInv, wvars
<1>. QED  BY <1>2, <1>3 DEF SessionInv

LEMMA QrKeeps ==
  ASSUME SessionInv, QrResumes \/ QrErrorClosed \/ QrActivates \/ QuietHandler
  PROVE  SessionInv'
<1>1. CASE QrResumes
  <2>1. Handles("resume", "QRPROC") /\ modal' = "qr" /\ UNCHANGED Requests /\ UNCHANGED <<dlg, from>>
    BY <1>1 DEF QrResumes, Requests, gvars
  <2>2. "QRPROC" \notin Four /\ modal' \notin RequestLoops /\ modal = "none"
    BY <2>1 DEF Four, RequestLoops, Handles
  <2>3. WindowsInv'
    BY <2>1, <2>2, HandlesOutside DEF SessionInv, Requests
  <2>4. WizardsAside'
    BY <2>1, <2>2, AsideStays DEF SessionInv
  <2>. QED  BY <2>3, <2>4 DEF SessionInv
<1>2. CASE QrErrorClosed \/ QrActivates
  <2>1. /\ modal = "qr" /\ modal' = "none" /\ UNCHANGED Requests /\ dlg' = dlg /\ from' = from
        /\ ChangeWindow("MAINPANEL") \/ ChangeWindow("GUIDE")
    BY <1>2 DEF QrErrorClosed, QrActivates, Requests
  <2>2. modal \in Elsewhere /\ "MAINPANEL" \notin Four /\ "GUIDE" \notin Four
    BY <2>1 DEF Elsewhere, Four
  <2>. QED  BY <2>1, <2>2, LoopEnds
<1>3. CASE QuietHandler
  <2>1. /\ \/ \E w \in {"GUIDE", "SETTING", "PASSPHRASE", "VERIFY", "QRPROC"} : Handles("pause", w)
           \/ Handles("resume", "SETTING")
        /\ UNCHANGED modal /\ UNCHANGED Requests /\ UNCHANGED <<dlg, from>>
    BY <1>3 DEF QuietHandler, Requests, gvars
  <2>2. modal' = "none" /\ modal' \notin RequestLoops
    BY <2>1 DEF Handles, RequestLoops
  <2>3. \A w \in {"GUIDE", "SETTING", "PASSPHRASE", "VERIFY", "QRPROC"} : w \notin Four
    BY DEF Four
  <2>4. WindowsInv'
    BY <2>1, <2>2, <2>3, HandlesOutside DEF SessionInv, Requests
  <2>5. WizardsAside'
    BY <2>1, AsideStays DEF SessionInv
  <2>. QED  BY <2>4, <2>5 DEF SessionInv
<1>. QED  BY <1>1, <1>2, <1>3

LEMMA QrEndsKeeps ==
  ASSUME SessionInv, QrAnswers \/ QrLeft
  PROVE  SessionInv'
<1>1. CASE QrAnswers
  <2>1. /\ modal = "qr" /\ modal' = "none" /\ UNCHANGED Requests /\ dlg' = dlg /\ from' = from
        /\ ChangeWindow("MAINPANEL") \/ UNCHANGED <<cur, todo>>
    BY <1>1 DEF QrAnswers, Pairing, Requests
  <2>2. modal \in Elsewhere /\ "MAINPANEL" \notin Four /\ modal' \notin RequestLoops
    BY <2>1 DEF Elsewhere, Four, RequestLoops
  <2>3. CASE ChangeWindow("MAINPANEL")
    BY <2>1, <2>2, <2>3, LoopEnds
  <2>4. CASE UNCHANGED <<cur, todo>>
    <3>1. cur \notin Four /\ modal \notin RequestLoops
      BY <2>2, LoopElsewhere DEF SessionInv
    <3>2. WindowsInv'
      BY <2>1, <2>2, <2>4, <3>1, DialogOutside DEF SessionInv, Requests
    <3>3. WizardsAside'
      BY <2>1, AsideStays DEF SessionInv
    <3>. QED  BY <3>2, <3>3 DEF SessionInv
  <2>. QED  BY <2>1, <2>3, <2>4
<1>2. CASE QrLeft
  <2>1. /\ Idle /\ cur = "QRPROC" /\ ChangeWindow("MAINPANEL") /\ UNCHANGED modal
        /\ UNCHANGED Requests /\ dlg' = dlg /\ from' = from
    BY <1>2 DEF QrLeft, Requests, gvars
  <2>2. cur \notin Four /\ "MAINPANEL" \notin Four
    BY <2>1 DEF Four
  <2>. QED  BY <2>1, <2>2, IdleMoves
<1>. QED  BY <1>1, <1>2

\* Another window comes in front while no loop runs in one of the four.
LEMMA PanelOutside ==
  ASSUME WindowsInv, todo = << >>, UNCHANGED todo, cur \notin Four, cur' \notin Four,
         modal \notin RequestLoops, modal' \notin RequestLoops,
         UNCHANGED <<heap, verify, show, raw, batch, txs, answer, last, odd>>
  PROVE  WindowsInv'
<1>1. Phase' = "still" /\ Behind' = Behind
  BY DEF Phase, Behind
<1>2. QueueShape'
  BY <1>1 DEF QueueShape, RequestLoops
<1>. QED  BY <1>1, <1>2, OutsideKeeps

\* A PIN that erases the wallet: the guide opens, over the main panel or alone.
LEMMA ErasesKeep ==
  ASSUME SessionInv, HistoryErases \/ BindErases \/ PubkeyErases
  PROVE  SessionInv'
<1>1. CASE HistoryErases \/ BindErases
  <2>1. /\ cur' = "MAINPANEL" /\ UNCHANGED todo /\ modal' = "guide" /\ UNCHANGED Requests
        /\ dlg' = dlg /\ from' = from /\ modal \in {"select", "qr"}
    BY <1>1 DEF HistoryErases, BindErases, PanelAnyway, Pairing, GuideOpens, Requests
  <2>2. modal # "none" /\ modal \notin RequestLoops
    BY <2>1 DEF RequestLoops
  <2>a. cur \notin Four /\ todo = << >>
    BY <2>2, PhaseType DEF SessionInv, WindowsInv, QueueShape
  <2>3. cur' \notin Four /\ modal' \notin RequestLoops
    BY <2>1 DEF Four, RequestLoops
  <2>4. WindowsInv'
    BY <2>1, <2>2, <2>a, <2>3, PanelOutside DEF SessionInv, Requests
  <2>5. WizardsAside'
    BY <2>1, AsideStays DEF SessionInv
  <2>. QED  BY <2>4, <2>5 DEF SessionInv
<1>2. CASE PubkeyErases
  <2>1. /\ modal = "qr" /\ modal' = "none" /\ UNCHANGED Requests /\ dlg' = dlg /\ from' = from
        /\ ChangeWindow("GUIDE")
    BY <1>2 DEF PubkeyErases, Pairing, Requests
  <2>2. modal \in Elsewhere /\ "GUIDE" \notin Four
    BY <2>1 DEF Elsewhere, Four
  <2>. QED  BY <2>1, <2>2, LoopEnds
<1>. QED  BY <1>1, <1>2

LEMMA WindowsKeep ==
  ASSUME SessionInv, Windows, UNCHANGED gvars
  PROVE  SessionInv'
<1>1. WindowsInv'
  BY WindowsStep DEF SessionInv, Windows
<1>2. modal \notin {"guide", "setting"}
  BY OwnDialogs DEF Windows, RequestLoops
<1>3. WizardsAside'
  BY <1>2, AsideStays DEF SessionInv, gvars
<1>. QED  BY <1>1, <1>3 DEF SessionInv

LEMMA RestartsKeep ==
  ASSUME SessionInv, Restart
  PROVE  SessionInv'
<1>1. /\ last = Nothing /\ cur' \in {"MAINPANEL", "GUIDE"} /\ todo' = <<Call("resume", cur')>>
      /\ modal' = "none" /\ UNCHANGED Requests /\ dlg' = NoDialog /\ from' = Nothing
  BY DEF Restart, Unscanned, BootWindow, Requests
<1>2. WindowsInv'
  BY <1>1, RestartKeeps DEF SessionInv, Requests
<1>3. WizardsAside'
  BY <1>1, AsideStays DEF SessionInv
<1>. QED  BY <1>2, <1>3 DEF SessionInv

LEMMA SessionBegins ==
  ASSUME Init
  PROVE  SessionInv
<1>1. WindowsInv
  BY WindowsBegin DEF Init, SessionInit
<1>2. WizardsAside
  BY NothingIsNoWindow DEF Init, WizardsAside, NoDialog
<1>. QED  BY <1>1, <1>2 DEF SessionInv

LEMMA SessionStep ==
  ASSUME SessionInv, [Next]_vars
  PROVE  SessionInv'
<1>1. CASE PanelScan \/ PanelHistory \/ PanelSetting
  BY <1>1, PanelKeeps
<1>2. CASE ScanLeaves \/ ScanBad \/ ScanActivation \/ ScanPairing
  BY <1>2, ScanWindowKeeps
<1>3. CASE ScanRequest \/ FirstGoes
  BY <1>3, RequestKeeps
<1>4. CASE ScanFirst \/ ViewRuns \/ UNCHANGED vars
  BY <1>4, ViewKeeps
<1>5. CASE QrResumes \/ QrErrorClosed \/ QrActivates \/ QuietHandler
  BY <1>5, QrKeeps
<1>6. CASE Windows /\ UNCHANGED gvars
  BY <1>6, WindowsKeep
<1>7. CASE GuideNext \/ WizardNext
  BY <1>7, GuideKeeps, WizardKeeps
<1>8. CASE Restart
  BY <1>8, RestartsKeep
<1>9. CASE QrAnswers \/ QrLeft
  BY <1>9, QrEndsKeeps
<1>10. CASE HistoryErases \/ BindErases \/ PubkeyErases
  BY <1>10, ErasesKeep
<1>. QED  BY <1>1, <1>2, <1>3, <1>4, <1>5, <1>6, <1>7, <1>8, <1>9, <1>10 DEF Next

LEMMA SessionHolds == Spec => []SessionInv
BY SessionBegins, SessionStep, PTL DEF Spec

\* Whatever is typed, scanned, looked at or left in between, OK signs the message that
\* was scanned last, with the session of the window shown, and its view accepted it.
THEOREM SignsWhatWasScanned == Spec => []SignsLastScanned
<1>1. SessionInv => SignsLastScanned
  BY InvSignsLast DEF SessionInv
<1>. QED  BY <1>1, SessionHolds, PTL

\* The signatures of a batch are those of all its items in their order, or there are none.
THEOREM BatchesAreWhole == Spec => []BatchAllOrNone
<1>1. SessionInv => BatchAllOrNone
  BY InvBatchWhole DEF SessionInv
<1>. QED  BY <1>1, SessionHolds, PTL

\* Every message that is allocated is owned by one window, and no window that is shown
\* refers to one that was deleted.
THEOREM NoMessageDangles == Spec => []MessagesOwned
<1>1. SessionInv => MessagesOwned
  BY InvOwned DEF SessionInv
<1>. QED  BY <1>1, SessionHolds, PTL

\* The code that is shown is that of the request shown.
THEOREM CodesMatch == Spec => []CodeIsOfRequest
<1>1. SessionInv => CodeIsOfRequest
  BY InvCode DEF SessionInv
<1>. QED  BY <1>1, SessionHolds, PTL

\* A view that is opened knows whether its message comes from the phone or the history,
\* unless an earlier one could not be processed.
THEOREM SourcesAreTold == Spec => []SourceTold
<1>1. SessionInv => SourceTold
  BY InvSource DEF SessionInv
<1>. QED  BY <1>1, SessionHolds, PTL
=============================================================================
