----------------------------- MODULE UtxoTotals -----------------------------
(***************************************************************************)
(* How the views of coins with inputs and outputs add up a transaction:     *)
(* the loops of coin/Bitcoin/bitcoin_sign_view.c,                           *)
(* coin/Kaspa/kaspa_sign_view.c and coin/Ckb/ckb_sign_view.c.  One action   *)
(* is one turn of a loop.  The values are 64-bit numbers with sign; Top is  *)
(* LLONG_MAX.                                                               *)
(***************************************************************************)
EXTENDS Integers, Sequences

CONSTANTS Top, MaxItems, Values
ASSUME TotalsAssumption == /\ Top \in Nat /\ MaxItems \in Nat
                           /\ Values \subseteq -Top..Top

VARIABLES
  upc,      \* "idle", the loop the view is in, "sums" or "done"
  inV, outV, changeV,   \* in_value, out_value, change_value
  inN,      \* inputs looked at
  change,   \* change_item_index # -1
  rows,     \* out_item_count
  shownV,   \* the outputs given a row of their own
  memos,    \* outputs without address and value that carry data, and are no change
  lead,     \* the first output: "none" yet, "pay", "change" or "memo"
  err, fee, send

uvars == <<upc, inV, outV, changeV, inN, change, rows, shownV, memos, lead, err, fee, send>>

TotalsInit ==
  /\ upc = "idle" /\ inV = 0 /\ outV = 0 /\ changeV = 0 /\ inN = 0 /\ change = FALSE
  /\ rows = 0 /\ shownV = 0 /\ memos = 0 /\ lead = "none" /\ err = 0 /\ fee = 0 /\ send = 0

Positive(sum, v) == v > 0

\* check_add_value: positive and no overflow
Addable(sum, v) == v > 0 /\ v <= Top - sum

\* The locals are fresh in every call; no inputs is error 101.
StartTotals(some) ==
  /\ inV' = 0 /\ outV' = 0 /\ changeV' = 0 /\ inN' = 0 /\ change' = FALSE
  /\ rows' = 0 /\ shownV' = 0 /\ memos' = 0 /\ lead' = "none" /\ fee' = 0 /\ send' = 0
  /\ err' = IF some THEN 0 ELSE 101
  /\ upc' = IF some THEN "inputs" ELSE "done"

Forget ==
  /\ upc' = "idle" /\ inV' = 0 /\ outV' = 0 /\ changeV' = 0 /\ inN' = 0 /\ change' = FALSE
  /\ rows' = 0 /\ shownV' = 0 /\ memos' = 0 /\ lead' = "none" /\ err' = 0 /\ fee' = 0 /\ send' = 0

Stop(e) == /\ err' = e /\ upc' = "done"
           /\ UNCHANGED <<changeV, rows, change, shownV, memos, lead, fee, send>>

\* An input: its address or script, its value, its transaction, its path
ReadInput(v, flaw) ==
  /\ upc = "inputs" /\ inN < MaxItems
  /\ inN' = inN + 1
  /\ inV' = IF flaw # 110 /\ Addable(inV, v) THEN inV + v ELSE inV
  /\ IF flaw = 110 \/ ~Addable(inV, v) \/ flaw \in {113, 114}
     THEN Stop(IF flaw = 110 THEN 110 ELSE IF ~Addable(inV, v) THEN 112 ELSE flaw)
     ELSE UNCHANGED <<upc, err, changeV, rows, change, shownV, memos, lead, fee, send>>
  /\ UNCHANGED outV

\* The inputs are read; no outputs is error 102, which is found first.
InputsRead(some) ==
  /\ upc = "inputs" /\ inN > 0
  /\ IF some THEN /\ upc' = "outputs"
                  /\ UNCHANGED <<err, changeV, rows, change, shownV, memos, lead, fee, send>>
             ELSE Stop(102)
  /\ UNCHANGED <<inV, outV, inN>>

Leads(kind) == lead' = IF lead = "none" THEN kind ELSE lead

\* An output to an address: counted, and the only change is kept apart.
ReadOutput(v, isChange, flaw) ==
  /\ upc = "outputs" /\ rows + memos < MaxItems
  /\ LET bad == \/ flaw = 130 \/ ~Addable(outV, v)
                \/ isChange /\ (change \/ flaw = 133)
     IN  /\ outV' = IF flaw # 130 /\ Addable(outV, v) THEN outV + v ELSE outV
         /\ IF bad
            THEN Stop(IF flaw = 130 THEN 130 ELSE IF ~Addable(outV, v) THEN 131
                      ELSE IF change THEN 132 ELSE 133)
            ELSE /\ change' = (change \/ isChange)
                 /\ changeV' = IF isChange THEN changeV + v ELSE changeV
                 /\ rows' = IF isChange THEN rows ELSE rows + 1
                 /\ shownV' = IF isChange THEN shownV ELSE shownV + v
                 /\ Leads(IF isChange THEN "change" ELSE "pay")
                 /\ UNCHANGED <<upc, err, memos, fee, send>>
  /\ UNCHANGED <<inV, inN>>

\* Bitcoin's memo: no address, no value, counted as a row but not shown.  The flag
\* and the path of a change are looked at all the same.
ReadMemo(isChange, flaw) ==
  /\ upc = "outputs" /\ rows + memos < MaxItems
  /\ IF isChange /\ (change \/ flaw = 133)
     THEN Stop(IF change THEN 132 ELSE 133)
     ELSE /\ change' = (change \/ isChange) /\ Leads("memo")
          /\ rows' = IF isChange THEN rows ELSE rows + 1
          /\ memos' = IF isChange THEN memos ELSE memos + 1
          /\ UNCHANGED <<upc, err, changeV, shownV, fee, send>>
  /\ UNCHANGED <<inV, outV, inN>>

OutputsRead ==
  /\ upc = "outputs"
  /\ upc' = "done"
  /\ err' = IF outV >= inV THEN 139 ELSE 0
  /\ fee' = IF outV >= inV THEN fee ELSE inV - outV
  /\ send' = IF outV >= inV THEN send ELSE inV - changeV
  /\ UNCHANGED <<inV, outV, changeV, inN, change, rows, shownV, memos, lead>>

\* A turn of a loop, and one that only Bitcoin has
TurnNext ==
  \/ \E v \in Values, f \in {0, 110, 113, 114} : ReadInput(v, f)
  \/ \E some \in BOOLEAN : InputsRead(some)
  \/ \E v \in Values, c \in BOOLEAN, f \in {0, 130, 133} : ReadOutput(v, c, f)
  \/ OutputsRead

MemoNext == \E c \in BOOLEAN, f \in {0, 133} : ReadMemo(c, f)

TotalsNext == TurnNext \/ MemoNext

\* Alone: any view at any time
TotalsSpec ==
  TotalsInit /\ [][\/ TotalsNext \/ Forget \/ \E some \in BOOLEAN : StartTotals(some)]_uvars

-----------------------------------------------------------------------------
Accepted == upc = "done" /\ err = 0

SumsInRange == /\ {inV, outV, changeV, shownV, fee, send} \subseteq 0..Top
               /\ changeV + shownV = outV \/ err # 0

\* What an accepted page shows adds up: what is sent is what the recipients get
\* and the fee, and the fee is never zero or negative; there are rows for recipients
\* exactly if somebody but the change gets something.  On the way no sum leaves the range
\* of int64_t, whatever the request holds.
TotalsAgree ==
  /\ SumsInRange
  /\ Accepted => /\ fee > 0 /\ send = shownV + fee
                 /\ inV = shownV + changeV + fee
                 /\ rows > memos <=> shownV > 0
=============================================================================
