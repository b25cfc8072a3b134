------------------------------- MODULE SeedGuide ------------------------------
(***************************************************************************)
(* GuideWin::startGuide: a wallet is made or recovered.  The whole wizard   *)
(* runs in one onResume of the window: a loop that looks at the top of a    *)
(* stack of steps, shows that step's dialog and pushes or pops.  The words  *)
(* are shown by BackupSeedWord.cpp and asked back by ConfirmSeedWord.cpp,   *)
(* whose verdict is shown for a moment before it counts; words of a wallet  *)
(* to recover are typed on the keyboard of WordKeyboard.                    *)
(***************************************************************************)
EXTENDS SignWindows, WizardSteps, WordKeyboard

CONSTANTS
  Mnemonics,   \* the sequences of words with a valid check sum
  Counts,      \* the numbers of words to choose from: 12, 18, 24
  PageWords,   \* ITEM_MAX_CNT of BackupSeedWord.cpp: 4
  PoolMax,     \* ITEM_SELECT_POOL_MAX of ConfirmSeedWord.cpp: 8
  ItemMax,     \* and its ITEM_MAX_CNT: 5
  Pins, Phrases

ASSUME WizardAssumption ==
  /\ ItemMax <= PoolMax /\ \A n \in Counts : n \in Nat \ {0} /\ PoolMax <= n
  /\ PageWords \in Nat \ {0}
  /\ \A m \in Mnemonics : m \in Seq(Words) /\ Len(m) \in Counts

\* Nothing is no passphrase, no window and no record of a wallet.
ASSUME RecordsAssumption ==
  /\ Nothing \notin Phrases \cup {"MAINPANEL", "GUIDE"}
  /\ \A w \in Mnemonics, p \in Phrases \cup {Nothing} :
       /\ [words |-> w, pass |-> p] # Nothing
       /\ \A pin \in Pins, k \in BOOLEAN :
            [words |-> w, pass |-> p, pin |-> pin, keeps |-> k] # Nothing

VARIABLES
  steps,     \* the stack of the wizard that runs
  wiz,       \* its other locals
  dlg,       \* the dialog it shows, if its answers depend on one another
  chip,      \* the seed in the secure element: words, passphrase, PIN, and
             \* whether it keeps the mnemonic; or Nothing
  account,   \* the account the application has recorded, or Nothing: gHaveSeed
  active,    \* device_get_active_time() # 0, and Global_Active_step
  from,      \* mChangeWinFromId of the scan window
  qr,        \* what QrProcWin was sent: "none", "error", "active", "bind" or "pubkey"
  strayed    \* observation: the main panel was opened without a wallet

gvars == <<steps, wiz, dlg, chip, account, active, from, qr, strayed>>

NoDialog == [kind |-> "none"]
NoWizard == [mlen |-> 0]
NoWallet == chip = Nothing /\ account = Nothing

\* randomBuf and mIndexes hold the same words; text is mnenonics.  What the user did
\* is observed: the words seen and picked, and the last PINs typed.
GuideLocals == [mlen |-> 0, recovery |-> FALSE, words |-> << >>, text |-> << >>,
                seen |-> {}, picked |-> << >>, pins |-> << >>]

AccountOf(c) == [words |-> c.words, pass |-> c.pass]

\* What the windows of a request have is left alone by the wizards.
Requests == <<heap, verify, show, raw, batch, txs, answer, last, odd>>
OnlyWizard == UNCHANGED <<cur, todo, modal, history, Requests>>

At(wizard, step) == modal = wizard /\ TopStep(steps) = step /\ dlg = NoDialog
In(kind) == dlg.kind = kind

Onto(step) == steps' = Push(steps, step) /\ dlg' = NoDialog
Off == steps' = Pop(steps) /\ dlg' = NoDialog

\* What failed is pushed once more.
StaysOnto == steps' = Push(steps, TopStep(steps)) /\ dlg' = NoDialog

Stays == UNCHANGED steps /\ dlg' = NoDialog

\* A wizard ends: its locals are gone, the stack is freed.
Ends == steps' = << >> /\ dlg' = NoDialog /\ wiz' = NoWizard /\ modal' = "none"

-----------------------------------------------------------------------------
(* Start and activation                                                     *)

\* GuideWin::onResume
GuideOpens ==
  /\ modal' = "guide" /\ wiz' = GuideLocals
  /\ steps' = CASE active.step = 1 -> <<"LANG", "DEVICE_ACTIVE">>
                [] active.step = 2 -> <<"LANG", "KEY_INSTRUCTION">>
                [] OTHER -> <<"LANG">>
  /\ active' = [active EXCEPT !.step = IF @ = 1 THEN 1 ELSE 0]

GuideStarts ==
  /\ Handles("resume", "GUIDE") /\ GuideOpens /\ strayed' = FALSE
  /\ UNCHANGED <<dlg, chip, account, from, qr, history, Requests>>

Language ==
  /\ At("guide", "LANG")
  /\ Onto(IF active.done THEN "KEY_INSTRUCTION" ELSE "DEVICE_ACTIVE")
  /\ OnlyWizard /\ UNCHANGED <<wiz, chip, account, active, from, qr, strayed>>

\* activeDevice, which goes on where the scan window was opened
ActiveStarts ==
  /\ At("guide", "DEVICE_ACTIVE")
  /\ IF active.done
     THEN steps' = Push(Pop(steps), "KEY_INSTRUCTION") /\ UNCHANGED <<dlg, active>>
     ELSE /\ steps' = Pop(steps) /\ active' = [active EXCEPT !.step = 0]
          /\ dlg' = [kind |-> "active", at |-> IF active.step # 0 THEN 2 ELSE 0]
  /\ OnlyWizard /\ UNCHANGED <<wiz, chip, account, from, qr, strayed>>

\* The tips, the page to open on a phone, the number to compare; one that could not be
\* made leads back.
ActiveAnswer ==
  /\ In("active")
  /\ \/ dlg.at < 2 /\ dlg' = [dlg EXCEPT !.at = @ + 1]
     \/ dlg.at > 0 /\ dlg' = [dlg EXCEPT !.at = @ - 1]
     \/ dlg.at = 0 /\ dlg' = NoDialog
  /\ OnlyWizard /\ UNCHANGED <<steps, wiz, chip, account, active, from, qr, strayed>>

\* The wizard is left for the scan window.
ActiveScans ==
  /\ In("active") /\ dlg.at = 2
  /\ active' = [active EXCEPT !.step = 1] /\ from' = cur
  /\ Ends /\ ChangeWindow("SCAN")
  /\ UNCHANGED <<chip, account, qr, strayed, history, Requests>>

-----------------------------------------------------------------------------
(* Steps that only lead on or back                                          *)

LeadsTo(step) ==
  CASE step = "KEY_INSTRUCTION" -> {"GREET"} [] step = "GREET" -> {"ACCOUNT_OP_SELECT"}
    [] step = "MNEMONICS_TIPS" -> {"MNEMONICS_DETAIL_TIPS", "MNEMONICS_CNT"}
    [] step = "MNEMONICS_DETAIL_TIPS" -> {"MNEMONICS_CNT"}
    [] step = "ACCOUNT_RECOVERY_TIPS" -> {"ACCOUNT_RECOVERY"}
    [] step = "MNEMONICS_CONFIRM_TIPS" -> {"MNEMONICS_CONFIRM"}
    [] step = "PASSWD_TIPS" -> {"ENTER_PASSWD"}
    [] step = "WALLET_NAME_TIPS" -> {"INPUT_WALLET_NAME"}
    [] step = "INPUT_WALLET_NAME" -> {"DOWNLOAD_APP_TIPS"}
    [] OTHER -> {}

\* The steps behind which there is a wallet have no way back.
LeadsBack == {"KEY_INSTRUCTION", "GREET", "ACCOUNT_OP_SELECT", "MNEMONICS_TIPS",
              "MNEMONICS_DETAIL_TIPS", "MNEMONICS_CNT", "ACCOUNT_RECOVERY_TIPS",
              "MNEMONICS_CONFIRM_TIPS", "PASSWD_TIPS"}

Onward == /\ modal = "guide" /\ dlg = NoDialog
          /\ \E step \in LeadsTo(TopStep(steps)) : Onto(step)
          /\ OnlyWizard /\ UNCHANGED <<wiz, chip, account, active, from, qr, strayed>>

Backward == /\ modal = "guide" /\ dlg = NoDialog /\ TopStep(steps) \in LeadsBack
            /\ Off
            /\ OnlyWizard /\ UNCHANGED <<wiz, chip, account, active, from, qr, strayed>>

\* A new wallet, or one to recover
AccountSelect ==
  /\ At("guide", "ACCOUNT_OP_SELECT")
  /\ \E recovery \in BOOLEAN :
       /\ wiz' = [wiz EXCEPT !.recovery = recovery]
       /\ Onto(IF recovery THEN "MNEMONICS_CNT" ELSE "MNEMONICS_TIPS")
  /\ OnlyWizard /\ UNCHANGED <<chip, account, active, from, qr, strayed>>

\* The number of words; what was left of an earlier wallet is erased, or stays the
\* reason not to go on.
CountSelected ==
  /\ At("guide", "MNEMONICS_CNT")
  /\ \E n \in Counts : wiz' = [GuideLocals EXCEPT !.mlen = n, !.recovery = wiz.recovery]
  /\ Onto("CHECK_SECHIP") \/ Stays
  /\ OnlyWizard /\ UNCHANGED <<chip, account, active, from, qr, strayed>>

SechipChecked ==
  /\ At("guide", "CHECK_SECHIP")
  /\ steps' = IF wiz.recovery THEN Push(Pop(steps), "ACCOUNT_RECOVERY_TIPS")
              ELSE Push(Pop(steps), "MNEMONICS_GENERATE")
  /\ OnlyWizard /\ UNCHANGED <<wiz, dlg, chip, account, active, from, qr, strayed>>

-----------------------------------------------------------------------------
(* The words are made, shown and asked back                                 *)

Generated ==
  /\ At("guide", "MNEMONICS_GENERATE")
  /\ \E m \in Mnemonics :
       /\ Len(m) = wiz.mlen
       /\ wiz' = [wiz EXCEPT !.words = m, !.text = << >>, !.seen = {}, !.picked = << >>]
  /\ steps' = Push(Pop(steps), "MNEMONICS_SHOW")
  /\ OnlyWizard /\ UNCHANGED <<dlg, chip, account, active, from, qr, strayed>>

Pages(n) == IF n % PageWords # 0 THEN n \div PageWords + 1 ELSE n \div PageWords

\* updateData: the words of a page, counted from 0
OnPage(p) ==
  LET start == p * PageWords
      end == IF wiz.mlen - start >= PageWords THEN start + PageWords - 1 ELSE wiz.mlen - 1
  IN  start..end

ShowsPage(p) == /\ dlg' = [kind |-> "show", page |-> p]
                /\ wiz' = [wiz EXCEPT !.seen = @ \cup OnPage(p)]

WordsShown ==
  /\ At("guide", "MNEMONICS_SHOW") /\ ShowsPage(0)
  /\ OnlyWizard /\ UNCHANGED <<steps, chip, account, active, from, qr, strayed>>

PageTurned ==
  /\ In("show")
  /\ \E d \in {-1, 1} : dlg.page + d \in 0..Pages(wiz.mlen) - 1 /\ ShowsPage(dlg.page + d)
  /\ OnlyWizard /\ UNCHANGED <<steps, chip, account, active, from, qr, strayed>>

LastPage == In("show") /\ dlg.page = Pages(wiz.mlen) - 1

WordsRead ==
  /\ LastPage /\ Onto("MNEMONICS_CONFIRM_TIPS")
  /\ OnlyWizard /\ UNCHANGED <<wiz, chip, account, active, from, qr, strayed>>

\* Back, after the alert that the words will be others: or they are shown again.
WordsLeft ==
  /\ In("show") /\ (Off \/ Stays)
  /\ OnlyWizard /\ UNCHANGED <<wiz, chip, account, active, from, qr, strayed>>

\* reloadData: words of the next PoolMax, or of the last, in any order; the word that
\* is asked for takes the place of one of them if it is not there.
DrawnFrom(words, idx) ==
  LET start == IF Len(words) - idx > PoolMax THEN idx ELSE Len(words) - PoolMax
      picks == {p \in [1..ItemMax -> 1..PoolMax] : IsInjective(p)}
  IN  {[i \in 1..ItemMax |-> words[start + p[i]]] : p \in picks}

Asked(words, idx) ==
  UNION {IF words[idx + 1] \in ToSet(items) THEN {items}
         ELSE {[items EXCEPT ![i] = words[idx + 1]] : i \in 1..ItemMax} :
           items \in DrawnFrom(words, idx)}

Asks(idx) ==
  \E items \in Asked(wiz.words, idx) :
    dlg' = [kind |-> "confirm", idx |-> idx, items |-> items, sel |-> 1, mark |-> "none"]

ConfirmStarts ==
  /\ At("guide", "MNEMONICS_CONFIRM") /\ Asks(0) /\ wiz' = [wiz EXCEPT !.picked = << >>]
  /\ OnlyWizard /\ UNCHANGED <<steps, chip, account, active, from, qr, strayed>>

\* The selection moves while a verdict is shown.
SelectionFreeAlways == In("confirm")
SelectionFree == In("confirm") /\ dlg.mark = "none"

ConfirmMoves ==
  /\ SelectionFree
  /\ \E d \in {-1, 1} : dlg' = [dlg EXCEPT !.sel = ((@ + d - 1) % ItemMax) + 1]
  /\ OnlyWizard /\ UNCHANGED <<steps, wiz, chip, account, active, from, qr, strayed>>

Right == dlg.items[dlg.sel] = wiz.words[dlg.idx + 1]

ConfirmOk ==
  /\ In("confirm") /\ dlg.mark = "none"
  /\ dlg' = [dlg EXCEPT !.mark = IF Right THEN "right" ELSE "error"]
  /\ OnlyWizard /\ UNCHANGED <<steps, wiz, chip, account, active, from, qr, strayed>>

\* TimerProc: the selected item is compared once more, and the next word asked for, or
\* the same one among others.
ConfirmTimer ==
  /\ In("confirm") /\ dlg.mark # "none"
  /\ IF ~Right THEN Asks(dlg.idx) /\ UNCHANGED <<steps, wiz>>
     ELSE /\ wiz' = [wiz EXCEPT !.picked = Append(@, dlg.items[dlg.sel])]
          /\ IF dlg.idx + 1 = wiz.mlen THEN Onto("PASSWD_TIPS")
             ELSE Asks(dlg.idx + 1) /\ UNCHANGED steps
  /\ OnlyWizard /\ UNCHANGED <<chip, account, active, from, qr, strayed>>

ConfirmLeft ==
  /\ In("confirm") /\ Off
  /\ OnlyWizard /\ UNCHANGED <<wiz, chip, account, active, from, qr, strayed>>

-----------------------------------------------------------------------------
(* Words that are typed: enterRecoveryWord, and verifyMnemonic of the other *)
(* wizards.  The letters of the first word of a recovery are keys; bound:   *)
(* the other words are typed at once, and are words of some mnemonic.       *)

Spelling(w) == IF w = 0 THEN << >> ELSE WordList[w]
Asking(typed, at) ==
  [kind |-> "words", typed |-> typed, at |-> at, kb |-> Opened(Spelling(typed[at + 1]))]

WordsStart(n) == dlg' = Asking([i \in 1..n |-> 0], 0)

\* A word is in place; the last one is followed by the check of all of them.
Placed(w) == [dlg.typed EXCEPT ![dlg.at + 1] = w]
AllTyped == dlg.at + 1 = Len(dlg.typed)
LettersShown == In("words") /\ dlg.at = 0 /\ modal = "guide"

WordOf(w) == IF LettersShown THEN w = Chosen(dlg.kb)
             ELSE w \in UNION {ToSet(m) : m \in Mnemonics}

RecoveryStarts ==
  /\ At("guide", "ACCOUNT_RECOVERY") /\ WordsStart(wiz.mlen)
  /\ wiz' = [wiz EXCEPT !.words = << >>, !.text = << >>]
  /\ OnlyWizard /\ UNCHANGED <<steps, chip, account, active, from, qr, strayed>>

LetterTyped ==
  /\ LettersShown
  /\ \E kb \in Presses(dlg.kb) : dlg' = [dlg EXCEPT !.kb = kb]
  /\ OnlyWizard /\ UNCHANGED <<steps, wiz, chip, account, active, from, qr, strayed>>

WordTyped ==
  /\ In("words") /\ ~AllTyped
  /\ \E w \in Words : WordOf(w) /\ dlg' = Asking(Placed(w), dlg.at + 1)
  /\ OnlyWizard /\ UNCHANGED <<steps, wiz, chip, account, active, from, qr, strayed>>

\* Back: to the word before, which is still there, or off the step
WordLeft ==
  /\ In("words")
  /\ IF dlg.at > 0 THEN dlg' = Asking(dlg.typed, dlg.at - 1) /\ UNCHANGED steps ELSE Off
  /\ OnlyWizard /\ UNCHANGED <<wiz, chip, account, active, from, qr, strayed>>

\* mnemonic_check: the last word is asked for again if it fails.
RecoveryTyped ==
  /\ In("words") /\ AllTyped /\ modal = "guide"
  /\ \E w \in Words :
       /\ WordOf(w)
       /\ IF Placed(w) \in Mnemonics
          THEN /\ wiz' = [wiz EXCEPT !.text = Placed(w), !.picked = Placed(w)]
               /\ Onto("PASSWD_TIPS")
          ELSE dlg' = Asking(Placed(w), dlg.at) /\ UNCHANGED <<wiz, steps>>
  /\ OnlyWizard /\ UNCHANGED <<chip, account, active, from, qr, strayed>>

-----------------------------------------------------------------------------
(* enterPassword, and what is stored                                        *)

\* The first of two PINs, or the second, which must be the same
PinStarts ==
  /\ At("guide", "ENTER_PASSWD")
  /\ dlg' = [kind |-> "pin", first |-> Nothing]
  /\ OnlyWizard /\ UNCHANGED <<steps, wiz, chip, account, active, from, qr, strayed>>

\* The second PIN is taken whatever the first one was.
SecondPinAny(p) == dlg.first # Nothing
SecondPin(p) == dlg.first = p

\* GuideWin 928-946: the words of a new wallet are made from its random bytes again,
\* those of a recovery are erased by the first verification.
TextOf == IF wiz.recovery THEN wiz.text ELSE wiz.words

PinTyped ==
  /\ In("pin")
  /\ \E p \in Pins :
       /\ PinOk(p)
       /\ wiz' = [wiz EXCEPT !.pins = <<dlg.first, p>>,
                             !.text = IF SecondPin(p) THEN TextOf ELSE @]
       /\ dlg' = IF dlg.first = Nothing THEN [dlg EXCEPT !.first = p]
                 ELSE IF ~SecondPin(p) THEN [dlg EXCEPT !.first = Nothing]
                 ELSE IF TextOf \in Mnemonics THEN [kind |-> "store", pin |-> p] ELSE NoDialog
  /\ OnlyWizard /\ UNCHANGED <<steps, chip, account, active, from, qr, strayed>>

\* The way back, or a PIN that could not be hashed
PinLeft ==
  /\ In("pin") /\ (Off \/ Stays)
  /\ wiz' = [wiz EXCEPT !.pins = << >>]
  /\ OnlyWizard /\ UNCHANGED <<chip, account, active, from, qr, strayed>>

\* wallet_storeSeed: refused by the chip, stored but not recorded, or both
Stored ==
  /\ In("store")
  /\ LET c == [words |-> wiz.text, pass |-> Nothing, pin |-> dlg.pin, keeps |-> FALSE]
     IN  \/ Stays /\ UNCHANGED <<chip, account>>
         \/ chip' = c /\ Stays /\ UNCHANGED account
         \/ /\ chip' = c /\ account' = AccountOf(c)
            /\ dlg' = [kind |-> "check"] /\ UNCHANGED steps
  /\ OnlyWizard /\ UNCHANGED <<wiz, active, from, qr, strayed>>

\* wallet_verify_mnemonic and wallet_verify_seed_xpub: the record is taken back if one
\* of them fails.
Checked(ok) == IF ok THEN UNCHANGED account ELSE account' = Nothing

Verified ==
  /\ In("check")
  /\ wiz' = [wiz EXCEPT !.text = << >>]
  /\ \E same, xpub \in BOOLEAN :
       /\ chip' = [chip EXCEPT !.keeps = same]
       /\ Checked(same /\ xpub)
       /\ IF same /\ xpub THEN Onto("WALLET_NAME_TIPS") ELSE Stays
  /\ OnlyWizard /\ UNCHANGED <<active, from, qr, strayed>>

GuideDone ==
  /\ At("guide", "DOWNLOAD_APP_TIPS")
  /\ Ends /\ ChangeWindow("MAINPANEL") /\ strayed' = FALSE
  /\ UNCHANGED <<chip, account, active, from, qr, history, Requests>>

GuideNext ==
  \/ GuideStarts \/ Language \/ ActiveStarts \/ ActiveAnswer \/ ActiveScans
  \/ Onward \/ Backward \/ AccountSelect \/ CountSelected \/ SechipChecked
  \/ Generated \/ WordsShown \/ PageTurned \/ WordsRead \/ WordsLeft
  \/ ConfirmStarts \/ ConfirmMoves \/ ConfirmOk \/ ConfirmTimer \/ ConfirmLeft
  \/ RecoveryStarts \/ LetterTyped \/ WordTyped \/ WordLeft \/ RecoveryTyped
  \/ PinStarts \/ PinTyped \/ PinLeft \/ Stored \/ Verified \/ GuideDone

-----------------------------------------------------------------------------
\* A wallet that is made is the one the user has: its words were all shown since they
\* were made, and picked one by one, or were typed and have a valid check sum; its PIN
\* was typed twice and passes the test of PINs.
SeedIsChosen ==
  modal = "guide" /\ account # Nothing =>
    /\ AccountOf(chip) = account /\ chip.words \in Mnemonics
    /\ PinOk(chip.pin) /\ wiz.pins = <<chip.pin, chip.pin>>
    /\ wiz.picked = chip.words
    /\ ~wiz.recovery => wiz.seen = 0..wiz.mlen - 1

\* While words are asked back the right one can be selected, and the verdict that is
\* shown is that of the item that counts when the timer ends; on the keyboard the
\* list holds what can be chosen.
WordsOffered ==
  /\ In("confirm") => /\ wiz.words[dlg.idx + 1] \in ToSet(dlg.items)
                      /\ dlg.mark # "none" => (dlg.mark = "right" <=> Right)
  /\ LettersShown => ListTells(dlg.kb)

\* No path through the steps fills the stack: what a push beyond its capacity loses
\* is never pushed.
StackNeverFull == Len(steps) <= Capacity
=============================================================================
