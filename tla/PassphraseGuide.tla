--------------------------- MODULE PassphraseGuide ----------------------------
(***************************************************************************)
(* The wizards of a device that has a wallet: Passphrase::guide opens the   *)
(* account of a passphrase, or the standard one again, and VerifyWin::guide *)
(* compares words with the wallet.  A chip that does not keep the mnemonic  *)
(* has it typed in first.  With them the settings that ask for the PIN:     *)
(* SettingWin::changePassword and resetDevice.                              *)
(***************************************************************************)
EXTENDS SeedGuide

\* Locals: passwd_ok, passphrase_type, passphrase_val, mlen and have_mnemonic; what
\* was typed as a passphrase is observed.
WizardLocals(have) ==
  [pinOk |-> FALSE, type |-> 0, val |-> Nothing, mlen |-> 0, have |-> have, typed |-> << >>]

Wizards == {"phrase", "verify"}
InWizard(step) == \E w \in Wizards : At(w, step)

\* onResume: without a seed in the chip, or when it does not answer, there is only the
\* error -401.
WizardStarts(window, wizard, first) ==
  /\ Handles("resume", window)
  /\ modal' = wizard
  /\ \/ steps' = << >> /\ wiz' = WizardLocals(FALSE)
     \/ /\ chip # Nothing
        /\ steps' = <<first>> /\ wiz' = WizardLocals(chip.keeps)
  /\ UNCHANGED <<dlg, chip, account, active, from, qr, strayed, history, Requests>>

\* mChangeWin is 0: back to the settings
WizardLeft ==
  /\ InWizard(NoStep) \/ InWizard("PASSPHRASE_TIPS") \/ InWizard("VERIFY_TIPS")
  /\ Ends /\ ChangeWindow("SETTING")
  /\ UNCHANGED <<chip, account, active, from, qr, strayed, history, Requests>>

WizardLeadsTo(step) ==
  CASE step = "PASSPHRASE_TIPS" -> {"PASSPHRASE_DETAIL_TIPS", "ACTION_DETECTION"}
    [] step = "PASSPHRASE_DETAIL_TIPS" -> {"ACTION_DETECTION"}
    [] step = "FIRST_USE_PASSPHRASE_TIPS" -> {"SELECT_MNEMONIC_CNT"}
    [] step = "VERIFY_MNEMONIC_TIPS" -> {"VERIFY_MNEMONIC"}
    [] step = "VERIFY_TIPS" -> {"ENTER_PASSWD"}
    [] OTHER -> {}

WizardLeadsBack == {"PASSPHRASE_DETAIL_TIPS", "SELECT_PASSPHRASE_TYPE",
                    "FIRST_USE_PASSPHRASE_TIPS", "SELECT_MNEMONIC_CNT", "VERIFY_MNEMONIC_TIPS"}

WizardOnward ==
  /\ modal \in Wizards /\ dlg = NoDialog
  /\ \E step \in WizardLeadsTo(TopStep(steps)) : Onto(step)
  /\ OnlyWizard /\ UNCHANGED <<wiz, chip, account, active, from, qr, strayed>>

WizardBackward ==
  /\ modal \in Wizards /\ dlg = NoDialog /\ TopStep(steps) \in WizardLeadsBack
  /\ Off
  /\ OnlyWizard /\ UNCHANGED <<wiz, chip, account, active, from, qr, strayed>>

\* Without the words in the chip, what is left is to type a PIN.
Detected == IF wiz.have THEN "SELECT_PASSPHRASE_TYPE" ELSE "ENTER_PASSWD"

ActionDetected ==
  /\ InWizard("ACTION_DETECTION")
  /\ steps' = Push(Pop(steps), Detected)
  /\ wiz' = [wiz EXCEPT !.type = IF wiz.have THEN @ ELSE 0]
  /\ OnlyWizard /\ UNCHANGED <<dlg, chip, account, active, from, qr, strayed>>

\* The standard wallet (1) or that of a passphrase (2)
TypeSelected ==
  /\ InWizard("SELECT_PASSPHRASE_TYPE")
  /\ \E type \in {1, 2} : wiz' = [wiz EXCEPT !.type = type]
  /\ Onto("ENTER_PASSWD")
  /\ OnlyWizard /\ UNCHANGED <<chip, account, active, from, qr, strayed>>

-----------------------------------------------------------------------------
(* The PIN, asked for once                                                  *)

AfterPin == CASE modal = "verify" -> "SELECT_MNEMONIC_CNT"
              [] wiz.type = 0 -> "FIRST_USE_PASSPHRASE_TIPS"
              [] wiz.type = 1 -> "SAVE_PASSPHRASE"
              [] wiz.type = 2 -> "ENTER_PASSPHRASE"

PinPassed ==
  /\ InWizard("ENTER_PASSWD")
  /\ steps' = Push(Pop(steps), AfterPin)
  /\ wiz' = [wiz EXCEPT !.pinOk = TRUE,
                        !.val = IF modal = "phrase" /\ wiz.type = 1 THEN Nothing ELSE @]
  /\ OnlyWizard /\ UNCHANGED <<dlg, chip, account, active, from, qr, strayed>>

PinRefused ==
  /\ InWizard("ENTER_PASSWD") /\ ~wiz.pinOk /\ Off
  /\ OnlyWizard /\ UNCHANGED <<wiz, chip, account, active, from, qr, strayed>>

\* passwdKeyboard: the last error erases the wallet (WalletSeed has its steps) and opens
\* the guide; the wizard ends without a window of its own.
Erased == chip' = Nothing /\ account' = Nothing

PinErases ==
  /\ InWizard("ENTER_PASSWD") /\ ~wiz.pinOk
  /\ Erased /\ Ends /\ ChangeWindow("GUIDE")
  /\ UNCHANGED <<active, from, qr, strayed, history, Requests>>

-----------------------------------------------------------------------------
(* The words again                                                          *)

WizardCount ==
  /\ InWizard("SELECT_MNEMONIC_CNT")
  /\ \E n \in Counts : wiz' = [wiz EXCEPT !.mlen = n]
  /\ Onto("VERIFY_MNEMONIC_TIPS")
  /\ OnlyWizard /\ UNCHANGED <<chip, account, active, from, qr, strayed>>

VerifyStarts ==
  /\ InWizard("VERIFY_MNEMONIC") /\ WordsStart(wiz.mlen)
  /\ OnlyWizard /\ UNCHANGED <<steps, wiz, chip, account, active, from, qr, strayed>>

Compared == In("words") /\ AllTyped /\ modal \in Wizards

\* The last word again: a wrong check sum, another wallet, or no answer from the chip
WordsDiffer ==
  /\ Compared
  /\ \E w \in Words : WordOf(w) /\ dlg' = Asking(Placed(w), dlg.at)
  /\ OnlyWizard /\ UNCHANGED <<steps, wiz, chip, account, active, from, qr, strayed>>

\* Passphrase: the chip keeps the mnemonic from now on, and all steps but the first are
\* taken back; it may not say so yet.
WordsKept ==
  /\ Compared /\ modal = "phrase"
  /\ \E w \in Words : WordOf(w) /\ Placed(w) = chip.words
  /\ chip' = [chip EXCEPT !.keeps = TRUE]
  /\ \/ /\ wiz' = [wiz EXCEPT !.have = TRUE, !.type = 2]
        /\ steps' = <<"PASSPHRASE_TIPS", "ENTER_PASSPHRASE">> /\ dlg' = NoDialog
     \/ dlg' = Asking(chip.words, dlg.at) /\ UNCHANGED <<wiz, steps>>
  /\ OnlyWizard /\ UNCHANGED <<account, active, from, qr, strayed>>

\* VerifyWin: the words of the chip, or others that the user stops at after the chip
\* found them to differ: both end in the settings.
WordsVerified ==
  /\ Compared /\ modal = "verify"
  /\ \E w \in Words : WordOf(w) /\ Placed(w) \in Mnemonics
  /\ Ends /\ ChangeWindow("SETTING")
  /\ UNCHANGED <<chip, account, active, from, qr, strayed, history, Requests>>

-----------------------------------------------------------------------------
(* enterPassphrase and SAVE_PASSPHRASE                                      *)

PhraseStarts ==
  /\ At("phrase", "ENTER_PASSPHRASE")
  /\ dlg' = [kind |-> "phrase", first |-> Nothing] /\ wiz' = [wiz EXCEPT !.val = Nothing]
  /\ OnlyWizard /\ UNCHANGED <<steps, chip, account, active, from, qr, strayed>>

SecondPhrase(p) == dlg.first = p

PhraseTyped ==
  /\ In("phrase")
  /\ \E p \in Phrases :
       /\ wiz' = [wiz EXCEPT !.typed = <<dlg.first, p>>]
       /\ dlg' = IF dlg.first # Nothing THEN [dlg EXCEPT !.first = Nothing]
                 ELSE IF PhraseOk(p) THEN [dlg EXCEPT !.first = p] ELSE dlg
  /\ OnlyWizard /\ UNCHANGED <<steps, chip, account, active, from, qr, strayed>>

\* Typed twice and confirmed
PhraseConfirmed ==
  /\ In("phrase")
  /\ \E p \in Phrases : /\ SecondPhrase(p)
                        /\ wiz' = [wiz EXCEPT !.val = p, !.typed = <<dlg.first, p>>]
  /\ Onto("SAVE_PASSPHRASE")
  /\ OnlyWizard /\ UNCHANGED <<chip, account, active, from, qr, strayed>>

PhraseLeft ==
  /\ In("phrase") /\ Off
  /\ OnlyWizard /\ UNCHANGED <<wiz, chip, account, active, from, qr, strayed>>

\* What the chip took is done, recorded or not.
SavedSoon(set, got) == set
SavedWhen(set, got) == got

\* wallet_store_passphrase: refused, in the chip without an answer about its id, or both;
\* what failed is tried again at once, and there is no way back.  The account is the one
\* in memory: a record that could not be written goes unnoticed (WalletSeed has it).
PhraseSaved ==
  /\ At("phrase", "SAVE_PASSPHRASE")
  /\ IF (wiz.type = 1) # (wiz.val = Nothing) THEN Off /\ UNCHANGED <<chip, account>>
     ELSE \E set, got \in BOOLEAN :
            /\ got => set
            /\ chip' = IF set THEN [chip EXCEPT !.pass = wiz.val] ELSE chip
            /\ account' = IF got THEN AccountOf(chip') ELSE account
            /\ steps' = IF SavedWhen(set, got) THEN Push(Pop(steps), "WALLET_NAME_TIPS") ELSE steps
            /\ UNCHANGED dlg
  /\ OnlyWizard /\ UNCHANGED <<wiz, active, from, qr, strayed>>

PhraseDone ==
  /\ At("phrase", "WALLET_NAME_TIPS")
  /\ Ends /\ ChangeWindow("MAINPANEL")
  /\ UNCHANGED <<chip, account, active, from, qr, strayed, history, Requests>>

-----------------------------------------------------------------------------
(* SettingWin                                                               *)

Settings == Idle /\ cur = "SETTING"

SettingLeft == /\ Settings
               /\ \E w \in {"MAINPANEL", "PASSPHRASE", "VERIFY"} : ChangeWindow(w)
               /\ UNCHANGED <<modal, gvars, history, Requests>>

\* changePassword: the old PIN, and a new one twice
ChangeStarts ==
  /\ Settings /\ modal' = "setting"
  /\ dlg' = [kind |-> "change", old |-> FALSE, first |-> Nothing]
  /\ UNCHANGED <<cur, todo, steps, wiz, chip, account, active, from, qr, strayed, history, Requests>>

NewPin(p) == p \in Pins /\ PinOk(p)

ChangeTyped ==
  /\ In("change")
  /\ \/ ~dlg.old /\ chip # Nothing /\ dlg' = [dlg EXCEPT !.old = TRUE]
     \/ /\ dlg.old
        /\ \E p \in Pins : /\ NewPin(p) /\ p # dlg.first
                           /\ dlg' = [dlg EXCEPT !.first = IF @ = Nothing THEN p ELSE Nothing]
  /\ UNCHANGED <<cur, todo, modal, steps, wiz, chip, account, active, from, qr, strayed, history,
                 Requests>>

\* The second PIN is the first: the chip changes it, or refuses; or a key leaves.
ChangeEnds ==
  /\ In("change") /\ modal' = "none" /\ dlg' = NoDialog
  /\ \/ UNCHANGED chip
     \/ dlg.first # Nothing /\ chip' = [chip EXCEPT !.pin = dlg.first]
  /\ UNCHANGED <<cur, todo, steps, wiz, account, active, from, qr, strayed, history, Requests>>

ChangeErases ==
  /\ In("change") /\ ~dlg.old /\ chip # Nothing
  /\ Erased /\ modal' = "none" /\ dlg' = NoDialog /\ ChangeWindow("GUIDE")
  /\ UNCHANGED <<steps, wiz, active, from, qr, strayed, history, Requests>>

\* resetDevice
ResetStarts ==
  /\ Settings /\ modal' = "reset"
  /\ UNCHANGED <<cur, todo, gvars, history, Requests>>

ResetDone ==
  /\ modal = "reset" /\ Erased
  /\ \/ modal' = "none" /\ ChangeWindow("GUIDE")
     \/ UNCHANGED <<modal, cur, todo>>
  /\ UNCHANGED <<steps, wiz, dlg, active, from, qr, strayed, history, Requests>>

\* Cancel, which is also offered after the data could not be formatted: the settings stay
\* open, and the main panel is behind them, without a wallet.
ResetLeft ==
  /\ modal = "reset" /\ modal' = "none" /\ strayed' = (strayed \/ account = Nothing)
  /\ UNCHANGED <<cur, todo, steps, wiz, dlg, chip, account, active, from, qr, history, Requests>>

WizardNext ==
  \/ WizardStarts("PASSPHRASE", "phrase", "PASSPHRASE_TIPS")
  \/ WizardStarts("VERIFY", "verify", "VERIFY_TIPS")
  \/ WizardLeft \/ WizardOnward \/ WizardBackward \/ ActionDetected \/ TypeSelected
  \/ PinPassed \/ PinRefused \/ PinErases
  \/ WizardCount \/ VerifyStarts \/ WordsDiffer \/ WordsKept \/ WordsVerified
  \/ PhraseStarts \/ PhraseTyped \/ PhraseConfirmed \/ PhraseLeft \/ PhraseSaved \/ PhraseDone
  \/ SettingLeft \/ ChangeStarts \/ ChangeTyped \/ ChangeEnds \/ ChangeErases
  \/ ResetStarts \/ ResetDone \/ ResetLeft

-----------------------------------------------------------------------------
\* The account the application has is the one of the chip, its passphrase included, but
\* for a passphrase that is in the chip and not recorded: the wizard does not leave the
\* step that records it.  A passphrase was typed twice and is well formed, the chip keeps
\* the words it goes with, and the PIN passes the test of PINs.
ChipHasAccount ==
  /\ account # Nothing =>
       /\ chip # Nothing /\ chip.words = account.words /\ PinOk(chip.pin)
       /\ AccountOf(chip) = account \/ At("phrase", "SAVE_PASSPHRASE")
  /\ chip # Nothing /\ chip.pass # Nothing => chip.keeps
  /\ At("phrase", "SAVE_PASSPHRASE") =>
       \/ wiz.type = 1 /\ wiz.val = Nothing
       \/ wiz.type = 2 /\ PhraseOk(wiz.val) /\ wiz.typed = <<wiz.val, wiz.val>>
=============================================================================
