---------------------------- MODULE DeviceSession -----------------------------
(***************************************************************************)
(* The device from one start to the next: which window opens first, the     *)
(* main panel and the scan window between the wizards and the requests, the *)
(* window that handles what is not a request for a signature (QrProcWin),   *)
(* and power losses.  SignSession and PassphraseGuide have the rest; they   *)
(* share the GUI thread: cur, todo and modal.                               *)
(***************************************************************************)
EXTENDS SignSession, PassphraseGuide

vars == <<svars, gvars>>

\* There are words and a PIN a device can have.
ASSUME FirstAssumption == Mnemonics # {} /\ \E p \in Pins : PinOk(p)

\* The wallet of a device that had one when it was started; PIN and words are of no
\* matter to the requests.
FirstChip(keeps) ==
  [words |-> CHOOSE m \in Mnemonics : TRUE, pass |-> Nothing,
   pin |-> CHOOSE p \in Pins : PinOk(p), keeps |-> keeps]

\* GuiMain: a device with a seed opens the main panel, one without it the guide.
BootWindow(a) == IF a # Nothing THEN "MAINPANEL" ELSE "GUIDE"

Init ==
  /\ SessionInit
  /\ steps = << >> /\ wiz = NoWizard /\ dlg = NoDialog /\ from = Nothing /\ qr = "none"
  /\ strayed = FALSE
  /\ \/ NoWallet /\ active \in [done : BOOLEAN, step : {0}]
     \/ /\ chip \in {FirstChip(keeps) : keeps \in BOOLEAN} /\ account = AccountOf(chip)
        /\ active = [done |-> TRUE, step |-> 0]
  /\ cur = BootWindow(account)

\* Bound: settings, wizards and power losses come before the first request, and requests
\* are scanned with the wallet of the start.
Unscanned == last = Nothing /\ req = Nothing
Signable == /\ chip = FirstChip(TRUE) /\ account = AccountOf(chip)
            /\ active = [done |-> TRUE, step |-> 0]

-----------------------------------------------------------------------------
(* MainPanel::onEntranceClicked                                             *)

PanelScan == /\ req = Nothing /\ Scan /\ from' = cur
             /\ UNCHANGED <<uvars, req, page, steps, wiz, dlg, chip, account, active, qr, strayed>>

PanelHistory == /\ req = Nothing /\ account # Nothing /\ HistoryKey
                /\ UNCHANGED <<uvars, req, page, gvars>>

PanelSetting ==
  /\ Unscanned /\ Idle /\ cur = "MAINPANEL" /\ ChangeWindow("SETTING")
  /\ UNCHANGED <<modal, history, Requests, uvars, req, page, gvars>>

-----------------------------------------------------------------------------
(* ScanQrCode, GuiMain::onQrResult and QrProcWin                            *)

\* The main panel, whatever was open before
BackToPanel == "MAINPANEL"

\* The window the camera was opened from
BackFrom == from

\* A key; the window it goes back to is forgotten when the scan window is paused.
ScanLeaves ==
  /\ req = Nothing /\ ScanLeft(BackFrom) /\ from' = Nothing
  /\ UNCHANGED <<uvars, req, page, steps, wiz, dlg, chip, account, active, qr, strayed>>

\* A request, which needs a seed
ScanRequest ==
  /\ req = Nothing /\ Signable
  /\ (\E c \in Classes : ScanSingle(c)) \/ (\E c \in Batches : ScanBatch(c))
  /\ from' = Nothing
  /\ UNCHANGED <<uvars, req, page, steps, wiz, dlg, chip, account, active, qr, strayed>>

\* The first one is of some coin
ScanFirst ==
  /\ First /\ Signable
  /\ \E coin \in Coins : \E r \in RequestsOf(coin) : Called(r)
  /\ UNCHANGED gvars

ViewRuns == (Sums \/ Returns) /\ UNCHANGED gvars

FirstGoes == /\ Goes /\ from' = Nothing
             /\ UNCHANGED <<steps, wiz, dlg, chip, account, active, qr, strayed>>

\* What cannot be decoded, or is for another version or account, with or without a seed
ScanBad ==
  /\ Unscanned /\ Idle /\ cur = "SCAN"
  /\ qr' = "error" /\ from' = Nothing /\ ChangeWindow("QRPROC")
  /\ UNCHANGED <<modal, history, Requests, uvars, req, page, steps, wiz, dlg, chip, account,
                 active, strayed>>

\* The code of the activation, to a device without a wallet
ScanActivation ==
  /\ Unscanned /\ Idle /\ cur = "SCAN" /\ account = Nothing
  /\ qr' = "active" /\ from' = Nothing /\ ChangeWindow("QRPROC")
  /\ UNCHANGED <<modal, history, Requests, uvars, req, page, steps, wiz, dlg, chip, account,
                 active, strayed>>

QrResumes ==
  /\ Handles("resume", "QRPROC") /\ modal' = "qr"
  /\ UNCHANGED <<history, Requests, uvars, req, page, gvars>>

\* A phone is paired, or asks for public keys, with a wallet.
ScanPairing ==
  /\ Unscanned /\ Idle /\ cur = "SCAN" /\ account # Nothing
  /\ qr' \in {"bind", "pubkey"} /\ from' = Nothing /\ ChangeWindow("QRPROC")
  /\ UNCHANGED <<modal, history, Requests, uvars, req, page, steps, wiz, dlg, chip, account,
                 active, strayed>>

\* onQrError: to the main panel, from wherever the scan window was opened
QrErrorClosed ==
  /\ modal = "qr" /\ qr = "error"
  /\ modal' = "none" /\ qr' = "none" /\ ChangeWindow("MAINPANEL")
  /\ strayed' = (strayed \/ account = Nothing)
  /\ UNCHANGED <<history, Requests, uvars, req, page, steps, wiz, dlg, chip, account, active, from>>

\* procUserActive: the guide goes on, behind the activation or in it
QrActivates ==
  /\ modal = "qr" /\ qr = "active"
  /\ modal' = "none" /\ qr' = "none" /\ ChangeWindow("GUIDE")
  /\ active' \in {active, [done |-> TRUE, step |-> 2]}
  /\ UNCHANGED <<history, Requests, uvars, req, page, steps, wiz, dlg, chip, account, from, strayed>>

Pairing == modal = "qr" /\ qr \in {"bind", "pubkey"}

\* confirmBindAccount and confirmGetPubkey: answered, cancelled or failed, and the main
\* panel again; a message that says nothing useful leaves the window open for a key.
QrAnswers ==
  /\ Pairing /\ modal' = "none" /\ qr' = "none"
  /\ ChangeWindow("MAINPANEL") \/ UNCHANGED <<cur, todo>>
  /\ UNCHANGED <<history, Requests, uvars, req, page, steps, wiz, dlg, chip, account, active,
                 from, strayed>>

QrLeft ==
  /\ Idle /\ cur = "QRPROC" /\ qr = "none" /\ req = Nothing /\ ChangeWindow("MAINPANEL")
  /\ UNCHANGED <<modal, history, Requests, uvars, req, page, gvars>>

-----------------------------------------------------------------------------
(* A PIN that is wrong too often, asked for outside of the wizards; bound:  *)
(* not the one for a signature, behind which there is only the guide.       *)

\* passwdKeyboard has opened the guide, and its caller opens the main panel before the guide
\* gets to run: it does then, over the panel.  The handlers of the two changes that are
\* queued besides do nothing that matters here.
PanelAnyway == Erased /\ cur' = "MAINPANEL" /\ GuideOpens /\ strayed' = TRUE
               /\ UNCHANGED <<todo, dlg, from, history, Requests, uvars, req, page>>

\* SignHistoryWin::onResume
HistoryErases == Unscanned /\ modal = "select" /\ PanelAnyway /\ UNCHANGED qr

\* confirmBindAccount
BindErases == Pairing /\ qr = "bind" /\ PanelAnyway /\ qr' = "none"

\* confirmGetPubkey looks whether there still is a wallet.
PubkeyErases ==
  /\ Pairing /\ qr = "pubkey"
  /\ Erased /\ modal' = "none" /\ qr' = "none" /\ ChangeWindow("GUIDE")
  /\ UNCHANGED <<history, Requests, uvars, req, page, steps, wiz, dlg, active, from, strayed>>

\* Handlers of these windows that change nothing
QuietHandler ==
  /\ \/ \E w \in {"GUIDE", "SETTING", "PASSPHRASE", "VERIFY", "QRPROC"} : Handles("pause", w)
     \/ Handles("resume", "SETTING")
  /\ UNCHANGED <<modal, history, Requests, uvars, req, page, gvars>>

-----------------------------------------------------------------------------
\* A power loss at any point, and the next start: wallet_init_check drops the record
\* of an account the chip does not have (WalletSeed has its steps).
Restart ==
  /\ Unscanned
  /\ account' = IF chip # Nothing /\ account = AccountOf(chip) THEN account ELSE Nothing
  /\ cur' = BootWindow(account') /\ todo' = <<Call("resume", cur')>> /\ modal' = "none"
  /\ steps' = << >> /\ wiz' = NoWizard /\ dlg' = NoDialog /\ from' = Nothing /\ qr' = "none"
  /\ active' = [active EXCEPT !.step = 0] /\ strayed' = FALSE /\ history' = "none"
  /\ UNCHANGED <<Requests, uvars, req, page, chip>>

Next ==
  \/ PanelScan \/ PanelHistory \/ PanelSetting
  \/ ScanLeaves \/ ScanRequest \/ ScanFirst \/ ViewRuns \/ FirstGoes
  \/ ScanBad \/ ScanActivation \/ ScanPairing \/ QrResumes \/ QrErrorClosed \/ QrActivates
  \/ QrAnswers \/ QrLeft \/ HistoryErases \/ BindErases \/ PubkeyErases \/ QuietHandler
  \/ Windows /\ UNCHANGED gvars
  \/ (GuideNext \/ WizardNext) /\ UNCHANGED <<uvars, req, page>>
  \/ Restart

Spec == Init /\ [][Next]_vars

-----------------------------------------------------------------------------
\* The main panel is of a device with a wallet.  There are four ways around it: a code
\* that cannot be read while the activation is scanned, a reset whose last part fails and
\* is then given up, and a PIN wrong too often, asked for before the history or to pair a
\* phone: these two open the main panel behind the guide.
PanelHasSeed == cur = "MAINPANEL" /\ account = Nothing => strayed
=============================================================================
